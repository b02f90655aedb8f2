\* Two calls in flight, one of them any operation with any sample; nothing is
\* bounded, since a call that is done is forgotten.
CONSTANTS
  main = main
  second = second
  Callers = {main, second}
  Foreign = {main}
  Nil = Nil
  OpsOf <- MCOpsOf
  Values <- MCValues
  Others <- MCOthers

SPECIFICATION Spec
INVARIANTS
  TypeOK
  EndToEnd
  Canonical
PROPERTIES
  Drained
  Stops
CHECK_DEADLOCK FALSE
