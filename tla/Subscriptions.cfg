CONSTANTS
  r1 = r1
  r2 = r2
  r3 = r3
  Users = {"u1"}
  Targets = {"t1"}
  Requests = {r1, r2, r3}
SPECIFICATION SubSpec
INVARIANTS SubTypeOK AnswersWereTrue
PROPERTY MutesStick
SYMMETRY RequestSymmetry
CHECK_DEADLOCK FALSE
