------------------------------- MODULE MCRpc --------------------------------
(***************************************************************************)
(* One caller uses every operation with every sample of its messages, the  *)
(* other is there to be in flight with it.                                 *)
(***************************************************************************)
EXTENDS RpcProps

CONSTANTS main, second

RECURSIVE Samples(_, _)

\* Either side of every change of width, and the largest.
Uints ==
  {<<0, 0, 0, 0, 0, 0, 0, 23>>, <<0, 0, 0, 0, 0, 0, 0, 24>>,
   <<0, 0, 0, 0, 0, 0, 0, 255>>, <<0, 0, 0, 0, 0, 0, 1, 0>>,
   <<0, 0, 0, 0, 0, 0, 255, 255>>, <<0, 0, 0, 0, 0, 1, 0, 0>>,
   <<0, 0, 0, 0, 255, 255, 255, 255>>, <<0, 0, 0, 1, 0, 0, 0, 0>>,
   [i \in 1..8 |-> 255]}

MCOpsOf ==
  [c \in Callers |->
     IF c = main THEN UNION {{s} \X DOMAIN Client[s] : s \in DOMAIN Client}
     ELSE {<<"AuthService", "logout">>}]

\* The values that are sent: every field takes each of its values in turn, with
\* the optional fields around it all there or all nil.
Samples(type, key) ==
  CASE type.is \in {"text", "time"} -> {key}
    [] type.is = "enum" -> type.of
    [] type.is = "uint" -> Uints
    [] type.is = "bool" -> BOOLEAN
    [] type.is = "list" ->
         {Nil, <<>>} \cup {<<v>> : v \in Samples(type.of, key)}
    [] type.is = "message" ->
         LET some == [k \in KeysOf(type) |->
                        CHOOSE v \in Samples(FieldAt(type, k).type, k) :
                          FieldAt(type, k).type.is = "list" => v # Nil /\ Len(v) = 1]
             bare == [k \in KeysOf(type) |->
                        IF FieldAt(type, k).optional THEN Nil ELSE some[k]]
         IN {some, bare} \cup
            UNION {{[base EXCEPT ![k] = v] :
                      v \in Samples(FieldAt(type, k).type, k),
                      base \in {some, bare}} : k \in KeysOf(type)}

\* The errors of services: their optional fields are there when they are set.
AppErrors ==
  {[code |-> <<0, 0, 0, 0, 0, 0, 0, 6>>, message |-> "message",
    field |-> field, resource_type |-> resource] :
     field \in {Nil, "field"}, resource \in {Nil, "resource"}}

MCValues(type) ==
  IF type.is = "message" /\ KeysOf(type) = KeysOf(ServiceError) THEN AppErrors
  ELSE Samples(type, "value")

\* One of them, with all its fields.
MCOthers(type) ==
  {CHOOSE v \in MCValues(type) :
     IF type.is = "message" THEN \A k \in KeysOf(type) : v[k] # Nil ELSE v # Nil}
=============================================================================
