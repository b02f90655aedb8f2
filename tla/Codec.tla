-------------------------------- MODULE Codec -------------------------------
(***************************************************************************)
(* What the codec is to do, over Wire: which values a Go variable of a     *)
(* type holds, what the other side is to make of them, which items are     *)
(* canonical, and what the generator makes sure of in a message.           *)
(***************************************************************************)
EXTENDS Wire

\* The canonical order of map keys: the shorter first, then letter by letter.
Letters == "_abcdefghijklmnopqrstuvwxyz"
Rank(key, i) ==
  CHOOSE r \in 1..Len(Letters) : SubSeq(Letters, r, r) = SubSeq(key, i, i)
Before(a, b) ==
  \/ Len(a) < Len(b)
  \/ /\ Len(a) = Len(b)
     /\ \E i \in 1..Len(a) :
          /\ \A j \in 1..i - 1 : Rank(a, j) = Rank(b, j)
          /\ Rank(a, i) < Rank(b, i)

\* The types of the interface, by how deep they nest: the fields of a message
\* are in canonical order, which also tells them apart.
Formed(type) ==
  CASE type.is = "list" -> TRUE
    [] type.is = "message" ->
         /\ Len(type.of) \in Nat /\ DOMAIN type.of = 1..Len(type.of)
         /\ \A i, j \in DOMAIN type.of :
              i < j <=> Before(type.of[i].key, type.of[j].key)
    [] OTHER -> type.is \in {"text", "enum", "uint", "bool", "time"}
Slots(type) ==
  CASE type.is = "list" -> {"element"}
    [] type.is = "message" -> KeysOf(type)
    [] OTHER -> {}

IsType0(type) == Formed(type) /\ type.is \notin {"list", "message"}
IsType1(type) ==
  Formed(type) /\ \A x \in Slots(type) : IsType0(PartType(type, x))
IsType2(type) ==
  Formed(type) /\ \A x \in Slots(type) : IsType1(PartType(type, x))
IsType3(type) ==
  Formed(type) /\ \A x \in Slots(type) : IsType2(PartType(type, x))
IsType(type) ==
  Formed(type) /\ \A x \in Slots(type) : IsType3(PartType(type, x))

-----------------------------------------------------------------------------
\* The elements of a list and the fields of a message that are there.
Whole(type, v) ==
  CASE type.is = "list" -> IF v = Nil THEN {} ELSE DOMAIN v
    [] type.is = "message" ->
         {k \in KeysOf(type) : ~(FieldAt(type, k).optional /\ v[k] = Nil)}
    [] OTHER -> {}

\* A value a Go variable of the type can hold.
Shape(type, v) ==
  CASE type.is \in {"text", "time"} -> v # Nil
    [] type.is = "enum" -> v \in type.of
    [] type.is = "uint" -> v \in [1..8 -> 0..255]
    [] type.is = "bool" -> v \in BOOLEAN
    [] type.is = "list" -> TRUE
    [] type.is = "message" -> DOMAIN v = KeysOf(type)

OfType1(type, v) ==
  Shape(type, v) /\ \A x \in Whole(type, v) : Shape(PartType(type, x), v[x])
OfType2(type, v) ==
  Shape(type, v) /\ \A x \in Whole(type, v) : OfType1(PartType(type, x), v[x])
OfType3(type, v) ==
  Shape(type, v) /\ \A x \in Whole(type, v) : OfType2(PartType(type, x), v[x])
OfType(type, v) ==
  Shape(type, v) /\ \A x \in Whole(type, v) : OfType3(PartType(type, x), v[x])

\* The reference: what the other side is to make of a value.  A nil slice
\* becomes an empty one, unless its field is optional.
ReceivedWith(type, v, parts) ==
  CASE type.is = "list" -> parts
    [] type.is = "message" ->
         [k \in KeysOf(type) |-> IF k \in DOMAIN parts THEN parts[k] ELSE Nil]
    [] OTHER -> v

Received1(type, v) ==
  ReceivedWith(type, v, [x \in Whole(type, v) |-> v[x]])
Received2(type, v) ==
  ReceivedWith(type, v, [x \in Whole(type, v) |->
                           Received1(PartType(type, x), v[x])])
Received3(type, v) ==
  ReceivedWith(type, v, [x \in Whole(type, v) |->
                           Received2(PartType(type, x), v[x])])
Received(type, v) ==
  ReceivedWith(type, v, [x \in Whole(type, v) |->
                           Received3(PartType(type, x), v[x])])

-----------------------------------------------------------------------------
\* An item whose maps, whatever they are in, have their keys in canonical order.
Ordered(item) ==
  item.major = "map" =>
    \A i, j \in DOMAIN item.entries :
      i < j => Before(item.entries[i].key, item.entries[j].key)
Inside(item) ==
  CASE item.major = "map" -> [i \in DOMAIN item.entries |-> item.entries[i].val]
    [] item.major = "array" -> item.items
    [] OTHER -> <<>>

InOrder0(item) == item.major \notin {"map", "array"}
InOrder1(item) ==
  Ordered(item) /\ \A i \in DOMAIN Inside(item) : InOrder0(Inside(item)[i])
InOrder2(item) ==
  Ordered(item) /\ \A i \in DOMAIN Inside(item) : InOrder1(Inside(item)[i])
InOrder3(item) ==
  Ordered(item) /\ \A i \in DOMAIN Inside(item) : InOrder2(Inside(item)[i])
KeysInOrder(item) ==
  Ordered(item) /\ \A i \in DOMAIN Inside(item) : InOrder3(Inside(item)[i])
=============================================================================
