-------------------------------- MODULE Wire --------------------------------
(***************************************************************************)
(* The codec of the RPC interface: values of Go types to CBOR items and    *)
(* back (api/internal/csil/codec.gen.go).                                  *)
(*                                                                         *)
(* Texts and times are opaque.  An unsigned integer is its eight bytes,    *)
(* most significant first, because its encoding depends on its width.      *)
(* Nil is a nil pointer or a nil slice.  The entries of a map stand at     *)
(* integers in their order, with gaps where a field is left out.           *)
(***************************************************************************)
EXTENDS Integers, Sequences, Schema

CONSTANT Nil

\* What a decoder answers: a value, or that there is none.
Good(val) == [ok |-> TRUE, val |-> val]
Bad == [ok |-> FALSE]

\* A message field by field: its keys, and the field of each.
KeysOf(type) == {type.of[i].key : i \in DOMAIN type.of}
FieldAt(type, key) ==
  type.of[CHOOSE i \in DOMAIN type.of : type.of[i].key = key]

\* The type of an element of a list, of the field of a message.
PartType(type, x) ==
  IF type.is = "list" THEN type.of ELSE FieldAt(type, x).type

-----------------------------------------------------------------------------
\* Numbers.  The head of an item is its additional information and argument.

Zero(n, upto) == \A i \in 1..upto : n[i] = 0
LowBytes(n, count) == [i \in 1..count |-> n[8 - count + i]]

\* The shortest head that holds the number.
CborHead(n) ==
  IF Zero(n, 7) /\ n[8] < 24 THEN [low |-> n[8], arg |-> <<>>]
  ELSE IF Zero(n, 7) THEN [low |-> 24, arg |-> LowBytes(n, 1)]
  ELSE IF Zero(n, 6) THEN [low |-> 25, arg |-> LowBytes(n, 2)]
  ELSE IF Zero(n, 4) THEN [low |-> 26, arg |-> LowBytes(n, 4)]
  ELSE [low |-> 27, arg |-> LowBytes(n, 8)]

\* How many bytes of argument follow additional information of 24 to 27.
ArgBytes(low) ==
  IF low = 24 THEN 1 ELSE IF low = 25 THEN 2 ELSE IF low = 26 THEN 4 ELSE 8

CborReadArg(head) ==
  IF head.low < 24 THEN Good([i \in 1..8 |-> IF i = 8 THEN head.low ELSE 0])
  ELSE LET count == ArgBytes(head.low) IN
       IF head.low <= 27 /\ DOMAIN head.arg = 1..count
       THEN Good([i \in 1..8 |->
                    IF i > 8 - count THEN head.arg[i - 8 + count] ELSE 0])
       ELSE Bad

-----------------------------------------------------------------------------
\* Encoding: the csilEnc functions, cborEncArray, csilEncTimestamp.

\* Mutant: as with omitempty, an empty list is left out too.
PresentNonEmpty(type, v) ==
  {k \in KeysOf(type) : FieldAt(type, k).optional =>
     v[k] # Nil /\ (FieldAt(type, k).type.is = "list" => Len(v[k]) > 0)}

\* A field is left out when it is optional and nil, and only then: an empty
\* list that is not nil is sent.
Present(type, v) ==
  {k \in KeysOf(type) : FieldAt(type, k).optional => v[k] # Nil}

\* What of a value is encoded by itself: its elements, or its fields.
Parts(type, v) ==
  CASE type.is = "list" -> IF v = Nil THEN {} ELSE DOMAIN v
    [] type.is = "message" -> Present(type, v)
    [] OTHER -> {}

Entry(type, i, parts) ==
  [key |-> type.of[i].key, val |-> parts[type.of[i].key]]

\* Mutant: optional fields are appended when the others are laid down.
EntriesOptionalLast(type, parts) ==
  LET n == Len(type.of)
      at(i) == IF type.of[i].optional THEN i + n ELSE i
  IN [j \in {at(i) : i \in {i \in 1..n : type.of[i].key \in DOMAIN parts}} |->
        Entry(type, IF j > n THEN j - n ELSE j, parts)]

\* Fields are laid down in the order of the schema.
Entries(type, parts) ==
  [i \in {i \in DOMAIN type.of : type.of[i].key \in DOMAIN parts} |->
     Entry(type, i, parts)]

Enc0(type, v) ==
  CASE type.is \in {"text", "enum"} -> [major |-> "text", text |-> v]
    [] type.is = "uint" -> [major |-> "uint", head |-> CborHead(v)]
    [] type.is = "bool" -> [major |-> "bool", bool |-> v]
    [] type.is = "time" ->
         [major |-> "tag", num |-> 0,
          inner |-> [major |-> "text", text |-> v]]

EncWith(type, v, parts) ==
  CASE type.is = "list" -> [major |-> "array", items |-> parts]
    [] type.is = "message" -> [major |-> "map", entries |-> Entries(type, parts)]
    [] OTHER -> Enc0(type, v)

\* The interface nests four deep: a page, the list in it, the messages of the
\* list, the lists in these.
Enc1(type, v) ==
  EncWith(type, v, [x \in Parts(type, v) |-> Enc0(PartType(type, x), v[x])])
Enc2(type, v) ==
  EncWith(type, v, [x \in Parts(type, v) |-> Enc1(PartType(type, x), v[x])])
Enc3(type, v) ==
  EncWith(type, v, [x \in Parts(type, v) |-> Enc2(PartType(type, x), v[x])])
Enc(type, v) ==
  EncWith(type, v, [x \in Parts(type, v) |-> Enc3(PartType(type, x), v[x])])

-----------------------------------------------------------------------------
\* Decoding: the csilDec functions, cborDecArray, csilAsTimestamp.

\* The first entry of that key; an item that is no map has none.
CborMapGet(item, key) ==
  LET at == {i \in DOMAIN item.entries : item.entries[i].key = key} IN
  IF item.major # "map" \/ at = {} THEN Bad
  ELSE Good(item.entries[CHOOSE i \in at : \A j \in at : i <= j].val)

\* Mutant: a required field that is missing keeps its zero value.
ZeroIfMissing(field) == Good(Nil)

\* cborRequire fails, cborMapGet does not.
Missing(field) == IF field.optional THEN Good(Nil) ELSE Bad

\* Nothing is decoded unless everything is.
AllOrNothing(parts) ==
  IF \A x \in DOMAIN parts : parts[x].ok
  THEN Good([x \in DOMAIN parts |-> parts[x].val]) ELSE Bad

\* What of an item is decoded by itself.
ItemParts(type, item) ==
  CASE type.is = "list" -> IF item.major = "array" THEN DOMAIN item.items ELSE {}
    [] type.is = "message" -> {k \in KeysOf(type) : CborMapGet(item, k).ok}
    [] OTHER -> {}
ItemPart(type, item, x) ==
  IF type.is = "list" THEN item.items[x] ELSE CborMapGet(item, x).val

Dec0(type, item) ==
  CASE type.is = "text" /\ item.major = "text" -> Good(item.text)
    [] type.is = "enum" /\ item.major = "text" ->
         IF item.text \in type.of THEN Good(item.text) ELSE Bad
    [] type.is = "uint" /\ item.major = "uint" -> CborReadArg(item.head)
    [] type.is = "bool" /\ item.major = "bool" -> Good(item.bool)
    [] type.is = "time" /\ item.major = "tag" ->
         IF item.num = 0 /\ item.inner.major = "text"
         THEN Good(item.inner.text) ELSE Bad
    [] OTHER -> Bad

DecWith(type, item, parts) ==
  CASE type.is = "list" ->
         IF item.major = "array" THEN AllOrNothing(parts) ELSE Bad
    [] type.is = "message" ->
         AllOrNothing([k \in KeysOf(type) |->
           IF k \in DOMAIN parts THEN parts[k] ELSE Missing(FieldAt(type, k))])
    [] OTHER -> Dec0(type, item)

Dec1(type, item) ==
  DecWith(type, item, [x \in ItemParts(type, item) |->
                         Dec0(PartType(type, x), ItemPart(type, item, x))])
Dec2(type, item) ==
  DecWith(type, item, [x \in ItemParts(type, item) |->
                         Dec1(PartType(type, x), ItemPart(type, item, x))])
Dec3(type, item) ==
  DecWith(type, item, [x \in ItemParts(type, item) |->
                         Dec2(PartType(type, x), ItemPart(type, item, x))])
Dec(type, item) ==
  DecWith(type, item, [x \in ItemParts(type, item) |->
                         Dec3(PartType(type, x), ItemPart(type, item, x))])
=============================================================================
