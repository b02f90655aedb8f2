----------------------------- MODULE RpcProofs ------------------------------
(***************************************************************************)
(* Proofs about Rpc, for any callers and any values of the interface's     *)
(* types.  The codec first, one level of nesting for all: what is put      *)
(* together from parts that round-trip does so too.  Then the four levels, *)
(* and the calls over them.                                                *)
(***************************************************************************)
EXTENDS RpcProps, WellFoundedInduction, TLAPS

-----------------------------------------------------------------------------
\* Numbers.

\* No number loses a byte (cborHead, cborReadArg).
LEMMA NumberRoundTrip ==
  ASSUME NEW n \in [1..8 -> 0..255]
  PROVE  CborReadArg(CborHead(n)) = Good(n)
<1>1. \A count \in {1, 2, 4, 8} : DOMAIN LowBytes(n, count) = 1..count
  BY DEF LowBytes
<1>2. ASSUME NEW low \in 24..27, Zero(n, 8 - ArgBytes(low))
      PROVE  CborReadArg([low |-> low, arg |-> LowBytes(n, ArgBytes(low))])
               = Good(n)
  <2> DEFINE count == ArgBytes(low)
             arg == LowBytes(n, count)
             read == [i \in 1..8 |-> IF i > 8 - count THEN arg[i - 8 + count]
                                     ELSE 0]
  <2>1. count \in {1, 2, 4, 8}
    BY DEF ArgBytes
  <2>2. ASSUME NEW i \in 1..8 PROVE read[i] = n[i]
    <3>1. CASE i > 8 - count
      <4>1. /\ i - 8 + count \in 1..count
            /\ 8 - count + (i - 8 + count) = i
        BY <2>1, <3>1
      <4>2. arg[i - 8 + count] = n[8 - count + (i - 8 + count)]
        BY <4>1 DEF LowBytes
      <4> QED BY <3>1, <4>1, <4>2
    <3>2. CASE ~(i > 8 - count)
      BY <1>2, <2>1, <3>2 DEF Zero
    <3> QED BY <3>1, <3>2
  <2>3. read = n
    BY <2>2
  <2>4. DOMAIN arg = 1..count
    BY <1>1, <2>1
  <2> QED
    BY <2>3, <2>4 DEF CborReadArg
<1>3. ASSUME Zero(n, 7), n[8] < 24
      PROVE  CborReadArg([low |-> n[8], arg |-> <<>>]) = Good(n)
  <2> DEFINE read == [i \in 1..8 |-> IF i = 8 THEN n[8] ELSE 0]
  <2>1. \A i \in 1..8 : read[i] = n[i]
    BY <1>3 DEF Zero
  <2>2. read = n
    BY <2>1
  <2> QED
    BY <1>3, <2>2 DEF CborReadArg
<1>4. /\ ArgBytes(24) = 1 /\ ArgBytes(25) = 2
      /\ ArgBytes(26) = 4 /\ ArgBytes(27) = 8
  BY DEF ArgBytes
<1>5. Zero(n, 0)
  BY DEF Zero
<1> QED
  BY <1>2, <1>3, <1>4, <1>5 DEF CborHead

-----------------------------------------------------------------------------
\* The fields of a message.

\* A key belongs to one field.
LEMMA OneFieldPerKey ==
  ASSUME NEW type, type.is = "message", Formed(type),
         NEW i \in DOMAIN type.of, NEW j \in DOMAIN type.of,
         type.of[i].key = type.of[j].key
  PROVE  i = j
<1>1. i \in Int /\ j \in Int
  BY DEF Formed
<1>2. ~(i < j) /\ ~(j < i)
  BY DEF Formed
<1> QED BY <1>1, <1>2

LEMMA FieldOfKey ==
  ASSUME NEW type, type.is = "message", Formed(type), NEW i \in DOMAIN type.of
  PROVE  /\ FieldAt(type, type.of[i].key) = type.of[i]
         /\ type.of[i].key \in KeysOf(type)
BY OneFieldPerKey DEF FieldAt, KeysOf

LEMMA KeyOfField ==
  ASSUME NEW type, type.is = "message", Formed(type), NEW k \in KeysOf(type)
  PROVE  \E i \in DOMAIN type.of :
           type.of[i].key = k /\ FieldAt(type, k) = type.of[i]
BY FieldOfKey DEF KeysOf

-----------------------------------------------------------------------------
\* One level of the codec.

\* A scalar round-trips (the cborAs functions).
LEMMA ScalarRoundTrip ==
  ASSUME NEW type, IsType0(type), NEW v, Shape(type, v)
  PROVE  Dec0(type, Enc0(type, v)) = Good(v)
<1>1. type.is \in {"text", "enum", "uint", "bool", "time"}
  BY DEF IsType0, Formed
<1>2. CASE type.is = "text"
  BY <1>2 DEF Enc0, Dec0
<1>3. CASE type.is = "enum"
  BY <1>3 DEF Enc0, Dec0, Shape
<1>4. CASE type.is = "uint"
  <2>1. v \in [1..8 -> 0..255]
    BY <1>4 DEF Shape
  <2>2. Dec0(type, Enc0(type, v)) = CborReadArg(CborHead(v))
    BY <1>4 DEF Enc0, Dec0
  <2> QED BY <2>1, <2>2, NumberRoundTrip
<1>5. CASE type.is = "bool"
  BY <1>5 DEF Enc0, Dec0
<1>6. CASE type.is = "time"
  BY <1>6 DEF Enc0, Dec0
<1> QED
  BY <1>1, <1>2, <1>3, <1>4, <1>5, <1>6

\* What is encoded by itself is what is there (csilEnc functions).
LEMMA WholeIsEncoded ==
  ASSUME NEW type, NEW v
  PROVE  Whole(type, v) = Parts(type, v)
<1>1. CASE type.is = "list"
  BY <1>1 DEF Whole, Parts
<1>2. CASE type.is = "message"
  BY <1>2 DEF Whole, Parts, Present
<1>3. CASE type.is \notin {"list", "message"}
  BY <1>3 DEF Whole, Parts
<1> QED BY <1>1, <1>2, <1>3

\* A map has the entries that were laid down, each once.
LEMMA EntryFound ==
  ASSUME NEW type, type.is = "message", Formed(type),
         NEW parts, DOMAIN parts \subseteq KeysOf(type),
         NEW item, item = [major |-> "map", entries |-> Entries(type, parts)],
         NEW k \in KeysOf(type)
  PROVE  /\ k \in DOMAIN parts => CborMapGet(item, k) = Good(parts[k])
         /\ k \notin DOMAIN parts => CborMapGet(item, k) = Bad
<1> DEFINE at == {i \in DOMAIN item.entries : item.entries[i].key = k}
<1>1. PICK i \in DOMAIN type.of : type.of[i].key = k
  BY KeyOfField
<1>2. DOMAIN item.entries
        = {j \in DOMAIN type.of : type.of[j].key \in DOMAIN parts}
  BY DEF Entries
<1>3. \A j \in DOMAIN item.entries :
        item.entries[j] = [key |-> type.of[j].key, val |-> parts[type.of[j].key]]
  BY DEF Entries, Entry
<1>4. CASE k \in DOMAIN parts
  <2>1. at = {i}
    BY <1>1, <1>2, <1>3, <1>4, OneFieldPerKey
  <2>2. i \in Int
    BY <1>1 DEF Formed
  <2>3. (CHOOSE j \in at : \A l \in at : j <= l) = i
    BY <2>1, <2>2
  <2>4. item.entries[i].val = parts[k]
    BY <1>1, <1>2, <1>3, <1>4
  <2> QED
    BY <1>4, <2>1, <2>3, <2>4 DEF CborMapGet
<1>5. CASE k \notin DOMAIN parts
  <2>1. at = {}
    BY <1>2, <1>3, <1>5
  <2> QED
    BY <1>5, <2>1 DEF CborMapGet
<1> QED BY <1>4, <1>5

\* Decoding finds the parts that were encoded.
LEMMA PartsFound ==
  ASSUME NEW type, Formed(type), NEW v,
         NEW parts, DOMAIN parts = Parts(type, v)
  PROVE  LET item == EncWith(type, v, parts) IN
         /\ ItemParts(type, item) = Parts(type, v)
         /\ \A x \in Parts(type, v) : ItemPart(type, item, x) = parts[x]
<1> DEFINE item == EncWith(type, v, parts)
<1>1. CASE type.is = "list"
  BY <1>1 DEF EncWith, ItemParts, ItemPart
<1>2. CASE type.is = "message"
  <2>1. item = [major |-> "map", entries |-> Entries(type, parts)]
    BY <1>2 DEF EncWith
  <2>2. DOMAIN parts \subseteq KeysOf(type)
    BY <1>2 DEF Parts, Present
  <2> HIDE DEF item
  <2>3. \A k \in KeysOf(type) :
          /\ k \in DOMAIN parts => CborMapGet(item, k) = Good(parts[k])
          /\ k \notin DOMAIN parts => CborMapGet(item, k) = Bad
    BY <1>2, <2>1, <2>2, EntryFound
  <2>4. ItemParts(type, item) = Parts(type, v)
    BY <1>2, <2>2, <2>3 DEF ItemParts, Good, Bad
  <2>5. \A x \in Parts(type, v) : ItemPart(type, item, x) = parts[x]
    BY <1>2, <2>2, <2>3 DEF ItemPart, Good
  <2> QED BY <2>4, <2>5 DEF item
<1>3. CASE type.is \notin {"list", "message"}
  BY <1>3 DEF ItemParts, Parts
<1> QED BY <1>1, <1>2, <1>3

\* Parts that are all decoded are decoded together.
LEMMA AllDecoded ==
  ASSUME NEW S, NEW got, DOMAIN got = S,
         NEW back, back = [x \in S |-> back[x]],
         \A x \in S : got[x] = Good(back[x])
  PROVE  AllOrNothing(got) = Good(back)
<1>1. \A x \in S : got[x].ok /\ got[x].val = back[x]
  BY DEF Good
<1>2. [x \in DOMAIN got |-> got[x].val] = [x \in S |-> back[x]]
  BY <1>1
<1> QED
  BY <1>1, <1>2 DEF AllOrNothing

\* What is put together from parts that were decoded is the whole.
LEMMA WholeDecoded ==
  ASSUME NEW type, Formed(type), NEW v, Shape(type, v),
         NEW parts, DOMAIN parts = Parts(type, v),
         NEW back, DOMAIN back = Parts(type, v),
         back = [x \in Parts(type, v) |-> back[x]],
         NEW got, DOMAIN got = Parts(type, v),
         \A x \in Parts(type, v) : got[x] = Good(back[x])
  PROVE  DecWith(type, EncWith(type, v, parts), got)
           = Good(ReceivedWith(type, v, back))
<1>1. CASE type.is = "list"
  <2>1. AllOrNothing(got) = Good(back)
    BY AllDecoded
  <2> QED
    BY <1>1, <2>1 DEF DecWith, EncWith, ReceivedWith
<1>2. CASE type.is = "message"
  <2> DEFINE all == [k \in KeysOf(type) |->
                       IF k \in DOMAIN got THEN got[k]
                       ELSE Missing(FieldAt(type, k))]
             whole == [k \in KeysOf(type) |->
                         IF k \in DOMAIN back THEN back[k] ELSE Nil]
  <2>1. \A k \in KeysOf(type) : all[k] = Good(whole[k])
    BY <1>2 DEF Parts, Present, Missing
  <2>2. DOMAIN all = KeysOf(type) /\ whole = [k \in KeysOf(type) |-> whole[k]]
    OBVIOUS
  <2>3. DecWith(type, EncWith(type, v, parts), got) = AllOrNothing(all)
    BY <1>2 DEF DecWith
  <2>4. ReceivedWith(type, v, back) = whole
    BY <1>2 DEF ReceivedWith
  <2> HIDE DEF all, whole
  <2>5. AllOrNothing(all) = Good(whole)
    BY <2>1, <2>2, AllDecoded
  <2> QED
    BY <2>3, <2>4, <2>5
<1>3. CASE type.is \notin {"list", "message"}
  <2>1. IsType0(type)
    BY <1>3 DEF IsType0
  <2> QED
    BY <1>3, <2>1, ScalarRoundTrip DEF DecWith, EncWith, ReceivedWith
<1> QED BY <1>1, <1>2, <1>3


-----------------------------------------------------------------------------
\* The four levels.

\* The parts of a value are in the slots of its type.
LEMMA PartTyped ==
  ASSUME NEW type, NEW v, NEW x \in Parts(type, v)
  PROVE  \E y \in Slots(type) : PartType(type, x) = PartType(type, y)
<1>1. CASE type.is = "list"
  BY <1>1 DEF Slots, PartType
<1>2. CASE type.is = "message"
  BY <1>2 DEF Slots, Parts, Present
<1>3. CASE type.is \notin {"list", "message"}
  BY <1>3 DEF Parts
<1> QED BY <1>1, <1>2, <1>3

\* What one side encodes the other decodes, to what it is meant to be.
LEMMA RoundTrip1 ==
  ASSUME NEW type, IsType1(type), NEW v, OfType1(type, v)
  PROVE  Dec1(type, Enc1(type, v)) = Good(Received1(type, v))
<1> DEFINE P == Parts(type, v)
           parts == [x \in P |-> Enc0(PartType(type, x), v[x])]
           back == [x \in P |-> v[x]]
           item == EncWith(type, v, parts)
           got == [x \in ItemParts(type, item) |->
                     Dec0(PartType(type, x), ItemPart(type, item, x))]
<1>1. /\ Enc1(type, v) = item
      /\ Dec1(type, item) = DecWith(type, item, got)
      /\ Received1(type, v) = ReceivedWith(type, v, back)
  BY WholeIsEncoded DEF Enc1, Dec1, Received1
<1>2. /\ ItemParts(type, item) = P
      /\ \A x \in P : ItemPart(type, item, x) = parts[x]
  BY PartsFound DEF IsType1
<1>3. \A x \in P : IsType0(PartType(type, x)) /\ Shape(PartType(type, x), v[x])
  BY PartTyped, WholeIsEncoded DEF IsType1, OfType1
<1>4. \A x \in P : got[x] = Good(back[x])
  BY <1>2, <1>3, ScalarRoundTrip
<1>5. Formed(type) /\ Shape(type, v)
  BY DEF IsType1, OfType1
<1>6. /\ DOMAIN parts = P /\ DOMAIN back = P /\ DOMAIN got = P
      /\ back = [x \in P |-> back[x]]
  BY <1>2
<1> HIDE DEF parts, back, got
<1> QED
  BY <1>1, <1>4, <1>5, <1>6, WholeDecoded

LEMMA RoundTrip2 ==
  ASSUME NEW type, IsType2(type), NEW v, OfType2(type, v)
  PROVE  Dec2(type, Enc2(type, v)) = Good(Received2(type, v))
<1> DEFINE P == Parts(type, v)
           parts == [x \in P |-> Enc1(PartType(type, x), v[x])]
           back == [x \in P |-> Received1(PartType(type, x), v[x])]
           item == EncWith(type, v, parts)
           got == [x \in ItemParts(type, item) |->
                     Dec1(PartType(type, x), ItemPart(type, item, x))]
<1>1. /\ Enc2(type, v) = item
      /\ Dec2(type, item) = DecWith(type, item, got)
      /\ Received2(type, v) = ReceivedWith(type, v, back)
  BY WholeIsEncoded DEF Enc2, Dec2, Received2
<1>2. /\ ItemParts(type, item) = P
      /\ \A x \in P : ItemPart(type, item, x) = parts[x]
  BY PartsFound DEF IsType2
<1>3. \A x \in P : IsType1(PartType(type, x)) /\ OfType1(PartType(type, x), v[x])
  BY PartTyped, WholeIsEncoded DEF IsType2, OfType2
<1>4. \A x \in P : got[x] = Good(back[x])
  BY <1>2, <1>3, RoundTrip1
<1>5. Formed(type) /\ Shape(type, v)
  BY DEF IsType2, OfType2
<1>6. /\ DOMAIN parts = P /\ DOMAIN back = P /\ DOMAIN got = P
      /\ back = [x \in P |-> back[x]]
  BY <1>2
<1> HIDE DEF parts, back, got
<1> QED
  BY <1>1, <1>4, <1>5, <1>6, WholeDecoded

LEMMA RoundTrip3 ==
  ASSUME NEW type, IsType3(type), NEW v, OfType3(type, v)
  PROVE  Dec3(type, Enc3(type, v)) = Good(Received3(type, v))
<1> DEFINE P == Parts(type, v)
           parts == [x \in P |-> Enc2(PartType(type, x), v[x])]
           back == [x \in P |-> Received2(PartType(type, x), v[x])]
           item == EncWith(type, v, parts)
           got == [x \in ItemParts(type, item) |->
                     Dec2(PartType(type, x), ItemPart(type, item, x))]
<1>1. /\ Enc3(type, v) = item
      /\ Dec3(type, item) = DecWith(type, item, got)
      /\ Received3(type, v) = ReceivedWith(type, v, back)
  BY WholeIsEncoded DEF Enc3, Dec3, Received3
<1>2. /\ ItemParts(type, item) = P
      /\ \A x \in P : ItemPart(type, item, x) = parts[x]
  BY PartsFound DEF IsType3
<1>3. \A x \in P : IsType2(PartType(type, x)) /\ OfType2(PartType(type, x), v[x])
  BY PartTyped, WholeIsEncoded DEF IsType3, OfType3
<1>4. \A x \in P : got[x] = Good(back[x])
  BY <1>2, <1>3, RoundTrip2
<1>5. Formed(type) /\ Shape(type, v)
  BY DEF IsType3, OfType3
<1>6. /\ DOMAIN parts = P /\ DOMAIN back = P /\ DOMAIN got = P
      /\ back = [x \in P |-> back[x]]
  BY <1>2
<1> HIDE DEF parts, back, got
<1> QED
  BY <1>1, <1>4, <1>5, <1>6, WholeDecoded

\* The whole codec: a value of any type of the interface, encoded and decoded, is
\* what the other side is to make of it (EncodeX and DecodeX for each message X).
THEOREM RoundTrip ==
  ASSUME NEW type, IsType(type), NEW v, OfType(type, v)
  PROVE  Dec(type, Enc(type, v)) = Good(Received(type, v))
<1> DEFINE P == Parts(type, v)
           parts == [x \in P |-> Enc3(PartType(type, x), v[x])]
           back == [x \in P |-> Received3(PartType(type, x), v[x])]
           item == EncWith(type, v, parts)
           got == [x \in ItemParts(type, item) |->
                     Dec3(PartType(type, x), ItemPart(type, item, x))]
<1>1. /\ Enc(type, v) = item
      /\ Dec(type, item) = DecWith(type, item, got)
      /\ Received(type, v) = ReceivedWith(type, v, back)
  BY WholeIsEncoded DEF Enc, Dec, Received
<1>2. /\ ItemParts(type, item) = P
      /\ \A x \in P : ItemPart(type, item, x) = parts[x]
  BY PartsFound DEF IsType
<1>3. \A x \in P : IsType3(PartType(type, x)) /\ OfType3(PartType(type, x), v[x])
  BY PartTyped, WholeIsEncoded DEF IsType, OfType
<1>4. \A x \in P : got[x] = Good(back[x])
  BY <1>2, <1>3, RoundTrip3
<1>5. Formed(type) /\ Shape(type, v)
  BY DEF IsType, OfType
<1>6. /\ DOMAIN parts = P /\ DOMAIN back = P /\ DOMAIN got = P
      /\ back = [x \in P |-> back[x]]
  BY <1>2
<1> HIDE DEF parts, back, got
<1> QED
  BY <1>1, <1>4, <1>5, <1>6, WholeDecoded


-----------------------------------------------------------------------------
\* What is made of a value is a value of its type.

\* One level: what was there is there, and nothing else.
LEMMA ReceivedParts ==
  ASSUME NEW type, NEW v, Shape(type, v), NEW parts,
         DOMAIN parts = Whole(type, v), Formed(type)
  PROVE  LET w == ReceivedWith(type, v, parts) IN
         /\ Shape(type, w)
         /\ \A x \in Whole(type, w) : x \in Whole(type, v) /\ w[x] = parts[x]
<1>1. CASE type.is = "list"
  BY <1>1 DEF ReceivedWith, Shape, Whole
<1>2. CASE type.is = "message"
  BY <1>2 DEF ReceivedWith, Shape, Whole
<1>3. CASE type.is \notin {"list", "message"}
  BY <1>3 DEF ReceivedWith, Whole
<1> QED BY <1>1, <1>2, <1>3

LEMMA ReceivedTyped1 ==
  ASSUME NEW type, IsType1(type), NEW v, OfType1(type, v)
  PROVE  OfType1(type, Received1(type, v))
<1> DEFINE parts == [x \in Whole(type, v) |-> v[x]]
           w == ReceivedWith(type, v, parts)
<1>1. Received1(type, v) = w
  BY DEF Received1
<1>2. \A x \in Whole(type, v) : Shape(PartType(type, x), parts[x])
  BY PartTyped, WholeIsEncoded DEF OfType1, IsType1
<1>3. DOMAIN parts = Whole(type, v) /\ Formed(type) /\ Shape(type, v)
  BY DEF IsType1, OfType1
<1> HIDE DEF parts
<1>4. Shape(type, w) /\ \A x \in Whole(type, w) : Shape(PartType(type, x), w[x])
  BY <1>2, <1>3, ReceivedParts
<1> QED
  BY <1>1, <1>4 DEF OfType1

LEMMA ReceivedTyped2 ==
  ASSUME NEW type, IsType2(type), NEW v, OfType2(type, v)
  PROVE  OfType2(type, Received2(type, v))
<1> DEFINE parts == [x \in Whole(type, v) |-> Received1(PartType(type, x), v[x])]
           w == ReceivedWith(type, v, parts)
<1>1. Received2(type, v) = w
  BY DEF Received2
<1>2. \A x \in Whole(type, v) : OfType1(PartType(type, x), parts[x])
  BY PartTyped, WholeIsEncoded, ReceivedTyped1 DEF OfType2, IsType2
<1>3. DOMAIN parts = Whole(type, v) /\ Formed(type) /\ Shape(type, v)
  BY DEF IsType2, OfType2
<1> HIDE DEF parts
<1>4. Shape(type, w) /\ \A x \in Whole(type, w) : OfType1(PartType(type, x), w[x])
  BY <1>2, <1>3, ReceivedParts
<1> QED
  BY <1>1, <1>4 DEF OfType2

LEMMA ReceivedTyped3 ==
  ASSUME NEW type, IsType3(type), NEW v, OfType3(type, v)
  PROVE  OfType3(type, Received3(type, v))
<1> DEFINE parts == [x \in Whole(type, v) |-> Received2(PartType(type, x), v[x])]
           w == ReceivedWith(type, v, parts)
<1>1. Received3(type, v) = w
  BY DEF Received3
<1>2. \A x \in Whole(type, v) : OfType2(PartType(type, x), parts[x])
  BY PartTyped, WholeIsEncoded, ReceivedTyped2 DEF OfType3, IsType3
<1>3. DOMAIN parts = Whole(type, v) /\ Formed(type) /\ Shape(type, v)
  BY DEF IsType3, OfType3
<1> HIDE DEF parts
<1>4. Shape(type, w) /\ \A x \in Whole(type, w) : OfType2(PartType(type, x), w[x])
  BY <1>2, <1>3, ReceivedParts
<1> QED
  BY <1>1, <1>4 DEF OfType3

LEMMA ReceivedTyped ==
  ASSUME NEW type, IsType(type), NEW v, OfType(type, v)
  PROVE  OfType(type, Received(type, v))
<1> DEFINE parts == [x \in Whole(type, v) |-> Received3(PartType(type, x), v[x])]
           w == ReceivedWith(type, v, parts)
<1>1. Received(type, v) = w
  BY DEF Received
<1>2. \A x \in Whole(type, v) : OfType3(PartType(type, x), parts[x])
  BY PartTyped, WholeIsEncoded, ReceivedTyped3 DEF OfType, IsType
<1>3. DOMAIN parts = Whole(type, v) /\ Formed(type) /\ Shape(type, v)
  BY DEF IsType, OfType
<1> HIDE DEF parts
<1>4. Shape(type, w) /\ \A x \in Whole(type, w) : OfType3(PartType(type, x), w[x])
  BY <1>2, <1>3, ReceivedParts
<1> QED
  BY <1>1, <1>4 DEF OfType

-----------------------------------------------------------------------------
\* What is encoded is canonical.

\* One level: the entries stand in the order of the schema, and hold the parts.
LEMMA EncodedInside ==
  ASSUME NEW type, Formed(type), NEW v, NEW parts,
         DOMAIN parts = Parts(type, v)
  PROVE  LET item == EncWith(type, v, parts) IN
         /\ Ordered(item)
         /\ \A i \in DOMAIN Inside(item) :
              \E x \in Parts(type, v) : Inside(item)[i] = parts[x]
<1>1. CASE type.is = "list"
  BY <1>1 DEF EncWith, Ordered, Inside
<1>2. CASE type.is = "message"
  <2> DEFINE item == EncWith(type, v, parts)
  <2>1. item = [major |-> "map", entries |-> Entries(type, parts)]
    BY <1>2 DEF EncWith
  <2>2. /\ DOMAIN item.entries
             = {i \in DOMAIN type.of : type.of[i].key \in DOMAIN parts}
        /\ \A i \in DOMAIN item.entries :
             /\ item.entries[i].key = type.of[i].key
             /\ item.entries[i].val = parts[type.of[i].key]
    BY <2>1 DEF Entries, Entry
  <2> HIDE DEF item
  <2>3. \A i, j \in DOMAIN type.of :
          i < j => Before(type.of[i].key, type.of[j].key)
    BY <1>2 DEF Formed
  <2>4. Ordered(item)
    BY <2>2, <2>3 DEF Ordered
  <2>5. Inside(item) = [i \in DOMAIN item.entries |-> item.entries[i].val]
    BY <2>1 DEF Inside
  <2>6. ASSUME NEW i \in DOMAIN Inside(item)
        PROVE  \E x \in Parts(type, v) : Inside(item)[i] = parts[x]
    <3>1. i \in DOMAIN item.entries /\ Inside(item)[i] = item.entries[i].val
      BY <2>5
    <3> QED BY <2>2, <3>1
  <2> QED BY <2>4, <2>6 DEF item
<1>3. CASE type.is \notin {"list", "message"}
  BY <1>3 DEF EncWith, Enc0, Ordered, Inside, Formed
<1> QED BY <1>1, <1>2, <1>3

LEMMA ScalarInOrder ==
  ASSUME NEW type, IsType0(type), NEW v
  PROVE  InOrder0(Enc0(type, v))
BY DEF IsType0, Formed, Enc0, InOrder0

LEMMA EncInOrder1 ==
  ASSUME NEW type, IsType1(type), NEW v
  PROVE  InOrder1(Enc1(type, v))
<1> DEFINE parts == [x \in Parts(type, v) |-> Enc0(PartType(type, x), v[x])]
           item == EncWith(type, v, parts)
<1>1. Enc1(type, v) = item
  BY DEF Enc1
<1>2. \A x \in Parts(type, v) : InOrder0(parts[x])
  BY PartTyped, ScalarInOrder DEF IsType1
<1>3. DOMAIN parts = Parts(type, v) /\ Formed(type)
  BY DEF IsType1
<1> HIDE DEF parts
<1>4. Ordered(item) /\ \A i \in DOMAIN Inside(item) : InOrder0(Inside(item)[i])
  BY <1>2, <1>3, EncodedInside
<1> QED
  BY <1>1, <1>4 DEF InOrder1

LEMMA EncInOrder2 ==
  ASSUME NEW type, IsType2(type), NEW v
  PROVE  InOrder2(Enc2(type, v))
<1> DEFINE parts == [x \in Parts(type, v) |-> Enc1(PartType(type, x), v[x])]
           item == EncWith(type, v, parts)
<1>1. Enc2(type, v) = item
  BY DEF Enc2
<1>2. \A x \in Parts(type, v) : InOrder1(parts[x])
  BY PartTyped, EncInOrder1 DEF IsType2
<1>3. DOMAIN parts = Parts(type, v) /\ Formed(type)
  BY DEF IsType2
<1> HIDE DEF parts
<1>4. Ordered(item) /\ \A i \in DOMAIN Inside(item) : InOrder1(Inside(item)[i])
  BY <1>2, <1>3, EncodedInside
<1> QED
  BY <1>1, <1>4 DEF InOrder2

LEMMA EncInOrder3 ==
  ASSUME NEW type, IsType3(type), NEW v
  PROVE  InOrder3(Enc3(type, v))
<1> DEFINE parts == [x \in Parts(type, v) |-> Enc2(PartType(type, x), v[x])]
           item == EncWith(type, v, parts)
<1>1. Enc3(type, v) = item
  BY DEF Enc3
<1>2. \A x \in Parts(type, v) : InOrder2(parts[x])
  BY PartTyped, EncInOrder2 DEF IsType3
<1>3. DOMAIN parts = Parts(type, v) /\ Formed(type)
  BY DEF IsType3
<1> HIDE DEF parts
<1>4. Ordered(item) /\ \A i \in DOMAIN Inside(item) : InOrder2(Inside(item)[i])
  BY <1>2, <1>3, EncodedInside
<1> QED
  BY <1>1, <1>4 DEF InOrder3

LEMMA EncInOrder ==
  ASSUME NEW type, IsType(type), NEW v
  PROVE  KeysInOrder(Enc(type, v))
<1> DEFINE parts == [x \in Parts(type, v) |-> Enc3(PartType(type, x), v[x])]
           item == EncWith(type, v, parts)
<1>1. Enc(type, v) = item
  BY DEF Enc
<1>2. \A x \in Parts(type, v) : InOrder3(parts[x])
  BY PartTyped, EncInOrder3 DEF IsType
<1>3. DOMAIN parts = Parts(type, v) /\ Formed(type)
  BY DEF IsType
<1> HIDE DEF parts
<1>4. Ordered(item) /\ \A i \in DOMAIN Inside(item) : InOrder3(Inside(item)[i])
  BY <1>2, <1>3, EncodedInside
<1> QED
  BY <1>1, <1>4 DEF KeysInOrder

-----------------------------------------------------------------------------
\* Clients of another version.

LEMMA LeastPosition ==
  ASSUME NEW S \in SUBSET Int, S # {}, NEW low \in Int, \A i \in S : low <= i
  PROVE  \E i \in S : \A j \in S : i <= j
<1> DEFINE above == {i - low : i \in S}
<1>1. ASSUME NEW d \in above PROVE \E i \in S : d = i - low
  OBVIOUS
<1>2. ASSUME NEW i \in S PROVE i - low \in above
  OBVIOUS
<1> HIDE DEF above
<1>3. above \subseteq Nat
  BY <1>1
<1>4. above # {}
  BY <1>2
<1>5. PICK d \in above : \A e \in above : <<e, d>> \notin OpToRel(<, Nat)
  BY <1>3, <1>4, NatLessThanWellFounded, WFMin
<1>6. \A e \in above : ~(e < d)
  BY <1>3, <1>5 DEF OpToRel
<1>7. PICK i \in S : d = i - low
  BY <1>1
<1>8. ASSUME NEW j \in S PROVE i <= j
  <2>1. j - low \in above /\ ~(j - low < d)
    BY <1>2, <1>6
  <2> QED BY <1>7, <2>1
<1> QED BY <1>8

\* However it rearranges a map, its entries are those that were encoded, and one
\* with a key of its own.
LEMMA VariedEntries ==
  ASSUME NEW entries, NEW n \in Nat, DOMAIN entries \subseteq 1..n,
         NEW e \in EntryVariations(entries)
  PROVE  /\ DOMAIN e \subseteq Int /\ \A j \in DOMAIN e : -n <= j
         /\ \A j \in DOMAIN e :
              e[j] = Unknown \/ \E i \in DOMAIN entries : e[j] = entries[i]
<1> DEFINE at == DOMAIN entries
           back == {-i : i \in at}
<1>1. ASSUME NEW i \in at, e = [j \in at \ {i} |-> entries[j]]
      PROVE  /\ DOMAIN e \subseteq at
             /\ \A j \in DOMAIN e : e[j] = entries[j]
  BY <1>1
<1>2. ASSUME e = [j \in at \cup {0} |-> IF j = 0 THEN Unknown ELSE entries[j]]
      PROVE  /\ DOMAIN e = at \cup {0}
             /\ \A j \in at : j # 0 => e[j] = entries[j]
             /\ e[0] = Unknown
  BY <1>2
<1>3. ASSUME e = [j \in back |-> entries[-j]]
      PROVE  /\ DOMAIN e = back
             /\ \A j \in back : e[j] = entries[-j]
  BY <1>3
<1>4. ASSUME e = [j \in back \cup at |-> IF j < 0 THEN entries[-j]
                                        ELSE entries[j]]
      PROVE  /\ DOMAIN e = back \cup at
             /\ \A j \in back : e[j] = entries[-j]
             /\ \A j \in at : e[j] = entries[j]
  BY <1>4
<1>5. \A j \in back : j \in Int /\ -n <= j /\ -j \in at /\ j < 0
  OBVIOUS
<1>6. \A j \in at : j \in Int /\ -n <= j /\ j # 0
  OBVIOUS
<1>7. \/ \E i \in at : e = [j \in at \ {i} |-> entries[j]]
      \/ e = [j \in at \cup {0} |-> IF j = 0 THEN Unknown ELSE entries[j]]
      \/ e = [j \in back |-> entries[-j]]
      \/ e = [j \in back \cup at |-> IF j < 0 THEN entries[-j] ELSE entries[j]]
  BY DEF EntryVariations
<1> HIDE DEF back
<1>8. CASE \E i \in at : e = [j \in at \ {i} |-> entries[j]]
  BY <1>1, <1>6, <1>8
<1>9. CASE e = [j \in at \cup {0} |-> IF j = 0 THEN Unknown ELSE entries[j]]
  BY <1>2, <1>6, <1>9
<1>10. CASE e = [j \in back |-> entries[-j]]
  BY <1>3, <1>5, <1>10
<1>11. CASE e = [j \in back \cup at |-> IF j < 0 THEN entries[-j]
                                        ELSE entries[j]]
  BY <1>4, <1>5, <1>6, <1>11
<1> QED BY <1>7, <1>8, <1>9, <1>10, <1>11

\* So whatever is found under a key is what was encoded there.
LEMMA VariedEntryFound ==
  ASSUME NEW type, type.is = "message", Formed(type), Unknown.key \notin KeysOf(type),
         NEW parts, DOMAIN parts \subseteq KeysOf(type),
         NEW e \in EntryVariations(Entries(type, parts)),
         NEW item, item = [major |-> "map", entries |-> e],
         NEW k \in KeysOf(type), CborMapGet(item, k).ok
  PROVE  k \in DOMAIN parts /\ CborMapGet(item, k).val = parts[k]
<1> DEFINE entries == Entries(type, parts)
           at == {i \in DOMAIN e : e[i].key = k}
<1>1. PICK n \in Nat : DOMAIN type.of = 1..n
  BY DEF Formed
<1>2. DOMAIN entries \subseteq 1..n
  BY <1>1 DEF Entries
<1>3. /\ DOMAIN e \subseteq Int /\ \A j \in DOMAIN e : -n <= j
      /\ \A j \in DOMAIN e :
           e[j] = Unknown \/ \E i \in DOMAIN entries : e[j] = entries[i]
  BY <1>2, VariedEntries
<1>4. at # {}
  BY DEF CborMapGet, Bad
<1>5. \E i \in at : \A j \in at : i <= j
  <2>1. at \in SUBSET Int /\ -n \in Int /\ \A j \in at : -n <= j
    BY <1>3
  <2> HIDE DEF at
  <2> QED BY <1>4, <2>1, LeastPosition
<1>6. PICK first \in at : first = CHOOSE i \in at : \A j \in at : i <= j
  BY <1>5
<1>7. CborMapGet(item, k).val = e[first].val
  BY <1>4, <1>6 DEF CborMapGet, Good
<1>8. PICK j \in DOMAIN entries : e[first] = entries[j]
  BY <1>3
<1>9. /\ type.of[j].key \in DOMAIN parts
      /\ entries[j].key = type.of[j].key
      /\ entries[j].val = parts[type.of[j].key]
  BY <1>8 DEF Entries, Entry
<1> QED
  BY <1>7, <1>8, <1>9

\* A message that is decoded has the fields that were encoded, but for optional
\* ones.
LEMMA VariedDecoded ==
  ASSUME NEW type, IsType(type), type.is = "message",
         Unknown.key \notin KeysOf(type), NEW v, OfType(type, v),
         NEW e \in EntryVariations(Enc(type, v).entries),
         NEW item, item = [major |-> "map", entries |-> e], Dec(type, item).ok
  PROVE  Less(type, Dec(type, item).val, Received(type, v))
<1> DEFINE P == Parts(type, v)
           parts == [x \in P |-> Enc3(PartType(type, x), v[x])]
           back == [x \in P |-> Received3(PartType(type, x), v[x])]
           got == [x \in ItemParts(type, item) |->
                     Dec3(PartType(type, x), ItemPart(type, item, x))]
           all == [k \in KeysOf(type) |->
                     IF k \in DOMAIN got THEN got[k]
                     ELSE Missing(FieldAt(type, k))]
<1>1. /\ Dec(type, item) = AllOrNothing(all)
      /\ Received(type, v) = ReceivedWith(type, v, back)
      /\ Enc(type, v).entries = Entries(type, parts)
  BY WholeIsEncoded DEF Dec, DecWith, Received, Enc, EncWith
<1>2. /\ DOMAIN parts = P /\ P \subseteq KeysOf(type) /\ Formed(type)
      /\ ItemParts(type, item) \subseteq KeysOf(type)
      /\ DOMAIN got = ItemParts(type, item) /\ DOMAIN back = P
  BY DEF Parts, Present, ItemParts, IsType
<1>3. ASSUME NEW x \in ItemParts(type, item)
      PROVE  x \in P /\ ItemPart(type, item, x) = parts[x]
  <2>1. CborMapGet(item, x).ok /\ x \in KeysOf(type)
    BY DEF ItemParts
  <2>2. x \in DOMAIN parts /\ CborMapGet(item, x).val = parts[x]
    <3> HIDE DEF parts, P
    <3> QED BY <1>1, <1>2, <2>1, VariedEntryFound
  <2> QED
    BY <2>2 DEF ItemPart
<1>4. \A x \in P : IsType3(PartType(type, x)) /\ OfType3(PartType(type, x), v[x])
  BY PartTyped, WholeIsEncoded DEF IsType, OfType
<1>5. \A x \in ItemParts(type, item) : got[x] = Good(back[x])
  BY <1>3, <1>4, RoundTrip3
<1>6. \A k \in KeysOf(type) : all[k].ok
  <2> HIDE DEF all
  <2>1. DOMAIN all = KeysOf(type)
    BY DEF all
  <2> QED
    BY <1>1, <2>1 DEF AllOrNothing, Bad
<1>7. Dec(type, item).val = [k \in KeysOf(type) |-> all[k].val]
  BY <1>1, <1>6 DEF AllOrNothing, Good
<1>8. Received(type, v) = [k \in KeysOf(type) |-> IF k \in P THEN back[k] ELSE Nil]
  BY <1>1 DEF ReceivedWith
<1>9. ASSUME NEW k \in KeysOf(type)
      PROVE  \/ all[k].val = Received(type, v)[k]
             \/ FieldAt(type, k).optional /\ all[k].val = Nil
  <2>1. CASE k \in ItemParts(type, item)
    <3>1. all[k] = Good(back[k]) /\ k \in P
      BY <1>2, <1>3, <1>5, <2>1
    <3> HIDE DEF all, back, P
    <3> QED BY <1>8, <3>1 DEF Good
  <2>2. CASE k \notin ItemParts(type, item)
    <3>1. all[k] = Missing(FieldAt(type, k)) /\ all[k].ok
      BY <1>2, <1>6, <2>2
    <3> HIDE DEF all
    <3> QED BY <3>1 DEF Missing, Good, Bad
  <2> QED BY <2>1, <2>2
<1> HIDE DEF all
<1> QED
  BY <1>7, <1>9 DEF Less
\* What they sent less of is still of its type.
LEMMA LessTyped ==
  ASSUME NEW type, IsType(type), NEW meant, OfType(type, meant),
         NEW got, Less(type, got, meant)
  PROVE  OfType(type, got)
<1>1. type.is = "message" /\ Shape(type, got)
  BY DEF Less, Shape
<1>2. ASSUME NEW x \in Whole(type, got)
      PROVE  x \in Whole(type, meant) /\ got[x] = meant[x]
  BY <1>1, <1>2 DEF Less, Whole
<1> QED
  BY <1>1, <1>2 DEF OfType

-----------------------------------------------------------------------------
\* The calls.

\* At each stage of a call what it carries follows from what was sent and from
\* what the method answered.
SentRight(call, sent, frame) ==
  LET request == Declared(call.service, call.op).request
      whole == Request(call.service, call.op, Enc(request, sent))
  IN /\ sent \in Values(request)
     /\ \/ call.own /\ frame = whole
        \/ ~call.own /\ frame \in Variations(whole)
RunningRight(call, sent, got) ==
  /\ sent \in Values(Declared(call.service, call.op).request)
  /\ HandedOn(call, got, sent)
AnsweredRight(call, outcome, frame) ==
  LET route == RouteOf(call.service, call.op) IN
  \/ /\ outcome.is = "refused" /\ ~call.own
     /\ outcome.value \in {"malformed", "unknown"}
     /\ frame = Failed(outcome.value)
  \/ outcome \in Outcomes(route) /\ frame = AnswerTo(route, outcome)

Executing == {"running", "left"}

CallRight(k) ==
  /\ k.at \in {"idle", "sent", "running", "left", "answered", "done"}
  /\ k.at # "idle" => <<k.call.service, k.call.op>> \in Ops
  /\ k.at = "sent" => SentRight(k.call, k.sent, k.frame)
  /\ k.at = "running" => RunningRight(k.call, k.sent, k.got)
  /\ k.at = "answered" => AnsweredRight(k.call, k.outcome, k.frame)
  /\ k.at = "done" => HandedBack(k.call, k.outcome, k.result)

\* A server that has stopped runs nothing; one that is killed may.
Inv ==
  /\ server \in {"up", "draining", "stopped", "killed"}
  /\ DOMAIN calls = Callers
  /\ \A c \in Callers : CallRight(calls[c])
  /\ server = "stopped" => \A c \in Callers : calls[c].at \notin Executing

\* What the table and the constants say of an operation.
LEMMA OperationKnown ==
  ASSUME NEW s, NEW op, <<s, op>> \in Ops
  PROVE  LET request == Declared(s, op).request
             response == Declared(s, op).response
             route == RouteOf(s, op)
         IN
         /\ ServiceKey[ServiceKey[s]] = ServiceKey[s]
         /\ op \in DOMAIN Routes[ServiceKey[s]]
         /\ "retired" \notin DOMAIN Routes[ServiceKey[s]]
         /\ route.request = request /\ route.response = response
         /\ route.errors \in BOOLEAN
         /\ route.errors <=> op \in ErrorArms
         /\ IsType(request) /\ IsType(response)
         /\ Unknown.key \notin Slots(request)
         /\ Others(request) \subseteq Values(request)
         /\ \A v \in Values(request) : OfType(request, v)
         /\ \A v \in Values(response) : OfType(response, v)
<1> DEFINE o == <<s, op>>
<1>1. o[1] = s /\ o[2] = op
  OBVIOUS
<1>2. o \in Ops
  OBVIOUS
<1> HIDE DEF o
<1> QED
  BY <1>1, <1>2, RpcAssumption, InterfaceAssumption DEF Declared, RouteOf

\* A step of one call.
LEMMA OneCallMoves ==
  ASSUME Inv, NEW c \in Callers, NEW k, CallRight(k), UNCHANGED server,
         calls' = [calls EXCEPT ![c] = k],
         server = "stopped" => k.at \notin Executing
  PROVE  Inv'
<1>1. DOMAIN calls' = Callers
  BY DEF Inv
<1>2. \A d \in Callers : calls'[d] = IF d = c THEN k ELSE calls[d]
  BY DEF Inv
<1>3. \A d \in Callers : CallRight(calls'[d])
  BY <1>2 DEF Inv
<1>4. server' = "stopped" => \A d \in Callers : calls'[d].at \notin Executing
  BY <1>2 DEF Inv
<1> QED BY <1>1, <1>3, <1>4 DEF Inv

LEMMA SendRight ==
  ASSUME Inv, NEW c \in Callers, Send(c)
  PROVE  Inv'
<1>1. PICK o \in OpsOf[c] :
        \E v \in Values(Declared(o[1], o[2]).request) :
          calls' = [calls EXCEPT ![c] =
            [at |-> "sent", call |-> Call(o, TRUE), sent |-> v,
             frame |-> Request(o[1], o[2],
                               Enc(Declared(o[1], o[2]).request, v))]]
  BY DEF Send
<1>2. PICK v \in Values(Declared(o[1], o[2]).request) :
        calls' = [calls EXCEPT ![c] =
          [at |-> "sent", call |-> Call(o, TRUE), sent |-> v,
           frame |-> Request(o[1], o[2],
                             Enc(Declared(o[1], o[2]).request, v))]]
  BY <1>1
<1>3. PICK k : k = [at |-> "sent", call |-> Call(o, TRUE), sent |-> v,
                    frame |-> Request(o[1], o[2],
                                      Enc(Declared(o[1], o[2]).request, v))]
  OBVIOUS
<1>4. /\ k.call.service = o[1] /\ k.call.op = o[2] /\ k.call.own
      /\ o \in Ops /\ o = <<o[1], o[2]>>
  BY <1>3, RpcAssumption DEF Call, Ops
<1>5. SentRight(k.call, k.sent, k.frame)
  BY <1>3, <1>4 DEF SentRight
<1>6. CallRight(k)
  BY <1>3, <1>4, <1>5 DEF CallRight
<1>7. UNCHANGED server
  BY DEF Send
<1> QED
  BY <1>2, <1>3, <1>6, <1>7, OneCallMoves DEF Executing

LEMMA SendOtherRight ==
  ASSUME Inv, NEW c \in Callers, SendOther(c)
  PROVE  Inv'
<1> DEFINE Posted(o, v) ==
             Request(o[1], o[2], Enc(Declared(o[1], o[2]).request, v))
<1>1. PICK o \in OpsOf[c] :
        \E v \in Others(Declared(o[1], o[2]).request) :
        \E frame \in Variations(Posted(o, v)) :
          calls' = [calls EXCEPT ![c] =
            [at |-> "sent", call |-> Call(o, FALSE), sent |-> v,
             frame |-> frame]]
  BY DEF SendOther
<1>2. PICK v \in Others(Declared(o[1], o[2]).request) :
        \E frame \in Variations(Posted(o, v)) :
          calls' = [calls EXCEPT ![c] =
            [at |-> "sent", call |-> Call(o, FALSE), sent |-> v,
             frame |-> frame]]
  BY <1>1
<1>3. PICK frame \in Variations(Posted(o, v)) :
        calls' = [calls EXCEPT ![c] =
          [at |-> "sent", call |-> Call(o, FALSE), sent |-> v,
           frame |-> frame]]
  BY <1>2
<1>4. PICK k : k = [at |-> "sent", call |-> Call(o, FALSE), sent |-> v,
                    frame |-> frame]
  OBVIOUS
<1>5. /\ k.call.service = o[1] /\ k.call.op = o[2] /\ ~k.call.own
      /\ o \in Ops /\ o = <<o[1], o[2]>>
  BY <1>4, RpcAssumption DEF Call, Ops
<1>6. v \in Values(Declared(o[1], o[2]).request)
  BY <1>5, OperationKnown
<1>7. SentRight(k.call, k.sent, k.frame)
  BY <1>4, <1>5, <1>6 DEF SentRight
<1>8. CallRight(k)
  BY <1>4, <1>5, <1>7 DEF CallRight
<1>9. UNCHANGED server
  BY DEF SendOther
<1> QED
  BY <1>3, <1>4, <1>8, <1>9, OneCallMoves DEF Executing

\* What this client posts is decoded to what it meant (handleRPC, dispatch).
LEMMA OwnDecoded ==
  ASSUME NEW s, NEW op, <<s, op>> \in Ops,
         NEW v \in Values(Declared(s, op).request),
         NEW frame, frame.v = Version, frame.op = op,
         ServiceKey[frame.service] = ServiceKey[s],
         frame.payload = Enc(Declared(s, op).request, v)
  PROVE  Decoded(frame) =
           [refused |-> "no", got |-> Received(Declared(s, op).request, v)]
<1> DEFINE request == Declared(s, op).request
<1>1. /\ op \in DOMAIN Routes[ServiceKey[s]]
      /\ RouteOf(s, op).request = request
      /\ IsType(request) /\ OfType(request, v)
  BY OperationKnown
<1>2. KnownOp(frame) /\ RouteOf(frame.service, frame.op) = RouteOf(s, op)
  BY <1>1 DEF KnownOp, RouteOf
<1>3. Dec(request, frame.payload) = Good(Received(request, v))
  BY <1>1, RoundTrip
<1> HIDE DEF request
<1>4. Decoded(frame) = [refused |-> "no", got |-> Received(request, v)]
  BY <1>1, <1>2, <1>3 DEF Decoded, Good
<1> QED
  BY <1>4 DEF request

LEMMA MapIsOfMessage ==
  ASSUME NEW type, IsType(type), NEW v, Enc(type, v).major = "map"
  PROVE  type.is = "message"
<1>1. CASE type.is = "list"
  BY <1>1 DEF Enc, EncWith
<1>2. CASE type.is \notin {"list", "message"}
  <2>1. type.is \in {"text", "enum", "uint", "bool", "time"}
    BY <1>2 DEF IsType, Formed
  <2> QED BY <1>2, <2>1 DEF Enc, EncWith, Enc0
<1> QED BY <1>1, <1>2

\* What another version posts is refused, or decoded to no more than it meant.
LEMMA OtherDecoded ==
  ASSUME NEW s, NEW op, <<s, op>> \in Ops,
         NEW v \in Values(Declared(s, op).request),
         NEW frame \in
           Variations(Request(s, op, Enc(Declared(s, op).request, v)))
  PROVE  \/ Decoded(frame).refused \in {"malformed", "unknown"}
         \/ /\ Decoded(frame).refused = "no"
            /\ \/ Decoded(frame).got = Received(Declared(s, op).request, v)
               \/ Less(Declared(s, op).request, Decoded(frame).got,
                       Received(Declared(s, op).request, v))
<1> DEFINE request == Declared(s, op).request
           whole == Request(s, op, Enc(request, v))
<1>1. /\ whole.v = Version /\ whole.service = s /\ whole.op = op
      /\ whole.payload = Enc(request, v)
  BY DEF Request
<1>2. CASE frame = [whole EXCEPT !.v = 2]
  <2>1. frame.v = 2
    BY <1>2 DEF Request
  <2> QED BY <2>1 DEF Decoded, Version
<1>3. CASE frame = [whole EXCEPT !.op = "retired"]
  <2>1. frame.v = Version /\ frame.service = s /\ frame.op = "retired"
    BY <1>3 DEF Request
  <2>2. ~KnownOp(frame)
    BY <2>1, OperationKnown DEF KnownOp
  <2> QED BY <2>1, <2>2 DEF Decoded
<1>4. CASE frame = [whole EXCEPT !.service = ServiceKey[@]]
  <2>1. /\ frame.v = Version /\ frame.op = op
        /\ frame.service = ServiceKey[s] /\ frame.payload = Enc(request, v)
    BY <1>4 DEF Request
  <2>2. ServiceKey[frame.service] = ServiceKey[s]
    BY <2>1, OperationKnown
  <2>3. Decoded(frame) = [refused |-> "no", got |-> Received(request, v)]
    BY <2>1, <2>2, OwnDecoded
  <2> HIDE DEF request
  <2> QED BY <2>3 DEF request
<1>5. ASSUME whole.payload.major = "map",
             NEW e \in EntryVariations(whole.payload.entries),
             frame = [whole EXCEPT !.payload = [major |-> "map", entries |-> e]]
      PROVE  \/ Decoded(frame).refused = "malformed"
             \/ /\ Decoded(frame).refused = "no"
                /\ Less(request, Decoded(frame).got, Received(request, v))
  <2>1. /\ frame.v = Version /\ frame.op = op /\ frame.service = s
        /\ frame.payload = [major |-> "map", entries |-> e]
    BY <1>5 DEF Request
  <2>2. /\ op \in DOMAIN Routes[ServiceKey[s]]
        /\ RouteOf(s, op).request = request
        /\ IsType(request) /\ OfType(request, v)
        /\ Unknown.key \notin Slots(request)
    BY OperationKnown
  <2>3. KnownOp(frame)
    BY <2>1, <2>2 DEF KnownOp
  <2>4. request.is = "message"
    BY <1>1, <1>5, <2>2, MapIsOfMessage
  <2>5. Unknown.key \notin KeysOf(request)
    BY <2>2, <2>4 DEF Slots
  <2> DEFINE got == Dec(request, frame.payload)
  <2>6. Decoded(frame) = IF got.ok THEN [refused |-> "no", got |-> got.val]
                         ELSE [refused |-> "malformed"]
    BY <2>1, <2>2, <2>3 DEF Decoded
  <2>7. got.ok => Less(request, got.val, Received(request, v))
    BY <1>1, <1>5, <2>1, <2>2, <2>4, <2>5, VariedDecoded
  <2> HIDE DEF got, request
  <2> QED BY <2>6, <2>7
<1>6. \/ frame \in {[whole EXCEPT !.v = 2], [whole EXCEPT !.op = "retired"],
                    [whole EXCEPT !.service = ServiceKey[@]]}
      \/ /\ whole.payload.major = "map"
         /\ \E e \in EntryVariations(whole.payload.entries) :
              frame = [whole EXCEPT !.payload = [major |-> "map", entries |-> e]]
  BY DEF Variations
<1> QED
  BY <1>2, <1>3, <1>4, <1>5, <1>6

LEMMA ReceiveRight ==
  ASSUME Inv, NEW c \in Callers, Receive(c)
  PROVE  Inv'
<1> DEFINE call == calls[c].call
           sent == calls[c].sent
           request == Decoded(calls[c].frame)
<1>1. /\ <<call.service, call.op>> \in Ops
      /\ SentRight(call, sent, calls[c].frame)
      /\ server \in {"up", "draining"} /\ UNCHANGED server
  BY DEF Inv, CallRight, Receive
<1>2. sent \in Values(Declared(call.service, call.op).request)
  BY <1>1 DEF SentRight
<1>3. \/ /\ request.refused = "no" /\ HandedOn(call, request.got, sent)
      \/ ~call.own /\ request.refused \in {"malformed", "unknown"}
  <2> DEFINE whole == Request(call.service, call.op,
                              Enc(Declared(call.service, call.op).request, sent))
  <2>1. CASE call.own /\ calls[c].frame = whole
    <3>1. request = [refused |-> "no",
                     got |-> Received(Declared(call.service, call.op).request, sent)]
      BY <1>1, <1>2, <2>1, OwnDecoded DEF Request
    <3> QED BY <3>1 DEF HandedOn
  <2>2. CASE ~call.own /\ calls[c].frame \in Variations(whole)
    BY <1>1, <1>2, <2>2, OtherDecoded DEF HandedOn
  <2> QED BY <1>1, <2>1, <2>2 DEF SentRight
<1>4. CASE request.refused = "no"
  <2>1. PICK k : k = [at |-> "running", call |-> call, sent |-> sent,
                      got |-> request.got]
    OBVIOUS
  <2>2. calls' = [calls EXCEPT ![c] = k]
    BY <1>4, <2>1 DEF Receive
  <2>3. RunningRight(k.call, k.sent, k.got)
    BY <1>2, <1>3, <1>4, <2>1 DEF RunningRight
  <2>4. CallRight(k)
    BY <1>1, <2>1, <2>3 DEF CallRight
  <2> QED BY <1>1, <2>2, <2>4, OneCallMoves
<1>5. CASE request.refused # "no"
  <2>1. PICK k : k = [at |-> "answered", call |-> call,
                      frame |-> Failed(request.refused),
                      outcome |-> [is |-> "refused", value |-> request.refused]]
    OBVIOUS
  <2>2. calls' = [calls EXCEPT ![c] = k]
    BY <1>5, <2>1 DEF Receive
  <2>3. AnsweredRight(k.call, k.outcome, k.frame)
    BY <1>3, <1>5, <2>1 DEF AnsweredRight
  <2>4. CallRight(k)
    BY <1>1, <2>1, <2>3 DEF CallRight
  <2>5. k.at \notin Executing
    BY <2>1 DEF Executing
  <2> QED BY <1>1, <2>2, <2>4, <2>5, OneCallMoves
<1> QED BY <1>4, <1>5

LEMMA ReturnRight ==
  ASSUME Inv, NEW c \in Callers, Return(c)
  PROVE  Inv'
<1> DEFINE call == calls[c].call
           route == RouteOf(call.service, call.op)
<1>1. <<call.service, call.op>> \in Ops /\ UNCHANGED server
  BY DEF Inv, CallRight, Return
<1>2. PICK outcome \in Outcomes(route) :
        calls' = [calls EXCEPT ![c] =
          [at |-> "answered", call |-> call, outcome |-> outcome,
           frame |-> AnswerTo(route, outcome)]]
  BY DEF Return
<1>3. PICK k : k = [at |-> "answered", call |-> call, outcome |-> outcome,
                    frame |-> AnswerTo(route, outcome)]
  OBVIOUS
<1>4. AnsweredRight(k.call, k.outcome, k.frame)
  BY <1>3 DEF AnsweredRight
<1>5. CallRight(k) /\ k.at \notin Executing
  BY <1>1, <1>3, <1>4 DEF CallRight, Executing
<1> QED
  BY <1>1, <1>2, <1>3, <1>5, OneCallMoves

\* Whatever the method answers, the client makes of it what it is
\* (routeFallible, routeInfallible, createHttpTransport).
LEMMA AnswerUnpacked ==
  ASSUME NEW call, <<call.service, call.op>> \in Ops, NEW outcome,
         NEW frame, AnsweredRight(call, outcome, frame)
  PROVE  HandedBack(call, outcome,
                    Result(Declared(call.service, call.op).response, frame))
<1> DEFINE response == Declared(call.service, call.op).response
           route == RouteOf(call.service, call.op)
<1>1. /\ route.response = response
      /\ route.errors \in BOOLEAN /\ (route.errors <=> call.op \in ErrorArms)
      /\ IsType(response) /\ \A v \in Values(response) : OfType(response, v)
  BY OperationKnown
<1>2. IsType(ServiceError) /\ \A v \in Values(ServiceError) : OfType(ServiceError, v)
  BY RpcAssumption, InterfaceAssumption
<1>3. CASE /\ outcome.is = "refused" /\ ~call.own
           /\ outcome.value \in {"malformed", "unknown"}
           /\ frame = Failed(outcome.value)
  <2>1. Result(response, frame) = [is |-> "transport", value |-> outcome.value]
    BY <1>3 DEF Result, Failed
  <2> QED BY <1>3, <2>1 DEF HandedBack
<1>4. ASSUME NEW v \in Values(response),
             outcome = [is |-> "reply", value |-> v],
             frame = AnswerTo(route, outcome)
      PROVE  HandedBack(call, outcome, Result(response, frame))
  <2>1. frame = Ok("reply", Enc(response, v))
    BY <1>1, <1>4 DEF AnswerTo
  <2>2. Dec(response, Enc(response, v)) = Good(Received(response, v))
    BY <1>1, RoundTrip
  <2> HIDE DEF response
  <2>3. Result(response, frame) = [is |-> "reply", value |-> Received(response, v)]
    BY <2>1, <2>2 DEF Result, Ok, Unpacked, Good
  <2> QED BY <1>4, <2>3 DEF HandedBack, response
<1>5. ASSUME NEW v \in Values(ServiceError),
             outcome = [is |-> "app_error", value |-> v],
             frame = AnswerTo(route, outcome), route.errors
      PROVE  HandedBack(call, outcome, Result(response, frame))
  <2>1. frame = Ok("ServiceError", Enc(ServiceError, v))
    BY <1>5 DEF AnswerTo
  <2>2. Dec(ServiceError, Enc(ServiceError, v)) = Good(Received(ServiceError, v))
    BY <1>2, RoundTrip
  <2>3. Result(response, frame)
          = [is |-> "app_error", value |-> Received(ServiceError, v)]
    BY <2>1, <2>2 DEF Result, Ok, Unpacked, Good
  <2>4. call.op \in ErrorArms
    BY <1>1, <1>5
  <2> QED BY <1>5, <2>3, <2>4 DEF HandedBack
<1>6. ASSUME frame = AnswerTo(route, outcome),
             outcome.is = "error" \/ (outcome.is = "app_error" /\ ~route.errors)
      PROVE  HandedBack(call, outcome, Result(response, frame))
  <2>1. frame = Failed("internal")
    BY <1>6 DEF AnswerTo
  <2>2. Result(response, frame) = [is |-> "transport", value |-> "internal"]
    BY <2>1 DEF Result, Failed
  <2>3. \/ outcome.is = "error"
        \/ outcome.is = "app_error" /\ call.op \notin ErrorArms
    BY <1>1, <1>6
  <2> QED BY <2>2, <2>3 DEF HandedBack
<1>7. ASSUME outcome \in Outcomes(route)
      PROVE  \/ \E v \in Values(response) :
                  outcome = [is |-> "reply", value |-> v]
             \/ \E v \in Values(ServiceError) :
                  outcome = [is |-> "app_error", value |-> v]
             \/ outcome.is = "error"
  BY <1>1, <1>7 DEF Outcomes
<1>8. CASE outcome \in Outcomes(route) /\ frame = AnswerTo(route, outcome)
  <2>1. CASE \E v \in Values(response) : outcome = [is |-> "reply", value |-> v]
    BY <1>4, <1>8, <2>1
  <2>2. CASE \E v \in Values(ServiceError) :
               outcome = [is |-> "app_error", value |-> v]
    BY <1>5, <1>6, <1>8, <2>2
  <2>3. CASE outcome.is = "error"
    BY <1>6, <1>8, <2>3
  <2> QED BY <1>7, <1>8, <2>1, <2>2, <2>3
<1> QED
  BY <1>3, <1>8 DEF AnsweredRight

LEMMA DeliverRight ==
  ASSUME Inv, NEW c \in Callers, Deliver(c)
  PROVE  Inv'
<1> DEFINE call == calls[c].call
           response == Declared(call.service, call.op).response
<1>1. /\ <<call.service, call.op>> \in Ops /\ UNCHANGED server
      /\ AnsweredRight(call, calls[c].outcome, calls[c].frame)
  BY DEF Inv, CallRight, Deliver
<1>2. PICK k : k = [at |-> "done", call |-> call, outcome |-> calls[c].outcome,
                    result |-> Result(response, calls[c].frame)]
  OBVIOUS
<1>3. calls' = [calls EXCEPT ![c] = k]
  BY <1>2 DEF Deliver
<1>4. HandedBack(k.call, k.outcome, k.result)
  BY <1>1, <1>2, AnswerUnpacked
<1>5. CallRight(k) /\ k.at \notin Executing
  BY <1>1, <1>2, <1>4 DEF CallRight, Executing
<1> QED
  BY <1>1, <1>3, <1>5, OneCallMoves

LEMMA LostRight ==
  ASSUME Inv, NEW c \in Callers, Break(c) \/ Cut(c) \/ ReturnToNobody(c)
  PROVE  Inv'
<1>1. PICK k : k = [at |-> "done", call |-> calls[c].call, outcome |-> Lost,
                    result |-> Lost]
  OBVIOUS
<1>2. calls' = [calls EXCEPT ![c] = k] /\ UNCHANGED server
  BY <1>1 DEF Break, Cut, ReturnToNobody
<1>3. <<k.call.service, k.call.op>> \in Ops
  BY <1>1 DEF Inv, CallRight, Break, Cut, ReturnToNobody
<1>4. HandedBack(k.call, k.outcome, k.result)
  BY <1>1 DEF HandedBack
<1>5. CallRight(k) /\ k.at \notin Executing
  BY <1>1, <1>3, <1>4 DEF CallRight, Executing
<1> QED
  BY <1>2, <1>5, OneCallMoves

LEMMA LeaveRight ==
  ASSUME Inv, NEW c \in Callers, Leave(c)
  PROVE  Inv'
<1>1. PICK k : k = [at |-> "left", call |-> calls[c].call]
  OBVIOUS
<1>2. calls' = [calls EXCEPT ![c] = k] /\ UNCHANGED server
  BY <1>1 DEF Leave
<1>3. <<k.call.service, k.call.op>> \in Ops
  BY <1>1 DEF Inv, CallRight, Leave
<1>4. CallRight(k) /\ server # "stopped"
  BY <1>1, <1>3 DEF CallRight, Leave, Inv, Executing
<1> QED
  BY <1>2, <1>4, OneCallMoves

LEMMA ForgetRight ==
  ASSUME Inv, NEW c \in Callers, Forget(c)
  PROVE  Inv'
<1>1. PICK k : k = Idle
  OBVIOUS
<1>2. calls' = [calls EXCEPT ![c] = k] /\ UNCHANGED server
  BY <1>1 DEF Forget
<1>3. CallRight(k) /\ k.at \notin Executing
  BY <1>1 DEF CallRight, Idle, Executing
<1> QED
  BY <1>2, <1>3, OneCallMoves

\* Stopping and starting: the server waits for the calls that run, or is killed
\* with them (ListenAndServe).
LEMMA ServerMoves ==
  ASSUME Inv, Shutdown \/ Exit \/ Deadline \/ Start
  PROVE  Inv'
<1>1. UNCHANGED calls /\ server' \in {"up", "draining", "stopped", "killed"}
  BY DEF Shutdown, Exit, Deadline, Start
<1>2. server' = "stopped" => \A c \in Callers : calls[c].at \notin Executing
  BY DEF Shutdown, Exit, Deadline, Start, Active, Executing
<1> QED
  BY <1>1, <1>2 DEF Inv

\* The invariant holds in every reachable state.
LEMMA SpecInv == Spec => []Inv
<1>1. Init => Inv
  BY DEF Init, Inv, CallRight, Idle
<1>2. Inv /\ [Next]_vars => Inv'
  <2> SUFFICES ASSUME Inv, [Next]_vars PROVE Inv'
    OBVIOUS
  <2>1. CASE UNCHANGED vars
    BY <2>1 DEF Inv, vars
  <2>2. CASE Shutdown \/ Exit \/ Deadline \/ Start
    BY <2>2, ServerMoves
  <2>3. ASSUME NEW c \in Callers,
               \/ Send(c) \/ SendOther(c) \/ Receive(c) \/ Return(c)
               \/ Deliver(c) \/ Break(c) \/ Leave(c) \/ ReturnToNobody(c)
               \/ Forget(c) \/ Cut(c)
        PROVE  Inv'
    BY <2>3, SendRight, SendOtherRight, ReceiveRight, ReturnRight,
       DeliverRight, LostRight, LeaveRight, ForgetRight
  <2> QED BY <2>1, <2>2, <2>3 DEF Next
<1> QED BY <1>1, <1>2, PTL DEF Spec

-----------------------------------------------------------------------------
\* The theorems.

\* A service method is only ever handed a whole message of its type, whichever
\* client sent it (csilDec functions, cborRequire).
THEOREM TypeCorrect == Spec => []TypeOK
<1>1. Inv => TypeOK
  <2> SUFFICES ASSUME Inv PROVE TypeOK
    OBVIOUS
  <2>1. ASSUME NEW c \in Callers, calls[c].at = "running"
        PROVE  LET call == calls[c].call IN
               OfType(Declared(call.service, call.op).request, calls[c].got)
    <3> DEFINE call == calls[c].call
               request == Declared(call.service, call.op).request
               meant == Received(request, calls[c].sent)
    <3>1. /\ <<call.service, call.op>> \in Ops
          /\ RunningRight(call, calls[c].sent, calls[c].got)
      BY <2>1 DEF Inv, CallRight
    <3>2. /\ IsType(request) /\ OfType(request, calls[c].sent)
          /\ calls[c].got = meant \/ Less(request, calls[c].got, meant)
      BY <3>1, OperationKnown DEF RunningRight, HandedOn
    <3>3. OfType(request, meant)
      BY <3>2, ReceivedTyped
    <3> HIDE DEF meant
    <3> QED BY <3>2, <3>3, LessTyped
  <2> QED BY <2>1 DEF TypeOK, Inv, CallRight
<1> QED BY <1>1, SpecInv, PTL

\* What the method is handed is what the client was given, and what the client
\* returns is what the method answered, for every operation and every value of
\* its types (csilEnc and csilDec functions, buildRoutes, routeFallible,
\* routeInfallible, createHttpTransport).
THEOREM CallsEndToEnd == Spec => []EndToEnd
<1>1. Inv => EndToEnd
  BY DEF Inv, CallRight, RunningRight, EndToEnd
<1> QED BY <1>1, SpecInv, PTL

\* Every map that goes over the wire has its keys in the canonical order, each
\* once, whichever optional fields are there (csilEnc functions).
THEOREM FramesCanonical == Spec => []Canonical
<1>1. Inv => Canonical
  <2> SUFFICES ASSUME Inv, NEW c \in Callers
               PROVE  /\ calls[c].at = "sent" /\ calls[c].call.own =>
                           KeysInOrder(calls[c].frame.payload)
                      /\ calls[c].at = "answered" /\ calls[c].frame.status = "ok" =>
                           KeysInOrder(calls[c].frame.payload)
    BY DEF Canonical
  <2> DEFINE call == calls[c].call
             request == Declared(call.service, call.op).request
             response == Declared(call.service, call.op).response
             route == RouteOf(call.service, call.op)
  <2>1. ASSUME calls[c].at = "sent", call.own
        PROVE  KeysInOrder(calls[c].frame.payload)
    <3>1. /\ <<call.service, call.op>> \in Ops
          /\ SentRight(call, calls[c].sent, calls[c].frame)
      BY <2>1 DEF Inv, CallRight
    <3>2. IsType(request)
      BY <3>1, OperationKnown
    <3>3. calls[c].frame.payload = Enc(request, calls[c].sent)
      BY <2>1, <3>1 DEF SentRight, Request
    <3> QED BY <3>2, <3>3, EncInOrder
  <2>2. ASSUME calls[c].at = "answered", calls[c].frame.status = "ok"
        PROVE  KeysInOrder(calls[c].frame.payload)
    <3>1. /\ <<call.service, call.op>> \in Ops
          /\ AnsweredRight(call, calls[c].outcome, calls[c].frame)
      BY <2>2 DEF Inv, CallRight
    <3>2. IsType(response) /\ route.response = response /\ IsType(ServiceError)
      BY <3>1, OperationKnown, InterfaceAssumption
    <3>3. calls[c].frame = AnswerTo(route, calls[c].outcome)
      BY <2>2, <3>1 DEF AnsweredRight, Failed
    <3>4. \E type \in {response, ServiceError} :
            calls[c].frame.payload = Enc(type, calls[c].outcome.value)
      BY <2>2, <3>2, <3>3 DEF AnswerTo, Ok, Failed
    <3> QED BY <3>2, <3>4, EncInOrder
  <2> QED BY <2>1, <2>2
<1> QED BY <1>1, SpecInv, PTL

\* A service method that has been called gets to return, whenever the server is
\* told to stop and whether or not its client is still there, and its answer is
\* sent if it is, unless it outlives the ten seconds (ListenAndServe).
THEOREM ShutdownDrains == Spec => Drained
<1> DEFINE Draining ==
             \A c \in Callers : calls[c].at \in {"running", "left"} =>
               /\ server' # "stopped"
               /\ calls[c].at = "running" /\ calls'[c].at = "done" =>
                    server = "killed"
<1>1. ASSUME Inv, Next, NEW c \in Callers,
             calls[c].at = "running", calls'[c].at = "done"
      PROVE  server = "killed"
  <2>1. \A d \in Callers :
          (\/ Send(d) \/ SendOther(d) \/ Receive(d) \/ Return(d)
           \/ Deliver(d) \/ Break(d) \/ Leave(d) \/ ReturnToNobody(d)
           \/ Forget(d) \/ Cut(d))
          => d = c \/ calls'[c] = calls[c]
    BY <1>1 DEF Inv, Send, SendOther, Receive, Return, Deliver, Break, Leave,
       ReturnToNobody, Forget, Cut
  <2>2. ~Shutdown /\ ~Exit /\ ~Deadline /\ ~Start
    BY <1>1 DEF Shutdown, Exit, Deadline, Start
  <2>3. ~Send(c) /\ ~SendOther(c)
    <3>1. calls[c] # Idle
      BY <1>1 DEF Idle
    <3> QED BY <3>1 DEF Send, SendOther
  <2>4. ~Receive(c) /\ ~Deliver(c) /\ ~Break(c) /\ ~Forget(c) /\ ~ReturnToNobody(c)
    BY <1>1 DEF Receive, Deliver, Break, Forget, ReturnToNobody
  <2>5. ~Return(c) /\ ~Leave(c)
    <3>1. Return(c) => calls'[c].at = "answered"
      BY <1>1 DEF Return, Inv
    <3>2. Leave(c) => calls'[c].at = "left"
      BY <1>1 DEF Leave, Inv
    <3> QED BY <1>1, <3>1, <3>2
  <2>6. Cut(c)
    BY <1>1, <2>1, <2>2, <2>3, <2>4, <2>5 DEF Next
  <2> QED BY <1>1, <2>6 DEF Cut, Inv, Executing
<1>2. ASSUME Inv, Next, NEW c \in Callers, calls[c].at \in Executing
      PROVE  server' # "stopped"
  <2>1. server # "stopped"
    BY <1>2 DEF Inv
  <2>2. ~Exit
    BY <1>2 DEF Exit, Active, Executing
  <2>3. UNCHANGED server \/ server' \in {"up", "draining", "killed"}
    BY <1>2, <2>2 DEF Next, Send, SendOther, Receive, Return, Deliver, Break,
       Leave, ReturnToNobody, Forget, Cut, Shutdown, Deadline, Start
  <2> QED BY <2>1, <2>3
<1>3. Inv /\ [Next]_vars => [Draining]_vars
  BY <1>1, <1>2 DEF Executing
<1> QED BY <1>3, SpecInv, PTL DEF Spec, Drained
=============================================================================
