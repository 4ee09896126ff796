-------------------------- MODULE ProtoManagerProofs --------------------------
(***************************************************************************)
(* Proofs about ProtoManager, for every number of connections, every size  *)
(* of the buffers, of a response and of a byte, and every set of requests: *)
(* what the program is called with is what the clients sent, and what they *)
(* receive is whole responses.                                             *)
(***************************************************************************)
EXTENDS ProtoManager, SequenceTheorems, TLAPS

Byte == 0 .. Base - 1

Bytes == Seq(Byte)

LEMMA BaseIs == Base \in Nat /\ Base >= 2 /\ Fields \subseteq Byte
BY BytesAssumption DEF Byte

-----------------------------------------------------------------------------
(* Pieces of byte streams.                                                 *)

LEMMA PrefixHas ==
  ASSUME NEW u \in Bytes, NEW n \in 0 .. Len(u)
  PROVE  /\ Prefix(u, n) \in Bytes /\ Len(Prefix(u, n)) = n
         /\ \A i \in 1 .. n : Prefix(u, n)[i] = u[i]
<1>1. Len(u) \in Nat /\ \A i \in 1 .. n : u[i] \in Byte
  BY LenProperties DEF Bytes
<1>2. Lesser(n, Len(u)) = n
  BY <1>1 DEF Lesser
<1>3. QED
  BY <1>1, <1>2, SubSeqProperties DEF Prefix, Bytes

(* A Prefix of more than there is is all there is.                         *)
LEMMA PrefixIsAll ==
  ASSUME NEW u \in Bytes, NEW n \in Nat, n >= Len(u)
  PROVE  Prefix(u, n) = u
<1>1. Len(u) \in Nat
  BY LenProperties DEF Bytes
<1>2. Lesser(n, Len(u)) = Len(u)
  BY <1>1 DEF Lesser
<1>3. QED
  BY <1>2, SubSeqFull DEF Prefix, Bytes

LEMMA RestHas ==
  ASSUME NEW u \in Bytes, NEW n \in 0 .. Len(u)
  PROVE  /\ Rest(u, n) \in Bytes /\ Len(Rest(u, n)) = Len(u) - n
         /\ \A i \in 1 .. Len(u) - n : Rest(u, n)[i] = u[n + i]
<1>1. Len(u) \in Nat /\ \A i \in n + 1 .. Len(u) : u[i] \in Byte
  BY LenProperties DEF Bytes
<1>2. /\ Rest(u, n) \in Bytes
      /\ Len(Rest(u, n)) = IF n + 1 <= Len(u) THEN Len(u) - (n + 1) + 1 ELSE 0
      /\ \A i \in 1 .. Len(u) - (n + 1) + 1 : Rest(u, n)[i] = u[(n + 1) + i - 1]
  BY <1>1, SubSeqProperties DEF Rest, Bytes
<1>3. QED
  BY <1>1, <1>2

LEMMA RestOfNothing ==
  ASSUME NEW u \in Bytes
  PROVE  Rest(u, 0) = u
BY SubSeqFull DEF Rest, Bytes

LEMMA BothHave ==
  ASSUME NEW u \in Bytes, NEW v \in Bytes
  PROVE  /\ u \o v \in Bytes /\ Len(u \o v) = Len(u) + Len(v)
         /\ \A i \in 1 .. Len(u) + Len(v) : (u \o v)[i] = IF i <= Len(u) THEN u[i] ELSE v[i - Len(u)]
         /\ Len(u) \in Nat /\ Len(v) \in Nat
BY ConcatProperties, LenProperties DEF Bytes

LEMMA Joined ==
  ASSUME NEW u \in Bytes, NEW v \in Bytes, NEW w \in Bytes
  PROVE  (u \o v) \o w = u \o (v \o w)
BY ConcatAssociative DEF Bytes

LEMMA WithNothing ==
  ASSUME NEW u \in Bytes
  PROVE  u \o <<>> = u /\ <<>> \o u = u
BY ConcatEmptySeq DEF Bytes

LEMMA Split ==
  ASSUME NEW u \in Bytes, NEW n \in 0 .. Len(u)
  PROVE  Prefix(u, n) \o Rest(u, n) = u
<1>1. Len(u) \in Nat /\ SubSeq(u, 1, Len(u)) = u
  BY LenProperties, SubSeqFull DEF Bytes
<1>2. 1 \in 1 .. Len(u) + 1 /\ n \in 1 - 1 .. Len(u) /\ Len(u) \in n .. Len(u)
  BY <1>1
<1>3. u \in Seq(Byte)
  BY DEF Bytes
<1>4. SubSeq(u, 1, n) \o SubSeq(u, n + 1, Len(u)) = SubSeq(u, 1, Len(u))
  BY ONLY <1>2, <1>3, ConcatAdjacentSubSeq
<1>5. Lesser(n, Len(u)) = n
  <2>1. Len(u) \in Nat
    BY <1>1
  <2>2. QED
    BY ONLY <2>1, n \in 0 .. Len(u) DEF Lesser
<1>6. QED
  BY <1>1, <1>4, <1>5 DEF Prefix, Rest

(* What is taken from one stream and appended to another.                  *)
LEMMA Moved ==
  ASSUME NEW v \in Bytes, NEW u \in Bytes, NEW n \in 0 .. Len(u)
  PROVE  (v \o Prefix(u, n)) \o Rest(u, n) = v \o u
<1>1. Prefix(u, n) \in Bytes /\ Rest(u, n) \in Bytes
  BY PrefixHas, RestHas
<1>2. (v \o Prefix(u, n)) \o Rest(u, n) = v \o (Prefix(u, n) \o Rest(u, n))
  BY <1>1, Joined
<1>3. QED
  BY <1>2, Split

LEMMA SameBytes ==
  ASSUME NEW u \in Bytes, NEW v \in Bytes, Len(u) = Len(v), \A i \in 1 .. Len(u) : u[i] = v[i]
  PROVE  u = v
BY SeqEqual DEF Bytes

(* If two streams are the same and begin with pieces of one length, the    *)
(* pieces are the same and so is what is behind them.                      *)
LEMMA SameHalves ==
  ASSUME NEW a \in Bytes, NEW b \in Bytes, NEW x \in Bytes, NEW y \in Bytes,
         a \o b = x \o y, Len(a) = Len(x)
  PROVE  a = x /\ b = y
<1>1. /\ Len(a) \in Nat /\ Len(b) \in Nat /\ Len(y) \in Nat
      /\ Len(a \o b) = Len(a) + Len(b) /\ Len(x \o y) = Len(x) + Len(y)
      /\ \A i \in 1 .. Len(a) + Len(b) : (a \o b)[i] = IF i <= Len(a) THEN a[i] ELSE b[i - Len(a)]
      /\ \A i \in 1 .. Len(x) + Len(y) : (x \o y)[i] = IF i <= Len(x) THEN x[i] ELSE y[i - Len(x)]
  BY BothHave
<1>2. Len(b) = Len(y)
  BY <1>1
<1>3. ASSUME NEW i \in 1 .. Len(a) PROVE a[i] = x[i]
  <2>1. i \in 1 .. Len(a) + Len(b) /\ i \in 1 .. Len(x) + Len(y) /\ i <= Len(a) /\ i <= Len(x)
    BY <1>1, <1>2
  <2>2. QED
    BY <1>1, <2>1
<1>4. ASSUME NEW i \in 1 .. Len(b) PROVE b[i] = y[i]
  <2>1. /\ Len(a) + i \in 1 .. Len(a) + Len(b) /\ Len(a) + i \in 1 .. Len(x) + Len(y)
        /\ ~(Len(a) + i <= Len(a)) /\ ~(Len(a) + i <= Len(x))
        /\ (Len(a) + i) - Len(a) = i /\ (Len(a) + i) - Len(x) = i
    BY <1>1, <1>2
  <2>2. (a \o b)[Len(a) + i] = b[i]
    BY <1>1, <2>1
  <2>3. (x \o y)[Len(a) + i] = y[i]
    BY <1>1, <2>1
  <2>4. QED
    BY <2>2, <2>3
<1>5. QED
  BY <1>2, <1>3, <1>4, SameBytes

-----------------------------------------------------------------------------
(* Lengths in bytes.                                                       *)

LEMMA DivMod ==
  ASSUME NEW x \in Nat
  PROVE  /\ x \div Base \in Nat /\ x % Base \in Byte
         /\ x = (x \div Base) * Base + (x % Base)
BY BaseIs DEF Byte

LEMMA Grows ==
  ASSUME NEW a \in Nat, NEW b \in Nat, a >= b
  PROVE  a * Base >= b * Base /\ a * Base \in Nat
<1>1. Base \in Nat
  BY BaseIs
<1>2. QED
  BY <1>1

(* The digits of a length that four bytes can hold give it back.           *)
LEMMA ValueOfDigits ==
  ASSUME NEW n \in Nat, n < Base * Base * Base * Base
  PROVE  /\ Digits(n) \in Bytes /\ Len(Digits(n)) = 4
         /\ Value(Digits(n)) = n
<1> DEFINE a == n \div Base
           b == a \div Base
           c == b \div Base
<1>1. a \in Nat /\ n % Base \in Byte /\ n = a * Base + (n % Base)
  BY DivMod
<1> HIDE DEF a
<1>2. b \in Nat /\ a % Base \in Byte /\ a = b * Base + (a % Base)
  BY <1>1, DivMod
<1> HIDE DEF b
<1>3. c \in Nat /\ b % Base \in Byte /\ b = c * Base + (b % Base)
  BY <1>2, DivMod
<1> HIDE DEF c
<1>4. c < Base
  <2> SUFFICES ASSUME c >= Base PROVE FALSE
    BY <1>3, BaseIs
  <2>1. Base \in Nat /\ Base * Base \in Nat /\ Base * Base * Base \in Nat
    BY BaseIs
  <2>2. b >= Base * Base
    <3>1. c * Base >= Base * Base /\ c * Base \in Nat
      BY <1>3, <2>1, Grows
    <3>2. QED
      BY <3>1, <2>1, <1>3 DEF Byte
  <2>3. a >= Base * Base * Base
    <3>1. b * Base >= Base * Base * Base /\ b * Base \in Nat
      BY <1>2, <2>1, <2>2, Grows
    <3>2. QED
      BY <3>1, <2>1, <1>2 DEF Byte
  <2>4. n >= Base * Base * Base * Base
    <3> DEFINE q == Base * Base * Base
    <3>1. q \in Nat /\ a >= q
      BY <2>1, <2>3
    <3> HIDE DEF q
    <3>2. a * Base >= q * Base /\ a * Base \in Nat
      BY <1>1, <3>1, Grows
    <3>3. q * Base \in Nat
      BY <2>1, <3>1
    <3>4. n >= q * Base
      BY <3>2, <3>3, <1>1 DEF Byte
    <3>5. QED
      BY <3>4 DEF q
  <2>5. Base * Base * Base * Base \in Nat
    BY <2>1
  <2>6. QED
    BY <2>4, <2>5
<1>5. c % Base = c /\ c \in Byte
  BY <1>3, <1>4, BaseIs DEF Byte
<1>6. Digits(n) = <<c % Base, b % Base, a % Base, n % Base>>
  BY DEF Digits, a, b, c
<1>7. Digits(n) \in Bytes /\ Len(Digits(n)) = 4
  BY <1>1, <1>2, <1>3, <1>5, <1>6 DEF Bytes
<1>8. Value(Digits(n)) = ((c * Base + (b % Base)) * Base + (a % Base)) * Base + (n % Base)
  BY <1>5, <1>6 DEF Value
<1>9. QED
  BY <1>1, <1>2, <1>3, <1>7, <1>8

LEMMA DigitsAre ==
  ASSUME NEW n \in Nat
  PROVE  Digits(n) \in Bytes /\ Len(Digits(n)) = 4
<1> DEFINE a == n \div Base
           b == a \div Base
           c == b \div Base
<1>1. a \in Nat /\ n % Base \in Byte
  BY DivMod
<1> HIDE DEF a
<1>2. b \in Nat /\ a % Base \in Byte
  BY <1>1, DivMod
<1> HIDE DEF b
<1>3. c \in Nat /\ b % Base \in Byte
  BY <1>2, DivMod
<1> HIDE DEF c
<1>4. c % Base \in Byte
  BY <1>3, DivMod
<1>5. Digits(n) = <<c % Base, b % Base, a % Base, n % Base>>
  BY DEF Digits, a, b, c
<1>6. QED
  BY <1>1, <1>2, <1>3, <1>4, <1>5 DEF Bytes

LEMMA FieldsAreBytes == \A m \in Seq(Fields) : m \in Bytes
BY BaseIs, SeqMonotonic DEF Bytes

(* A frame begins with a zero and the length of what is in it.             *)
Header(m) == <<0>> \o Digits(Len(m))

LEMMA HeaderHas ==
  ASSUME NEW m \in Seq(Fields)
  PROVE  /\ Header(m) \in Bytes /\ Len(Header(m)) = PrefixSize
         /\ Header(m)[1] = 0
         /\ \A i \in 1 .. 4 : Header(m)[i + 1] = Digits(Len(m))[i]
         /\ Len(m) < Base * Base * Base * Base => Value(Digits(Len(m))) = Len(m)
<1> DEFINE d == Digits(Len(m))
           h == <<0>> \o d
<1>1. m \in Bytes /\ Len(m) \in Nat
  BY FieldsAreBytes, LenProperties
<1>2. d \in Bytes /\ Len(d) = 4
  BY <1>1, DigitsAre
<1>3. <<0>> \in Bytes /\ Len(<<0>>) = 1
  BY BaseIs DEF Bytes, Byte
<1>4. Len(m) < Base * Base * Base * Base => Value(d) = Len(m)
  BY <1>1, ValueOfDigits
<1> HIDE DEF d
<1>5. /\ h \in Bytes /\ Len(h) = Len(<<0>>) + Len(d)
      /\ \A i \in 1 .. Len(<<0>>) + Len(d) : h[i] = IF i <= Len(<<0>>) THEN <<0>>[i] ELSE d[i - Len(<<0>>)]
  BY <1>2, <1>3, BothHave
<1>6. Len(<<0>>) + Len(d) = 5
  BY <1>2, <1>3
<1> HIDE DEF h
<1>7. \A i \in 1 .. 5 : h[i] = IF i <= 1 THEN <<0>>[i] ELSE d[i - 1]
  BY <1>3, <1>5, <1>6
<1>8. \A i \in 1 .. 4 : h[i + 1] = d[i]
  <2>1. \A i \in 1 .. 4 : i + 1 \in 1 .. 5 /\ ~(i + 1 <= 1) /\ (i + 1) - 1 = i
    OBVIOUS
  <2>2. QED
    BY <1>7, <2>1
<1>9. h[1] = 0
  BY <1>7
<1>10. QED
  BY <1>4, <1>5, <1>6, <1>8, <1>9 DEF h, d, Header, PrefixSize

LEMMA FrameHas ==
  ASSUME NEW m \in Seq(Fields)
  PROVE  /\ Frame(m) \in Bytes /\ Len(Frame(m)) = PrefixSize + Len(m)
         /\ Frame(m) = Header(m) \o m
<1>1. m \in Bytes /\ Header(m) \in Bytes /\ Len(Header(m)) = PrefixSize
  BY FieldsAreBytes, HeaderHas
<1>2. Frame(m) = Header(m) \o m
  BY DEF Frame, Header
<1>3. Header(m) \o m \in Bytes /\ Len(Header(m) \o m) = Len(Header(m)) + Len(m)
  BY <1>1, BothHave
<1>4. QED
  BY <1>1, <1>2, <1>3

-----------------------------------------------------------------------------
(* The types of the variables, whatever happens.                           *)

Call == [message : Seq(Fields), given : SUBSET Fields, stale : SUBSET Fields]

Typed ==
  /\ state \in [Connections -> {"new", "open", "closing", "gone"}]
  /\ readBuf \in [Connections -> Bytes] /\ writeBuf \in [Connections -> Bytes]
  /\ wire \in [Connections -> Bytes] /\ held \in [Connections -> Bytes] /\ back \in [Connections -> Bytes]
  /\ head \in [Connections -> 0..Capacity] /\ tail \in [Connections -> 0..Capacity]
  /\ size \in Nat
  /\ gSize \in [Connections -> Nat] /\ owed \in [Connections -> Nat] /\ accepted \in [Connections -> Nat]
  /\ watched \in [Connections -> BOOLEAN] /\ failed \in BOOLEAN
  /\ request \subseteq Fields
  /\ sends \in [Connections -> Nat] /\ sent \in [Connections -> Seq(Seq(Fields))]
  /\ called \in [Connections -> Seq(Call)]
  /\ mishaps \in [Connections -> SUBSET Mishaps]

(* The buffers hold no more than they may, what is read lies between its   *)
(* indices, and only an SSL holds bytes back.                              *)
Bounded ==
  \A c \in Connections :
    /\ Len(readBuf[c]) <= Capacity /\ Len(writeBuf[c]) <= Capacity
    /\ Between(head[c], tail[c], Len(readBuf[c]))
    /\ c \notin Secure => held[c] = <<>>

LEMMA ResponseHas ==
  ASSUME Typed
  PROVE  /\ Response \in Bytes /\ Len(Response) = PrefixSize + size
         /\ Len(Response) \in Nat \ {0}
<1> DEFINE m == [i \in 1 .. size |-> CHOOSE f \in Fields : TRUE]
<1>1. size \in Nat /\ (CHOOSE f \in Fields : TRUE) \in Fields
  BY BytesAssumption DEF Typed
<1>2. m \in Seq(Fields) /\ Len(m) = size
  BY <1>1
<1>3. Response = Frame(m)
  BY DEF Response
<1> HIDE DEF m
<1>4. Response \in Bytes /\ Len(Response) = PrefixSize + Len(m)
  BY <1>2, <1>3, FrameHas
<1>5. QED
  BY <1>1, <1>2, <1>4 DEF PrefixSize

LEMMA ValueIsNat ==
  ASSUME NEW u \in Bytes, Len(u) >= PrefixSize
  PROVE  Value(SubSeq(u, 2, 5)) \in Nat
<1> DEFINE d == SubSeq(u, 2, 5)
<1>1. \A i \in 2 .. 5 : u[i] \in Byte
  <2>1. Len(u) \in Nat /\ \A i \in 2 .. 5 : i \in 1 .. Len(u)
    BY LenProperties DEF Bytes, PrefixSize
  <2>2. QED
    BY <2>1, ElementOfSeq DEF Bytes
<1>2. \A i \in 1 .. 4 : d[i] \in Byte
  <2>1. \A i \in 1 .. 5 - 2 + 1 : d[i] = u[2 + i - 1]
    BY <1>1, SubSeqProperties
  <2>2. \A i \in 1 .. 4 : i \in 1 .. 5 - 2 + 1 /\ 2 + i - 1 \in 2 .. 5
    OBVIOUS
  <2>3. QED
    BY <1>1, <2>1, <2>2
<1> HIDE DEF d
<1>3. d[1] \in Nat /\ d[2] \in Nat /\ d[3] \in Nat /\ d[4] \in Nat /\ Base \in Nat
  BY <1>2, BaseIs DEF Byte
<1>4. ASSUME NEW a \in Nat, NEW b \in Nat PROVE a * Base + b \in Nat
  BY BaseIs
<1>5. d[1] * Base + d[2] \in Nat
  BY <1>3, <1>4
<1>6. (d[1] * Base + d[2]) * Base + d[3] \in Nat
  BY <1>3, <1>4, <1>5
<1>7. ((d[1] * Base + d[2]) * Base + d[3]) * Base + d[4] \in Nat
  BY <1>3, <1>4, <1>6
<1>8. QED
  BY <1>7 DEF Value, d

(* What Read finds in its buffer.                                          *)
LEMMA AfterPrefixHas ==
  ASSUME NEW u \in Bytes, Len(u) >= MinBytes
  PROVE  /\ AfterPrefix(u).buf \in Bytes /\ AfterPrefix(u).size \in Nat
         /\ Len(AfterPrefix(u).buf) <= Len(u)
<1>1. Len(u) \in Nat /\ 1 \in 0 .. Len(u)
  BY LenProperties DEF Bytes, MinBytes
<1>2. CASE Len(u) < PrefixSize
  <2>1. Rest(u, 1) \in Bytes /\ Len(Rest(u, 1)) <= Len(u)
    BY <1>1, RestHas
  <2>2. AfterPrefix(u).buf = Rest(u, 1) /\ AfterPrefix(u).size = 0
    BY <1>2 DEF AfterPrefix
  <2>3. QED
    BY <2>1, <2>2
<1>3. CASE ~(Len(u) < PrefixSize)
  <2>1. PrefixSize \in 0 .. Len(u) /\ Len(u) >= PrefixSize
    BY <1>1, <1>3 DEF PrefixSize
  <2>2. Rest(u, PrefixSize) \in Bytes /\ Len(Rest(u, PrefixSize)) = Len(u) - PrefixSize
    BY <2>1, RestHas
  <2>3. AfterPrefix(u).buf = Rest(u, PrefixSize) /\ AfterPrefix(u).size = Value(SubSeq(u, 2, 5))
    BY <1>3 DEF AfterPrefix
  <2>4. QED
    BY <1>1, <2>1, <2>2, <2>3, ValueIsNat
<1>4. QED
  BY <1>2, <1>3

(* A parse step with its cases: the buffer and the size once a prefix was  *)
(* taken, and whether the message is there.                                *)
Taken(c, u)  == IF PrefixDue(c, u) THEN AfterPrefix(u) ELSE [buf |-> u, size |-> gSize[c]]
Ready(c, u)  == Len(u) >= MinBytes /\ Taken(c, u).size > 0 /\ Len(Taken(c, u).buf) >= Taken(c, u).size
Found(c, u)  == IF Ready(c, u) THEN Message(Taken(c, u).buf, Taken(c, u).size) ELSE <<>>
From(c, hd, u) == Past(hd, tail[c], Len(u) - Len(Taken(c, u).buf))

LEMMA ParsedIs ==
  ASSUME NEW c, NEW hd, NEW u
  PROVE  /\ Parsed(c, hd, u).message = Found(c, u)
         /\ Parsed(c, hd, u).buf = Rest(Taken(c, u).buf, Len(Found(c, u)))
         /\ Parsed(c, hd, u).size = IF Ready(c, u) THEN 0 ELSE Taken(c, u).size
         /\ Parsed(c, hd, u).tail = Past(hd, From(c, hd, u), Len(Found(c, u)))
         /\ Parsed(c, hd, u).misread \in BOOLEAN
         /\ Parsed(c, hd, u).failed <=> (PrefixDue(c, u) /\ u[1] # 0) \/ ~(Range(Found(c, u)) \subseteq Fields)
BY DEF Parsed, Taken, Ready, Found, From

LEMMA ParsedHas ==
  ASSUME Typed, NEW c \in Connections, NEW hd, NEW u \in Bytes
  PROVE  /\ Taken(c, u).buf \in Bytes /\ Taken(c, u).size \in Nat /\ Len(Taken(c, u).buf) <= Len(u)
         /\ Found(c, u) \in Bytes /\ Len(Found(c, u)) \in 0 .. Len(Taken(c, u).buf)
         /\ Ready(c, u) => Len(Found(c, u)) = Taken(c, u).size /\ Found(c, u) # <<>>
         /\ Parsed(c, hd, u).buf \in Bytes /\ Len(Parsed(c, hd, u).buf) <= Len(u)
         /\ Parsed(c, hd, u).size \in Nat /\ Parsed(c, hd, u).failed \in BOOLEAN
<1> DEFINE b == Taken(c, u).buf
           n == Taken(c, u).size
           m == Found(c, u)
<1>1. Len(u) \in Nat /\ gSize[c] \in Nat
  BY LenProperties DEF Typed, Bytes
<1>2. b \in Bytes /\ n \in Nat /\ Len(b) <= Len(u) /\ Len(b) \in Nat
  <2>1. CASE PrefixDue(c, u)
    <3>1. Taken(c, u) = AfterPrefix(u) /\ Len(u) >= MinBytes
      BY <2>1 DEF Taken, PrefixDue
    <3>2. b \in Bytes /\ n \in Nat /\ Len(b) <= Len(u)
      BY <3>1, AfterPrefixHas
    <3>3. QED
      BY <3>2, BothHave
  <2>2. CASE ~PrefixDue(c, u)
    BY <2>2, <1>1 DEF Taken
  <2>3. QED
    BY <2>1, <2>2
<1>3. m = IF Ready(c, u) THEN Prefix(b, n) ELSE <<>>
  BY DEF Found, Message
<1>4. Ready(c, u) => n > 0 /\ Len(b) >= n
  BY DEF Ready
<1> HIDE DEF b, n, m
<1>5. /\ m \in Bytes /\ Len(m) \in 0 .. Len(b)
      /\ Ready(c, u) => Len(m) = n /\ m # <<>>
  <2>1. CASE Ready(c, u)
    <3>1. n \in 0 .. Len(b) /\ n > 0
      BY <1>2, <1>4, <2>1
    <3>2. m \in Bytes /\ Len(m) = n
      BY <1>2, <1>3, <2>1, <3>1, PrefixHas
    <3>3. QED
      BY <3>1, <3>2
  <2>2. CASE ~Ready(c, u)
    <3>1. m = <<>>
      BY <1>3, <2>2
    <3>2. m \in Bytes /\ Len(m) = 0
      BY <3>1 DEF Bytes
    <3>3. QED
      BY <1>2, <2>2, <3>2
  <2>3. QED
    BY <2>1, <2>2
<1>6. Rest(b, Len(m)) \in Bytes /\ Len(Rest(b, Len(m))) <= Len(u)
  <2> DEFINE k == Len(m)
  <2>1. k \in 0 .. Len(b)
    BY <1>5
  <2> HIDE DEF k
  <2>2. Rest(b, k) \in Bytes /\ Len(Rest(b, k)) = Len(b) - k
    BY <1>2, <2>1, RestHas
  <2>3. QED
    BY <1>1, <1>2, <2>1, <2>2 DEF k
<1>7. /\ Parsed(c, hd, u).buf = Rest(b, Len(m))
      /\ Parsed(c, hd, u).size = IF Ready(c, u) THEN 0 ELSE n
      /\ Parsed(c, hd, u).failed \in BOOLEAN
  <2>1. /\ Parsed(c, hd, u).buf = Rest(b, Len(m))
        /\ Parsed(c, hd, u).size = IF Ready(c, u) THEN 0 ELSE n
    BY ParsedIs DEF b, n, m
  <2>2. Parsed(c, hd, u).failed \in BOOLEAN
    BY DEF Parsed
  <2>3. QED
    BY <2>1, <2>2, Zenon
<1>8. QED
  BY <1>2, <1>5, <1>6, <1>7 DEF b, n, m

-----------------------------------------------------------------------------
(* What Read does.                                                         *)

(* The bytes that came from a client and were not parsed. *)
Ahead(c) == (readBuf[c] \o held[c]) \o wire[c]

(* readv moves the next bytes of the stream and nothing else.              *)
LEMMA ReadvMoves ==
  ASSUME Typed, Bounded, NEW c \in Connections, NEW n \in 0 .. Len(Source(c)), ReadvNonBlock(c, n)
  PROVE  /\ Source(c) \in Bytes /\ n <= Len(Source(c)) /\ n <= Room(c)
         /\ held' \in [Connections -> Bytes] /\ wire' \in [Connections -> Bytes]
         /\ \A d \in Connections : d # c => held'[d] = held[d] /\ wire'[d] = wire[d]
         /\ c \notin Secure => held'[c] = held[c]
         /\ ((readBuf[c] \o Prefix(Source(c), n)) \o held'[c]) \o wire'[c] = Ahead(c)
<1> DEFINE r == readBuf[c]
           h == held[c]
           w == wire[c]
           s == Source(c)
           p == Prefix(s, n)
           q == Rest(s, n)
<1>1. /\ r \in Bytes /\ h \in Bytes /\ w \in Bytes /\ Len(r) \in Nat /\ Len(w) \in Nat /\ Len(r) <= Capacity
      /\ <<>> \in Bytes /\ (c \notin Secure => h = <<>>)
  BY BothHave DEF Typed, Bounded, Bytes
<1>2. s \in Bytes /\ Len(s) \in Nat /\ n \in 0 .. Len(s) /\ n <= Len(s)
  <2>1. s \in Bytes
    BY <1>1 DEF Source
  <2>2. Len(s) \in Nat
    BY <2>1, BothHave
  <2>3. n \in 0 .. Len(s)
    OBVIOUS
  <2> HIDE DEF s
  <2>4. QED
    BY <2>1, <2>2, <2>3
<1>3. n <= Room(c)
  <2> DEFINE room == Capacity - Len(r)
             k    == Len(s)
  <2>1. room \in Nat /\ k \in Nat /\ Room(c) = room
    BY <1>1, <1>2, SizesAssumption DEF Room
  <2>2. n = 0 \/ n <= Most(c)
    <3>1. n \in Cuts(c)
      BY DEF ReadvNonBlock
    <3> HIDE DEF s
    <3>2. QED
      BY <3>1 DEF Cuts
  <2> DEFINE seg == Segment(c)
  <2>3. seg \in Int
    BY SizesAssumption DEF Segment, Typed
  <2>4. Most(c) = Lesser(k, IF c \in Secure THEN Lesser(room, seg) ELSE room)
    BY <2>1 DEF Most
  <2> HIDE DEF room, k, seg
  <2>5. Most(c) \in Int /\ Most(c) <= room
    BY <2>1, <2>3, <2>4 DEF Lesser
  <2>6. n <= room
    BY <2>1, <2>2, <2>5
  <2>7. QED
    BY <2>1, <2>6
<1>4. p \in Bytes /\ q \in Bytes
  BY <1>2, PrefixHas, RestHas
<1>5. /\ (c \in Secure /\ n > 0) =>
           /\ held' = [held EXCEPT ![c] = q]
           /\ wire' = IF h = <<>> THEN [wire EXCEPT ![c] = <<>>] ELSE wire
      /\ ~(c \in Secure /\ n > 0) =>
           /\ wire' = [wire EXCEPT ![c] = Rest(w, n)]
           /\ held' = held
  BY DEF ReadvNonBlock
<1>6. CASE c \in Secure /\ n > 0 /\ h = <<>>
  <2>1. s = w
    BY <1>6 DEF Source
  <2>2. held' = [held EXCEPT ![c] = q] /\ wire' = [wire EXCEPT ![c] = <<>>]
    BY <1>5, <1>6
  <2>3. held'[c] = q /\ wire'[c] = <<>>
    BY <2>2 DEF Typed
  <2>4. ((r \o p) \o q) \o <<>> = (r \o h) \o w
    <3> HIDE DEF r, h, w, s
    <3>1. (r \o p) \o q = r \o s
      BY <1>1, <1>2, Moved
    <3>2. r \o s \in Bytes
      BY <1>1, <1>2, BothHave
    <3>3. (r \o s) \o <<>> = r \o s /\ r \o h = r
      BY <1>1, <1>6, <3>2, WithNothing
    <3>4. QED
      BY <2>1, <3>1, <3>3
  <2>5. /\ held' \in [Connections -> Bytes] /\ wire' \in [Connections -> Bytes]
        /\ \A d \in Connections : d # c => held'[d] = held[d] /\ wire'[d] = wire[d]
    <3> HIDE DEF q
    <3>1. QED
      BY <1>1, <1>4, <2>2 DEF Typed
  <2>6. QED
    <3>1. ((r \o p) \o held'[c]) \o wire'[c] = (r \o h) \o w
      BY <2>3, <2>4, Zenon
    <3>2. ((r \o p) \o held'[c]) \o wire'[c] = Ahead(c)
      BY <3>1 DEF Ahead
    <3>3. s \in Bytes /\ n <= Len(s) /\ n <= Room(c) /\ (c \notin Secure => held'[c] = held[c])
      BY <1>2, <1>3, <1>6
    <3>4. QED
      BY <2>5, <3>2, <3>3, Zenon
<1>7. CASE c \in Secure /\ n > 0 /\ h # <<>>
  <2>1. s = h
    BY <1>7 DEF Source
  <2>2. held' = [held EXCEPT ![c] = q] /\ wire' = wire
    BY <1>5, <1>7
  <2>3. held'[c] = q /\ wire'[c] = w
    BY <2>2 DEF Typed
  <2>4. ((r \o p) \o q) \o w = (r \o h) \o w
    <3> HIDE DEF r, h, w, s
    <3>1. (r \o p) \o q = r \o s
      BY <1>1, <1>2, Moved
    <3>2. QED
      BY <2>1, <3>1
  <2>5. /\ held' \in [Connections -> Bytes] /\ wire' \in [Connections -> Bytes]
        /\ \A d \in Connections : d # c => held'[d] = held[d] /\ wire'[d] = wire[d]
    <3> HIDE DEF q
    <3>1. QED
      BY <1>4, <2>2 DEF Typed
  <2>6. QED
    BY <1>2, <1>3, <1>7, <2>3, <2>4, <2>5 DEF Ahead
<1>8. CASE ~(c \in Secure /\ n > 0)
  <2>1. wire' = [wire EXCEPT ![c] = Rest(w, n)] /\ held' = held
    BY <1>5, <1>8
  <2>2. Rest(w, n) \in Bytes /\ ((r \o p) \o h) \o Rest(w, n) = (r \o h) \o w
    <3>1. CASE n = 0
      <4>1. p = <<>>
        <5>1. Len(p) = 0
          BY <1>2, <3>1, PrefixHas
        <5>2. QED
          BY <1>4, <5>1, EmptySeq DEF Bytes
      <4>2. Rest(w, n) = w
        BY <1>1, <3>1, RestOfNothing
      <4> HIDE DEF p, r, h, w
      <4>3. r \o p = r
        BY <1>1, <4>1, WithNothing
      <4>4. QED
        BY <1>1, <4>2, <4>3
    <3>2. CASE n # 0
      <4>1. c \notin Secure /\ h = <<>> /\ s = w
        BY <1>1, <1>8, <3>2 DEF Source
      <4> HIDE DEF r, h, w, s
      <4>2. (r \o p) \o q = r \o s
        BY <1>1, <1>2, Moved
      <4>3. r \o p \in Bytes
        BY <1>1, <1>4, BothHave
      <4>4. (r \o p) \o h = r \o p /\ r \o h = r
        BY <1>1, <4>1, <4>3, WithNothing
      <4>5. QED
        BY <1>4, <4>1, <4>2, <4>4
    <3>3. QED
      BY <3>1, <3>2
  <2>3. held'[c] = h /\ wire'[c] = Rest(w, n)
    BY <2>1 DEF Typed
  <2>4. /\ held' \in [Connections -> Bytes] /\ wire' \in [Connections -> Bytes]
        /\ \A d \in Connections : d # c => held'[d] = held[d] /\ wire'[d] = wire[d]
    BY <2>1, <2>2 DEF Typed
  <2>5. QED
    <3>1. ((r \o p) \o held'[c]) \o wire'[c] = (r \o h) \o w
      BY <2>2, <2>3, Zenon
    <3>2. ((r \o p) \o held'[c]) \o wire'[c] = Ahead(c)
      BY <3>1 DEF Ahead
    <3>3. s \in Bytes /\ n <= Len(s) /\ n <= Room(c) /\ (c \notin Secure => held'[c] = held[c])
      BY <1>2, <1>3, <2>3
    <3>4. QED
      BY <2>4, <3>2, <3>3, Zenon
<1>9. QED
  BY <1>6, <1>7, <1>8

LEMMA FieldsOnly ==
  ASSUME NEW u \in Bytes, Range(u) \subseteq Fields
  PROVE  u \in Seq(Fields)
<1>1. u \in Seq(Byte) /\ Len(u) \in Nat /\ DOMAIN u = 1 .. Len(u) /\ u = [i \in 1 .. Len(u) |-> u[i]]
  BY LenProperties DEF Bytes
<1>2. \A i \in 1 .. Len(u) : u[i] \in Fields
  BY <1>1 DEF Range
<1> DEFINE n == Len(u)
<1>3. u \in [1 .. n -> Fields] /\ n \in Nat
  BY <1>1, <1>2
<1> HIDE DEF n
<1>4. QED
  BY <1>3

(* The indices of the buffer: what was read comes between them, and what   *)
(* was parsed leaves.                                                      *)
LEMMA HeadMoves ==
  ASSUME Typed, Bounded, NEW c \in Connections, NEW n \in 0..Capacity - Len(readBuf[c])
  PROVE  /\ HeadAfter(c, n) \in 0..Capacity
         /\ Between(HeadAfter(c, n), tail[c], Len(readBuf[c]) + n)
<1> DEFINE h == head[c]
           t == tail[c]
           l == Len(readBuf[c])
<1>1. /\ h \in 0..Capacity /\ t \in 0..Capacity /\ l \in Nat /\ Between(h, t, l)
      /\ Capacity \in Nat \ {0}
  BY SizesAssumption, BothHave DEF Typed, Bounded
<1>2. HeadAfter(c, n) =
        IF n > 0 /\ t <= h /\ ~(h = 0 /\ t = 0) /\ n >= Capacity - h
        THEN n - (Capacity - h) ELSE h + n
  BY DEF HeadAfter
<1> HIDE DEF h, t, l
<1>3. n \in 0..Capacity - l
  BY DEF l
<1>4. /\ HeadAfter(c, n) \in 0..Capacity
      /\ Between(HeadAfter(c, n), t, l + n)
  BY <1>1, <1>2, <1>3 DEF Between
<1>5. QED
  BY <1>4 DEF t, l

LEMMA PastMoves ==
  ASSUME NEW h \in 0..Capacity, NEW t \in 0..Capacity, NEW l \in Nat, NEW n \in 0..l,
         Between(h, t, l)
  PROVE  Past(h, t, n) \in 0..Capacity /\ Between(h, Past(h, t, n), l - n)
BY SizesAssumption DEF Past, Between

LEMMA TailMoves ==
  ASSUME Typed, NEW c \in Connections, NEW hd \in 0..Capacity, NEW u \in Bytes,
         Between(hd, tail[c], Len(u))
  PROVE  /\ Parsed(c, hd, u).tail \in 0..Capacity
         /\ Between(hd, Parsed(c, hd, u).tail, Len(Parsed(c, hd, u).buf))
<1> DEFINE l == Len(u)
           b == Taken(c, u).buf
           k == Len(Found(c, u))
           f == From(c, hd, u)
<1>1. /\ l \in Nat /\ b \in Bytes /\ Len(b) \in Nat /\ Len(b) <= l
      /\ k \in 0..Len(b) /\ tail[c] \in 0..Capacity
  BY ParsedHas, BothHave DEF Typed
<1>2. f \in 0..Capacity /\ Between(hd, f, Len(b))
  <2>1. l - Len(b) \in 0..l /\ l - (l - Len(b)) = Len(b)
    BY <1>1
  <2>2. f = Past(hd, tail[c], l - Len(b))
    BY DEF From
  <2> HIDE DEF l, b, f
  <2>3. /\ Past(hd, tail[c], l - Len(b)) \in 0..Capacity
        /\ Between(hd, Past(hd, tail[c], l - Len(b)), l - (l - Len(b)))
    BY <1>1, <2>1, PastMoves DEF l
  <2>4. QED
    BY <2>1, <2>2, <2>3, Zenon
<1>3. Parsed(c, hd, u).tail = Past(hd, f, k) /\ Parsed(c, hd, u).buf = Rest(b, k)
  BY ParsedIs
<1> HIDE DEF l, b, k, f
<1>4. Len(Rest(b, k)) = Len(b) - k
  BY <1>1, RestHas
<1>5. Past(hd, f, k) \in 0..Capacity /\ Between(hd, Past(hd, f, k), Len(b) - k)
  BY <1>1, <1>2, PastMoves
<1>6. QED
  BY <1>3, <1>4, <1>5, Zenon

(* Read, with what its buffer is when it parses.                           *)
Reading(c, hd, u) ==
  LET p == Parsed(c, hd, u) IN
  /\ readBuf' = [readBuf EXCEPT ![c] = p.buf]
  /\ gSize' = [gSize EXCEPT ![c] = p.size]
  /\ tail' = [tail EXCEPT ![c] = p.tail]
  /\ failed' = (p.failed \/ p.misread)
  /\ IF p.message # <<>> /\ ~failed'
     THEN /\ request' = request \cup Range(p.message)
          /\ called' = [called EXCEPT ![c] =
               Append(@, [message |-> p.message, given |-> request', stale |-> request])]
          /\ owed' = [owed EXCEPT ![c] = @ + 1]
     ELSE UNCHANGED <<request, called, owed>>
  /\ \E e \in SUBSET {"full"} : mishaps' = [mishaps EXCEPT ![c] =
       @ \cup (IF PrefixDue(c, u) /\ Len(u) < PrefixSize THEN {"short"} ELSE {}) \cup e
         \cup (IF p.misread THEN {"misread"} ELSE {})]

LEMMA ReadDoes ==
  ASSUME Typed, Bounded, NEW c \in Connections, NEW n \in 0 .. Len(Source(c)), Read(c, n),
         NEW u, u = readBuf[c] \o Prefix(Source(c), n), NEW hd, hd = HeadAfter(c, n)
  PROVE  /\ u \in Bytes /\ Len(u) <= Capacity /\ Reading(c, hd, u)
         /\ hd \in 0..Capacity /\ Between(hd, tail[c], Len(u)) /\ head' = [head EXCEPT ![c] = hd]
<1> DEFINE p == Prefix(Source(c), n)
<1>1. Parse(c, hd, u) /\ ReadvNonBlock(c, n) /\ head' = [head EXCEPT ![c] = hd]
  BY DEF Read
<1>2. Source(c) \in Bytes /\ n <= Room(c)
  BY <1>1, ReadvMoves
<1>3. p \in Bytes /\ Len(p) = n
  BY <1>2, PrefixHas
<1>4. readBuf[c] \in Bytes /\ Len(readBuf[c]) <= Capacity /\ Capacity \in Nat
  BY SizesAssumption DEF Typed, Bounded
<1> HIDE DEF p
<1>5. u = readBuf[c] \o p
  BY DEF p
<1>6. u \in Bytes /\ Len(u) = Len(readBuf[c]) + Len(p) /\ Len(readBuf[c]) \in Nat /\ Len(p) \in Nat
  BY <1>3, <1>4, <1>5, BothHave
<1>7. Len(u) <= Capacity
  BY <1>2, <1>3, <1>4, <1>6 DEF Room
<1>8. /\ readBuf' = [readBuf EXCEPT ![c] = Parsed(c, hd, u).buf]
      /\ gSize' = [gSize EXCEPT ![c] = Parsed(c, hd, u).size]
      /\ tail' = [tail EXCEPT ![c] = Parsed(c, hd, u).tail]
      /\ failed' = (Parsed(c, hd, u).failed \/ Parsed(c, hd, u).misread)
      /\ IF Parsed(c, hd, u).message # <<>> /\ ~failed'
         THEN /\ request' = request \cup Range(Parsed(c, hd, u).message)
              /\ called' = [called EXCEPT ![c] =
                   Append(@, [message |-> Parsed(c, hd, u).message, given |-> request', stale |-> request])]
              /\ owed' = [owed EXCEPT ![c] = @ + 1]
         ELSE UNCHANGED <<request, called, owed>>
  BY <1>1, Zenon DEF Parse
<1>9. \E e \in SUBSET {"full"} : mishaps' = [mishaps EXCEPT ![c] =
        @ \cup (IF PrefixDue(c, u) /\ Len(u) < PrefixSize THEN {"short"} ELSE {}) \cup e
          \cup (IF Parsed(c, hd, u).misread THEN {"misread"} ELSE {})]
  <2>1. mishaps' = [mishaps EXCEPT ![c] =
          @ \cup (IF PrefixDue(c, u) /\ Len(u) < PrefixSize THEN {"short"} ELSE {})
            \cup (IF Len(readBuf[c]) = Capacity THEN {"full"} ELSE {})
            \cup (IF Parsed(c, hd, u).misread THEN {"misread"} ELSE {})]
    BY <1>1, Zenon DEF Parse
  <2>2. (IF Len(readBuf[c]) = Capacity THEN {"full"} ELSE {}) \in SUBSET {"full"}
    OBVIOUS
  <2>3. QED
    BY <2>1, <2>2
<1>10. hd \in 0..Capacity /\ Between(hd, tail[c], Len(u))
  <2>1. n \in 0..Capacity - Len(readBuf[c])
    BY <1>2, <1>3, <1>4, <1>6 DEF Room
  <2>2. QED
    BY <1>3, <1>6, <2>1, HeadMoves
<1>11. QED
  BY <1>1, <1>6, <1>7, <1>8, <1>9, <1>10, Zenon DEF Reading

-----------------------------------------------------------------------------
(* Types and sizes are kept.                                               *)

LEMMA RegisterTyped ==
  ASSUME Typed, Bounded, NEW c \in Connections, Register(c) \/ Unregister(c)
  PROVE  Typed' /\ Bounded'
<1>1. /\ UNCHANGED <<readBuf, head, tail, size, gSize, request, called, wire, held, failed, writeBuf, accepted, back,
                     watched, owed, sends, sent, mishaps>>
      /\ state' \in {[state EXCEPT ![c] = "open"], [state EXCEPT ![c] = "gone"]}
  BY DEF Register, Unregister, input, output, history
<1>2. state' \in [Connections -> {"new", "open", "closing", "gone"}]
  BY <1>1 DEF Typed
<1>3. QED
  BY <1>1, <1>2 DEF Typed, Bounded

LEMMA SendTyped ==
  ASSUME Typed, Bounded, NEW c \in Connections, NEW m \in Requests[c], Send(c, m)
  PROVE  Typed' /\ Bounded'
<1>1. /\ wire' = [wire EXCEPT ![c] = wire[c] \o Frame(m)]
      /\ sends' = [sends EXCEPT ![c] = @ + 1]
      /\ sent' = IF m = <<>> THEN sent ELSE [sent EXCEPT ![c] = Append(sent[c], m)]
      /\ UNCHANGED <<state, readBuf, head, tail, size, gSize, request, called, held, failed, writeBuf, accepted, back,
                     watched, owed, mishaps>>
  BY DEF Send, output
<1>2. m \in Seq(Fields)
  BY BytesAssumption
<1>3. wire[c] \o Frame(m) \in Bytes
  <2>1. wire[c] \in Bytes /\ Frame(m) \in Bytes
    BY <1>2, FrameHas DEF Typed
  <2>2. QED
    BY <2>1, BothHave
<1>4. wire' \in [Connections -> Bytes] /\ sends' \in [Connections -> Nat]
  BY <1>1, <1>3 DEF Typed
<1>5. sent' \in [Connections -> Seq(Seq(Fields))]
  <2>1. Append(sent[c], m) \in Seq(Seq(Fields))
    <3>1. sent[c] \in Seq(Seq(Fields))
      BY DEF Typed
    <3>2. QED
      BY <1>2, <3>1, AppendProperties
  <2>2. QED
    BY <1>1, <2>1 DEF Typed
<1>6. QED
  BY <1>1, <1>4, <1>5 DEF Typed, Bounded

LEMMA ReadTyped ==
  ASSUME Typed, Bounded, NEW c \in Connections, NEW n \in 0 .. Len(Source(c)), Read(c, n)
  PROVE  Typed' /\ Bounded'
<1> DEFINE u == readBuf[c] \o Prefix(Source(c), n)
           hd == HeadAfter(c, n)
           p == Parsed(c, hd, u)
<1>1. /\ state' \in {state, [state EXCEPT ![c] = "closing"]}
      /\ watched' \in {watched, [watched EXCEPT ![c] = TRUE]}
      /\ UNCHANGED <<writeBuf, accepted, back, sends, sent, size>>
      /\ ReadvNonBlock(c, n)
  BY DEF Read, output, history
<1>2. /\ u \in Bytes /\ Len(u) <= Capacity
      /\ hd \in 0..Capacity /\ Between(hd, tail[c], Len(u)) /\ head' = [head EXCEPT ![c] = hd]
      /\ readBuf' = [readBuf EXCEPT ![c] = p.buf]
      /\ gSize' = [gSize EXCEPT ![c] = p.size]
      /\ tail' = [tail EXCEPT ![c] = p.tail]
      /\ failed' = (p.failed \/ p.misread)
      /\ IF p.message # <<>> /\ ~failed'
         THEN /\ request' = request \cup Range(p.message)
              /\ called' = [called EXCEPT ![c] =
                   Append(@, [message |-> p.message, given |-> request', stale |-> request])]
              /\ owed' = [owed EXCEPT ![c] = @ + 1]
         ELSE UNCHANGED <<request, called, owed>>
      /\ \E e \in SUBSET {"full"} : mishaps' = [mishaps EXCEPT ![c] =
           @ \cup (IF PrefixDue(c, u) /\ Len(u) < PrefixSize THEN {"short"} ELSE {}) \cup e
             \cup (IF p.misread THEN {"misread"} ELSE {})]
  <2>1. /\ u \in Bytes /\ Len(u) <= Capacity /\ Reading(c, hd, u)
        /\ hd \in 0..Capacity /\ Between(hd, tail[c], Len(u)) /\ head' = [head EXCEPT ![c] = hd]
    BY ReadDoes
  <2> HIDE DEF u, hd
  <2>2. QED
    BY <2>1, Zenon DEF Reading
<1>3. /\ held' \in [Connections -> Bytes] /\ wire' \in [Connections -> Bytes]
      /\ \A d \in Connections : d # c => held'[d] = held[d]
      /\ c \notin Secure => held'[c] = held[c]
  BY <1>1, ReadvMoves
<1> HIDE DEF u, hd
<1>4. /\ p.buf \in Bytes /\ Len(p.buf) <= Len(u) /\ p.size \in Nat /\ p.failed \in BOOLEAN
      /\ p.message \in Bytes
      /\ p.message = Found(c, u) /\ p.misread \in BOOLEAN
      /\ p.tail \in 0..Capacity /\ Between(hd, p.tail, Len(p.buf))
  BY <1>2, ParsedHas, ParsedIs, TailMoves
<1>5. p.failed <=> (PrefixDue(c, u) /\ u[1] # 0) \/ ~(Range(p.message) \subseteq Fields)
  <2>1. p.failed <=> (PrefixDue(c, u) /\ u[1] # 0) \/ ~(Range(Found(c, u)) \subseteq Fields)
    BY ParsedIs
  <2>2. QED
    BY <1>4, <2>1, Zenon
<1> HIDE DEF p
<1>6. request' \subseteq Fields /\ called' \in [Connections -> Seq(Call)] /\ owed' \in [Connections -> Nat]
  <2>1. CASE p.message # <<>> /\ ~failed'
    <3>1. Range(p.message) \subseteq Fields
      BY <1>2, <1>5, <2>1
    <3>2. p.message \in Seq(Fields)
      BY <1>4, <3>1, FieldsOnly
    <3>3. request' = request \cup Range(p.message) /\ request' \subseteq Fields /\ request \subseteq Fields
      BY <1>2, <2>1, <3>1 DEF Typed
    <3>4. [message |-> p.message, given |-> request', stale |-> request] \in Call
      BY <3>2, <3>3 DEF Call
    <3>5. Append(called[c], [message |-> p.message, given |-> request', stale |-> request]) \in Seq(Call)
      <4> DEFINE e == [message |-> p.message, given |-> request', stale |-> request]
      <4>1. called[c] \in Seq(Call) /\ e \in Call
        BY <3>4 DEF Typed
      <4> HIDE DEF e
      <4>2. Append(called[c], e) \in Seq(Call)
        BY <4>1, AppendProperties
      <4>3. QED
        BY <4>2 DEF e
    <3>6. called' = [called EXCEPT ![c] = Append(@, [message |-> p.message, given |-> request', stale |-> request])]
      BY <1>2, <2>1
    <3>7. called' \in [Connections -> Seq(Call)]
      <4> DEFINE a == Append(called[c], [message |-> p.message, given |-> request', stale |-> request])
      <4>1. called' = [called EXCEPT ![c] = a] /\ a \in Seq(Call)
        BY <3>5, <3>6
      <4> HIDE DEF a
      <4>2. QED
        BY <4>1 DEF Typed
    <3>8. owed' \in [Connections -> Nat]
      <4>1. owed' = [owed EXCEPT ![c] = @ + 1]
        BY <1>2, <2>1
      <4>2. QED
        BY <4>1 DEF Typed
    <3>9. QED
      BY <3>3, <3>7, <3>8
  <2>2. CASE ~(p.message # <<>> /\ ~failed')
    BY <1>2, <2>2 DEF Typed
  <2>3. QED
    BY <2>1, <2>2
<1>7. mishaps' \in [Connections -> SUBSET Mishaps]
  <2>1. PICK e \in SUBSET {"full"} : mishaps' = [mishaps EXCEPT ![c] =
          @ \cup (IF PrefixDue(c, u) /\ Len(u) < PrefixSize THEN {"short"} ELSE {}) \cup e
            \cup (IF p.misread THEN {"misread"} ELSE {})]
    BY <1>2
  <2>2. QED
    BY <2>1 DEF Typed, Mishaps
<1>8. /\ readBuf' \in [Connections -> Bytes] /\ gSize' \in [Connections -> Nat] /\ failed' \in BOOLEAN
      /\ readBuf'[c] = p.buf /\ \A d \in Connections : d # c => readBuf'[d] = readBuf[d]
      /\ head' \in [Connections -> 0..Capacity] /\ tail' \in [Connections -> 0..Capacity]
      /\ head'[c] = hd /\ tail'[c] = p.tail
      /\ \A d \in Connections : d # c => head'[d] = head[d] /\ tail'[d] = tail[d]
  BY <1>2, <1>4 DEF Typed
<1>9. state' \in [Connections -> {"new", "open", "closing", "gone"}] /\ watched' \in [Connections -> BOOLEAN]
  BY <1>1 DEF Typed
<1>10. Typed'
  BY <1>1, <1>3, <1>6, <1>7, <1>8, <1>9 DEF Typed
<1>11. Len(p.buf) <= Capacity
  <2>1. Len(p.buf) \in Nat /\ Len(u) \in Nat /\ Capacity \in Nat
    BY <1>2, <1>4, BothHave, SizesAssumption
  <2>2. QED
    BY <1>2, <1>4, <2>1
<1>12. Bounded'
  <2>1. \A d \in Connections : Between(head[d], tail[d], Len(readBuf[d]))'
    <3>1. Between(hd, p.tail, Len(p.buf))
      BY <1>4
    <3>2. QED
      BY <1>8, <3>1 DEF Bounded, Between
  <2>2. QED
    BY <1>1, <1>3, <1>8, <1>11, <2>1 DEF Bounded
<1>13. QED
  BY <1>10, <1>12

(* What WriteResponse puts into the buffer: all of a response, or what     *)
(* there is room for.                                                      *)
LEMMA WriteResponseDoes ==
  ASSUME Typed, Bounded, NEW c \in Connections, WriteResponse(c)
  PROVE  /\ UNCHANGED <<state, readBuf, head, tail, size, gSize, request, called, wire, held, failed, back, sends, sent>>
         /\ owed[c] > 0 /\ owed' = [owed EXCEPT ![c] = owed[c] - 1]
         /\ \/ /\ writeBuf' = [writeBuf EXCEPT ![c] = writeBuf[c] \o Response]
               /\ accepted' = [accepted EXCEPT ![c] = accepted[c] + 1]
               /\ watched' = [watched EXCEPT ![c] = TRUE] /\ mishaps' = mishaps
               /\ Len(writeBuf[c] \o Response) <= Capacity
            \/ /\ mishaps' = [mishaps EXCEPT ![c] = mishaps[c] \cup {"torn"}]
               /\ accepted' = accepted /\ watched' = watched
               /\ \E w \in Bytes : Len(w) <= Capacity /\ writeBuf' = [writeBuf EXCEPT ![c] = w]
<1> DEFINE free == Capacity - Len(writeBuf[c])
           k == IF free < PrefixSize /\ free > 0 THEN 1 ELSE free
<1>1. UNCHANGED <<state, readBuf, head, tail, size, gSize, request, called, wire, held, failed, back, sends, sent>>
  BY DEF WriteResponse, input, history
<1>2. owed[c] > 0 /\ owed' = [owed EXCEPT ![c] = owed[c] - 1]
  BY DEF WriteResponse
<1>3. writeBuf[c] \in Bytes /\ Len(writeBuf[c]) \in Nat /\ Len(writeBuf[c]) <= Capacity /\ Capacity \in Nat
  BY SizesAssumption, BothHave DEF Typed, Bounded
<1>4. Response \in Bytes /\ Len(Response) \in Nat
  BY ResponseHas
<1>5. writeBuf[c] \o Response \in Bytes /\ Len(writeBuf[c] \o Response) = Len(writeBuf[c]) + Len(Response)
  BY <1>3, <1>4, BothHave
<1>6. CASE Fits(c, Len(Response))
  <2>1. Len(writeBuf[c] \o Response) <= Capacity
    BY <1>5, <1>6 DEF Fits
  <2>2. Prefix(writeBuf[c] \o Response, Capacity) = writeBuf[c] \o Response
    BY <1>3, <1>5, <2>1, PrefixIsAll
  <2>3. /\ writeBuf' = [writeBuf EXCEPT ![c] = Prefix(writeBuf[c] \o Response, Capacity)]
        /\ accepted' = [accepted EXCEPT ![c] = accepted[c] + 1]
        /\ watched' = [watched EXCEPT ![c] = TRUE] /\ mishaps' = mishaps
    BY <1>6 DEF WriteResponse
  <2>4. QED
    BY <1>1, <1>2, <2>1, <2>2, <2>3
<1>7. CASE ~Fits(c, Len(Response))
  <2> DEFINE w == writeBuf[c] \o Prefix(Response, k)
  <2>1. /\ writeBuf' = [writeBuf EXCEPT ![c] = w]
        /\ mishaps' = [mishaps EXCEPT ![c] = mishaps[c] \cup {"torn"}]
        /\ accepted' = accepted /\ watched' = watched
    BY <1>7 DEF WriteResponse
  <2>2. k \in 0 .. Len(Response) /\ k <= Capacity - Len(writeBuf[c])
    <3>1. ~(Len(writeBuf[c]) + Len(Response) <= Capacity)
      BY <1>7 DEF Fits
    <3>2. PrefixSize = 5
      BY DEF PrefixSize
    <3>3. ASSUME NEW a \in Nat, NEW b \in Nat, NEW r \in Nat, a <= b, ~(a + r <= b),
                 NEW j, j = IF b - a < 5 /\ b - a > 0 THEN 1 ELSE b - a
          PROVE  j \in 0 .. r /\ j <= b - a
      BY <3>3
    <3>4. QED
      BY <1>3, <1>4, <3>1, <3>2, <3>3
  <2>3. w \in Bytes /\ Len(w) <= Capacity
    <3> DEFINE q == Prefix(Response, k)
    <3> HIDE DEF k
    <3>1. q \in Bytes /\ Len(q) = k
      BY <1>4, <2>2, PrefixHas
    <3> HIDE DEF q
    <3>2. writeBuf[c] \o q \in Bytes /\ Len(writeBuf[c] \o q) = Len(writeBuf[c]) + Len(q)
      BY <1>3, <3>1, BothHave
    <3>3. Len(writeBuf[c] \o q) <= Capacity
      BY <1>3, <2>2, <3>1, <3>2
    <3>4. QED
      BY <3>2, <3>3 DEF q
  <2> HIDE DEF w
  <2>4. QED
    BY <1>1, <1>2, <2>1, <2>3
<1>8. QED
  BY <1>6, <1>7

LEMMA WriteResponseTyped ==
  ASSUME Typed, Bounded, NEW c \in Connections, WriteResponse(c)
  PROVE  Typed' /\ Bounded'
<1>1. /\ UNCHANGED <<state, readBuf, head, tail, size, gSize, request, called, wire, held, failed, back, sends, sent>>
      /\ owed[c] > 0 /\ owed' = [owed EXCEPT ![c] = owed[c] - 1]
      /\ \E w \in Bytes : Len(w) <= Capacity /\ writeBuf' = [writeBuf EXCEPT ![c] = w]
      /\ accepted' \in {accepted, [accepted EXCEPT ![c] = accepted[c] + 1]}
      /\ watched' \in {watched, [watched EXCEPT ![c] = TRUE]}
      /\ mishaps' \in {mishaps, [mishaps EXCEPT ![c] = mishaps[c] \cup {"torn"}]}
  <2>1. writeBuf[c] \o Response \in Bytes
    <3>1. writeBuf[c] \in Bytes /\ Response \in Bytes
      BY ResponseHas DEF Typed
    <3>2. QED
      BY <3>1, BothHave
  <2>2. QED
    BY <2>1, WriteResponseDoes
<1>2. owed' \in [Connections -> Nat]
  BY <1>1 DEF Typed
<1>3. accepted' \in [Connections -> Nat] /\ watched' \in [Connections -> BOOLEAN]
  <2>1. /\ accepted' \in {accepted, [accepted EXCEPT ![c] = accepted[c] + 1]}
        /\ watched' \in {watched, [watched EXCEPT ![c] = TRUE]}
    BY <1>1
  <2>2. accepted' \in [Connections -> Nat]
    <3>1. accepted \in [Connections -> Nat] /\ accepted[c] + 1 \in Nat
      BY DEF Typed
    <3>2. QED
      BY <2>1, <3>1
  <2>3. watched' \in [Connections -> BOOLEAN]
    BY <2>1 DEF Typed
  <2>4. QED
    BY <2>2, <2>3
<1>4. mishaps' \in [Connections -> SUBSET Mishaps]
  <2>1. mishaps' \in {mishaps, [mishaps EXCEPT ![c] = mishaps[c] \cup {"torn"}]}
    BY <1>1
  <2>2. mishaps \in [Connections -> SUBSET Mishaps] /\ mishaps[c] \cup {"torn"} \in SUBSET Mishaps
    BY DEF Typed, Mishaps
  <2>3. QED
    BY <2>1, <2>2
<1>5. writeBuf' \in [Connections -> Bytes] /\ \A d \in Connections : Len(writeBuf'[d]) <= Capacity
  BY <1>1 DEF Typed, Bounded
<1>6. QED
  BY <1>1, <1>2, <1>3, <1>4, <1>5 DEF Typed, Bounded

(* What Write sends is what it takes out of the buffer.                    *)
LEMMA WriteDoes ==
  ASSUME Typed, Bounded, NEW c \in Connections, NEW n \in 0 .. Len(writeBuf[c]), Write(c, n)
  PROVE  /\ UNCHANGED <<readBuf, head, tail, size, gSize, request, called, wire, held, failed, accepted, owed, sends, sent>>
         /\ state' \in {state, [state EXCEPT ![c] = "closing"]}
         /\ \E e \in SUBSET {"idle", "refused"} : mishaps' = [mishaps EXCEPT ![c] = mishaps[c] \cup e]
         /\ watched' \in [Connections -> BOOLEAN]
         /\ writeBuf' = [writeBuf EXCEPT ![c] = Rest(writeBuf[c], n)]
         /\ back' = [back EXCEPT ![c] = back[c] \o Prefix(writeBuf[c], n)]
         /\ Prefix(writeBuf[c], n) \in Bytes /\ Rest(writeBuf[c], n) \in Bytes
         /\ Len(Rest(writeBuf[c], n)) <= Capacity
<1>1. /\ UNCHANGED <<readBuf, head, tail, size, gSize, request, called, wire, held, failed, accepted, owed, sends, sent>>
      /\ writeBuf' = [writeBuf EXCEPT ![c] = Rest(writeBuf[c], n)]
      /\ back' = [back EXCEPT ![c] = back[c] \o Prefix(writeBuf[c], n)]
  BY DEF Write, input, history
<1>2. /\ state' \in {state, [state EXCEPT ![c] = "closing"]}
      /\ \E e \in SUBSET {"idle", "refused"} : mishaps' = [mishaps EXCEPT ![c] = mishaps[c] \cup e]
  <2>1. CASE n = 0
    <3> DEFINE e == {IF Refused(c) THEN "refused" ELSE "idle"}
    <3>1. e \in SUBSET {"idle", "refused"}
      OBVIOUS
    <3>2. state' = [state EXCEPT ![c] = "closing"] /\ mishaps' = [mishaps EXCEPT ![c] = mishaps[c] \cup e]
      BY <2>1 DEF Write
    <3> HIDE DEF e
    <3>3. QED
      BY <3>1, <3>2
  <2>2. CASE n # 0
    <3>1. state' = state /\ mishaps' = mishaps
      BY <2>2 DEF Write
    <3>2. {} \in SUBSET {"idle", "refused"} /\ mishaps' = [mishaps EXCEPT ![c] = mishaps[c] \cup {}]
      BY <3>1 DEF Typed
    <3>3. QED
      BY <3>1, <3>2
  <2>3. QED
    BY <2>1, <2>2
<1>3. watched' \in [Connections -> BOOLEAN]
  <2>1. watched' \in {watched, [watched EXCEPT ![c] = (n < Len(writeBuf[c]))]}
    BY DEF Write, Maintained
  <2>2. (n < Len(writeBuf[c])) \in BOOLEAN
    OBVIOUS
  <2>3. QED
    BY <2>1, <2>2 DEF Typed
<1>4. writeBuf[c] \in Bytes /\ Len(writeBuf[c]) <= Capacity
  BY DEF Typed, Bounded
<1>5. /\ Prefix(writeBuf[c], n) \in Bytes /\ Rest(writeBuf[c], n) \in Bytes
      /\ Len(Rest(writeBuf[c], n)) = Len(writeBuf[c]) - n
  BY <1>4, PrefixHas, RestHas
<1>6. Len(Rest(writeBuf[c], n)) <= Capacity
  <2>1. Len(writeBuf[c]) \in Nat /\ Capacity \in Nat /\ n \in Nat
    BY <1>4, BothHave, SizesAssumption
  <2>2. QED
    BY <1>4, <1>5, <2>1
<1>7. QED
  BY <1>1, <1>2, <1>3, <1>5, <1>6

LEMMA WriteTyped ==
  ASSUME Typed, Bounded, NEW c \in Connections, NEW n \in 0 .. Len(writeBuf[c]), Write(c, n)
  PROVE  Typed' /\ Bounded'
<1>1. /\ UNCHANGED <<readBuf, head, tail, size, gSize, request, called, wire, held, failed, accepted, owed, sends, sent>>
      /\ state' \in {state, [state EXCEPT ![c] = "closing"]}
      /\ \E e \in SUBSET {"idle", "refused"} : mishaps' = [mishaps EXCEPT ![c] = mishaps[c] \cup e]
      /\ watched' \in [Connections -> BOOLEAN]
      /\ \E w \in Bytes : Len(w) <= Capacity /\ writeBuf' = [writeBuf EXCEPT ![c] = w]
      /\ \E w \in Bytes : back' = [back EXCEPT ![c] = back[c] \o w]
  BY WriteDoes
<1>2. state' \in [Connections -> {"new", "open", "closing", "gone"}]
  BY <1>1 DEF Typed
<1>3. mishaps' \in [Connections -> SUBSET Mishaps]
  <2>1. PICK e \in SUBSET {"idle", "refused"} : mishaps' = [mishaps EXCEPT ![c] = mishaps[c] \cup e]
    BY <1>1
  <2>2. mishaps \in [Connections -> SUBSET Mishaps] /\ mishaps[c] \cup e \in SUBSET Mishaps
    BY DEF Typed, Mishaps
  <2>3. QED
    BY <2>1, <2>2
<1>4. writeBuf' \in [Connections -> Bytes] /\ \A d \in Connections : Len(writeBuf'[d]) <= Capacity
  BY <1>1 DEF Typed, Bounded
<1>5. back' \in [Connections -> Bytes]
  <2>1. PICK w \in Bytes : back' = [back EXCEPT ![c] = back[c] \o w]
    BY <1>1
  <2>2. back[c] \o w \in Bytes
    <3>1. back[c] \in Bytes
      BY DEF Typed
    <3>2. QED
      BY <3>1, BothHave
  <2>3. QED
    BY <2>1, <2>2 DEF Typed
<1>6. QED
  BY <1>1, <1>2, <1>3, <1>4, <1>5 DEF Typed, Bounded

-----------------------------------------------------------------------------
(* What the clients receive.                                               *)

(* b is k responses one behind the other. *)
Answered(b, k) ==
  /\ Len(b) = k * Len(Response)
  /\ \A i \in DOMAIN b : b[i] = Response[((i - 1) % Len(Response)) + 1]

Answers == \A c \in Connections : "torn" \notin mishaps[c] => Answered(back[c] \o writeBuf[c], accepted[c])

LEMMA AnswersIsAnswersWhole == Answers <=> AnswersWhole
BY DEF Answers, AnswersWhole, Answered

LEMMA Modulo ==
  ASSUME NEW l \in Nat \ {0}, NEW k \in Nat, NEW r \in 0 .. l - 1
  PROVE  (k * l + r) % l = r
OBVIOUS

LEMMA AnotherResponse ==
  ASSUME Typed, NEW b \in Bytes, NEW k \in Nat, Answered(b, k)
  PROVE  Answered(b \o Response, k + 1)
<1> DEFINE l == Len(Response)
           s == b \o Response
<1>1. Response \in Bytes /\ l \in Nat \ {0}
  BY ResponseHas
<1>2. /\ s \in Bytes /\ Len(s) = Len(b) + l
      /\ \A i \in 1 .. Len(b) + l : s[i] = IF i <= Len(b) THEN b[i] ELSE Response[i - Len(b)]
      /\ Len(b) \in Nat
  BY <1>1, BothHave
<1>3. Len(b) = k * l /\ \A i \in DOMAIN b : b[i] = Response[((i - 1) % l) + 1]
  BY DEF Answered
<1>4. DOMAIN b = 1 .. Len(b) /\ DOMAIN s = 1 .. Len(s)
  BY <1>2, LenProperties DEF Bytes
<1> HIDE DEF l, s
<1>5. Len(s) = (k + 1) * l
  BY <1>1, <1>2, <1>3
<1>6. ASSUME NEW i \in 1 .. Len(b) + l PROVE s[i] = Response[((i - 1) % l) + 1]
  <2>1. CASE i <= Len(b)
    <3>1. i \in DOMAIN b /\ s[i] = b[i]
      BY <1>2, <1>4, <2>1
    <3>2. QED
      BY <1>3, <3>1
  <2>2. CASE ~(i <= Len(b))
    <3> DEFINE r == i - Len(b) - 1
    <3>1. r \in 0 .. l - 1 /\ i - 1 = k * l + r /\ r + 1 = i - Len(b)
      BY <1>1, <1>2, <1>3, <2>2
    <3> HIDE DEF r
    <3>2. (k * l + r) % l = r
      BY <1>1, <3>1, Modulo
    <3>3. (i - 1) % l = r
      BY <3>1, <3>2
    <3>4. s[i] = Response[i - Len(b)]
      BY <1>2, <2>2
    <3>5. ((i - 1) % l) + 1 = i - Len(b)
      BY <3>1, <3>3
    <3>6. QED
      BY <3>4, <3>5
  <2>3. QED
    BY <2>1, <2>2
<1>7. DOMAIN s = 1 .. Len(b) + l
  BY <1>2, <1>4
<1>8. QED
  BY <1>5, <1>6, <1>7 DEF Answered, l, s

LEMMA NoneAnswered ==
  ASSUME Typed
  PROVE  Answered(<<>> \o <<>>, 0)
<1>1. <<>> \o <<>> = <<>>
  <2>1. <<>> \in Bytes
    BY DEF Bytes
  <2>2. QED
    BY <2>1, WithNothing
<1>2. Len(<<>>) = 0 * Len(Response) /\ DOMAIN <<>> = {}
  BY ResponseHas
<1>3. QED
  BY <1>1, <1>2, Zenon DEF Answered

LEMMA AnswersKept ==
  ASSUME Answers, UNCHANGED <<back, writeBuf, accepted, size>>,
         \A c \in Connections : mishaps[c] \subseteq mishaps'[c]
  PROVE  Answers'
BY DEF Answers, Answered, Response

LEMMA WriteResponseAnswers ==
  ASSUME Typed, Bounded, Answers, NEW c \in Connections, WriteResponse(c)
  PROVE  Answers'
<1>1. /\ back' = back /\ size' = size
      /\ \/ /\ writeBuf' = [writeBuf EXCEPT ![c] = writeBuf[c] \o Response]
            /\ accepted' = [accepted EXCEPT ![c] = accepted[c] + 1]
            /\ mishaps' = mishaps
         \/ /\ mishaps' = [mishaps EXCEPT ![c] = mishaps[c] \cup {"torn"}]
            /\ accepted' = accepted
            /\ \E w \in Bytes : writeBuf' = [writeBuf EXCEPT ![c] = w]
  BY WriteResponseDoes
<1> SUFFICES ASSUME NEW d \in Connections, "torn" \notin mishaps'[d]
             PROVE  Answered(back'[d] \o writeBuf'[d], accepted'[d])
  BY <1>1 DEF Answers, Answered, Response
<1>2. CASE d # c
  <2>1. back'[d] = back[d] /\ writeBuf'[d] = writeBuf[d] /\ accepted'[d] = accepted[d] /\ mishaps'[d] = mishaps[d]
    BY <1>1, <1>2 DEF Typed
  <2>2. QED
    BY <2>1 DEF Answers
<1>3. CASE d = c
  <2>1. \/ /\ writeBuf'[c] = writeBuf[c] \o Response /\ accepted'[c] = accepted[c] + 1
           /\ mishaps'[c] = mishaps[c]
        \/ mishaps'[c] = mishaps[c] \cup {"torn"}
    BY <1>1 DEF Typed
  <2>2. writeBuf'[c] = writeBuf[c] \o Response /\ accepted'[c] = accepted[c] + 1 /\ mishaps'[c] = mishaps[c]
    BY <1>3, <2>1
  <2>3. back[c] \in Bytes /\ writeBuf[c] \in Bytes /\ Response \in Bytes /\ accepted[c] \in Nat
    BY ResponseHas DEF Typed
  <2>4. Answered(back[c] \o writeBuf[c], accepted[c])
    BY <1>3, <2>2 DEF Answers
  <2>5. Answered((back[c] \o writeBuf[c]) \o Response, accepted[c] + 1)
    <3>1. back[c] \o writeBuf[c] \in Bytes
      BY <2>3, BothHave
    <3>2. QED
      BY <2>3, <2>4, <3>1, AnotherResponse
  <2>6. back[c] \o (writeBuf[c] \o Response) = (back[c] \o writeBuf[c]) \o Response
    BY <2>3, Joined
  <2>7. Answered(back[c] \o (writeBuf[c] \o Response), accepted[c] + 1)
    BY <2>5, <2>6, Zenon
  <2>8. QED
    BY <1>1, <1>3, <2>2, <2>7, Zenon
<1>4. QED
  BY <1>2, <1>3

LEMMA WriteAnswers ==
  ASSUME Typed, Bounded, Answers, NEW c \in Connections, NEW n \in 0 .. Len(writeBuf[c]), Write(c, n)
  PROVE  Answers'
<1>1. /\ writeBuf' = [writeBuf EXCEPT ![c] = Rest(writeBuf[c], n)]
      /\ back' = [back EXCEPT ![c] = back[c] \o Prefix(writeBuf[c], n)]
      /\ accepted' = accepted /\ size' = size
      /\ \E e \in SUBSET {"idle", "refused"} : mishaps' = [mishaps EXCEPT ![c] = mishaps[c] \cup e]
  BY WriteDoes
<1> SUFFICES ASSUME NEW d \in Connections, "torn" \notin mishaps'[d]
             PROVE  Answered(back'[d] \o writeBuf'[d], accepted'[d])
  <2>1. size' = size
    BY <1>1
  <2>2. Response' = Response
    BY <2>1 DEF Response
  <2>3. QED
    BY <2>2 DEF Answers, Answered
<1>2. Answered(back[d] \o writeBuf[d], accepted[d])
  <2>1. mishaps[d] \subseteq mishaps'[d]
    BY <1>1 DEF Typed
  <2>2. QED
    BY <2>1 DEF Answers
<1>3. CASE d # c
  <2>1. back'[d] = back[d] /\ writeBuf'[d] = writeBuf[d]
    BY <1>1, <1>3 DEF Typed
  <2>2. QED
    BY <1>1, <1>2, <2>1
<1>4. CASE d = c
  <2>1. back[c] \in Bytes /\ writeBuf[c] \in Bytes
    BY DEF Typed
  <2>2. (back[c] \o Prefix(writeBuf[c], n)) \o Rest(writeBuf[c], n) = back[c] \o writeBuf[c]
    BY <2>1, Moved
  <2>3. back'[c] = back[c] \o Prefix(writeBuf[c], n) /\ writeBuf'[c] = Rest(writeBuf[c], n)
    BY <1>1 DEF Typed
  <2>4. QED
    BY <1>1, <1>2, <1>4, <2>2, <2>3, Zenon
<1>5. QED
  BY <1>3, <1>4

-----------------------------------------------------------------------------
(* What the clients sent. A stream is in frames, of the messages ms that   *)
(* are not empty, if it is nothing, of nothing, or the frame of a message  *)
(* and a stream that is in frames again. Such streams are given as a set,  *)
(* closed under taking off the first frame.                                *)

Messages == Seq(Seq(Fields))

Sendable == {m \in Seq(Fields) : Len(m) < Base * Base * Base * Base}

NotEmpty(m) == IF m = <<>> THEN <<>> ELSE <<m>>

FirstFrame(b, ms, m, x, y) ==
  b = Frame(m) \o x /\ ms = NotEmpty(m) \o y

InFrames(S) ==
  \A e \in S :
    \/ e = <<<<>>, <<>>>>
    \/ \E m \in Sendable, x \in Bytes, y \in Messages :
         FirstFrame(e[1], e[2], m, x, y) /\ <<x, y>> \in S

Framed(b, ms) == \E S \in SUBSET (Bytes \X Messages) : InFrames(S) /\ <<b, ms>> \in S

LEMMA NothingFramed == Framed(<<>>, <<>>)
<1> DEFINE S == {<<<<>>, <<>>>>}
<1>1. <<>> \in Bytes /\ <<>> \in Messages
  BY DEF Bytes, Messages
<1>2. S \in SUBSET (Bytes \X Messages) /\ InFrames(S) /\ <<<<>>, <<>>>> \in S
  BY <1>1 DEF InFrames
<1>3. QED
  BY <1>2 DEF Framed

LEMMA FramedUnfolds ==
  ASSUME NEW b, NEW ms, Framed(b, ms)
  PROVE  /\ b \in Bytes /\ ms \in Messages
         /\ \/ b = <<>> /\ ms = <<>>
            \/ \E m \in Sendable, x \in Bytes, y \in Messages :
                 FirstFrame(b, ms, m, x, y) /\ Framed(x, y)
<1>1. PICK S \in SUBSET (Bytes \X Messages) : InFrames(S) /\ <<b, ms>> \in S
  BY DEF Framed
<1> DEFINE e == <<b, ms>>
<1>2. e \in S /\ e[1] = b /\ e[2] = ms
  BY <1>1
<1>3. b \in Bytes /\ ms \in Messages
  BY <1>1
<1>4. \/ e = <<<<>>, <<>>>>
      \/ \E m \in Sendable, x \in Bytes, y \in Messages :
           FirstFrame(e[1], e[2], m, x, y) /\ <<x, y>> \in S
  BY <1>1, <1>2, Zenon DEF InFrames
<1>5. CASE e = <<<<>>, <<>>>>
  BY <1>3, <1>5
<1>6. CASE \E m \in Sendable, x \in Bytes, y \in Messages :
             FirstFrame(e[1], e[2], m, x, y) /\ <<x, y>> \in S
  <2>1. PICK m \in Sendable, x \in Bytes, y \in Messages :
          FirstFrame(e[1], e[2], m, x, y) /\ <<x, y>> \in S
    BY <1>6
  <2>2. Framed(x, y)
    BY <1>1, <2>1, Zenon DEF Framed
  <2>3. FirstFrame(b, ms, m, x, y)
    BY <1>2, <2>1, Zenon
  <2>4. QED
    BY <1>3, <2>2, <2>3, Zenon
<1>7. QED
  BY <1>4, <1>5, <1>6

LEMMA NotEmptyIs ==
  ASSUME NEW m \in Seq(Fields)
  PROVE  NotEmpty(m) \in Messages
BY DEF NotEmpty, Messages

LEMMA MessagesJoined ==
  ASSUME NEW u \in Messages, NEW v \in Messages
  PROVE  u \o v \in Messages /\ u \o <<>> = u /\ <<>> \o u = u
BY ConcatProperties, ConcatEmptySeq DEF Messages

LEMMA MessagesRejoined ==
  ASSUME NEW u \in Messages, NEW v \in Messages, NEW w \in Messages
  PROVE  (u \o v) \o w = u \o (v \o w)
<1> DEFINE M == Seq(Fields)
<1>1. u \in Seq(M) /\ v \in Seq(M) /\ w \in Seq(M)
  BY DEF Messages
<1> HIDE DEF M
<1>2. QED
  BY ONLY <1>1, ConcatAssociative

(* One more frame behind a stream in frames.                               *)
LEMMA FramedGrows ==
  ASSUME NEW b, NEW ms, Framed(b, ms), NEW m \in Sendable
  PROVE  Framed(b \o Frame(m), ms \o NotEmpty(m))
<1>1. PICK S \in SUBSET (Bytes \X Messages) : InFrames(S) /\ <<b, ms>> \in S
  BY DEF Framed
<1> DEFINE f == Frame(m)
           q == NotEmpty(m)
           More(e) == <<e[1] \o f, e[2] \o q>>
           T == {More(e) : e \in S} \cup {<<<<>>, <<>>>>}
<1>2. f \in Bytes /\ q \in Messages
  <2>1. m \in Seq(Fields)
    BY DEF Sendable
  <2>2. QED
    BY <2>1, FrameHas, NotEmptyIs
<1>3. <<>> \in Bytes /\ <<>> \in Messages
  BY DEF Bytes, Messages
<1>4. ASSUME NEW e \in S PROVE More(e) \in Bytes \X Messages /\ e[1] \in Bytes /\ e[2] \in Messages
  <2>1. e[1] \in Bytes /\ e[2] \in Messages
    BY <1>1
  <2> HIDE DEF f, q
  <2>2. e[1] \o f \in Bytes /\ e[2] \o q \in Messages
    BY <1>2, <2>1, BothHave, MessagesJoined
  <2>3. QED
    BY <2>1, <2>2
<1>5. T \in SUBSET (Bytes \X Messages)
  <2>1. <<<<>>, <<>>>> \in Bytes \X Messages
    BY <1>3
  <2>2. \A e \in S : More(e) \in Bytes \X Messages
    BY <1>4
  <2> HIDE DEF More
  <2>3. QED
    BY <2>1, <2>2
<1>6. ASSUME NEW e \in S
      PROVE  \E n \in Sendable, x \in Bytes, y \in Messages :
               FirstFrame(More(e)[1], More(e)[2], n, x, y) /\ <<x, y>> \in T
  <2>1. CASE e = <<<<>>, <<>>>>
    <3>1. f = f \o <<>> /\ q = q \o <<>> /\ f = <<>> \o f /\ q = <<>> \o q
      BY <1>2, WithNothing, MessagesJoined
    <3>2. More(e)[1] = f \o <<>> /\ More(e)[2] = q \o <<>>
      BY <2>1, <3>1
    <3>3. FirstFrame(More(e)[1], More(e)[2], m, <<>>, <<>>)
      BY <3>2, Zenon DEF FirstFrame
    <3>4. <<<<>>, <<>>>> \in T
      OBVIOUS
    <3>5. QED
      BY <1>3, <3>3, <3>4, Zenon
  <2>2. CASE \E n \in Sendable, x \in Bytes, y \in Messages :
               FirstFrame(e[1], e[2], n, x, y) /\ <<x, y>> \in S
    <3>1. PICK n \in Sendable, x \in Bytes, y \in Messages :
            FirstFrame(e[1], e[2], n, x, y) /\ <<x, y>> \in S
      BY <2>2
    <3>2. Frame(n) \in Bytes /\ NotEmpty(n) \in Messages
      <4>1. n \in Seq(Fields)
        BY DEF Sendable
      <4>2. QED
        BY <4>1, FrameHas, NotEmptyIs
    <3>3. e[1] = Frame(n) \o x /\ e[2] = NotEmpty(n) \o y
      BY <3>1, Zenon DEF FirstFrame
    <3>4. More(e)[1] = e[1] \o f /\ More(e)[2] = e[2] \o q
      OBVIOUS
    <3>5. More(<<x, y>>) = <<x \o f, y \o q>>
      OBVIOUS
    <3>6. <<x \o f, y \o q>> \in T
      BY <3>1, <3>5
    <3> HIDE DEF T, More, f, q
    <3>7. (Frame(n) \o x) \o f = Frame(n) \o (x \o f) /\ x \o f \in Bytes
      <4>1. Frame(n) \in Bytes /\ x \in Bytes /\ f \in Bytes
        BY <1>2, <3>2
      <4>2. (Frame(n) \o x) \o f = Frame(n) \o (x \o f)
        BY <4>1, Joined, Zenon
      <4>3. x \o f \in Bytes
        BY <4>1, BothHave, Zenon
      <4>4. QED
        BY <4>2, <4>3
    <3>8. (NotEmpty(n) \o y) \o q = NotEmpty(n) \o (y \o q) /\ y \o q \in Messages
      <4>1. NotEmpty(n) \in Messages /\ y \in Messages /\ q \in Messages
        BY <1>2, <3>2
      <4>2. (NotEmpty(n) \o y) \o q = NotEmpty(n) \o (y \o q)
        BY <4>1, MessagesRejoined, Zenon
      <4>3. y \o q \in Messages
        BY <4>1, MessagesJoined, Zenon
      <4>4. QED
        BY <4>2, <4>3
    <3>9. FirstFrame(More(e)[1], More(e)[2], n, x \o f, y \o q)
      BY <3>3, <3>4, <3>7, <3>8, Zenon DEF FirstFrame
    <3>10. QED
      BY <3>6, <3>7, <3>8, <3>9, Zenon
  <2>3. QED
    BY <1>1, <2>1, <2>2, Zenon DEF InFrames
<1>7. InFrames(T)
  <2> SUFFICES ASSUME NEW t \in T
               PROVE  \/ t = <<<<>>, <<>>>>
                      \/ \E n \in Sendable, x \in Bytes, y \in Messages :
                           FirstFrame(t[1], t[2], n, x, y) /\ <<x, y>> \in T
    BY Zenon DEF InFrames
  <2>1. CASE t = <<<<>>, <<>>>>
    BY <2>1
  <2>2. CASE \E e \in S : t = More(e)
    <3>1. PICK e \in S : t = More(e)
      BY <2>2
    <3> HIDE DEF T, More
    <3>2. QED
      BY <1>6, <3>1, Zenon
  <2>3. t = <<<<>>, <<>>>> \/ \E e \in S : t = More(e)
    OBVIOUS
  <2>4. QED
    BY <2>1, <2>2, <2>3
<1>8. <<b \o f, ms \o q>> \in T
  <2>1. More(<<b, ms>>) = <<b \o f, ms \o q>>
    OBVIOUS
  <2>2. QED
    BY <1>1, <2>1
<1>9. QED
  BY <1>5, <1>7, <1>8, Zenon DEF Framed

(* A frame of which at least the prefix has arrived.                       *)
Begun(u, t, m, x) ==
  u[1] = 0 /\ Value(SubSeq(u, 2, 5)) = Len(m) /\ Rest(u, PrefixSize) \o t = m \o x

LEMMA FrameBegins ==
  ASSUME NEW m \in Sendable, NEW u \in Bytes, NEW t \in Bytes, NEW x \in Bytes,
         Len(u) >= PrefixSize, u \o t = Frame(m) \o x
  PROVE  Begun(u, t, m, x)
<1> DEFINE p == Prefix(u, PrefixSize)
           r == Rest(u, PrefixSize)
           h == Header(m)
<1>1. /\ m \in Bytes /\ h \in Bytes /\ Len(h) = PrefixSize /\ h[1] = 0
      /\ \A i \in 1 .. 4 : h[i + 1] = Digits(Len(m))[i]
      /\ Value(Digits(Len(m))) = Len(m)
      /\ Frame(m) = h \o m
  <2>1. m \in Seq(Fields) /\ Len(m) < Base * Base * Base * Base
    BY DEF Sendable
  <2>2. QED
    BY <2>1, FieldsAreBytes, HeaderHas, FrameHas
<1>2. PrefixSize \in 0 .. Len(u) /\ Len(u) \in Nat /\ PrefixSize = 5
  BY BothHave DEF PrefixSize
<1>3. /\ p \in Bytes /\ Len(p) = PrefixSize /\ r \in Bytes
      /\ \A i \in 1 .. PrefixSize : p[i] = u[i]
      /\ p \o r = u
  BY <1>2, PrefixHas, RestHas, Split
<1> HIDE DEF h
<1>4. p = h /\ r \o t = m \o x
  <2> HIDE DEF p, r
  <2> DEFINE v == r \o t
             w == m \o x
  <2>1. p \o v = u \o t
    <3>1. (p \o r) \o t = p \o v
      BY <1>3, Joined
    <3>2. QED
      BY <1>3, <3>1
  <2>2. h \o w = Frame(m) \o x
    <3>1. (h \o m) \o x = h \o w
      BY <1>1, Joined
    <3>2. QED
      BY <1>1, <3>1
  <2>3. v \in Bytes /\ w \in Bytes
    BY <1>1, <1>3, BothHave
  <2>4. p \o v = h \o w /\ Len(p) = Len(h)
    BY <1>1, <1>3, <2>1, <2>2
  <2> HIDE DEF v, w
  <2>5. p = h /\ v = w
    BY <1>1, <1>3, <2>3, <2>4, SameHalves
  <2>6. QED
    BY <2>5 DEF v, w
<1>5. \A i \in 1 .. 5 : u[i] = h[i]
  BY <1>2, <1>3, <1>4
<1>6. \A i \in 1 .. 4 : SubSeq(u, 2, 5)[i] = h[i + 1]
  <2>1. \A i \in 2 .. 5 : u[i] \in Byte
    <3>1. \A i \in 2 .. 5 : i \in 1 .. Len(u)
      BY <1>2
    <3>2. QED
      BY <3>1, ElementOfSeq DEF Bytes
  <2>2. \A i \in 1 .. 5 - 2 + 1 : SubSeq(u, 2, 5)[i] = u[2 + i - 1]
    BY <2>1, SubSeqProperties
  <2>3. \A i \in 1 .. 4 : i \in 1 .. 5 - 2 + 1 /\ 2 + i - 1 = i + 1 /\ i + 1 \in 1 .. 5
    OBVIOUS
  <2>4. QED
    BY <1>5, <2>2, <2>3
<1>7. Value(SubSeq(u, 2, 5)) = Value(Digits(Len(m)))
  <2> DEFINE q == SubSeq(u, 2, 5)
             d == Digits(Len(m))
  <2>1. q[1] = d[1] /\ q[2] = d[2] /\ q[3] = d[3] /\ q[4] = d[4]
    BY <1>1, <1>6
  <2> HIDE DEF q, d
  <2>2. Value(q) = Value(d)
    BY <2>1 DEF Value
  <2>3. QED
    BY <2>2 DEF q, d
<1>8. u[1] = 0
  BY <1>1, <1>5
<1>9. QED
  BY <1>1, <1>4, <1>7, <1>8 DEF Begun

LEMMA MessageBegins ==
  ASSUME NEW b \in Bytes, NEW t \in Bytes, NEW m \in Bytes, NEW x \in Bytes,
         b \o t = m \o x, Len(b) >= Len(m)
  PROVE  Prefix(b, Len(m)) = m /\ Rest(b, Len(m)) \o t = x
<1> DEFINE k == Len(m)
           p == Prefix(b, k)
           r == Rest(b, k)
<1>1. k \in 0 .. Len(b)
  BY BothHave
<1> HIDE DEF k
<1>2. p \in Bytes /\ Len(p) = k /\ r \in Bytes /\ p \o r = b
  BY <1>1, PrefixHas, RestHas, Split
<1> HIDE DEF p, r
<1>3. p \o (r \o t) = m \o x /\ r \o t \in Bytes
  <2>1. (p \o r) \o t = p \o (r \o t)
    <3>1. p \in Bytes /\ r \in Bytes
      BY <1>2
    <3>2. QED
      BY <3>1, Joined, Zenon
  <2>2. r \o t \in Bytes
    BY <1>2, BothHave
  <2>3. QED
    BY <1>2, <2>1, <2>2
<1>4. p = m /\ r \o t = x
  <2> DEFINE v == r \o t
  <2>1. v \in Bytes /\ p \o v = m \o x /\ Len(p) = Len(m)
    BY <1>2, <1>3 DEF k
  <2> HIDE DEF v
  <2>2. p = m /\ v = x
    BY <1>2, <2>1, SameHalves
  <2>3. QED
    BY <2>2 DEF v
<1>5. QED
  BY <1>4 DEF p, r, k

(* What is on its way, from the message that Read awaits on.               *)
Awaited(n, b, ms) ==
  IF n = 0 THEN Framed(b, ms)
  ELSE \E m \in Seq(Fields), x \in Bytes, y \in Messages :
         Len(m) = n /\ b = m \o x /\ ms = <<m>> \o y /\ Framed(x, y)

ReadsOn(c, hd, u, t, ms) ==
  /\ ~Parsed(c, hd, u).failed /\ Parsed(c, hd, u).message \in Seq(Fields)
  /\ \E rest \in Messages :
       ms = NotEmpty(Parsed(c, hd, u).message) \o rest /\ Awaited(Parsed(c, hd, u).size, Parsed(c, hd, u).buf \o t, rest)

LEMMA NothingFound ==
  ASSUME Typed, NEW c \in Connections, NEW hd, NEW u \in Bytes, NEW t \in Bytes, NEW ms \in Messages,
         ~Ready(c, u), ~(PrefixDue(c, u) /\ u[1] # 0),
         Awaited(Taken(c, u).size, Taken(c, u).buf \o t, ms)
  PROVE  ReadsOn(c, hd, u, t, ms)
<1> DEFINE b == Taken(c, u).buf
<1>1. b \in Bytes
  BY ParsedHas
<1>2. Found(c, u) = <<>> /\ Len(Found(c, u)) = 0
  BY DEF Found
<1>3. Rest(b, Len(Found(c, u))) = b
  <2> HIDE DEF b
  <2>1. Rest(b, 0) = b
    BY <1>1, RestOfNothing
  <2>2. QED
    BY <1>2, <2>1, Zenon
<1>4. /\ Parsed(c, hd, u).message = <<>> /\ Parsed(c, hd, u).buf = b
      /\ Parsed(c, hd, u).size = Taken(c, u).size
  BY <1>2, <1>3, ParsedIs
<1>5. ~Parsed(c, hd, u).failed
  <2>1. Range(<<>>) \subseteq Fields
    BY DEF Range
  <2>2. Parsed(c, hd, u).failed <=> (PrefixDue(c, u) /\ u[1] # 0) \/ ~(Range(Found(c, u)) \subseteq Fields)
    BY ParsedIs
  <2>3. QED
    BY <1>2, <2>1, <2>2, Zenon
<1>6. <<>> \in Seq(Fields)
  OBVIOUS
<1>7. ms = NotEmpty(<<>>) \o ms
  <2>1. NotEmpty(<<>>) = <<>>
    BY DEF NotEmpty
  <2>2. <<>> \o ms = ms
    BY MessagesJoined
  <2>3. QED
    BY <2>1, <2>2, Zenon
<1>8. Awaited(Parsed(c, hd, u).size, Parsed(c, hd, u).buf \o t, ms)
  BY <1>4, Zenon
<1>9. QED
  BY <1>4, <1>5, <1>6, <1>7, <1>8, Zenon DEF ReadsOn

LEMMA MessageFound ==
  ASSUME Typed, NEW c \in Connections, NEW hd, NEW u \in Bytes, NEW t \in Bytes,
         NEW m \in Seq(Fields), NEW x \in Bytes, NEW y \in Messages, Framed(x, y),
         Ready(c, u), ~(PrefixDue(c, u) /\ u[1] # 0),
         Taken(c, u).size = Len(m), Taken(c, u).buf \o t = m \o x
  PROVE  ReadsOn(c, hd, u, t, <<m>> \o y)
<1> DEFINE b == Taken(c, u).buf
<1>1. b \in Bytes /\ m \in Bytes /\ b \o t = m \o x
  BY ParsedHas, FieldsAreBytes
<1>2. Len(b) >= Len(m) /\ Len(m) > 0
  BY DEF Ready
<1>3. Found(c, u) = Prefix(b, Len(m))
  BY DEF Found, Message
<1> HIDE DEF b
<1>4. Prefix(b, Len(m)) = m /\ Rest(b, Len(m)) \o t = x
  BY <1>1, <1>2, MessageBegins
<1>5. Found(c, u) = m
  BY <1>3, <1>4
<1>6. Parsed(c, hd, u).message = m /\ Parsed(c, hd, u).buf \o t = x /\ Parsed(c, hd, u).size = 0
  <2>1. /\ Parsed(c, hd, u).message = Found(c, u) /\ Parsed(c, hd, u).buf = Rest(b, Len(Found(c, u)))
        /\ Parsed(c, hd, u).size = IF Ready(c, u) THEN 0 ELSE Taken(c, u).size
    BY ParsedIs DEF b
  <2>2. QED
    BY <1>4, <1>5, <2>1, Zenon
<1>7. ~Parsed(c, hd, u).failed
  <2>1. Range(m) \subseteq Fields
    <3>1. DOMAIN m = 1 .. Len(m) /\ \A i \in 1 .. Len(m) : m[i] \in Fields
      BY LenProperties, ElementOfSeq
    <3>2. QED
      BY <3>1 DEF Range
  <2>2. Parsed(c, hd, u).failed <=> (PrefixDue(c, u) /\ u[1] # 0) \/ ~(Range(Found(c, u)) \subseteq Fields)
    BY ParsedIs
  <2>3. QED
    BY <1>5, <2>1, <2>2, Zenon
<1>8. NotEmpty(m) = <<m>>
  <2>1. m # <<>>
    BY <1>2
  <2>2. QED
    BY <2>1 DEF NotEmpty
<1>9. Awaited(Parsed(c, hd, u).size, Parsed(c, hd, u).buf \o t, y)
  <2>1. Awaited(0, x, y)
    BY DEF Awaited
  <2>2. QED
    BY <1>6, <2>1, Zenon
<1>10. QED
  BY <1>6, <1>7, <1>8, <1>9, Zenon DEF ReadsOn

(* One Read, unless it finds a prefix but for its last byte.               *)
LEMMA ReadsOnFrames ==
  ASSUME Typed, NEW c \in Connections, NEW hd, NEW u \in Bytes, NEW t \in Bytes, NEW ms \in Messages,
         Awaited(gSize[c], u \o t, ms), ~(PrefixDue(c, u) /\ Len(u) < PrefixSize)
  PROVE  ReadsOn(c, hd, u, t, ms)
<1>1. Len(u) \in Nat /\ gSize[c] \in Nat
  BY BothHave DEF Typed
<1>2. ASSUME NEW m \in Seq(Fields), NEW x \in Bytes, NEW y \in Messages, Framed(x, y),
             ~(PrefixDue(c, u) /\ u[1] # 0), m # <<>>,
             Taken(c, u).size = Len(m), Taken(c, u).buf \o t = m \o x, ms = <<m>> \o y
      PROVE  ReadsOn(c, hd, u, t, ms)
  <2>1. CASE Ready(c, u)
    <3>1. ReadsOn(c, hd, u, t, <<m>> \o y)
      BY <1>2, <2>1, MessageFound
    <3>2. QED
      BY <1>2, <3>1, Zenon
  <2>2. CASE ~Ready(c, u)
    <3>1. Len(m) # 0
      BY <1>2, EmptySeq
    <3>2. Awaited(Len(m), m \o x, ms)
      BY <1>2, <3>1, Zenon DEF Awaited
    <3>3. Awaited(Taken(c, u).size, Taken(c, u).buf \o t, ms)
      BY <1>2, <3>2, Zenon
    <3>4. QED
      BY <1>2, <2>2, <3>3, NothingFound
  <2>3. QED
    BY <2>1, <2>2
<1>3. CASE PrefixDue(c, u)
  <2>1. gSize[c] = 0 /\ Len(u) >= PrefixSize
    BY <1>1, <1>3 DEF PrefixDue, PrefixSize
  <2>2. Framed(u \o t, ms)
    BY <2>1 DEF Awaited
  <2>3. u \o t # <<>>
    <3>1. Len(u \o t) = Len(u) + Len(t) /\ Len(t) \in Nat
      BY BothHave
    <3>2. Len(u \o t) # 0
      BY <1>1, <2>1, <3>1 DEF PrefixSize
    <3>3. QED
      BY <3>2
  <2>4. PICK m \in Sendable, x \in Bytes, y \in Messages : FirstFrame(u \o t, ms, m, x, y) /\ Framed(x, y)
    BY <2>2, <2>3, FramedUnfolds, Zenon
  <2>5. m \in Seq(Fields) /\ u \o t = Frame(m) \o x /\ ms = NotEmpty(m) \o y
    BY <2>4 DEF FirstFrame, Sendable
  <2>6. u[1] = 0 /\ Value(SubSeq(u, 2, 5)) = Len(m) /\ Rest(u, PrefixSize) \o t = m \o x
    <3>1. Begun(u, t, m, x)
      BY <2>1, <2>5, FrameBegins
    <3>2. QED
      BY <3>1 DEF Begun
  <2>7. Taken(c, u).size = Len(m) /\ Taken(c, u).buf = Rest(u, PrefixSize)
    <3>1. ~(Len(u) < PrefixSize)
      BY <1>1, <2>1 DEF PrefixSize
    <3>2. AfterPrefix(u).size = Value(SubSeq(u, 2, 5)) /\ AfterPrefix(u).buf = Rest(u, PrefixSize)
      BY <3>1 DEF AfterPrefix
    <3>3. QED
      BY <1>3, <2>6, <3>2 DEF Taken
  <2>8. Taken(c, u).buf \o t = m \o x
    BY <2>6, <2>7
  <2>9. CASE m = <<>>
    <3>1. Taken(c, u).size = 0
      BY <2>7, <2>9
    <3>2. ~Ready(c, u)
      BY <3>1 DEF Ready
    <3>3. m \o x = x /\ ms = y
      <4>1. <<>> \o x = x
        BY WithNothing
      <4>2. NotEmpty(<<>>) = <<>> /\ <<>> \o y = y
        BY MessagesJoined DEF NotEmpty
      <4>3. QED
        BY <2>5, <2>9, <4>1, <4>2, Zenon
    <3>4. Awaited(0, x, y)
      BY <2>4 DEF Awaited
    <3>5. Awaited(Taken(c, u).size, Taken(c, u).buf \o t, ms)
      BY <2>8, <3>1, <3>3, <3>4, Zenon
    <3>6. QED
      BY <2>6, <3>2, <3>5, NothingFound
  <2>10. CASE m # <<>>
    <3>1. ms = <<m>> \o y
      BY <2>5, <2>10 DEF NotEmpty
    <3>2. QED
      BY <1>2, <2>4, <2>5, <2>6, <2>7, <2>8, <2>10, <3>1
  <2>11. QED
    BY <2>9, <2>10
<1>4. CASE ~PrefixDue(c, u)
  <2>1. Taken(c, u).buf = u /\ Taken(c, u).size = gSize[c]
    BY <1>4 DEF Taken
  <2>2. CASE gSize[c] = 0
    <3>1. ~Ready(c, u)
      BY <2>1, <2>2 DEF Ready
    <3>2. Awaited(Taken(c, u).size, Taken(c, u).buf \o t, ms)
      BY <2>1, Zenon
    <3>3. QED
      BY <1>4, <3>1, <3>2, NothingFound
  <2>3. CASE gSize[c] # 0
    <3>1. PICK m \in Seq(Fields), x \in Bytes, y \in Messages :
            Len(m) = gSize[c] /\ u \o t = m \o x /\ ms = <<m>> \o y /\ Framed(x, y)
      BY <2>3 DEF Awaited
    <3>2. m # <<>>
      BY <2>3, <3>1
    <3>3. Taken(c, u).size = Len(m) /\ Taken(c, u).buf \o t = m \o x
      BY <2>1, <3>1, Zenon
    <3>4. QED
      BY <1>2, <1>4, <3>1, <3>2, <3>3
  <2>4. QED
    BY <2>2, <2>3
<1>5. QED
  BY <1>3, <1>4

(* The messages of calls.                                                  *)
Of(s) == [i \in DOMAIN s |-> s[i].message]

LEMMA OfHas ==
  ASSUME NEW s \in Seq(Call)
  PROVE  Of(s) \in Messages
<1>1. Len(s) \in Nat /\ DOMAIN s = 1 .. Len(s)
  BY LenProperties
<1>2. \A i \in 1 .. Len(s) : s[i] \in Call
  BY <1>1, ElementOfSeq
<1>3. \A i \in 1 .. Len(s) : s[i].message \in Seq(Fields)
  BY <1>2 DEF Call
<1> DEFINE n == Len(s)
           M == Seq(Fields)
<1>4. Of(s) \in [1 .. n -> M] /\ n \in Nat
  BY <1>1, <1>3 DEF Of
<1> HIDE DEF n, M
<1>5. Of(s) \in Seq(M)
  BY <1>4
<1>6. QED
  BY <1>5 DEF M, Messages

LEMMA OfGrows ==
  ASSUME NEW s \in Seq(Call), NEW e \in Call
  PROVE  Of(Append(s, e)) = Of(s) \o <<e.message>>
<1> DEFINE a == Append(s, e)
           n == Len(s)
           m == e.message
           o == Of(s)
<1>1. n \in Nat /\ DOMAIN s = 1 .. n /\ Len(<<m>>) = 1 /\ <<m>>[1] = m
  BY LenProperties
<1>2. /\ a \in Seq(Call) /\ Len(a) = n + 1 /\ DOMAIN a = 1 .. n + 1
      /\ \A i \in 1 .. n : a[i] = s[i]
      /\ a[n + 1] = e
  <2>1. /\ a \in Seq(Call) /\ Len(a) = n + 1
        /\ \A i \in 1 .. n : a[i] = s[i]
        /\ a[n + 1] = e
    BY AppendProperties
  <2> HIDE DEF a, n
  <2>2. DOMAIN a = 1 .. Len(a)
    BY <2>1, LenProperties
  <2>3. QED
    BY <2>1, <2>2
<1>3. o \in Messages /\ DOMAIN o = 1 .. n /\ \A i \in 1 .. n : o[i] = s[i].message
  BY <1>1, OfHas DEF Of
<1>4. <<m>> \in Messages
  BY DEF Call, Messages
<1>5. Len(o) = n
  <2> DEFINE M == Seq(Fields)
  <2>1. o \in Seq(M)
    BY <1>3 DEF Messages
  <2> HIDE DEF M, o, n
  <2>2. Len(o) \in Nat /\ DOMAIN o = 1 .. Len(o)
    BY <2>1, LenProperties
  <2>3. QED
    BY <1>1, <1>3, <2>2
<1> DEFINE q == o \o <<m>>
<1>6. /\ DOMAIN q = 1 .. n + 1
      /\ \A i \in 1 .. n + 1 : q[i] = IF i <= n THEN o[i] ELSE m
  <2> DEFINE M == Seq(Fields)
             w == <<m>>
  <2>1. o \in Seq(M) /\ w \in Seq(M) /\ Len(w) = 1 /\ w[1] = m
    BY <1>1, <1>3, <1>4 DEF Messages
  <2> HIDE DEF M, o, n, w, m
  <2>2. /\ o \o w \in Seq(M) /\ Len(o \o w) = Len(o) + Len(w)
        /\ \A i \in 1 .. Len(o) + Len(w) : (o \o w)[i] = IF i <= Len(o) THEN o[i] ELSE w[i - Len(o)]
    BY <2>1, ConcatProperties
  <2>3. DOMAIN (o \o w) = 1 .. Len(o \o w)
    BY <2>2, LenProperties
  <2>4. \A i \in 1 .. n + 1 : (o \o w)[i] = IF i <= n THEN o[i] ELSE m
    <3>1. \A i \in 1 .. n + 1 : i \in 1 .. Len(o) + Len(w) /\ (~(i <= n) => i - Len(o) = 1)
      BY <1>1, <1>5, <2>1
    <3>2. QED
      BY <1>5, <2>1, <2>2, <3>1
  <2>5. DOMAIN (o \o w) = 1 .. n + 1
    BY <1>5, <2>1, <2>2, <2>3
  <2>6. QED
    BY <2>4, <2>5 DEF w
<1>7. \A i \in 1 .. n + 1 : a[i].message = q[i]
  <2> HIDE DEF a, q, o
  <2>1. TAKE i \in 1 .. n + 1
  <2>2. CASE i \in 1 .. n
    BY <1>1, <1>2, <1>3, <1>6, <2>2
  <2>3. CASE i = n + 1
    BY <1>1, <1>2, <1>6, <2>3
  <2>4. QED
    BY <1>1, <2>2, <2>3
<1>8. Of(a) = [i \in 1 .. n + 1 |-> a[i].message]
  BY <1>2 DEF Of
<1>9. q = [i \in 1 .. n + 1 |-> q[i]]
  <2>1. q \in Messages
    BY <1>3, <1>4, MessagesJoined
  <2> DEFINE M == Seq(Fields)
  <2>2. q \in Seq(M)
    BY <2>1 DEF Messages
  <2> HIDE DEF q, M, n
  <2>3. QED
    BY <1>6, <2>2
<1>10. QED
  <2> HIDE DEF a, q, n
  <2>1. Of(a) = q
    BY <1>7, <1>8, <1>9
  <2>2. QED
    BY <2>1 DEF a, q

-----------------------------------------------------------------------------
(* The requests of a client, and the calls the program got for them.       *)

InStep(c) ==
  \E rest \in Messages : sent[c] = Calls(c) \o rest /\ Awaited(gSize[c], Ahead(c), rest)

Sound ==
  /\ failed => \E c \in Connections : Astray(c)
  /\ \A c \in Connections : \A i \in DOMAIN called[c] :
       called[c][i].given = Range(called[c][i].message) \cup called[c][i].stale
  /\ \A c \in Connections : ~Astray(c) => InStep(c)

LEMMA CallsAreOf == \A c : Calls(c) = Of(called[c])
BY DEF Calls, Of

(* InStep speaks of the streams and of the calls of its connection alone.  *)
LEMMA SameStep ==
  ASSUME NEW c, InStep(c), sent'[c] = sent[c], called'[c] = called[c], gSize'[c] = gSize[c],
         readBuf'[c] = readBuf[c], held'[c] = held[c], wire'[c] = wire[c]
  PROVE  InStep(c)'
<1>1. Calls(c)' = Of(called'[c]) /\ Calls(c) = Of(called[c])
  BY DEF Calls, Of
<1>2. Calls(c)' = Calls(c) /\ Ahead(c)' = Ahead(c)
  BY <1>1, Zenon DEF Ahead
<1>3. PICK rest \in Messages : sent[c] = Calls(c) \o rest /\ Awaited(gSize[c], Ahead(c), rest)
  BY DEF InStep
<1>4. sent'[c] = Calls(c)' \o rest /\ Awaited(gSize'[c], Ahead(c)', rest)
  BY <1>2, <1>3, Zenon
<1>5. Awaited(gSize[c], Ahead(c), rest)' <=> Awaited(gSize'[c], Ahead(c)', rest)
  BY DEF Awaited
<1>6. QED
  BY <1>4, Zenon DEF InStep

(* A step that touches none of the requests.                               *)
LEMMA SoundKept ==
  ASSUME Typed, Sound, UNCHANGED <<failed, called, sent, gSize, readBuf, held, wire>>,
         \A c \in Connections : mishaps[c] \subseteq mishaps'[c]
  PROVE  Sound'
<1>1. failed' => \E c \in Connections : Astray(c)'
  BY DEF Sound, Astray
<1>2. \A c \in Connections : \A i \in DOMAIN called'[c] :
        called'[c][i].given = Range(called'[c][i].message) \cup called'[c][i].stale
  BY DEF Sound
<1>3. ASSUME NEW c \in Connections, ~Astray(c)' PROVE InStep(c)'
  <2>1. InStep(c)
    BY <1>3 DEF Sound, Astray
  <2>2. QED
    BY <2>1, SameStep
<1>4. QED
  BY <1>1, <1>2, <1>3 DEF Sound

LEMMA SendSound ==
  ASSUME Typed, Sound, NEW c \in Connections, NEW m \in Requests[c], Send(c, m)
  PROVE  Sound'
<1>1. /\ wire' = [wire EXCEPT ![c] = wire[c] \o Frame(m)]
      /\ sent' = IF m = <<>> THEN sent ELSE [sent EXCEPT ![c] = Append(sent[c], m)]
      /\ UNCHANGED <<readBuf, head, tail, size, gSize, called, held, failed, mishaps>>
  BY DEF Send
<1>2. m \in Seq(Fields) /\ m \in Sendable
  BY BytesAssumption DEF Sendable
<1>3. ASSUME NEW d \in Connections, ~Astray(d)' PROVE InStep(d)'
  <2>1. InStep(d)
    BY <1>1, <1>3 DEF Sound, Astray
  <2>2. CASE d # c
    <3>1. wire'[d] = wire[d] /\ sent'[d] = sent[d]
      BY <1>1, <2>2 DEF Typed
    <3>2. QED
      BY <1>1, <2>1, <3>1, SameStep
  <2>3. CASE d = c
    <3>1. PICK rest \in Messages : sent[c] = Calls(c) \o rest /\ Awaited(gSize[c], Ahead(c), rest)
      BY <2>1, <2>3 DEF InStep
    <3> DEFINE f == Frame(m)
               q == NotEmpty(m)
    <3>2. /\ sent[c] \in Messages /\ Calls(c) \in Messages /\ q \in Messages
          /\ readBuf[c] \in Bytes /\ held[c] \in Bytes /\ wire[c] \in Bytes /\ f \in Bytes
      BY <1>2, OfHas, CallsAreOf, NotEmptyIs, FrameHas DEF Typed, Messages
    <3>3. sent'[c] = sent[c] \o q
      <4>1. sent[c] \o <<>> = sent[c]
        BY <3>2, MessagesJoined
      <4>2. Append(sent[c], m) = sent[c] \o <<m>>
        <5> DEFINE M == Seq(Fields)
        <5>1. sent[c] \in Seq(M) /\ m \in M
          BY <1>2, <3>2 DEF Messages
        <5> HIDE DEF M
        <5>2. QED
          BY <5>1, AppendIsConcat
      <4>3. QED
        BY <1>1, <4>1, <4>2 DEF Typed, NotEmpty
    <3>4. sent'[c] = Calls(c) \o (rest \o q) /\ rest \o q \in Messages
      <4>1. (Calls(c) \o rest) \o q = Calls(c) \o (rest \o q)
        BY <3>2, MessagesRejoined
      <4>2. rest \o q \in Messages
        BY <3>2, MessagesJoined
      <4>3. QED
        BY <3>1, <3>3, <4>1, <4>2, Zenon
    <3>5. wire'[c] = wire[c] \o f
      BY <1>1 DEF Typed
    <3>6. Ahead(c)' = Ahead(c) \o f
      <4>1. readBuf[c] \o held[c] \in Bytes
        BY <3>2, BothHave
      <4>2. (readBuf[c] \o held[c]) \o (wire[c] \o f) = Ahead(c) \o f
        BY <3>2, <4>1, Joined DEF Ahead
      <4>3. Ahead(c)' = (readBuf[c] \o held[c]) \o wire'[c]
        BY <1>1 DEF Ahead
      <4>4. QED
        BY <3>5, <4>2, <4>3, Zenon
    <3>7. Awaited(gSize[c], Ahead(c) \o f, rest \o q)
      <4>1. CASE gSize[c] = 0
        <5>1. Framed(Ahead(c), rest)
          BY <3>1, <4>1 DEF Awaited
        <5>2. Framed(Ahead(c) \o f, rest \o q)
          BY <1>2, <5>1, FramedGrows
        <5>3. QED
          BY <4>1, <5>2 DEF Awaited
      <4>2. CASE gSize[c] # 0
        <5>1. PICK n \in Seq(Fields), x \in Bytes, y \in Messages :
                Len(n) = gSize[c] /\ Ahead(c) = n \o x /\ rest = <<n>> \o y /\ Framed(x, y)
          BY <3>1, <4>2, Zenon DEF Awaited
        <5>2. Framed(x \o f, y \o q)
          BY <1>2, <5>1, FramedGrows
        <5>3. n \in Bytes /\ <<n>> \in Messages
          BY FieldsAreBytes DEF Messages
        <5>4. (n \o x) \o f = n \o (x \o f) /\ x \o f \in Bytes
          <6>1. (n \o x) \o f = n \o (x \o f)
            BY <3>2, <5>3, Joined
          <6>2. x \o f \in Bytes
            BY <3>2, BothHave, Zenon
          <6>3. QED
            BY <6>1, <6>2
        <5>5. (<<n>> \o y) \o q = <<n>> \o (y \o q) /\ y \o q \in Messages
          <6>1. (<<n>> \o y) \o q = <<n>> \o (y \o q)
            BY <3>2, <5>3, MessagesRejoined
          <6>2. y \o q \in Messages
            BY <3>2, MessagesJoined, Zenon
          <6>3. QED
            BY <6>1, <6>2
        <5>6. /\ Len(n) = gSize[c] /\ Ahead(c) \o f = n \o (x \o f) /\ rest \o q = <<n>> \o (y \o q)
              /\ Framed(x \o f, y \o q)
          BY <5>1, <5>2, <5>4, <5>5, Zenon
        <5>7. QED
          BY <4>2, <5>4, <5>5, <5>6, Zenon DEF Awaited
      <4>3. QED
        BY <4>1, <4>2
    <3>8. Calls(c)' = Calls(c) /\ gSize'[c] = gSize[c]
      BY <1>1 DEF Calls
    <3>9. sent'[c] = Calls(c)' \o (rest \o q) /\ Awaited(gSize'[c], Ahead(c)', rest \o q)
      BY <3>4, <3>6, <3>7, <3>8, Zenon
    <3>10. InStep(c)'
      BY <3>4, <3>9, Zenon DEF InStep
    <3>11. QED
      BY <2>3, <3>10
  <2>4. QED
    BY <2>2, <2>3
<1>4. QED
  BY <1>1, <1>3 DEF Sound, Astray

LEMMA CallsPrimed == \A c : Calls(c)' = Of(called'[c])
BY DEF Calls, Of

(* What Read does for the connection it is called for.                     *)
LEMMA ReadInStep ==
  ASSUME Typed, Bounded, NEW c \in Connections, InStep(c),
         NEW n \in 0 .. Len(Source(c)), Read(c, n), ~Astray(c)'
  PROVE  ~failed' /\ InStep(c)'
<1> DEFINE u == readBuf[c] \o Prefix(Source(c), n)
           hd == HeadAfter(c, n)
           p == Parsed(c, hd, u)
           h == held'[c]
           w == wire'[c]
           t == h \o w
<1>1. /\ u \in Bytes
      /\ readBuf' = [readBuf EXCEPT ![c] = p.buf]
      /\ gSize' = [gSize EXCEPT ![c] = p.size]
      /\ tail' = [tail EXCEPT ![c] = p.tail]
      /\ failed' = (p.failed \/ p.misread)
      /\ IF p.message # <<>> /\ ~failed'
         THEN /\ request' = request \cup Range(p.message)
              /\ called' = [called EXCEPT ![c] =
                   Append(@, [message |-> p.message, given |-> request', stale |-> request])]
              /\ owed' = [owed EXCEPT ![c] = @ + 1]
         ELSE UNCHANGED <<request, called, owed>>
      /\ \E e \in SUBSET {"full"} : mishaps' = [mishaps EXCEPT ![c] =
           @ \cup (IF PrefixDue(c, u) /\ Len(u) < PrefixSize THEN {"short"} ELSE {}) \cup e
             \cup (IF p.misread THEN {"misread"} ELSE {})]
  <2>1. u \in Bytes /\ Len(u) <= Capacity /\ Reading(c, hd, u)
    BY ReadDoes
  <2> HIDE DEF u, hd
  <2>2. QED
    BY <2>1, Zenon DEF Reading
<1>2. ReadvNonBlock(c, n) /\ sent' = sent
  BY DEF Read, history
<1>3. /\ held' \in [Connections -> Bytes] /\ wire' \in [Connections -> Bytes]
      /\ (u \o held'[c]) \o wire'[c] = Ahead(c)
  BY <1>2, ReadvMoves
<1>4. h \in Bytes /\ w \in Bytes /\ t \in Bytes
  BY <1>3, BothHave
<1>5. request' \subseteq Fields
  BY ReadTyped DEF Typed
<1> HIDE DEF u, hd
<1>6. ~(PrefixDue(c, u) /\ Len(u) < PrefixSize) /\ ~p.misread
  <2>1. PICK e \in SUBSET {"full"} : mishaps' = [mishaps EXCEPT ![c] =
          @ \cup (IF PrefixDue(c, u) /\ Len(u) < PrefixSize THEN {"short"} ELSE {}) \cup e
            \cup (IF p.misread THEN {"misread"} ELSE {})]
    BY <1>1
  <2>2. mishaps'[c] = mishaps[c] \cup (IF PrefixDue(c, u) /\ Len(u) < PrefixSize THEN {"short"} ELSE {}) \cup e
          \cup (IF p.misread THEN {"misread"} ELSE {})
    BY <2>1 DEF Typed
  <2>3. "short" \notin mishaps'[c] /\ "misread" \notin mishaps'[c]
    BY DEF Astray
  <2>4. QED
    BY <2>2, <2>3
<1>7. p.buf \in Bytes
  BY <1>1, ParsedHas
<1> HIDE DEF h, w
<1>8. u \o t = Ahead(c)
  <2>1. (u \o h) \o w = u \o (h \o w)
    BY <1>1, <1>4, Joined
  <2>2. QED
    BY <1>3, <2>1, Zenon DEF h, w
<1> HIDE DEF t, p
<1>9. PICK ms \in Messages : sent[c] = Calls(c) \o ms /\ Awaited(gSize[c], Ahead(c), ms)
  BY DEF InStep
<1>10. ReadsOn(c, hd, u, t, ms)
  <2>1. Awaited(gSize[c], u \o t, ms)
    BY <1>8, <1>9, Zenon
  <2>2. QED
    BY <1>1, <1>4, <1>6, <2>1, ReadsOnFrames
<1>11. ~p.failed /\ ~failed' /\ p.message \in Seq(Fields)
  <2>1. ~p.failed /\ p.message \in Seq(Fields)
    BY <1>10 DEF ReadsOn, p
  <2>2. QED
    BY <1>1, <1>6, <2>1
<1>12. PICK rest \in Messages : ms = NotEmpty(p.message) \o rest /\ Awaited(p.size, p.buf \o t, rest)
  BY <1>10, Zenon DEF ReadsOn, p
<1>13. sent[c] = Of(called'[c]) \o rest
  <2>1. called[c] \in Seq(Call) /\ Of(called[c]) \in Messages /\ Calls(c) = Of(called[c])
    BY OfHas, CallsAreOf DEF Typed
  <2>2. CASE p.message = <<>>
    <3>1. called' = called
      BY <1>1, <2>2
    <3>2. ms = rest
      <4>1. NotEmpty(p.message) = <<>>
        BY <2>2 DEF NotEmpty
      <4>2. <<>> \o rest = rest
        BY MessagesJoined
      <4>3. QED
        BY <1>12, <4>1, <4>2, Zenon
    <3>3. QED
      BY <1>9, <2>1, <3>1, <3>2, Zenon
  <2>3. CASE p.message # <<>>
    <3> DEFINE e == [message |-> p.message, given |-> request', stale |-> request]
    <3>1. called' = [called EXCEPT ![c] = Append(called[c], e)]
      BY <1>1, <1>11, <2>3
    <3>2. e \in Call /\ e.message = p.message
      BY <1>5, <1>11 DEF Call, Typed
    <3> HIDE DEF e
    <3>3. called'[c] = Append(called[c], e)
      BY <3>1 DEF Typed
    <3>4. Of(called'[c]) = Of(called[c]) \o <<p.message>>
      <4>1. Of(Append(called[c], e)) = Of(called[c]) \o <<e.message>>
        BY <2>1, <3>2, OfGrows
      <4>2. QED
        BY <3>2, <3>3, <4>1, Zenon
    <3>5. ms = <<p.message>> \o rest
      BY <1>12, <2>3 DEF NotEmpty
    <3>6. (Of(called[c]) \o <<p.message>>) \o rest = Of(called[c]) \o (<<p.message>> \o rest)
      <4>1. <<p.message>> \in Messages
        BY <1>11 DEF Messages
      <4>2. QED
        BY <2>1, <4>1, MessagesRejoined
    <3>7. QED
      BY <1>9, <2>1, <3>4, <3>5, <3>6, Zenon
  <2>4. QED
    BY <2>2, <2>3
<1>14. Ahead(c)' = p.buf \o t
  <2>1. readBuf'[c] = p.buf
    BY <1>1 DEF Typed
  <2>2. Ahead(c)' = (readBuf'[c] \o h) \o w
    BY DEF Ahead, h, w
  <2>3. (p.buf \o h) \o w = p.buf \o (h \o w)
    BY <1>4, <1>7, Joined
  <2>4. QED
    BY <2>1, <2>2, <2>3, Zenon DEF t
<1>15. gSize'[c] = p.size
  BY <1>1 DEF Typed
<1>16. sent'[c] = Calls(c)' \o rest
  BY <1>2, <1>13, CallsPrimed, Zenon
<1>17. Awaited(gSize'[c], Ahead(c)', rest)
  BY <1>12, <1>14, <1>15, Zenon
<1>18. InStep(c)'
  BY <1>16, <1>17, Zenon DEF InStep
<1>19. QED
  BY <1>1, <1>11, <1>18

LEMMA ReadSound ==
  ASSUME Typed, Bounded, Sound, ~failed, NEW c \in Connections,
         NEW n \in 0 .. Len(Source(c)), Read(c, n)
  PROVE  Sound'
<1> DEFINE u == readBuf[c] \o Prefix(Source(c), n)
           hd == HeadAfter(c, n)
           p == Parsed(c, hd, u)
           e == [message |-> p.message, given |-> request', stale |-> request]
<1>1. /\ readBuf' = [readBuf EXCEPT ![c] = p.buf]
      /\ gSize' = [gSize EXCEPT ![c] = p.size]
      /\ tail' = [tail EXCEPT ![c] = p.tail]
      /\ failed' = (p.failed \/ p.misread)
      /\ IF p.message # <<>> /\ ~failed'
         THEN /\ request' = request \cup Range(p.message)
              /\ called' = [called EXCEPT ![c] =
                   Append(@, [message |-> p.message, given |-> request', stale |-> request])]
              /\ owed' = [owed EXCEPT ![c] = @ + 1]
         ELSE UNCHANGED <<request, called, owed>>
      /\ \E f \in SUBSET {"full"} : mishaps' = [mishaps EXCEPT ![c] =
           @ \cup (IF PrefixDue(c, u) /\ Len(u) < PrefixSize THEN {"short"} ELSE {}) \cup f
             \cup (IF p.misread THEN {"misread"} ELSE {})]
  <2>1. u \in Bytes /\ Len(u) <= Capacity /\ Reading(c, hd, u)
    BY ReadDoes
  <2> HIDE DEF u, hd
  <2>2. QED
    BY <2>1, Zenon DEF Reading
<1>2. ReadvNonBlock(c, n) /\ sent' = sent
  BY DEF Read, history
<1>3. \A d \in Connections : d # c => held'[d] = held[d] /\ wire'[d] = wire[d]
  BY <1>2, ReadvMoves
<1> HIDE DEF u, hd, p, e
<1>4. /\ \/ called' = called
         \/ called' = [called EXCEPT ![c] = Append(called[c], e)] /\ e.given = Range(e.message) \cup e.stale
  BY <1>1 DEF e
<1>5. \A d \in Connections : mishaps[d] \subseteq mishaps'[d]
  <2>1. PICK f \in SUBSET {"full"} : mishaps' = [mishaps EXCEPT ![c] =
          @ \cup (IF PrefixDue(c, u) /\ Len(u) < PrefixSize THEN {"short"} ELSE {}) \cup f
            \cup (IF p.misread THEN {"misread"} ELSE {})]
    BY <1>1
  <2>2. QED
    BY <2>1 DEF Typed
<1>6. \A d \in Connections : d # c =>
        /\ readBuf'[d] = readBuf[d] /\ gSize'[d] = gSize[d] /\ called'[d] = called[d]
  <2>1. \A d \in Connections : d # c => readBuf'[d] = readBuf[d] /\ gSize'[d] = gSize[d]
    BY <1>1 DEF Typed
  <2>2. \A d \in Connections : d # c => called'[d] = called[d]
    BY <1>4 DEF Typed
  <2>3. QED
    BY <2>1, <2>2
<1>7. failed' => \E d \in Connections : Astray(d)'
  <2> SUFFICES ASSUME ~Astray(c)' PROVE ~failed'
    OBVIOUS
  <2>1. InStep(c)
    BY <1>5 DEF Sound, Astray
  <2>2. QED
    BY <2>1, ReadInStep
<1>8. \A d \in Connections : \A i \in DOMAIN called'[d] :
        called'[d][i].given = Range(called'[d][i].message) \cup called'[d][i].stale
  <2> SUFFICES ASSUME NEW d \in Connections, NEW i \in DOMAIN called'[d]
               PROVE  called'[d][i].given = Range(called'[d][i].message) \cup called'[d][i].stale
    OBVIOUS
  <2>1. CASE called'[d] = called[d]
    <3>1. i \in DOMAIN called[d]
      BY <2>1
    <3>2. called[d][i].given = Range(called[d][i].message) \cup called[d][i].stale
      BY <3>1 DEF Sound
    <3>3. QED
      BY <2>1, <3>2, Zenon
  <2>2. CASE called'[d] # called[d]
    <3>1. d = c /\ called'[c] = Append(called[c], e) /\ e.given = Range(e.message) \cup e.stale
      <4>1. d = c
        BY <1>6, <2>2
      <4>2. called' = [called EXCEPT ![c] = Append(called[c], e)] /\ e.given = Range(e.message) \cup e.stale
        BY <1>4, <2>2
      <4>3. called'[c] = Append(called[c], e)
        BY <4>2 DEF Typed
      <4>4. QED
        BY <4>1, <4>2, <4>3
    <3>2. called[c] \in Seq(Call) /\ Len(called[c]) \in Nat /\ DOMAIN called[c] = 1 .. Len(called[c])
      BY LenProperties DEF Typed
    <3>3. i \in 1 .. Len(called[c]) + 1
      BY <3>1, <3>2
    <3>4. CASE i = Len(called[c]) + 1
      <4>1. called'[d][i] = e
        BY <3>1, <3>2, <3>4
      <4>2. QED
        BY <3>1, <4>1, Zenon
    <3>5. CASE i # Len(called[c]) + 1
      <4>1. i \in DOMAIN called[c]
        BY <3>2, <3>3, <3>5
      <4>2. called'[d][i] = called[c][i]
        BY <3>1, <3>2, <4>1
      <4>3. called[c][i].given = Range(called[c][i].message) \cup called[c][i].stale
        BY <4>1 DEF Sound
      <4>4. QED
        BY <4>2, <4>3, Zenon
    <3>6. QED
      BY <3>4, <3>5
  <2>3. QED
    BY <2>1, <2>2
<1>9. ASSUME NEW d \in Connections, ~Astray(d)' PROVE InStep(d)'
  <2>1. InStep(d)
    BY <1>5, <1>9 DEF Sound, Astray
  <2>2. CASE d = c
    BY <1>9, <2>1, <2>2, ReadInStep
  <2>3. CASE d # c
    BY <1>2, <1>3, <1>6, <2>1, <2>3, SameStep
  <2>4. QED
    BY <2>2, <2>3
<1>10. QED
  BY <1>7, <1>8, <1>9 DEF Sound

-----------------------------------------------------------------------------
IInv == Typed /\ Bounded /\ Sound /\ Answers

LEMMA InitIInv ==
  ASSUME Init
  PROVE  IInv
<1>1. <<>> \in Bytes /\ <<>> \in Seq(Call) /\ <<>> \in Seq(Seq(Fields)) /\ <<>> \in Messages
  BY DEF Bytes, Messages
<1>2. Typed
  <2>1. /\ head \in [Connections -> 0..Capacity] /\ tail \in [Connections -> 0..Capacity]
        /\ size \in Nat
    BY SizesAssumption DEF Init
  <2>2. QED
    BY <1>1, <2>1 DEF Init, Typed
<1>3. Bounded
  BY SizesAssumption DEF Init, Bounded, Between
<1>4. Answers
  <2>1. \A c \in Connections : back[c] = <<>> /\ writeBuf[c] = <<>> /\ accepted[c] = 0
    BY DEF Init
  <2>2. QED
    BY <1>2, <2>1, NoneAnswered DEF Answers
<1>5. ASSUME NEW c \in Connections PROVE InStep(c)
  <2>1. /\ readBuf[c] = <<>> /\ held[c] = <<>> /\ wire[c] = <<>> /\ gSize[c] = 0
        /\ sent[c] = <<>> /\ called[c] = <<>>
    BY DEF Init
  <2>2. Ahead(c) = <<>>
    <3>1. <<>> \o <<>> = <<>>
      BY <1>1, WithNothing
    <3>2. QED
      BY <2>1, <3>1, Zenon DEF Ahead
  <2>3. Calls(c) = <<>>
    BY <2>1 DEF Calls
  <2>4. <<>> = <<>> \o <<>>
    BY <1>1, MessagesJoined
  <2>5. Awaited(0, <<>>, <<>>)
    BY NothingFramed DEF Awaited
  <2>6. sent[c] = Calls(c) \o <<>> /\ Awaited(gSize[c], Ahead(c), <<>>)
    BY <2>1, <2>2, <2>3, <2>4, <2>5, Zenon
  <2>7. QED
    BY <1>1, <2>6, Zenon DEF InStep
<1>6. Sound
  BY <1>5 DEF Sound, Init
<1>7. QED
  BY <1>2, <1>3, <1>4, <1>6 DEF IInv

LEMMA NextIInv ==
  ASSUME IInv, Next
  PROVE  IInv'
<1> USE DEF IInv
<1>1. PICK c \in Connections :
        \/ Register(c) \/ Unregister(c) \/ (\E m \in Requests[c] : Send(c, m))
        \/ ReadSome(c) \/ WriteResponse(c) \/ WriteSome(c)
  BY DEF Next
<1>2. ~failed
  BY DEF Next
<1>3. CASE Register(c) \/ Unregister(c)
  <2>1. Typed' /\ Bounded'
    BY <1>3, RegisterTyped
  <2>2. /\ UNCHANGED <<back, writeBuf, accepted, size>>
        /\ UNCHANGED <<failed, called, sent, gSize, readBuf, held, wire>>
        /\ \A d \in Connections : mishaps[d] \subseteq mishaps'[d]
    BY <1>3 DEF Register, Unregister, input, output, history
  <2>3. Answers' /\ Sound'
    BY <2>2, AnswersKept, SoundKept
  <2>4. QED
    BY <2>1, <2>3
<1>4. CASE \E m \in Requests[c] : Send(c, m)
  <2>1. PICK m \in Requests[c] : Send(c, m)
    BY <1>4
  <2>2. Typed' /\ Bounded' /\ Sound'
    BY <2>1, SendTyped, SendSound
  <2>3. UNCHANGED <<back, writeBuf, accepted, size>> /\ \A d \in Connections : mishaps[d] \subseteq mishaps'[d]
    BY <2>1 DEF Send, output
  <2>4. Answers'
    BY <2>3, AnswersKept
  <2>5. QED
    BY <2>2, <2>4
<1>5. CASE ReadSome(c)
  <2>1. PICK n \in 0 .. Len(Source(c)) : Read(c, n)
    BY <1>5 DEF ReadSome
  <2>2. Typed' /\ Bounded' /\ Sound'
    BY <1>2, <2>1, ReadTyped, ReadSound
  <2>3. UNCHANGED <<back, writeBuf, accepted, size>>
    BY <2>1 DEF Read, output, history
  <2>4. \A d \in Connections : mishaps[d] \subseteq mishaps'[d]
    <3> DEFINE u == readBuf[c] \o Prefix(Source(c), n)
               hd == HeadAfter(c, n)
    <3>1. Reading(c, hd, u)
      BY <2>1, ReadDoes
    <3> HIDE DEF u, hd
    <3>2. PICK e \in SUBSET {"full"} : mishaps' = [mishaps EXCEPT ![c] =
            @ \cup (IF PrefixDue(c, u) /\ Len(u) < PrefixSize THEN {"short"} ELSE {}) \cup e
             \cup (IF Parsed(c, hd, u).misread THEN {"misread"} ELSE {})]
      BY <3>1, Zenon DEF Reading
    <3>3. QED
      BY <3>2 DEF Typed
  <2>5. Answers'
    BY <2>3, <2>4, AnswersKept
  <2>6. QED
    BY <2>2, <2>5
<1>6. CASE WriteResponse(c)
  <2>1. Typed' /\ Bounded' /\ Answers'
    BY <1>6, WriteResponseTyped, WriteResponseAnswers
  <2>2. UNCHANGED <<failed, called, sent, gSize, readBuf, held, wire>>
    BY <1>6 DEF WriteResponse, input, history
  <2>3. \A d \in Connections : mishaps[d] \subseteq mishaps'[d]
    <3>1. mishaps' = mishaps \/ mishaps' = [mishaps EXCEPT ![c] = mishaps[c] \cup {"torn"}]
      BY <1>6, WriteResponseDoes
    <3>2. QED
      BY <3>1 DEF Typed
  <2>4. Sound'
    BY <2>2, <2>3, SoundKept
  <2>5. QED
    BY <2>1, <2>4
<1>7. CASE WriteSome(c)
  <2>1. PICK n \in 0 .. Len(writeBuf[c]) : Write(c, n)
    BY <1>7 DEF WriteSome
  <2>2. Typed' /\ Bounded' /\ Answers'
    BY <2>1, WriteTyped, WriteAnswers
  <2>3. UNCHANGED <<failed, called, sent, gSize, readBuf, held, wire>>
    BY <2>1 DEF Write, input, history
  <2>4. \A d \in Connections : mishaps[d] \subseteq mishaps'[d]
    <3>1. PICK e \in SUBSET {"idle", "refused"} : mishaps' = [mishaps EXCEPT ![c] = mishaps[c] \cup e]
      BY <2>1, WriteDoes
    <3>2. QED
      BY <3>1 DEF Typed
  <2>5. Sound'
    BY <2>3, <2>4, SoundKept
  <2>6. QED
    BY <2>2, <2>5
<1>8. QED
  BY <1>1, <1>3, <1>4, <1>5, <1>6, <1>7

LEMMA StutterIInv ==
  ASSUME IInv, UNCHANGED vars
  PROVE  IInv'
<1>1. UNCHANGED <<state, readBuf, head, tail, size, gSize, writeBuf, watched, request, failed, wire, held, back, owed,
                  sends, sent, called, accepted, mishaps>>
  BY DEF vars, input, output, history
<1>2. Typed' /\ Bounded'
  BY <1>1 DEF IInv, Typed, Bounded
<1>3. \A d \in Connections : mishaps[d] \subseteq mishaps'[d]
  BY <1>1
<1>4. Answers' /\ Sound'
  BY <1>1, <1>3, AnswersKept, SoundKept DEF IInv
<1>5. QED
  BY <1>2, <1>4 DEF IInv

(* The types, the bounds, the framing of every stream that was not cut in  *)
(* a prefix, and the wholeness of what is sent back, hold for ever.        *)
THEOREM IInvInvariant == Spec => []IInv
<1>1. Init => IInv
  BY InitIInv
<1>2. IInv /\ [Next]_vars => IInv'
  BY NextIInv, StutterIInv
<1>3. QED
  BY <1>1, <1>2, PTL DEF Spec

(* Read gives the program the requests that are not empty, each just as it *)
(* was sent and in that order, and no assertion of Read fails, unless a    *)
(* Read found a prefix but for its last byte.                              *)
THEOREM CallsAreSent == Spec => []CalledAsSent
<1>1. IInv => CalledAsSent
  <2> SUFFICES ASSUME IInv PROVE CalledAsSent
    OBVIOUS
  <2>1. ASSUME NEW c \in Connections, ~Astray(c) PROVE IsPrefix(Calls(c), sent[c])
    <3>1. PICK rest \in Messages : sent[c] = Calls(c) \o rest
      BY <2>1 DEF IInv, Sound, InStep
    <3> DEFINE M == Seq(Fields)
               k == Calls(c)
    <3>2. k \in Seq(M) /\ rest \in Seq(M)
      BY OfHas, CallsAreOf DEF IInv, Typed, Messages
    <3> HIDE DEF M, k
    <3>3. /\ Len(k \o rest) = Len(k) + Len(rest) /\ Len(k) \in Nat /\ Len(rest) \in Nat
          /\ k \o rest \in Seq(M)
          /\ \A i \in 1 .. Len(k) + Len(rest) : (k \o rest)[i] = IF i <= Len(k) THEN k[i] ELSE rest[i - Len(k)]
      BY <3>2, ConcatProperties, LenProperties
    <3> DEFINE w == k \o rest
    <3> HIDE DEF w
    <3>4. w \in Seq(M) /\ Len(k) <= Len(w) /\ \A i \in 1 .. Len(k) : w[i] = k[i]
      BY <3>3 DEF w
    <3>5. SubSeq(w, 1, Len(k)) = SubSeq(k, 1, Len(k))
      <4>1. SubSeq(k, 1, Len(k)) = k
        BY <3>2, SubSeqFull
      <4>2. \A i \in 1 .. Len(k) : w[i] \in M
        BY <3>2, <3>4, ElementOfSeq
      <4>3. Len(k) \in Nat
        BY <3>3
      <4>4. /\ SubSeq(w, 1, Len(k)) \in Seq(M)
            /\ Len(SubSeq(w, 1, Len(k))) = IF 1 <= Len(k) THEN Len(k) - 1 + 1 ELSE 0
            /\ \A i \in 1 .. Len(k) - 1 + 1 : SubSeq(w, 1, Len(k))[i] = w[1 + i - 1]
        BY <4>2, <4>3, SubSeqProperties
      <4>5. Len(SubSeq(w, 1, Len(k))) = Len(k) /\ \A i \in 1 .. Len(k) : SubSeq(w, 1, Len(k))[i] = k[i]
        BY <3>4, <4>3, <4>4
      <4> DEFINE v == SubSeq(w, 1, Len(k))
      <4>6. v \in Seq(M) /\ Len(v) = Len(k) /\ \A i \in 1 .. Len(v) : v[i] = k[i]
        BY <4>4, <4>5
      <4> HIDE DEF v
      <4>7. v = k
        BY <3>2, <4>6, SeqEqual
      <4>8. QED
        BY <4>1, <4>7 DEF v
    <3>6. IsPrefix(k, w)
      BY <3>4, <3>5 DEF IsPrefix
    <3>7. QED
      BY <3>1, <3>6, Zenon DEF k, w
  <2>2. QED
    BY <2>1 DEF IInv, Sound, CalledAsSent
<1>2. QED
  BY <1>1, IInvInvariant, PTL

(* What a client received and what waits for it in the buffer is as many   *)
(* whole responses as WriteResponse accepted, unless one was torn.         *)
THEOREM AnswersAreWhole == Spec => []AnswersWhole
<1>1. IInv => AnswersWhole
  BY AnswersIsAnswersWhole DEF IInv
<1>2. QED
  BY <1>1, IInvInvariant, PTL

(* The types of the variables.                                             *)
THEOREM TypeCorrect == Spec => []TypeOK
<1>1. IInv => TypeOK
  BY DEF IInv, Typed, Bounded, TypeOK, Bytes, Byte
<1>2. QED
  BY <1>1, IInvInvariant, PTL

=============================================================================
