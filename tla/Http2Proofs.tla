----------------------------- MODULE Http2Proofs -----------------------------
(***************************************************************************)
(* Proofs about Http2, for every number of connections, every load of the  *)
(* clients and every size of the buffer: calls are answered once each, in  *)
(* order and by their paths, and what clients receive is whole frames.     *)
(***************************************************************************)
EXTENDS Http2, SequenceTheorems, TLAPS

-----------------------------------------------------------------------------
(* Pieces of sequences.                                                    *)

LEMMA PrefixHas ==
  ASSUME NEW X, NEW u \in Seq(X), NEW n \in Nat
  PROVE  /\ Prefix(u, n) \in Seq(X) /\ Len(Prefix(u, n)) = Lesser(n, Len(u))
         /\ \A i \in 1 .. Lesser(n, Len(u)) : Prefix(u, n)[i] = u[i]
<1>1. Len(u) \in Nat /\ \A i \in 1 .. Len(u) : u[i] \in X
  BY LenProperties
<1>2. Lesser(n, Len(u)) \in 0 .. Len(u)
  BY <1>1 DEF Lesser
<1>3. QED
  BY <1>1, <1>2, SubSeqProperties DEF Prefix

LEMMA PrefixIsAll ==
  ASSUME NEW X, NEW u \in Seq(X), NEW n \in Nat, n >= Len(u)
  PROVE  Prefix(u, n) = u
<1>1. Len(u) \in Nat
  BY LenProperties
<1>2. Lesser(n, Len(u)) = Len(u)
  BY <1>1 DEF Lesser
<1>3. QED
  BY <1>2, SubSeqFull DEF Prefix

LEMMA RestHas ==
  ASSUME NEW X, NEW u \in Seq(X), NEW n \in 0 .. Len(u)
  PROVE  /\ Rest(u, n) \in Seq(X) /\ Len(Rest(u, n)) = Len(u) - n
         /\ \A i \in 1 .. Len(u) - n : Rest(u, n)[i] = u[n + i]
<1>1. Len(u) \in Nat /\ \A i \in n + 1 .. Len(u) : u[i] \in X
  BY LenProperties
<1>2. /\ Rest(u, n) \in Seq(X)
      /\ Len(Rest(u, n)) = IF n + 1 <= Len(u) THEN Len(u) - (n + 1) + 1 ELSE 0
      /\ \A i \in 1 .. Len(u) - (n + 1) + 1 : Rest(u, n)[i] = u[(n + 1) + i - 1]
  BY <1>1, SubSeqProperties DEF Rest
<1>3. QED
  BY <1>1, <1>2

(* Rest of more than there is.                                             *)
LEMMA RestIsNothing ==
  ASSUME NEW X, NEW u \in Seq(X), NEW n \in Nat, n >= Len(u)
  PROVE  Rest(u, n) = <<>>
<1>1. Len(u) \in Nat /\ n + 1 > Len(u) /\ n + 1 \in Int /\ \A i \in n + 1 .. Len(u) : u[i] \in X
  BY LenProperties
<1>2. Rest(u, n) \in Seq(X) /\ Len(Rest(u, n)) = 0
  BY <1>1, SubSeqProperties DEF Rest
<1>3. QED
  BY <1>2, EmptySeq

LEMMA RestOfNone ==
  ASSUME NEW X, NEW u \in Seq(X)
  PROVE  Rest(u, 0) = u
BY SubSeqFull DEF Rest

LEMMA BothHave ==
  ASSUME NEW X, NEW u \in Seq(X), NEW v \in Seq(X)
  PROVE  /\ u \o v \in Seq(X) /\ Len(u \o v) = Len(u) + Len(v)
         /\ \A i \in 1 .. Len(u) + Len(v) : (u \o v)[i] = IF i <= Len(u) THEN u[i] ELSE v[i - Len(u)]
         /\ Len(u) \in Nat /\ Len(v) \in Nat
BY ConcatProperties, LenProperties

LEMMA Joined ==
  ASSUME NEW X, NEW u \in Seq(X), NEW v \in Seq(X), NEW w \in Seq(X)
  PROVE  (u \o v) \o w = u \o (v \o w)
BY ConcatAssociative

LEMMA WithNothing ==
  ASSUME NEW X, NEW u \in Seq(X)
  PROVE  u \o <<>> = u /\ <<>> \o u = u
BY ConcatEmptySeq

LEMMA Split ==
  ASSUME NEW X, NEW u \in Seq(X), NEW n \in 0 .. Len(u)
  PROVE  Prefix(u, n) \o Rest(u, n) = u
<1>1. Len(u) \in Nat /\ SubSeq(u, 1, Len(u)) = u
  BY LenProperties, SubSeqFull
<1>2. 1 \in 1 .. Len(u) + 1 /\ n \in 1 - 1 .. Len(u) /\ Len(u) \in n .. Len(u)
  BY <1>1
<1>3. SubSeq(u, 1, n) \o SubSeq(u, n + 1, Len(u)) = SubSeq(u, 1, Len(u))
  BY ONLY <1>2, u \in Seq(X), ConcatAdjacentSubSeq
<1>4. Lesser(n, Len(u)) = n
  <2>1. Len(u) \in Nat
    BY <1>1
  <2>2. QED
    BY ONLY <2>1, n \in 0 .. Len(u) DEF Lesser
<1>5. QED
  BY <1>1, <1>3, <1>4 DEF Prefix, Rest

(* What is taken from one sequence and appended to another.                *)
LEMMA Moved ==
  ASSUME NEW X, NEW v \in Seq(X), NEW u \in Seq(X), NEW n \in 0 .. Len(u)
  PROVE  (v \o Prefix(u, n)) \o Rest(u, n) = v \o u
<1>1. Prefix(u, n) \in Seq(X) /\ Rest(u, n) \in Seq(X) /\ n \in Nat
  BY PrefixHas, RestHas
<1>2. (v \o Prefix(u, n)) \o Rest(u, n) = v \o (Prefix(u, n) \o Rest(u, n))
  BY <1>1, Joined
<1>3. QED
  BY <1>2, Split

LEMMA Same ==
  ASSUME NEW X, NEW u \in Seq(X), NEW v \in Seq(X), Len(u) = Len(v), \A i \in 1 .. Len(u) : u[i] = v[i]
  PROVE  u = v
BY SeqEqual

(* The rest of what is there with something behind it.                     *)
LEMMA RestOfBoth ==
  ASSUME NEW X, NEW u \in Seq(X), NEW v \in Seq(X), NEW n \in 0 .. Len(u)
  PROVE  Rest(u \o v, n) = Rest(u, n) \o v
<1> DEFINE a == Rest(u \o v, n)
           b == Rest(u, n) \o v
<1>1. /\ u \o v \in Seq(X) /\ Len(u \o v) = Len(u) + Len(v) /\ Len(u) \in Nat /\ Len(v) \in Nat
      /\ \A i \in 1 .. Len(u) + Len(v) : (u \o v)[i] = IF i <= Len(u) THEN u[i] ELSE v[i - Len(u)]
  BY BothHave
<1>2. n \in 0 .. Len(u \o v)
  BY <1>1
<1>3. /\ a \in Seq(X) /\ Len(a) = Len(u) + Len(v) - n
      /\ \A i \in 1 .. Len(u) + Len(v) - n : a[i] = (u \o v)[n + i]
  <2> DEFINE w == u \o v
  <2>1. w \in Seq(X) /\ n \in 0 .. Len(w) /\ Len(w) = Len(u) + Len(v)
    BY <1>1, <1>2
  <2> HIDE DEF w
  <2>2. /\ Rest(w, n) \in Seq(X) /\ Len(Rest(w, n)) = Len(w) - n
        /\ \A i \in 1 .. Len(w) - n : Rest(w, n)[i] = w[n + i]
    BY <2>1, RestHas
  <2>3. QED
    BY <2>1, <2>2 DEF w
<1>4. /\ Rest(u, n) \in Seq(X) /\ Len(Rest(u, n)) = Len(u) - n
      /\ \A i \in 1 .. Len(u) - n : Rest(u, n)[i] = u[n + i]
  BY RestHas
<1>5. /\ b \in Seq(X) /\ Len(b) = Len(u) - n + Len(v)
      /\ \A i \in 1 .. Len(u) - n + Len(v) : b[i] = IF i <= Len(u) - n THEN Rest(u, n)[i] ELSE v[i - (Len(u) - n)]
  <2> DEFINE w == Rest(u, n)
  <2>1. w \in Seq(X) /\ Len(w) = Len(u) - n
    BY <1>4
  <2> HIDE DEF w
  <2>2. /\ w \o v \in Seq(X) /\ Len(w \o v) = Len(w) + Len(v)
        /\ \A i \in 1 .. Len(w) + Len(v) : (w \o v)[i] = IF i <= Len(w) THEN w[i] ELSE v[i - Len(w)]
    BY <2>1, BothHave
  <2>3. QED
    BY <2>1, <2>2 DEF w
<1> HIDE DEF a, b
<1>6. ASSUME NEW i \in 1 .. Len(a) PROVE a[i] = b[i]
  <2>1. i \in Nat /\ i >= 1 /\ i <= Len(u) + Len(v) - n /\ n \in Nat /\ n <= Len(u)
    BY <1>1, <1>3
  <2>2. a[i] = (u \o v)[n + i] /\ n + i \in 1 .. Len(u) + Len(v)
    BY <1>1, <1>3, <2>1
  <2>3. CASE i <= Len(u) - n
    <3>1. (u \o v)[n + i] = u[n + i] /\ i \in 1 .. Len(u) - n
      BY <1>1, <2>1, <2>2, <2>3
    <3>2. b[i] = Rest(u, n)[i]
      BY <1>1, <1>5, <2>1, <2>3
    <3>3. QED
      BY <1>4, <2>2, <3>1, <3>2
  <2>4. CASE ~(i <= Len(u) - n)
    <3>1. (u \o v)[n + i] = v[n + i - Len(u)]
      BY <1>1, <2>1, <2>2, <2>4
    <3>2. b[i] = v[i - (Len(u) - n)] /\ i - (Len(u) - n) = n + i - Len(u)
      BY <1>1, <1>5, <2>1, <2>4
    <3>3. QED
      BY <2>2, <3>1, <3>2
  <2>5. QED
    BY <2>3, <2>4
<1>7. Len(a) = Len(b)
  BY <1>1, <1>3, <1>5
<1>8. QED
  BY <1>3, <1>5, <1>6, <1>7, Same DEF a, b

(* The rest of a sequence behind the first of its parts.                   *)
LEMMA RestBehind ==
  ASSUME NEW X, NEW u \in Seq(X), NEW v \in Seq(X)
  PROVE  Rest(u \o v, Len(u)) = v
<1>1. Len(u) \in Nat /\ Len(u) \in 0 .. Len(u)
  BY LenProperties
<1>2. Rest(u \o v, Len(u)) = Rest(u, Len(u)) \o v
  BY <1>1, RestOfBoth
<1>3. Rest(u, Len(u)) = <<>>
  BY <1>1, RestIsNothing
<1>4. QED
  BY <1>2, <1>3, WithNothing

-----------------------------------------------------------------------------
(* The types of the state.                                                 *)

Digits == Seq(Nat)

Triple == {s \in Digits : Len(s) = HeaderSize}

OutFrames ==
  [type : {HEADERS, DATA, SETTINGS, PING}, id : Nat,
   status : {"200", "404", "end", "", "ack", "published"}]

UnitSet == [frame : OutFrames, part : {"header", "payload"}]

Answer == [id : Nat, status : {"200", "404"}]

ConType ==
  [fd : Connections, state : States, httpBuf : Digits, stream : Digits, hdr : Triple,
   frameCount : Nat, match : BOOLEAN, last : Nat,
   writeBuf : Seq(UnitSet), head : Nat, publish : Seq(UnitSet), published : Nat, watched : BOOLEAN]

Typed ==
  /\ load \in Loads /\ failed \in BOOLEAN
  /\ con \in [Connections -> ConType] /\ \A c \in Connections : Len(con[c].writeBuf) <= Capacity
  /\ wire \in [Connections -> Digits] /\ back \in [Connections -> Seq(UnitSet)]
  /\ table \in [Connections -> Seq(Paths)]
  /\ begun \in [Connections -> Seq([path : Paths, complete : BOOLEAN])]
  /\ asked \in [Connections -> Seq([id : Nat, message : Seq(Fields)])]
  /\ answers \in [Connections -> Seq(Answer)]
  /\ mishaps \in [Connections -> SUBSET Mishaps]

(* What a handler leaves alone.                                            *)
Leaves(k, l) ==
  /\ l \in ConType /\ l.fd = k.fd /\ l.state = k.state /\ l.httpBuf = k.httpBuf /\ l.hdr = k.hdr
  /\ l.frameCount = k.frameCount
  /\ l.writeBuf = k.writeBuf /\ l.publish = k.publish /\ l.published = k.published /\ l.watched = k.watched

LEMMA UnitsHave ==
  ASSUME NEW f \in OutFrames
  PROVE  /\ Units(f) \in Seq(UnitSet)
         /\ f.type \in {HEADERS, DATA} =>
              Len(Units(f)) = 2 /\ Units(f)[1] = [frame |-> f, part |-> "header"]
                /\ Units(f)[2] = [frame |-> f, part |-> "payload"]
         /\ f.type \notin {HEADERS, DATA} =>
              Len(Units(f)) = 1 /\ Units(f)[1] = [frame |-> f, part |-> "header"]
<1> DEFINE h == [frame |-> f, part |-> "header"]
           p == [frame |-> f, part |-> "payload"]
<1>1. h \in UnitSet /\ p \in UnitSet
  BY DEF UnitSet
<1>2. CASE f.type \in {HEADERS, DATA}
  <2>1. Units(f) = <<h>> \o <<p>>
    BY <1>2 DEF Units
  <2> HIDE DEF h, p
  <2>2. <<h>> \o <<p>> \in Seq(UnitSet) /\ Len(<<h>> \o <<p>>) = 2 /\ (<<h>> \o <<p>>)[1] = h /\ (<<h>> \o <<p>>)[2] = p
    BY <1>1
  <2>3. QED
    BY <1>2, <2>1, <2>2 DEF h, p
<1>3. CASE f.type \notin {HEADERS, DATA}
  <2>1. Units(f) = <<h>> \o <<>>
    BY <1>3 DEF Units
  <2> HIDE DEF h, p
  <2>2. <<h>> \o <<>> \in Seq(UnitSet) /\ Len(<<h>> \o <<>>) = 1 /\ (<<h>> \o <<>>)[1] = h
    BY <1>1
  <2>3. QED
    BY <1>3, <2>1, <2>2 DEF h, p
<1>4. QED
  BY <1>2, <1>3

(* Skipped is Rest of the stream and nothing else.                         *)
LEMMA SkippedHas ==
  ASSUME NEW k \in ConType, NEW n \in Nat
  PROVE  /\ Leaves(k, Skipped(k, n)) /\ Skipped(k, n).stream = Rest(k.stream, n)
         /\ Skipped(k, n).last = k.last /\ Skipped(k, n).match = k.match
<1>1. k.stream \in Digits
  BY DEF ConType
<1>2. Rest(k.stream, n) \in Digits
  <2>1. CASE n <= Len(k.stream)
    <3>1. n \in 0 .. Len(k.stream)
      BY <1>1, <2>1, LenProperties DEF Digits
    <3>2. QED
      BY <1>1, <3>1, RestHas DEF Digits
  <2>2. CASE ~(n <= Len(k.stream))
    <3>1. n >= Len(k.stream)
      BY <1>1, <2>2, LenProperties DEF Digits
    <3>2. Rest(k.stream, n) = <<>>
      BY <1>1, <3>1, RestIsNothing DEF Digits
    <3>3. QED
      BY <3>2 DEF Digits
  <2>3. QED
    BY <2>1, <2>2
<1>3. Skipped(k, n) = [k EXCEPT !.stream = Rest(k.stream, n)]
  BY DEF Skipped
<1>4. Skipped(k, n) \in ConType
  BY <1>2, <1>3 DEF ConType
<1>5. QED
  BY <1>3, <1>4 DEF Leaves, ConType

-----------------------------------------------------------------------------
(* Units that make whole frames.                                           *)

HasPayload(u) == u.part = "header" /\ Len(Units(u.frame)) = 2

Chain(s) == \A i \in 1 .. Len(s) : i < Len(s) /\ HasPayload(s[i]) => s[i + 1] = Units(s[i].frame)[2]

Closed(s) == Len(s) > 0 => ~HasPayload(s[Len(s)])

Whole(s) == Chain(s) /\ Closed(s)

LEMMA UnitsWhole ==
  ASSUME NEW f \in OutFrames
  PROVE  Whole(Units(f)) /\ Units(f) \in Seq(UnitSet) /\ Len(Units(f)) > 0 /\ Units(f)[1].part = "header"
<1>1. CASE f.type \in {HEADERS, DATA}
  <2>1. /\ Units(f) \in Seq(UnitSet) /\ Len(Units(f)) = 2 /\ Units(f)[1] = [frame |-> f, part |-> "header"]
        /\ Units(f)[2] = [frame |-> f, part |-> "payload"]
    BY <1>1, UnitsHave
  <2>2. Chain(Units(f))
    BY <2>1 DEF Chain
  <2>3. QED
    BY <2>1, <2>2 DEF Whole, Closed, HasPayload
<1>2. CASE f.type \notin {HEADERS, DATA}
  <2>1. Units(f) \in Seq(UnitSet) /\ Len(Units(f)) = 1 /\ Units(f)[1] = [frame |-> f, part |-> "header"]
    BY <1>2, UnitsHave
  <2>2. Units(f)[1].frame = f /\ ~HasPayload(Units(f)[1])
    BY <2>1 DEF HasPayload
  <2>3. QED
    BY <2>1, <2>2 DEF Whole, Closed, Chain
<1>3. QED
  BY <1>1, <1>2

LEMMA NothingWhole == Whole(<<>>)
BY DEF Whole, Chain, Closed

(* Whole frames behind units that are followed as they should be.          *)
LEMMA ChainsJoin ==
  ASSUME NEW u \in Seq(UnitSet), NEW v \in Seq(UnitSet), Chain(u), Chain(v),
         Len(u) > 0 /\ Len(v) > 0 /\ HasPayload(u[Len(u)]) => v[1] = Units(u[Len(u)].frame)[2]
  PROVE  Chain(u \o v)
<1>1. /\ u \o v \in Seq(UnitSet) /\ Len(u \o v) = Len(u) + Len(v) /\ Len(u) \in Nat /\ Len(v) \in Nat
      /\ \A i \in 1 .. Len(u) + Len(v) : (u \o v)[i] = IF i <= Len(u) THEN u[i] ELSE v[i - Len(u)]
  BY BothHave
<1> DEFINE w == u \o v
<1> HIDE DEF w
<1>2. /\ Len(w) = Len(u) + Len(v)
      /\ \A i \in 1 .. Len(u) + Len(v) : w[i] = IF i <= Len(u) THEN u[i] ELSE v[i - Len(u)]
  BY <1>1 DEF w
<1>3. ASSUME NEW i \in 1 .. Len(w), i < Len(w), HasPayload(w[i]) PROVE w[i + 1] = Units(w[i].frame)[2]
  <2>1. i \in Nat /\ i >= 1 /\ i + 1 <= Len(u) + Len(v)
    BY <1>1, <1>2, <1>3
  <2>2. CASE i < Len(u)
    <3>1. w[i] = u[i] /\ w[i + 1] = u[i + 1] /\ i \in 1 .. Len(u)
      BY <1>1, <1>2, <2>1, <2>2
    <3>2. QED
      BY <1>3, <2>2, <3>1 DEF Chain
  <2>3. CASE i = Len(u)
    <3>1. w[i] = u[i] /\ w[i + 1] = v[1] /\ Len(u) > 0 /\ Len(v) > 0
      BY <1>1, <1>2, <2>1, <2>3
    <3>2. QED
      BY <1>3, <2>3, <3>1
  <2>4. CASE i > Len(u)
    <3> DEFINE j == i - Len(u)
    <3>1. w[i] = v[j] /\ w[i + 1] = v[j + 1] /\ j \in 1 .. Len(v) /\ j < Len(v)
      BY <1>1, <1>2, <2>1, <2>4
    <3> HIDE DEF j
    <3>2. QED
      BY <1>3, <3>1 DEF Chain
  <2>5. QED
    BY <1>1, <2>1, <2>2, <2>3, <2>4
<1>4. Chain(w)
  BY <1>3 DEF Chain
<1>5. QED
  BY <1>4 DEF w

LEMMA WholesJoin ==
  ASSUME NEW u \in Seq(UnitSet), NEW v \in Seq(UnitSet), Whole(u), Whole(v)
  PROVE  Whole(u \o v) /\ u \o v \in Seq(UnitSet)
<1>1. /\ u \o v \in Seq(UnitSet) /\ Len(u \o v) = Len(u) + Len(v) /\ Len(u) \in Nat /\ Len(v) \in Nat
      /\ \A i \in 1 .. Len(u) + Len(v) : (u \o v)[i] = IF i <= Len(u) THEN u[i] ELSE v[i - Len(u)]
  BY BothHave
<1>2. Chain(u \o v)
  BY ChainsJoin DEF Whole, Closed
<1>3. Closed(u \o v)
  <2>1. CASE Len(v) > 0
    BY <1>1, <2>1 DEF Whole, Closed
  <2>2. CASE Len(v) = 0
    BY <1>1, <2>2 DEF Whole, Closed
  <2>3. QED
    BY <1>1, <2>1, <2>2
<1>4. QED
  BY <1>1, <1>2, <1>3 DEF Whole

-----------------------------------------------------------------------------
(* What the handlers do.                                                   *)

Done(k, d) ==
  /\ Leaves(k, d.con) /\ d.units \in Seq(UnitSet) /\ Whole(d.units)
  /\ d.answer \in Seq(Answer) /\ d.holds \in BOOLEAN /\ d.mishaps \in SUBSET Mishaps

(* Of a handler that skips the payload: nothing but the stream changes, no *)
(* answer.                                                                 *)
Skips(k, n, d) ==
  /\ d.con.stream = Rest(k.stream, n) /\ d.con.match = k.match /\ d.con.last = k.last /\ d.answer = <<>>

LEMMA NothingHas ==
  ASSUME NEW k
  PROVE  /\ Nothing(k).con = k /\ Nothing(k).units = <<>> /\ Nothing(k).answer = <<>>
         /\ Nothing(k).holds = TRUE /\ Nothing(k).mishaps = {}
BY DEF Nothing

LEMMA IdOf ==
  ASSUME NEW k \in ConType
  PROVE  k.hdr \in Digits /\ k.hdr[1] \in Nat /\ k.hdr[2] \in Nat /\ k.hdr[3] \in Nat /\ k.stream \in Digits
<1>1. k.hdr \in Triple /\ k.stream \in Digits
  BY DEF ConType
<1>2. QED
  BY <1>1 DEF Triple, Digits, HeaderSize

LEMMA GoAwayDoes ==
  ASSUME NEW k \in ConType, NEW len \in Nat
  PROVE  LET n == 2 + Lesser(MaxDebug, len - 2) IN
         /\ Done(k, OnGoAway(k, len)) /\ Skips(k, n, OnGoAway(k, len))
         /\ n = len \/ OnGoAway(k, len).mishaps = {"residue"}
         /\ OnGoAway(k, len).holds <=> Len(k.stream) >= 2
<1> DEFINE n == 2 + Lesser(MaxDebug, len - 2)
           d == OnGoAway(k, len)
<1>1. n \in Nat
  BY BoundsAssumption DEF Lesser
<1>2. /\ d.con = Skipped(k, n) /\ d.units = <<>> /\ d.answer = <<>> /\ d.holds = (Len(k.stream) >= 2)
      /\ d.mishaps = IF n # len THEN {"residue"} ELSE {}
  BY DEF OnGoAway, Nothing
<1>3. (Len(k.stream) >= 2) \in BOOLEAN
  OBVIOUS
<1>4. d.holds \in BOOLEAN /\ (d.holds <=> Len(k.stream) >= 2)
  BY <1>2, <1>3
<1>5. d.mishaps \in SUBSET Mishaps /\ (n = len \/ d.mishaps = {"residue"})
  BY <1>2 DEF Mishaps
<1>6. Leaves(k, d.con) /\ Skips(k, n, d)
  <2>1. n \in Nat /\ d.con = Skipped(k, n) /\ d.answer = <<>>
    BY <1>1, <1>2
  <2> HIDE DEF n, d
  <2>2. QED
    BY <2>1, SkippedHas DEF Skips
<1>7. d.units \in Seq(UnitSet) /\ Whole(d.units) /\ d.answer \in Seq(Answer)
  BY <1>2, NothingWhole
<1>8. QED
  BY <1>4, <1>5, <1>6, <1>7 DEF Done

LEMMA WindowUpdateDoes ==
  ASSUME NEW k \in ConType, NEW len \in Nat
  PROVE  /\ Done(k, OnWindowUpdate(k, len)) /\ Skips(k, 1, OnWindowUpdate(k, len))
         /\ OnWindowUpdate(k, len).holds <=> len = 1
<1> DEFINE d == OnWindowUpdate(k, len)
<1>1. d.con = Skipped(k, 1) /\ d.units = <<>> /\ d.answer = <<>> /\ d.holds = (len = 1) /\ d.mishaps = {}
  BY DEF OnWindowUpdate, Nothing
<1> HIDE DEF d
<1>2. Leaves(k, d.con) /\ Skips(k, 1, d)
  BY <1>1, SkippedHas DEF Skips
<1>3. d.units \in Seq(UnitSet) /\ Whole(d.units) /\ d.answer \in Seq(Answer)
  BY <1>1, NothingWhole
<1>4. d.holds \in BOOLEAN /\ (d.holds <=> len = 1) /\ d.mishaps \in SUBSET Mishaps
  BY <1>1
<1>5. QED
  BY <1>2, <1>3, <1>4 DEF Done, d

LEMMA SettingsDoes ==
  ASSUME NEW k \in ConType, NEW len \in Nat
  PROVE  /\ Done(k, OnSettings(k, len)) /\ Skips(k, len, OnSettings(k, len))
         /\ OnSettings(k, len).holds <=> len % 2 = 0
<1> DEFINE d == OnSettings(k, len)
           f == Out(SETTINGS, 0, "")
<1>1. /\ d.con = Skipped(k, len) /\ d.units = (IF k.frameCount = 1 THEN Units(f) ELSE <<>>)
      /\ d.answer = <<>> /\ d.holds = (len % 2 = 0) /\ d.mishaps = {}
  BY DEF OnSettings, Nothing
<1>2. f \in OutFrames
  BY DEF OutFrames, Out
<1> HIDE DEF d, f
<1>3. Leaves(k, d.con) /\ Skips(k, len, d)
  BY <1>1, SkippedHas DEF Skips
<1>4. d.units \in Seq(UnitSet) /\ Whole(d.units) /\ d.answer \in Seq(Answer)
  BY <1>1, <1>2, NothingWhole, UnitsWhole
<1>5. d.holds \in BOOLEAN /\ (d.holds <=> len % 2 = 0) /\ d.mishaps \in SUBSET Mishaps
  BY <1>1
<1>6. QED
  BY <1>3, <1>4, <1>5 DEF Done, d

LEMMA PingDoes ==
  ASSUME NEW k \in ConType, NEW len \in Nat
  PROVE  Done(k, OnPing(k, len)) /\ Skips(k, len, OnPing(k, len)) /\ OnPing(k, len).holds
<1> DEFINE d == OnPing(k, len)
           f == Out(PING, 0, "ack")
<1>1. d.con = Skipped(k, len) /\ d.units = Units(f) /\ d.answer = <<>> /\ d.holds = TRUE /\ d.mishaps = {}
  BY DEF OnPing, Nothing
<1>2. f \in OutFrames
  BY DEF OutFrames, Out
<1> HIDE DEF d, f
<1>3. Leaves(k, d.con) /\ Skips(k, len, d)
  BY <1>1, SkippedHas DEF Skips
<1>4. d.units \in Seq(UnitSet) /\ Whole(d.units) /\ d.answer \in Seq(Answer)
  BY <1>1, <1>2, UnitsWhole
<1>5. QED
  BY <1>1, <1>3, <1>4 DEF Done, d

LEMMA OtherDoes ==
  ASSUME NEW k \in ConType, NEW len \in Nat
  PROVE  Done(k, OnOther(k, len)) /\ Skips(k, len, OnOther(k, len)) /\ OnOther(k, len).holds
<1> DEFINE d == OnOther(k, len)
<1>1. d.con = Skipped(k, len) /\ d.units = <<>> /\ d.answer = <<>> /\ d.holds = TRUE /\ d.mishaps = {}
  BY DEF OnOther, Nothing
<1> HIDE DEF d
<1>2. Leaves(k, d.con) /\ Skips(k, len, d)
  BY <1>1, SkippedHas DEF Skips
<1>3. d.units \in Seq(UnitSet) /\ Whole(d.units) /\ d.answer \in Seq(Answer)
  BY <1>1, NothingWhole
<1>4. QED
  BY <1>1, <1>2, <1>3 DEF Done, d

(* HEADERS: the path found is the one meant, or the table was wrong.       *)
LEMMA HeadersDoes ==
  ASSUME NEW k \in ConType, NEW len \in Nat
  PROVE  LET d  == OnHeaders(k, len)
             id == k.hdr[3] IN
         /\ Done(k, d) /\ d.answer = <<>> /\ d.holds
         /\ d.con.stream = Rest(k.stream, len) /\ d.con.last = id
         /\ d.mishaps \cap Misread = {} /\ id \in DOMAIN begun[k.fd] /\ begun[k.fd][id].path \in Paths =>
              d.con.match = (begun[k.fd][id].path \in Served)
<1> DEFINE d     == OnHeaders(k, len)
           id    == k.hdr[3]
           path  == FoldLeft(Inflate, [table |-> inflater, path |-> 0], Prefix(k.stream, len)).path
           meant == IF id \in DOMAIN begun[k.fd] THEN begun[k.fd][id].path ELSE 0
           s     == Skipped(k, len)
<1>1. d = [Nothing(k) EXCEPT
     !.con = [s EXCEPT !.match = IF path = 0 THEN @ ELSE path \in Served, !.last = id],
     !.inflater = FoldLeft(Inflate, [table |-> inflater, path |-> 0], Prefix(k.stream, len)).table,
     !.mishaps = IF path # meant THEN {"table"} ELSE {}]
  BY DEF OnHeaders
<1> HIDE DEF d, path
<1>2. /\ d.con = [s EXCEPT !.match = IF path = 0 THEN s.match ELSE path \in Served, !.last = id]
      /\ d.units = <<>> /\ d.answer = <<>> /\ d.holds = TRUE
      /\ d.mishaps = IF path # meant THEN {"table"} ELSE {}
  <2> HIDE DEF id, meant, s
  <2>1. s.match = s.match
    OBVIOUS
  <2>2. QED
    BY <1>1 DEF Nothing
<1>3. Leaves(k, s) /\ s.stream = Rest(k.stream, len) /\ s.match = k.match /\ id \in Nat
  BY SkippedHas, IdOf
<1> HIDE DEF s
<1>4. (path \in Served) \in BOOLEAN /\ s \in ConType /\ s.match \in BOOLEAN
  BY <1>3 DEF Leaves, ConType
<1>5. (IF path = 0 THEN s.match ELSE path \in Served) \in BOOLEAN
  BY <1>4
<1> DEFINE b == IF path = 0 THEN s.match ELSE path \in Served
<1>6. b \in BOOLEAN /\ d.con = [s EXCEPT !.match = b, !.last = id]
  BY <1>2, <1>5
<1> HIDE DEF b
<1>7. d.con \in ConType /\ d.con.stream = s.stream /\ d.con.last = id /\ d.con.match = b /\ Leaves(k, d.con)
  <2> HIDE DEF id
  <2>1. id \in Nat /\ s \in ConType /\ b \in BOOLEAN
    BY <1>3, <1>4, <1>6
  <2>2. d.con \in ConType /\ d.con.stream = s.stream /\ d.con.last = id /\ d.con.match = b
    BY <1>6, <2>1 DEF ConType
  <2>3. Leaves(k, d.con)
    BY <1>3, <1>6, <2>1, <2>2 DEF Leaves, ConType
  <2>4. QED
    BY <2>2, <2>3
<1>8. d.mishaps \in SUBSET Mishaps
  BY <1>2 DEF Mishaps
<1>9. d.units \in Seq(UnitSet) /\ Whole(d.units) /\ d.answer \in Seq(Answer) /\ d.holds \in BOOLEAN
  <2>1. d.units = <<>> /\ d.answer = <<>> /\ d.holds = TRUE
    BY <1>2
  <2>2. d.holds \in BOOLEAN
    BY ONLY <2>1
  <2>3. d.units \in Seq(UnitSet) /\ Whole(d.units)
    BY ONLY <2>1, NothingWhole
  <2>4. d.answer \in Seq(Answer)
    BY ONLY <2>1
  <2>5. QED
    BY ONLY <2>2, <2>3, <2>4
<1>10. ASSUME d.mishaps \cap Misread = {}, id \in DOMAIN begun[k.fd], begun[k.fd][id].path \in Paths
       PROVE  d.con.match = (begun[k.fd][id].path \in Served)
  <2>1. path = meant
    BY <1>2, <1>10 DEF Misread
  <2>2. meant = begun[k.fd][id].path /\ meant # 0
    BY <1>10, DigitsAssumption
  <2> HIDE DEF meant
  <2>3. b = (path \in Served)
    BY <2>1, <2>2 DEF b
  <2>4. QED
    BY <1>7, <2>1, <2>2, <2>3
<1>11. QED
  BY <1>2, <1>3, <1>7, <1>8, <1>9, <1>10 DEF Done, d

(* DATA: when the frame is one message, the message is taken.              *)
LEMMA DataDoes ==
  ASSUME NEW k \in ConType, NEW len \in Nat, len <= Len(k.stream)
  PROVE  LET d == OnData(k, len)
             status == IF k.match THEN "200" ELSE "404"
             one == len >= PrefixSize /\ PrefixSize + k.stream[2] = len IN
         /\ Done(k, d) /\ d.con.last = k.last /\ d.con.match = k.match
         /\ d.answer = <<[id |-> k.hdr[3], status |-> status]>>
         /\ ~one => "split" \in d.mishaps
         /\ k.last # k.hdr[3] => "interleaved" \in d.mishaps
         /\ one => /\ d.con.stream = Rest(k.stream, len)
                   /\ k.stream[1] = 0 /\ (\A i \in PrefixSize + 1 .. len : k.stream[i] \in Fields) => d.holds
<1> DEFINE d      == OnData(k, len)
           id     == k.hdr[3]
           popped == Len(k.stream) >= PrefixSize
           prefix == IF popped THEN Prefix(k.stream, PrefixSize) ELSE <<0, 0>>
           rest   == IF popped THEN Rest(k.stream, PrefixSize) ELSE k.stream
           m      == Message(rest, prefix[2])
           wrong  == (IF ~popped \/ PrefixSize + prefix[2] # len THEN {"split"} ELSE {})
                       \cup (IF k.last # id THEN {"interleaved"} ELSE {})
           l      == [k EXCEPT !.stream = Rest(rest, Len(m))]
           status == IF k.match THEN "200" ELSE "404"
           a      == Out(HEADERS, id, "200")
           b      == Out(DATA, id, "200")
           e      == Out(HEADERS, id, "end")
           f      == Out(HEADERS, id, "404")
           one    == len >= PrefixSize /\ PrefixSize + k.stream[2] = len
<1>1. k.stream \in Digits /\ id \in Nat /\ Len(k.stream) \in Nat /\ \A i \in 1 .. Len(k.stream) : k.stream[i] \in Nat
  BY IdOf, LenProperties DEF Digits
<1>2. /\ d.con = l /\ d.mishaps = wrong /\ d.answer = <<[id |-> id, status |-> status]>>
      /\ d.units = (IF k.match THEN Units(a) \o Units(b) \o Units(e) ELSE Units(f))
      /\ d.holds = (IF k.match THEN prefix[1] = 0 /\ Range(m) \subseteq Fields ELSE prefix[2] <= Len(rest))
  <2>1. CASE k.match
    <3>1. d = [Nothing(k) EXCEPT
          !.con     = l,
          !.request = @ \cup Range(m),
          !.units   = Units(a) \o Units(b) \o Units(e),
          !.answer  = Answered(k, "200"),
          !.holds   = prefix[1] = 0 /\ Range(m) \subseteq Fields,
          !.mishaps = wrong]
      BY <2>1 DEF OnData
    <3> HIDE DEF d, l, m, wrong, a, b, e, f, prefix, rest
    <3>2. QED
      BY <2>1, <3>1 DEF Nothing, Answered
  <2>2. CASE ~k.match
    <3>1. d = [Nothing(k) EXCEPT
          !.con     = l,
          !.units   = Units(f),
          !.answer  = Answered(k, "404"),
          !.holds   = prefix[2] <= Len(rest),
          !.mishaps = wrong]
      BY <2>2 DEF OnData
    <3> HIDE DEF d, l, m, wrong, a, b, e, f, prefix, rest
    <3>2. QED
      BY <2>2, <3>1 DEF Nothing, Answered
  <2>3. QED
    BY <2>1, <2>2
<1>3. /\ prefix[1] \in Nat /\ prefix[2] \in Nat /\ rest \in Digits
      /\ popped => prefix[1] = k.stream[1] /\ prefix[2] = k.stream[2] /\ Len(rest) = Len(k.stream) - 2
                     /\ \A i \in 1 .. Len(k.stream) - 2 : rest[i] = k.stream[2 + i]
  <2>1. CASE popped
    <3> DEFINE v == k.stream
    <3>0. v \in Seq(Nat) /\ Len(v) \in Nat /\ Len(v) >= 2
      BY <1>1, <2>1 DEF PrefixSize, Digits
    <3> HIDE DEF v
    <3>a. Lesser(2, Len(v)) = 2 /\ 2 \in 0 .. Len(v) /\ 2 \in Nat
      <4>1. ASSUME NEW n \in Nat, n >= 2 PROVE Lesser(2, n) = 2 /\ 2 \in 0 .. n /\ 2 \in Nat
        BY ONLY <4>1 DEF Lesser
      <4>2. QED
        BY ONLY <3>0, <4>1
    <3>b. Prefix(v, 2)[1] = v[1] /\ Prefix(v, 2)[2] = v[2]
      <4>1. \A i \in 1 .. Lesser(2, Len(v)) : Prefix(v, 2)[i] = v[i]
        BY ONLY <3>0, <3>a, PrefixHas
      <4>2. QED
        BY ONLY <3>a, <4>1
    <3>1. 2 \in 0 .. Len(k.stream) /\ k.stream \in Seq(Nat) /\ Len(k.stream) >= 2
      BY <3>0, <3>a DEF v
    <3>2. Prefix(k.stream, 2)[1] = k.stream[1] /\ Prefix(k.stream, 2)[2] = k.stream[2]
      BY <3>b DEF v
    <3>3. /\ Rest(k.stream, 2) \in Seq(Nat) /\ Len(Rest(k.stream, 2)) = Len(k.stream) - 2
          /\ \A i \in 1 .. Len(k.stream) - 2 : Rest(k.stream, 2)[i] = k.stream[2 + i]
      BY <3>1, RestHas
    <3>4. k.stream[1] \in Nat /\ k.stream[2] \in Nat
      BY <1>1, <3>1
    <3>5. prefix = Prefix(k.stream, 2) /\ rest = Rest(k.stream, 2)
      BY <2>1 DEF PrefixSize
    <3> HIDE DEF prefix, rest
    <3>6. QED
      BY <3>2, <3>3, <3>4, <3>5 DEF Digits
  <2>2. CASE ~popped
    BY <1>1, <2>2
  <2>3. QED
    BY <2>1, <2>2
<1> HIDE DEF prefix, rest, d
<1>4. /\ m \in Digits /\ Len(m) = Lesser(prefix[2], Len(rest)) /\ Len(m) \in 0 .. Len(rest) /\ Len(rest) \in Nat
      /\ \A i \in 1 .. Len(m) : m[i] = rest[i]
  <2>1. Len(rest) \in Nat
    BY <1>3, LenProperties DEF Digits
  <2>2. Lesser(prefix[2], Len(rest)) \in 0 .. Len(rest)
    BY <1>3, <2>1 DEF Lesser
  <2> DEFINE n == prefix[2]
  <2>3. m = Prefix(rest, n) /\ n \in Nat /\ rest \in Seq(Nat) /\ Lesser(n, Len(rest)) \in 0 .. Len(rest)
    BY <1>3, <2>2 DEF Message, Digits
  <2> HIDE DEF n, m
  <2>4. /\ Prefix(rest, n) \in Seq(Nat) /\ Len(Prefix(rest, n)) = Lesser(n, Len(rest))
        /\ \A i \in 1 .. Lesser(n, Len(rest)) : Prefix(rest, n)[i] = rest[i]
    BY <2>3, PrefixHas
  <2>5. QED
    BY <2>1, <2>3, <2>4 DEF n, Digits
<1> HIDE DEF m
<1>5. Rest(rest, Len(m)) \in Digits
  BY <1>3, <1>4, RestHas DEF Digits
<1>6. Leaves(k, d.con) /\ d.con.last = k.last /\ d.con.match = k.match /\ d.con.stream = Rest(rest, Len(m))
  <2> DEFINE r == Rest(rest, Len(m))
  <2>1. r \in Digits /\ d.con = [k EXCEPT !.stream = r]
    BY <1>2, <1>5
  <2> HIDE DEF r
  <2>2. d.con \in ConType /\ d.con.stream = r /\ d.con.last = k.last /\ d.con.match = k.match
    BY <2>1 DEF ConType
  <2>3. Leaves(k, d.con)
    BY <2>1, <2>2 DEF Leaves, ConType
  <2>4. QED
    BY <2>2, <2>3 DEF r
<1>7. d.units \in Seq(UnitSet) /\ Whole(d.units)
  <2>1. a \in OutFrames /\ b \in OutFrames /\ e \in OutFrames /\ f \in OutFrames
    BY <1>1 DEF Out, OutFrames
  <2> HIDE DEF a, b, e, f
  <2>2. /\ Units(a) \in Seq(UnitSet) /\ Units(b) \in Seq(UnitSet) /\ Units(e) \in Seq(UnitSet) /\ Units(f) \in Seq(UnitSet)
        /\ Whole(Units(a)) /\ Whole(Units(b)) /\ Whole(Units(e)) /\ Whole(Units(f))
    BY <2>1, UnitsWhole
  <2>3. Units(a) \o Units(b) \in Seq(UnitSet) /\ Whole(Units(a) \o Units(b))
    BY <2>2, WholesJoin
  <2>4. Units(a) \o Units(b) \o Units(e) \in Seq(UnitSet) /\ Whole(Units(a) \o Units(b) \o Units(e))
    BY <2>2, <2>3, WholesJoin
  <2>5. QED
    BY <1>2, <2>2, <2>4
<1>8. d.answer \in Seq(Answer) /\ d.mishaps \in SUBSET Mishaps
  <2>1. [id |-> id, status |-> status] \in Answer
    BY <1>1 DEF Answer
  <2>2. QED
    BY <1>2, <2>1 DEF Mishaps
<1>9. d.holds \in BOOLEAN
  <2>1. (prefix[1] = 0 /\ Range(m) \subseteq Fields) \in BOOLEAN /\ (prefix[2] <= Len(rest)) \in BOOLEAN
    BY <1>3, <1>4
  <2>2. QED
    BY <1>2, <2>1
<1>10. ~one => "split" \in d.mishaps
  <2>1. CASE ~popped
    BY <1>2, <2>1
  <2>2. CASE popped /\ len < PrefixSize
    <3>1. PrefixSize + prefix[2] # len
      BY <1>3, <2>2 DEF PrefixSize
    <3>2. QED
      BY <1>2, <3>1
  <2>3. CASE popped /\ len >= PrefixSize
    BY <1>2, <1>3, <2>3
  <2>4. QED
    BY <1>1, <2>1, <2>2, <2>3 DEF PrefixSize
<1>11. k.last # id => "interleaved" \in d.mishaps
  BY <1>2
<1>12. ASSUME one
       PROVE  /\ d.con.stream = Rest(k.stream, len)
              /\ k.stream[1] = 0 /\ (\A i \in PrefixSize + 1 .. len : k.stream[i] \in Fields) => d.holds
  <2>1. popped /\ len >= 2 /\ 2 + k.stream[2] = len
    BY <1>1, <1>12 DEF PrefixSize
  <2>2. prefix[2] = len - 2 /\ Len(rest) = Len(k.stream) - 2 /\ Len(m) = len - 2 /\ prefix[2] <= Len(rest)
    BY <1>1, <1>3, <1>4, <2>1 DEF Lesser
  <2>3. Rest(rest, Len(m)) = Rest(k.stream, len)
    <3> DEFINE x == Rest(rest, Len(m))
               y == Rest(k.stream, len)
    <3>1. len \in 0 .. Len(k.stream)
      BY <1>1
    <3>2. /\ y \in Seq(Nat) /\ Len(y) = Len(k.stream) - len
          /\ \A i \in 1 .. Len(k.stream) - len : y[i] = k.stream[len + i]
      BY <1>1, <3>1, RestHas DEF Digits
    <3>3. /\ x \in Seq(Nat) /\ Len(x) = Len(rest) - Len(m)
          /\ \A i \in 1 .. Len(rest) - Len(m) : x[i] = rest[Len(m) + i]
      BY <1>3, <1>4, RestHas DEF Digits
    <3> HIDE DEF x, y
    <3>4. Len(x) = Len(y)
      BY <1>1, <2>2, <3>2, <3>3
    <3>5. ASSUME NEW i \in 1 .. Len(x) PROVE x[i] = y[i]
      <4>1. i \in Nat /\ i >= 1 /\ i <= Len(k.stream) - len
        BY <1>1, <3>2, <3>4
      <4>a. Len(m) = len - 2 /\ Len(rest) - Len(m) = Len(k.stream) - len
        BY <1>1, <2>2
      <4>b. i \in 1 .. Len(rest) - Len(m)
        BY <1>1, <4>1, <4>a
      <4>c. x[i] = rest[Len(m) + i]
        BY <3>3, <4>b
      <4>d. len - 2 + i \in 1 .. Len(k.stream) - 2
        BY <1>1, <2>1, <4>1
      <4>2. x[i] = rest[len - 2 + i] /\ len - 2 + i \in 1 .. Len(k.stream) - 2
        BY <4>a, <4>c, <4>d
      <4>3. rest[len - 2 + i] = k.stream[2 + (len - 2 + i)] /\ 2 + (len - 2 + i) = len + i
        BY <1>3, <2>1, <4>1, <4>2
      <4>4. QED
        BY <1>1, <3>2, <4>1, <4>2, <4>3
    <3>6. QED
      BY <3>2, <3>3, <3>4, <3>5, Same DEF x, y
  <2>4. ASSUME k.stream[1] = 0, \A i \in PrefixSize + 1 .. len : k.stream[i] \in Fields
        PROVE  d.holds
    <3>1. Range(m) \subseteq Fields
      <4> SUFFICES ASSUME NEW i \in 1 .. Len(m) PROVE m[i] \in Fields
        <5>1. DOMAIN m = 1 .. Len(m)
          BY <1>4 DEF Digits
        <5>2. QED
          BY <5>1 DEF Range
      <4>1. m[i] = rest[i] /\ i \in 1 .. Len(k.stream) - 2 /\ 2 + i \in PrefixSize + 1 .. len
        BY <1>1, <1>4, <2>1, <2>2 DEF PrefixSize
      <4>2. rest[i] = k.stream[2 + i]
        BY <1>3, <2>1, <4>1
      <4>3. QED
        BY <2>4, <4>1, <4>2
    <3>2. prefix[1] = 0 /\ prefix[2] <= Len(rest)
      BY <1>3, <2>1, <2>2, <2>4
    <3>3. QED
      BY <1>2, <3>1, <3>2
  <2>5. QED
    BY <1>6, <2>3, <2>4
<1>13. QED
  BY <1>2, <1>6, <1>7, <1>8, <1>9, <1>10, <1>11, <1>12 DEF Done, d

(* A handler of a frame that is complete and no part of a call takes the   *)
(* frame and nothing else, and its assertions hold.                        *)
TakesOnly(k, len, d) ==
  /\ d.answer = <<>> /\ d.con.last = k.last /\ d.con.match = k.match
  /\ Legal(k.hdr[2], len) /\ d.mishaps \cap Misread = {} => d.holds /\ d.con.stream = Rest(k.stream, len)

LEMMA FrameDoes ==
  ASSUME NEW k \in ConType, FrameComplete(k)
  PROVE  LET d    == OnFrame(k)
             len  == k.hdr[1]
             type == k.hdr[2] IN
         /\ Done(k, d) /\ len \in Nat /\ type \in Nat /\ len <= Len(k.stream)
         /\ type = HEADERS => d = OnHeaders(k, len)
         /\ type = DATA => d = OnData(k, len)
         /\ type \notin {HEADERS, DATA} => TakesOnly(k, len, d)
<1> DEFINE d    == OnFrame(k)
           len  == k.hdr[1]
           type == k.hdr[2]
<1>1. len \in Nat /\ type \in Nat /\ len <= Len(k.stream) /\ Len(k.stream) \in Nat
  BY IdOf, LenProperties DEF FrameComplete, Digits
<1>2. /\ type = HEADERS => d = OnHeaders(k, len)
      /\ type = DATA => d = OnData(k, len)
      /\ type = GOAWAY => d = OnGoAway(k, len)
      /\ type = WINDOW_UPDATE => d = OnWindowUpdate(k, len)
      /\ type = SETTINGS => d = OnSettings(k, len)
      /\ type = PING => d = OnPing(k, len)
      /\ type \notin {HEADERS, DATA, GOAWAY, WINDOW_UPDATE, SETTINGS, PING} => d = OnOther(k, len)
  BY DEF OnFrame, HEADERS, DATA, GOAWAY, WINDOW_UPDATE, SETTINGS, PING
<1> HIDE DEF d
<1>3. CASE type = HEADERS
  <2>1. Done(k, d)
    BY <1>1, <1>2, <1>3, HeadersDoes
  <2>2. type # DATA
    BY <1>3 DEF HEADERS, DATA
  <2>3. QED
    BY <1>1, <1>2, <1>3, <2>1, <2>2 DEF d
<1>4. CASE type = DATA
  <2>1. Done(k, d)
    BY <1>1, <1>2, <1>4, DataDoes
  <2>2. type # HEADERS
    BY <1>4 DEF HEADERS, DATA
  <2>3. QED
    BY <1>1, <1>2, <1>4, <2>1, <2>2 DEF d
<1>5. CASE type = GOAWAY
  <2> DEFINE n == 2 + Lesser(MaxDebug, len - 2)
  <2>1. /\ Done(k, d) /\ Skips(k, n, d)
        /\ n = len \/ d.mishaps = {"residue"}
        /\ d.holds <=> Len(k.stream) >= 2
    BY <1>1, <1>2, <1>5, GoAwayDoes
  <2> HIDE DEF n
  <2>2. Legal(type, len) => len >= 2
    BY <1>5 DEF Legal
  <2>3. d.mishaps \cap Misread = {} => n = len
    BY <2>1 DEF Misread
  <2>4. TakesOnly(k, len, d)
    BY <1>1, <2>1, <2>2, <2>3 DEF TakesOnly, Skips
  <2>5. QED
    BY <1>1, <1>2, <1>5, <2>1, <2>4 DEF d
<1>6. CASE type = WINDOW_UPDATE
  <2>1. Done(k, d) /\ Skips(k, 1, d) /\ (d.holds <=> len = 1)
    BY <1>1, <1>2, <1>6, WindowUpdateDoes
  <2>2. Legal(type, len) => len = 1
    BY <1>6 DEF Legal
  <2>3. TakesOnly(k, len, d)
    BY <1>1, <2>1, <2>2 DEF TakesOnly, Skips
  <2>4. QED
    BY <1>1, <1>2, <1>6, <2>1, <2>3 DEF d
<1>7. CASE type = SETTINGS
  <2> DEFINE even == len % 2 = 0
  <2>1. Done(k, d) /\ Skips(k, len, d) /\ (d.holds <=> even)
    BY <1>1, <1>2, <1>7, SettingsDoes
  <2>2. Legal(type, len) => even
    BY <1>7 DEF Legal
  <2> HIDE DEF even
  <2>3. TakesOnly(k, len, d)
    BY ONLY <2>1, <2>2 DEF TakesOnly, Skips
  <2>4. type \notin {HEADERS, DATA}
    BY <1>7 DEF HEADERS, DATA, SETTINGS
  <2>5. Done(k, d)
    BY <2>1
  <2>6. QED
    BY ONLY <1>1, <2>3, <2>4, <2>5 DEF d
<1>8. CASE type = PING
  <2>1. Done(k, d) /\ Skips(k, len, d) /\ d.holds
    BY <1>1, <1>2, <1>8, PingDoes
  <2>2. TakesOnly(k, len, d)
    BY <2>1 DEF TakesOnly, Skips
  <2>3. QED
    BY <1>1, <1>2, <1>8, <2>1, <2>2 DEF d
<1>9. CASE type \notin {HEADERS, DATA, GOAWAY, WINDOW_UPDATE, SETTINGS, PING}
  <2>1. Done(k, d) /\ Skips(k, len, d) /\ d.holds
    BY <1>1, <1>2, <1>9, OtherDoes
  <2>2. TakesOnly(k, len, d)
    BY <2>1 DEF TakesOnly, Skips
  <2>3. QED
    BY <1>1, <1>2, <1>9, <2>1, <2>2 DEF d
<1>10. QED
  BY <1>3, <1>4, <1>5, <1>6, <1>7, <1>8, <1>9

(* All is sent, or it was torn.                                            *)
LEMMA SendUnitsDoes ==
  ASSUME NEW k \in ConType, NEW u \in Seq(UnitSet), Len(k.writeBuf) <= Capacity
  PROVE  LET l == SendUnits(k, u) IN
         /\ l \in ConType /\ l.fd = k.fd /\ l.state = k.state /\ l.httpBuf = k.httpBuf /\ l.stream = k.stream
         /\ l.hdr = k.hdr /\ l.match = k.match /\ l.last = k.last /\ l.publish = k.publish
         /\ Len(l.writeBuf) <= Capacity
         /\ ~Torn(k, u) => l.writeBuf = k.writeBuf \o u
<1> DEFINE l == SendUnits(k, u)
           w == k.writeBuf
           n == Capacity - Len(w)
           p == Prefix(u, n)
           b == k.watched \/ FirstFits(w, u)
           h == (k.head + Len(w \o p) - Len(w)) % Capacity
<1>1. w \in Seq(UnitSet) /\ Len(w) \in Nat /\ Len(u) \in Nat /\ n \in Nat /\ Capacity \in Nat \ {0} /\ k.head \in Nat
  BY BoundsAssumption, LenProperties DEF ConType
<1>2. l = [k EXCEPT !.writeBuf = w \o p, !.head = h, !.watched = b]
  BY DEF SendUnits, Pushed
<1>3. b \in BOOLEAN
  BY DEF FirstFits
<1> HIDE DEF n, b, w, h
<1>4. /\ p \in Seq(UnitSet) /\ Len(p) = Lesser(n, Len(u))
      /\ n >= Len(u) => p = u
  BY <1>1, PrefixHas, PrefixIsAll
<1> HIDE DEF p
<1>5. w \o p \in Seq(UnitSet) /\ Len(w \o p) = Len(w) + Len(p)
  BY <1>1, <1>4, BothHave
<1> DEFINE q == w \o p
<1>6. q \in Seq(UnitSet) /\ h \in Nat /\ l = [k EXCEPT !.writeBuf = q, !.head = h, !.watched = b]
  <2>1. h \in Nat
    <3> DEFINE y == Len(w \o p)
    <3>1. y \in Int
      BY <1>5, LenProperties
    <3> HIDE DEF y
    <3>2. (k.head + y - Len(w)) % Capacity \in Nat
      BY <1>1, <3>1
    <3>3. QED
      BY <3>2 DEF h, y
  <2>2. QED
    BY <1>2, <1>5, <2>1
<1> HIDE DEF q, l
<1>7. /\ l \in ConType /\ l.fd = k.fd /\ l.state = k.state /\ l.httpBuf = k.httpBuf /\ l.stream = k.stream
      /\ l.hdr = k.hdr /\ l.match = k.match /\ l.last = k.last /\ l.publish = k.publish /\ l.writeBuf = q
  BY <1>3, <1>6 DEF ConType
<1>8. Len(q) <= Capacity
  <2>1. Len(p) <= n
    BY <1>1, <1>4 DEF Lesser
  <2>2. QED
    BY <1>1, <1>4, <1>5, <2>1, LenProperties DEF n, q
<1>9. ~Torn(k, u) => q = w \o u
  <2> SUFFICES ASSUME ~Torn(k, u) PROVE n >= Len(u)
    BY <1>4 DEF q
  <2>1. ~(Len(w) + Len(u) > Capacity)
    BY DEF Torn, w
  <2>2. QED
    BY <1>1, <2>1 DEF n
<1>10. QED
  BY <1>7, <1>8, <1>9 DEF l, w

(* What was read of a connection and not handled.                          *)
Ahead(k) == IF k.state = "READ_FRAME" THEN k.hdr \o k.stream ELSE k.stream

LEMMA MaskedIs ==
  ASSUME NEW id \in Nat
  PROVE  Masked(id) \in Nat
<1> DEFINE x == (id - 1) % (2 * TopBit)
<1>1. TopBit \in Nat
  BY BoundsAssumption
<1>2. CASE id > 0 /\ x >= TopBit
  <2>1. id - TopBit \in Nat
    <3>1. 2 * TopBit \in Nat \ {0} /\ id - 1 \in Nat
      BY <1>2, BoundsAssumption
    <3> DEFINE y == 2 * TopBit
               z == id - 1
    <3>2. \A i \in Nat, j \in Nat \ {0} : i % j <= i /\ i % j \in Nat
      OBVIOUS
    <3>3. z % y <= z /\ z % y \in Nat
      BY <3>1, <3>2
    <3>4. TopBit <= id - 1
      <4>1. x \in Nat /\ x <= id - 1
        BY <3>3
      <4> HIDE DEF x
      <4>2. QED
        BY <1>1, <1>2, <4>1
    <3>5. QED
      BY <1>1, <3>4
  <2>2. QED
    BY <1>2, <2>1 DEF Masked
<1>3. CASE ~(id > 0 /\ x >= TopBit)
  BY <1>3 DEF Masked
<1>4. QED
  BY <1>2, <1>3

LEMMA AfterHeaderDoes ==
  ASSUME NEW k \in ConType, k.state \in {"READ_FRAME_HEADER", "READ_FRAME"}
  PROVE  LET l == AfterHeader(k) IN
         /\ l \in ConType /\ l.fd = k.fd /\ l.httpBuf = k.httpBuf /\ l.match = k.match /\ l.last = k.last
         /\ l.writeBuf = k.writeBuf /\ l.publish = k.publish
         /\ l.state \in {"READ_FRAME_HEADER", "READ_FRAME"} /\ (Renamed(k) = {} => Ahead(l) = Ahead(k))
<1> DEFINE l == AfterHeader(k)
           h == Prefix(k.stream, HeaderSize)
           g == [h EXCEPT ![3] = Masked(h[3])]
           r == Rest(k.stream, HeaderSize)
<1>1. CASE HeaderThere(k)
  <2>1. l = [k EXCEPT !.hdr = g, !.stream = r, !.state = "READ_FRAME"]
    BY <1>1 DEF AfterHeader
  <2>2. h \in Triple /\ r \in Digits /\ h \o r = k.stream /\ h[3] = k.stream[3]
    <3> DEFINE s == k.stream
    <3>1. s \in Seq(Nat) /\ Len(s) \in Nat /\ Len(s) >= 3
      BY <1>1, LenProperties DEF ConType, Digits, HeaderSize, HeaderThere
    <3> HIDE DEF s
    <3>2. 3 \in 0 .. Len(s) /\ 3 \in Nat /\ Lesser(3, Len(s)) = 3
      <4>1. ASSUME NEW n \in Nat, n >= 3 PROVE 3 \in 0 .. n /\ 3 \in Nat /\ Lesser(3, n) = 3
        BY <4>1 DEF Lesser
      <4>2. QED
        BY <3>1, <4>1
    <3>3. /\ Prefix(s, 3) \in Seq(Nat) /\ Len(Prefix(s, 3)) = 3 /\ Rest(s, 3) \in Seq(Nat)
          /\ Prefix(s, 3) \o Rest(s, 3) = s
      BY <3>1, <3>2, PrefixHas, RestHas, Split
    <3>4. Prefix(s, 3)[3] = s[3]
      <4>1. \A i \in 1 .. 3 : Prefix(s, 3)[i] = s[i]
        BY <3>1, <3>2, PrefixHas
      <4>2. 3 \in 1 .. 3
        OBVIOUS
      <4>3. QED
        BY <4>1, <4>2
    <3>5. QED
      BY <3>3, <3>4 DEF s, Triple, Digits, HeaderSize
  <2> HIDE DEF h, r, l
  <2>3. g \in Triple /\ (Masked(h[3]) = h[3] => g = h)
    <3> DEFINE m == Masked(h[3])
    <3>1. h \in Seq(Nat) /\ Len(h) = 3
      BY <2>2 DEF Triple, Digits, HeaderSize
    <3>2. h \in [1 .. 3 -> Nat] /\ 3 \in 1 .. 3 /\ h[3] \in Nat
      <4>1. h \in [1 .. Len(h) -> Nat]
        BY <3>1, LenProperties
      <4>2. h \in [1 .. 3 -> Nat] /\ 3 \in 1 .. 3
        BY <3>1, <4>1
      <4>3. QED
        BY <4>2
    <3>3. m \in Nat
      BY <3>2, MaskedIs
    <3> HIDE DEF m
    <3>4. [h EXCEPT ![3] = m] \in [1 .. 3 -> Nat] /\ (m = h[3] => [h EXCEPT ![3] = m] = h)
      BY <3>2, <3>3
    <3>5. g \in [1 .. 3 -> Nat] /\ (m = h[3] => g = h)
      BY <3>4 DEF m
    <3> HIDE DEF g
    <3>6. g \in Seq(Nat)
      <4>1. 3 \in Nat
        OBVIOUS
      <4>2. QED
        BY ONLY <3>5, <4>1, SeqDef
    <3>7. Len(g) = 3
      BY <3>5, <3>6, LenProperties
    <3>8. QED
      BY <3>5, <3>6, <3>7 DEF m, Triple, Digits, HeaderSize
  <2> HIDE DEF g
  <2>4. /\ l \in ConType /\ l.fd = k.fd /\ l.httpBuf = k.httpBuf /\ l.match = k.match /\ l.last = k.last
        /\ l.writeBuf = k.writeBuf /\ l.publish = k.publish
        /\ l.state = "READ_FRAME" /\ l.hdr = g /\ l.stream = r
    BY <2>1, <2>2, <2>3 DEF ConType, States
  <2>5. Ahead(l) = g \o r /\ Ahead(k) = k.stream
    BY <1>1, <2>4 DEF Ahead, HeaderThere
  <2>6. Renamed(k) = {} => g = h
    BY <1>1, <2>2, <2>3 DEF Renamed
  <2>7. QED
    BY <2>2, <2>4, <2>5, <2>6 DEF l
<1>2. CASE ~HeaderThere(k)
  <2>1. l = k
    BY <1>2 DEF AfterHeader
  <2>2. QED
    BY <2>1
<1>3. QED
  BY <1>1, <1>2

-----------------------------------------------------------------------------
(* The types hold.                                                         *)

ConsTyped == con \in [Connections -> ConType] /\ \A c \in Connections : Len(con[c].writeBuf) <= Capacity

LEMMA ConOf ==
  ASSUME Typed, NEW c \in Connections
  PROVE  /\ con[c] \in ConType /\ Len(con[c].writeBuf) <= Capacity /\ Len(con[c].writeBuf) \in Nat
         /\ con[c].writeBuf \in Seq(UnitSet) /\ con[c].publish \in Seq(UnitSet)
         /\ con[c].httpBuf \in Digits /\ con[c].stream \in Digits /\ con[c].hdr \in Digits /\ Len(con[c].hdr) = 3
<1>1. con[c] \in ConType /\ Len(con[c].writeBuf) <= Capacity
  BY DEF Typed
<1>2. QED
  BY <1>1, LenProperties DEF ConType, Triple, HeaderSize

LEMMA Updated ==
  ASSUME Typed, NEW c \in Connections, NEW l \in ConType, Len(l.writeBuf) <= Capacity,
         con' = [con EXCEPT ![c] = l]
  PROVE  ConsTyped' /\ con'[c] = l /\ \A d \in Connections : d # c => con'[d] = con[d]
<1>1. con \in [Connections -> ConType] /\ \A d \in Connections : Len(con[d].writeBuf) <= Capacity
  BY DEF Typed
<1>2. con' \in [Connections -> ConType] /\ con'[c] = l /\ \A d \in Connections : d # c => con'[d] = con[d]
  BY <1>1
<1>3. QED
  BY <1>1, <1>2 DEF ConsTyped

LEMMA FrameHas ==
  ASSUME NEW type \in Nat, NEW id \in Nat, NEW p \in Digits
  PROVE  /\ FrameOf(type, id, p) \in Digits /\ Len(FrameOf(type, id, p)) = 3 + Len(p) /\ Len(p) \in Nat
         /\ FrameOf(type, id, p)[1] = Len(p) /\ FrameOf(type, id, p)[2] = type /\ FrameOf(type, id, p)[3] = id
         /\ \A i \in 1 .. Len(p) : FrameOf(type, id, p)[3 + i] = p[i]
         /\ Rest(FrameOf(type, id, p), 3 + Len(p)) = <<>>
         /\ \A w \in Digits : Rest(FrameOf(type, id, p) \o w, 3 + Len(p)) = w
<1> DEFINE h == <<Len(p), type, id>>
           f == h \o p
<1>1. p \in Seq(Nat) /\ Len(p) \in Nat
  BY LenProperties DEF Digits
<1>2. h \in Seq(Nat) /\ Len(h) = 3 /\ h[1] = Len(p) /\ h[2] = type /\ h[3] = id
  BY <1>1
<1>3. FrameOf(type, id, p) = f
  BY DEF FrameOf, Header
<1> HIDE DEF h
<1>4. /\ f \in Seq(Nat) /\ Len(f) = 3 + Len(p)
      /\ \A i \in 1 .. 3 + Len(p) : f[i] = IF i <= 3 THEN h[i] ELSE p[i - 3]
  <2>1. /\ f \in Seq(Nat) /\ Len(f) = Len(h) + Len(p)
        /\ \A i \in 1 .. Len(h) + Len(p) : f[i] = IF i <= Len(h) THEN h[i] ELSE p[i - Len(h)]
    BY ONLY <1>1, <1>2, BothHave
  <2> HIDE DEF f
  <2>2. QED
    BY ONLY <1>2, <2>1
<1> HIDE DEF f
<1>5. f[1] = Len(p) /\ f[2] = type /\ f[3] = id
  BY <1>1, <1>2, <1>4
<1>6. ASSUME NEW i \in 1 .. Len(p) PROVE f[3 + i] = p[i]
  <2>1. 3 + i \in 1 .. 3 + Len(p) /\ ~(3 + i <= 3) /\ (3 + i) - 3 = i
    BY <1>1
  <2>2. QED
    BY <1>4, <2>1
<1>7. Rest(f, 3 + Len(p)) = <<>>
  <2>1. 3 + Len(p) \in Nat /\ 3 + Len(p) >= Len(f)
    BY <1>1, <1>4
  <2>2. QED
    BY <1>4, <2>1, RestIsNothing
<1>8. ASSUME NEW w \in Digits PROVE Rest(f \o w, 3 + Len(p)) = w
  <2>1. w \in Seq(Nat)
    BY DEF Digits
  <2>2. QED
    BY <1>4, <2>1, RestBehind
<1>9. QED
  BY <1>1, <1>3, <1>4, <1>5, <1>6, <1>7, <1>8 DEF Digits

(* What a client may do.                                                   *)
LEMMA LoadOf ==
  ASSUME Typed, NEW c \in Connections
  PROVE  /\ load[c].messages \subseteq Seq(Fields) /\ load[c].prefaces \subseteq {<<a, b>> : a, b \in 0 .. 9}
         /\ load[c].frames \subseteq (0 .. 9) \X Seq(0 .. 9)
         /\ \A frame \in load[c].frames : Legal(frame[1], Len(frame[2]))
BY LoadsAssumption DEF Typed

LEMMA SentTyped ==
  ASSUME Typed, NEW c \in Connections, NEW w \in Digits, Sent(c, w)
  PROVE  /\ wire' \in [Connections -> Digits] /\ wire'[c] = wire[c] \o w
         /\ \A d \in Connections : d # c => wire'[d] = wire[d]
<1>1. wire \in [Connections -> Digits] /\ wire[c] \in Seq(Nat) /\ w \in Seq(Nat)
  BY DEF Typed, Digits
<1>2. wire[c] \o w \in Digits
  BY <1>1, BothHave DEF Digits
<1>3. QED
  BY <1>1, <1>2 DEF Sent

LEMMA PrefaceHas ==
  ASSUME NEW preface \in {<<a, b>> : a, b \in 0 .. 9}
  PROVE  preface \in Digits /\ Len(preface) = 2
<1>1. PICK a \in 0 .. 9, b \in 0 .. 9 : preface = <<a, b>>
  OBVIOUS
<1>2. QED
  BY <1>1 DEF Digits

LEMMA FieldsAreDigits ==
  ASSUME NEW m \in Seq(Fields)
  PROVE  m \in Digits /\ Len(m) \in Nat /\ \A i \in 1 .. Len(m) : m[i] \in Fields
<1>1. Fields \subseteq Nat
  BY DigitsAssumption
<1>2. Len(m) \in Nat /\ \A i \in 1 .. Len(m) : m[i] \in Fields
  BY LenProperties, ElementOfSeq
<1>3. \A i \in 1 .. Len(m) : m[i] \in Nat
  BY <1>1, <1>2
<1>4. m \in [1 .. Len(m) -> Nat]
  <2>1. m = [i \in 1 .. Len(m) |-> m[i]]
    BY LenProperties
  <2>2. QED
    BY ONLY <2>1, <1>3
<1>5. m \in Seq(Nat)
  BY ONLY <1>2, <1>4, SeqDef
<1>6. QED
  BY <1>2, <1>5 DEF Digits

(* The payload of a DATA frame that is one message.                        *)
LEMMA PayloadHas ==
  ASSUME NEW m \in Seq(Fields)
  PROVE  LET p == <<0, Len(m)>> \o m IN
         /\ p \in Digits /\ Len(p) = 2 + Len(m) /\ p[1] = 0 /\ p[2] = Len(m)
         /\ \A i \in 1 .. Len(m) : p[2 + i] = m[i]
<1> DEFINE h == <<0, Len(m)>>
           p == h \o m
<1>1. m \in Seq(Nat) /\ Len(m) \in Nat
  BY FieldsAreDigits DEF Digits
<1>2. h \in Seq(Nat) /\ Len(h) = 2 /\ h[1] = 0 /\ h[2] = Len(m)
  BY <1>1
<1> HIDE DEF h
<1>3. /\ p \in Seq(Nat) /\ Len(p) = 2 + Len(m)
      /\ \A i \in 1 .. 2 + Len(m) : p[i] = IF i <= 2 THEN h[i] ELSE m[i - 2]
  <2>1. /\ p \in Seq(Nat) /\ Len(p) = Len(h) + Len(m)
        /\ \A i \in 1 .. Len(h) + Len(m) : p[i] = IF i <= Len(h) THEN h[i] ELSE m[i - Len(h)]
    BY ONLY <1>1, <1>2, BothHave
  <2> HIDE DEF p
  <2>2. QED
    BY ONLY <1>2, <2>1
<1> HIDE DEF p
<1>4. p[1] = 0 /\ p[2] = Len(m)
  BY <1>1, <1>2, <1>3
<1>5. ASSUME NEW i \in 1 .. Len(m) PROVE p[2 + i] = m[i]
  <2>1. 2 + i \in 1 .. 2 + Len(m) /\ ~(2 + i <= 2) /\ (2 + i) - 2 = i
    BY <1>1
  <2>2. QED
    BY <1>3, <2>1
<1>6. QED
  BY <1>3, <1>4, <1>5 DEF h, p, Digits

LEMMA TypedInitial == Init => Typed
<1> SUFFICES ASSUME Init PROVE Typed
  OBVIOUS
<1>1. con \in [Connections -> ConType]
  <2> SUFFICES ASSUME NEW c \in Connections PROVE NewConnection(c) \in ConType
    BY DEF Init
  <2>1. Header(0, 0, 0) \in Triple
    BY DEF Header, Triple, Digits, HeaderSize
  <2>2. <<>> \in Digits /\ <<>> \in Seq(UnitSet)
    BY DEF Digits
  <2>3. QED
    BY <2>1, <2>2 DEF NewConnection, ConType, States
<1>2. \A c \in Connections : Len(con[c].writeBuf) <= Capacity
  <2>1. \A c \in Connections : con[c].writeBuf = <<>>
    BY DEF Init, NewConnection
  <2>2. QED
    BY <2>1, BoundsAssumption
<1>3. /\ <<>> \in Digits /\ <<>> \in Seq(UnitSet) /\ <<>> \in Seq(Paths) /\ <<>> \in Seq(Answer)
      /\ <<>> \in Seq([path : Paths, complete : BOOLEAN]) /\ <<>> \in Seq([id : Nat, message : Seq(Fields)])
  BY DEF Digits
<1>4. QED
  BY <1>1, <1>2, <1>3 DEF Init, Typed

(* Only one connection's stream is extended.                               *)
Extends(c, w) ==
  /\ w \in Digits /\ wire'[c] = wire[c] \o w
  /\ \A d \in Connections : d # c => wire'[d] = wire[d]

Others(c, x, y) == \A d \in Connections : d # c => x[d] = y[d]

LEMMA ConnectDoes ==
  ASSUME Typed, NEW c \in Connections, NEW preface \in load[c].prefaces, Connect(c, preface)
  PROVE  /\ Typed' /\ con[c].state = "none"
         /\ con'[c] = [con[c] EXCEPT !.state = "CONNECTING"] /\ Others(c, con, con')
         /\ preface \in Digits /\ Len(preface) = 2
         /\ wire'[c] = preface \o FrameOf(SETTINGS, 0, <<>>) /\ Others(c, wire, wire')
<1> DEFINE l == [con[c] EXCEPT !.state = "CONNECTING"]
           w == preface \o FrameOf(SETTINGS, 0, <<>>)
<1>1. con[c] \in ConType /\ Len(con[c].writeBuf) <= Capacity
  BY ConOf
<1>2. l \in ConType /\ l.writeBuf = con[c].writeBuf
  BY <1>1 DEF ConType, States
<1>3. con' = [con EXCEPT ![c] = l] /\ wire' = [wire EXCEPT ![c] = w] /\ con[c].state = "none"
  BY DEF Connect
<1>4. preface \in Digits /\ Len(preface) = 2
  <2>1. preface \in {<<a, b>> : a, b \in 0 .. 9}
    BY LoadOf
  <2>2. QED
    BY ONLY <2>1, PrefaceHas
<1>5. w \in Digits
  <2>1. FrameOf(SETTINGS, 0, <<>>) \in Digits
    <3>1. SETTINGS \in Nat /\ <<>> \in Digits
      BY DEF SETTINGS, Digits
    <3>2. QED
      BY <3>1, FrameHas
  <2>2. QED
    BY <1>4, <2>1, BothHave DEF Digits
<1> HIDE DEF w
<1>6. ConsTyped' /\ con'[c] = l /\ \A d \in Connections : d # c => con'[d] = con[d]
  <2> HIDE DEF l
  <2>1. l \in ConType /\ Len(l.writeBuf) <= Capacity /\ con' = [con EXCEPT ![c] = l]
    BY <1>1, <1>2, <1>3
  <2>2. QED
    BY <2>1, Updated
<1>7. wire' \in [Connections -> Digits] /\ wire'[c] = w /\ Others(c, wire, wire')
  BY <1>3, <1>5 DEF Typed, Others
<1>8. Typed'
  <2>1. UNCHANGED <<load, failed, back, table, begun, asked, answers, mishaps>>
    BY DEF Connect, client
  <2>2. QED
    BY <1>6, <1>7, <2>1 DEF Typed, ConsTyped
<1>9. QED
  BY <1>3, <1>4, <1>6, <1>7, <1>8 DEF Others, w

LEMMA BeginDoes ==
  ASSUME Typed, NEW c \in Connections, NEW path \in Paths, Begin(c, path)
  PROVE  /\ Typed' /\ con[c].state # "none"
         /\ \E x \in Nat : Extends(c, FrameOf(HEADERS, Len(begun[c]) + 1, <<x>>))
         /\ begun'[c] = Append(begun[c], [path |-> path, complete |-> FALSE]) /\ Others(c, begun, begun')
<1> DEFINE id == Len(begun[c]) + 1
           b  == [path |-> path, complete |-> FALSE]
<1>1. begun[c] \in Seq([path : Paths, complete : BOOLEAN]) /\ id \in Nat /\ table[c] \in Seq(Paths)
  <2>1. begun[c] \in Seq([path : Paths, complete : BOOLEAN]) /\ table[c] \in Seq(Paths)
    BY DEF Typed
  <2>2. Len(begun[c]) \in Nat
    BY <2>1, LenProperties
  <2>3. QED
    BY <2>1, <2>2
<1>2. HEADERS \in Nat /\ \A x \in Nat : <<x>> \in Digits
  BY DEF HEADERS, Digits
<1>3. /\ con[c].state # "none" /\ begun' = [begun EXCEPT ![c] = Append(begun[c], b)]
      /\ UNCHANGED <<load, failed, con, back, asked, answers, mishaps>>
  BY DEF Begin, MaySend, manager
<1>4. \E x \in Nat : Sent(c, FrameOf(HEADERS, id, <<x>>)) /\ table' \in [Connections -> Seq(Paths)]
  <2>1. CASE Sent(c, FrameOf(HEADERS, id, <<path>>)) /\ table' = [table EXCEPT ![c] = <<path>> \o @]
    <3>1. path \in Nat
      BY DigitsAssumption
    <3>2. <<path>> \in Seq(Paths) /\ <<path>> \o table[c] \in Seq(Paths)
      <4>1. <<path>> \in Seq(Paths)
        OBVIOUS
      <4>2. QED
        BY <1>1, <4>1, BothHave
    <3>3. table' \in [Connections -> Seq(Paths)]
      BY <2>1, <3>2 DEF Typed
    <3>4. QED
      BY <2>1, <3>1, <3>3
  <2>2. CASE \E i \in {i \in DOMAIN table[c] : table[c][i] = path} :
               Sent(c, FrameOf(HEADERS, id, <<PlaceBase + i>>)) /\ UNCHANGED table
    <3>1. PICK i \in DOMAIN table[c] : Sent(c, FrameOf(HEADERS, id, <<PlaceBase + i>>)) /\ UNCHANGED table
      BY <2>2
    <3>2. PlaceBase + i \in Nat
      <4>1. i \in Nat
        BY <1>1, LenProperties
      <4>2. QED
        BY <4>1 DEF PlaceBase
    <3>3. QED
      BY <3>1, <3>2 DEF Typed
  <2>3. QED
    BY <2>1, <2>2 DEF Begin
<1>5. PICK x \in Nat : Sent(c, FrameOf(HEADERS, id, <<x>>)) /\ table' \in [Connections -> Seq(Paths)]
  BY <1>4
<1>6. FrameOf(HEADERS, id, <<x>>) \in Digits
  BY <1>1, <1>2, FrameHas
<1>7. wire' \in [Connections -> Digits] /\ Extends(c, FrameOf(HEADERS, id, <<x>>))
  BY <1>5, <1>6, SentTyped DEF Extends
<1>8. begun' \in [Connections -> Seq([path : Paths, complete : BOOLEAN])] /\ begun'[c] = Append(begun[c], b)
        /\ Others(c, begun, begun')
  <2>1. b \in [path : Paths, complete : BOOLEAN]
    OBVIOUS
  <2> HIDE DEF b
  <2>2. Append(begun[c], b) \in Seq([path : Paths, complete : BOOLEAN])
    BY <1>1, <2>1, AppendProperties
  <2>3. QED
    BY <1>3, <2>2 DEF Typed, Others
<1>9. Typed'
  BY <1>3, <1>5, <1>7, <1>8 DEF Typed
<1>10. QED
  BY <1>3, <1>7, <1>8, <1>9

(* The DATA of a call: one frame, or two.                                  *)
Data(id, m) == FrameOf(DATA, id, <<0, Len(m)>> \o m)

Parts(id, m, k) ==
  FrameOf(DATA, id, Prefix(<<0, Len(m)>> \o m, k)) \o FrameOf(DATA, id, Rest(<<0, Len(m)>> \o m, k))

LEMMA PartsHave ==
  ASSUME NEW m \in Seq(Fields), NEW id \in Nat, NEW k \in PrefixSize .. Len(<<0, Len(m)>> \o m)
  PROVE  LET p == <<0, Len(m)>> \o m IN
         /\ p \in Digits /\ k \in 0 .. Len(p) /\ k \in Nat /\ k >= 2 /\ Prefix(p, k) \in Digits /\ Len(Prefix(p, k)) = k
         /\ Rest(p, k) \in Digits /\ Parts(id, m, k) \in Digits /\ Data(id, m) \in Digits
<1> DEFINE p == <<0, Len(m)>> \o m
<1>1. p \in Digits /\ Len(p) \in Nat /\ DATA \in Nat /\ k \in 2 .. Len(p)
  BY PayloadHas, LenProperties DEF Digits, DATA, PrefixSize
<1> HIDE DEF p
<1>2. k \in 0 .. Len(p) /\ k \in Nat /\ k >= 2 /\ Lesser(k, Len(p)) = k
  BY <1>1 DEF Lesser
<1>3. Prefix(p, k) \in Digits /\ Len(Prefix(p, k)) = k /\ Rest(p, k) \in Digits
  BY <1>1, <1>2, PrefixHas, RestHas DEF Digits
<1>4. FrameOf(DATA, id, Prefix(p, k)) \in Digits /\ FrameOf(DATA, id, Rest(p, k)) \in Digits /\ FrameOf(DATA, id, p) \in Digits
  BY <1>1, <1>3, FrameHas
<1>5. FrameOf(DATA, id, Prefix(p, k)) \o FrameOf(DATA, id, Rest(p, k)) \in Digits
  BY <1>4, BothHave DEF Digits
<1>6. QED
  BY <1>1, <1>2, <1>3, <1>4, <1>5 DEF p, Parts, Data

LEMMA CompleteDoes ==
  ASSUME Typed, NEW c \in Connections, NEW id \in DOMAIN begun[c], NEW m \in load[c].messages, Complete(c, id, m)
  PROVE  /\ Typed' /\ con[c].state # "none" /\ m \in Seq(Fields) /\ id \in 1 .. Len(begun[c])
         /\ \/ Extends(c, Data(id, m))
            \/ \E k \in PrefixSize .. Len(<<0, Len(m)>> \o m) : Extends(c, Parts(id, m, k))
         /\ asked'[c] = Append(asked[c], [id |-> id, message |-> m]) /\ Others(c, asked, asked')
         /\ Len(begun'[c]) = Len(begun[c]) /\ \A i \in 1 .. Len(begun[c]) : begun'[c][i].path = begun[c][i].path
         /\ Others(c, begun, begun')
<1> DEFINE a == [id |-> id, message |-> m]
           B == [path : Paths, complete : BOOLEAN]
           s == begun[c]
           t == [s EXCEPT ![id].complete = TRUE]
<1>1. s \in Seq(B) /\ Len(s) \in Nat /\ id \in 1 .. Len(s) /\ id \in Nat
  <2>1. s \in Seq(B) /\ id \in DOMAIN s
    BY DEF Typed
  <2> HIDE DEF s, B
  <2>2. DOMAIN s = 1 .. Len(s) /\ Len(s) \in Nat
    BY <2>1, LenProperties
  <2>3. QED
    BY <2>1, <2>2
<1>2. m \in Seq(Fields)
  BY LoadOf
<1>3. /\ con[c].state # "none" /\ begun' = [begun EXCEPT ![c] = t] /\ asked' = [asked EXCEPT ![c] = Append(asked[c], a)]
      /\ UNCHANGED <<load, failed, con, back, answers, mishaps, table>>
  BY DEF Complete, MaySend, manager
<1>4. asked' \in [Connections -> Seq([id : Nat, message : Seq(Fields)])] /\ asked'[c] = Append(asked[c], a)
        /\ Others(c, asked, asked')
  <2>1. a \in [id : Nat, message : Seq(Fields)] /\ asked[c] \in Seq([id : Nat, message : Seq(Fields)])
    BY <1>1, <1>2 DEF Typed
  <2> HIDE DEF a
  <2>2. Append(asked[c], a) \in Seq([id : Nat, message : Seq(Fields)])
    BY <2>1, AppendProperties
  <2>3. QED
    BY <1>3, <2>2 DEF Typed, Others
<1>5. t \in Seq(B) /\ Len(t) = Len(s) /\ \A i \in 1 .. Len(s) : t[i].path = s[i].path
  <2>1. s \in [1 .. Len(s) -> B]
    <3> HIDE DEF s, B
    <3>1. DOMAIN s = 1 .. Len(s) /\ \A i \in 1 .. Len(s) : s[i] \in B
      BY <1>1, LenProperties, ElementOfSeq
    <3>2. s = [i \in 1 .. Len(s) |-> s[i]]
      BY <1>1, LenProperties
    <3>3. QED
      BY ONLY <3>1, <3>2
  <2>2. t \in [1 .. Len(s) -> B] /\ \A i \in 1 .. Len(s) : t[i].path = s[i].path
    BY <1>1, <2>1
  <2> HIDE DEF t
  <2>3. t \in Seq(B)
    BY ONLY <1>1, <2>2, SeqDef
  <2>4. Len(t) = Len(s)
    BY <1>1, <2>2, <2>3, LenProperties
  <2>5. QED
    BY <2>2, <2>3, <2>4
<1>6. begun' \in [Connections -> Seq(B)] /\ begun'[c] = t /\ Others(c, begun, begun')
  <2> HIDE DEF t
  <2>1. QED
    BY <1>3, <1>5 DEF Typed, Others
<1>7. \/ Sent(c, Data(id, m))
      \/ \E k \in PrefixSize .. Len(<<0, Len(m)>> \o m) : Sent(c, Parts(id, m, k))
  BY DEF Complete, Data, Parts
<1>8. /\ wire' \in [Connections -> Digits]
      /\ \/ Extends(c, Data(id, m))
         \/ \E k \in PrefixSize .. Len(<<0, Len(m)>> \o m) : Extends(c, Parts(id, m, k))
  <2>1. CASE Sent(c, Data(id, m))
    <3>1. Data(id, m) \in Digits
      <4>1. DATA \in Nat
        BY DEF DATA
      <4>2. QED
        BY <1>1, <1>2, <4>1, PayloadHas, FrameHas DEF Data
    <3>2. QED
      BY <2>1, <3>1, SentTyped DEF Extends
  <2>2. CASE \E k \in PrefixSize .. Len(<<0, Len(m)>> \o m) : Sent(c, Parts(id, m, k))
    <3>1. PICK k \in PrefixSize .. Len(<<0, Len(m)>> \o m) : Sent(c, Parts(id, m, k))
      BY <2>2
    <3>2. Parts(id, m, k) \in Digits
      BY <1>1, <1>2, PartsHave
    <3>3. wire' \in [Connections -> Digits] /\ Extends(c, Parts(id, m, k))
      BY <3>1, <3>2, SentTyped DEF Extends
    <3>4. QED
      BY <3>3
  <2>3. QED
    BY <1>7, <2>1, <2>2
<1>9. Typed'
  BY <1>3, <1>4, <1>6, <1>8 DEF Typed
<1>10. QED
  <2> HIDE DEF t
  <2>1. QED
    BY <1>1, <1>2, <1>3, <1>4, <1>5, <1>6, <1>8, <1>9

LEMMA ControlDoes ==
  ASSUME Typed, NEW c \in Connections, NEW frame \in load[c].frames, Control(c, frame)
  PROVE  /\ Typed' /\ con[c].state # "none" /\ Extends(c, FrameOf(frame[1], 0, frame[2]))
         /\ frame[1] \in Nat /\ frame[2] \in Digits /\ Legal(frame[1], Len(frame[2]))
<1>1. frame \in (0 .. 9) \X Seq(0 .. 9) /\ Legal(frame[1], Len(frame[2]))
  BY LoadOf
<1>2. frame[1] \in Nat /\ frame[2] \in Digits
  <2>1. frame[1] \in 0 .. 9 /\ frame[2] \in Seq(0 .. 9)
    BY <1>1
  <2> DEFINE m == frame[2]
  <2>2. m \in Seq(0 .. 9)
    BY <2>1
  <2> HIDE DEF m
  <2>3. Len(m) \in Nat /\ \A i \in 1 .. Len(m) : m[i] \in Nat
    BY <2>2, LenProperties, ElementOfSeq
  <2>4. m \in [1 .. Len(m) -> Nat]
    <3>1. m = [i \in 1 .. Len(m) |-> m[i]]
      BY <2>2, LenProperties
    <3>2. QED
      BY ONLY <2>3, <3>1
  <2>5. m \in Seq(Nat)
    BY ONLY <2>3, <2>4, SeqDef
  <2>6. QED
    BY <2>1, <2>5 DEF m, Digits
<1>3. FrameOf(frame[1], 0, frame[2]) \in Digits
  BY <1>2, FrameHas
<1>4. /\ con[c].state # "none" /\ Sent(c, FrameOf(frame[1], 0, frame[2]))
      /\ UNCHANGED <<load, failed, con, back, begun, asked, answers, mishaps, table>>
  BY DEF Control, MaySend, manager
<1>5. wire' \in [Connections -> Digits] /\ Extends(c, FrameOf(frame[1], 0, frame[2]))
  BY <1>3, <1>4, SentTyped DEF Extends
<1>6. QED
  BY <1>1, <1>2, <1>4, <1>5 DEF Typed

(* What is read is as it was.                                              *)
SameInput(k, l) ==
  /\ l.fd = k.fd /\ l.state = k.state /\ l.httpBuf = k.httpBuf /\ l.stream = k.stream /\ l.hdr = k.hdr
  /\ l.match = k.match /\ l.last = k.last

LEMMA PublishDoes ==
  ASSUME Typed, NEW c \in Connections, Publish(c)
  PROVE  /\ Typed' /\ \A d \in Connections : SameInput(con[d], con'[d]) /\ con'[d].writeBuf = con[d].writeBuf
         /\ \A d \in Connections :
              \/ con'[d].publish = con[d].publish
              \/ \E f \in OutFrames : con'[d].publish = con[d].publish \o Units(f)
<1> DEFINE f == Out(DATA, 0, "published")
           new(d) == IF d = c THEN [con[d] EXCEPT !.publish = con[d].publish \o Units(f), !.published = con[d].published + 1,
                                                  !.watched = TRUE]
                     ELSE [con[d] EXCEPT !.watched = con[d].watched \/ con[d].state \notin {"none", "CLOSED"}]
<1>1. f \in OutFrames
  BY DEF Out, OutFrames
<1>2. con' = [d \in Connections |-> new(d)]
  BY DEF Publish
<1> HIDE DEF f
<1>3. ASSUME NEW d \in Connections
      PROVE  /\ new(d) \in ConType /\ SameInput(con[d], new(d)) /\ new(d).writeBuf = con[d].writeBuf
             /\ new(d).publish = con[d].publish \/ new(d).publish = con[d].publish \o Units(f)
  <2> DEFINE k == con[d]
             p == con[d].publish \o Units(f)
             b == k.watched \/ k.state \notin {"none", "CLOSED"}
  <2>1. k \in ConType /\ k.publish \in Seq(UnitSet)
    BY ConOf
  <2>2. p \in Seq(UnitSet)
    BY <1>1, <2>1, UnitsHave, BothHave
  <2>3. b \in BOOLEAN
    OBVIOUS
  <2>4. new(d) = IF d = c THEN [k EXCEPT !.publish = p, !.published = k.published + 1, !.watched = TRUE]
                 ELSE [k EXCEPT !.watched = b]
    OBVIOUS
  <2>5. CASE d = c
    <3> DEFINE y == k.published + 1
               l == [k EXCEPT !.publish = p, !.published = y, !.watched = TRUE]
    <3>1. new(d) = l
      BY <2>4, <2>5
    <3> HIDE DEF new, k, p, b
    <3>2. y \in Nat
      BY <2>1 DEF ConType
    <3> HIDE DEF y
    <3>3. l \in ConType /\ SameInput(k, l) /\ l.writeBuf = k.writeBuf /\ l.publish = p
      BY <2>1, <2>2, <3>2 DEF ConType, SameInput
    <3>4. QED
      BY <3>1, <3>3 DEF k, p
  <2>6. CASE d # c
    <3> DEFINE l == [k EXCEPT !.watched = b]
    <3>1. new(d) = l
      BY <2>4, <2>6
    <3> HIDE DEF new, k, p, b
    <3>2. l \in ConType /\ SameInput(k, l) /\ l.writeBuf = k.writeBuf /\ l.publish = k.publish
      BY <2>1, <2>3 DEF ConType, SameInput
    <3>3. QED
      BY <3>1, <3>2 DEF k
  <2>7. QED
    BY <2>5, <2>6
<1> HIDE DEF new
<1>4. \A d \in Connections : con'[d] = new(d)
  BY <1>2
<1>5. ConsTyped'
  <2>1. con' \in [Connections -> ConType]
    BY <1>2, <1>3
  <2>2. \A d \in Connections : Len(con'[d].writeBuf) <= Capacity
    BY <1>3, <1>4, ConOf
  <2>3. QED
    BY <2>1, <2>2 DEF ConsTyped
<1>6. Typed'
  <2>1. UNCHANGED <<load, failed, back, table, begun, asked, answers, mishaps, wire>>
    BY DEF Publish, client, clients
  <2>2. QED
    BY <1>5, <2>1 DEF Typed, ConsTyped
<1>7. QED
  BY <1>1, <1>3, <1>4, <1>6

LEMMA UnregisterDoes ==
  ASSUME Typed, NEW c \in Connections, Unregister(c)
  PROVE  /\ Typed' /\ con[c].state = "closing" /\ con'[c] = [con[c] EXCEPT !.state = "CLOSED"] /\ Others(c, con, con')
<1> DEFINE l == [con[c] EXCEPT !.state = "CLOSED"]
<1>1. con[c] \in ConType /\ Len(con[c].writeBuf) <= Capacity
  BY ConOf
<1>2. l \in ConType /\ l.writeBuf = con[c].writeBuf
  BY <1>1 DEF ConType, States
<1>3. con' = [con EXCEPT ![c] = l] /\ con[c].state = "closing"
  BY DEF Unregister
<1>4. ConsTyped' /\ con'[c] = l /\ \A d \in Connections : d # c => con'[d] = con[d]
  <2> HIDE DEF l
  <2>1. l \in ConType /\ Len(l.writeBuf) <= Capacity /\ con' = [con EXCEPT ![c] = l]
    BY <1>1, <1>2, <1>3
  <2>2. QED
    BY <2>1, Updated
<1>5. UNCHANGED <<load, failed, back, table, begun, asked, answers, mishaps, wire>>
  BY DEF Unregister, client, clients
<1>6. QED
  BY <1>3, <1>4, <1>5 DEF Typed, ConsTyped, Others

LEMMA WriteFailsDoes ==
  ASSUME Typed, NEW c \in Connections, WriteFails(c)
  PROVE  /\ Typed' /\ con'[c] = [con[c] EXCEPT !.state = "closing"] /\ Others(c, con, con')
         /\ con'[c].writeBuf = con[c].writeBuf /\ con'[c].publish = con[c].publish
         /\ mishaps[c] \subseteq mishaps'[c] /\ Others(c, mishaps, mishaps')
         /\ UNCHANGED <<failed, back, begun, asked, answers, wire>>
<1> DEFINE l == [con[c] EXCEPT !.state = "closing"]
<1>1. con[c] \in ConType /\ Len(con[c].writeBuf) <= Capacity
  BY ConOf
<1>2. l \in ConType /\ l.writeBuf = con[c].writeBuf /\ l.publish = con[c].publish
  BY <1>1 DEF ConType, States
<1>3. con' = [con EXCEPT ![c] = l] /\ mishaps' = [mishaps EXCEPT ![c] = mishaps[c] \cup {"refused"}]
  BY DEF WriteFails
<1>4. ConsTyped' /\ con'[c] = l /\ \A d \in Connections : d # c => con'[d] = con[d]
  <2> HIDE DEF l
  <2>1. l \in ConType /\ Len(l.writeBuf) <= Capacity /\ con' = [con EXCEPT ![c] = l]
    BY <1>1, <1>2, <1>3
  <2>2. QED
    BY <2>1, Updated
<1>5. UNCHANGED <<load, failed, back, table, begun, asked, answers, wire>>
  BY DEF WriteFails, client, clients
<1>6. mishaps' \in [Connections -> SUBSET Mishaps] /\ mishaps[c] \subseteq mishaps'[c] /\ Others(c, mishaps, mishaps')
  <2>1. mishaps \in [Connections -> SUBSET Mishaps] /\ "refused" \in Mishaps
    BY DEF Typed, Mishaps
  <2>2. QED
    BY <1>3, <2>1 DEF Others
<1>7. QED
  BY <1>2, <1>4, <1>5, <1>6 DEF Typed, ConsTyped, Others

(* Where Write takes from.                                                 *)
Source(k) == IF k.writeBuf # <<>> THEN k.writeBuf ELSE k.publish

LEMMA WriteDoes ==
  ASSUME Typed, NEW c \in Connections, NEW n, Write(c, n)
  PROVE  LET k == con[c] IN
         /\ Typed' /\ n \in 0 .. Len(Source(k)) /\ SameInput(k, con'[c]) /\ Others(c, con, con')
         /\ con'[c].writeBuf = (IF k.writeBuf # <<>> THEN Rest(k.writeBuf, n) ELSE <<>>)
         /\ con'[c].publish = (IF k.writeBuf # <<>> THEN k.publish ELSE Rest(k.publish, n))
         /\ back'[c] = back[c] \o Prefix(Source(k), n) /\ Others(c, back, back')
         /\ mishaps[c] \subseteq mishaps'[c] /\ Others(c, mishaps, mishaps')
         /\ k.writeBuf # <<>> /\ k.publish # <<>> /\ k.publish[1].part = "payload" => "mixed" \in mishaps'[c]
<1> DEFINE k == con[c]
           s == Source(k)
           w == IF k.writeBuf # <<>> THEN Rest(k.writeBuf, n) ELSE k.writeBuf
           p == IF k.writeBuf # <<>> THEN k.publish ELSE Rest(k.publish, n)
           b == Maintained(Rest(s, n))
           midway == k.writeBuf # <<>> /\ k.publish # <<>> /\ k.publish[1].part = "payload"
           l == [k EXCEPT !.writeBuf = w, !.publish = p, !.watched = b]
<1>1. k \in ConType /\ Len(k.writeBuf) <= Capacity /\ Len(k.writeBuf) \in Nat /\ k.writeBuf \in Seq(UnitSet)
        /\ k.publish \in Seq(UnitSet)
  BY ConOf
<1>2. s \in Seq(UnitSet) /\ Len(s) \in Nat
  BY <1>1, LenProperties DEF Source
<1>3. n \in 0 .. Len(s) /\ n \in Nat
  <2>1. n = Len(s) \/ (n = 1 /\ s # <<>>)
    BY DEF Write, Pieces, Source, FromWriteBuf
  <2>2. s # <<>> => Len(s) > 0
    BY <1>2, EmptySeq
  <2>3. QED
    BY <1>2, <2>1, <2>2
<1>4. /\ con' = [con EXCEPT ![c].writeBuf = IF FromWriteBuf(k) THEN Rest(@, n) ELSE @,
                            ![c].publish  = IF FromWriteBuf(k) THEN @ ELSE Rest(@, n),
                            ![c].watched  = b]
      /\ back' = [back EXCEPT ![c] = back[c] \o Prefix(s, n)]
      /\ mishaps' = [mishaps EXCEPT ![c] = mishaps[c] \cup (IF midway THEN {"mixed"} ELSE {})]
      /\ UNCHANGED <<load, failed, table, begun, asked, answers, wire>>
  BY DEF Write, Source, FromWriteBuf, client, clients
<1>5. con' = [con EXCEPT ![c] = l]
  <2>1. con \in [Connections -> ConType]
    BY DEF Typed
  <2> HIDE DEF b
  <2>2. QED
    BY <1>1, <1>4, <2>1 DEF ConType, FromWriteBuf
<1>6. w \in Seq(UnitSet) /\ Len(w) <= Capacity /\ p \in Seq(UnitSet)
  <2>1. CASE k.writeBuf # <<>>
    <3>1. s = k.writeBuf
      BY <2>1 DEF Source
    <3>2. Rest(k.writeBuf, n) \in Seq(UnitSet) /\ Len(Rest(k.writeBuf, n)) = Len(k.writeBuf) - n
      BY <1>1, <1>3, <3>1, RestHas
    <3>3. w = Rest(k.writeBuf, n) /\ p = k.publish
      BY <2>1
    <3> HIDE DEF w, p
    <3>4. QED
      BY <1>1, <1>3, <3>2, <3>3, BoundsAssumption
  <2>2. CASE k.writeBuf = <<>>
    <3>1. s = k.publish
      BY <2>2 DEF Source
    <3>2. Rest(k.publish, n) \in Seq(UnitSet)
      BY <1>1, <1>3, <3>1, RestHas
    <3>3. w = k.writeBuf /\ p = Rest(k.publish, n)
      BY <2>2
    <3> HIDE DEF w, p
    <3>4. QED
      BY <1>1, <3>2, <3>3
  <2>3. QED
    BY <2>1, <2>2
<1>7. b \in BOOLEAN
  BY DEF Maintained
<1>8. back' \in [Connections -> Seq(UnitSet)] /\ back'[c] = back[c] \o Prefix(s, n) /\ Others(c, back, back')
  <2>1. back[c] \in Seq(UnitSet)
    BY DEF Typed
  <2> HIDE DEF s
  <2>2. back[c] \o Prefix(s, n) \in Seq(UnitSet)
    <3>1. Prefix(s, n) \in Seq(UnitSet)
      BY <1>2, <1>3, PrefixHas
    <3>2. QED
      BY <2>1, <3>1, BothHave
  <2>3. QED
    BY <1>4, <2>2 DEF Typed, Others
<1>9. mishaps' \in [Connections -> SUBSET Mishaps] /\ mishaps[c] \subseteq mishaps'[c] /\ Others(c, mishaps, mishaps')
        /\ (midway => "mixed" \in mishaps'[c])
  <2>1. mishaps \in [Connections -> SUBSET Mishaps] /\ "mixed" \in Mishaps
    BY DEF Typed, Mishaps
  <2> HIDE DEF midway
  <2>2. QED
    BY <1>4, <2>1 DEF Others
<1> HIDE DEF w, p, b, s
<1>10. l \in ConType /\ SameInput(k, l) /\ l.writeBuf = w /\ l.publish = p
  BY <1>1, <1>6, <1>7 DEF ConType, SameInput
<1>11. ConsTyped' /\ con'[c] = l /\ \A d \in Connections : d # c => con'[d] = con[d]
  <2> HIDE DEF l
  <2>1. l \in ConType /\ Len(l.writeBuf) <= Capacity /\ con' = [con EXCEPT ![c] = l]
    BY <1>5, <1>6, <1>10
  <2>2. QED
    BY <2>1, Updated
<1>12. Typed'
  BY <1>4, <1>8, <1>9, <1>11 DEF Typed, ConsTyped
<1>13. QED
  <2>1. con'[c].writeBuf = w /\ con'[c].publish = p /\ SameInput(k, con'[c]) /\ Others(c, con, con')
    BY <1>10, <1>11 DEF Others
  <2>2. w = (IF k.writeBuf # <<>> THEN Rest(k.writeBuf, n) ELSE <<>>)
        /\ p = (IF k.writeBuf # <<>> THEN k.publish ELSE Rest(k.publish, n))
    BY DEF w, p
  <2>3. QED
    BY <1>3, <1>8, <1>9, <1>12, <2>1, <2>2 DEF s

-----------------------------------------------------------------------------
(* Reading.                                                                *)

LEMMA PrefixOfBoth ==
  ASSUME NEW X, NEW u \in Seq(X), NEW v \in Seq(X), NEW n \in 0 .. Len(u)
  PROVE  Prefix(u \o v, n) = Prefix(u, n)
<1> DEFINE w == u \o v
<1>1. /\ w \in Seq(X) /\ Len(w) = Len(u) + Len(v) /\ Len(u) \in Nat /\ Len(v) \in Nat
      /\ \A i \in 1 .. Len(u) + Len(v) : w[i] = IF i <= Len(u) THEN u[i] ELSE v[i - Len(u)]
  BY BothHave
<1> HIDE DEF w
<1>2. n \in Nat /\ Lesser(n, Len(w)) = n /\ Lesser(n, Len(u)) = n
  <2>1. n \in Nat /\ n <= Len(u) /\ n <= Len(w) /\ Len(w) \in Nat
    BY <1>1
  <2>2. QED
    BY ONLY <2>1, <1>1 DEF Lesser
<1>3. Prefix(w, n) \in Seq(X) /\ Len(Prefix(w, n)) = n /\ \A i \in 1 .. n : Prefix(w, n)[i] = w[i]
  <2>1. /\ Prefix(w, n) \in Seq(X) /\ Len(Prefix(w, n)) = Lesser(n, Len(w))
        /\ \A i \in 1 .. Lesser(n, Len(w)) : Prefix(w, n)[i] = w[i]
    BY ONLY <1>1, <1>2, PrefixHas
  <2>2. QED
    BY ONLY <1>2, <2>1
<1>4. Prefix(u, n) \in Seq(X) /\ Len(Prefix(u, n)) = n /\ \A i \in 1 .. n : Prefix(u, n)[i] = u[i]
  <2>1. /\ Prefix(u, n) \in Seq(X) /\ Len(Prefix(u, n)) = Lesser(n, Len(u))
        /\ \A i \in 1 .. Lesser(n, Len(u)) : Prefix(u, n)[i] = u[i]
    BY ONLY <1>2, u \in Seq(X), PrefixHas
  <2>2. QED
    BY ONLY <1>2, <2>1
<1>5. \A i \in 1 .. n : w[i] = u[i]
  BY <1>1
<1>6. Prefix(w, n) = Prefix(u, n)
  BY <1>3, <1>4, <1>5, Same
<1>7. QED
  BY <1>6 DEF w

(* What is on its way to ProcessConnecting, or to ProcessFrames.           *)
Road(k, w) == IF k.state = "CONNECTING" THEN k.httpBuf \o w ELSE Ahead(k) \o w

Reads(k) == k.state \in {"READ_FRAME_HEADER", "READ_FRAME"}

LEMMA ConnectingDoes ==
  ASSUME NEW k \in ConType, k.state = "CONNECTING", NEW w \in Digits
  PROVE  LET l == Connecting(k) IN
         /\ l \in ConType /\ l.fd = k.fd /\ l.match = k.match /\ l.last = k.last
         /\ l.writeBuf = k.writeBuf /\ l.publish = k.publish
         /\ \/ l = k
            \/ l = [k EXCEPT !.state = "closing"]
            \/ /\ l.state = "READ_FRAME_HEADER" /\ Len(Road(k, w)) >= 2 /\ Prefix(Road(k, w), 2) = HTTP2_HDR
               /\ Road(l, w) = Rest(Road(k, w), 2)
<1> DEFINE s == Rest(k.httpBuf, 2)
           l == [k EXCEPT !.state = "READ_FRAME_HEADER", !.stream = s, !.httpBuf = <<>>]
<1>1. k.httpBuf \in Seq(Nat) /\ Len(k.httpBuf) \in Nat /\ w \in Seq(Nat) /\ Len(HTTP2_HDR) = 2
  BY LenProperties DEF ConType, Digits, HTTP2_HDR
<1>2. CASE Len(k.httpBuf) < 2
  <2>1. Connecting(k) = k
    BY <1>1, <1>2 DEF Connecting
  <2>2. QED
    BY <2>1
<1>3. CASE Len(k.httpBuf) >= 2 /\ Prefix(k.httpBuf, 2) # HTTP2_HDR
  <2>1. Connecting(k) = [k EXCEPT !.state = "closing"]
    BY <1>1, <1>3 DEF Connecting
  <2>2. QED
    BY <2>1 DEF ConType, States
<1>4. CASE Len(k.httpBuf) >= 2 /\ Prefix(k.httpBuf, 2) = HTTP2_HDR
  <2>1. Connecting(k) = l
    BY <1>1, <1>4 DEF Connecting
  <2>2. 2 \in 0 .. Len(k.httpBuf)
    BY <1>1, <1>4
  <2>3. /\ s \in Seq(Nat) /\ Prefix(k.httpBuf \o w, 2) = HTTP2_HDR /\ Rest(k.httpBuf \o w, 2) = s \o w
    BY <1>1, <1>4, <2>2, RestHas, PrefixOfBoth, RestOfBoth
  <2>4. Len(k.httpBuf \o w) >= 2
    <3>1. Len(k.httpBuf \o w) = Len(k.httpBuf) + Len(w) /\ Len(w) \in Nat
      BY <1>1, BothHave
    <3>2. QED
      BY <1>1, <1>4, <3>1
  <2>5. Road(k, w) = k.httpBuf \o w
    BY DEF Road
  <2> HIDE DEF s
  <2>6. /\ l \in ConType /\ l.fd = k.fd /\ l.match = k.match /\ l.last = k.last
        /\ l.writeBuf = k.writeBuf /\ l.publish = k.publish /\ l.state = "READ_FRAME_HEADER" /\ l.stream = s
    <3>1. s \in Digits /\ <<>> \in Digits
      BY <2>3 DEF Digits
    <3>2. QED
      BY <3>1 DEF ConType, States
  <2>7. Road(l, w) = s \o w
    BY <2>6 DEF Road, Ahead
  <2>8. QED
    BY <2>1, <2>3, <2>4, <2>5, <2>6, <2>7
<1>5. QED
  BY <1>1, <1>2, <1>3, <1>4

LEMMA ReadDoes ==
  ASSUME Typed, NEW c \in Connections, NEW n \in 1 .. Len(wire[c]), Read(c, n)
  PROVE  LET k == con[c]
             l == con'[c] IN
         /\ Typed' /\ Others(c, con, con') /\ Others(c, wire, wire')
         /\ l.fd = k.fd /\ l.match = k.match /\ l.last = k.last /\ l.writeBuf = k.writeBuf /\ l.publish = k.publish
         /\ k.state = "CONNECTING" \/ Reads(k)
         /\ \/ l.state = k.state /\ Road(l, wire'[c]) = Road(k, wire[c]) /\ (~Reads(k) => l.stream = k.stream)
            \/ k.state = "CONNECTING" /\ l.state = "closing"
            \/ /\ k.state = "CONNECTING" /\ l.state = "READ_FRAME_HEADER"
               /\ Len(Road(k, wire[c])) >= 2 /\ Prefix(Road(k, wire[c]), 2) = HTTP2_HDR
               /\ Road(l, wire'[c]) = Rest(Road(k, wire[c]), 2)
<1> DEFINE k == con[c]
           u == wire[c]
           p == Prefix(u, n)
           r == Rest(u, n)
           h == k.httpBuf \o p
           s == k.stream \o p
           j == [k EXCEPT !.httpBuf = h]
           m == [k EXCEPT !.stream = s]
           l == IF k.state = "CONNECTING" THEN Connecting(j) ELSE m
<1>1. k \in ConType /\ Len(k.writeBuf) <= Capacity /\ u \in Seq(Nat) /\ Len(u) \in Nat
        /\ k.httpBuf \in Seq(Nat) /\ k.stream \in Seq(Nat) /\ k.hdr \in Seq(Nat)
  <2>1. u \in Seq(Nat)
    BY DEF Typed, Digits
  <2>2. QED
    BY <2>1, ConOf, LenProperties DEF Digits
<1>2. n \in 0 .. Len(u) /\ n \in Nat
  BY <1>1
<1>3. p \in Seq(Nat) /\ r \in Seq(Nat)
  BY <1>1, <1>2, PrefixHas, RestHas
<1>4. h \in Seq(Nat) /\ s \in Seq(Nat) /\ h \o r = k.httpBuf \o u /\ s \o r = k.stream \o u
  BY <1>1, <1>2, <1>3, BothHave, Moved
<1>5. /\ con' = [con EXCEPT ![c] = l] /\ wire' = [wire EXCEPT ![c] = r]
      /\ k.state = "CONNECTING" \/ Reads(k)
      /\ UNCHANGED <<load, failed, back, table, begun, asked, answers, mishaps>>
  BY DEF Read, Reads, client
<1>6. wire' \in [Connections -> Digits] /\ wire'[c] = r /\ Others(c, wire, wire')
  <2> HIDE DEF r
  <2>1. QED
    BY <1>3, <1>5 DEF Typed, Others, Digits
<1> HIDE DEF h, s, p, r, u
<1>7. /\ j \in ConType /\ j.fd = k.fd /\ j.match = k.match /\ j.last = k.last /\ j.writeBuf = k.writeBuf
      /\ j.publish = k.publish /\ j.state = k.state /\ j.httpBuf = h /\ j.stream = k.stream
  BY <1>1, <1>4 DEF ConType, Digits
<1>8. /\ m \in ConType /\ m.fd = k.fd /\ m.match = k.match /\ m.last = k.last /\ m.writeBuf = k.writeBuf
      /\ m.publish = k.publish /\ m.state = k.state /\ m.stream = s /\ m.hdr = k.hdr
  BY <1>1, <1>4 DEF ConType, Digits
<1> HIDE DEF j, m
<1>9. /\ l \in ConType /\ l.fd = k.fd /\ l.match = k.match /\ l.last = k.last /\ l.writeBuf = k.writeBuf
      /\ l.publish = k.publish
      /\ \/ l.state = k.state /\ Road(l, r) = Road(k, u) /\ (~Reads(k) => l.stream = k.stream)
         \/ k.state = "CONNECTING" /\ l.state = "closing"
         \/ /\ k.state = "CONNECTING" /\ l.state = "READ_FRAME_HEADER"
            /\ Len(Road(k, u)) >= 2 /\ Prefix(Road(k, u), 2) = HTTP2_HDR
            /\ Road(l, r) = Rest(Road(k, u), 2)
  <2>1. CASE k.state = "CONNECTING"
    <3>1. l = Connecting(j)
      BY <2>1
    <3>2. Road(j, r) = Road(k, u)
      BY <1>4, <1>7, <2>1 DEF Road
    <3>3. r \in Digits /\ j.state = "CONNECTING" /\ j \in ConType
      BY <1>3, <1>7, <2>1 DEF Digits
    <3> HIDE DEF l
    <3>4. /\ l \in ConType /\ l.fd = j.fd /\ l.match = j.match /\ l.last = j.last
          /\ l.writeBuf = j.writeBuf /\ l.publish = j.publish
          /\ \/ l = j
             \/ l = [j EXCEPT !.state = "closing"]
             \/ /\ l.state = "READ_FRAME_HEADER" /\ Len(Road(j, r)) >= 2 /\ Prefix(Road(j, r), 2) = HTTP2_HDR
                /\ Road(l, r) = Rest(Road(j, r), 2)
      BY <3>1, <3>3, ConnectingDoes
    <3>5. l = [j EXCEPT !.state = "closing"] => l.state = "closing"
      BY <3>3 DEF ConType
    <3>6. QED
      BY <1>7, <2>1, <3>2, <3>4, <3>5 DEF Reads
  <2>2. CASE k.state # "CONNECTING"
    <3>1. l = m /\ Reads(k)
      BY <1>5, <2>2
    <3>2. Ahead(m) \o r = Ahead(k) \o u
      <4>1. CASE k.state = "READ_FRAME"
        <5>1. Ahead(m) = k.hdr \o s /\ Ahead(k) = k.hdr \o k.stream
          BY <1>8, <4>1 DEF Ahead
        <5>2. (k.hdr \o s) \o r = k.hdr \o (s \o r) /\ (k.hdr \o k.stream) \o u = k.hdr \o (k.stream \o u)
          <6> DEFINE a == k.hdr
                     b == k.stream
                     X == Nat
          <6>1. a \in Seq(X) /\ b \in Seq(X) /\ s \in Seq(X) /\ r \in Seq(X) /\ u \in Seq(X)
            BY <1>1, <1>3, <1>4
          <6> HIDE DEF a, b, X
          <6>2. (a \o s) \o r = a \o (s \o r)
            BY ONLY <6>1, Joined
          <6>3. (a \o b) \o u = a \o (b \o u)
            <7>1. a \in Seq(X) /\ b \in Seq(X) /\ u \in Seq(X)
              BY <6>1
            <7>2. QED
              BY ONLY <7>1, Joined
          <6>4. QED
            BY <6>2, <6>3 DEF a, b
        <5>3. QED
          BY <1>4, <5>1, <5>2
      <4>2. CASE k.state # "READ_FRAME"
        BY <1>4, <1>8, <4>2 DEF Ahead
      <4>3. QED
        BY <4>1, <4>2
    <3>3. QED
      BY <1>8, <2>2, <3>1, <3>2 DEF Road
  <2>3. QED
    BY <2>1, <2>2
<1> HIDE DEF l
<1>10. ConsTyped' /\ con'[c] = l /\ \A d \in Connections : d # c => con'[d] = con[d]
  <2>1. l \in ConType /\ Len(l.writeBuf) <= Capacity
    BY <1>1, <1>9
  <2>2. QED
    BY <1>5, <2>1, Updated
<1>11. Typed'
  BY <1>5, <1>6, <1>10 DEF Typed, ConsTyped
<1>12. QED
  BY <1>5, <1>6, <1>9, <1>10, <1>11 DEF Others, u

(* A step of ProcessFrames, with a frame and without.                      *)
Handles(c, k, d) ==
  LET l == con'[c] IN
  /\ k \in ConType /\ k.state = "READ_FRAME" /\ FrameComplete(k)
  /\ "renamed" \in mishaps'[c] \/ Ahead(k) = Ahead(con[c])
  /\ k.fd = con[c].fd /\ k.match = con[c].match /\ k.last = con[c].last
  /\ k.writeBuf = con[c].writeBuf /\ k.publish = con[c].publish
  /\ d = OnFrame(k) /\ Done(k, d)
  /\ l.state = "READ_FRAME_HEADER" /\ l.stream = d.con.stream /\ l.match = d.con.match /\ l.last = d.con.last
  /\ l.fd = k.fd /\ l.publish = k.publish
  /\ "torn" \in mishaps'[c] \/ l.writeBuf = k.writeBuf \o d.units
  /\ failed' = ~d.holds /\ answers'[c] = answers[c] \o d.answer
  /\ d.mishaps \subseteq mishaps'[c]

Waits(c) ==
  LET k == con[c]
      l == con'[c] IN
  /\ l.fd = k.fd /\ l.match = k.match /\ l.last = k.last /\ l.writeBuf = k.writeBuf /\ l.publish = k.publish
  /\ "renamed" \in mishaps'[c] \/ l = k \/ (Reads(k) /\ Reads(l) /\ Ahead(l) = Ahead(k))
  /\ failed' = failed /\ answers'[c] = answers[c]

LEMMA ProcessDoes ==
  ASSUME Typed, NEW c \in Connections, Process(c)
  PROVE  /\ Typed' /\ Others(c, con, con') /\ Others(c, answers, answers') /\ Others(c, mishaps, mishaps')
         /\ mishaps[c] \subseteq mishaps'[c] /\ UNCHANGED <<wire, back, begun, asked>>
         /\ Waits(c) \/ (Reads(con[c]) /\ \E k \in ConType : Handles(c, k, OnFrame(k)))
<1> DEFINE k0 == con[c]
           k1 == AfterHeader(k0)
<1>1. k0 \in ConType /\ Len(k0.writeBuf) <= Capacity /\ answers[c] \in Seq(Answer)
  BY ConOf DEF Typed
<1>2. UNCHANGED <<load, wire, back, begun, asked, table>>
  BY DEF Process, clients, client
<1>3. /\ k1 \in ConType /\ k1.fd = k0.fd /\ k1.match = k0.match /\ k1.last = k0.last
      /\ k1.writeBuf = k0.writeBuf /\ k1.publish = k0.publish
      /\ k1 = k0 \/ (Reads(k0) /\ Reads(k1) /\ (Renamed(k0) = {} => Ahead(k1) = Ahead(k0)))
      /\ FrameComplete(k1) => Reads(k0) /\ (Renamed(k0) = {} => Ahead(k1) = Ahead(k0))
  <2>1. CASE Reads(k0)
    <3> HIDE DEF k0
    <3>1. QED
      BY <1>1, <2>1, AfterHeaderDoes DEF Reads
  <2>2. CASE ~Reads(k0)
    <3>1. k1 = k0
      BY <2>2 DEF AfterHeader, HeaderThere, Reads
    <3>2. QED
      BY <1>1, <2>2, <3>1 DEF FrameComplete, Reads
  <2>3. QED
    BY <2>1, <2>2
<1> DEFINE q == Renamed(k0)
<1>0. q \in SUBSET Mishaps /\ (q # {} => "renamed" \in q)
  BY DEF Renamed, Mishaps
<1>4. CASE ~FrameComplete(k1)
  <2>1. /\ con' = [con EXCEPT ![c] = k1] /\ UNCHANGED <<failed, answers>>
        /\ mishaps' = [mishaps EXCEPT ![c] = mishaps[c] \cup q]
    BY <1>4 DEF Process
  <2> HIDE DEF k1, q
  <2>2. ConsTyped' /\ con'[c] = k1 /\ \A d \in Connections : d # c => con'[d] = con[d]
    BY <1>1, <1>3, <2>1, Updated
  <2>3. /\ mishaps' \in [Connections -> SUBSET Mishaps] /\ Others(c, mishaps, mishaps') /\ mishaps[c] \subseteq mishaps'[c]
        /\ q = {} \/ "renamed" \in mishaps'[c]
    BY <1>0, <2>1 DEF Typed, Others
  <2>4. Typed'
    BY <1>2, <2>1, <2>2, <2>3 DEF Typed, ConsTyped
  <2>5. Waits(c)
    <3>1. k1.fd = k0.fd /\ k1.match = k0.match /\ k1.last = k0.last /\ k1.writeBuf = k0.writeBuf /\ k1.publish = k0.publish
      BY <1>3
    <3>2. "renamed" \in mishaps'[c] \/ k1 = k0 \/ (Reads(k0) /\ Reads(k1) /\ Ahead(k1) = Ahead(k0))
      BY <1>3, <2>3 DEF q
    <3>3. QED
      BY <2>1, <2>2, <3>1, <3>2 DEF Waits
  <2>6. QED
    BY <1>2, <2>1, <2>2, <2>3, <2>4, <2>5 DEF Others
<1>5. CASE FrameComplete(k1)
  <2> DEFINE y == k1.frameCount + 1
             k == [k1 EXCEPT !.frameCount = y]
             d == OnFrame(k)
             x == [d.con EXCEPT !.state = "READ_FRAME_HEADER"]
             l == SendUnits(x, d.units)
             t == IF Torn(d.con, d.units) THEN {"torn"} ELSE {}
  <2>1. /\ con' = [con EXCEPT ![c] = l] /\ failed' = ~d.holds
        /\ answers' = [answers EXCEPT ![c] = answers[c] \o d.answer]
        /\ mishaps' = [mishaps EXCEPT ![c] = ((mishaps[c] \cup q) \cup d.mishaps) \cup t]
    BY <1>5 DEF Process, Frame
  <2> HIDE DEF k1, k0, x, d, t, q
  <2>2. y \in Nat
    BY <1>3 DEF ConType
  <2> HIDE DEF y
  <2>3. /\ k \in ConType /\ k.state = k1.state /\ k.fd = k1.fd /\ k.match = k1.match /\ k.last = k1.last
        /\ k.writeBuf = k1.writeBuf /\ k.publish = k1.publish /\ k.stream = k1.stream /\ k.hdr = k1.hdr
    BY <1>3, <2>2 DEF ConType
  <2> HIDE DEF k
  <2>4. FrameComplete(k) /\ k.state = "READ_FRAME" /\ (q = {} => Ahead(k) = Ahead(k0)) /\ Reads(k0)
    BY <1>3, <1>5, <2>3 DEF FrameComplete, Ahead, q
  <2>5. Done(k, d)
    BY <2>3, <2>4, FrameDoes DEF d
  <2>6. d.con \in ConType /\ d.con.writeBuf = k.writeBuf /\ d.con.publish = k.publish /\ d.con.fd = k.fd
          /\ d.units \in Seq(UnitSet) /\ d.answer \in Seq(Answer) /\ d.holds \in BOOLEAN /\ d.mishaps \in SUBSET Mishaps
    BY <2>5 DEF Done, Leaves
  <2>7. /\ x \in ConType /\ x.state = "READ_FRAME_HEADER" /\ x.writeBuf = k.writeBuf /\ x.publish = k.publish
        /\ x.fd = k.fd /\ x.stream = d.con.stream /\ x.match = d.con.match /\ x.last = d.con.last
    <3> DEFINE z == d.con
    <3>1. z \in ConType /\ x = [z EXCEPT !.state = "READ_FRAME_HEADER"]
      BY <2>6 DEF x
    <3> HIDE DEF z
    <3>2. /\ x \in ConType /\ x.state = "READ_FRAME_HEADER" /\ x.writeBuf = z.writeBuf /\ x.publish = z.publish
          /\ x.fd = z.fd /\ x.stream = z.stream /\ x.match = z.match /\ x.last = z.last
      BY <3>1 DEF ConType, States
    <3>3. QED
      BY <2>6, <3>2 DEF z
  <2>8. Len(x.writeBuf) <= Capacity
    BY <1>1, <1>3, <2>3, <2>7 DEF k0
  <2>9. /\ l \in ConType /\ l.fd = x.fd /\ l.state = x.state /\ l.stream = x.stream
        /\ l.match = x.match /\ l.last = x.last /\ l.publish = x.publish
        /\ Len(l.writeBuf) <= Capacity
        /\ ~Torn(x, d.units) => l.writeBuf = x.writeBuf \o d.units
    BY <2>6, <2>7, <2>8, SendUnitsDoes
  <2>10. Torn(x, d.units) <=> Torn(d.con, d.units)
    BY <2>6, <2>7 DEF Torn
  <2> HIDE DEF l
  <2>11. ConsTyped' /\ con'[c] = l /\ \A e \in Connections : e # c => con'[e] = con[e]
    BY <2>1, <2>9, Updated
  <2>12. answers' \in [Connections -> Seq(Answer)] /\ answers'[c] = answers[c] \o d.answer /\ Others(c, answers, answers')
    <3>1. answers[c] \o d.answer \in Seq(Answer)
      BY <1>1, <2>6, BothHave
    <3>2. QED
      BY <2>1, <3>1 DEF Typed, Others
  <2>13. /\ mishaps' \in [Connections -> SUBSET Mishaps] /\ Others(c, mishaps, mishaps') /\ mishaps[c] \subseteq mishaps'[c]
         /\ d.mishaps \subseteq mishaps'[c] /\ (Torn(x, d.units) => "torn" \in mishaps'[c])
         /\ (q # {} => "renamed" \in mishaps'[c])
    <3>1. t \in SUBSET Mishaps /\ (Torn(x, d.units) => "torn" \in t)
      BY <2>10 DEF t, Mishaps
    <3>2. QED
      BY <1>0, <2>1, <2>6, <3>1 DEF Typed, Others
  <2>14. failed' \in BOOLEAN
    BY <2>1, <2>6
  <2>15. Typed'
    BY <1>2, <2>11, <2>12, <2>13, <2>14 DEF Typed, ConsTyped
  <2>16. Handles(c, k, d)
    <3>1. "torn" \in mishaps'[c] \/ l.writeBuf = k.writeBuf \o d.units
      BY <2>7, <2>9, <2>13
    <3>2. d = OnFrame(k)
      BY DEF d
    <3>3. k.fd = k0.fd /\ k.match = k0.match /\ k.last = k0.last /\ k.writeBuf = k0.writeBuf /\ k.publish = k0.publish
      BY <1>3, <2>3
    <3>4. "renamed" \in mishaps'[c] \/ Ahead(k) = Ahead(k0)
      BY <2>4, <2>13
    <3>5. QED
      BY <2>1, <2>3, <2>4, <2>5, <2>7, <2>9, <2>11, <2>12, <2>13, <3>1, <3>2, <3>3, <3>4 DEF Handles, k0
  <2>17. QED
    BY <1>2, <2>3, <2>4, <2>11, <2>12, <2>13, <2>15, <2>16 DEF Others, d, k0
<1>6. QED
  BY <1>4, <1>5

(* What a step does to the types.                                          *)
LEMMA TypedKept ==
  ASSUME Typed, Next
  PROVE  Typed'
<1>1. PICK c \in Connections :
       \/ \E preface \in load[c].prefaces : Connect(c, preface)
       \/ \E path \in Paths : Begin(c, path)
       \/ \E id \in DOMAIN begun[c], m \in load[c].messages : Complete(c, id, m)
       \/ \E frame \in load[c].frames : Control(c, frame)
       \/ Publish(c)
       \/ \E n \in 1 .. Len(wire[c]) : (n = Len(wire[c]) \/ load[c].cut) /\ Read(c, n)
       \/ Process(c)
       \/ WriteSome(c)
       \/ Unregister(c)
  BY DEF Next
<1>2. CASE \E preface \in load[c].prefaces : Connect(c, preface)
  BY <1>2, ConnectDoes
<1>3. CASE \E path \in Paths : Begin(c, path)
  BY <1>3, BeginDoes
<1>4. CASE \E id \in DOMAIN begun[c], m \in load[c].messages : Complete(c, id, m)
  BY <1>4, CompleteDoes
<1>5. CASE \E frame \in load[c].frames : Control(c, frame)
  BY <1>5, ControlDoes
<1>6. CASE Publish(c)
  BY <1>6, PublishDoes
<1>7. CASE \E n \in 1 .. Len(wire[c]) : (n = Len(wire[c]) \/ load[c].cut) /\ Read(c, n)
  BY <1>7, ReadDoes
<1>8. CASE Process(c)
  BY <1>8, ProcessDoes
<1>9. CASE WriteSome(c)
  BY <1>9, WriteDoes, WriteFailsDoes DEF WriteSome
<1>10. CASE Unregister(c)
  BY <1>10, UnregisterDoes
<1>11. QED
  BY <1>1, <1>2, <1>3, <1>4, <1>5, <1>6, <1>7, <1>8, <1>9, <1>10

LEMMA TypedInvariant == Spec => []Typed
<1>1. Init => Typed
  BY TypedInitial
<1>2. Typed /\ [Next]_vars => Typed'
  <2> SUFFICES ASSUME Typed, [Next]_vars PROVE Typed'
    OBVIOUS
  <2>1. CASE Next
    BY <2>1, TypedKept
  <2>2. CASE UNCHANGED vars
    BY <2>2 DEF vars, manager, client, clients, Typed
  <2>3. QED
    BY <2>1, <2>2
<1>3. QED
  BY <1>1, <1>2, PTL DEF Spec

-----------------------------------------------------------------------------
(* Whole frames. What was taken goes on with the next unit of one of the   *)
(* two buffers.                                                            *)

Goes(b, s) == Len(b) > 0 /\ HasPayload(b[Len(b)]) => s # <<>> /\ s[1] = Units(b[Len(b)].frame)[2]

LEMMA GoesOn ==
  ASSUME NEW b \in Seq(UnitSet), NEW s \in Seq(UnitSet), NEW t \in Seq(UnitSet), Goes(b, s)
  PROVE  Goes(b, s \o t)
<1>1. /\ s \o t \in Seq(UnitSet) /\ Len(s \o t) = Len(s) + Len(t) /\ Len(s) \in Nat /\ Len(t) \in Nat
      /\ \A i \in 1 .. Len(s) + Len(t) : (s \o t)[i] = IF i <= Len(s) THEN s[i] ELSE t[i - Len(s)]
  BY BothHave
<1>2. CASE Len(b) > 0 /\ HasPayload(b[Len(b)])
  <2>1. s # <<>> /\ s[1] = Units(b[Len(b)].frame)[2]
    BY <1>2 DEF Goes
  <2>2. Len(s) > 0
    BY <1>1, <2>1, EmptySeq
  <2>3. (s \o t)[1] = s[1] /\ Len(s \o t) > 0
    BY <1>1, <2>2
  <2>4. s \o t # <<>>
    BY <2>3
  <2>5. QED
    BY <2>1, <2>3, <2>4 DEF Goes
<1>3. QED
  BY <1>2 DEF Goes

LEMMA TakenHas ==
  ASSUME NEW b \in Seq(UnitSet), NEW s \in Seq(UnitSet), NEW n \in 0 .. Len(s), Chain(b), Whole(s), Goes(b, s)
  PROVE  Chain(b \o Prefix(s, n)) /\ Whole(Rest(s, n)) /\ Goes(b \o Prefix(s, n), Rest(s, n))
<1> DEFINE p == Prefix(s, n)
           r == Rest(s, n)
           q == b \o p
<1>1. Len(s) \in Nat /\ Len(b) \in Nat /\ n \in Nat /\ n <= Len(s)
  BY LenProperties
<1>2. p \in Seq(UnitSet) /\ Len(p) = n /\ \A i \in 1 .. n : p[i] = s[i]
  <2>1. Lesser(n, Len(s)) = n
    BY <1>1 DEF Lesser
  <2>2. QED
    BY <1>1, <2>1, PrefixHas
<1>3. r \in Seq(UnitSet) /\ Len(r) = Len(s) - n /\ \A i \in 1 .. Len(s) - n : r[i] = s[n + i]
  BY RestHas
<1> HIDE DEF p, r
<1>4. /\ q \in Seq(UnitSet) /\ Len(q) = Len(b) + n
      /\ \A i \in 1 .. Len(b) + n : q[i] = IF i <= Len(b) THEN b[i] ELSE p[i - Len(b)]
  BY <1>2, BothHave
<1>5. Chain(p)
  BY <1>1, <1>2 DEF Chain, Whole
<1>6. Whole(r)
  <2>1. ASSUME NEW i \in 1 .. Len(r), i < Len(r), HasPayload(r[i]) PROVE r[i + 1] = Units(r[i].frame)[2]
    <3>1. r[i] = s[n + i] /\ r[i + 1] = s[(n + i) + 1] /\ n + i \in 1 .. Len(s) /\ n + i < Len(s)
      <4>1. i \in 1 .. Len(s) - n /\ i + 1 \in 1 .. Len(s) - n /\ n + (i + 1) = (n + i) + 1
        BY <1>1, <1>3, <2>1
      <4>2. QED
        BY <1>1, <1>3, <4>1
    <3>2. QED
      BY <2>1, <3>1 DEF Whole, Chain
  <2>2. ASSUME Len(r) > 0 PROVE ~HasPayload(r[Len(r)])
    <3>1. r[Len(r)] = s[Len(s)] /\ Len(s) > 0
      <4>1. Len(s) - n \in 1 .. Len(s) - n /\ n + (Len(s) - n) = Len(s)
        BY <1>1, <1>3, <2>2
      <4>2. QED
        BY <1>1, <1>3, <2>2, <4>1
    <3>2. QED
      BY <3>1 DEF Whole, Closed
  <2>3. QED
    BY <2>1, <2>2 DEF Whole, Chain, Closed
<1>7. Chain(q)
  <2>1. Len(b) > 0 /\ Len(p) > 0 /\ HasPayload(b[Len(b)]) => p[1] = Units(b[Len(b)].frame)[2]
    BY <1>1, <1>2 DEF Goes
  <2>2. QED
    BY <1>2, <1>5, <2>1, ChainsJoin
<1>8. Goes(q, r)
  <2>1. CASE n = 0
    <3>1. p = <<>> /\ r = s
      BY <1>2, <2>1, EmptySeq, RestOfNone DEF r
    <3>2. q = b
      BY <3>1, WithNothing
    <3>3. QED
      BY <3>1, <3>2
  <2>2. CASE n > 0
    <3>1. q[Len(q)] = s[n]
      <4>1. Len(b) + n \in 1 .. Len(b) + n /\ ~(Len(b) + n <= Len(b)) /\ (Len(b) + n) - Len(b) = n /\ n \in 1 .. n
        BY <1>1, <2>2
      <4>2. QED
        BY <1>2, <1>4, <4>1
    <3> HIDE DEF q
    <3>2. CASE HasPayload(s[n])
      <4>1. n < Len(s)
        BY <1>1, <2>2, <3>2 DEF Whole, Closed
      <4>2. s[n + 1] = Units(s[n].frame)[2]
        BY <1>1, <2>2, <3>2, <4>1 DEF Whole, Chain
      <4>3. r[1] = s[n + 1] /\ r # <<>>
        <5>1. 1 \in 1 .. Len(s) - n /\ Len(r) # 0
          BY <1>1, <1>3, <4>1
        <5>2. QED
          BY <1>3, <5>1
      <4>4. QED
        BY <3>1, <4>2, <4>3 DEF Goes
    <3>3. CASE ~HasPayload(s[n])
      BY <3>1, <3>3 DEF Goes
    <3>4. QED
      BY <3>2, <3>3
  <2>3. QED
    BY <1>1, <2>1, <2>2
<1>9. QED
  BY <1>6, <1>7, <1>8 DEF p, r

Follows(c) ==
  mishaps[c] \cap {"torn", "mixed"} = {} =>
    /\ Chain(back[c]) /\ Whole(con[c].writeBuf) /\ Whole(con[c].publish)
    /\ Goes(back[c], con[c].writeBuf) \/ Goes(back[c], con[c].publish)

LEMMA WriteFollows ==
  ASSUME Typed, NEW c \in Connections, NEW n, Write(c, n), Follows(c)
  PROVE  Follows(c)'
<1> DEFINE k == con[c]
           l == con'[c]
           s == Source(k)
<1>1. /\ n \in 0 .. Len(s) /\ back'[c] = back[c] \o Prefix(s, n) /\ mishaps[c] \subseteq mishaps'[c]
      /\ l.writeBuf = (IF k.writeBuf # <<>> THEN Rest(k.writeBuf, n) ELSE <<>>)
      /\ l.publish = (IF k.writeBuf # <<>> THEN k.publish ELSE Rest(k.publish, n))
      /\ k.writeBuf # <<>> /\ k.publish # <<>> /\ k.publish[1].part = "payload" => "mixed" \in mishaps'[c]
  BY WriteDoes
<1>2. k.writeBuf \in Seq(UnitSet) /\ k.publish \in Seq(UnitSet) /\ back[c] \in Seq(UnitSet)
  BY ConOf DEF Typed
<1>3. SUFFICES ASSUME mishaps'[c] \cap {"torn", "mixed"} = {}
               PROVE  /\ Chain(back'[c]) /\ Whole(l.writeBuf) /\ Whole(l.publish)
                      /\ Goes(back'[c], l.writeBuf) \/ Goes(back'[c], l.publish)
  BY DEF Follows
<1>4. /\ Chain(back[c]) /\ Whole(k.writeBuf) /\ Whole(k.publish)
      /\ Goes(back[c], k.writeBuf) \/ Goes(back[c], k.publish)
  BY <1>1, <1>3 DEF Follows
<1> HIDE DEF k, l
<1>5. CASE k.writeBuf # <<>>
  <2>1. s = k.writeBuf /\ l.writeBuf = Rest(s, n) /\ l.publish = k.publish
    BY <1>1, <1>5 DEF Source
  <2> HIDE DEF s
  <2>2. Goes(back[c], s)
    <3>1. CASE Goes(back[c], k.writeBuf)
      BY <2>1, <3>1
    <3>2. CASE ~Goes(back[c], k.writeBuf)
      <4> DEFINE u == back[c][Len(back[c])]
      <4>1. Len(back[c]) > 0 /\ HasPayload(u) /\ k.publish # <<>> /\ k.publish[1] = Units(u.frame)[2]
        BY <1>4, <3>2 DEF Goes
      <4>2. u \in UnitSet
        BY <1>2, <4>1, LenProperties, ElementOfSeq
      <4> HIDE DEF u
      <4>3. u.frame \in OutFrames /\ Len(Units(u.frame)) = 2
        BY <4>1, <4>2 DEF UnitSet, HasPayload
      <4>4. Units(u.frame)[2].part = "payload"
        <5> DEFINE f == u.frame
        <5>1. f \in OutFrames /\ Len(Units(f)) = 2
          BY <4>3
        <5> HIDE DEF f
        <5>2. Units(f)[2] = [frame |-> f, part |-> "payload"]
          <6>1. /\ f.type \in {HEADERS, DATA} => Units(f)[2] = [frame |-> f, part |-> "payload"]
                /\ f.type \notin {HEADERS, DATA} => Len(Units(f)) = 1
            <7>1. f \in OutFrames
              BY <5>1
            <7>2. QED
              BY ONLY <7>1, UnitsHave
          <6> DEFINE x == Len(Units(f))
          <6>2. x = 2 /\ (f.type \notin {HEADERS, DATA} => x = 1)
            BY <5>1, <6>1
          <6> HIDE DEF x
          <6>3. f.type \in {HEADERS, DATA}
            BY ONLY <6>2
          <6>4. QED
            BY ONLY <6>1, <6>3
        <5>3. QED
          BY <5>2 DEF f
      <4>5. QED
        BY <1>1, <1>3, <1>5, <4>1, <4>4
    <3>3. QED
      BY <3>1, <3>2
  <2>3. Chain(back'[c]) /\ Whole(Rest(s, n)) /\ Goes(back'[c], Rest(s, n))
    BY <1>1, <1>2, <1>4, <2>1, <2>2, TakenHas
  <2>4. QED
    BY <1>4, <2>1, <2>3
<1>6. CASE k.writeBuf = <<>>
  <2>1. s = k.publish /\ l.writeBuf = <<>> /\ l.publish = Rest(s, n)
    BY <1>1, <1>6 DEF Source
  <2> HIDE DEF s
  <2>2. Goes(back[c], s)
    BY <1>4, <1>6, <2>1 DEF Goes
  <2>3. Chain(back'[c]) /\ Whole(Rest(s, n)) /\ Goes(back'[c], Rest(s, n))
    BY <1>1, <1>2, <1>4, <2>1, <2>2, TakenHas
  <2>4. QED
    BY <2>1, <2>3, NothingWhole
<1>7. QED
  BY <1>5, <1>6

(* When the buffers only grow, by whole frames.                            *)
LEMMA GrowingFollows ==
  ASSUME Typed, NEW c \in Connections, Follows(c), back'[c] = back[c], mishaps[c] \subseteq mishaps'[c],
         NEW u \in Seq(UnitSet), NEW v \in Seq(UnitSet), Whole(u), Whole(v),
         "torn" \in mishaps'[c] \/ con'[c].writeBuf = con[c].writeBuf \o u,
         con'[c].publish = con[c].publish \o v
  PROVE  Follows(c)'
<1>1. con[c].writeBuf \in Seq(UnitSet) /\ con[c].publish \in Seq(UnitSet) /\ back[c] \in Seq(UnitSet)
  BY ConOf DEF Typed
<1>2. SUFFICES ASSUME mishaps'[c] \cap {"torn", "mixed"} = {}
               PROVE  /\ Chain(back'[c]) /\ Whole(con'[c].writeBuf) /\ Whole(con'[c].publish)
                      /\ Goes(back'[c], con'[c].writeBuf) \/ Goes(back'[c], con'[c].publish)
  BY DEF Follows
<1>3. /\ Chain(back[c]) /\ Whole(con[c].writeBuf) /\ Whole(con[c].publish)
      /\ Goes(back[c], con[c].writeBuf) \/ Goes(back[c], con[c].publish)
  BY <1>2 DEF Follows
<1>4. con'[c].writeBuf = con[c].writeBuf \o u
  BY <1>2
<1>5. Whole(con[c].writeBuf \o u) /\ Whole(con[c].publish \o v)
  BY <1>1, <1>3, WholesJoin
<1>6. Goes(back[c], con[c].writeBuf \o u) \/ Goes(back[c], con[c].publish \o v)
  BY <1>1, <1>3, GoesOn
<1>7. QED
  BY <1>3, <1>4, <1>5, <1>6

LEMMA SameFollows ==
  ASSUME NEW c \in Connections, Follows(c), back'[c] = back[c], mishaps[c] \subseteq mishaps'[c],
         con'[c].writeBuf = con[c].writeBuf, con'[c].publish = con[c].publish
  PROVE  Follows(c)'
BY DEF Follows

LEMMA FollowsKept ==
  ASSUME Typed, Next, \A e \in Connections : Follows(e)
  PROVE  \A e \in Connections : Follows(e)'
<1>0. SUFFICES ASSUME NEW e \in Connections PROVE Follows(e)'
  OBVIOUS
<1>1. PICK c \in Connections :
       \/ \E preface \in load[c].prefaces : Connect(c, preface)
       \/ \E path \in Paths : Begin(c, path)
       \/ \E id \in DOMAIN begun[c], m \in load[c].messages : Complete(c, id, m)
       \/ \E frame \in load[c].frames : Control(c, frame)
       \/ Publish(c)
       \/ \E n \in 1 .. Len(wire[c]) : (n = Len(wire[c]) \/ load[c].cut) /\ Read(c, n)
       \/ Process(c)
       \/ WriteSome(c)
       \/ Unregister(c)
  BY DEF Next
<1>2. CASE \E preface \in load[c].prefaces : Connect(c, preface)
  <2>1. PICK preface \in load[c].prefaces : Connect(c, preface)
    BY <1>2
  <2>2. UNCHANGED <<back, mishaps>>
    BY <2>1 DEF Connect
  <2>3. con'[c] = [con[c] EXCEPT !.state = "CONNECTING"] /\ Others(c, con, con')
    BY <2>1, ConnectDoes
  <2>4. con'[e].writeBuf = con[e].writeBuf /\ con'[e].publish = con[e].publish
    BY <2>3, ConOf DEF Others, ConType
  <2>5. QED
    BY <2>2, <2>4, SameFollows
<1>3. CASE \E path \in Paths : Begin(c, path)
  <2>1. UNCHANGED <<con, back, mishaps>>
    BY <1>3 DEF Begin, manager
  <2>2. QED
    BY <2>1, SameFollows
<1>4. CASE \E id \in DOMAIN begun[c], m \in load[c].messages : Complete(c, id, m)
  <2>1. UNCHANGED <<con, back, mishaps>>
    BY <1>4 DEF Complete, manager
  <2>2. QED
    BY <2>1, SameFollows
<1>5. CASE \E frame \in load[c].frames : Control(c, frame)
  <2>1. UNCHANGED <<con, back, mishaps>>
    BY <1>5 DEF Control, manager
  <2>2. QED
    BY <2>1, SameFollows
<1>6. CASE Publish(c)
  <2>1. UNCHANGED <<back, mishaps>>
    BY <1>6 DEF Publish
  <2>2. /\ con'[e].writeBuf = con[e].writeBuf
        /\ \/ con'[e].publish = con[e].publish
           \/ \E f \in OutFrames : con'[e].publish = con[e].publish \o Units(f)
    BY <1>6, PublishDoes
  <2>3. CASE con'[e].publish = con[e].publish
    BY <2>1, <2>2, <2>3, SameFollows
  <2>4. CASE \E f \in OutFrames : con'[e].publish = con[e].publish \o Units(f)
    <3>1. PICK f \in OutFrames : con'[e].publish = con[e].publish \o Units(f)
      BY <2>4
    <3>2. Units(f) \in Seq(UnitSet) /\ Whole(Units(f))
      BY UnitsWhole
    <3>3. <<>> \in Seq(UnitSet) /\ Whole(<<>>) /\ con[e].writeBuf = con[e].writeBuf \o <<>>
      BY NothingWhole, ConOf, WithNothing
    <3>4. QED
      BY <2>1, <2>2, <3>1, <3>2, <3>3, GrowingFollows
  <2>5. QED
    BY <2>2, <2>3, <2>4
<1>7. CASE \E n \in 1 .. Len(wire[c]) : (n = Len(wire[c]) \/ load[c].cut) /\ Read(c, n)
  <2>1. PICK n \in 1 .. Len(wire[c]) : Read(c, n)
    BY <1>7
  <2>2. UNCHANGED <<back, mishaps>>
    BY <2>1 DEF Read
  <2>3. con'[e].writeBuf = con[e].writeBuf /\ con'[e].publish = con[e].publish
    BY <2>1, ReadDoes DEF Others
  <2>4. QED
    BY <2>2, <2>3, SameFollows
<1>8. CASE Process(c)
  <2>1. /\ Others(c, con, con') /\ Others(c, mishaps, mishaps') /\ mishaps[c] \subseteq mishaps'[c] /\ UNCHANGED back
        /\ Waits(c) \/ \E k \in ConType : Handles(c, k, OnFrame(k))
    BY <1>8, ProcessDoes
  <2>2. CASE e # c
    BY <2>1, <2>2, SameFollows DEF Others
  <2>3. CASE e = c /\ Waits(c)
    BY <2>1, <2>3, SameFollows DEF Waits
  <2>4. CASE e = c /\ \E k \in ConType : Handles(c, k, OnFrame(k))
    <3>1. PICK k \in ConType : Handles(c, k, OnFrame(k))
      BY <2>4
    <3> DEFINE d == OnFrame(k)
    <3>2. /\ "torn" \in mishaps'[c] \/ con'[c].writeBuf = con[c].writeBuf \o d.units
          /\ con'[c].publish = con[c].publish /\ d.units \in Seq(UnitSet) /\ Whole(d.units)
      BY <3>1 DEF Handles, Done
    <3> HIDE DEF d
    <3>3. <<>> \in Seq(UnitSet) /\ Whole(<<>>) /\ con[c].publish = con[c].publish \o <<>>
      BY NothingWhole, ConOf, WithNothing
    <3>4. QED
      BY <2>1, <2>4, <3>2, <3>3, GrowingFollows
  <2>5. QED
    BY <2>1, <2>2, <2>3, <2>4
<1>9. CASE WriteSome(c)
  <2>1. CASE WriteFails(c)
    <3>1. con'[e].writeBuf = con[e].writeBuf /\ con'[e].publish = con[e].publish /\ mishaps[e] \subseteq mishaps'[e]
            /\ back'[e] = back[e]
      BY <2>1, WriteFailsDoes DEF Others
    <3>2. QED
      BY <3>1, SameFollows
  <2>2. CASE \E n : Write(c, n)
    <3>1. PICK n : Write(c, n)
      BY <2>2
    <3>2. Others(c, con, con') /\ Others(c, back, back') /\ Others(c, mishaps, mishaps')
      BY <3>1, WriteDoes
    <3>3. CASE e # c
      BY <3>2, <3>3, SameFollows DEF Others
    <3>4. CASE e = c
      BY <3>1, <3>4, WriteFollows
    <3>5. QED
      BY <3>3, <3>4
  <2>3. QED
    BY <1>9, <2>1, <2>2 DEF WriteSome
<1>10. CASE Unregister(c)
  <2>1. UNCHANGED <<back, mishaps>>
    BY <1>10 DEF Unregister
  <2>2. con'[c] = [con[c] EXCEPT !.state = "CLOSED"] /\ Others(c, con, con')
    BY <1>10, UnregisterDoes
  <2>3. con'[e].writeBuf = con[e].writeBuf /\ con'[e].publish = con[e].publish
    BY <2>2, ConOf DEF Others, ConType
  <2>4. QED
    BY <2>1, <2>3, SameFollows
<1>11. QED
  BY <1>1, <1>2, <1>3, <1>4, <1>5, <1>6, <1>7, <1>8, <1>9, <1>10

(* What a client receives is whole frames, one after the other, whatever   *)
(* is written when and however it is taken in parts, until an answer does  *)
(* not fit or is written inside of something published.                    *)
THEOREM FramesAreWhole == Spec => []FramesWhole
<1> DEFINE Inv == \A e \in Connections : Follows(e)
<1>1. Init => Inv
  <2> SUFFICES ASSUME Init, NEW e \in Connections PROVE Follows(e)
    OBVIOUS
  <2>1. back[e] = <<>> /\ con[e].writeBuf = <<>> /\ con[e].publish = <<>>
    BY DEF Init, NewConnection
  <2>2. QED
    BY <2>1, NothingWhole DEF Follows, Goes, Whole
<1>2. Typed /\ Inv /\ [Next]_vars => Inv'
  <2> SUFFICES ASSUME Typed, Inv, [Next]_vars PROVE Inv'
    OBVIOUS
  <2>1. CASE Next
    BY <2>1, FollowsKept
  <2>2. CASE UNCHANGED vars
    BY <2>2 DEF vars, manager, Follows
  <2>3. QED
    BY <2>1, <2>2
<1>3. Typed /\ Inv => FramesWhole
  <2> SUFFICES ASSUME Typed, Inv, NEW c \in Connections, mishaps[c] \cap {"torn", "mixed"} = {},
                      NEW i \in 1 .. Len(back[c]) - 1, back[c][i].part = "header",
                      Len(Units(back[c][i].frame)) = 2
               PROVE  back[c][i + 1] = Units(back[c][i].frame)[2]
    BY DEF FramesWhole
  <2>1. Chain(back[c]) /\ Len(back[c]) \in Nat
    BY LenProperties DEF Follows, Typed
  <2>2. i \in 1 .. Len(back[c]) /\ i < Len(back[c]) /\ HasPayload(back[c][i])
    BY <2>1 DEF HasPayload
  <2>3. QED
    BY <2>1, <2>2 DEF Chain
<1> HIDE DEF Inv
<1>4. QED
  BY <1>1, <1>2, <1>3, TypedInvariant, PTL DEF Spec

-----------------------------------------------------------------------------
(* What is on its way to ProcessFrames: frames, of which the n-th HEADERS  *)
(* begin the n-th call and the n-th DATA is the n-th message asked for, as *)
(* far as no message is parted. A set of the places a reader comes to says *)
(* so without recursion.                                                   *)

Place == [rest : Digits, headed : Nat, sent : Nat]

At(q, n, h, d) == [rest |-> Rest(q.rest, n), headed |-> h, sent |-> d]

Ended(q, nb, a) == q.rest = <<>> /\ q.headed = nb /\ q.sent = Len(a)

Headed(q, nb, S) ==
  LET s == q.rest IN
  /\ Len(s) >= 4 /\ s[1] = 1 /\ s[2] = HEADERS /\ s[3] = q.headed + 1 /\ q.headed < nb
  /\ At(q, 4, q.headed + 1, q.sent) \in S

Called(q, a, S) ==
  LET s == q.rest IN
  /\ q.sent < Len(a)
  /\ \E n \in Nat :
       /\ Len(s) >= 5 + n
       /\ s[1] = 2 + n /\ s[2] = DATA /\ s[3] = a[q.sent + 1].id /\ s[4] = 0 /\ s[5] = n
       /\ \A i \in 1 .. n : s[5 + i] \in Fields
       /\ At(q, 5 + n, q.headed, q.sent + 1) \in S

Controlled(q, S) ==
  LET s == q.rest IN
  Len(s) >= 3 /\ Len(s) >= 3 + s[1] /\ Legal(s[2], s[1]) /\ At(q, 3 + s[1], q.headed, q.sent) \in S

Parted(q) ==
  LET s == q.rest IN
  Len(s) >= 3 /\ s[2] = DATA /\ (s[1] < PrefixSize \/ (Len(s) >= 5 /\ PrefixSize + s[5] # s[1]))

Stands(q, nb, a, S) == Ended(q, nb, a) \/ Headed(q, nb, S) \/ Called(q, a, S) \/ Controlled(q, S) \/ Parted(q)

Carries(nb, a, s, h, d) ==
  \E S \in SUBSET Place :
    [rest |-> s, headed |-> h, sent |-> d] \in S /\ \A q \in S : Stands(q, nb, a, S)

More(q, w) == [rest |-> q.rest \o w, headed |-> q.headed, sent |-> q.sent]

LEMMA MoreHas ==
  ASSUME NEW q \in Place, NEW w \in Digits
  PROVE  /\ More(q, w) \in Place /\ Len(More(q, w).rest) >= Len(q.rest) /\ Len(q.rest) \in Nat
         /\ More(q, w).headed = q.headed /\ More(q, w).sent = q.sent /\ More(q, w).rest = q.rest \o w
         /\ Len(More(q, w).rest) \in Nat
         /\ \A i \in 1 .. Len(q.rest) : More(q, w).rest[i] = q.rest[i]
         /\ \A n \in 0 .. Len(q.rest) : \A h, d \in Nat :
              At(q, n, h, d) \in Place /\ At(More(q, w), n, h, d) = More(At(q, n, h, d), w)
<1> DEFINE s == q.rest
           t == s \o w
<1>1. s \in Seq(Nat) /\ w \in Seq(Nat) /\ q.headed \in Nat /\ q.sent \in Nat
  BY DEF Place, Digits
<1> HIDE DEF s
<1>2. /\ t \in Seq(Nat) /\ Len(t) = Len(s) + Len(w) /\ Len(s) \in Nat /\ Len(w) \in Nat
      /\ \A i \in 1 .. Len(s) + Len(w) : t[i] = IF i <= Len(s) THEN s[i] ELSE w[i - Len(s)]
  BY ONLY <1>1, BothHave
<1>3. More(q, w) = [rest |-> t, headed |-> q.headed, sent |-> q.sent]
  BY DEF More, s
<1> HIDE DEF t
<1>4. Len(t) >= Len(s) /\ Len(t) \in Nat /\ \A i \in 1 .. Len(s) : t[i] = s[i]
  BY <1>2
<1>5. More(q, w) \in Place /\ More(q, w).rest = t
  BY <1>1, <1>2, <1>3 DEF Place, Digits
<1>6. ASSUME NEW n \in 0 .. Len(s), NEW h \in Nat, NEW d \in Nat
      PROVE  At(q, n, h, d) \in Place /\ At(More(q, w), n, h, d) = More(At(q, n, h, d), w)
  <2> DEFINE r == Rest(s, n)
  <2>1. r \in Seq(Nat) /\ Rest(t, n) = r \o w
    <3>1. r \in Seq(Nat)
      BY <1>1, RestHas
    <3>2. Rest(t, n) = r \o w
      BY <1>1, RestOfBoth DEF t
    <3>3. QED
      BY <3>1, <3>2
  <2>2. At(q, n, h, d) = [rest |-> r, headed |-> h, sent |-> d]
    BY DEF At, s
  <2>3. At(More(q, w), n, h, d) = [rest |-> Rest(t, n), headed |-> h, sent |-> d]
    BY <1>5 DEF At
  <2> HIDE DEF r
  <2>4. At(q, n, h, d) \in Place
    BY <2>1, <2>2 DEF Place, Digits
  <2>5. More(At(q, n, h, d), w) = [rest |-> r \o w, headed |-> h, sent |-> d]
    BY <2>2 DEF More
  <2>6. QED
    BY <2>1, <2>3, <2>4, <2>5
<1>7. QED
  <2>1. More(q, w).headed = q.headed /\ More(q, w).sent = q.sent
    BY <1>3
  <2>2. t = q.rest \o w /\ s = q.rest
    BY DEF s, t
  <2>3. QED
    BY <1>2, <1>4, <1>5, <1>6, <2>1, <2>2

LEMMA MoreAt ==
  ASSUME NEW q \in Place, NEW w \in Digits, NEW n \in 0 .. Len(q.rest), NEW h \in Nat, NEW d \in Nat
  PROVE  At(More(q, w), n, h, d) = More(At(q, n, h, d), w)
<1>1. \A m \in 0 .. Len(q.rest) : \A x, y \in Nat :
        At(q, m, x, y) \in Place /\ At(More(q, w), m, x, y) = More(At(q, m, x, y), w)
  BY MoreHas
<1>2. QED
  BY ONLY <1>1, n \in 0 .. Len(q.rest), h \in Nat, d \in Nat

(* More frames behind what stands.                                         *)
LEMMA StandsOn ==
  ASSUME NEW q \in Place, NEW w \in Digits, NEW nb \in Nat, NEW nb2 \in Nat, nb <= nb2,
         NEW A, NEW a \in Seq(A), NEW b \in Seq(A), Len(a) <= Len(b),
         \A i \in 1 .. Len(a) : b[i].id = a[i].id,
         NEW S \in SUBSET Place, NEW T \in SUBSET Place, NEW V, T \subseteq V, \A x \in S : More(x, w) \in V,
         [rest |-> w, headed |-> nb, sent |-> Len(a)] \in T,
         \A x \in T : Stands(x, nb2, b, T), Stands(q, nb, a, S)
  PROVE  Stands(More(q, w), nb2, b, V)
<1> DEFINE p == More(q, w)
           s == q.rest
           t == p.rest
<1>1. /\ p \in Place /\ Len(t) >= Len(s) /\ Len(s) \in Nat /\ Len(t) \in Nat /\ p.headed = q.headed /\ p.sent = q.sent
      /\ t = s \o w /\ \A i \in 1 .. Len(s) : t[i] = s[i]
  <2>1. p \in Place /\ Len(t) >= Len(s) /\ Len(s) \in Nat /\ Len(t) \in Nat /\ p.headed = q.headed /\ p.sent = q.sent
    BY MoreHas
  <2>2. t = s \o w /\ \A i \in 1 .. Len(s) : t[i] = s[i]
    BY MoreHas
  <2>3. QED
    BY <2>1, <2>2
<1>10. ASSUME NEW n \in 0 .. Len(s), NEW h \in Nat, NEW d \in Nat, At(q, n, h, d) \in S
       PROVE  At(p, n, h, d) \in V
  <2>1. At(p, n, h, d) = More(At(q, n, h, d), w)
    BY MoreAt
  <2> HIDE DEF p
  <2>2. QED
    BY <1>10, <2>1
<1>2. q.headed \in Nat /\ q.sent \in Nat /\ Len(a) \in Nat /\ Len(b) \in Nat /\ w \in Seq(Nat) /\ s \in Seq(Nat)
  BY LenProperties DEF Place, Digits
<1> DEFINE x == q.headed
           y == q.sent
<1> HIDE DEF p, s, t, x, y
<1>11. x \in Nat /\ y \in Nat /\ p.headed = x /\ p.sent = y
  BY <1>1, <1>2 DEF x, y
<1>3. \A i \in 1 .. Len(s) : s[i] \in Nat
  BY <1>2, LenProperties, ElementOfSeq
<1>4. CASE Ended(q, nb, a)
  <2>1. t = w /\ p.headed = nb /\ p.sent = Len(a)
    BY <1>1, <1>2, <1>4, <1>11, WithNothing DEF Ended, s, x, y
  <2>2. p = [rest |-> w, headed |-> nb, sent |-> Len(a)]
    BY <1>1, <2>1 DEF Place, t
  <2>3. Stands(p, nb2, b, T)
    BY <2>2
  <2>4. QED
    BY <2>3 DEF Stands, Headed, Called, Controlled, p
<1>5. CASE Headed(q, nb, S)
  <2>1. /\ Len(s) >= 4 /\ s[1] = 1 /\ s[2] = HEADERS /\ s[3] = x + 1 /\ x < nb
        /\ At(q, 4, x + 1, y) \in S
    BY <1>5 DEF Headed, s, x, y
  <2>2. At(p, 4, x + 1, y) \in V
    <3>1. 4 \in 0 .. Len(s) /\ x + 1 \in Nat
      BY <1>1, <1>11, <2>1
    <3>2. QED
      BY <1>10, <1>11, <2>1, <3>1
  <2>3. Len(t) >= 4 /\ t[1] = 1 /\ t[2] = HEADERS /\ t[3] = x + 1 /\ x < nb2
    BY <1>1, <1>11, <2>1
  <2>4. Headed(p, nb2, V)
    BY <1>1, <1>11, <2>2, <2>3 DEF Headed, t
  <2>5. QED
    BY <2>4 DEF Stands, p
<1>6. CASE Called(q, a, S)
  <2>1. PICK n \in Nat :
       /\ Len(s) >= 5 + n
       /\ s[1] = 2 + n /\ s[2] = DATA /\ s[3] = a[y + 1].id /\ s[4] = 0 /\ s[5] = n
       /\ \A i \in 1 .. n : s[5 + i] \in Fields
       /\ At(q, 5 + n, x, y + 1) \in S
    BY <1>6 DEF Called, s, x, y
  <2>2. y < Len(a)
    BY <1>6 DEF Called, s, x, y
  <2>3. At(p, 5 + n, x, y + 1) \in V
    <3>1. 5 + n \in 0 .. Len(s) /\ y + 1 \in Nat
      <4>1. Len(s) >= 5 + n /\ n \in Nat /\ Len(s) \in Nat /\ y \in Nat
        BY <1>1, <1>11, <2>1
      <4>2. QED
        BY ONLY <4>1
    <3>2. QED
      BY <1>10, <1>11, <2>1, <3>1
  <2>4. Len(t) >= 5 + n /\ t[1] = 2 + n /\ t[2] = DATA /\ t[4] = 0 /\ t[5] = n /\ t[3] = s[3]
    BY <1>1, <2>1
  <2>5. \A i \in 1 .. n : t[5 + i] \in Fields
    <3>1. \A i \in 1 .. n : 5 + i \in 1 .. Len(s)
      BY <1>1, <2>1
    <3>2. QED
      BY <1>1, <2>1, <3>1
  <2>6. t[3] = b[y + 1].id /\ y < Len(b)
    <3>1. y + 1 \in 1 .. Len(a)
      BY <1>2, <1>11, <2>2
    <3>2. b[y + 1].id = a[y + 1].id
      BY <3>1
    <3>3. QED
      BY <1>2, <1>11, <2>1, <2>2, <2>4, <3>2
  <2>7. Called(p, b, V)
    BY <1>1, <1>11, <2>3, <2>4, <2>5, <2>6 DEF Called, t
  <2>8. QED
    BY <2>7 DEF Stands, p
<1>7. CASE Controlled(q, S)
  <2>1. Len(s) >= 3 /\ Len(s) >= 3 + s[1] /\ Legal(s[2], s[1]) /\ At(q, 3 + s[1], x, y) \in S
    BY <1>7 DEF Controlled, s, x, y
  <2>2. s[1] \in Nat /\ t[1] = s[1] /\ t[2] = s[2]
    BY <1>1, <1>3, <2>1
  <2> DEFINE n == s[1]
  <2> HIDE DEF n
  <2>3. At(p, 3 + n, x, y) \in V
    <3>1. 3 + n \in 0 .. Len(s)
      BY <1>1, <2>1, <2>2 DEF n
    <3>2. At(q, 3 + n, x, y) \in S
      BY <2>1 DEF n
    <3>3. QED
      BY <1>10, <1>11, <3>1, <3>2
  <2>4. Len(t) >= 3 /\ Len(t) >= 3 + n /\ t[1] = n /\ Legal(t[2], n)
    <3>1. Len(t) >= 3 /\ Len(t) >= 3 + n
      BY <1>1, <2>1, <2>2 DEF n
    <3>2. QED
      BY <2>1, <2>2, <3>1 DEF n
  <2>5. Controlled(p, V)
    BY <1>1, <1>11, <2>3, <2>4 DEF Controlled, t
  <2>6. QED
    BY <2>5 DEF Stands, p
<1>8. CASE Parted(q)
  <2>1. Len(s) >= 3 /\ s[2] = DATA /\ (s[1] < PrefixSize \/ (Len(s) >= 5 /\ PrefixSize + s[5] # s[1]))
    BY <1>8 DEF Parted, s
  <2>2. t[1] = s[1] /\ t[2] = s[2] /\ (Len(s) >= 5 => t[5] = s[5])
    BY <1>1, <2>1
  <2>3. Parted(p)
    BY <1>1, <2>1, <2>2 DEF Parted, t
  <2>4. QED
    BY <2>3 DEF Stands, p
<1>9. QED
  BY <1>4, <1>5, <1>6, <1>7, <1>8 DEF Stands

LEMMA CarriesOn ==
  ASSUME NEW nb \in Nat, NEW nb2 \in Nat, nb <= nb2, NEW h \in Nat, NEW d \in Nat,
         NEW A, NEW a \in Seq(A), NEW b \in Seq(A), Len(a) <= Len(b), \A i \in 1 .. Len(a) : b[i].id = a[i].id,
         NEW s \in Digits, NEW w \in Digits,
         Carries(nb, a, s, h, d), Carries(nb2, b, w, nb, Len(a))
  PROVE  Carries(nb2, b, s \o w, h, d)
<1>1. PICK S \in SUBSET Place :
        [rest |-> s, headed |-> h, sent |-> d] \in S /\ \A q \in S : Stands(q, nb, a, S)
  BY DEF Carries
<1>2. PICK T \in SUBSET Place :
        [rest |-> w, headed |-> nb, sent |-> Len(a)] \in T /\ \A q \in T : Stands(q, nb2, b, T)
  BY DEF Carries
<1> DEFINE M == {More(q, w) : q \in S}
           V == M \cup T
<1>3. T \subseteq V /\ \A q \in S : More(q, w) \in V
  OBVIOUS
<1>4. V \in SUBSET Place
  BY MoreHas
<1>5. [rest |-> s \o w, headed |-> h, sent |-> d] \in V
  <2> DEFINE q == [rest |-> s, headed |-> h, sent |-> d]
  <2>1. More(q, w) = [rest |-> s \o w, headed |-> h, sent |-> d]
    BY DEF More
  <2>2. QED
    BY <1>1, <1>3, <2>1
<1>6. ASSUME NEW p \in V PROVE Stands(p, nb2, b, V)
  <2>1. CASE p \in T
    <3>1. Stands(p, nb2, b, T)
      BY <1>2, <2>1
    <3> HIDE DEF V
    <3>2. QED
      BY <1>3, <3>1 DEF Stands, Headed, Called, Controlled
  <2>2. CASE p \in M
    <3>1. PICK q \in S : p = More(q, w)
      BY <2>2
    <3>2. q \in Place /\ Stands(q, nb, a, S)
      BY <1>1
    <3> HIDE DEF V
    <3>3. Stands(More(q, w), nb2, b, V)
      BY <1>1, <1>2, <1>3, <3>2, StandsOn
    <3>4. QED
      BY <3>1, <3>3
  <2>3. QED
    BY <2>1, <2>2
<1> HIDE DEF V
<1>7. QED
  BY <1>4, <1>5, <1>6 DEF Carries

(* What a client sends, behind everything it sent before.                  *)
FrameFacts(f, type, id, p) ==
  /\ f \in Digits /\ Len(f) = 3 + Len(p) /\ Len(p) \in Nat
  /\ f[1] = Len(p) /\ f[2] = type /\ f[3] = id /\ (\A i \in 1 .. Len(p) : f[3 + i] = p[i])
  /\ Rest(f, 3 + Len(p)) = <<>> /\ \A w \in Digits : Rest(f \o w, 3 + Len(p)) = w

LEMMA FrameHasAll ==
  \A type, id, p : type \in Nat /\ id \in Nat /\ p \in Digits => FrameFacts(FrameOf(type, id, p), type, id, p)
<1>1. ASSUME NEW type \in Nat, NEW id \in Nat, NEW p \in Digits
      PROVE  FrameFacts(FrameOf(type, id, p), type, id, p)
  <2> DEFINE f == FrameOf(type, id, p)
  <2>1. f \in Digits /\ Len(f) = 3 + Len(p) /\ Len(p) \in Nat /\ f[1] = Len(p) /\ f[2] = type /\ f[3] = id
    BY FrameHas
  <2>2. (\A i \in 1 .. Len(p) : f[3 + i] = p[i]) /\ Rest(f, 3 + Len(p)) = <<>>
    BY FrameHas
  <2>3. \A w \in Digits : Rest(f \o w, 3 + Len(p)) = w
    BY FrameHas
  <2> HIDE DEF f
  <2>4. FrameFacts(f, type, id, p)
    BY <2>1, <2>2, <2>3 DEF FrameFacts
  <2>5. QED
    BY <2>4 DEF f
<1>2. QED
  BY <1>1

LEMMA EndStands ==
  ASSUME NEW nb \in Nat, NEW A, NEW a \in Seq(A), NEW S
  PROVE  LET e == [rest |-> <<>>, headed |-> nb, sent |-> Len(a)] IN
         e \in Place /\ Stands(e, nb, a, S) /\ Len(a) \in Nat
<1>1. Len(a) \in Nat /\ <<>> \in Digits
  BY LenProperties DEF Digits
<1>2. QED
  BY <1>1 DEF Place, Stands, Ended

LEMMA HeadersCarried ==
  ASSUME NEW nb \in Nat, NEW A, NEW a \in Seq(A), NEW x \in Nat
  PROVE  Carries(nb + 1, a, FrameOf(HEADERS, nb + 1, <<x>>), nb, Len(a))
<1> DEFINE f == FrameOf(HEADERS, nb + 1, <<x>>)
           q == [rest |-> f, headed |-> nb, sent |-> Len(a)]
           e == [rest |-> <<>>, headed |-> nb + 1, sent |-> Len(a)]
           S == {q, e}
<1>1. f \in Digits /\ Len(f) = 4 /\ f[1] = 1 /\ f[2] = HEADERS /\ f[3] = nb + 1 /\ Rest(f, 4) = <<>>
  <2> DEFINE p == <<x>>
             y == nb + 1
             z == HEADERS
  <2>1. p \in Digits /\ Len(p) = 1 /\ z \in Nat /\ y \in Nat
    BY DEF Digits, HEADERS
  <2> HIDE DEF p, y, z
  <2>2. /\ FrameOf(z, y, p) \in Digits /\ Len(FrameOf(z, y, p)) = 3 + Len(p) /\ Len(p) \in Nat
        /\ FrameOf(z, y, p)[1] = Len(p) /\ FrameOf(z, y, p)[2] = z /\ FrameOf(z, y, p)[3] = y
        /\ Rest(FrameOf(z, y, p), 3 + Len(p)) = <<>>
    <3>1. FrameFacts(FrameOf(z, y, p), z, y, p)
      BY ONLY <2>1, FrameHasAll
    <3>2. QED
      BY <3>1 DEF FrameFacts
  <2>3. f = FrameOf(z, y, p) /\ 3 + Len(p) = 4
    BY <2>1 DEF p, y, z
  <2> HIDE DEF f
  <2>4. f \in Digits /\ Len(f) = 4 /\ f[1] = 1 /\ f[2] = z /\ f[3] = y /\ Rest(f, 4) = <<>>
    BY <2>1, <2>2, <2>3
  <2>5. QED
    BY <2>4 DEF y, z
<1>2. nb + 1 \in Nat
  OBVIOUS
<1>3. e \in Place /\ Stands(e, nb + 1, a, S) /\ Len(a) \in Nat
  BY <1>2, EndStands
<1> HIDE DEF f
<1>4. q \in Place /\ q.rest = f /\ q.headed = nb /\ q.sent = Len(a)
  BY <1>1, <1>3 DEF Place
<1>5. At(q, 4, nb + 1, Len(a)) = e
  BY <1>1, <1>4 DEF At
<1> HIDE DEF q, e
<1>6. Headed(q, nb + 1, S)
  <2>1. Len(f) >= 4 /\ nb < nb + 1
    BY <1>1
  <2>2. At(q, 4, q.headed + 1, q.sent) \in S
    BY <1>4, <1>5
  <2>3. QED
    BY <1>1, <1>4, <2>1, <2>2 DEF Headed
<1>7. \A p \in S : p \in Place /\ Stands(p, nb + 1, a, S)
  BY <1>3, <1>4, <1>6 DEF Stands
<1>8. S \in SUBSET Place /\ [rest |-> f, headed |-> nb, sent |-> Len(a)] \in S
  BY <1>7 DEF q
<1> HIDE DEF S
<1>9. QED
  BY <1>7, <1>8 DEF Carries, f

LEMMA ControlCarried ==
  ASSUME NEW nb \in Nat, NEW A, NEW a \in Seq(A), NEW type \in Nat, NEW p \in Digits, Legal(type, Len(p))
  PROVE  Carries(nb, a, FrameOf(type, 0, p), nb, Len(a))
<1> DEFINE f == FrameOf(type, 0, p)
           q == [rest |-> f, headed |-> nb, sent |-> Len(a)]
           e == [rest |-> <<>>, headed |-> nb, sent |-> Len(a)]
           S == {q, e}
<1>1. /\ f \in Digits /\ Len(f) = 3 + Len(p) /\ f[1] = Len(p) /\ f[2] = type /\ Len(p) \in Nat
      /\ Rest(f, 3 + Len(p)) = <<>>
  BY FrameHas
<1>2. e \in Place /\ Stands(e, nb, a, S) /\ Len(a) \in Nat
  BY EndStands
<1> HIDE DEF f
<1>3. q \in Place /\ q.rest = f /\ q.headed = nb /\ q.sent = Len(a)
  BY <1>1, <1>2 DEF Place
<1>4. At(q, 3 + Len(p), nb, Len(a)) = e
  BY <1>1, <1>3 DEF At
<1> HIDE DEF q, e
<1>5. Controlled(q, S)
  <2>1. Len(f) >= 3 /\ Len(f) >= 3 + Len(p)
    BY <1>1
  <2>2. QED
    BY <1>1, <1>3, <1>4, <2>1 DEF Controlled
<1>6. \A x \in S : x \in Place /\ Stands(x, nb, a, S)
  BY <1>2, <1>3, <1>5 DEF Stands
<1>7. S \in SUBSET Place /\ [rest |-> f, headed |-> nb, sent |-> Len(a)] \in S
  BY <1>6 DEF q
<1> HIDE DEF S
<1>8. QED
  BY <1>6, <1>7 DEF Carries, f

LEMMA AppendHas ==
  ASSUME NEW A, NEW a \in Seq(A), NEW z \in A
  PROVE  /\ Append(a, z) \in Seq(A) /\ Len(Append(a, z)) = Len(a) + 1 /\ Len(a) \in Nat
         /\ Append(a, z)[Len(a) + 1] = z /\ \A i \in 1 .. Len(a) : Append(a, z)[i] = a[i]
BY AppendProperties, LenProperties

(* One frame with all of a message, and anything behind that stands.       *)
LEMMA CallStands ==
  ASSUME NEW nb \in Nat, NEW A, NEW a \in Seq(A), NEW z \in A, NEW m \in Seq(Fields), NEW w \in Digits, NEW S,
         z.id \in Nat, [rest |-> w, headed |-> nb, sent |-> Len(a) + 1] \in S
  PROVE  LET q == [rest |-> Data(z.id, m) \o w, headed |-> nb, sent |-> Len(a)] IN
         q \in Place /\ Called(q, Append(a, z), S)
<1> DEFINE id == z.id
           p == <<0, Len(m)>> \o m
           n == Len(m)
           f == Data(id, m)
           s == f \o w
           q == [rest |-> s, headed |-> nb, sent |-> Len(a)]
           b == Append(a, z)
<1>1. p \in Digits /\ Len(p) = 2 + n /\ p[1] = 0 /\ p[2] = n /\ (\A i \in 1 .. n : p[2 + i] = m[i])
        /\ n \in Nat /\ (\A i \in 1 .. n : m[i] \in Fields) /\ DATA \in Nat /\ id \in Nat
  <2>1. p \in Digits /\ Len(p) = 2 + n /\ p[1] = 0 /\ p[2] = n /\ \A i \in 1 .. n : p[2 + i] = m[i]
    BY PayloadHas
  <2>2. n \in Nat /\ \A i \in 1 .. n : m[i] \in Fields
    BY FieldsAreDigits
  <2>3. QED
    BY <2>1, <2>2 DEF DATA
<1>2. f = FrameOf(DATA, id, p)
  BY DEF Data
<1> HIDE DEF p, n, f, id, b
<1>3. /\ f \in Digits /\ Len(f) = 3 + Len(p) /\ f[1] = Len(p) /\ f[2] = DATA /\ f[3] = id
      /\ (\A i \in 1 .. Len(p) : f[3 + i] = p[i]) /\ Rest(s, 3 + Len(p)) = w
  <2> DEFINE y == DATA
  <2>1. y \in Nat /\ f = FrameOf(y, id, p)
    BY <1>1, <1>2
  <2> HIDE DEF y
  <2>2. f \in Digits /\ Len(f) = 3 + Len(p) /\ f[1] = Len(p) /\ f[2] = y /\ f[3] = id
    <3>1. y \in Nat /\ id \in Nat /\ p \in Digits /\ w \in Digits
      BY <1>1, <2>1
    <3>2. QED
      <4>1. FrameFacts(f, y, id, p) /\ w \in Digits
        BY ONLY <2>1, <3>1, FrameHasAll
      <4>2. QED
        BY ONLY <4>1 DEF FrameFacts
  <2>3. \A i \in 1 .. Len(p) : f[3 + i] = p[i]
    <3>1. y \in Nat /\ id \in Nat /\ p \in Digits /\ w \in Digits
      BY <1>1, <2>1
    <3>2. QED
      <4>1. FrameFacts(f, y, id, p) /\ w \in Digits
        BY ONLY <2>1, <3>1, FrameHasAll
      <4>2. QED
        BY ONLY <4>1 DEF FrameFacts
  <2>4. Rest(f \o w, 3 + Len(p)) = w
    <3>1. y \in Nat /\ id \in Nat /\ p \in Digits /\ w \in Digits
      BY <1>1, <2>1
    <3>2. QED
      <4>1. FrameFacts(f, y, id, p) /\ w \in Digits
        BY ONLY <2>1, <3>1, FrameHasAll
      <4>2. QED
        BY ONLY <4>1 DEF FrameFacts
  <2>5. QED
    BY <2>2, <2>3, <2>4 DEF y
<1>4. s \in Digits /\ Len(s) = Len(f) + Len(w) /\ Len(w) \in Nat /\ Len(f) \in Nat /\ \A i \in 1 .. Len(f) : s[i] = f[i]
  <2>1. f \in Seq(Nat) /\ w \in Seq(Nat)
    BY <1>3 DEF Digits
  <2>2. /\ s \in Seq(Nat) /\ Len(s) = Len(f) + Len(w) /\ Len(f) \in Nat /\ Len(w) \in Nat
        /\ \A i \in 1 .. Len(f) + Len(w) : s[i] = IF i <= Len(f) THEN f[i] ELSE w[i - Len(f)]
    BY ONLY <2>1, BothHave
  <2> HIDE DEF s
  <2>3. QED
    BY <2>2 DEF Digits
<1> HIDE DEF s
<1>5. Len(s) >= 5 + n /\ s[1] = 2 + n /\ s[2] = DATA /\ s[3] = id /\ s[4] = 0 /\ s[5] = n
  <2>1. s[1] = f[1] /\ s[2] = f[2] /\ s[3] = f[3] /\ s[4] = f[4] /\ s[5] = f[5]
    BY <1>1, <1>3, <1>4
  <2>2. f[4] = p[1] /\ f[5] = p[2]
    <3>1. 1 \in 1 .. Len(p) /\ 2 \in 1 .. Len(p) /\ 3 + 1 = 4 /\ 3 + 2 = 5
      BY <1>1
    <3>2. f[3 + 1] = p[1] /\ f[3 + 2] = p[2]
      BY <1>3, <3>1
    <3>3. QED
      BY <3>1, <3>2
  <2>3. QED
    BY <1>1, <1>3, <1>4, <2>1, <2>2
<1>6. ASSUME NEW i \in 1 .. n PROVE s[5 + i] \in Fields
  <2>1. 5 + i \in 1 .. Len(f) /\ 2 + i \in 1 .. Len(p) /\ 3 + (2 + i) = 5 + i
    BY <1>1, <1>3
  <2>2. s[5 + i] = f[5 + i]
    BY <1>4, <2>1
  <2>3. f[3 + (2 + i)] = p[2 + i]
    BY <1>3, <2>1
  <2>4. p[2 + i] = m[i] /\ m[i] \in Fields
    BY <1>1
  <2>5. QED
    BY <2>1, <2>2, <2>3, <2>4
<1>7. b \in Seq(A) /\ Len(b) = Len(a) + 1 /\ Len(a) \in Nat /\ b[Len(a) + 1] = z
  BY AppendHas DEF b
<1>8. q \in Place /\ q.rest = s /\ q.headed = nb /\ q.sent = Len(a)
  BY <1>4, <1>7 DEF Place
<1>9. At(q, 5 + n, nb, Len(a) + 1) = [rest |-> w, headed |-> nb, sent |-> Len(a) + 1]
  <2>1. 5 + n = 3 + Len(p)
    BY <1>1
  <2>2. Rest(s, 5 + n) = w
    BY <1>3, <2>1
  <2>3. QED
    BY <1>8, <2>2 DEF At
<1> HIDE DEF q
<1>10. Called(q, b, S)
  <2>1. q.sent < Len(b) /\ s[3] = b[q.sent + 1].id
    BY <1>5, <1>7, <1>8 DEF id
  <2>2. At(q, 5 + n, q.headed, q.sent + 1) \in S
    BY <1>8, <1>9
  <2>3. QED
    BY <1>1, <1>5, <1>6, <1>8, <2>1, <2>2 DEF Called
<1>11. QED
  BY <1>8, <1>10 DEF q, b, s, f, id

LEMMA CallCarried ==
  ASSUME NEW nb \in Nat, NEW A, NEW a \in Seq(A), NEW z \in A, NEW m \in Seq(Fields), z.id \in Nat
  PROVE  Data(z.id, m) \in Digits /\ Carries(nb, Append(a, z), Data(z.id, m), nb, Len(a))
<1> DEFINE b == Append(a, z)
           f == Data(z.id, m)
           q == [rest |-> f, headed |-> nb, sent |-> Len(a)]
           e == [rest |-> <<>>, headed |-> nb, sent |-> Len(b)]
           S == {q, e}
<1>1. b \in Seq(A) /\ Len(b) = Len(a) + 1
  BY AppendHas
<1>2. f \in Digits
  <2>1. DATA \in Nat /\ <<0, Len(m)>> \o m \in Digits
    BY PayloadHas DEF DATA
  <2>2. QED
    BY <2>1, FrameHas DEF Data
<1> HIDE DEF b, f
<1>3. e \in Place /\ Stands(e, nb, b, S)
  BY <1>1, EndStands
<1>4. <<>> \in Digits /\ [rest |-> <<>>, headed |-> nb, sent |-> Len(a) + 1] \in S
  BY <1>1 DEF Digits
<1>5. f \o <<>> = f
  BY <1>2, WithNothing DEF Digits
<1> HIDE DEF S
<1>6. q \in Place /\ Called(q, b, S)
  <2> DEFINE g == [rest |-> f \o <<>>, headed |-> nb, sent |-> Len(a)]
  <2>1. g \in Place /\ Called(g, b, S)
    BY <1>4, CallStands DEF f, b
  <2>2. g = q
    BY <1>5
  <2> HIDE DEF g, q
  <2>3. QED
    BY <2>1, <2>2
<1>7. \A x \in S : x \in Place /\ Stands(x, nb, b, S)
  <2> HIDE DEF q, e
  <2>1. \A x \in S : x = q \/ x = e
    BY DEF S
  <2>2. QED
    BY <1>3, <1>6, <2>1 DEF Stands
<1>8. S \in SUBSET Place /\ [rest |-> f, headed |-> nb, sent |-> Len(a)] \in S
  BY <1>7 DEF S
<1>9. QED
  BY <1>2, <1>7, <1>8 DEF Carries, f, b

LEMMA PartsCarried ==
  ASSUME NEW nb \in Nat, NEW A, NEW a \in Seq(A), NEW z \in A, NEW m \in Seq(Fields), z.id \in Nat,
         NEW k \in PrefixSize .. Len(<<0, Len(m)>> \o m)
  PROVE  Carries(nb, Append(a, z), Parts(z.id, m, k), nb, Len(a))
<1> DEFINE id == z.id
           b == Append(a, z)
           n == Len(m)
           p == <<0, Len(m)>> \o m
           u == Prefix(p, k)
           v == Rest(p, k)
           f == FrameOf(DATA, id, u)
           g == FrameOf(DATA, id, v)
           s == f \o g
           q == [rest |-> s, headed |-> nb, sent |-> Len(a)]
<1>1. p \in Seq(Nat) /\ Len(p) = 2 + n /\ p[2] = n /\ n \in Nat /\ k \in 2 .. 2 + n /\ k \in Nat /\ id \in Nat
  <2>1. p \in Digits /\ Len(p) = 2 + n /\ p[2] = n /\ n \in Nat
    BY PayloadHas, FieldsAreDigits
  <2>2. k \in PrefixSize .. Len(p)
    OBVIOUS
  <2> HIDE DEF p, n
  <2>3. QED
    BY <2>1, <2>2 DEF Digits, PrefixSize
<1>2. Parts(id, m, k) = s
  BY DEF Parts
<1>3. b \in Seq(A) /\ Len(b) = Len(a) + 1 /\ Len(a) \in Nat
  BY AppendHas
<1> HIDE DEF p, n, id
<1>4. u \in Digits /\ Len(u) = k /\ (\A i \in 1 .. k : u[i] = p[i]) /\ v \in Digits /\ Len(v) = 2 + n - k
  <2>1. Lesser(k, Len(p)) = k /\ k \in 0 .. Len(p)
    BY <1>1 DEF Lesser
  <2>2. Prefix(p, k) \in Seq(Nat) /\ Len(Prefix(p, k)) = k /\ \A i \in 1 .. k : Prefix(p, k)[i] = p[i]
    BY <1>1, <2>1, PrefixHas
  <2>3. Rest(p, k) \in Seq(Nat) /\ Len(Rest(p, k)) = Len(p) - k
    BY <1>1, <2>1, RestHas
  <2>4. QED
    BY <1>1, <2>2, <2>3 DEF Digits
<1> HIDE DEF u, v, b
<1>5. /\ f \in Digits /\ Len(f) = 3 + k /\ f[1] = k /\ f[2] = DATA /\ f[3] = id
      /\ (\A i \in 1 .. k : f[3 + i] = u[i]) /\ g \in Digits /\ Len(g) = 3 + Len(v) /\ g[1] = Len(v) /\ g[2] = DATA
  <2> DEFINE y == DATA
  <2>1. y \in Nat
    BY DEF DATA
  <2>2. f = FrameOf(y, id, u) /\ g = FrameOf(y, id, v)
    OBVIOUS
  <2> HIDE DEF y, f, g
  <2>3. f \in Digits /\ Len(f) = 3 + Len(u) /\ f[1] = Len(u) /\ f[2] = y /\ f[3] = id
    <3>1. y \in Nat /\ id \in Nat /\ u \in Digits /\ v \in Digits
      BY <1>1, <1>4, <2>1
    <3>2. QED
      <4>1. FrameFacts(f, y, id, u) /\ FrameFacts(g, y, id, v)
        BY ONLY <2>2, <3>1, FrameHasAll
      <4>2. QED
        BY ONLY <4>1 DEF FrameFacts
  <2>4. \A i \in 1 .. Len(u) : f[3 + i] = u[i]
    <3>1. y \in Nat /\ id \in Nat /\ u \in Digits /\ v \in Digits
      BY <1>1, <1>4, <2>1
    <3>2. QED
      <4>1. FrameFacts(f, y, id, u) /\ FrameFacts(g, y, id, v)
        BY ONLY <2>2, <3>1, FrameHasAll
      <4>2. QED
        BY ONLY <4>1 DEF FrameFacts
  <2>5. g \in Digits /\ Len(g) = 3 + Len(v) /\ g[1] = Len(v) /\ g[2] = y
    <3>1. y \in Nat /\ id \in Nat /\ u \in Digits /\ v \in Digits
      BY <1>1, <1>4, <2>1
    <3>2. QED
      <4>1. FrameFacts(f, y, id, u) /\ FrameFacts(g, y, id, v)
        BY ONLY <2>2, <3>1, FrameHasAll
      <4>2. QED
        BY ONLY <4>1 DEF FrameFacts
  <2>6. QED
    BY <1>4, <2>3, <2>4, <2>5 DEF y
<1> HIDE DEF f, g
<1>6. s \in Digits /\ Len(s) = Len(f) + Len(g) /\ Len(f) \in Nat /\ Len(g) \in Nat /\ \A i \in 1 .. Len(f) : s[i] = f[i]
  <2>1. f \in Seq(Nat) /\ g \in Seq(Nat)
    BY <1>5 DEF Digits
  <2>2. /\ s \in Seq(Nat) /\ Len(s) = Len(f) + Len(g) /\ Len(f) \in Nat /\ Len(g) \in Nat
        /\ \A i \in 1 .. Len(f) + Len(g) : s[i] = IF i <= Len(f) THEN f[i] ELSE g[i - Len(f)]
    BY ONLY <2>1, BothHave
  <2> HIDE DEF s
  <2>3. QED
    BY <2>2 DEF Digits
<1>7. CASE k < 2 + n
  <2> HIDE DEF s
  <2>1. s[1] = k /\ s[2] = DATA /\ s[5] = n /\ Len(s) >= 5
    <3>1. 1 \in 1 .. Len(f) /\ 2 \in 1 .. Len(f) /\ 5 \in 1 .. Len(f) /\ 2 \in 1 .. k /\ 3 + 2 = 5
      BY <1>1, <1>5
    <3>2. s[1] = f[1] /\ s[2] = f[2] /\ s[5] = f[5]
      BY <1>6, <3>1
    <3>3. f[3 + 2] = u[2] /\ u[2] = p[2]
      BY <1>4, <1>5, <3>1
    <3>4. QED
      BY <1>1, <1>5, <1>6, <3>1, <3>2, <3>3
  <2>2. q \in Place /\ q.rest = s
    BY <1>3, <1>6 DEF Place
  <2>3. Parted(q)
    <3> HIDE DEF q
    <3>1. Len(s) >= 3 /\ 2 + s[5] # s[1]
      BY <1>1, <1>6, <1>7, <2>1
    <3>2. QED
      BY <2>1, <2>2, <3>1 DEF Parted, PrefixSize
  <2> DEFINE S == {q}
  <2>4. S \in SUBSET Place /\ (\A x \in S : Stands(x, nb, b, S)) /\ [rest |-> s, headed |-> nb, sent |-> Len(a)] \in S
    <3>1. \A T : Stands(q, nb, b, T)
      BY <2>3 DEF Stands
    <3>2. QED
      BY <2>2, <3>1
  <2> HIDE DEF S
  <2>5. Carries(nb, b, s, nb, Len(a))
    BY <2>4 DEF Carries
  <2>6. QED
    BY <1>2, <2>5 DEF b, id
<1>8. CASE k = 2 + n
  <2> DEFINE e == [rest |-> g, headed |-> nb, sent |-> Len(a) + 1]
             S == {q, e}
  <2>1. f = Data(id, m)
    <3>1. u = p
      <4>1. k >= Len(p)
        BY <1>1, <1>8
      <4>2. QED
        BY <1>1, <4>1, PrefixIsAll DEF u
    <3>2. QED
      BY <3>1 DEF f, Data, p
  <2>2. q \in Place /\ Called(q, b, S)
    <3>1. e \in S
      OBVIOUS
    <3> HIDE DEF S
    <3>2. LET x == [rest |-> Data(z.id, m) \o g, headed |-> nb, sent |-> Len(a)] IN
          x \in Place /\ Called(x, Append(a, z), S)
      BY <1>1, <1>5, <3>1, CallStands DEF id
    <3>3. QED
      BY <2>1, <3>2 DEF b, id
  <2>3. e \in Place /\ Parted(e)
    <3>1. Len(v) = 0 /\ Len(g) = 3 /\ g[1] = 0 /\ g[2] = DATA
      BY <1>1, <1>4, <1>5, <1>8
    <3>2. e \in Place /\ e.rest = g
      BY <1>3, <1>5 DEF Place
    <3> HIDE DEF e
    <3>3. Len(g) >= 3 /\ g[1] < 2
      BY <3>1
    <3>4. QED
      BY <3>1, <3>2, <3>3 DEF Parted, PrefixSize
  <2>4. \A x \in S : x \in Place /\ Stands(x, nb, b, S)
    <3> HIDE DEF q, e
    <3>1. QED
      BY <2>2, <2>3 DEF Stands
  <2>5. S \in SUBSET Place /\ [rest |-> s, headed |-> nb, sent |-> Len(a)] \in S
    <3>1. q \in S
      OBVIOUS
    <3> HIDE DEF S
    <3>2. QED
      BY <2>4, <3>1
  <2> HIDE DEF S
  <2>6. Carries(nb, b, s, nb, Len(a))
    BY <2>4, <2>5 DEF Carries
  <2>7. QED
    BY <1>2, <2>6 DEF b, id
<1>9. QED
  BY <1>1, <1>7, <1>8

-----------------------------------------------------------------------------
(* Calls are answered.                                                     *)

(* The answers given are those of the first calls asked for.               *)
Right(b, a, r) ==
  /\ Len(r) <= Len(a)
  /\ \A i \in 1 .. Len(r) :
       r[i] = [id |-> a[i].id, status |-> IF b[a[i].id].path \in Served THEN "200" ELSE "404"]

(* What is remembered of the last HEADERS.                                 *)
Matches(b, k) == k.last # 0 => k.last \in 1 .. Len(b) /\ k.match = (b[k.last].path \in Served)

(* What is on its way, in the states of a connection.                      *)
Streams(k, w, b, a, r) ==
  /\ k.state = "none" => w = <<>> /\ b = <<>> /\ a = <<>> /\ r = <<>> /\ k.last = 0 /\ k.httpBuf = <<>>
  /\ k.state = "CONNECTING" =>
       /\ k.last = 0 /\ r = <<>> /\ Len(Road(k, w)) >= 2
       /\ Prefix(Road(k, w), 2) = HTTP2_HDR => Carries(Len(b), a, Rest(Road(k, w), 2), 0, 0)
  /\ Reads(k) => Carries(Len(b), a, Road(k, w), k.last, Len(r))

AskedBegun(a, b) == \A i \in 1 .. Len(a) : a[i].id \in 1 .. Len(b)

Answering(c) ==
  /\ con[c].fd = c /\ AskedBegun(asked[c], begun[c])
  /\ mishaps[c] \cap Misread = {} =>
       /\ Right(begun[c], asked[c], answers[c]) /\ Matches(begun[c], con[c])
       /\ Streams(con[c], wire[c], begun[c], asked[c], answers[c])

Question == [id : Nat, message : Seq(Fields)]

LEMMA TypesOf ==
  ASSUME Typed, NEW c \in Connections
  PROVE  /\ asked[c] \in Seq(Question) /\ Len(asked[c]) \in Nat /\ Len(begun[c]) \in Nat /\ wire[c] \in Digits
         /\ begun[c] \in Seq([path : Paths, complete : BOOLEAN])
         /\ answers[c] \in Seq(Answer) /\ Len(answers[c]) \in Nat /\ con[c] \in ConType
<1>1. /\ asked[c] \in Seq(Question) /\ wire[c] \in Digits /\ answers[c] \in Seq(Answer) /\ con[c] \in ConType
      /\ begun[c] \in Seq([path : Paths, complete : BOOLEAN])
  BY DEF Typed, Question
<1>2. QED
  BY <1>1, LenProperties

LEMMA RoadHas ==
  ASSUME NEW k \in ConType, NEW w \in Digits, NEW v \in Digits
  PROVE  Road(k, w) \in Digits /\ Road(k, w \o v) = Road(k, w) \o v
<1> DEFINE a == Ahead(k)
           h == k.httpBuf
<1>1. h \in Seq(Nat) /\ k.stream \in Seq(Nat) /\ k.hdr \in Seq(Nat) /\ w \in Seq(Nat) /\ v \in Seq(Nat)
  BY DEF ConType, Triple, Digits
<1>2. a \in Seq(Nat)
  <2>1. k.hdr \o k.stream \in Seq(Nat)
    BY <1>1, BothHave
  <2>2. QED
    BY <1>1, <2>1 DEF Ahead
<1> HIDE DEF a, h
<1>3. ASSUME NEW u \in Seq(Nat) PROVE u \o w \in Seq(Nat) /\ u \o (w \o v) = (u \o w) \o v
  <2> DEFINE X == Nat
  <2>1. u \in Seq(X) /\ w \in Seq(X) /\ v \in Seq(X)
    BY <1>1
  <2> HIDE DEF X
  <2>2. u \o w \in Seq(X)
    BY ONLY <2>1, BothHave
  <2>3. (u \o w) \o v = u \o (w \o v)
    BY ONLY <2>1, Joined
  <2>4. QED
    BY <2>2, <2>3 DEF X
<1>4. a \o w \in Seq(Nat) /\ a \o (w \o v) = (a \o w) \o v /\ h \o w \in Seq(Nat) /\ h \o (w \o v) = (h \o w) \o v
  BY <1>1, <1>2, <1>3
<1>5. CASE k.state = "CONNECTING"
  <2>1. Road(k, w) = h \o w /\ Road(k, w \o v) = h \o (w \o v)
    BY <1>5 DEF Road, h
  <2>2. QED
    BY <1>4, <2>1 DEF Digits
<1>6. CASE k.state # "CONNECTING"
  <2>1. Road(k, w) = a \o w /\ Road(k, w \o v) = a \o (w \o v)
    BY <1>6 DEF Road, a
  <2>2. QED
    BY <1>4, <2>1 DEF Digits
<1>7. QED
  BY <1>5, <1>6

(* Something more was sent.                                                *)
LEMMA SentAnswering ==
  ASSUME Typed, Typed', NEW c \in Connections, NEW w \in Digits, Answering(c),
         wire'[c] = wire[c] \o w, con'[c] = con[c], con[c].state # "none",
         answers'[c] = answers[c], mishaps'[c] = mishaps[c],
         Len(begun[c]) <= Len(begun'[c]),
         \A i \in 1 .. Len(begun[c]) : begun'[c][i].path = begun[c][i].path,
         Len(asked[c]) <= Len(asked'[c]), \A i \in 1 .. Len(asked[c]) : asked'[c][i] = asked[c][i],
         AskedBegun(asked'[c], begun'[c]),
         Carries(Len(begun'[c]), asked'[c], w, Len(begun[c]), Len(asked[c]))
  PROVE  Answering(c)'
<1> DEFINE k == con[c]
           b == begun[c]
           b2 == begun'[c]
           a == asked[c]
           a2 == asked'[c]
           r == answers[c]
           s == Road(k, wire[c])
<1>1. /\ a \in Seq(Question) /\ Len(a) \in Nat /\ Len(b) \in Nat /\ wire[c] \in Digits /\ Len(r) \in Nat /\ k \in ConType
  BY TypesOf
<1>2. a2 \in Seq(Question) /\ Len(a2) \in Nat /\ Len(b2) \in Nat
  <2>1. a2 \in Seq(Question) /\ b2 \in Seq([path : Paths, complete : BOOLEAN])
    BY DEF Typed, Question
  <2>2. QED
    BY <2>1, LenProperties
<1>3. s \in Digits /\ Road(k, wire'[c]) = s \o w
  BY <1>1, RoadHas
<1>4. Len(b) <= Len(b2) /\ (\A i \in 1 .. Len(b) : b2[i].path = b[i].path)
        /\ Len(a) <= Len(a2) /\ (\A i \in 1 .. Len(a) : a2[i] = a[i])
        /\ Carries(Len(b2), a2, w, Len(b), Len(a)) /\ AskedBegun(a2, b2) /\ AskedBegun(a, b) /\ k.fd = c
  BY DEF Answering
<1>5. SUFFICES ASSUME mishaps[c] \cap Misread = {}
               PROVE  Right(b2, a2, r) /\ Matches(b2, k) /\ Streams(k, wire'[c], b2, a2, r)
  BY <1>4 DEF Answering
<1>6. Right(b, a, r) /\ Matches(b, k) /\ Streams(k, wire[c], b, a, r)
  BY <1>5 DEF Answering
<1> HIDE DEF k, b, b2, a, a2, r, s
<1>7. Right(b2, a2, r)
  <2>1. Len(r) <= Len(a) /\ Len(r) <= Len(a2)
    BY <1>1, <1>2, <1>4, <1>6 DEF Right
  <2>2. ASSUME NEW i \in 1 .. Len(r)
        PROVE  r[i] = [id |-> a2[i].id, status |-> IF b2[a2[i].id].path \in Served THEN "200" ELSE "404"]
    <3>1. i \in 1 .. Len(a)
      BY <1>1, <2>1
    <3>2. a2[i] = a[i] /\ a[i].id \in 1 .. Len(b)
      BY <1>4, <3>1 DEF AskedBegun
    <3>3. b2[a[i].id].path = b[a[i].id].path
      BY <1>4, <3>2
    <3>4. r[i] = [id |-> a[i].id, status |-> IF b[a[i].id].path \in Served THEN "200" ELSE "404"]
      BY <1>6 DEF Right
    <3>5. QED
      BY <3>2, <3>3, <3>4
  <2>3. QED
    BY <2>1, <2>2 DEF Right
<1>8. Matches(b2, k)
  <2> SUFFICES ASSUME k.last # 0 PROVE k.last \in 1 .. Len(b2) /\ k.match = (b2[k.last].path \in Served)
    BY DEF Matches
  <2>1. k.last \in 1 .. Len(b) /\ k.match = (b[k.last].path \in Served)
    BY <1>6 DEF Matches
  <2>2. b2[k.last].path = b[k.last].path /\ k.last \in 1 .. Len(b2)
    BY <1>1, <1>2, <1>4, <2>1
  <2>3. QED
    BY <2>1, <2>2
<1>9. Streams(k, wire'[c], b2, a2, r)
  <2>1. k.state # "none"
    BY DEF k
  <2>2. ASSUME NEW u \in Digits, NEW h \in Nat, NEW d \in Nat, Carries(Len(b), a, u, h, d)
        PROVE  Carries(Len(b2), a2, u \o w, h, d)
    <3>1. \A i \in 1 .. Len(a) : a2[i].id = a[i].id
      BY <1>4
    <3>2. QED
      BY <1>1, <1>2, <1>4, <2>2, <3>1, CarriesOn
  <2>3. Reads(k) => Carries(Len(b2), a2, Road(k, wire'[c]), k.last, Len(r))
    <3>1. k.last \in Nat
      BY <1>1 DEF ConType
    <3>2. Reads(k) => Carries(Len(b), a, s, k.last, Len(r))
      BY <1>6 DEF Streams, s
    <3>3. QED
      BY <1>1, <1>3, <2>2, <3>1, <3>2
  <2>4. ASSUME k.state = "CONNECTING"
        PROVE  /\ k.last = 0 /\ r = <<>> /\ Len(Road(k, wire'[c])) >= 2
               /\ Prefix(Road(k, wire'[c]), 2) = HTTP2_HDR => Carries(Len(b2), a2, Rest(Road(k, wire'[c]), 2), 0, 0)
    <3>1. /\ k.last = 0 /\ r = <<>> /\ Len(s) >= 2
          /\ Prefix(s, 2) = HTTP2_HDR => Carries(Len(b), a, Rest(s, 2), 0, 0)
      BY <1>6, <2>4 DEF Streams, s
    <3>2. s \in Seq(Nat) /\ w \in Seq(Nat) /\ Len(s) \in Nat
      BY <1>3, LenProperties DEF Digits
    <3>3. 2 \in 0 .. Len(s)
      BY <3>1, <3>2
    <3>4. Prefix(s \o w, 2) = Prefix(s, 2) /\ Rest(s \o w, 2) = Rest(s, 2) \o w /\ Rest(s, 2) \in Seq(Nat)
      BY <3>2, <3>3, PrefixOfBoth, RestOfBoth, RestHas
    <3>5. Len(s \o w) >= 2
      <4>1. Len(s \o w) = Len(s) + Len(w) /\ Len(w) \in Nat
        BY <3>2, BothHave
      <4>2. QED
        BY <3>1, <3>2, <4>1
    <3>6. Rest(s, 2) \in Digits
      BY <3>4 DEF Digits
    <3>7. Prefix(s, 2) = HTTP2_HDR => Carries(Len(b2), a2, Rest(s, 2) \o w, 0, 0)
      BY <2>2, <3>1, <3>6
    <3>8. QED
      BY <1>3, <3>1, <3>4, <3>5, <3>7
  <2>5. QED
    BY <2>1, <2>3, <2>4 DEF Streams
<1>10. QED
  BY <1>7, <1>8, <1>9

(* Nothing of it changed.                                                  *)
LEMMA SameAnswering ==
  ASSUME NEW c \in Connections, Answering(c), SameInput(con[c], con'[c]), wire'[c] = wire[c], begun'[c] = begun[c],
         asked'[c] = asked[c], answers'[c] = answers[c], mishaps[c] \subseteq mishaps'[c]
  PROVE  Answering(c)'
<1> DEFINE k == con[c]
           l == con'[c]
<1>1. SameInput(k, l)
  OBVIOUS
<1> HIDE DEF k, l
<1>2. \A w : Road(l, w) = Road(k, w)
  BY <1>1 DEF SameInput, Road, Ahead
<1>3. \A w, b, a, r : (Matches(b, k) => Matches(b, l)) /\ (Streams(k, w, b, a, r) => Streams(l, w, b, a, r))
  BY <1>1, <1>2 DEF SameInput, Matches, Streams, Reads
<1>4. l.fd = k.fd
  BY <1>1 DEF SameInput
<1>5. QED
  BY <1>3, <1>4 DEF Answering, k, l

LEMMA ClosedAnswering ==
  ASSUME Typed, NEW c \in Connections, Answering(c), NEW s \in {"closing", "CLOSED"},
         con'[c] = [con[c] EXCEPT !.state = s], mishaps[c] \subseteq mishaps'[c],
         UNCHANGED <<begun, asked, answers, wire>>
  PROVE  Answering(c)'
<1> DEFINE k == con[c]
           l == con'[c]
<1>1. l = [k EXCEPT !.state = s] /\ k \in ConType
  BY ConOf
<1> HIDE DEF k, l
<1>2. l.state = s /\ l.fd = k.fd /\ l.last = k.last /\ l.match = k.match
  BY <1>1 DEF ConType
<1>3. \A w, b, a, r : (Matches(b, k) => Matches(b, l)) /\ Streams(l, w, b, a, r)
  BY <1>2 DEF Matches, Streams, Reads
<1>4. QED
  BY <1>2, <1>3 DEF Answering, k, l

LEMMA ConnectAnswering ==
  ASSUME Typed, NEW c \in Connections, NEW preface \in load[c].prefaces, Answering(c), Connect(c, preface)
  PROVE  Answering(c)'
<1> DEFINE k == con[c]
           l == con'[c]
           f == FrameOf(SETTINGS, 0, <<>>)
           w == preface \o f
<1>1. /\ k.state = "none" /\ l = [k EXCEPT !.state = "CONNECTING"] /\ k \in ConType
      /\ preface \in Digits /\ Len(preface) = 2 /\ wire'[c] = w
  BY ConnectDoes, ConOf
<1>2. UNCHANGED <<begun, asked, answers, mishaps>>
  BY DEF Connect, client
<1>3. k.fd = c /\ AskedBegun(asked[c], begun[c])
  BY DEF Answering
<1> HIDE DEF k, l
<1>4. l.state = "CONNECTING" /\ l.fd = k.fd /\ l.last = k.last /\ l.match = k.match /\ l.httpBuf = k.httpBuf
  BY <1>1 DEF ConType
<1>5. SUFFICES ASSUME mishaps[c] \cap Misread = {}
               PROVE  /\ Right(begun[c], asked[c], answers[c]) /\ Matches(begun[c], l)
                      /\ Streams(l, w, begun[c], asked[c], answers[c])
  BY <1>1, <1>2, <1>3, <1>4 DEF Answering, l
<1>6. Right(begun[c], asked[c], answers[c]) /\ Matches(begun[c], k) /\ Streams(k, wire[c], begun[c], asked[c], answers[c])
  BY <1>5 DEF Answering, k
<1>7. begun[c] = <<>> /\ asked[c] = <<>> /\ answers[c] = <<>> /\ k.last = 0 /\ k.httpBuf = <<>>
  BY <1>1, <1>6 DEF Streams
<1>8. f \in Digits
  <2>1. SETTINGS \in Nat /\ <<>> \in Digits
    BY DEF SETTINGS, Digits
  <2>2. QED
    BY <2>1, FrameHas
<1>9. Carries(0, <<>>, f, 0, 0)
  <2> DEFINE a == <<>>
             z == SETTINGS
             p == <<>>
  <2>1. z \in Nat /\ p \in Digits /\ a \in Seq(Question) /\ Len(a) = 0 /\ Len(p) = 0
    BY DEF SETTINGS, Digits
  <2>2. Legal(SETTINGS, 0)
    <3>1. 0 % 2 = 0
      OBVIOUS
    <3>2. QED
      BY <3>1 DEF Legal, SETTINGS, GOAWAY, WINDOW_UPDATE, DATA, HEADERS
  <2>3. Legal(z, Len(p))
    BY <2>1, <2>2
  <2> HIDE DEF a, z, p
  <2>4. Carries(0, a, FrameOf(z, 0, p), 0, Len(a))
    BY <2>1, <2>3, ControlCarried
  <2>5. QED
    BY <2>1, <2>4 DEF a, z, p
<1> HIDE DEF f
<1>10. w \in Seq(Nat) /\ Len(w) >= 2 /\ Rest(w, 2) = f
  <2>1. preface \in Seq(Nat) /\ f \in Seq(Nat) /\ Len(preface) = 2
    BY <1>1, <1>8 DEF Digits
  <2>2. w \in Seq(Nat) /\ Len(w) = 2 + Len(f) /\ Len(f) \in Nat
    <3>1. w \in Seq(Nat) /\ Len(w) = Len(preface) + Len(f) /\ Len(f) \in Nat
      BY <2>1, BothHave
    <3>2. QED
      BY <2>1, <3>1
  <2>3. Rest(w, Len(preface)) = f
    BY <2>1, RestBehind
  <2> HIDE DEF w
  <2>4. QED
    BY <2>1, <2>2, <2>3
<1> HIDE DEF w
<1>11. Road(l, w) = w
  BY <1>4, <1>7, <1>10, WithNothing DEF Road
<1>12. Streams(l, w, begun[c], asked[c], answers[c])
  <2>1. Len(begun[c]) = 0
    BY <1>7
  <2>2. Carries(Len(begun[c]), asked[c], Rest(w, 2), 0, 0)
    BY <1>7, <1>9, <1>10, <2>1
  <2>3. QED
    BY <1>4, <1>7, <1>10, <1>11, <2>2 DEF Streams, Reads
<1>13. Matches(begun[c], l)
  BY <1>4, <1>6 DEF Matches
<1>14. QED
  BY <1>6, <1>12, <1>13

LEMMA ReadAnswering ==
  ASSUME Typed, NEW c \in Connections, NEW n \in 1 .. Len(wire[c]), Answering(c), Read(c, n)
  PROVE  Answering(c)'
<1> DEFINE k == con[c]
           l == con'[c]
           s == Road(k, wire[c])
           t == Road(l, wire'[c])
<1>1. /\ l.fd = k.fd /\ l.match = k.match /\ l.last = k.last /\ (k.state = "CONNECTING" \/ Reads(k))
      /\ \/ l.state = k.state /\ t = s
         \/ k.state = "CONNECTING" /\ l.state = "closing"
         \/ /\ k.state = "CONNECTING" /\ l.state = "READ_FRAME_HEADER"
            /\ Len(s) >= 2 /\ Prefix(s, 2) = HTTP2_HDR /\ t = Rest(s, 2)
  BY ReadDoes
<1>2. UNCHANGED <<begun, asked, answers, mishaps>>
  BY DEF Read, client
<1>3. k.fd = c /\ AskedBegun(asked[c], begun[c])
  BY DEF Answering
<1>4. SUFFICES ASSUME mishaps[c] \cap Misread = {}
               PROVE  /\ Right(begun[c], asked[c], answers[c]) /\ Matches(begun[c], l)
                      /\ Streams(l, wire'[c], begun[c], asked[c], answers[c])
  BY <1>1, <1>2, <1>3 DEF Answering
<1>5. Right(begun[c], asked[c], answers[c]) /\ Matches(begun[c], k) /\ Streams(k, wire[c], begun[c], asked[c], answers[c])
  BY <1>4 DEF Answering
<1> HIDE DEF k, l
<1>6. Matches(begun[c], l)
  BY <1>1, <1>5 DEF Matches
<1>7. Streams(l, wire'[c], begun[c], asked[c], answers[c])
  <2>1. CASE l.state = k.state /\ t = s
    <3>1. k.state # "none"
      BY <1>1 DEF Reads
    <3>2. QED
      BY <1>1, <1>5, <2>1, <3>1 DEF Streams, Reads
  <2>2. CASE k.state = "CONNECTING" /\ l.state = "closing"
    BY <2>2 DEF Streams, Reads
  <2>3. CASE /\ k.state = "CONNECTING" /\ l.state = "READ_FRAME_HEADER"
             /\ Len(s) >= 2 /\ Prefix(s, 2) = HTTP2_HDR /\ t = Rest(s, 2)
    <3>1. k.last = 0 /\ answers[c] = <<>> /\ Carries(Len(begun[c]), asked[c], t, 0, 0)
      BY <1>5, <2>3 DEF Streams
    <3>2. l.last = 0 /\ Len(answers[c]) = 0
      BY <1>1, <3>1
    <3>3. QED
      BY <2>3, <3>1, <3>2 DEF Streams
  <2>4. QED
    BY <1>1, <2>1, <2>2, <2>3
<1>8. QED
  BY <1>5, <1>6, <1>7

(* A frame whose header was read, with all of its payload and more behind. *)
LEMMA FrameAhead ==
  ASSUME NEW k \in ConType, k.state = "READ_FRAME", NEW w \in Digits
  PROVE  LET s == Ahead(k) \o w IN
         /\ s \in Digits /\ Len(s) \in Nat /\ Len(s) >= 3 + Len(k.stream) /\ Len(k.stream) \in Nat
         /\ s[1] = k.hdr[1] /\ s[2] = k.hdr[2] /\ s[3] = k.hdr[3]
         /\ \A i \in 1 .. Len(k.stream) : s[3 + i] = k.stream[i]
         /\ \A n \in 0 .. Len(k.stream) : Rest(s, 3 + n) = Rest(k.stream, n) \o w
<1> DEFINE h == k.hdr
           u == k.stream
           v == h \o u
           s == v \o w
<1>1. h \in Seq(Nat) /\ Len(h) = 3 /\ u \in Seq(Nat) /\ w \in Seq(Nat) /\ Ahead(k) = v
  BY DEF ConType, Triple, Digits, HeaderSize, Ahead
<1> HIDE DEF h, u
<1>2. /\ v \in Seq(Nat) /\ Len(v) = 3 + Len(u) /\ Len(u) \in Nat
      /\ \A i \in 1 .. 3 + Len(u) : v[i] = IF i <= 3 THEN h[i] ELSE u[i - 3]
  <2>1. /\ v \in Seq(Nat) /\ Len(v) = Len(h) + Len(u) /\ Len(u) \in Nat
        /\ \A i \in 1 .. Len(h) + Len(u) : v[i] = IF i <= Len(h) THEN h[i] ELSE u[i - Len(h)]
    BY ONLY <1>1, BothHave
  <2> HIDE DEF v
  <2>2. QED
    BY <1>1, <2>1
<1>3. Rest(v, 3) = u /\ \A n \in 0 .. Len(u) : Rest(v, 3 + n) = Rest(u, n)
  <2> SUFFICES ASSUME NEW n \in 0 .. Len(u) PROVE Rest(v, 3) = u /\ Rest(v, 3 + n) = Rest(u, n)
    <3>1. 0 \in 0 .. Len(u)
      BY <1>2
    <3>2. QED
      BY <3>1
  <2>1. Rest(v, Len(h)) = u
    BY <1>1, RestBehind
  <2>2. Rest(v, 3 + n) = Rest(u, n)
    <3> HIDE DEF v
    <3>1. /\ Rest(v, 3 + n) \in Seq(Nat) /\ Len(Rest(v, 3 + n)) = Len(v) - (3 + n)
          /\ \A i \in 1 .. Len(v) - (3 + n) : Rest(v, 3 + n)[i] = v[(3 + n) + i]
      <4> DEFINE m == 3 + n
      <4>1. m \in 0 .. Len(v)
        BY <1>2
      <4> HIDE DEF m
      <4>2. Rest(v, m) \in Seq(Nat) /\ Len(Rest(v, m)) = Len(v) - m /\ \A i \in 1 .. Len(v) - m : Rest(v, m)[i] = v[m + i]
        BY <1>2, <4>1, RestHas
      <4>3. QED
        BY <4>2 DEF m
    <3>2. Rest(u, n) \in Seq(Nat) /\ Len(Rest(u, n)) = Len(u) - n /\ \A i \in 1 .. Len(u) - n : Rest(u, n)[i] = u[n + i]
      BY <1>1, RestHas
    <3>3. Len(v) - (3 + n) = Len(u) - n
      BY <1>2
    <3>4. ASSUME NEW i \in 1 .. Len(u) - n PROVE Rest(v, 3 + n)[i] = Rest(u, n)[i]
      <4>1. (3 + n) + i \in 1 .. 3 + Len(u) /\ ~((3 + n) + i <= 3) /\ ((3 + n) + i) - 3 = n + i
        BY <1>2
      <4>2. v[(3 + n) + i] = u[n + i]
        BY <1>2, <4>1
      <4>3. QED
        BY <3>1, <3>2, <3>3, <4>2
    <3> DEFINE x == Rest(v, 3 + n)
               y == Rest(u, n)
    <3>5. x \in Seq(Nat) /\ y \in Seq(Nat) /\ Len(x) = Len(y) /\ \A i \in 1 .. Len(x) : x[i] = y[i]
      BY <3>1, <3>2, <3>3, <3>4
    <3> HIDE DEF x, y
    <3>6. x = y
      BY <3>5, Same
    <3>7. QED
      BY <3>6 DEF x, y
  <2>3. QED
    BY <1>1, <2>1, <2>2
<1>4. \A i \in 1 .. Len(u) : v[3 + i] = u[i]
  <2> SUFFICES ASSUME NEW i \in 1 .. Len(u) PROVE v[3 + i] = u[i]
    OBVIOUS
  <2>1. 3 + i \in 1 .. 3 + Len(u) /\ ~(3 + i <= 3) /\ (3 + i) - 3 = i
    BY <1>2
  <2>2. QED
    BY <1>2, <2>1
<1>5. v[1] = h[1] /\ v[2] = h[2] /\ v[3] = h[3]
  BY <1>2
<1> HIDE DEF v
<1>6. /\ s \in Seq(Nat) /\ Len(s) = Len(v) + Len(w) /\ Len(w) \in Nat
      /\ \A i \in 1 .. Len(v) + Len(w) : s[i] = IF i <= Len(v) THEN v[i] ELSE w[i - Len(v)]
  BY <1>1, <1>2, BothHave
<1> HIDE DEF s
<1>7. Len(s) \in Nat /\ Len(s) >= 3 + Len(u) /\ \A i \in 1 .. Len(v) : s[i] = v[i]
  BY <1>2, <1>6
<1>8. s[1] = h[1] /\ s[2] = h[2] /\ s[3] = h[3] /\ \A i \in 1 .. Len(u) : s[3 + i] = u[i]
  <2>1. \A i \in 1 .. Len(u) : 3 + i \in 1 .. Len(v)
    BY <1>2
  <2>2. 1 \in 1 .. Len(v) /\ 2 \in 1 .. Len(v) /\ 3 \in 1 .. Len(v)
    BY <1>2
  <2>3. QED
    BY <1>4, <1>5, <1>7, <2>1, <2>2
<1>9. ASSUME NEW n \in 0 .. Len(u) PROVE Rest(s, 3 + n) = Rest(u, n) \o w
  <2> DEFINE m == 3 + n
  <2>1. m \in 0 .. Len(v) /\ Rest(v, m) = Rest(u, n)
    BY <1>2, <1>3
  <2> HIDE DEF m
  <2>2. Rest(s, m) = Rest(v, m) \o w
    BY <1>1, <1>2, <2>1, RestOfBoth DEF s
  <2>3. QED
    BY <2>1, <2>2 DEF m
<1>10. QED
  <2>1. s = Ahead(k) \o w
    BY <1>1 DEF s
  <2>2. h = k.hdr /\ u = k.stream
    BY DEF h, u
  <2>3. QED
    BY <1>2, <1>6, <1>7, <1>8, <1>9, <2>1, <2>2 DEF Digits

(* The next place, and what the handler of the frame there does.           *)
Handled(k, w, b, a, r, d, h) ==
  /\ d.holds /\ Right(b, a, r \o d.answer) /\ d.con.last = h
  /\ (h # 0 => h \in 1 .. Len(b) /\ d.con.match = (b[h].path \in Served))
  /\ Carries(Len(b), a, d.con.stream \o w, h, Len(r \o d.answer))

LEMMA FrameHandled ==
  ASSUME Typed, NEW c \in Connections, NEW k \in ConType, NEW w \in Digits, k.fd = c,
         FrameComplete(k), AskedBegun(asked[c], begun[c]),
         Right(begun[c], asked[c], answers[c]), Matches(begun[c], k),
         Carries(Len(begun[c]), asked[c], Ahead(k) \o w, k.last, Len(answers[c])),
         OnFrame(k).mishaps \cap Misread = {}
  PROVE  \E h \in Nat : Handled(k, w, begun[c], asked[c], answers[c], OnFrame(k), h)
<1> DEFINE d == OnFrame(k)
           b == begun[c]
           a == asked[c]
           r == answers[c]
           s == Ahead(k) \o w
           len == k.hdr[1]
           type == k.hdr[2]
           u == k.stream
           q == [rest |-> s, headed |-> k.last, sent |-> Len(r)]
<1>1. /\ a \in Seq(Question) /\ Len(a) \in Nat /\ Len(b) \in Nat /\ r \in Seq(Answer) /\ Len(r) \in Nat
      /\ b \in Seq([path : Paths, complete : BOOLEAN])
  BY TypesOf
<1>2. /\ Done(k, d) /\ len \in Nat /\ type \in Nat /\ len <= Len(u) /\ k.state = "READ_FRAME"
      /\ (type = HEADERS => d = OnHeaders(k, len)) /\ (type = DATA => d = OnData(k, len))
      /\ (type \notin {HEADERS, DATA} => TakesOnly(k, len, d))
  BY FrameDoes DEF FrameComplete
<1>3. /\ s \in Digits /\ Len(s) \in Nat /\ Len(s) >= 3 + Len(u) /\ Len(u) \in Nat
      /\ s[1] = len /\ s[2] = type /\ s[3] = k.hdr[3]
      /\ (\A i \in 1 .. Len(u) : s[3 + i] = u[i])
      /\ \A n \in 0 .. Len(u) : Rest(s, 3 + n) = Rest(u, n) \o w
  BY <1>2, FrameAhead
<1>4. Rest(s, 3 + len) = Rest(u, len) \o w
  <2>1. len \in 0 .. Len(u)
    BY <1>2, <1>3
  <2>2. QED
    BY <1>3, <2>1
<1>5. PICK S \in SUBSET Place : q \in S /\ \A x \in S : Stands(x, Len(b), a, S)
  BY DEF Carries
<1>6. k.last \in Nat
  BY DEF ConType
<1> HIDE DEF s, u, len, type, d, a, b, r
<1>7. q.rest = s /\ q.headed = k.last /\ q.sent = Len(r)
  OBVIOUS
<1>8. ASSUME NEW h \in Nat, NEW e \in Nat, At(q, 3 + len, h, e) \in S, d.con.stream = Rest(u, len)
      PROVE  Carries(Len(b), a, d.con.stream \o w, h, e)
  <2>1. At(q, 3 + len, h, e) = [rest |-> d.con.stream \o w, headed |-> h, sent |-> e]
    BY <1>4, <1>7, <1>8 DEF At
  <2>2. QED
    BY <1>5, <1>8, <2>1 DEF Carries
<1>9. r \o <<>> = r
  BY <1>1, WithNothing
<1>10. Right(b, a, r) /\ (k.last # 0 => k.last \in 1 .. Len(b) /\ k.match = (b[k.last].path \in Served))
  BY DEF Matches, b, a, r
<1>11. d.mishaps \cap Misread = {}
  BY DEF d
<1> HIDE DEF q
<1>12. CASE Ended(q, Len(b), a)
  <2>1. Len(s) = 0
    BY <1>7, <1>12 DEF Ended
  <2>2. QED
    BY <1>3, <2>1
<1>13. CASE Headed(q, Len(b), S)
  <2> DEFINE h == k.last + 1
  <2>1. s[1] = 1 /\ s[2] = HEADERS /\ s[3] = h /\ k.last < Len(b) /\ At(q, 4, h, Len(r)) \in S
    BY <1>7, <1>13 DEF Headed
  <2>2. len = 1 /\ type = HEADERS /\ k.hdr[3] = h /\ h \in 1 .. Len(b) /\ h \in Nat
    <3>1. h \in 1 .. Len(b) /\ h \in Nat
      <4> DEFINE y == k.last
      <4>1. y \in Nat /\ y < Len(b) /\ h = y + 1
        BY <1>6, <2>1
      <4> HIDE DEF y, h
      <4>2. QED
        BY <1>1, <4>1
    <3> HIDE DEF h
    <3>2. len = 1 /\ type = HEADERS /\ k.hdr[3] = h
      BY <1>3, <2>1
    <3>3. QED
      BY <3>1, <3>2
  <2>3. d = OnHeaders(k, len)
    BY <1>2, <2>2
  <2>4. b[h].path \in Paths /\ h \in DOMAIN begun[k.fd] /\ begun[k.fd] = b
    <3> DEFINE B == [path : Paths, complete : BOOLEAN]
    <3>1. b \in Seq(B) /\ h \in 1 .. Len(b)
      BY <1>1, <2>2
    <3> HIDE DEF B, h
    <3>2. b[h] \in B /\ h \in DOMAIN b
      BY <3>1, ElementOfSeq, LenProperties
    <3>3. begun[k.fd] = b
      BY DEF b
    <3>4. QED
      BY <3>2, <3>3 DEF B
  <2> HIDE DEF h
  <2>5. /\ d.answer = <<>> /\ d.holds /\ d.con.stream = Rest(u, len) /\ d.con.last = h
        /\ d.con.match = (b[h].path \in Served)
    <3>1. LET id == k.hdr[3] IN
          /\ d.answer = <<>> /\ d.holds /\ d.con.stream = Rest(k.stream, len) /\ d.con.last = id
          /\ d.mishaps \cap Misread = {} /\ id \in DOMAIN begun[k.fd] /\ begun[k.fd][id].path \in Paths =>
               d.con.match = (begun[k.fd][id].path \in Served)
      BY <1>2, <2>3, HeadersDoes
    <3>2. QED
      BY <1>11, <2>2, <2>4, <3>1 DEF u
  <2>6. At(q, 3 + len, h, Len(r)) \in S
    <3>1. 3 + len = 4
      BY <2>2
    <3>2. QED
      BY <2>1, <3>1
  <2>7. Carries(Len(b), a, d.con.stream \o w, h, Len(r))
    BY <1>1, <1>8, <2>2, <2>5, <2>6
  <2>8. Handled(k, w, b, a, r, d, h)
    BY <1>9, <1>10, <2>2, <2>5, <2>7 DEF Handled
  <2>9. QED
    BY <2>2, <2>8 DEF d, a, b, r
<1>14. CASE Called(q, a, S)
  <2> DEFINE id == a[Len(r) + 1].id
  <2>1. PICK n \in Nat :
       /\ s[1] = 2 + n /\ s[2] = DATA /\ s[3] = id /\ s[4] = 0 /\ s[5] = n
       /\ \A i \in 1 .. n : s[5 + i] \in Fields
       /\ At(q, 5 + n, k.last, Len(r) + 1) \in S
    BY <1>7, <1>14 DEF Called
  <2>2. Len(r) < Len(a) /\ id \in 1 .. Len(b) /\ id \in Nat
    <3>1. Len(r) < Len(a)
      BY <1>7, <1>14 DEF Called
    <3>2. Len(r) + 1 \in 1 .. Len(a)
      BY <1>1, <3>1
    <3>3. id \in 1 .. Len(b)
      <4>1. AskedBegun(a, b)
        BY DEF a, b
      <4>2. QED
        BY <3>2, <4>1 DEF AskedBegun
    <3> HIDE DEF id
    <3>4. QED
      BY <1>1, <3>1, <3>3
  <2> HIDE DEF id
  <2>3. len = 2 + n /\ type = DATA /\ k.hdr[3] = id
    BY <1>3, <2>1
  <2>4. d = OnData(k, len)
    BY <1>2, <2>3
  <2>5. u[1] = 0 /\ u[2] = n /\ \A i \in 3 .. len : u[i] \in Fields
    <3>1. 1 \in 1 .. Len(u) /\ 2 \in 1 .. Len(u) /\ 3 + 1 = 4 /\ 3 + 2 = 5
      BY <1>2, <1>3, <2>3
    <3>2. s[3 + 1] = u[1] /\ s[3 + 2] = u[2]
      BY <1>3, <3>1
    <3>3. ASSUME NEW i \in 3 .. len PROVE u[i] \in Fields
      <4>1. i \in 1 .. Len(u) /\ i - 2 \in 1 .. n /\ 5 + (i - 2) = 3 + i
        BY <1>2, <1>3, <2>3
      <4>2. s[3 + i] = u[i]
        BY <1>3, <4>1
      <4>3. s[5 + (i - 2)] \in Fields
        BY <2>1, <4>1
      <4>4. QED
        BY <4>1, <4>2, <4>3
    <3>4. QED
      BY <2>1, <3>1, <3>2, <3>3
  <2>6. /\ d.con.last = k.last /\ d.con.match = k.match
        /\ d.answer = <<[id |-> id, status |-> IF k.match THEN "200" ELSE "404"]>>
        /\ (k.last # id => "interleaved" \in d.mishaps)
        /\ d.con.stream = Rest(u, len) /\ d.holds
    <3>1. LET status == IF k.match THEN "200" ELSE "404"
              one == len >= PrefixSize /\ PrefixSize + k.stream[2] = len IN
         /\ d.con.last = k.last /\ d.con.match = k.match
         /\ d.answer = <<[id |-> k.hdr[3], status |-> status]>>
         /\ k.last # k.hdr[3] => "interleaved" \in d.mishaps
         /\ one => /\ d.con.stream = Rest(k.stream, len)
                   /\ k.stream[1] = 0 /\ (\A i \in PrefixSize + 1 .. len : k.stream[i] \in Fields) => d.holds
      <4>1. len <= Len(k.stream)
        BY <1>2 DEF u
      <4>2. QED
        BY <1>2, <2>4, <4>1, DataDoes
    <3>2. len >= PrefixSize /\ PrefixSize + u[2] = len /\ PrefixSize + 1 = 3
      BY <2>3, <2>5 DEF PrefixSize
    <3>3. d.con.stream = Rest(u, len) /\ d.holds
      BY <2>5, <3>1, <3>2 DEF u
    <3>4. QED
      BY <2>3, <3>1, <3>3
  <2>7. k.last = id
    BY <1>11, <2>6 DEF Misread
  <2>8. id # 0 /\ k.match = (b[id].path \in Served)
    <3>1. id # 0
      BY <1>1, <2>2
    <3>2. QED
      BY <1>10, <2>7, <3>1
  <2> DEFINE z == [id |-> id, status |-> IF b[id].path \in Served THEN "200" ELSE "404"]
  <2>9. d.answer = <<z>>
    BY <2>6, <2>8
  <2>10. z \in Answer
    BY <2>2 DEF Answer
  <2>11. Len(r \o <<z>>) = Len(r) + 1 /\ (\A i \in 1 .. Len(r) : (r \o <<z>>)[i] = r[i]) /\ (r \o <<z>>)[Len(r) + 1] = z
    <3> HIDE DEF z
    <3>1. <<z>> \in Seq(Answer) /\ Len(<<z>>) = 1 /\ <<z>>[1] = z
      BY <2>10
    <3> DEFINE v == <<z>>
    <3>2. v \in Seq(Answer) /\ Len(v) = 1 /\ v[1] = z
      BY <3>1
    <3> HIDE DEF v
    <3>3. /\ Len(r \o v) = Len(r) + Len(v)
          /\ \A i \in 1 .. Len(r) + Len(v) : (r \o v)[i] = IF i <= Len(r) THEN r[i] ELSE v[i - Len(r)]
      BY <1>1, <3>2, BothHave
    <3>4. Len(r \o v) = Len(r) + 1 /\ (\A i \in 1 .. Len(r) : (r \o v)[i] = r[i]) /\ (r \o v)[Len(r) + 1] = z
      <4>1. Len(r) + 1 \in 1 .. Len(r) + Len(v) /\ ~(Len(r) + 1 <= Len(r)) /\ (Len(r) + 1) - Len(r) = 1
        BY <1>1, <3>2
      <4>2. (r \o v)[Len(r) + 1] = v[1]
        BY <3>3, <4>1
      <4>3. \A i \in 1 .. Len(r) : (r \o v)[i] = r[i]
        BY <1>1, <3>2, <3>3
      <4>4. QED
        BY <3>2, <3>3, <4>2, <4>3
    <3>5. QED
      BY <3>4 DEF v
  <2>12. Right(b, a, r \o d.answer)
    <3> DEFINE t == r \o <<z>>
    <3>1. /\ Len(t) = Len(r) + 1 /\ (\A i \in 1 .. Len(r) : t[i] = r[i])
          /\ t[Len(r) + 1] = [id |-> a[Len(r) + 1].id,
                              status |-> IF b[a[Len(r) + 1].id].path \in Served THEN "200" ELSE "404"]
      BY <2>11 DEF id
    <3>2. r \o d.answer = t
      BY <2>9
    <3> HIDE DEF t
    <3>3. ASSUME NEW i \in 1 .. Len(t)
          PROVE  t[i] = [id |-> a[i].id, status |-> IF b[a[i].id].path \in Served THEN "200" ELSE "404"]
      <4>1. CASE i = Len(r) + 1
        BY <3>1, <4>1
      <4>2. CASE i \in 1 .. Len(r)
        BY <1>10, <3>1, <4>2 DEF Right
      <4>3. i = Len(r) + 1 \/ i \in 1 .. Len(r)
        BY <1>1, <3>1
      <4>4. QED
        BY <4>1, <4>2, <4>3
    <3>4. Len(t) <= Len(a)
      BY <1>1, <2>2, <3>1
    <3>5. Right(b, a, t)
      BY <3>3, <3>4 DEF Right
    <3>6. QED
      BY <3>2, <3>5
  <2>13. Len(r \o d.answer) = Len(r) + 1 /\ Len(r) + 1 \in Nat
    BY <1>1, <2>9, <2>11
  <2>14. At(q, 3 + len, id, Len(r) + 1) \in S
    <3>1. 3 + len = 5 + n
      BY <2>3
    <3>2. QED
      BY <2>1, <2>7, <3>1
  <2> HIDE DEF z
  <2>15. Carries(Len(b), a, d.con.stream \o w, id, Len(r \o d.answer))
    BY <1>8, <2>2, <2>6, <2>13, <2>14
  <2>16. d.con.last = id /\ d.con.match = (b[id].path \in Served)
    BY <2>6, <2>7, <2>8
  <2>17. Handled(k, w, b, a, r, d, id)
    BY <2>2, <2>6, <2>12, <2>15, <2>16 DEF Handled
  <2>18. QED
    BY <2>2, <2>17 DEF d, a, b, r
<1>15. CASE Controlled(q, S)
  <2>1. Legal(type, len) /\ At(q, 3 + len, k.last, Len(r)) \in S
    BY <1>3, <1>7, <1>15 DEF Controlled
  <2>2. TakesOnly(k, len, d)
    BY <1>2, <2>1 DEF Legal
  <2>3. d.answer = <<>> /\ d.con.last = k.last /\ d.con.match = k.match /\ d.holds /\ d.con.stream = Rest(u, len)
    BY <1>11, <2>1, <2>2 DEF TakesOnly, type, u
  <2>4. Carries(Len(b), a, d.con.stream \o w, k.last, Len(r))
    BY <1>1, <1>6, <1>8, <2>1, <2>3
  <2>5. Handled(k, w, b, a, r, d, k.last)
    BY <1>9, <1>10, <2>3, <2>4 DEF Handled
  <2>6. QED
    BY <1>6, <2>5 DEF d, a, b, r
<1>16. CASE Parted(q)
  <2>1. type = DATA /\ (len < PrefixSize \/ (Len(s) >= 5 /\ PrefixSize + s[5] # len))
    BY <1>3, <1>7, <1>16 DEF Parted
  <2>2. ~(len >= PrefixSize /\ PrefixSize + u[2] = len)
    <3>1. CASE len < PrefixSize
      BY <1>2, <3>1 DEF PrefixSize
    <3>2. CASE len >= PrefixSize /\ PrefixSize + s[5] # len
      <4>1. 2 \in 1 .. Len(u) /\ 3 + 2 = 5
        BY <1>2, <1>3, <3>2 DEF PrefixSize
      <4>2. s[3 + 2] = u[2]
        BY <1>3, <4>1
      <4>3. QED
        BY <3>2, <4>1, <4>2
    <3>3. QED
      BY <1>2, <2>1, <3>1, <3>2 DEF PrefixSize
  <2>3. "split" \in d.mishaps
    <3>1. d = OnData(k, len) /\ len <= Len(k.stream)
      BY <1>2, <2>1 DEF u
    <3>2. QED
      BY <1>2, <2>2, <3>1, DataDoes DEF u
  <2>4. QED
    BY <1>11, <2>3 DEF Misread
<1>17. QED
  BY <1>5, <1>12, <1>13, <1>14, <1>15, <1>16 DEF Stands

LEMMA ProcessAnswering ==
  ASSUME Typed, NEW c \in Connections, Answering(c), Process(c)
  PROVE  Answering(c)' /\ (failed' => failed \/ mishaps'[c] \cap Misread # {})
<1>1. /\ mishaps[c] \subseteq mishaps'[c] /\ UNCHANGED <<wire, begun, asked>>
      /\ Waits(c) \/ (Reads(con[c]) /\ \E k \in ConType : Handles(c, k, OnFrame(k)))
  BY ProcessDoes
<1>2. con[c].fd = c /\ AskedBegun(asked[c], begun[c])
  BY DEF Answering
<1>3. CASE Waits(c)
  <2> DEFINE k == con[c]
             l == con'[c]
  <2>1. /\ l.fd = k.fd /\ l.match = k.match /\ l.last = k.last
        /\ "renamed" \in mishaps'[c] \/ l = k \/ (Reads(k) /\ Reads(l) /\ Ahead(l) = Ahead(k))
        /\ failed' = failed /\ answers'[c] = answers[c]
    BY <1>3 DEF Waits
  <2> HIDE DEF k, l
  <2>2. CASE "renamed" \in mishaps'[c]
    <3>1. mishaps'[c] \cap Misread # {}
      BY <2>2 DEF Misread
    <3>2. QED
      BY <1>1, <1>2, <2>1, <3>1 DEF Answering, k, l
  <2>3. CASE "renamed" \notin mishaps'[c]
    <3>1. \A w, b, a, r : (Matches(b, k) => Matches(b, l)) /\ (Streams(k, w, b, a, r) => Streams(l, w, b, a, r))
      <4>1. CASE l = k
        BY <4>1
      <4>2. CASE Reads(k) /\ Reads(l) /\ Ahead(l) = Ahead(k)
        <5>1. l.state # "none" /\ l.state # "CONNECTING" /\ k.state # "CONNECTING"
          BY <4>2 DEF Reads
        <5>2. \A w : Road(l, w) = Road(k, w)
          BY <4>2, <5>1 DEF Road
        <5>3. QED
          BY <2>1, <4>2, <5>1, <5>2 DEF Matches, Streams
      <4>3. QED
        BY <2>1, <2>3, <4>1, <4>2
    <3>2. Answering(c)'
      BY <1>1, <2>1, <3>1 DEF Answering, k, l
    <3>3. QED
      BY <2>1, <3>2
  <2>4. QED
    BY <2>2, <2>3
<1>4. CASE Reads(con[c]) /\ \E k \in ConType : Handles(c, k, OnFrame(k))
  <2>1. PICK k \in ConType : Handles(c, k, OnFrame(k))
    BY <1>4
  <2> DEFINE d == OnFrame(k)
             l == con'[c]
             w == wire[c]
  <2>2. /\ FrameComplete(k) /\ ("renamed" \in mishaps'[c] \/ Ahead(k) = Ahead(con[c])) /\ k.fd = con[c].fd /\ k.match = con[c].match /\ k.last = con[c].last
        /\ l.state = "READ_FRAME_HEADER" /\ l.stream = d.con.stream /\ l.match = d.con.match /\ l.last = d.con.last
        /\ l.fd = k.fd /\ failed' = ~d.holds /\ answers'[c] = answers[c] \o d.answer /\ d.mishaps \subseteq mishaps'[c]
        /\ d.holds \in BOOLEAN
    BY <2>1 DEF Handles, Done
  <2>3. CASE mishaps'[c] \cap Misread # {}
    <3>1. l.fd = c
      BY <1>2, <2>2
    <3>2. QED
      BY <1>1, <1>2, <2>3, <3>1 DEF Answering
  <2>4. CASE mishaps'[c] \cap Misread = {}
    <3>1. mishaps[c] \cap Misread = {} /\ d.mishaps \cap Misread = {} /\ Ahead(k) = Ahead(con[c])
      BY <1>1, <2>2, <2>4 DEF Misread
    <3>2. /\ Right(begun[c], asked[c], answers[c]) /\ Matches(begun[c], con[c])
          /\ Streams(con[c], w, begun[c], asked[c], answers[c])
      BY <3>1 DEF Answering
    <3>3. Matches(begun[c], k)
      BY <2>2, <3>2 DEF Matches
    <3>4. Carries(Len(begun[c]), asked[c], Ahead(k) \o w, k.last, Len(answers[c]))
      <4>1. con[c].state # "CONNECTING" /\ Road(con[c], w) = Ahead(k) \o w
        BY <1>4, <3>1 DEF Reads, Road
      <4>2. QED
        BY <1>4, <2>2, <3>2, <4>1 DEF Streams
    <3>5. w \in Digits /\ k.fd = c
      BY <1>2, <2>2, TypesOf
    <3>6. PICK h \in Nat : Handled(k, w, begun[c], asked[c], answers[c], d, h)
      BY <1>2, <2>2, <3>1, <3>2, <3>3, <3>4, <3>5, FrameHandled
    <3> HIDE DEF d, l
    <3>7. /\ d.holds /\ Right(begun[c], asked[c], answers'[c]) /\ l.last = h
          /\ (h # 0 => h \in 1 .. Len(begun[c]) /\ l.match = (begun[c][h].path \in Served))
          /\ Carries(Len(begun[c]), asked[c], l.stream \o w, h, Len(answers'[c]))
      BY <2>2, <3>6 DEF Handled
    <3>8. Matches(begun[c], l)
      BY <3>7 DEF Matches
    <3>9. Streams(l, w, begun[c], asked[c], answers'[c])
      <4>1. Road(l, w) = l.stream \o w
        BY <2>2 DEF Road, Ahead
      <4>2. QED
        BY <2>2, <3>7, <4>1 DEF Streams
    <3>10. Answering(c)'
      BY <1>1, <1>2, <2>2, <3>7, <3>8, <3>9 DEF Answering, l
    <3>11. ~failed'
      BY <2>2, <3>7
    <3>12. QED
      BY <3>10, <3>11
  <2>5. QED
    BY <2>3, <2>4
<1>5. QED
  BY <1>1, <1>3, <1>4

Failing == failed => \E c \in Connections : mishaps[c] \cap Misread # {}

LEMMA AnsweringKept ==
  ASSUME Typed, Next, \A e \in Connections : Answering(e), Failing
  PROVE  (\A e \in Connections : Answering(e)') /\ Failing'
<1>0. Typed' /\ ~failed
  BY TypedKept DEF Next
<1>1. PICK c \in Connections :
       \/ \E preface \in load[c].prefaces : Connect(c, preface)
       \/ \E path \in Paths : Begin(c, path)
       \/ \E id \in DOMAIN begun[c], m \in load[c].messages : Complete(c, id, m)
       \/ \E frame \in load[c].frames : Control(c, frame)
       \/ Publish(c)
       \/ \E n \in 1 .. Len(wire[c]) : (n = Len(wire[c]) \/ load[c].cut) /\ Read(c, n)
       \/ Process(c)
       \/ WriteSome(c)
       \/ Unregister(c)
  BY DEF Next
<1>2. CASE \E preface \in load[c].prefaces : Connect(c, preface)
  <2>1. PICK preface \in load[c].prefaces : Connect(c, preface)
    BY <1>2
  <2>2. UNCHANGED <<failed, begun, asked, answers, mishaps>>
    BY <2>1 DEF Connect, client
  <2>3. Others(c, con, con') /\ Others(c, wire, wire')
    BY <2>1, ConnectDoes
  <2>4. ASSUME NEW e \in Connections PROVE Answering(e)'
    <3>1. CASE e = c
      BY <2>1, <3>1, ConnectAnswering
    <3>2. CASE e # c
      BY <2>2, <2>3, <3>2, SameAnswering DEF Others, SameInput
    <3>3. QED
      BY <3>1, <3>2
  <2>5. QED
    BY <1>0, <2>2, <2>4 DEF Failing
<1>3. CASE \E path \in Paths : Begin(c, path)
  <2>1. PICK path \in Paths : Begin(c, path)
    BY <1>3
  <2> DEFINE z == [path |-> path, complete |-> FALSE]
             B == [path : Paths, complete : BOOLEAN]
  <2>2. UNCHANGED <<failed, con, asked, answers, mishaps>>
    BY <2>1 DEF Begin, manager
  <2>3. PICK x \in Nat : Extends(c, FrameOf(HEADERS, Len(begun[c]) + 1, <<x>>))
    BY <2>1, BeginDoes
  <2>4. con[c].state # "none" /\ begun'[c] = Append(begun[c], z) /\ Others(c, begun, begun')
    BY <2>1, BeginDoes
  <2>5. begun[c] \in Seq(B) /\ z \in B /\ asked[c] \in Seq(Question) /\ Len(begun[c]) \in Nat /\ Len(asked[c]) \in Nat
    BY TypesOf
  <2> HIDE DEF z, B
  <2>6. Len(begun'[c]) = Len(begun[c]) + 1 /\ \A i \in 1 .. Len(begun[c]) : begun'[c][i] = begun[c][i]
    BY <2>4, <2>5, AppendHas
  <2>7. Carries(Len(begun'[c]), asked'[c], FrameOf(HEADERS, Len(begun[c]) + 1, <<x>>), Len(begun[c]), Len(asked[c]))
    <3> DEFINE nb == Len(begun[c])
    <3>1. nb \in Nat
      BY <2>5
    <3> HIDE DEF nb
    <3>2. Carries(nb + 1, asked[c], FrameOf(HEADERS, nb + 1, <<x>>), nb, Len(asked[c]))
      BY <2>5, <3>1, HeadersCarried
    <3>3. QED
      BY <2>2, <2>6, <3>2 DEF nb
  <2> DEFINE f == FrameOf(HEADERS, Len(begun[c]) + 1, <<x>>)
  <2>8. f \in Digits /\ wire'[c] = wire[c] \o f /\ \A e \in Connections : e # c => wire'[e] = wire[e]
    BY <2>3 DEF Extends
  <2>9. AskedBegun(asked'[c], begun'[c])
    <3>1. AskedBegun(asked[c], begun[c])
      BY DEF Answering
    <3>2. 1 .. Len(begun[c]) \subseteq 1 .. Len(begun'[c])
      BY <2>5, <2>6
    <3>3. QED
      BY <2>2, <3>1, <3>2 DEF AskedBegun
  <2> HIDE DEF f
  <2>10. ASSUME NEW e \in Connections PROVE Answering(e)'
    <3>1. CASE e = c
      <4>1. Len(begun[c]) <= Len(begun'[c]) /\ Len(asked[c]) <= Len(asked'[c])
        BY <2>2, <2>5, <2>6
      <4>2. Carries(Len(begun'[c]), asked'[c], f, Len(begun[c]), Len(asked[c]))
        BY <2>7 DEF f
      <4>3. Answering(c)'
        BY <1>0, <2>2, <2>4, <2>6, <2>8, <2>9, <4>1, <4>2, SentAnswering
      <4>4. QED
        BY <3>1, <4>3
    <3>2. CASE e # c
      BY <2>2, <2>4, <2>8, <3>2, SameAnswering DEF Others, SameInput
    <3>3. QED
      BY <3>1, <3>2
  <2>11. QED
    BY <1>0, <2>2, <2>10 DEF Failing
<1>4. CASE \E id \in DOMAIN begun[c], m \in load[c].messages : Complete(c, id, m)
  <2>1. PICK id \in DOMAIN begun[c], m \in load[c].messages : Complete(c, id, m)
    BY <1>4
  <2> DEFINE z == [id |-> id, message |-> m]
  <2>2. UNCHANGED <<failed, con, answers, mishaps>>
    BY <2>1 DEF Complete, manager
  <2>3. /\ con[c].state # "none" /\ m \in Seq(Fields) /\ id \in 1 .. Len(begun[c])
        /\ \/ Extends(c, Data(id, m))
           \/ \E k \in PrefixSize .. Len(<<0, Len(m)>> \o m) : Extends(c, Parts(id, m, k))
        /\ asked'[c] = Append(asked[c], z) /\ Others(c, asked, asked')
        /\ Len(begun'[c]) = Len(begun[c]) /\ (\A i \in 1 .. Len(begun[c]) : begun'[c][i].path = begun[c][i].path)
        /\ Others(c, begun, begun')
    BY <2>1, CompleteDoes
  <2>4. asked[c] \in Seq(Question) /\ Len(asked[c]) \in Nat /\ Len(begun[c]) \in Nat
    BY TypesOf
  <2>5. z \in Question /\ z.id = id /\ id \in Nat
    BY <2>3, <2>4 DEF Question
  <2>6. PICK f \in Digits :
          Extends(c, f) /\ Carries(Len(begun[c]), Append(asked[c], z), f, Len(begun[c]), Len(asked[c]))
    <3> HIDE DEF z
    <3>1. z.id \in Nat
      BY <2>5
    <3>2. CASE Extends(c, Data(id, m))
      <4>1. Data(z.id, m) \in Digits /\ Carries(Len(begun[c]), Append(asked[c], z), Data(z.id, m), Len(begun[c]), Len(asked[c]))
        BY <2>3, <2>4, <2>5, <3>1, CallCarried
      <4>2. QED
        BY <2>5, <3>2, <4>1
    <3>3. CASE \E k \in PrefixSize .. Len(<<0, Len(m)>> \o m) : Extends(c, Parts(id, m, k))
      <4>1. PICK k \in PrefixSize .. Len(<<0, Len(m)>> \o m) : Extends(c, Parts(id, m, k))
        BY <3>3
      <4>2. Carries(Len(begun[c]), Append(asked[c], z), Parts(z.id, m, k), Len(begun[c]), Len(asked[c]))
        BY <2>3, <2>4, <2>5, <3>1, PartsCarried
      <4>3. QED
        BY <2>5, <4>1, <4>2 DEF Extends
    <3>4. QED
      BY <2>3, <3>2, <3>3
  <2> HIDE DEF z
  <2>7. Len(asked'[c]) = Len(asked[c]) + 1 /\ asked'[c][Len(asked[c]) + 1] = z
          /\ \A i \in 1 .. Len(asked[c]) : asked'[c][i] = asked[c][i]
    BY <2>3, <2>4, <2>5, AppendHas
  <2>8. AskedBegun(asked'[c], begun'[c])
    <3>1. AskedBegun(asked[c], begun[c])
      BY DEF Answering
    <3>2. ASSUME NEW i \in 1 .. Len(asked'[c]) PROVE asked'[c][i].id \in 1 .. Len(begun'[c])
      <4>1. CASE i = Len(asked[c]) + 1
        BY <2>3, <2>5, <2>7, <4>1
      <4>2. CASE i \in 1 .. Len(asked[c])
        BY <2>3, <2>7, <3>1, <4>2 DEF AskedBegun
      <4>3. i = Len(asked[c]) + 1 \/ i \in 1 .. Len(asked[c])
        BY <2>4, <2>7
      <4>4. QED
        BY <4>1, <4>2, <4>3
    <3>3. QED
      BY <3>2 DEF AskedBegun
  <2>9. wire'[c] = wire[c] \o f /\ \A e \in Connections : e # c => wire'[e] = wire[e]
    BY <2>6 DEF Extends
  <2>10. ASSUME NEW e \in Connections PROVE Answering(e)'
    <3>1. CASE e = c
      <4>1. Len(begun[c]) <= Len(begun'[c]) /\ Len(asked[c]) <= Len(asked'[c])
        BY <2>3, <2>4, <2>7
      <4>2. Carries(Len(begun'[c]), asked'[c], f, Len(begun[c]), Len(asked[c]))
        BY <2>3, <2>6
      <4>3. Answering(c)'
        BY <1>0, <2>2, <2>3, <2>7, <2>8, <2>9, <4>1, <4>2, SentAnswering
      <4>4. QED
        BY <3>1, <4>3
    <3>2. CASE e # c
      BY <2>2, <2>3, <2>9, <3>2, SameAnswering DEF Others, SameInput
    <3>3. QED
      BY <3>1, <3>2
  <2>11. QED
    BY <1>0, <2>2, <2>10 DEF Failing
<1>5. CASE \E frame \in load[c].frames : Control(c, frame)
  <2>1. PICK frame \in load[c].frames : Control(c, frame)
    BY <1>5
  <2> DEFINE f == FrameOf(frame[1], 0, frame[2])
  <2>2. UNCHANGED <<failed, con, begun, asked, answers, mishaps>>
    BY <2>1 DEF Control, manager
  <2>3. /\ con[c].state # "none" /\ Extends(c, f)
        /\ frame[1] \in Nat /\ frame[2] \in Digits /\ Legal(frame[1], Len(frame[2]))
    BY <2>1, ControlDoes
  <2>4. asked[c] \in Seq(Question) /\ Len(asked[c]) \in Nat /\ Len(begun[c]) \in Nat
    BY TypesOf
  <2>5. Carries(Len(begun[c]), asked[c], f, Len(begun[c]), Len(asked[c]))
    <3> DEFINE x == frame[1]
               p == frame[2]
               nb == Len(begun[c])
    <3>1. x \in Nat /\ p \in Digits /\ Legal(x, Len(p)) /\ nb \in Nat /\ f = FrameOf(x, 0, p)
      BY <2>3, <2>4
    <3> HIDE DEF x, p, nb, f
    <3>2. Carries(nb, asked[c], FrameOf(x, 0, p), nb, Len(asked[c]))
      BY <2>4, <3>1, ControlCarried
    <3>3. QED
      BY <3>1, <3>2 DEF nb
  <2> HIDE DEF f
  <2>6. f \in Digits /\ wire'[c] = wire[c] \o f /\ \A e \in Connections : e # c => wire'[e] = wire[e]
    BY <2>3 DEF Extends
  <2>7. AskedBegun(asked'[c], begun'[c])
    BY <2>2 DEF Answering
  <2>8. ASSUME NEW e \in Connections PROVE Answering(e)'
    <3>1. CASE e = c
      <4>1. Len(begun[c]) <= Len(begun'[c]) /\ Len(asked[c]) <= Len(asked'[c])
        BY <2>2, <2>4
      <4>2. Answering(c)'
        BY <1>0, <2>2, <2>3, <2>5, <2>6, <2>7, <4>1, SentAnswering
      <4>3. QED
        BY <3>1, <4>2
    <3>2. CASE e # c
      BY <2>2, <2>6, <3>2, SameAnswering DEF SameInput
    <3>3. QED
      BY <3>1, <3>2
  <2>9. QED
    BY <1>0, <2>2, <2>8 DEF Failing
<1>6. CASE Publish(c)
  <2>1. UNCHANGED <<failed, wire, begun, asked, answers, mishaps>>
    BY <1>6 DEF Publish, client, clients
  <2>2. \A e \in Connections : SameInput(con[e], con'[e])
    BY <1>6, PublishDoes
  <2>3. QED
    BY <1>0, <2>1, <2>2, SameAnswering DEF Failing
<1>7. CASE \E n \in 1 .. Len(wire[c]) : (n = Len(wire[c]) \/ load[c].cut) /\ Read(c, n)
  <2>1. PICK n \in 1 .. Len(wire[c]) : Read(c, n)
    BY <1>7
  <2>2. UNCHANGED <<failed, begun, asked, answers, mishaps>>
    BY <2>1 DEF Read, client
  <2>3. Others(c, con, con') /\ Others(c, wire, wire')
    BY <2>1, ReadDoes
  <2>4. ASSUME NEW e \in Connections PROVE Answering(e)'
    <3>1. CASE e = c
      BY <2>1, <3>1, ReadAnswering
    <3>2. CASE e # c
      BY <2>2, <2>3, <3>2, SameAnswering DEF Others, SameInput
    <3>3. QED
      BY <3>1, <3>2
  <2>5. QED
    BY <1>0, <2>2, <2>4 DEF Failing
<1>8. CASE Process(c)
  <2>1. Others(c, con, con') /\ Others(c, answers, answers') /\ Others(c, mishaps, mishaps') /\ UNCHANGED <<wire, begun, asked>>
    BY <1>8, ProcessDoes
  <2>2. Answering(c)' /\ (failed' => failed \/ mishaps'[c] \cap Misread # {})
    BY <1>8, ProcessAnswering
  <2>3. ASSUME NEW e \in Connections, e # c PROVE Answering(e)'
    BY <2>1, <2>3, SameAnswering DEF Others, SameInput
  <2>4. QED
    BY <1>0, <2>2, <2>3 DEF Failing
<1>9. CASE WriteSome(c)
  <2>1. CASE WriteFails(c)
    <3>1. /\ con'[c] = [con[c] EXCEPT !.state = "closing"] /\ Others(c, con, con')
          /\ mishaps[c] \subseteq mishaps'[c] /\ Others(c, mishaps, mishaps')
          /\ UNCHANGED <<failed, wire, begun, asked, answers>>
      BY <2>1, WriteFailsDoes
    <3>2. ASSUME NEW e \in Connections PROVE Answering(e)'
      <4>1. CASE e = c
        BY <3>1, <4>1, ClosedAnswering
      <4>2. CASE e # c
        BY <3>1, <4>2, SameAnswering DEF Others, SameInput
      <4>3. QED
        BY <4>1, <4>2
    <3>3. QED
      BY <1>0, <3>1, <3>2 DEF Failing
  <2>2. CASE \E n : Write(c, n)
    <3>1. PICK n : Write(c, n)
      BY <2>2
    <3>2. UNCHANGED <<failed, wire, begun, asked, answers>>
      BY <3>1 DEF Write, client, clients
    <3>3. Others(c, con, con') /\ SameInput(con[c], con'[c]) /\ mishaps[c] \subseteq mishaps'[c] /\ Others(c, mishaps, mishaps')
      BY <3>1, WriteDoes
    <3>4. ASSUME NEW e \in Connections PROVE Answering(e)'
      <4>1. SameInput(con[e], con'[e]) /\ mishaps[e] \subseteq mishaps'[e]
        BY <3>3 DEF Others, SameInput
      <4>2. QED
        BY <3>2, <4>1, SameAnswering
    <3>5. QED
      BY <1>0, <3>2, <3>4 DEF Failing
  <2>3. QED
    BY <1>9, <2>1, <2>2 DEF WriteSome
<1>10. CASE Unregister(c)
  <2>1. UNCHANGED <<failed, wire, begun, asked, answers, mishaps>>
    BY <1>10 DEF Unregister, client, clients
  <2>2. Others(c, con, con')
    BY <1>10, UnregisterDoes
  <2>3. ASSUME NEW e \in Connections PROVE Answering(e)'
    <3>1. CASE e = c
      BY <1>10, <2>1, <3>1, UnregisterDoes, ClosedAnswering
    <3>2. CASE e # c
      BY <2>1, <2>2, <3>2, SameAnswering DEF Others, SameInput
    <3>3. QED
      BY <3>1, <3>2
  <2>4. QED
    BY <1>0, <2>1, <2>3 DEF Failing
<1>11. QED
  BY <1>1, <1>2, <1>3, <1>4, <1>5, <1>6, <1>7, <1>8, <1>9, <1>10

(* The calls of a connection are answered once each, on their streams, in  *)
(* the order of their messages and by their paths, and no assertion fails, *)
(* however the streams are cut and whatever other connections do, until    *)
(* one of the mishaps the code is open to: among them that the id of a     *)
(* stream is changed.                                                      *)
THEOREM CallsAreAnswered == Spec => []AnsweredAsAsked
<1> DEFINE Inv == (\A e \in Connections : Answering(e)) /\ Failing
<1>1. Init => Inv
  <2> SUFFICES ASSUME Init PROVE Inv
    OBVIOUS
  <2>1. Failing
    BY DEF Init, Failing
  <2>2. ASSUME NEW e \in Connections PROVE Answering(e)
    <3>1. /\ con[e] = NewConnection(e) /\ wire[e] = <<>> /\ begun[e] = <<>> /\ asked[e] = <<>> /\ answers[e] = <<>>
      BY DEF Init
    <3>2. /\ con[e].fd = e /\ con[e].state = "none" /\ con[e].last = 0 /\ con[e].httpBuf = <<>>
      BY <3>1 DEF NewConnection
    <3>3. AskedBegun(asked[e], begun[e]) /\ Right(begun[e], asked[e], answers[e])
      BY <3>1 DEF AskedBegun, Right
    <3>4. Matches(begun[e], con[e]) /\ Streams(con[e], wire[e], begun[e], asked[e], answers[e])
      BY <3>1, <3>2 DEF Matches, Streams, Reads
    <3>5. QED
      BY <3>2, <3>3, <3>4 DEF Answering
  <2>3. QED
    BY <2>1, <2>2
<1>2. Typed /\ Inv /\ [Next]_vars => Inv'
  <2> SUFFICES ASSUME Typed, Inv, [Next]_vars PROVE Inv'
    OBVIOUS
  <2>1. CASE Next
    BY <2>1, AnsweringKept
  <2>2. CASE UNCHANGED vars
    BY <2>2 DEF vars, manager, client, clients, Answering, Failing
  <2>3. QED
    BY <2>1, <2>2
<1>3. Typed /\ Inv => AnsweredAsAsked
  <2> SUFFICES ASSUME Typed, Inv, NEW c \in Connections, mishaps[c] \cap Misread = {}
               PROVE  IsPrefix(answers[c], [i \in DOMAIN asked[c] |->
                                 [id |-> asked[c][i].id, status |-> Expected(c, asked[c][i].id)]])
    BY DEF AnsweredAsAsked, Failing
  <2> DEFINE r == answers[c]
             a == asked[c]
             z(i) == [id |-> a[i].id, status |-> Expected(c, a[i].id)]
             t == [i \in DOMAIN a |-> z(i)]
  <2>1. /\ Len(r) <= Len(a) /\ (\A i \in 1 .. Len(r) : r[i] = z(i)) /\ AskedBegun(a, begun[c])
    BY DEF Answering, Right, Expected
  <2>2. a \in Seq(Question) /\ Len(a) \in Nat /\ r \in Seq(Answer) /\ Len(r) \in Nat /\ DOMAIN a = 1 .. Len(a)
    BY TypesOf, LenProperties
  <2>3. \A i \in 1 .. Len(a) : z(i) \in Answer
    <3> SUFFICES ASSUME NEW i \in 1 .. Len(a) PROVE z(i) \in Answer
      OBVIOUS
    <3>1. a[i].id \in 1 .. Len(begun[c]) /\ Len(begun[c]) \in Nat
      BY <2>1, TypesOf DEF AskedBegun
    <3>2. a[i].id \in Nat
      BY <3>1
    <3>3. QED
      BY <3>2 DEF Answer, Expected
  <2> HIDE DEF z
  <2>4. t \in Seq(Answer) /\ Len(t) = Len(a) /\ \A i \in 1 .. Len(a) : t[i] = z(i)
    <3> HIDE DEF r, a
    <3>1. t \in [1 .. Len(a) -> Answer] /\ \A i \in 1 .. Len(a) : t[i] = z(i)
      BY <2>2, <2>3
    <3> HIDE DEF t
    <3>2. t \in Seq(Answer)
      BY ONLY <2>2, <3>1, SeqDef
    <3>3. Len(t) = Len(a)
      BY <2>2, <3>1, <3>2, LenProperties
    <3>4. QED
      BY <3>1, <3>2, <3>3
  <2> HIDE DEF r, a, t
  <2>5. SubSeq(r, 1, Len(r)) = r
    BY <2>2, SubSeqFull
  <2>6. SubSeq(t, 1, Len(r)) = r
    <3>1. Len(r) \in Nat /\ Len(r) <= Len(t)
      BY <2>1, <2>2, <2>4
    <3>2. Lesser(Len(r), Len(t)) = Len(r)
      BY <2>2, <2>4, <3>1 DEF Lesser
    <3> DEFINE m == Len(r)
               p == Prefix(t, m)
    <3> HIDE DEF m
    <3>3. p \in Seq(Answer) /\ Len(p) = m /\ \A i \in 1 .. m : p[i] = t[i]
      BY <2>4, <3>1, <3>2, PrefixHas DEF m
    <3>4. p = SubSeq(t, 1, Len(r))
      BY <3>2 DEF Prefix, m
    <3> HIDE DEF p
    <3>5. \A i \in 1 .. m : p[i] = r[i]
      BY <2>1, <2>2, <2>4, <3>3 DEF m
    <3>6. p = r
      BY <2>2, <3>3, <3>5, Same DEF m
    <3>7. QED
      BY <3>4, <3>6
  <2>7. IsPrefix(r, t)
    BY <2>1, <2>4, <2>5, <2>6 DEF IsPrefix
  <2>8. QED
    BY <2>7 DEF r, t, a, z
<1> HIDE DEF Inv
<1>4. QED
  BY <1>1, <1>2, <1>3, TypedInvariant, PTL DEF Spec

=============================================================================
