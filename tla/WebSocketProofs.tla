--------------------------- MODULE WebSocketProofs ---------------------------
(***************************************************************************)
(* Proofs about WebSocket, for every bound, every set of frames and every  *)
(* capacity of the buffers: a connection which got a close frame stays     *)
(* closed, and a handshake leaves nothing behind in the buffers.           *)
(***************************************************************************)
EXTENDS WebSocket, FiniteSetTheorems, SequenceTheorems, WellFoundedInduction, TLAPS

States == {"CONNECTING", "OPEN", "OPEN_DATA", "CLOSING", "CLOSED", "NONE"}

(* What the argument needs of the types: a value for each side. *)
IInv ==
  /\ state \in [Sides -> States]
  /\ got = [s \in Sides |-> got[s]]
  /\ queued = [s \in Sides |-> queued[s]]

Closed(s) == state[s] \in {"CLOSING", "CLOSED"}

(* Nothing that ClosedForGood speaks of changes. *)
Still == UNCHANGED <<state, got, queued>>

(* What ClosedForGood asks of a step. *)
StaysClosed(s) ==
  Closed(s) => /\ state'[s] \in {"CLOSING", "CLOSED", "NONE"}
               /\ got'[s] = got[s] /\ queued'[s] = queued[s]

-----------------------------------------------------------------------------
(* The steps that change something, one lemma each. *)

LEMMA StillKeeps ==
  ASSUME IInv, Still
  PROVE  IInv' /\ \A t \in Sides : StaysClosed(t)
BY DEF IInv, Still, StaysClosed, Closed

LEMMA QueueKeeps ==
  ASSUME IInv, NEW s \in Sides, NEW op, NEW len, Queue(s, op, len)
  PROVE  IInv' /\ \A t \in Sides : StaysClosed(t)
<1> DEFINE f == NextFrame(s, op, len)
<1>1. /\ Opened(s)
      /\ queued' = [queued EXCEPT ![s] = Append(@, f)]
      /\ state' = state /\ got' = got
  BY DEF Queue, QueueFrame, Accepts, input
<1> HIDE DEF f
<1>2. ~Closed(s)
  BY <1>1 DEF Opened, Closed
<1>3. QED
  BY <1>1, <1>2 DEF IInv, StaysClosed, Closed

LEMMA CloseKeeps ==
  ASSUME IInv, NEW s \in Sides, Close(s)
  PROVE  IInv' /\ \A t \in Sides : StaysClosed(t)
<1>1. state' = [state EXCEPT ![s] = "NONE"] /\ got' = got /\ queued' = queued
  BY DEF Close
<1>2. QED
  BY <1>1 DEF IInv, StaysClosed, Closed, States

LEMMA OpenKeeps ==
  ASSUME IInv, NEW s \in Sides, Open(s)
  PROVE  IInv' /\ \A t \in Sides : StaysClosed(t)
<1>1. /\ state[s] = "CONNECTING"
      /\ state' = [state EXCEPT ![s] = "OPEN"]
      /\ got' = got /\ queued' = queued
  BY DEF Open
<1>2. QED
  BY <1>1 DEF IInv, StaysClosed, Closed, States

LEMMA DoOpenKeeps ==
  ASSUME IInv, NEW s \in Sides, DoOpen(s)
  PROVE  IInv' /\ \A t \in Sides : StaysClosed(t)
<1>1. /\ state[s] = "OPEN"
      /\ state' = [state EXCEPT ![s] = "OPEN_DATA"]
      /\ got' = got /\ queued' = queued
  BY DEF DoOpen, output
<1>2. QED
  BY <1>1 DEF IInv, StaysClosed, Closed, States

(* A frame is taken, and a ping answered, only while the state is          *)
(* OPEN_DATA.                                                              *)
LEMMA DoOpenDataKeeps ==
  ASSUME IInv, NEW s \in Sides, DoOpenData(s)
  PROVE  IInv' /\ \A t \in Sides : StaysClosed(t)
<1> DEFINE f    == frame[s].of
           g    == [frame |-> f, payload |-> Prefix(stream[s], frame[s].len)]
           pong == NextFrame(s, "pong", frame[s].len)
           next == AfterFrame(frame[s].of.op)
<1>1. /\ state[s] = "OPEN_DATA"
      /\ got' = [got EXCEPT ![s][f.via] = Append(@, g)]
      /\ state' = [state EXCEPT ![s] = next]
  BY DEF DoOpenData
<1>2. \/ queued' = [queued EXCEPT ![s] = Append(@, pong)]
      \/ queued' = queued
  BY DEF DoOpenData, QueueFrame, output
<1>3. next \in {"OPEN", "CLOSING"}
  BY DEF AfterFrame
<1> HIDE DEF f, g, pong, next
<1>4. ~Closed(s)
  BY <1>1 DEF Closed
<1>5. IInv'
  BY <1>1, <1>2, <1>3 DEF IInv, States
<1>6. ASSUME NEW t \in Sides PROVE StaysClosed(t)
  <2>1. CASE t = s
    BY <1>4, <2>1 DEF StaysClosed
  <2>2. CASE t # s
    BY <1>1, <1>2, <2>2 DEF IInv, StaysClosed, Closed
  <2>3. QED
    BY <2>1, <2>2
<1>7. QED
  BY <1>5, <1>6

LEMMA EndClosingKeeps ==
  ASSUME IInv, NEW s \in Sides, EndClosing(s)
  PROVE  IInv' /\ \A t \in Sides : StaysClosed(t)
<1>1. /\ state' = [state EXCEPT ![s] = "CLOSED"]
      /\ got' = got /\ queued' = queued
  BY DEF EndClosing, output
<1>2. QED
  BY <1>1 DEF IInv, StaysClosed, Closed, States

-----------------------------------------------------------------------------
LEMMA ProgramKeeps ==
  ASSUME IInv, Program
  PROVE  IInv' /\ \A t \in Sides : StaysClosed(t)
<1>1. CASE Stream
  <2>1. Still
    BY <1>1 DEF Stream, Still, input
  <2>2. QED
    BY <2>1, StillKeeps
<1>2. ASSUME NEW s \in Sides, NEW send \in Sends[s], Queue(s, send[1], send[2])
      PROVE  IInv' /\ \A t \in Sides : StaysClosed(t)
  BY <1>2, QueueKeeps
<1>3. ASSUME NEW len \in Lengths, Publish(len)
      PROVE  IInv' /\ \A t \in Sides : StaysClosed(t)
  <2>1. Still
    BY <1>3 DEF Publish, Still, input
  <2>2. QED
    BY <2>1, StillKeeps
<1>4. ASSUME NEW s \in Sides, Unregister(s)
      PROVE  IInv' /\ \A t \in Sides : StaysClosed(t)
  BY <1>4, CloseKeeps DEF Unregister
<1>5. QED
  BY <1>1, <1>2, <1>3, <1>4 DEF Program

LEMMA RoundsKeep ==
  ASSUME IInv, NEW s \in Sides, Rounds(s)
  PROVE  IInv' /\ \A t \in Sides : StaysClosed(t)
<1>1. CASE Wait(s)
  <2>1. Still
    BY <1>1 DEF Wait, Still, output
  <2>2. QED
    BY <2>1, StillKeeps
<1>2. CASE Open(s)
  BY <1>2, OpenKeeps
<1>3. CASE DoOpen(s)
  BY <1>3, DoOpenKeeps
<1>4. CASE DoOpenData(s)
  BY <1>4, DoOpenDataKeeps
<1>5. CASE EndClosing(s)
  BY <1>5, EndClosingKeeps
<1>6. QED
  BY <1>1, <1>2, <1>3, <1>4, <1>5
  DEF Rounds, ProcessState, KeepConnecting, KeepOpen, KeepWaiting, KeepClosed

LEMMA ReadsKeep ==
  ASSUME IInv, NEW s \in Sides, Reads(s)
  PROVE  IInv' /\ \A t \in Sides : StaysClosed(t)
<1>1. Still
  BY DEF Reads, Read, Still, output
<1>2. QED
  BY <1>1, StillKeeps

LEMMA WritesKeep ==
  ASSUME IInv, NEW s \in Sides, Writes(s)
  PROVE  IInv' /\ \A t \in Sides : StaysClosed(t)
<1>1. Still \/ Close(s)
  BY DEF Writes, WriteBuffer, WritePublished, WriteFails, Still, input
<1>2. QED
  BY <1>1, StillKeeps, CloseKeeps

LEMMA StepKeeps ==
  ASSUME IInv, [Next]_vars
  PROVE  IInv' /\ \A t \in Sides : StaysClosed(t)
<1>1. CASE Program
  BY <1>1, ProgramKeeps
<1>2. ASSUME NEW s \in Sides, Reads(s) \/ Rounds(s) \/ Writes(s)
      PROVE  IInv' /\ \A t \in Sides : StaysClosed(t)
  BY <1>2, ReadsKeep, RoundsKeep, WritesKeep
<1>3. CASE UNCHANGED vars
  <2>1. Still
    BY <1>3 DEF vars, input, output, Still
  <2>2. QED
    BY <2>1, StillKeeps
<1>4. QED
  BY <1>1, <1>2, <1>3 DEF Next

(* Every reachable state has a value for each side. *)
THEOREM IInvInvariant == Spec => []IInv
<1>1. Init => IInv
  BY DEF Init, IInv, States
<1>2. IInv /\ [Next]_vars => IInv'
  BY StepKeeps
<1>3. QED
  BY <1>1, <1>2, PTL DEF Spec

(* Once a close frame was taken, the connection delivers and queues        *)
(* nothing more and never opens again, whatever still arrives and whatever *)
(* the program queues (the states of ProcessState, and the test of the     *)
(* state in Queue).                                                        *)
THEOREM StaysClosedForGood == Spec => ClosedForGood
<1>1. IInv /\ [Next]_vars =>
        [\A s \in Sides : state[s] \in {"CLOSING", "CLOSED"} =>
           /\ state'[s] \in {"CLOSING", "CLOSED", "NONE"}
           /\ got'[s] = got[s] /\ queued'[s] = queued[s]]_vars
  BY StepKeeps DEF StaysClosed, Closed
<1>2. QED
  BY <1>1, IInvInvariant, PTL DEF Spec, ClosedForGood

-----------------------------------------------------------------------------
(* Sequences and maxima. *)

(* A set of naturals has a least element: the order of the naturals is     *)
(* well founded.                                                           *)
LEMMA LeastNumber ==
  ASSUME NEW T, T \subseteq Nat, T # {}
  PROVE  \E x \in T : \A y \in T : x <= y
<1> DEFINE Before == {p \in Nat \X Nat : p[1] < p[2]}
<1>1. Before = OpToRel(<, Nat)
  BY Zenon DEF OpToRel
<1>2. IsWellFoundedOn(Before, Nat)
  BY <1>1, NatLessThanWellFounded, Zenon
<1>3. PICK x \in T : \A y \in T : ~(<<y, x>> \in Before)
  <2> HIDE DEF Before
  <2>1. QED
    BY <1>2, WFMin
<1>4. ASSUME NEW y \in T PROVE x <= y
  <2>1. x \in Nat /\ y \in Nat /\ ~(<<y, x>> \in Before)
    BY <1>3
  <2>2. <<y, x>> \in Nat \X Nat /\ <<y, x>>[1] = y /\ <<y, x>>[2] = x
    BY <2>1
  <2>3. ~(y < x)
    BY <2>1, <2>2, Zenon
  <2>4. QED
    BY <2>1, <2>3
<1>5. QED
  BY <1>4

(* Max is what it is named for.                                            *)
LEMMA Maximum ==
  ASSUME NEW n \in Nat, NEW T \in SUBSET (0 .. n), T # {}
  PROVE  Max(T) \in T /\ \A y \in T : y <= Max(T)
<1> DEFINE U == {k \in 0 .. n : n - k \in T}
<1>1. U \subseteq Nat /\ U # {}
  <2>1. PICK t \in T : TRUE
    OBVIOUS
  <2>2. n - t \in 0 .. n /\ n - (n - t) = t
    BY <2>1
  <2>3. n - t \in U
    BY <2>2
  <2>4. QED
    BY <2>3
<1>2. PICK x \in U : \A y \in U : x <= y
  BY <1>1, LeastNumber
<1>3. n - x \in T
  BY <1>2
<1>4. ASSUME NEW y \in T PROVE y <= n - x
  <2>1. n - y \in U
    OBVIOUS
  <2>2. x <= n - y
    BY <2>1, <1>2
  <2>3. QED
    BY <2>2
<1>5. \E m \in T : \A y \in T : m >= y
  BY <1>3, <1>4
<1>6. Max(T) \in T /\ \A y \in T : Max(T) >= y
  BY <1>5 DEF Max
<1>7. QED
  BY <1>6

LEMMA PrefixHas ==
  ASSUME NEW E, NEW u \in Seq(E), NEW n \in 0 .. Len(u)
  PROVE  /\ Prefix(u, n) \in Seq(E) /\ Len(Prefix(u, n)) = n
         /\ \A i \in 1 .. n : Prefix(u, n)[i] = u[i]
<1>1. Len(u) \in Nat /\ \A i \in 1 .. n : u[i] \in E
  BY LenProperties
<1>2. QED
  BY <1>1, SubSeqProperties DEF Prefix

LEMMA RestHas ==
  ASSUME NEW E, NEW u \in Seq(E), NEW n \in 0 .. Len(u)
  PROVE  /\ Rest(u, n) \in Seq(E) /\ Len(Rest(u, n)) = Len(u) - n
         /\ \A i \in 1 .. Len(u) - n : Rest(u, n)[i] = u[n + i]
<1>1. Len(u) \in Nat /\ \A i \in n + 1 .. Len(u) : u[i] \in E
  BY LenProperties
<1>2. /\ Rest(u, n) \in Seq(E)
      /\ Len(Rest(u, n)) = IF n + 1 <= Len(u) THEN Len(u) - (n + 1) + 1 ELSE 0
      /\ \A i \in 1 .. Len(u) - (n + 1) + 1 : Rest(u, n)[i] = u[(n + 1) + i - 1]
  BY <1>1, SubSeqProperties DEF Rest
<1>3. Len(Rest(u, n)) = Len(u) - n /\ Len(u) - (n + 1) + 1 = Len(u) - n
  BY <1>1, <1>2
<1>4. \A i \in 1 .. Len(u) - n : (n + 1) + i - 1 = n + i
  BY <1>1
<1>5. QED
  BY <1>2, <1>3, <1>4

(* What is taken from a sequence and what is left make up the sequence.    *)
LEMMA Moved ==
  ASSUME NEW E, NEW v \in Seq(E), NEW u \in Seq(E), NEW n \in 0 .. Len(u)
  PROVE  (v \o Prefix(u, n)) \o Rest(u, n) = v \o u
<1>1. Prefix(u, n) \o Rest(u, n) = u
  <2>1. Len(u) \in Nat /\ SubSeq(u, 1, Len(u)) = u
    BY LenProperties, SubSeqFull
  <2>2. 1 \in 1 .. Len(u) + 1 /\ n \in 1 - 1 .. Len(u) /\ Len(u) \in n .. Len(u)
    BY <2>1
  <2>4. SubSeq(u, 1, n) \o SubSeq(u, n + 1, Len(u)) = SubSeq(u, 1, Len(u))
    BY ONLY <2>2, u \in Seq(E), ConcatAdjacentSubSeq
  <2>3. QED
    BY <2>1, <2>4 DEF Prefix, Rest
<1>2. Prefix(u, n) \in Seq(E) /\ Rest(u, n) \in Seq(E)
  BY PrefixHas, RestHas
<1>3. (v \o Prefix(u, n)) \o Rest(u, n) = v \o (Prefix(u, n) \o Rest(u, n))
  <2> DEFINE a == Prefix(u, n)
             b == Rest(u, n)
  <2> HIDE DEF a, b
  <2>1. a \in Seq(E) /\ b \in Seq(E)
    BY <1>2 DEF a, b
  <2>2. (v \o a) \o b = v \o (a \o b)
    BY <2>1, ConcatAssociative
  <2>3. QED
    BY <2>2 DEF a, b
<1>4. QED
  BY <1>1, <1>3

-----------------------------------------------------------------------------
(* Units and lines. *)

UnitType == [kind : Kinds, frame : Frames, at : Nat]

NoLines(u) == \A i \in 1 .. Len(u) : ~IsLine(u[i])

(* The first j units are lines, those behind are not, and no line but the  *)
(* last of them is blank.                                                  *)
Lead(u, j) ==
  /\ \A i \in 1 .. j : IsLine(u[i])
  /\ \A i \in 1 .. j - 1 : u[i].kind # "blank"
  /\ \A i \in j + 1 .. Len(u) : ~IsLine(u[i])

(* The lines a sequence begins with end in the blank one. *)
Begins(u) == \E j \in 1 .. Len(u) : Lead(u, j) /\ u[j].kind = "blank"

(* It is a handshake whose end is missing. *)
CutShort(u) == Lead(u, Len(u))

LEMMA NoLinesOfBoth ==
  ASSUME NEW E, NEW u \in Seq(E), NEW v \in Seq(E), NoLines(u), NoLines(v)
  PROVE  NoLines(u \o v)
<1>1. Len(u) \in Nat /\ Len(v) \in Nat /\ Len(u \o v) = Len(u) + Len(v)
  BY LenProperties, ConcatProperties
<1>2. ASSUME NEW i \in 1 .. Len(u) + Len(v) PROVE ~IsLine((u \o v)[i])
  <2>1. (u \o v)[i] = IF i <= Len(u) THEN u[i] ELSE v[i - Len(u)]
    BY ConcatProperties
  <2>2. CASE i <= Len(u)
    BY <1>1, <2>1, <2>2 DEF NoLines
  <2>3. CASE ~(i <= Len(u))
    <3>1. i - Len(u) \in 1 .. Len(v)
      BY <1>1, <2>3
    <3>2. QED
      BY <3>1, <2>1, <2>3 DEF NoLines
  <2>4. QED
    BY <2>2, <2>3
<1>3. QED
  BY <1>1, <1>2 DEF NoLines

LEMMA NoLinesOfParts ==
  ASSUME NEW E, NEW u \in Seq(E), NEW v \in Seq(E), NoLines(u \o v)
  PROVE  NoLines(u) /\ NoLines(v)
<1>1. Len(u) \in Nat /\ Len(v) \in Nat /\ Len(u \o v) = Len(u) + Len(v)
  BY LenProperties, ConcatProperties
<1>2. ASSUME NEW i \in 1 .. Len(u) PROVE ~IsLine(u[i])
  <2>1. i \in 1 .. Len(u) + Len(v) /\ (u \o v)[i] = u[i]
    BY <1>1, ConcatProperties
  <2>2. QED
    BY <1>1, <2>1 DEF NoLines
<1>3. ASSUME NEW i \in 1 .. Len(v) PROVE ~IsLine(v[i])
  <2>1. Len(u) + i \in 1 .. Len(u) + Len(v) /\ ~(Len(u) + i <= Len(u)) /\ (Len(u) + i) - Len(u) = i
    BY <1>1
  <2>2. (u \o v)[Len(u) + i] = v[i]
    BY <2>1, ConcatProperties
  <2>3. QED
    BY <1>1, <2>1, <2>2 DEF NoLines
<1>4. QED
  BY <1>2, <1>3 DEF NoLines

LEMMA NoLinesOfPieces ==
  ASSUME NEW E, NEW u \in Seq(E), NEW n \in 0 .. Len(u), NoLines(u)
  PROVE  NoLines(Prefix(u, n)) /\ NoLines(Rest(u, n))
<1>1. Len(u) \in Nat
  BY LenProperties
<1>2. /\ Len(Prefix(u, n)) = n /\ \A i \in 1 .. n : Prefix(u, n)[i] = u[i]
      /\ Len(Rest(u, n)) = Len(u) - n /\ \A i \in 1 .. Len(u) - n : Rest(u, n)[i] = u[n + i]
  BY PrefixHas, RestHas
<1>3. \A i \in 1 .. n : i \in 1 .. Len(u)
  BY <1>1
<1>4. \A i \in 1 .. Len(u) - n : n + i \in 1 .. Len(u)
  BY <1>1
<1>5. QED
  BY <1>2, <1>3, <1>4 DEF NoLines

LEMMA LinesHave ==
  ASSUME NEW name \in {"first", "blank"} \cup Headers
  PROVE  Line(name) \in UnitType /\ IsLine(Line(name)) /\ Line(name).kind = name
<1>1. NoFrame \in Frames
  BY DEF NoFrame, Frame, Frames, Ways
<1>2. name \in Kinds
  BY DEF Kinds
<1>3. QED
  BY <1>1, <1>2 DEF Line, Unit, UnitType, IsLine

(* How many units a frame has.                                             *)
Size(f) == HeaderUnits(f) + f.len

LEMMA SizeIs ==
  ASSUME NEW f \in Frames
  PROVE  /\ HeaderUnits(f) \in 1 .. 3 /\ HeaderUnits(f) \in Nat /\ Size(f) \in Nat \ {0}
         /\ f.len \in Nat /\ Size(f) = HeaderUnits(f) + f.len
BY DEF Frames, Ways, Size, HeaderUnits, LengthUnits, MaskUnits

LEMMA UnitIs ==
  ASSUME NEW f \in Frames, NEW i \in Nat
  PROVE  /\ Unit(KindAt(f, i), f, i) \in UnitType /\ ~IsLine(Unit(KindAt(f, i), f, i))
         /\ KindAt(f, i) = "start" <=> i = 1
<1>1. LengthUnits(f) \in 0 .. 1 /\ MaskUnits(f) \in 0 .. 1 /\ HeaderUnits(f) = 1 + LengthUnits(f) + MaskUnits(f)
  BY DEF HeaderUnits, LengthUnits, MaskUnits
<1>2. KindAt(f, i) \in {"start", "length", "mask", "payload"} /\ (KindAt(f, i) = "start" <=> i = 1)
  BY <1>1 DEF KindAt
<1>3. KindAt(f, i) \in Kinds /\ KindAt(f, i) \notin {"first", "blank"} \cup Headers
  BY <1>2, HeadersAssumption DEF Kinds
<1>4. QED
  BY <1>2, <1>3 DEF Unit, UnitType, IsLine

LEMMA UnitsHave ==
  ASSUME NEW f \in Frames
  PROVE  /\ Units(f) \in Seq(UnitType) /\ NoLines(Units(f)) /\ Len(Units(f)) = Size(f)
         /\ \A i \in 1 .. Size(f) : Units(f)[i] = Unit(KindAt(f, i), f, i)
<1>1. Size(f) \in Nat /\ Units(f) = [i \in 1 .. Size(f) |-> Unit(KindAt(f, i), f, i)]
  BY SizeIs DEF Units, Size
<1>2. \A i \in 1 .. Size(f) : Unit(KindAt(f, i), f, i) \in UnitType /\ ~IsLine(Unit(KindAt(f, i), f, i))
  BY <1>1, UnitIs
<1>3. QED
  BY <1>1, <1>2 DEF NoLines

(* The handshake is lines, of which the last is blank, and finds room in   *)
(* an empty buffer.                                                        *)
LEMMA HandshakeHas ==
  ASSUME NEW names \in SUBSET Headers, Cardinality(names) + 2 <= Capacity
  PROVE  /\ Handshake(names) \in Seq(UnitType) /\ Handshake(names) # <<>>
         /\ Len(Handshake(names)) <= Capacity
         /\ Begins(Handshake(names))
         /\ \A i \in 1 .. Len(Handshake(names)) : IsLine(Handshake(names)[i])
<1> DEFINE set == {Line(h) : h \in names}
           mid == SetToSeq(set)
           n   == Cardinality(set)
           map == [h \in names |-> Line(h)]
<1>0. IsFiniteSet(names)
  BY HeadersAssumption, FS_Subset
<1>1. IsFiniteSet(set) /\ n <= Cardinality(names)
  <2>1. map \in Surjection(names, set)
    BY DEF Surjection
  <2>2. QED
    <3> HIDE DEF set, map
    <3>1. QED
      BY <1>0, <2>1, FS_Surjection
<1>2. n \in Nat /\ Cardinality(names) \in Nat
  BY <1>0, <1>1, FS_CardinalityType
<1>3. mid \in [1 .. n -> set]
  <2>1. ExistsBijection(1 .. n, set)
    BY <1>1, FS_CardinalityType
  <2>2. \E f \in [1 .. n -> set] : IsInjective(f)
    BY <2>1 DEF ExistsBijection, Bijection, Injection, IsInjective
  <2>3. QED
    BY <2>2 DEF SetToSeq
<1>4. /\ \A i \in 1 .. n : mid[i] \in UnitType /\ IsLine(mid[i]) /\ mid[i].kind # "blank"
  <2>1. \A h \in names : Line(h) \in UnitType /\ IsLine(Line(h)) /\ Line(h).kind # "blank"
    BY LinesHave, HeadersAssumption
  <2>2. QED
    BY <1>3, <2>1
<1>5. mid \in Seq(UnitType) /\ Len(mid) = n
  BY <1>2, <1>3, <1>4
<1> DEFINE a == Line("first")
           z == Line("blank")
<1>6. Handshake(names) = (<<a>> \o mid) \o <<z>>
  BY DEF Handshake
<1>7. /\ a \in UnitType /\ IsLine(a) /\ a.kind # "blank"
      /\ z \in UnitType /\ IsLine(z) /\ z.kind = "blank"
  BY LinesHave
<1> HIDE DEF set, mid, n, a, z
<1>8. <<a>> \in Seq(UnitType) /\ <<z>> \in Seq(UnitType) /\ Len(<<a>>) = 1 /\ Len(<<z>>) = 1
  BY <1>7
<1>9. /\ <<a>> \o mid \in Seq(UnitType) /\ Len(<<a>> \o mid) = 1 + n
      /\ \A i \in 1 .. 1 + n : (<<a>> \o mid)[i] = IF i <= 1 THEN <<a>>[i] ELSE mid[i - 1]
  BY <1>5, <1>8, ConcatProperties
<1>10. /\ Handshake(names) \in Seq(UnitType) /\ Len(Handshake(names)) = n + 2
       /\ \A i \in 1 .. n + 2 : Handshake(names)[i] = IF i <= 1 + n THEN (<<a>> \o mid)[i] ELSE <<z>>[i - (1 + n)]
  <2> DEFINE front == <<a>> \o mid
  <2> HIDE DEF front
  <2>1. front \in Seq(UnitType) /\ Len(front) = 1 + n
    BY <1>9 DEF front
  <2>2. /\ front \o <<z>> \in Seq(UnitType) /\ Len(front \o <<z>>) = Len(front) + Len(<<z>>)
        /\ \A i \in 1 .. Len(front) + Len(<<z>>) : (front \o <<z>>)[i] =
              IF i <= Len(front) THEN front[i] ELSE <<z>>[i - Len(front)]
    BY <2>1, <1>8, ConcatProperties
  <2>3. Len(front) + Len(<<z>>) = n + 2
    BY <2>1, <1>8, <1>2
  <2>4. QED
    BY <2>1, <2>2, <2>3, <1>6 DEF front
<1>11. \A i \in 1 .. n + 1 : IsLine(Handshake(names)[i]) /\ Handshake(names)[i].kind # "blank"
  <2> SUFFICES ASSUME NEW i \in 1 .. n + 1
               PROVE  IsLine(Handshake(names)[i]) /\ Handshake(names)[i].kind # "blank"
    OBVIOUS
  <2>4. i \in 1 .. n + 2 /\ i <= 1 + n
    BY <1>2
  <2>1. Handshake(names)[i] = IF i <= 1 + n THEN (<<a>> \o mid)[i] ELSE <<z>>[i - (1 + n)]
    BY <2>4, <1>10, Zenon
  <2>5. Handshake(names)[i] = (<<a>> \o mid)[i]
    BY <2>1, <2>4
  <2>2. CASE i = 1
    BY <2>5, <2>2, <1>2, <1>9, <1>7
  <2>3. CASE i # 1
    <3>1. i - 1 \in 1 .. n /\ ~(i <= 1) /\ i \in 1 .. 1 + n
      BY <2>3, <1>2
    <3>2. Handshake(names)[i] = mid[i - 1]
      BY <2>5, <3>1, <1>9
    <3>3. QED
      BY <3>1, <3>2, <1>4
  <2>6. QED
    BY <2>2, <2>3
<1>12. Handshake(names)[n + 2] = z
  <2>1. n + 2 \in 1 .. n + 2 /\ ~(n + 2 <= 1 + n) /\ (n + 2) - (1 + n) = 1
    BY <1>2
  <2>2. QED
    BY <2>1, <1>10
<1>13. Begins(Handshake(names))
  <2>1. n + 2 \in 1 .. Len(Handshake(names)) /\ (n + 2) - 1 = n + 1
    BY <1>2, <1>10
  <2>2. \A i \in 1 .. n + 2 : IsLine(Handshake(names)[i])
    BY <1>2, <1>11, <1>12, <1>7
  <2>3. \A i \in n + 2 + 1 .. Len(Handshake(names)) : FALSE
    BY <1>2, <1>10
  <2>4. Lead(Handshake(names), n + 2)
    BY <2>1, <2>2, <2>3, <1>11 DEF Lead
  <2>5. QED
    BY <2>1, <2>4, <1>12, <1>7 DEF Begins
<1>14. Len(Handshake(names)) <= Capacity /\ Handshake(names) # <<>>
  BY <1>1, <1>2, <1>10, BoundsAssumption
<1>15. ASSUME NEW i \in 1 .. Len(Handshake(names)) PROVE IsLine(Handshake(names)[i])
  <2>1. i \in 1 .. n + 1 \/ i = n + 2
    BY <1>2, <1>10
  <2>2. QED
    BY <2>1, <1>7, <1>11, <1>12
<1>16. QED
  BY <1>10, <1>13, <1>14, <1>15

(* What a handshake of the two sides is.                                   *)
LEMMA HandshakesAre ==
  ASSUME NEW names \in {Asked, Answered, Wanted["client"]}
  PROVE  /\ Handshake(names) \in Seq(UnitType) /\ Handshake(names) # <<>>
         /\ Len(Handshake(names)) <= Capacity
         /\ Begins(Handshake(names))
         /\ \A i \in 1 .. Len(Handshake(names)) : IsLine(Handshake(names)[i])
<1>1. names \in SUBSET Headers
  BY DEF Headers
<1>2. Cardinality(names) + 2 <= Capacity
  <2>1. IsFiniteSet(Wanted["client"]) /\ Wanted["client"] \subseteq Headers
    BY HeadersAssumption, FS_Subset DEF Headers
  <2>2. /\ Cardinality(Answered) <= Cardinality(Wanted["client"])
        /\ Cardinality(Answered) \in Nat /\ Cardinality(Wanted["client"]) \in Nat
    BY <2>1, HeadersAssumption, FS_Subset, FS_CardinalityType
  <2>3. QED
    BY <2>2, HeadersAssumption, BoundsAssumption
<1>3. QED
  BY <1>1, <1>2, HandshakeHas

LEMMA RequestHas ==
  /\ Handshake(Asked) \in Seq(UnitType) /\ Handshake(Asked) # <<>>
  /\ Len(Handshake(Asked)) <= Capacity
  /\ Begins(Handshake(Asked))
  /\ \A i \in 1 .. Len(Handshake(Asked)) : IsLine(Handshake(Asked)[i])
BY HandshakesAre

LEMMA AnswerHas ==
  /\ Handshake(Answer) \in Seq(UnitType) /\ Handshake(Answer) # <<>>
  /\ Len(Handshake(Answer)) <= Capacity
  /\ Begins(Handshake(Answer))
  /\ \A i \in 1 .. Len(Handshake(Answer)) : IsLine(Handshake(Answer)[i])
<1>1. Answer \in {Asked, Answered, Wanted["client"]}
  BY DEF Answer
<1> HIDE DEF Answer
<1>2. QED
  BY <1>1, HandshakesAre

(* What HandleHTTP takes.                                                  *)
LEMMA LinesHas ==
  ASSUME NEW u \in Seq(UnitType)
  PROVE  /\ Lines(u) \in 0 .. Len(u)
         /\ \A j \in 1 .. Lines(u) : IsLine(u[j]) /\ (u[j].kind = "blank" => j = Lines(u))
         /\ \A i \in 0 .. Len(u) :
              (\A j \in 1 .. i : IsLine(u[j]) /\ (u[j].kind = "blank" => j = i)) => i <= Lines(u)
<1> DEFINE T == {i \in 0 .. Len(u) : \A j \in 1..i : IsLine(u[j]) /\ (u[j].kind = "blank" => j = i)}
<1>1. Len(u) \in Nat
  BY LenProperties
<1>2. 0 \in T
  BY <1>1
<1>3. T \in SUBSET (0 .. Len(u))
  OBVIOUS
<1>4. Max(T) \in T /\ \A y \in T : y <= Max(T)
  <2> HIDE DEF T
  <2>1. QED
    BY <1>1, <1>2, <1>3, Maximum
<1>5. Lines(u) = Max(T)
  BY DEF Lines
<1>6. QED
  BY <1>4, <1>5

LEMMA NoneTaken ==
  ASSUME NEW u \in Seq(UnitType), NoLines(u)
  PROVE  Lines(u) = 0
<1>1. Len(u) \in Nat /\ Lines(u) \in 0 .. Len(u) /\ \A j \in 1 .. Lines(u) : IsLine(u[j])
  BY LenProperties, LinesHas
<1>2. ~(Lines(u) >= 1)
  <2> SUFFICES ASSUME Lines(u) >= 1 PROVE FALSE
    OBVIOUS
  <2>1. 1 \in 1 .. Lines(u) /\ 1 \in 1 .. Len(u)
    BY <1>1
  <2>2. QED
    BY <2>1, <1>1 DEF NoLines
<1>3. QED
  BY <1>1, <1>2

(* All lines of a handshake are taken once its blank line is there, and at *)
(* least one before.                                                       *)
LEMMA LeadTaken ==
  ASSUME NEW u \in Seq(UnitType), NEW j \in 1 .. Len(u), Lead(u, j)
  PROVE  Lines(u) > 0 /\ (u[j].kind = "blank" => Lines(u) = j)
<1>1. /\ Len(u) \in Nat /\ Lines(u) \in 0 .. Len(u)
      /\ \A i \in 1 .. Lines(u) : IsLine(u[i]) /\ (u[i].kind = "blank" => i = Lines(u))
  BY LenProperties, LinesHas
<1>2. 1 <= Lines(u)
  <2>1. 1 \in 0 .. Len(u) /\ 1 \in 1 .. j
    BY <1>1
  <2>2. \A i \in 1 .. 1 : IsLine(u[i]) /\ (u[i].kind = "blank" => i = 1)
    BY <2>1 DEF Lead
  <2>3. QED
    BY <2>1, <2>2, LinesHas, Zenon
<1>3. ASSUME u[j].kind = "blank" PROVE j <= Lines(u)
  <2>1. \A i \in 1 .. j : IsLine(u[i]) /\ (u[i].kind = "blank" => i = j)
    <3> SUFFICES ASSUME NEW i \in 1 .. j
                 PROVE  IsLine(u[i]) /\ (u[i].kind = "blank" => i = j)
      OBVIOUS
    <3>1. i = j \/ i \in 1 .. j - 1
      OBVIOUS
    <3>2. QED
      BY <3>1 DEF Lead
  <2>2. j \in 0 .. Len(u)
    BY <1>1
  <2>3. QED
    BY <2>1, <2>2, LinesHas, Zenon
<1>4. ASSUME u[j].kind = "blank" PROVE Lines(u) = j
  <2>1. j \in 1 .. Lines(u)
    BY <1>1, <1>3, <1>4
  <2>2. QED
    BY <2>1, <1>1, <1>4
<1>5. QED
  BY <1>1, <1>2, <1>4

-----------------------------------------------------------------------------
(* The types of the variables, whatever happens.                           *)
Typed ==
  /\ state \in [Sides -> States]
  /\ first \in [Sides -> BOOLEAN] /\ headers \in [Sides -> SUBSET Headers]
  /\ processing \in [Sides -> BOOLEAN] /\ watched \in [Sides -> BOOLEAN]
  /\ http \in [Sides -> Seq(UnitType)] /\ stream \in [Sides -> Seq(UnitType)]
  /\ writeBuf \in [Sides -> Seq(UnitType)] /\ wire \in [Sides -> Seq(UnitType)]
  /\ publish \in Seq(UnitType)
  /\ frame \in [Sides -> [of : Frames, len : Nat]]
  /\ queued \in [Sides -> Seq(Frames)] /\ published \in Seq(Frames)
  /\ asked \in BOOLEAN /\ failed \in BOOLEAN /\ mishaps \subseteq Mishaps

LEMMA OtherSide == \A s \in Sides : Other(s) \in Sides /\ Other(Other(s)) = s /\ Other(s) # s
BY DEF Sides, Other

LEMMA NextFrameHas ==
  ASSUME Typed, NEW s \in Sides, NEW op \in Ops, NEW len \in Nat
  PROVE  NextFrame(s, op, len) \in Frames
<1>1. Len(queued[s]) \in Nat
  BY LenProperties DEF Typed
<1>2. QED
  BY <1>1 DEF NextFrame, Frame, Frames, Ways

LEMMA PiecesAre ==
  ASSUME NEW u \in Seq(UnitType), NEW n \in Pieces(u)
  PROVE  n \in 1 .. Len(u)
<1>1. u # <<>> /\ Len(u) \in Nat /\ Len(u) # 0
  BY LenProperties DEF Pieces
<1>2. QED
  BY <1>1 DEF Pieces

(* What QueueFrame pushes, and that it finds room.                         *)
LEMMA PushedHas ==
  ASSUME Typed, NEW s \in Sides, NEW f \in Frames,
         Len(writeBuf[s]) <= Capacity
  PROVE  \E u \in Seq(UnitType) :
           /\ NoLines(u) /\ Pushed(s, f) = writeBuf[s] \o u
           /\ Pushed(s, f) \in Seq(UnitType) /\ Len(Pushed(s, f)) <= Capacity
<1> DEFINE n == Lesser(Free(s), Len(Units(f)))
           u == Prefix(Units(f), n)
<1>1. /\ writeBuf[s] \in Seq(UnitType) /\ Len(writeBuf[s]) \in Nat
      /\ Units(f) \in Seq(UnitType) /\ NoLines(Units(f)) /\ Len(Units(f)) \in Nat
  BY UnitsHave, LenProperties DEF Typed
<1>2. n \in 0 .. Len(Units(f)) /\ n <= Capacity - Len(writeBuf[s])
  <2> DEFINE a == Capacity - Len(writeBuf[s])
             k == Len(Units(f))
  <2>1. a \in Nat /\ k \in Nat
    BY <1>1, BoundsAssumption
  <2>2. n = IF a < k THEN a ELSE k
    BY DEF Free, Lesser
  <2> HIDE DEF a, k, n
  <2>3. n \in 0 .. k /\ n <= a
    BY <2>1, <2>2
  <2>4. QED
    BY <2>3 DEF a, k
<1>3. u \in Seq(UnitType) /\ Len(u) = n /\ NoLines(u)
  <2> HIDE DEF n
  <2>1. QED
    BY <1>1, <1>2, PrefixHas, NoLinesOfPieces
<1>4. Pushed(s, f) = writeBuf[s] \o u
  BY DEF Pushed
<1> HIDE DEF u
<1>5. writeBuf[s] \o u \in Seq(UnitType) /\ Len(writeBuf[s] \o u) = Len(writeBuf[s]) + Len(u)
  BY <1>1, <1>3, ConcatProperties
<1>6. Len(writeBuf[s]) + Len(u) <= Capacity
  <2> HIDE DEF n
  <2>1. QED
    BY <1>1, <1>2, <1>3, BoundsAssumption
<1>7. QED
  BY <1>3, <1>4, <1>5, <1>6

-----------------------------------------------------------------------------
(* A handshake on its way: appended to, cut off, and read.                 *)

LEMMA BeginsStill ==
  ASSUME NEW u \in Seq(UnitType), NEW v \in Seq(UnitType), NoLines(v), Begins(u)
  PROVE  Begins(u \o v)
<1>1. Len(u) \in Nat /\ Len(v) \in Nat /\ Len(u \o v) = Len(u) + Len(v)
  BY LenProperties, ConcatProperties
<1>2. PICK j \in 1 .. Len(u) : Lead(u, j) /\ u[j].kind = "blank"
  BY DEF Begins
<1>3. \A i \in 1 .. Len(u) : (u \o v)[i] = u[i]
  <2>1. \A i \in 1 .. Len(u) : i \in 1 .. Len(u) + Len(v)
    BY <1>1
  <2>2. QED
    BY <1>1, <2>1, ConcatProperties
<1>4. \A i \in j + 1 .. Len(u \o v) : ~IsLine((u \o v)[i])
  <2> SUFFICES ASSUME NEW i \in j + 1 .. Len(u) + Len(v)
               PROVE  ~IsLine((u \o v)[i])
    BY <1>1
  <2>1. CASE i <= Len(u)
    <3>1. i \in 1 .. Len(u) /\ i \in j + 1 .. Len(u)
      BY <1>1, <2>1
    <3>2. QED
      BY <3>1, <1>2, <1>3 DEF Lead
  <2>2. CASE ~(i <= Len(u))
    <3>1. i \in 1 .. Len(u) + Len(v) /\ i - Len(u) \in 1 .. Len(v)
      BY <1>1, <2>2
    <3>2. (u \o v)[i] = v[i - Len(u)]
      BY <3>1, <2>2, ConcatProperties
    <3>3. QED
      BY <3>1, <3>2 DEF NoLines
  <2>3. QED
    BY <2>1, <2>2
<1>5. \A i \in 1 .. j : i \in 1 .. Len(u)
  BY <1>1
<1>6. \A i \in 1 .. j - 1 : i \in 1 .. Len(u)
  BY <1>1
<1>7. j \in 1 .. Len(u \o v)
  BY <1>1
<1>8. Lead(u \o v, j) /\ (u \o v)[j].kind = "blank"
  BY <1>2, <1>3, <1>4, <1>5, <1>6 DEF Lead
<1>9. QED
  BY <1>7, <1>8 DEF Begins

LEMMA BeginsCut ==
  ASSUME NEW u \in Seq(UnitType), NEW v \in Seq(UnitType), Begins(u \o v) \/ CutShort(u \o v)
  PROVE  Begins(u) \/ CutShort(u)
<1> DEFINE d == u \o v
<1>1. /\ Len(u) \in Nat /\ Len(v) \in Nat /\ Len(d) = Len(u) + Len(v)
      /\ \A i \in 1 .. Len(u) : i \in 1 .. Len(u) + Len(v)
  BY LenProperties, ConcatProperties
<1>2. \A i \in 1 .. Len(u) : d[i] = u[i]
  BY <1>1, ConcatProperties
<1> HIDE DEF d
<1>3. PICK j \in 0 .. Len(d) : Lead(d, j) /\ ((j # 0 /\ d[j].kind = "blank") \/ j = Len(d))
  <2>1. CASE Begins(d)
    <3>1. PICK j \in 1 .. Len(d) : Lead(d, j) /\ d[j].kind = "blank"
      BY <2>1 DEF Begins
    <3>2. QED
      BY <3>1, <1>1
  <2>2. CASE CutShort(d)
    <3>1. Len(d) \in 0 .. Len(d)
      BY <1>1
    <3>2. QED
      BY <3>1, <2>2 DEF CutShort
  <2>3. QED
    BY <2>1, <2>2 DEF d
<1>4. CASE j <= Len(u) /\ j # Len(d)
  <2>1. j # 0
    BY <1>3, <1>4
  <2>2. /\ j \in 1 .. Len(u) /\ \A i \in 1 .. j : i \in 1 .. Len(u)
        /\ \A i \in 1 .. j - 1 : i \in 1 .. Len(u)
        /\ \A i \in j + 1 .. Len(u) : i \in 1 .. Len(u) /\ i \in j + 1 .. Len(d)
    BY <2>1, <1>1, <1>4
  <2>3. Lead(u, j) /\ u[j].kind = "blank"
    BY <2>2, <1>2, <1>3, <1>4 DEF Lead
  <2>4. QED
    BY <2>2, <2>3 DEF Begins
<1>5. CASE ~(j <= Len(u)) \/ j = Len(d)
  <2>1. /\ \A i \in 1 .. Len(u) : i \in 1 .. j
        /\ \A i \in 1 .. Len(u) - 1 : i \in 1 .. j - 1 /\ i \in 1 .. Len(u)
        /\ \A i \in Len(u) + 1 .. Len(u) : FALSE
    BY <1>1, <1>5
  <2>2. Lead(u, Len(u))
    BY <2>1, <1>2, <1>3 DEF Lead
  <2>3. QED
    BY <2>2 DEF CutShort
<1>6. QED
  BY <1>4, <1>5

(* A Read inside the handshake takes at least one line; if the blank line  *)
(* is among what it read, no line is left anywhere.                        *)
LEMMA LeadRead ==
  ASSUME NEW w \in Seq(UnitType), NEW b \in Seq(UnitType), NEW n \in 1 .. Len(w),
         Begins(w \o b) \/ CutShort(w \o b),
         NEW u, u = Prefix(w, n)
  PROVE  /\ Lines(u) > 0
         /\ (\E i \in 1 .. n : u[i].kind = "blank") =>
              /\ NoLines(Rest(u, Lines(u)))
              /\ NoLines(Rest(w, n) \o b)
<1> DEFINE d == w \o b
<1>1. /\ Len(w) \in Nat /\ Len(b) \in Nat /\ Len(d) = Len(w) + Len(b)
      /\ \A i \in 1 .. Len(w) + Len(b) : d[i] = IF i <= Len(w) THEN w[i] ELSE b[i - Len(w)]
  BY LenProperties, ConcatProperties
<1>2. n \in 0 .. Len(w)
  BY <1>1
<1>3. /\ u \in Seq(UnitType) /\ Len(u) = n
      /\ \A i \in 1 .. n : u[i] = d[i]
  <2>1. /\ u \in Seq(UnitType) /\ Len(u) = n /\ \A i \in 1 .. n : u[i] = w[i]
    BY <1>2, PrefixHas
  <2>2. \A i \in 1 .. n : i \in 1 .. Len(w) + Len(b) /\ i <= Len(w)
    BY <1>1
  <2>3. QED
    BY <2>1, <2>2, <1>1
<1>4. PICK j \in 1 .. Len(d) : Lead(d, j)
  <2>1. CASE Begins(d)
    BY <2>1 DEF Begins
  <2>2. CASE CutShort(d)
    <3>1. Len(d) \in 1 .. Len(d)
      BY <1>1
    <3>2. QED
      BY <3>1, <2>2 DEF CutShort
  <2>3. QED
    BY <2>1, <2>2
<1> HIDE DEF d
<1>5. Lines(u) > 0
  <2> DEFINE k == IF j <= n THEN j ELSE n
  <2>1. k \in 1 .. Len(u) /\ k <= j /\ (k = j \/ (k = n /\ n < j))
    BY <1>3, <1>4, <1>1
  <2> HIDE DEF k
  <2>2. /\ \A i \in 1 .. k : i \in 1 .. n /\ i \in 1 .. j
        /\ \A i \in 1 .. k - 1 : i \in 1 .. n /\ i \in 1 .. j - 1
        /\ \A i \in k + 1 .. Len(u) : i \in 1 .. n /\ i \in j + 1 .. Len(d)
    BY <2>1, <1>3, <1>1
  <2>3. Lead(u, k)
    BY <2>2, <1>3, <1>4 DEF Lead
  <2>4. QED
    BY <2>1, <2>3, <1>3, LeadTaken
<1>6. ASSUME NEW i \in 1 .. n, u[i].kind = "blank"
      PROVE  NoLines(Rest(u, Lines(u))) /\ NoLines(Rest(w, n) \o b)
  <2>1. d[i].kind = "blank" /\ IsLine(d[i])
    BY <1>3, <1>6 DEF IsLine
  <2>2. i = j
    <3>1. i \in 1 .. Len(d) /\ (i \in j + 1 .. Len(d) \/ i \in 1 .. j - 1 \/ i = j)
      BY <1>1, <1>4
    <3>2. QED
      BY <3>1, <2>1, <1>4 DEF Lead
  <2>3. Lead(u, j) /\ j \in 1 .. Len(u)
    <3>1. /\ \A k \in 1 .. j : k \in 1 .. n
          /\ \A k \in 1 .. j - 1 : k \in 1 .. n
          /\ \A k \in j + 1 .. Len(u) : k \in 1 .. n /\ k \in j + 1 .. Len(d)
      BY <2>2, <1>1, <1>3
    <3>2. QED
      BY <3>1, <2>2, <1>3, <1>4 DEF Lead
  <2>4. Lines(u) = j
    BY <2>2, <2>3, <1>3, <1>6, LeadTaken
  <2>5. NoLines(Rest(u, j))
    <3>1. Len(u) \in Nat /\ j \in 0 .. Len(u)
      BY <1>3, <2>3
    <3>2. Len(Rest(u, j)) = Len(u) - j /\ \A k \in 1 .. Len(u) - j : Rest(u, j)[k] = u[j + k]
      BY <3>1, <1>3, RestHas
    <3>3. \A k \in 1 .. Len(u) - j : j + k \in j + 1 .. Len(u)
      BY <3>1
    <3>4. QED
      BY <3>2, <3>3, <2>3 DEF NoLines, Lead
  <2>6. NoLines(Rest(w, n) \o b)
    <3> DEFINE r == Rest(w, n)
    <3>1. r \in Seq(UnitType) /\ Len(r) = Len(w) - n /\ \A k \in 1 .. Len(w) - n : r[k] = w[n + k]
      BY <1>2, RestHas
    <3> HIDE DEF r
    <3>2. /\ Len(r \o b) = (Len(w) - n) + Len(b)
          /\ \A k \in 1 .. (Len(w) - n) + Len(b) :
               (r \o b)[k] = IF k <= Len(w) - n THEN r[k] ELSE b[k - (Len(w) - n)]
      <4>1. /\ Len(r \o b) = Len(r) + Len(b)
            /\ \A k \in 1 .. Len(r) + Len(b) : (r \o b)[k] = IF k <= Len(r) THEN r[k] ELSE b[k - Len(r)]
        BY <3>1, ConcatProperties
      <4>2. Len(r) = Len(w) - n
        BY <3>1
      <4>3. QED
        BY <4>1, <4>2, Zenon
    <3>3. ASSUME NEW k \in 1 .. (Len(w) - n) + Len(b) PROVE ~IsLine((r \o b)[k])
      <4>1. n + k \in 1 .. Len(w) + Len(b) /\ n + k \in j + 1 .. Len(d)
        BY <1>1, <2>2
      <4>2. (r \o b)[k] = d[n + k]
        <5>1. CASE k <= Len(w) - n
          <6>1. (r \o b)[k] = w[n + k] /\ n + k <= Len(w)
            BY <3>1, <3>2, <5>1, <1>1
          <6>2. QED
            BY <6>1, <4>1, <1>1
        <5>2. CASE ~(k <= Len(w) - n)
          <6>1. (r \o b)[k] = b[k - (Len(w) - n)] /\ ~(n + k <= Len(w)) /\ (n + k) - Len(w) = k - (Len(w) - n)
            BY <3>2, <5>2, <1>1
          <6>2. QED
            BY <6>1, <4>1, <1>1
        <5>3. QED
          BY <5>1, <5>2
      <4>3. QED
        BY <4>1, <4>2, <1>4 DEF Lead
    <3>4. QED
      BY <3>2, <3>3 DEF NoLines, r
  <2>7. QED
    BY <2>4, <2>5, <2>6
<1>7. QED
  BY <1>5, <1>6

-----------------------------------------------------------------------------
(* The invariant of the handshake.                                         *)

(* The units on their way to a side. *)
Way(s) == wire[s] \o writeBuf[Other(s)]

(* Nothing was sent to the side yet, and it took nothing. *)
Fresh(s) ==
  /\ writeBuf[Other(s)] = <<>> /\ wire[s] = <<>> /\ http[s] = <<>>
  /\ ~first[s] /\ state[s] \in {"CONNECTING", "NONE"}

(* The server sends nothing before it opened, the client nothing before    *)
(* Stream was called.                                                      *)
Unasked ==
  /\ state["server"] = "CONNECTING" => Fresh("client") /\ publish = <<>>
  /\ state["client"] = "CONNECTING" /\ ~asked => Fresh("server")

Room == \A s \in Sides : Len(writeBuf[s]) <= Capacity

(* Lines are only at the beginning of the way of a side that connects and  *)
(* has taken none of them; their end is missing when the sender is gone.   *)
Waiting(s) ==
  /\ http[s] = <<>> /\ ~first[s]
  /\ Begins(Way(s)) \/ (CutShort(Way(s)) /\ state[Other(s)] = "NONE")

Apart(s) ==
  /\ state[s] \in {"CONNECTING", "OPEN", "OPEN_DATA"} => NoLines(stream[s])
  /\ Opened(s) => NoLines(Way(s))
  /\ state[s] = "CONNECTING" => (NoLines(http[s]) /\ NoLines(Way(s))) \/ Waiting(s)

AllApart == "cut" \notin mishaps => \A s \in Sides : Apart(s)

WInv == Typed /\ Room /\ Unasked /\ NoLines(publish) /\ AllApart

LEMMA WayHas ==
  ASSUME Typed, NEW s \in Sides
  PROVE  /\ wire[s] \in Seq(UnitType) /\ writeBuf[Other(s)] \in Seq(UnitType)
         /\ Way(s) \in Seq(UnitType)
<1>1. wire[s] \in Seq(UnitType) /\ writeBuf[Other(s)] \in Seq(UnitType)
  BY OtherSide DEF Typed
<1>2. QED
  BY <1>1, ConcatProperties DEF Way

(* A side that a step does not touch, but for what it sends to it.         *)
LEMMA ApartStill ==
  ASSUME Typed, NEW t \in Sides, Apart(t),
         state'[t] = state[t], first'[t] = first[t], http'[t] = http[t], stream'[t] = stream[t],
         NEW v \in Seq(UnitType), NoLines(v), Way(t)' = Way(t) \o v,
         v = <<>> \/ state[Other(t)] # "NONE",
         state[Other(t)] = "NONE" => state'[Other(t)] = "NONE"
  PROVE  Apart(t)'
<1>1. Way(t) \in Seq(UnitType)
  BY WayHas
<1>2. NoLines(Way(t)) => NoLines(Way(t)')
  BY <1>1, NoLinesOfBoth
<1>3. Begins(Way(t)) => Begins(Way(t)')
  BY <1>1, BeginsStill
<1>4. state[Other(t)] = "NONE" => Way(t)' = Way(t)
  BY <1>1, ConcatEmptySeq
<1>5. Opened(t)' <=> Opened(t)
  BY DEF Opened
<1>6. Waiting(t) => Waiting(t)'
  <2> SUFFICES ASSUME Waiting(t) PROVE Waiting(t)'
    OBVIOUS
  <2>1. http[t] = <<>> /\ ~first[t]
    BY DEF Waiting
  <2>2. CASE Begins(Way(t))
    BY <2>1, <2>2, <1>3 DEF Waiting, Begins, Lead
  <2>3. CASE CutShort(Way(t)) /\ state[Other(t)] = "NONE"
    BY <2>1, <2>3, <1>4 DEF Waiting, CutShort, Lead
  <2>4. QED
    BY <2>2, <2>3 DEF Waiting
<1>7. QED
  BY <1>2, <1>5, <1>6 DEF Apart, NoLines

-----------------------------------------------------------------------------
(* The steps. *)

LEMMA Joined ==
  ASSUME NEW a \in Seq(UnitType), NEW b \in Seq(UnitType), NEW c \in Seq(UnitType)
  PROVE  (a \o b) \o c = a \o (b \o c)
BY ConcatAssociative

(* What a side that opened does to itself and to _writeBuf.                *)
LEMMA InsideKeeps ==
  ASSUME WInv, NEW s \in Sides, state[s] \notin {"CONNECTING", "NONE"},
         NEW x \in {"OPEN", "OPEN_DATA", "CLOSING", "CLOSED"},
         x \in {"OPEN", "OPEN_DATA"} => Opened(s),
         state' = [state EXCEPT ![s] = x],
         NEW r \in Seq(UnitType), NoLines(stream[s]) => NoLines(r),
         stream' = [stream EXCEPT ![s] = r],
         NEW u \in Seq(UnitType), NoLines(u),
         writeBuf' = [writeBuf EXCEPT ![s] = @ \o u],
         first' = first, http' = http, wire' = wire, publish' = publish, asked' = asked,
         "cut" \in mishaps => "cut" \in mishaps'
  PROVE  Unasked' /\ NoLines(publish)' /\ AllApart'
<1> DEFINE t == Other(s)
<1>1. /\ t \in Sides /\ t # s /\ Other(t) = s /\ \A q \in Sides : q = s \/ q = t
  BY DEF Sides, Other
<1>2. Typed /\ Unasked /\ NoLines(publish) /\ AllApart
  BY DEF WInv
<1>3. /\ state'[s] = x /\ state'[t] = state[t] /\ stream'[s] = r /\ stream'[t] = stream[t]
      /\ writeBuf'[s] = writeBuf[s] \o u /\ writeBuf'[t] = writeBuf[t]
  BY <1>1, <1>2 DEF Typed
<1>4. state[t] # "CONNECTING" \/ (t = "client" /\ asked)
  BY <1>2, <1>1 DEF Unasked, Fresh, Sides
<1>5. Unasked'
  <2>1. state'["server"] # "CONNECTING"
    <3>1. CASE s = "server"
      BY <1>3, <3>1
    <3>2. CASE s = "client"
      BY <1>3, <1>4, <3>2 DEF Other
    <3>3. QED
      BY <3>1, <3>2 DEF Sides
  <2>2. ~(state'["client"] = "CONNECTING" /\ ~asked)
    <3>1. CASE s = "client"
      BY <1>3, <3>1
    <3>2. CASE s = "server"
      BY <1>3, <1>4, <3>2 DEF Other
    <3>3. QED
      BY <3>1, <3>2 DEF Sides
  <2>3. QED
    BY <2>1, <2>2 DEF Unasked
<1>6. ASSUME "cut" \notin mishaps' PROVE Apart(s)' /\ Apart(t)'
  <2>1. Apart(s) /\ Apart(t)
    BY <1>1, <1>2, <1>6 DEF AllApart
  <2>2. Apart(t)'
    <3>1. Way(t)' = Way(t) \o u
      <4>1. wire[t] \in Seq(UnitType) /\ writeBuf[s] \in Seq(UnitType)
        BY <1>1, <1>2 DEF Typed
      <4>2. (wire[t] \o writeBuf[s]) \o u = wire[t] \o (writeBuf[s] \o u)
        <5> HIDE DEF t
        <5>1. u \in Seq(UnitType)
          OBVIOUS
        <5>2. QED
          BY <4>1, <5>1, Joined
      <4>3. QED
        BY <4>2, <1>1, <1>3 DEF Way
    <3>2. state[Other(t)] # "NONE"
      BY <1>1
    <3> HIDE DEF t
    <3>3. QED
      BY <3>1, <3>2, <2>1, <1>1, <1>2, <1>3, ApartStill
  <2>3. Apart(s)'
    <3>1. Way(s)' = Way(s)
      BY <1>3 DEF Way
    <3>2. NoLines(Way(s))' <=> NoLines(Way(s))
      BY <3>1 DEF NoLines
    <3>3. Opened(s)' => Opened(s)
      BY <1>3 DEF Opened
    <3>4. Opened(s) => NoLines(r) /\ NoLines(Way(s))
      BY <2>1 DEF Apart, Opened
    <3>5. Opened(s)' => NoLines(stream[s])' /\ NoLines(Way(s))'
      BY <3>2, <3>3, <3>4, <1>3 DEF NoLines
    <3>6. state'[s] # "CONNECTING" /\ (state'[s] \in {"OPEN", "OPEN_DATA"} => Opened(s)')
      BY <1>3 DEF Opened
    <3>7. QED
      BY <3>5, <3>6 DEF Apart
  <2>4. QED
    BY <2>2, <2>3
<1>7. AllApart'
  BY <1>1, <1>6 DEF AllApart
<1>8. NoLines(publish)'
  BY <1>2 DEF NoLines
<1>9. QED
  BY <1>5, <1>7, <1>8

LEMMA QueueFrameDoes ==
  ASSUME Typed, Room, NEW s \in Sides, NEW f \in Frames, QueueFrame(s, f)
  PROVE  /\ Opened(s) /\ publish' = publish /\ published' = published
         /\ \E u \in Seq(UnitType) : NoLines(u) /\ writeBuf' = [writeBuf EXCEPT ![s] = writeBuf[s] \o u]
         /\ writeBuf' \in [Sides -> Seq(UnitType)] /\ Room'
         /\ queued' \in [Sides -> Seq(Frames)] /\ watched' \in [Sides -> BOOLEAN]
         /\ mishaps' \subseteq Mishaps /\ ("cut" \in mishaps => "cut" \in mishaps')
<1>1. /\ Opened(s) /\ publish' = publish /\ published' = published
      /\ writeBuf' = [writeBuf EXCEPT ![s] = Pushed(s, f)]
      /\ queued' = [queued EXCEPT ![s] = Append(@, f)]
      /\ watched' = [watched EXCEPT ![s] = TRUE]
      /\ mishaps' = mishaps \/ mishaps' = mishaps \cup {"truncated"}
  BY DEF QueueFrame, Accepts
<1>2. Len(writeBuf[s]) <= Capacity
  BY DEF Room
<1>3. PICK u \in Seq(UnitType) :
        /\ NoLines(u) /\ Pushed(s, f) = writeBuf[s] \o u
        /\ Pushed(s, f) \in Seq(UnitType) /\ Len(Pushed(s, f)) <= Capacity
  BY <1>2, PushedHas
<1>4. writeBuf' \in [Sides -> Seq(UnitType)] /\ Room'
  BY <1>1, <1>3 DEF Typed, Room
<1>5. queued' \in [Sides -> Seq(Frames)] /\ watched' \in [Sides -> BOOLEAN]
  <2>1. queued[s] \in Seq(Frames)
    BY DEF Typed
  <2>2. Append(queued[s], f) \in Seq(Frames)
    BY <2>1, AppendProperties
  <2>3. QED
    BY <2>2, <1>1 DEF Typed
<1>6. mishaps' \subseteq Mishaps /\ ("cut" \in mishaps => "cut" \in mishaps')
  BY <1>1 DEF Typed, Mishaps
<1>7. QED
  BY <1>1, <1>3, <1>4, <1>5, <1>6

(* Nothing is appended to _writeBuf.                                       *)
LEMMA NothingPushed ==
  ASSUME Typed, NEW s \in Sides, writeBuf' = writeBuf
  PROVE  /\ <<>> \in Seq(UnitType) /\ NoLines(<<>>)
         /\ writeBuf' = [writeBuf EXCEPT ![s] = writeBuf[s] \o <<>>]
<1>1. writeBuf[s] \in Seq(UnitType)
  BY DEF Typed
<1>2. writeBuf[s] \o <<>> = writeBuf[s]
  BY <1>1, ConcatEmptySeq
<1>3. QED
  BY <1>2 DEF Typed, NoLines

(* Steps that change nothing the handshake depends on.                     *)
LEMMA SameKeeps ==
  ASSUME WInv,
         UNCHANGED <<state, first, http, stream, asked, writeBuf, publish, wire>>,
         "cut" \in mishaps => "cut" \in mishaps'
  PROVE  Room' /\ Unasked' /\ NoLines(publish)' /\ AllApart'
<1>1. Room' /\ Unasked' /\ NoLines(publish)'
  BY DEF WInv, Room, Unasked, Fresh, NoLines
<1>2. ASSUME NEW t \in Sides, Apart(t) PROVE Apart(t)'
  <2>1. Typed
    BY DEF WInv
  <2>2. <<>> \in Seq(UnitType) /\ NoLines(<<>>)
    BY DEF NoLines
  <2>3. Way(t)' = Way(t) /\ Way(t) \in Seq(UnitType)
    BY <2>1, WayHas DEF Way
  <2>4. Way(t)' = Way(t) \o <<>>
    BY <2>3, ConcatEmptySeq
  <2>5. QED
    BY <1>2, <2>1, <2>2, <2>4, ApartStill
<1>3. AllApart'
  BY <1>2 DEF WInv, AllApart
<1>4. QED
  BY <1>1, <1>3

LEMMA QueueStep ==
  ASSUME WInv, NEW s \in Sides, NEW op \in Ops, NEW len \in Nat, Queue(s, op, len)
  PROVE  WInv'
<1> DEFINE f == NextFrame(s, op, len)
<1>1. Typed /\ Room /\ f \in Frames
  BY NextFrameHas DEF WInv
<1>2. /\ QueueFrame(s, f)
      /\ UNCHANGED <<state, first, headers, http, stream, frame, processing, got, asked, wire, failed>>
  BY DEF Queue, input, parsing
<1> HIDE DEF f
<1>3. /\ Opened(s) /\ publish' = publish /\ published' = published
      /\ \E u \in Seq(UnitType) : NoLines(u) /\ writeBuf' = [writeBuf EXCEPT ![s] = writeBuf[s] \o u]
      /\ writeBuf' \in [Sides -> Seq(UnitType)] /\ Room'
      /\ queued' \in [Sides -> Seq(Frames)] /\ watched' \in [Sides -> BOOLEAN]
      /\ mishaps' \subseteq Mishaps /\ ("cut" \in mishaps => "cut" \in mishaps')
  BY <1>1, <1>2, QueueFrameDoes
<1>4. Typed'
  BY <1>1, <1>2, <1>3 DEF Typed
<1>5. Unasked' /\ NoLines(publish)' /\ AllApart'
  <2>1. PICK u \in Seq(UnitType) : NoLines(u) /\ writeBuf' = [writeBuf EXCEPT ![s] = writeBuf[s] \o u]
    BY <1>3
  <2> DEFINE x == state[s]
             r == stream[s]
  <2>2. /\ state' = [state EXCEPT ![s] = x] /\ stream' = [stream EXCEPT ![s] = r] /\ r \in Seq(UnitType)
    BY <1>1, <1>2 DEF Typed
  <2>3. x \in {"OPEN", "OPEN_DATA"} /\ state[s] \notin {"CONNECTING", "NONE"}
    BY <1>3 DEF Opened
  <2>4. NoLines(stream[s]) => NoLines(r)
    OBVIOUS
  <2>5. first' = first /\ http' = http /\ wire' = wire /\ publish' = publish /\ asked' = asked
    BY <1>2, <1>3
  <2>6. QED
    <3> HIDE DEF x, r
    <3>1. QED
      BY <1>3, <2>1, <2>2, <2>3, <2>4, <2>5, InsideKeeps
<1>6. QED
  BY <1>3, <1>4, <1>5 DEF WInv

LEMMA WaitStep ==
  ASSUME WInv, NEW s \in Sides, Wait(s)
  PROVE  WInv'
<1>1. /\ processing' = [processing EXCEPT ![s] = FALSE]
      /\ UNCHANGED <<state, first, headers, http, stream, frame, got, asked, writeBuf, publish, watched,
                     queued, published, wire, mishaps, failed>>
  BY DEF Wait, parsing, output
<1>2. Typed'
  BY <1>1 DEF WInv, Typed
<1>3. Room' /\ Unasked' /\ NoLines(publish)' /\ AllApart'
  BY <1>1, SameKeeps
<1>4. QED
  BY <1>2, <1>3 DEF WInv

LEMMA PublishStep ==
  ASSUME WInv, NEW len \in Lengths, Publish(len)
  PROVE  WInv'
<1> DEFINE f == Frame("server", "text", len, "publish", Len(published) + 1)
<1>1. /\ state["server"] \notin {"CONNECTING", "NONE"}
      /\ publish' = publish \o Units(f)
      /\ published' = Append(published, f)
      /\ watched' = [watched EXCEPT !["server"] = TRUE]
      /\ UNCHANGED <<state, first, headers, http, stream, frame, processing, got, asked, writeBuf, queued,
                     wire, mishaps, failed>>
  BY DEF Publish, input, parsing
<1>2. Typed /\ Room /\ Unasked /\ NoLines(publish) /\ AllApart
  BY DEF WInv
<1>3. f \in Frames
  <2>1. Len(published) \in Nat /\ len \in Nat
    BY <1>2, LengthsAssumption, LenProperties DEF Typed
  <2>2. QED
    BY <2>1 DEF Frame, Frames, Ways, Ops
<1> HIDE DEF f
<1>4. publish' \in Seq(UnitType) /\ NoLines(publish)'
  <2>1. Units(f) \in Seq(UnitType) /\ NoLines(Units(f)) /\ publish \in Seq(UnitType)
    BY <1>2, <1>3, UnitsHave DEF Typed
  <2>2. publish \o Units(f) \in Seq(UnitType) /\ NoLines(publish \o Units(f))
    BY <2>1, <1>2, ConcatProperties, NoLinesOfBoth
  <2>3. QED
    BY <2>2, <1>1 DEF NoLines
<1>5. published' \in Seq(Frames)
  BY <1>1, <1>2, <1>3, AppendProperties DEF Typed
<1>6. Typed'
  BY <1>1, <1>2, <1>4, <1>5 DEF Typed
<1>7. Room' /\ Unasked'
  BY <1>1, <1>2 DEF Room, Unasked, Fresh
<1>8. AllApart'
  <2>1. ASSUME NEW t \in Sides, Apart(t) PROVE Apart(t)'
    <3>1. <<>> \in Seq(UnitType) /\ NoLines(<<>>)
      BY DEF NoLines
    <3>2. Way(t)' = Way(t) /\ Way(t) \in Seq(UnitType)
      BY <1>1, <1>2, WayHas DEF Way
    <3>3. Way(t)' = Way(t) \o <<>>
      BY <3>2, ConcatEmptySeq
    <3>4. QED
      BY <1>1, <1>2, <2>1, <3>1, <3>3, ApartStill
  <2>2. QED
    BY <2>1, <1>1, <1>2 DEF AllApart
<1>9. QED
  BY <1>4, <1>6, <1>7, <1>8 DEF WInv

LEMMA EndClosingStep ==
  ASSUME WInv, NEW s \in Sides, EndClosing(s)
  PROVE  WInv'
<1> DEFINE r == stream[s]
           x == "CLOSED"
<1>1. /\ state[s] = "CLOSING" /\ state' = [state EXCEPT ![s] = x]
      /\ processing' = [processing EXCEPT ![s] = FALSE]
      /\ UNCHANGED <<first, headers, http, stream, frame, got, asked, writeBuf, publish, watched, queued,
                     published, wire, mishaps, failed>>
  BY DEF EndClosing, parsing, output
<1>2. Typed /\ Room
  BY DEF WInv
<1>3. Typed'
  BY <1>1, <1>2 DEF Typed, States
<1>4. /\ <<>> \in Seq(UnitType) /\ NoLines(<<>>)
      /\ writeBuf' = [writeBuf EXCEPT ![s] = writeBuf[s] \o <<>>]
  BY <1>1, <1>2, NothingPushed
<1>5. r \in Seq(UnitType) /\ stream' = [stream EXCEPT ![s] = r] /\ (NoLines(stream[s]) => NoLines(r))
  BY <1>1, <1>2 DEF Typed
<1>6. state[s] \notin {"CONNECTING", "NONE"} /\ x \in {"OPEN", "OPEN_DATA", "CLOSING", "CLOSED"}
      /\ (x \in {"OPEN", "OPEN_DATA"} => Opened(s))
  BY <1>1
<1>7. Unasked' /\ NoLines(publish)' /\ AllApart'
  <2> HIDE DEF r, x
  <2>1. QED
    BY <1>1, <1>4, <1>5, <1>6, InsideKeeps
<1>8. Room'
  BY <1>1, <1>2 DEF Room
<1>9. QED
  BY <1>3, <1>7, <1>8 DEF WInv

LEMMA BegunHas ==
  ASSUME NEW u \in UnitType
  PROVE  Begun(u) \in Frames
BY DEF Begun, UnitType, NoFrame, Frame, Frames, Ways

LEMMA DoOpenStep ==
  ASSUME WInv, NEW s \in Sides, DoOpen(s)
  PROVE  WInv'
<1> DEFINE f == Begun(stream[s][1])
           n == Needed(s)
           r == Rest(stream[s], n)
           x == "OPEN_DATA"
<1>1. /\ state[s] = "OPEN" /\ HeaderComplete(s)
      /\ \E len \in LengthRead(s) : frame' = [frame EXCEPT ![s] = [of |-> f, len |-> len]]
      /\ stream' = [stream EXCEPT ![s] = r]
      /\ state' = [state EXCEPT ![s] = x]
      /\ (mishaps' = mishaps \/ mishaps' = mishaps \cup {"swapped"})
      /\ UNCHANGED <<first, headers, http, processing, got, asked, writeBuf, publish, watched, queued,
                     published, wire, failed>>
  BY DEF DoOpen, parsing, output
<1>2. Typed /\ Room
  BY DEF WInv
<1>3. stream[s] \in Seq(UnitType) /\ Len(stream[s]) \in Nat
  BY <1>2, LenProperties DEF Typed
<1>4. f \in Frames
  <2>1. stream[s][1] \in UnitType
    BY <1>1, <1>3 DEF HeaderComplete
  <2>2. QED
    BY <2>1, BegunHas
<1>5. n \in 0 .. Len(stream[s])
  <2>1. n \in Nat
    BY DEF Needed, HeaderUnits, MaskUnits, LengthUnits
  <2>2. n <= Len(stream[s])
    BY <1>1 DEF HeaderComplete
  <2>3. QED
    BY <2>1, <2>2, <1>3
<1>6. \A len \in LengthRead(s) : len \in Nat
  BY <1>4, LengthsAssumption DEF LengthRead, Frames, Ways
<1> HIDE DEF n, f
<1>7. r \in Seq(UnitType) /\ (NoLines(stream[s]) => NoLines(r))
  BY <1>3, <1>5, RestHas, NoLinesOfPieces
<1> HIDE DEF r
<1>8. frame' \in [Sides -> [of : Frames, len : Nat]]
  BY <1>1, <1>2, <1>4, <1>6 DEF Typed
<1>9. mishaps' \subseteq Mishaps /\ ("cut" \in mishaps => "cut" \in mishaps')
  BY <1>1, <1>2 DEF Typed, Mishaps
<1>10. Typed'
  BY <1>1, <1>2, <1>7, <1>8, <1>9 DEF Typed, States
<1>11. /\ <<>> \in Seq(UnitType) /\ NoLines(<<>>)
       /\ writeBuf' = [writeBuf EXCEPT ![s] = writeBuf[s] \o <<>>]
  BY <1>1, <1>2, NothingPushed
<1>12. state[s] \notin {"CONNECTING", "NONE"} /\ x \in {"OPEN", "OPEN_DATA", "CLOSING", "CLOSED"}
       /\ (x \in {"OPEN", "OPEN_DATA"} => Opened(s))
  BY <1>1 DEF Opened
<1>13. Unasked' /\ NoLines(publish)' /\ AllApart'
  <2> HIDE DEF x
  <2>1. QED
    BY <1>1, <1>7, <1>9, <1>11, <1>12, InsideKeeps
<1>14. Room'
  BY <1>1, <1>2 DEF Room
<1>15. QED
  BY <1>10, <1>13, <1>14 DEF WInv

LEMMA DoOpenDataStep ==
  ASSUME WInv, NEW s \in Sides, DoOpenData(s)
  PROVE  WInv'
<1> DEFINE n    == frame[s].len
           op   == frame[s].of.op
           pong == NextFrame(s, "pong", n)
           r    == Rest(stream[s], n)
           x    == AfterFrame(op)
<1>1. /\ state[s] = "OPEN_DATA" /\ n <= Len(stream[s])
      /\ stream' = [stream EXCEPT ![s] = r]
      /\ state' = [state EXCEPT ![s] = x]
      /\ processing' = [processing EXCEPT ![s] = GoesOn(s, op)]
      /\ UNCHANGED <<first, headers, http, frame, wire>>
  BY DEF DoOpenData, PayloadComplete, parsing
<1>2. \/ QueueFrame(s, pong) /\ UNCHANGED <<asked, failed>>
      \/ failed' = TRUE /\ UNCHANGED <<asked, writeBuf, publish, watched, queued, published, mishaps>>
      \/ UNCHANGED <<asked, writeBuf, publish, watched, queued, published, mishaps, failed>>
  BY DEF DoOpenData, output
<1>3. Typed /\ Room
  BY DEF WInv
<1>4. stream[s] \in Seq(UnitType) /\ Len(stream[s]) \in Nat /\ n \in Nat
  BY <1>3, LenProperties DEF Typed
<1>5. n \in 0 .. Len(stream[s])
  BY <1>1, <1>4
<1>6. pong \in Frames
  BY <1>3, <1>4, NextFrameHas DEF Ops
<1>7. x \in {"OPEN", "OPEN_DATA", "CLOSING", "CLOSED"} /\ GoesOn(s, op) \in BOOLEAN
  BY DEF AfterFrame, GoesOn
<1>8. r \in Seq(UnitType) /\ (NoLines(stream[s]) => NoLines(r))
  <2> HIDE DEF n
  <2>1. QED
    BY <1>4, <1>5, RestHas, NoLinesOfPieces
<1>9. state[s] \notin {"CONNECTING", "NONE"} /\ Opened(s)
  BY <1>1 DEF Opened
<1> HIDE DEF n, pong, r, x
<1>10. /\ publish' = publish /\ published' = published /\ asked' = asked /\ failed' \in BOOLEAN
       /\ \E u \in Seq(UnitType) : NoLines(u) /\ writeBuf' = [writeBuf EXCEPT ![s] = writeBuf[s] \o u]
       /\ writeBuf' \in [Sides -> Seq(UnitType)] /\ Room'
       /\ queued' \in [Sides -> Seq(Frames)] /\ watched' \in [Sides -> BOOLEAN]
       /\ mishaps' \subseteq Mishaps /\ ("cut" \in mishaps => "cut" \in mishaps')
  <2>1. CASE QueueFrame(s, pong) /\ UNCHANGED <<asked, failed>>
    <3>1. asked' = asked /\ failed' \in BOOLEAN
      BY <2>1, <1>3 DEF Typed
    <3>2. QED
      BY <2>1, <3>1, <1>3, <1>6, QueueFrameDoes
  <2>2. CASE failed' \in BOOLEAN /\ UNCHANGED <<asked, writeBuf, publish, watched, queued, published, mishaps>>
    <3>1. /\ <<>> \in Seq(UnitType) /\ NoLines(<<>>)
          /\ writeBuf' = [writeBuf EXCEPT ![s] = writeBuf[s] \o <<>>]
      BY <2>2, <1>3, NothingPushed
    <3>2. Room'
      BY <2>2, <1>3 DEF Room
    <3>3. QED
      BY <2>2, <3>1, <3>2, <1>3 DEF Typed
  <2>3. failed \in BOOLEAN
    BY <1>3 DEF Typed
  <2>4. QED
    BY <1>2, <2>1, <2>2, <2>3
<1>11. Typed'
  BY <1>1, <1>3, <1>7, <1>8, <1>10 DEF Typed, States
<1>12. Unasked' /\ NoLines(publish)' /\ AllApart'
  <2>1. PICK u \in Seq(UnitType) : NoLines(u) /\ writeBuf' = [writeBuf EXCEPT ![s] = writeBuf[s] \o u]
    BY <1>10
  <2>2. QED
    BY <1>1, <1>7, <1>8, <1>9, <1>10, <2>1, InsideKeeps
<1>13. QED
  BY <1>10, <1>11, <1>12 DEF WInv

LEMMA MovedOn ==
  ASSUME NEW v \in Seq(UnitType), NEW u \in Seq(UnitType), NEW n \in 0 .. Len(u)
  PROVE  (v \o Prefix(u, n)) \o Rest(u, n) = v \o u
BY Moved

LEMMA TwoSides == \A s, t \in Sides : t = s \/ t = Other(s)
BY DEF Sides, Other

LEMMA WriteBufferStep ==
  ASSUME WInv, NEW s \in Sides, NEW n, WriteBuffer(s, n)
  PROVE  WInv'
<1> DEFINE t == Other(s)
           u == writeBuf[s]
           p == Prefix(u, n)
           r == Rest(u, n)
<1>1. /\ n \in Pieces(u) /\ state[s] # "NONE"
      /\ wire' = [wire EXCEPT ![t] = @ \o p]
      /\ writeBuf' = [writeBuf EXCEPT ![s] = r]
      /\ watched' = [watched EXCEPT ![s] = Maintained(r)]
      /\ (mishaps' = mishaps \/ mishaps' = mishaps \cup {"mixed"})
      /\ UNCHANGED <<state, first, headers, http, stream, frame, processing, got, asked, publish, queued,
                     published, failed>>
  BY DEF WriteBuffer, MayWrite, Sent, input, parsing
<1>2. Typed /\ Room /\ Unasked /\ NoLines(publish) /\ AllApart
  BY DEF WInv
<1>3. t \in Sides /\ t # s /\ Other(t) = s
  BY OtherSide
<1>4. u \in Seq(UnitType) /\ Len(u) \in Nat /\ n \in 1 .. Len(u)
  BY <1>1, <1>2, PiecesAre, LenProperties DEF Typed
<1>5. n \in 0 .. Len(u) /\ u # <<>>
  BY <1>4
<1>6. p \in Seq(UnitType) /\ r \in Seq(UnitType) /\ Len(r) = Len(u) - n
  BY <1>4, <1>5, PrefixHas, RestHas
<1>7. wire[t] \in Seq(UnitType)
  BY <1>2, <1>3 DEF Typed
<1>8. (wire[t] \o p) \o r = wire[t] \o u
  <2> HIDE DEF t, u
  <2>1. QED
    BY <1>4, <1>5, <1>7, MovedOn
<1>9. wire[t] \o p \in Seq(UnitType)
  BY <1>6, <1>7, ConcatProperties
<1> HIDE DEF p, r
<1>10. Typed'
  <2>1. Maintained(r) \in BOOLEAN
    BY DEF Maintained
  <2>2. mishaps' \subseteq Mishaps
    BY <1>1, <1>2 DEF Typed, Mishaps
  <2> HIDE DEF t
  <2>3. wire' \in [Sides -> Seq(UnitType)] /\ writeBuf' \in [Sides -> Seq(UnitType)]
    BY <1>1, <1>2, <1>3, <1>6, <1>9 DEF Typed
  <2>4. QED
    BY <1>1, <1>2, <2>1, <2>2, <2>3 DEF Typed
<1>11. Room'
  <2>1. Len(r) <= Capacity
    <3>1. Len(u) <= Capacity
      BY <1>2 DEF Room
    <3>2. QED
      BY <3>1, <1>4, <1>6, BoundsAssumption
  <2>2. QED
    BY <1>1, <1>2, <2>1 DEF Room, Typed
<1>12. Unasked'
  <2>1. /\ writeBuf'[s] = r /\ writeBuf'[t] = writeBuf[t] /\ wire'[s] = wire[s]
    BY <1>1, <1>2, <1>3 DEF Typed
  <2>2. ~(Fresh(t) )
    BY <1>3, <1>5 DEF Fresh
  <2>3. Fresh(s) => Fresh(s)'
    BY <1>1, <2>1 DEF Fresh
  <2>4. CASE s = "server"
    <3>1. t = "client"
      BY <2>4 DEF Other
    <3>2. state["server"] # "CONNECTING"
      BY <2>2, <3>1, <1>2 DEF Unasked
    <3>3. QED
      BY <3>2, <2>3, <2>4, <1>1, <1>2 DEF Unasked
  <2>5. CASE s = "client"
    <3>1. t = "server"
      BY <2>5 DEF Other
    <3>2. ~(state["client"] = "CONNECTING" /\ ~asked)
      BY <2>2, <3>1, <1>2 DEF Unasked
    <3>3. QED
      BY <3>2, <2>3, <2>5, <1>1, <1>2 DEF Unasked
  <2>6. QED
    BY <2>4, <2>5 DEF Sides
<1>13. AllApart'
  <2>1. Way(t)' = Way(t)
    <3>1. wire'[t] = wire[t] \o p /\ writeBuf'[s] = r
      BY <1>1, <1>2, <1>3 DEF Typed
    <3>2. QED
      BY <3>1, <1>3, <1>8 DEF Way
  <2>2. Way(s)' = Way(s)
    BY <1>1, <1>2, <1>3 DEF Way, Typed
  <2>3. ASSUME NEW q \in Sides, Apart(q) PROVE Apart(q)'
    <3>1. <<>> \in Seq(UnitType) /\ NoLines(<<>>)
      BY DEF NoLines
    <3>2. Way(q)' = Way(q) /\ Way(q) \in Seq(UnitType)
      BY <2>1, <2>2, <1>2, WayHas, TwoSides
    <3>3. Way(q)' = Way(q) \o <<>>
      BY <3>2, ConcatEmptySeq
    <3>4. QED
      BY <1>1, <1>2, <2>3, <3>1, <3>3, ApartStill
  <2>4. QED
    BY <2>3, <1>1, <1>2 DEF AllApart
<1>14. NoLines(publish)'
  BY <1>1, <1>2 DEF NoLines
<1>15. QED
  BY <1>10, <1>11, <1>12, <1>13, <1>14 DEF WInv

LEMMA WritePublishedStep ==
  ASSUME WInv, NEW s \in Sides, NEW n, WritePublished(s, n)
  PROVE  WInv'
<1> DEFINE t == Other(s)
           u == IF s = "server" THEN publish ELSE <<>>
           p == Prefix(u, n)
           r == Rest(u, n)
<1>1. /\ n \in IF u = <<>> THEN {0} ELSE Pieces(u)
      /\ state[s] # "NONE" /\ writeBuf[s] = <<>>
      /\ wire' = [wire EXCEPT ![t] = @ \o p]
      /\ publish' = IF s = "server" THEN Rest(publish, n) ELSE publish
      /\ watched' = [watched EXCEPT ![s] = Maintained(r)]
      /\ UNCHANGED <<state, first, headers, http, stream, frame, processing, got, asked, writeBuf, queued,
                     published, mishaps, failed>>
  BY DEF WritePublished, MayWrite, Sent, input, parsing
<1>2. Typed /\ Room /\ Unasked /\ NoLines(publish) /\ AllApart
  BY DEF WInv
<1>3. t \in Sides /\ t # s /\ Other(t) = s
  BY OtherSide
<1>4. u \in Seq(UnitType) /\ NoLines(u) /\ Len(u) \in Nat
  <2>1. publish \in Seq(UnitType) /\ <<>> \in Seq(UnitType) /\ NoLines(<<>>)
    BY <1>2 DEF Typed, NoLines
  <2>2. u \in Seq(UnitType) /\ NoLines(u)
    BY <2>1, <1>2
  <2>3. QED
    BY <2>2, LenProperties
<1>5. publish' = IF s = "server" THEN r ELSE publish
  BY <1>1
<1> HIDE DEF u
<1>6. n \in 0 .. Len(u)
  <2>1. CASE u = <<>>
    BY <1>1, <1>4, <2>1
  <2>2. CASE u # <<>>
    <3>1. n \in 1 .. Len(u)
      BY <1>1, <1>4, <2>2, PiecesAre
    <3>2. QED
      BY <3>1
  <2>3. QED
    BY <2>1, <2>2
<1>7. /\ p \in Seq(UnitType) /\ r \in Seq(UnitType) /\ NoLines(p) /\ NoLines(r)
      /\ (u = <<>> => p = <<>> /\ r = <<>>)
  <2>1. /\ p \in Seq(UnitType) /\ r \in Seq(UnitType) /\ NoLines(p) /\ NoLines(r)
        /\ Len(p) = n /\ Len(r) = Len(u) - n
    BY <1>4, <1>6, PrefixHas, RestHas, NoLinesOfPieces
  <2>2. ASSUME u = <<>> PROVE p = <<>> /\ r = <<>>
    <3>1. Len(u) = 0 /\ n = 0
      BY <2>2, <1>1
    <3> HIDE DEF p, r
    <3>2. Len(p) = 0 /\ Len(r) = 0
      BY <2>1, <3>1
    <3>3. QED
      BY <3>2, <2>1, EmptySeq
  <2>3. QED
    BY <2>1, <2>2
<1> HIDE DEF p, r
<1>8. wire[t] \in Seq(UnitType) /\ wire[t] \o p \in Seq(UnitType)
  <2>1. wire[t] \in Seq(UnitType)
    BY <1>2, <1>3 DEF Typed
  <2>2. QED
    BY <2>1, <1>7, ConcatProperties
<1>9. Typed'
  <2>1. Maintained(r) \in BOOLEAN /\ publish' \in Seq(UnitType)
    BY <1>2, <1>5, <1>7 DEF Maintained, Typed
  <2> HIDE DEF t
  <2>3. wire' \in [Sides -> Seq(UnitType)]
    BY <1>1, <1>2, <1>3, <1>8 DEF Typed
  <2>4. QED
    BY <1>1, <1>2, <2>1, <2>3 DEF Typed
<1>10. Room'
  BY <1>1, <1>2 DEF Room
<1>11. wire'[t] = wire[t] \o p /\ wire'[s] = wire[s]
  BY <1>1, <1>2, <1>3 DEF Typed
<1>12. Unasked'
  <2>1. u = <<>> => wire' = wire /\ (s = "server" => publish' = <<>>)
    <3> SUFFICES ASSUME u = <<>> PROVE wire' = wire /\ (s = "server" => publish' = <<>>)
      OBVIOUS
    <3>1. wire[t] \o p = wire[t]
      BY <1>7, <1>8, ConcatEmptySeq
    <3>2. wire' = wire
      BY <3>1, <1>1, <1>2, <1>3 DEF Typed
    <3>3. QED
      BY <3>2, <1>5, <1>7
  <2>2. CASE s = "server" /\ state["server"] # "CONNECTING"
    <3>1. wire'["server"] = wire["server"]
      BY <1>11, <2>2
    <3>2. Fresh("server") => Fresh("server")'
      BY <1>1, <3>1 DEF Fresh
    <3>3. QED
      BY <3>2, <2>2, <1>1, <1>2 DEF Unasked
  <2>3. CASE s = "server" /\ state["server"] = "CONNECTING"
    <3>1. u = <<>>
      BY <2>3, <1>2 DEF Unasked, u
    <3>2. wire' = wire /\ publish' = <<>>
      BY <3>1, <2>1, <2>3
    <3>3. QED
      BY <3>2, <1>1, <1>2 DEF Unasked, Fresh
  <2>4. CASE s = "client"
    <3>1. u = <<>> /\ publish' = publish
      BY <2>4, <1>5 DEF u
    <3>2. wire' = wire
      BY <3>1, <2>1
    <3>3. QED
      BY <3>1, <3>2, <1>1, <1>2 DEF Unasked, Fresh
  <2>5. QED
    BY <2>2, <2>3, <2>4 DEF Sides
<1>13. AllApart'
  <2>1. Way(t)' = Way(t) \o p
    <3>1. Way(t) = wire[t] /\ Way(t)' = wire[t] \o p
      <4>1. Way(t) = wire[t] \o <<>> /\ Way(t)' = (wire[t] \o p) \o <<>>
        BY <1>1, <1>3, <1>11 DEF Way
      <4>2. QED
        BY <4>1, <1>8, ConcatEmptySeq
    <3>2. QED
      BY <3>1
  <2>2. Way(s)' = Way(s)
    BY <1>1, <1>11 DEF Way
  <2>3. ASSUME Apart(t) PROVE Apart(t)'
    <3>1. state[Other(t)] # "NONE" /\ p \in Seq(UnitType) /\ NoLines(p)
      BY <1>1, <1>3, <1>7
    <3> HIDE DEF t
    <3>2. QED
      BY <1>1, <1>2, <1>3, <2>1, <2>3, <3>1, ApartStill
  <2>4. ASSUME Apart(s) PROVE Apart(s)'
    <3>1. <<>> \in Seq(UnitType) /\ NoLines(<<>>)
      BY DEF NoLines
    <3>2. Way(s) \in Seq(UnitType)
      BY <1>2, WayHas
    <3>3. Way(s)' = Way(s) \o <<>>
      BY <2>2, <3>2, ConcatEmptySeq
    <3>4. QED
      BY <1>1, <1>2, <2>4, <3>1, <3>3, ApartStill
  <2>5. QED
    BY <2>3, <2>4, <1>1, <1>2, <1>3, TwoSides DEF AllApart
<1>14. NoLines(publish)'
  BY <1>2, <1>5, <1>7 DEF NoLines
<1>15. QED
  BY <1>9, <1>10, <1>12, <1>13, <1>14 DEF WInv

LEMMA StreamStep ==
  ASSUME WInv, Stream
  PROVE  WInv'
<1> DEFINE c == "client"
           v == "server"
<1>1. /\ state[c] = "CONNECTING" /\ ~asked /\ asked' = TRUE
      /\ writeBuf' = [writeBuf EXCEPT ![c] = @ \o Handshake(Asked)]
      /\ watched' = [watched EXCEPT ![c] = TRUE]
      /\ UNCHANGED <<state, first, headers, http, stream, frame, processing, got, publish, queued,
                     published, wire, mishaps, failed>>
  BY DEF Stream, input, parsing
<1>2. Typed /\ Room /\ Unasked /\ NoLines(publish) /\ AllApart
  BY DEF WInv
<1>3. c \in Sides /\ v \in Sides /\ Other(v) = c /\ Other(c) = v /\ \A s \in Sides : s = c \/ s = v
  BY DEF Sides, Other
<1>4. writeBuf[c] = <<>> /\ wire[v] = <<>> /\ http[v] = <<>> /\ ~first[v] /\ state[v] \in {"CONNECTING", "NONE"}
  BY <1>1, <1>2, <1>3 DEF Unasked, Fresh
<1>5. Handshake(Asked) \in Seq(UnitType) /\ Len(Handshake(Asked)) <= Capacity /\ Begins(Handshake(Asked))
  BY RequestHas
<1>6. writeBuf' = [writeBuf EXCEPT ![c] = Handshake(Asked)]
  <2>1. <<>> \o Handshake(Asked) = Handshake(Asked)
    BY <1>5, ConcatEmptySeq
  <2>2. QED
    BY <2>1, <1>1, <1>4
<1>7. writeBuf'[c] = Handshake(Asked) /\ writeBuf'[v] = writeBuf[v]
  BY <1>2, <1>3, <1>6 DEF Typed
<1>8. Typed'
  BY <1>1, <1>2, <1>3, <1>5, <1>6 DEF Typed
<1>9. Room'
  BY <1>2, <1>3, <1>5, <1>7 DEF Room
<1>10. Unasked'
  <2>1. Fresh(c) => Fresh(c)'
    BY <1>1, <1>3, <1>7 DEF Fresh
  <2>2. QED
    BY <2>1, <1>1, <1>2 DEF Unasked
<1>11. AllApart'
  <2>1. Way(v)' = Handshake(Asked)
    <3>1. Way(v)' = <<>> \o Handshake(Asked)
      BY <1>1, <1>3, <1>4, <1>7 DEF Way
    <3>2. QED
      BY <3>1, <1>5, ConcatEmptySeq
  <2>2. Begins(Way(v))'
    BY <2>1, <1>5 DEF Begins, Lead
  <2>3. ASSUME Apart(v) PROVE Apart(v)'
    <3>1. Waiting(v)'
      BY <2>2, <1>1, <1>4 DEF Waiting
    <3>2. NoLines(stream[v])' <=> NoLines(stream[v])
      BY <1>1 DEF NoLines
    <3>3. QED
      BY <2>3, <3>1, <3>2, <1>1, <1>4 DEF Apart, Opened
  <2>4. ASSUME Apart(c) PROVE Apart(c)'
    <3>1. <<>> \in Seq(UnitType) /\ NoLines(<<>>)
      BY DEF NoLines
    <3>2. Way(c)' = Way(c) /\ Way(c) \in Seq(UnitType)
      BY <1>1, <1>2, <1>3, <1>7, WayHas DEF Way
    <3>3. Way(c)' = Way(c) \o <<>>
      BY <3>2, ConcatEmptySeq
    <3>4. QED
      BY <1>1, <1>2, <1>3, <2>4, <3>1, <3>3, ApartStill
  <2>5. QED
    BY <2>3, <2>4, <1>1, <1>2, <1>3 DEF AllApart
<1>12. NoLines(publish)'
  BY <1>1, <1>2 DEF NoLines
<1>13. QED
  BY <1>8, <1>9, <1>10, <1>11, <1>12 DEF WInv

(* When a side opens it took its handshake: nothing of it is left in       *)
(* _httpBuf, and nothing comes.                                            *)
LEMMA OpenStep ==
  ASSUME WInv, NEW s \in Sides, Open(s)
  PROVE  WInv'
<1> DEFINE t == Other(s)
           r == stream[s] \o http[s]
<1>1. /\ state[s] = "CONNECTING" /\ first[s]
      /\ state' = [state EXCEPT ![s] = "OPEN"]
      /\ stream' = [stream EXCEPT ![s] = r]
      /\ processing' = [processing EXCEPT ![s] = FALSE]
      /\ IF s = "server"
         THEN /\ writeBuf' = [writeBuf EXCEPT ![s] = @ \o Handshake(Answer)]
              /\ watched' = [watched EXCEPT ![s] = TRUE]
         ELSE writeBuf' = writeBuf /\ watched' = watched
      /\ UNCHANGED <<first, headers, http, frame, got, asked, publish, queued, published, wire, mishaps, failed>>
  BY DEF Open, UpgradeComplete, parsing
<1>2. Typed /\ Room /\ Unasked /\ NoLines(publish) /\ AllApart
  BY DEF WInv
<1>3. t \in Sides /\ t # s /\ Other(t) = s
  BY OtherSide
<1>4. /\ stream[s] \in Seq(UnitType) /\ http[s] \in Seq(UnitType) /\ r \in Seq(UnitType)
  <2>1. stream[s] \in Seq(UnitType) /\ http[s] \in Seq(UnitType)
    BY <1>2 DEF Typed
  <2>2. QED
    BY <2>1, ConcatProperties
<1> HIDE DEF r
<1>5. Handshake(Answer) \in Seq(UnitType) /\ Len(Handshake(Answer)) <= Capacity /\ Begins(Handshake(Answer))
  BY AnswerHas
<1>6. s = "server" =>
        /\ writeBuf[s] = <<>> /\ wire[t] = <<>> /\ http[t] = <<>> /\ ~first[t]
        /\ state[t] \in {"CONNECTING", "NONE"}
        /\ writeBuf' = [writeBuf EXCEPT ![s] = Handshake(Answer)]
  <2> SUFFICES ASSUME s = "server"
               PROVE  /\ writeBuf[s] = <<>> /\ wire[t] = <<>> /\ http[t] = <<>> /\ ~first[t]
                      /\ state[t] \in {"CONNECTING", "NONE"}
                      /\ writeBuf' = [writeBuf EXCEPT ![s] = Handshake(Answer)]
    OBVIOUS
  <2>1. t = "client" /\ Other("client") = s
    BY DEF Other
  <2>2. Fresh("client")
    BY <1>1, <1>2 DEF Unasked
  <2>3. <<>> \o Handshake(Answer) = Handshake(Answer)
    BY <1>5, ConcatEmptySeq
  <2>4. QED
    BY <2>1, <2>2, <2>3, <1>1 DEF Fresh
<1>7. writeBuf' \in [Sides -> Seq(UnitType)] /\ watched' \in [Sides -> BOOLEAN]
  <2>1. writeBuf \in [Sides -> Seq(UnitType)] /\ watched \in [Sides -> BOOLEAN]
    BY <1>2 DEF Typed
  <2>2. CASE s = "server"
    <3>1. writeBuf' = [writeBuf EXCEPT ![s] = Handshake(Answer)] /\ watched' = [watched EXCEPT ![s] = TRUE]
      BY <2>2, <1>1, <1>6
    <3>2. QED
      BY <3>1, <2>1, <1>5
  <2>3. CASE s # "server"
    BY <2>1, <2>3, <1>1
  <2>4. QED
    BY <2>2, <2>3
<1>8. Typed'
  BY <1>1, <1>2, <1>4, <1>7 DEF Typed, States
<1>9. Room'
  <2>1. CASE s = "server"
    BY <2>1, <1>2, <1>5, <1>6 DEF Room, Typed
  <2>2. CASE s # "server"
    BY <2>2, <1>1, <1>2 DEF Room
  <2>3. QED
    BY <2>1, <2>2
<1>10. Unasked'
  <2>1. ~Fresh(s)
    BY <1>1 DEF Fresh
  <2>2. state'[s] = "OPEN" /\ state'[t] = state[t]
    BY <1>1, <1>2, <1>3 DEF Typed
  <2>3. CASE s = "server"
    <3>1. t = "client"
      BY <2>3 DEF Other
    <3>2. QED
      BY <3>1, <2>1, <2>2, <2>3, <1>1, <1>2 DEF Unasked
  <2>4. CASE s = "client"
    <3>1. t = "server"
      BY <2>4 DEF Other
    <3>2. QED
      BY <3>1, <2>1, <2>2, <2>4, <1>1, <1>2 DEF Unasked
  <2>5. QED
    BY <2>3, <2>4 DEF Sides
<1>11. writeBuf'[t] = writeBuf[t]
  BY <1>1, <1>2, <1>3 DEF Typed
<1>12. ASSUME Apart(s) PROVE Apart(s)'
  <2>1. NoLines(http[s]) /\ NoLines(Way(s)) /\ NoLines(stream[s])
    BY <1>1, <1>12 DEF Apart, Waiting
  <2>2. NoLines(r)
    BY <2>1, <1>4, NoLinesOfBoth DEF r
  <2>3. Way(s)' = Way(s)
    BY <1>1, <1>11 DEF Way
  <2>4. state'[s] = "OPEN" /\ stream'[s] = r
    BY <1>1, <1>2 DEF Typed
  <2>5. NoLines(stream[s])' /\ NoLines(Way(s))'
    BY <2>1, <2>2, <2>3, <2>4 DEF NoLines
  <2>6. QED
    BY <2>4, <2>5 DEF Apart
<1>13. ASSUME Apart(t) PROVE Apart(t)'
  <2>1. state'[t] = state[t] /\ stream'[t] = stream[t] /\ http'[t] = http[t] /\ first'[t] = first[t]
    BY <1>1, <1>2, <1>3 DEF Typed
  <2>2. CASE s = "server"
    <3>1. Way(t)' = Handshake(Answer)
      <4>1. Way(t)' = <<>> \o Handshake(Answer)
        BY <1>1, <1>2, <1>3, <1>6, <2>2 DEF Way, Typed
      <4>2. QED
        BY <4>1, <1>5, ConcatEmptySeq
    <3>2. Begins(Way(t))'
      BY <3>1, <1>5 DEF Begins, Lead
    <3>3. Waiting(t)'
      BY <3>2, <2>1, <1>6, <2>2 DEF Waiting
    <3>4. NoLines(stream[t])' <=> NoLines(stream[t])
      BY <2>1 DEF NoLines
    <3>5. QED
      BY <1>13, <3>3, <3>4, <2>1, <2>2, <1>6 DEF Apart, Opened
  <2>3. CASE s # "server"
    <3>1. <<>> \in Seq(UnitType) /\ NoLines(<<>>)
      BY DEF NoLines
    <3>2. Way(t)' = Way(t) /\ Way(t) \in Seq(UnitType)
      BY <1>1, <1>2, <1>3, <2>3, WayHas DEF Way
    <3>3. Way(t)' = Way(t) \o <<>>
      BY <3>2, ConcatEmptySeq
    <3>4. state[Other(t)] # "NONE"
      BY <1>1, <1>3
    <3> HIDE DEF t
    <3>5. QED
      BY <1>2, <1>3, <1>13, <2>1, <3>1, <3>3, <3>4, ApartStill
  <2>4. QED
    BY <2>2, <2>3
<1>14. AllApart'
  BY <1>12, <1>13, <1>1, <1>2, <1>3, TwoSides DEF AllApart
<1>15. NoLines(publish)'
  BY <1>1, <1>2 DEF NoLines
<1>16. QED
  BY <1>8, <1>9, <1>10, <1>14, <1>15 DEF WInv

(* What a side that goes had not sent is lost, and with it perhaps the end *)
(* of its handshake.                                                       *)
LEMMA CloseStep ==
  ASSUME WInv, NEW s \in Sides, Close(s), mishaps' = mishaps \/ mishaps' = mishaps \cup {"refused"}
  PROVE  WInv'
<1> DEFINE t == Other(s)
<1>1. /\ state' = [state EXCEPT ![s] = "NONE"]
      /\ watched' = [watched EXCEPT ![s] = FALSE]
      /\ http' = [http EXCEPT ![s] = <<>>]
      /\ stream' = [stream EXCEPT ![s] = <<>>]
      /\ writeBuf' = [writeBuf EXCEPT ![s] = <<>>]
      /\ publish' = IF s = "server" THEN <<>> ELSE publish
      /\ wire' = [wire EXCEPT ![s] = <<>>]
      /\ UNCHANGED <<first, headers, frame, processing, got, asked, queued, published, failed>>
      /\ mishaps' = mishaps \/ mishaps' = mishaps \cup {"refused"}
  BY DEF Close
<1>2. Typed /\ Room /\ Unasked /\ NoLines(publish) /\ AllApart
  BY DEF WInv
<1>3. t \in Sides /\ t # s /\ Other(t) = s
  BY OtherSide
<1>4. <<>> \in Seq(UnitType) /\ NoLines(<<>>) /\ Len(<<>>) = 0
  BY DEF NoLines
<1>5. Typed'
  BY <1>1, <1>2, <1>4 DEF Typed, States, Mishaps
<1>6. Room'
  BY <1>1, <1>2, <1>4, BoundsAssumption DEF Room, Typed
<1>7. /\ state'[s] = "NONE" /\ state'[t] = state[t] /\ http'[s] = <<>> /\ http'[t] = http[t]
      /\ stream'[t] = stream[t] /\ writeBuf'[s] = <<>> /\ writeBuf'[t] = writeBuf[t]
      /\ wire'[s] = <<>> /\ wire'[t] = wire[t]
  BY <1>1, <1>2, <1>3 DEF Typed
<1>8. Unasked'
  <2>1. Fresh(s) => Fresh(s)'
    BY <1>1, <1>7 DEF Fresh
  <2>2. CASE s = "server"
    BY <2>1, <2>2, <1>1, <1>2, <1>3, <1>7 DEF Unasked, Other
  <2>3. CASE s = "client"
    BY <2>1, <2>3, <1>1, <1>2, <1>3, <1>7 DEF Unasked, Other
  <2>4. QED
    BY <2>2, <2>3 DEF Sides
<1>9. Apart(s)'
  BY <1>7 DEF Apart, Opened
<1>10. ASSUME Apart(t) PROVE Apart(t)'
  <2>1. wire[t] \in Seq(UnitType) /\ writeBuf[s] \in Seq(UnitType) /\ Way(t) = wire[t] \o writeBuf[s]
    BY <1>2, <1>3 DEF Typed, Way
  <2>2. Way(t)' = wire[t]
    <3>1. Way(t)' = wire[t] \o <<>>
      BY <1>3, <1>7 DEF Way
    <3>2. QED
      BY <3>1, <2>1, ConcatEmptySeq
  <2>3. NoLines(Way(t)) => NoLines(Way(t))'
    <3>1. NoLines(Way(t)) => NoLines(wire[t])
      BY <2>1, NoLinesOfParts
    <3>2. QED
      BY <3>1, <2>2 DEF NoLines
  <2>4. Waiting(t) => Waiting(t)'
    <3>1. (Begins(Way(t)) \/ CutShort(Way(t))) => (Begins(wire[t]) \/ CutShort(wire[t]))
      BY <2>1, BeginsCut
    <3>2. Begins(wire[t]) => Begins(Way(t))'
      BY <2>2 DEF Begins, Lead
    <3>3. CutShort(wire[t]) => CutShort(Way(t))'
      BY <2>2 DEF CutShort, Lead
    <3>4. state'[Other(t)] = "NONE" /\ (Waiting(t) => http'[t] = <<>> /\ ~first'[t])
      BY <1>1, <1>3, <1>7 DEF Waiting
    <3>5. QED
      BY <3>1, <3>2, <3>3, <3>4 DEF Waiting
  <2>5. NoLines(stream[t])' <=> NoLines(stream[t])
    BY <1>7 DEF NoLines
  <2>6. NoLines(http[t])' <=> NoLines(http[t])
    BY <1>7 DEF NoLines
  <2>7. QED
    BY <1>7, <1>10, <2>3, <2>4, <2>5, <2>6 DEF Apart, Opened
<1>11. AllApart'
  BY <1>9, <1>10, <1>1, <1>2, <1>3, TwoSides DEF AllApart
<1>12. NoLines(publish)'
  BY <1>1, <1>2 DEF NoLines
<1>13. QED
  BY <1>5, <1>6, <1>8, <1>11, <1>12 DEF WInv

(* A handshake is taken as a whole or the Read is a cut.                   *)
LEMMA HandleHTTPDoes ==
  ASSUME Typed, NEW s \in Sides, NEW n \in 1 .. Len(wire[s]),
         HandleHTTP(s, http[s] \o Prefix(wire[s], n))
  PROVE  /\ first' \in [Sides -> BOOLEAN] /\ headers' \in [Sides -> SUBSET Headers]
         /\ http' \in [Sides -> Seq(UnitType)]
         /\ \A q \in Sides : q # s => first'[q] = first[q] /\ http'[q] = http[q]
         /\ mishaps' \subseteq Mishaps /\ ("cut" \in mishaps => "cut" \in mishaps')
         /\ (NoLines(http[s]) /\ NoLines(Way(s))) \/ Waiting(s) =>
              \/ "cut" \in mishaps'
              \/ NoLines(http'[s]) /\ NoLines(Rest(wire[s], n) \o writeBuf[Other(s)])
<1> DEFINE w == wire[s]
           b == writeBuf[Other(s)]
           p == Prefix(w, n)
           u == http[s] \o p
           k == Lines(u)
<1>1. /\ first' = [first EXCEPT ![s] = IF k = 0 \/ u[1].kind = "blank" THEN @ ELSE u[1].kind = "first"]
      /\ headers' = [headers EXCEPT ![s] = @ \cup ({u[j].kind : j \in 2..k} \cap Headers)]
      /\ http' = [http EXCEPT ![s] = Rest(u, k)]
      /\ mishaps' = IF k > 0 /\ Line("blank") \notin Range(u) THEN mishaps \cup {"cut"} ELSE mishaps
  BY DEF HandleHTTP
<1>2. w \in Seq(UnitType) /\ b \in Seq(UnitType) /\ http[s] \in Seq(UnitType) /\ Len(w) \in Nat
  BY OtherSide, LenProperties DEF Typed
<1>3. n \in 0 .. Len(w) /\ n \in 1 .. Len(w)
  BY <1>2
<1>4. p \in Seq(UnitType) /\ Len(p) = n
  BY <1>2, <1>3, PrefixHas
<1> HIDE DEF w, b, p
<1>5. u \in Seq(UnitType)
  BY <1>2, <1>4, ConcatProperties
<1>6. k \in 0 .. Len(u) /\ Len(u) \in Nat
  BY <1>5, LinesHas, LenProperties
<1>7. Rest(u, k) \in Seq(UnitType)
  <2> HIDE DEF u, k
  <2>1. QED
    BY <1>5, <1>6, RestHas
<1>8. /\ first' \in [Sides -> BOOLEAN] /\ headers' \in [Sides -> SUBSET Headers]
      /\ http' \in [Sides -> Seq(UnitType)]
      /\ \A q \in Sides : q # s => first'[q] = first[q] /\ http'[q] = http[q]
      /\ http'[s] = Rest(u, k)
  <2> HIDE DEF u, k
  <2>1. QED
    BY <1>1, <1>7 DEF Typed
<1>9. mishaps' \subseteq Mishaps /\ ("cut" \in mishaps => "cut" \in mishaps')
  <2> HIDE DEF u, k
  <2>1. QED
    BY <1>1 DEF Typed, Mishaps
<1>10. ASSUME NoLines(http[s]), NoLines(Way(s))
       PROVE  NoLines(http'[s]) /\ NoLines(Rest(w, n) \o b)
  <2>1. NoLines(w \o b)
    BY <1>10 DEF Way, w, b
  <2>2. NoLines(w) /\ NoLines(b)
    BY <1>2, <2>1, NoLinesOfParts
  <2>3. NoLines(p) /\ NoLines(Rest(w, n)) /\ Rest(w, n) \in Seq(UnitType)
    BY <1>2, <1>3, <2>2, NoLinesOfPieces, RestHas DEF p
  <2>4. NoLines(u)
    BY <1>2, <1>4, <1>10, <2>3, NoLinesOfBoth
  <2>5. NoLines(Rest(u, k))
    <3> HIDE DEF u, k
    <3>1. QED
      BY <1>5, <1>6, <2>4, NoLinesOfPieces
  <2>6. NoLines(Rest(w, n) \o b)
    BY <1>2, <2>2, <2>3, NoLinesOfBoth
  <2>7. QED
    BY <1>8, <2>5, <2>6
<1>11. ASSUME Waiting(s), "cut" \notin mishaps'
       PROVE  NoLines(http'[s]) /\ NoLines(Rest(w, n) \o b)
  <2>1. http[s] = <<>> /\ (Begins(w \o b) \/ CutShort(w \o b))
    BY <1>11 DEF Waiting, Way, w, b
  <2>2. u = p
    BY <2>1, <1>4, ConcatEmptySeq
  <2>3. /\ Lines(p) > 0
        /\ (\E i \in 1 .. n : p[i].kind = "blank") =>
             NoLines(Rest(p, Lines(p))) /\ NoLines(Rest(w, n) \o b)
    BY <1>2, <1>3, <2>1, LeadRead DEF p
  <2>4. Line("blank") \in Range(u)
    BY <1>1, <1>11, <2>2, <2>3
  <2>5. \E i \in 1 .. n : p[i].kind = "blank"
    <3>1. PICK i \in DOMAIN p : p[i] = Line("blank")
      BY <2>2, <2>4 DEF Range
    <3>2. i \in 1 .. n
      BY <3>1, <1>4, LenProperties
    <3>3. QED
      BY <3>1, <3>2, LinesHave
  <2>6. QED
    BY <1>8, <2>2, <2>3, <2>5
<1>12. QED
  BY <1>8, <1>9, <1>10, <1>11 DEF w, b

LEMMA ReadStep ==
  ASSUME WInv, NEW s \in Sides, NEW n \in Pieces(wire[s]), Read(s, n)
  PROVE  WInv'
<1> DEFINE t == Other(s)
           w == wire[s]
           p == Prefix(w, n)
           r == Rest(w, n)
           b == writeBuf[t]
<1>1. /\ state[s] # "NONE"
      /\ wire' = [wire EXCEPT ![s] = r]
      /\ processing' = [processing EXCEPT ![s] = TRUE]
      /\ UNCHANGED <<state, frame, got, asked, writeBuf, publish, watched, queued, published, failed>>
  BY DEF Read, output
<1>2. \/ /\ Opened(s)
         /\ stream' = [stream EXCEPT ![s] = @ \o p]
         /\ UNCHANGED <<first, headers, http, mishaps>>
      \/ /\ state[s] = "CONNECTING"
         /\ HandleHTTP(s, http[s] \o p)
         /\ UNCHANGED stream
      \/ /\ state[s] \in {"CLOSING", "CLOSED"}
         /\ http' = [http EXCEPT ![s] = @ \o p]
         /\ UNCHANGED <<first, headers, stream, mishaps>>
  BY DEF Read, parsing
<1>3. Typed /\ Room /\ Unasked /\ NoLines(publish) /\ AllApart
  BY DEF WInv
<1>4. t \in Sides /\ t # s /\ Other(t) = s
  BY OtherSide
<1>5. /\ w \in Seq(UnitType) /\ b \in Seq(UnitType) /\ Len(w) \in Nat
      /\ http[s] \in Seq(UnitType) /\ stream[s] \in Seq(UnitType)
  BY <1>3, <1>4, LenProperties DEF Typed
<1>6. n \in 1 .. Len(w) /\ n \in 0 .. Len(w) /\ w # <<>>
  BY <1>5, PiecesAre
<1>7. p \in Seq(UnitType) /\ r \in Seq(UnitType)
  BY <1>5, <1>6, PrefixHas, RestHas
<1>8. http[s] \o p \in Seq(UnitType) /\ stream[s] \o p \in Seq(UnitType)
  BY <1>5, <1>7, ConcatProperties
<1>9. state[s] = "CONNECTING" /\ HandleHTTP(s, http[s] \o p) =>
         /\ first' \in [Sides -> BOOLEAN] /\ headers' \in [Sides -> SUBSET Headers]
         /\ http' \in [Sides -> Seq(UnitType)]
         /\ \A q \in Sides : q # s => first'[q] = first[q] /\ http'[q] = http[q]
         /\ mishaps' \subseteq Mishaps /\ ("cut" \in mishaps => "cut" \in mishaps')
         /\ (NoLines(http[s]) /\ NoLines(Way(s))) \/ Waiting(s) =>
              "cut" \in mishaps' \/ (NoLines(http'[s]) /\ NoLines(r \o b))
  BY <1>3, <1>6, HandleHTTPDoes, Zenon
<1> HIDE DEF p, r
<1>10. /\ first' \in [Sides -> BOOLEAN] /\ headers' \in [Sides -> SUBSET Headers]
       /\ http' \in [Sides -> Seq(UnitType)] /\ stream' \in [Sides -> Seq(UnitType)]
       /\ mishaps' \subseteq Mishaps
  BY <1>2, <1>3, <1>8, <1>9 DEF Typed
<1>11. first'[t] = first[t] /\ http'[t] = http[t] /\ stream'[t] = stream[t]
  BY <1>2, <1>3, <1>4, <1>9 DEF Typed
<1>12. "cut" \in mishaps => "cut" \in mishaps'
  BY <1>2, <1>9
<1>13. Typed'
  BY <1>1, <1>3, <1>7, <1>10 DEF Typed
<1>14. Room' /\ NoLines(publish)'
  BY <1>1, <1>3 DEF Room, NoLines
<1>15. wire'[s] = r /\ wire'[t] = wire[t]
  BY <1>1, <1>3, <1>4 DEF Typed
<1>16. Unasked'
  <2>1. ~Fresh(s)
    BY <1>6 DEF Fresh
  <2>2. Fresh(t) => Fresh(t)'
    BY <1>1, <1>4, <1>11, <1>15 DEF Fresh
  <2>3. CASE s = "server"
    BY <2>1, <2>2, <2>3, <1>1, <1>3 DEF Unasked, Other
  <2>4. CASE s = "client"
    BY <2>1, <2>2, <2>4, <1>1, <1>3 DEF Unasked, Other
  <2>5. QED
    BY <2>3, <2>4 DEF Sides
<1>17. ASSUME Apart(t) PROVE Apart(t)'
  <2>1. <<>> \in Seq(UnitType) /\ NoLines(<<>>)
    BY DEF NoLines
  <2>2. Way(t)' = Way(t) /\ Way(t) \in Seq(UnitType)
    BY <1>1, <1>3, <1>4, <1>15, WayHas DEF Way
  <2>3. Way(t)' = Way(t) \o <<>>
    BY <2>2, ConcatEmptySeq
  <2> HIDE DEF t
  <2>4. QED
    BY <1>1, <1>3, <1>4, <1>11, <1>17, <2>1, <2>3, ApartStill
<1>18. ASSUME Apart(s), "cut" \notin mishaps' PROVE Apart(s)'
  <2>1. state'[s] = state[s] /\ Way(s)' = r \o b
    BY <1>1, <1>15 DEF Way
  <2>2. CASE Opened(s)
    <3>1. NoLines(stream[s]) /\ NoLines(Way(s))
      BY <1>18, <2>2 DEF Apart, Opened
    <3>2. NoLines(w) /\ NoLines(b)
      BY <3>1, <1>5, NoLinesOfParts DEF Way
    <3>3. NoLines(p) /\ NoLines(r)
      BY <3>2, <1>5, <1>6, NoLinesOfPieces DEF p, r
    <3>4. NoLines(stream[s] \o p) /\ NoLines(r \o b)
      BY <3>1, <3>2, <3>3, <1>5, <1>7, NoLinesOfBoth
    <3>5. stream'[s] = stream[s] \o p
      BY <1>2, <1>3, <2>2 DEF Opened, Typed
    <3>6. NoLines(stream[s])' /\ NoLines(Way(s))'
      BY <3>4, <3>5, <2>1 DEF NoLines
    <3>7. state'[s] # "CONNECTING"
      BY <2>1, <2>2 DEF Opened
    <3>8. QED
      BY <3>6, <3>7 DEF Apart
  <2>3. CASE state[s] = "CONNECTING"
    <3>1. NoLines(stream[s]) /\ ((NoLines(http[s]) /\ NoLines(Way(s))) \/ Waiting(s))
      BY <1>18, <2>3 DEF Apart
    <3>2. NoLines(http'[s]) /\ NoLines(r \o b) /\ stream'[s] = stream[s]
      BY <1>2, <1>9, <1>18, <2>3, <3>1 DEF Opened
    <3>3. NoLines(stream[s])' /\ NoLines(http[s])' /\ NoLines(Way(s))'
      BY <2>1, <3>1, <3>2 DEF NoLines
    <3>4. QED
      BY <3>3 DEF Apart
  <2>4. CASE state[s] \in {"CLOSING", "CLOSED"}
    BY <2>1, <2>4 DEF Apart, Opened
  <2>5. QED
    BY <2>2, <2>3, <2>4, <1>2
<1>19. AllApart'
  BY <1>12, <1>17, <1>18, <1>3, <1>4, TwoSides DEF AllApart
<1>20. QED
  BY <1>13, <1>14, <1>16, <1>19 DEF WInv

-----------------------------------------------------------------------------
LEMMA WInvInitial == Init => WInv
<1> SUFFICES ASSUME Init
             PROVE  WInv
  OBVIOUS
<1>1. <<>> \in Seq(UnitType) /\ NoLines(<<>>) /\ Len(<<>>) = 0 /\ NoFrame \in Frames
  BY DEF NoLines, NoFrame, Frame, Frames, Ways
<1>2. Typed
  <2>1. /\ state \in [Sides -> States]
        /\ first \in [Sides -> BOOLEAN] /\ headers \in [Sides -> SUBSET Headers]
        /\ processing \in [Sides -> BOOLEAN] /\ watched \in [Sides -> BOOLEAN]
    BY DEF Init, States
  <2>2. /\ http \in [Sides -> Seq(UnitType)] /\ stream \in [Sides -> Seq(UnitType)]
        /\ writeBuf \in [Sides -> Seq(UnitType)] /\ wire \in [Sides -> Seq(UnitType)]
        /\ publish \in Seq(UnitType)
    BY <1>1 DEF Init
  <2>3. frame \in [Sides -> [of : Frames, len : Nat]]
    BY <1>1 DEF Init
  <2>4. queued \in [Sides -> Seq(Frames)] /\ published \in Seq(Frames)
    <3>1. <<>> \in Seq(Frames)
      OBVIOUS
    <3>2. QED
      BY <3>1 DEF Init
  <2>5. asked \in BOOLEAN /\ failed \in BOOLEAN /\ mishaps \subseteq Mishaps
    BY DEF Init
  <2>6. QED
    BY <2>1, <2>2, <2>3, <2>4, <2>5 DEF Typed
<1>3. Room
  BY <1>1, BoundsAssumption DEF Init, Room
<1>4. Unasked
  BY DEF Init, Unasked, Fresh, Sides, Other
<1>5. NoLines(publish)
  BY <1>1 DEF Init
<1>6. ASSUME NEW s \in Sides PROVE Apart(s)
  <2>1. /\ http[s] = <<>> /\ stream[s] = <<>> /\ wire[s] = <<>> /\ writeBuf[Other(s)] = <<>>
        /\ state[s] = "CONNECTING"
    BY OtherSide DEF Init
  <2>2. <<>> \o <<>> = <<>>
    BY <1>1, ConcatEmptySeq
  <2>3. Way(s) = <<>>
    BY <2>1, <2>2 DEF Way
  <2>4. NoLines(http[s]) /\ NoLines(stream[s]) /\ NoLines(Way(s))
    BY <1>1, <2>1, <2>3
  <2>5. QED
    BY <2>1, <2>4 DEF Apart
<1>7. QED
  BY <1>2, <1>3, <1>4, <1>5, <1>6 DEF WInv, AllApart

LEMMA WInvStep ==
  ASSUME WInv, [Next]_vars
  PROVE  WInv'
<1>1. CASE Program
  <2>1. CASE Stream
    BY <2>1, StreamStep
  <2>2. ASSUME NEW s \in Sides, NEW send \in Sends[s], Queue(s, send[1], send[2])
        PROVE  WInv'
    <3>1. send \in {"text", "ping", "close"} \X Nat
      BY <2>2, SendsAssumption DEF Sides
    <3>2. send[1] \in Ops /\ send[2] \in Nat
      BY <3>1 DEF Ops
    <3>3. QED
      BY <2>2, <3>2, QueueStep
  <2>3. ASSUME NEW len \in Lengths, Publish(len) PROVE WInv'
    BY <2>3, PublishStep
  <2>4. ASSUME NEW s \in Sides, Unregister(s) PROVE WInv'
    BY <2>4, CloseStep DEF Unregister
  <2>5. QED
    BY <1>1, <2>1, <2>2, <2>3, <2>4 DEF Program
<1>2. ASSUME NEW s \in Sides, Reads(s) PROVE WInv'
  BY <1>2, ReadStep DEF Reads
<1>3. ASSUME NEW s \in Sides, Rounds(s) PROVE WInv'
  <2>1. CASE Wait(s)
    BY <2>1, WaitStep
  <2>2. CASE Open(s)
    BY <2>2, OpenStep
  <2>3. CASE DoOpen(s)
    BY <2>3, DoOpenStep
  <2>4. CASE DoOpenData(s)
    BY <2>4, DoOpenDataStep
  <2>5. CASE EndClosing(s)
    BY <2>5, EndClosingStep
  <2>6. QED
    BY <1>3, <2>1, <2>2, <2>3, <2>4, <2>5
    DEF Rounds, ProcessState, KeepConnecting, KeepOpen, KeepWaiting, KeepClosed
<1>4. ASSUME NEW s \in Sides, Writes(s) PROVE WInv'
  BY <1>4, WriteBufferStep, WritePublishedStep, CloseStep DEF Writes, WriteFails
<1>5. CASE UNCHANGED vars
  <2>1. /\ UNCHANGED <<state, first, http, stream, asked, writeBuf, publish, wire>>
        /\ UNCHANGED <<headers, frame, processing, got, watched, queued, published, mishaps, failed>>
    BY <1>5 DEF vars, input, output, parsing
  <2>2. Room' /\ Unasked' /\ NoLines(publish)' /\ AllApart'
    BY <2>1, SameKeeps
  <2>3. Typed'
    BY <2>1 DEF WInv, Typed
  <2>4. QED
    BY <2>2, <2>3 DEF WInv
<1>6. QED
  BY <1>1, <1>2, <1>3, <1>4, <1>5 DEF Next

THEOREM WInvInvariant == Spec => []WInv
<1>1. Init => WInv
  BY WInvInitial
<1>2. WInv /\ [Next]_vars => WInv'
  BY WInvStep
<1>3. QED
  BY <1>1, <1>2, PTL DEF Spec

(* Who is foreign stays so, and _head stays in the ring.                   *)
HInv == foreign \in Sides \cup {"neither"} /\ head \in [Sides -> 0 .. Capacity - 1]

LEMMA HInvSame ==
  ASSUME HInv, UNCHANGED <<foreign, head>>
  PROVE  HInv'
BY DEF HInv

LEMMA AdvanceKeeps ==
  ASSUME HInv, foreign' = foreign, NEW s \in Sides, NEW n \in Int, head' = Advance(s, n)
  PROVE  HInv'
<1>1. Capacity \in Nat /\ Capacity > 0
  <2>1. IsFiniteSet(Asked)
    BY HeadersAssumption, FS_Subset DEF Headers
  <2>2. Cardinality(Asked) \in Nat /\ Cardinality(Asked) + 2 <= Capacity
    BY <2>1, HeadersAssumption, FS_CardinalityType
  <2>3. QED
    BY <2>2, BoundsAssumption
<1>2. head[s] \in 0 .. Capacity - 1
  BY DEF HInv
<1>3. (head[s] + n) % Capacity \in 0 .. Capacity - 1
  BY <1>1, <1>2
<1>4. QED
  BY <1>3 DEF HInv, Advance

LEMMA QueueFrameMoves ==
  ASSUME WInv, HInv, foreign' = foreign, NEW s \in Sides, NEW f \in Frames, QueueFrame(s, f)
  PROVE  HInv'
<1>1. PICK u \in Seq(UnitType) : Pushed(s, f) \in Seq(UnitType)
  BY PushedHas DEF WInv, Room
<1>2. Len(Pushed(s, f)) \in Nat /\ Len(writeBuf[s]) \in Nat
  BY <1>1, LenProperties DEF WInv, Typed
<1>3. Len(Pushed(s, f)) - Len(writeBuf[s]) \in Int
  BY <1>2
<1>4. QED
  BY <1>3, AdvanceKeeps DEF QueueFrame

LEMMA HInvStep ==
  ASSUME WInv, HInv, [Next]_vars
  PROVE  HInv'
<1>1. Typed
  BY DEF WInv
<1>2. CASE Program
  <2>1. CASE Stream
    <3>1. Len(Handshake(Asked)) \in Int
      BY RequestHas, LenProperties
    <3>2. "client" \in Sides /\ foreign' = foreign /\ head' = Advance("client", Len(Handshake(Asked)))
      BY <2>1 DEF Stream, input, parsing, Sides
    <3>3. QED
      BY <3>1, <3>2, AdvanceKeeps
  <2>2. ASSUME NEW s \in Sides, NEW send \in Sends[s], Queue(s, send[1], send[2])
        PROVE  HInv'
    <3>1. send \in {"text", "ping", "close"} \X Nat
      BY <2>2, SendsAssumption DEF Sides
    <3>2. send[1] \in Ops /\ send[2] \in Nat
      BY <3>1 DEF Ops
    <3>3. NextFrame(s, send[1], send[2]) \in Frames
      BY <1>1, <3>2, NextFrameHas
    <3>4. foreign' = foreign /\ QueueFrame(s, NextFrame(s, send[1], send[2]))
      BY <2>2 DEF Queue, input, parsing
    <3>5. QED
      BY <3>3, <3>4, QueueFrameMoves
  <2>3. ASSUME NEW len \in Lengths, Publish(len) PROVE HInv'
    BY <2>3, HInvSame DEF Publish, input, parsing
  <2>4. ASSUME NEW s \in Sides, Unregister(s) PROVE HInv'
    BY <2>4, HInvSame DEF Unregister, Close
  <2>5. QED
    BY <1>2, <2>1, <2>2, <2>3, <2>4 DEF Program
<1>3. ASSUME NEW s \in Sides, Reads(s) PROVE HInv'
  BY <1>3, HInvSame DEF Reads, Read, HandleHTTP, parsing, output
<1>4. ASSUME NEW s \in Sides, Rounds(s) PROVE HInv'
  <2>1. CASE Wait(s) \/ DoOpen(s) \/ EndClosing(s)
    BY <2>1, HInvSame DEF Wait, DoOpen, EndClosing, parsing, output
  <2>2. CASE Open(s)
    <3>1. Len(Handshake(Answer)) \in Int
      BY AnswerHas, LenProperties
    <3>2. /\ foreign' = foreign
          /\ head' = head \/ head' = Advance(s, Len(Handshake(Answer)))
      BY <2>2 DEF Open, parsing
    <3>3. QED
      BY <3>1, <3>2, AdvanceKeeps, HInvSame
  <2>3. CASE DoOpenData(s)
    <3>1. NextFrame(s, "pong", frame[s].len) \in Frames
      BY <1>1, NextFrameHas DEF Typed, Ops
    <3>2. foreign' = foreign /\ (head' = head \/ QueueFrame(s, NextFrame(s, "pong", frame[s].len)))
      BY <2>3 DEF DoOpenData, parsing, output
    <3>3. QED
      BY <3>1, <3>2, HInvSame, QueueFrameMoves
  <2>4. QED
    BY <1>4, <2>1, <2>2, <2>3
    DEF Rounds, ProcessState, KeepConnecting, KeepOpen, KeepWaiting, KeepClosed
<1>5. ASSUME NEW s \in Sides, Writes(s) PROVE HInv'
  BY <1>5, HInvSame DEF Writes, WriteBuffer, WritePublished, WriteFails, Close, input, parsing
<1>6. CASE UNCHANGED vars
  BY <1>6, HInvSame DEF vars, input, output, parsing
<1>7. QED
  BY <1>2, <1>3, <1>4, <1>5, <1>6 DEF Next

THEOREM HInvInvariant == Spec => []HInv
<1>1. Init => HInv
  <2>1. IsFiniteSet(Asked)
    BY HeadersAssumption, FS_Subset DEF Headers
  <2>2. Cardinality(Asked) \in Nat /\ Cardinality(Asked) + 2 <= Capacity
    BY <2>1, HeadersAssumption, FS_CardinalityType
  <2>3. 0 \in 0 .. Capacity - 1
    BY <2>2, BoundsAssumption
  <2>4. QED
    BY <2>3 DEF Init, HInv
<1>2. WInv /\ HInv /\ [Next]_vars => HInv'
  BY HInvStep
<1>3. QED
  BY <1>1, <1>2, WInvInvariant, PTL DEF Spec

(* The variables keep their types, and _writeBuf holds no more than its    *)
(* capacity although the handshake is pushed to it unchecked (Stream,      *)
(* ProcessState): the buffer is empty whenever that happens, for the       *)
(* client asks once and neither side queues before it opened.              *)
THEOREM TypeCorrect == Spec => []TypeOK
<1>1. WInv /\ HInv => TypeOK
  <2> SUFFICES ASSUME WInv, HInv
               PROVE  TypeOK
    OBVIOUS
  <2>1. Typed /\ Room
    BY DEF WInv
  <2>2. ASSUME NEW s \in Sides,
               NEW u \in Range(http[s] \o stream[s] \o writeBuf[s] \o wire[s])
        PROVE  u.kind \in Kinds /\ u.frame \in Frames
    <3> DEFINE all == http[s] \o stream[s] \o writeBuf[s] \o wire[s]
    <3>1. /\ http[s] \in Seq(UnitType) /\ stream[s] \in Seq(UnitType)
          /\ writeBuf[s] \in Seq(UnitType) /\ wire[s] \in Seq(UnitType)
      BY <2>1 DEF Typed
    <3>2. ASSUME NEW a \in Seq(UnitType), NEW b \in Seq(UnitType)
          PROVE  a \o b \in Seq(UnitType)
      BY ConcatProperties
    <3>3. http[s] \o stream[s] \in Seq(UnitType)
      BY <3>1, <3>2
    <3>4. http[s] \o stream[s] \o writeBuf[s] \in Seq(UnitType)
      BY <3>1, <3>2, <3>3, Zenon
    <3>5. all \in Seq(UnitType)
      BY <3>1, <3>2, <3>4, Zenon
    <3> HIDE DEF all
    <3>6. PICK i \in DOMAIN all : u = all[i]
      BY <2>2 DEF Range, all
    <3>7. i \in 1 .. Len(all)
      BY <3>5, LenProperties
    <3>8. u \in UnitType
      BY <3>5, <3>6, <3>7, ElementOfSeq
    <3>9. QED
      BY <3>8 DEF UnitType
  <2>3. ASSUME NEW q \in Seq(Frames) PROVE Range(q) \subseteq Frames
    <3>1. DOMAIN q = 1 .. Len(q)
      BY LenProperties
    <3>2. QED
      BY <3>1, ElementOfSeq DEF Range
  <2>4. Range(published) \subseteq Frames /\ \A s \in Sides : Range(queued[s]) \subseteq Frames
    BY <2>1, <2>3 DEF Typed
  <2>5. \A s \in Sides : frame[s].of \in Frames /\ frame[s].len \in Nat
    BY <2>1 DEF Typed
  <2>6. QED
    BY <2>1, <2>2, <2>4, <2>5 DEF TypeOK, Typed, Room, States, HInv
<1>2. QED
  BY <1>1, WInvInvariant, HInvInvariant, PTL

(* A side that has opened takes nothing of the handshake for frames,       *)
(* however its connection was cut and whoever goes at what moment, unless  *)
(* a Read ended inside the handshake: then, and only then, HandleHTTP      *)
(* leaves lines behind, or the connection opens before its blank line.     *)
THEOREM HandshakeIsTaken == Spec => []HandshakeTaken
<1>1. WInv => HandshakeTaken
  <2> SUFFICES ASSUME WInv, "cut" \notin mishaps, NEW s \in Sides, Opened(s),
                      NEW u \in Range(stream[s] \o wire[s])
               PROVE  ~IsLine(u)
    BY DEF HandshakeTaken
  <2>1. Typed /\ Apart(s)
    BY DEF WInv, AllApart
  <2>2. /\ stream[s] \in Seq(UnitType) /\ wire[s] \in Seq(UnitType)
        /\ writeBuf[Other(s)] \in Seq(UnitType)
    BY <2>1, OtherSide DEF Typed
  <2>3. NoLines(stream[s]) /\ NoLines(Way(s))
    BY <2>1 DEF Apart, Opened
  <2>4. NoLines(wire[s])
    BY <2>2, <2>3, NoLinesOfParts DEF Way
  <2>5. NoLines(stream[s] \o wire[s])
    BY <2>2, <2>3, <2>4, NoLinesOfBoth
  <2>6. stream[s] \o wire[s] \in Seq(UnitType)
    BY <2>2, ConcatProperties
  <2>7. DOMAIN (stream[s] \o wire[s]) = 1 .. Len(stream[s] \o wire[s])
    BY <2>6, LenProperties
  <2>8. QED
    BY <2>5, <2>7 DEF Range, NoLines
<1>2. QED
  BY <1>1, WInvInvariant, PTL

-----------------------------------------------------------------------------
-----------------------------------------------------------------------------
(* What is on its way to a side, as a sequence of whole frames: b is the   *)
(* unit taken last, q the frames sent through each buffer, c how many of   *)
(* them the side has begun to take.                                        *)

StartsFrame(u) == IsLine(u) \/ u.at = 1
EndsFrame(u)   == IsLine(u) \/ u.at = Size(u.frame)

(* A unit and the one behind it. *)
Joins(a, b) ==
  \/ EndsFrame(a) /\ StartsFrame(b)
  \/ ~IsLine(a) /\ ~IsLine(b) /\ b.frame = a.frame /\ b.at = a.at + 1

Chained(b, u) ==
  /\ Len(u) > 0 => Joins(b, u[1])
  /\ \A i \in 1 .. Len(u) : i < Len(u) => Joins(u[i], u[i + 1])

SentFrame(q, f) == f.id \in 1 .. Len(q[f.via]) /\ q[f.via][f.id] = f

OfFrame(u) == u.at \in 1 .. Size(u.frame) /\ u = Units(u.frame)[u.at]

Genuine(q, u) == \A i \in 1 .. Len(u) : ~IsLine(u[i]) => SentFrame(q, u[i].frame) /\ OfFrame(u[i])

IsStart(x, f)  == x.kind = "start" /\ x.frame = f
IsBefore(x, f) == x.kind = "start" /\ x.frame.via = f.via /\ x.frame.id = f.id - 1

(* A frame that is begun was not begun before, begins once, and behind the *)
(* frame sent before it.                                                   *)
InTurn(c, u, i) ==
  LET f == u[i].frame IN
  /\ f.id > c[f.via]
  /\ \A j \in 1 .. Len(u) : IsStart(u[j], f) => j = i
  /\ f.id = c[f.via] + 1 \/ \E j \in 1 .. Len(u) : j < i /\ IsBefore(u[j], f)

Ordered(c, u) == \A i \in 1 .. Len(u) : u[i].kind = "start" => InTurn(c, u, i)

Good(q, c, b, u) == Chained(b, u) /\ Genuine(q, u) /\ Ordered(c, u)

(* The unit before the place behind the first n. *)
Before(b, u, n) == IF n = 0 THEN b ELSE u[n]

(* The last frame sent through a buffer is begun among the first n units.  *)
LastUnderWay(q, c, u, n, via) ==
  c[via] = Len(q[via]) \/ \E i \in 1 .. n : u[i].kind = "start" /\ u[i].frame.via = via /\ u[i].frame.id = Len(q[via])

Sents  == [Ways -> Seq(Frames)]
Counts == [Ways -> Nat]

LEMMA StartIs ==
  ASSUME NEW x \in UnitType, OfFrame(x)
  PROVE  ~IsLine(x) /\ x.frame \in Frames /\ (x.kind = "start" <=> x.at = 1)
<1>1. x.frame \in Frames /\ x.at \in 1 .. Size(x.frame) /\ x.at \in Nat
  BY DEF UnitType, OfFrame
<1>2. x = Unit(KindAt(x.frame, x.at), x.frame, x.at)
  BY <1>1, UnitsHave DEF OfFrame
<1>3. x.kind = KindAt(x.frame, x.at)
  BY <1>2 DEF Unit
<1>4. QED
  BY <1>1, <1>2, <1>3, UnitIs

LEMMA LineIsNoStart ==
  ASSUME NEW x, IsLine(x)
  PROVE  x.kind # "start"
BY HeadersAssumption DEF IsLine

LEMMA UnitOfFrame ==
  ASSUME NEW f \in Frames, NEW i \in 1 .. Size(f)
  PROVE  /\ Units(f)[i] \in UnitType /\ OfFrame(Units(f)[i]) /\ ~IsLine(Units(f)[i])
         /\ Units(f)[i].frame = f /\ Units(f)[i].at = i
         /\ (Units(f)[i].kind = "start" <=> i = 1)
<1>1. i \in Nat /\ Size(f) \in Nat /\ Units(f)[i] = Unit(KindAt(f, i), f, i)
  BY SizeIs, UnitsHave
<1>2. Units(f)[i].frame = f /\ Units(f)[i].at = i /\ Units(f)[i].kind = KindAt(f, i)
  BY <1>1 DEF Unit
<1>3. QED
  BY <1>1, <1>2, UnitIs DEF OfFrame

(* Behind the end of a frame another begins.                               *)
LEMMA NextStarts ==
  ASSUME NEW a, NEW x \in UnitType, EndsFrame(a), Joins(a, x), IsLine(x) \/ OfFrame(x)
  PROVE  StartsFrame(x)
<1>1. CASE ~IsLine(a) /\ ~IsLine(x) /\ x.frame = a.frame /\ x.at = a.at + 1
  <2>1. a.at = Size(a.frame) /\ x.at \in 1 .. Size(x.frame) /\ x.frame \in Frames
    BY <1>1 DEF EndsFrame, OfFrame, UnitType
  <2>2. Size(x.frame) \in Nat
    BY <2>1, SizeIs
  <2>3. QED
    BY <1>1, <2>1, <2>2
<1>2. QED
  BY <1>1 DEF Joins

LEMMA GoodPart ==
  ASSUME NEW q, NEW c, NEW b, NEW u \in Seq(UnitType), NEW t \in Seq(UnitType),
         Good(q, c, b, u), Len(t) <= Len(u), \A i \in 1 .. Len(t) : t[i] = u[i]
  PROVE  Good(q, c, b, t)
<1>1. Len(t) \in Nat /\ Len(u) \in Nat /\ \A i \in 1 .. Len(t) : i \in 1 .. Len(u)
  BY LenProperties
<1>2. Chained(b, t)
  <2>1. ASSUME Len(t) > 0 PROVE Joins(b, t[1])
    BY <2>1, <1>1 DEF Good, Chained
  <2>2. ASSUME NEW i \in 1 .. Len(t), i < Len(t) PROVE Joins(t[i], t[i + 1])
    <3>1. i + 1 \in 1 .. Len(t) /\ i < Len(u) /\ i \in 1 .. Len(u)
      BY <2>2, <1>1
    <3>2. t[i] = u[i] /\ t[i + 1] = u[i + 1]
      BY <3>1
    <3>3. QED
      BY <3>1, <3>2 DEF Good, Chained
  <2>3. QED
    BY <2>1, <2>2 DEF Chained
<1>3. Genuine(q, t)
  BY <1>1 DEF Good, Genuine
<1>4. ASSUME NEW i \in 1 .. Len(t), t[i].kind = "start" PROVE InTurn(c, t, i)
  <2> DEFINE f == t[i].frame
  <2>1. InTurn(c, u, i) /\ u[i].frame = f
    BY <1>1, <1>4 DEF Good, Ordered
  <2>2. f.id > c[f.via] /\ \A j \in 1 .. Len(t) : IsStart(t[j], f) => j = i
    BY <1>1, <2>1 DEF InTurn
  <2>3. ASSUME NEW j \in 1 .. Len(u), j < i, IsBefore(u[j], f)
        PROVE  j \in 1 .. Len(t) /\ IsBefore(t[j], f)
    BY <1>1, <2>3
  <2>4. f.id = c[f.via] + 1 \/ \E j \in 1 .. Len(t) : j < i /\ IsBefore(t[j], f)
    BY <2>1, <2>3 DEF InTurn
  <2>5. QED
    BY <2>2, <2>4 DEF InTurn
<1>5. QED
  BY <1>2, <1>3, <1>4 DEF Good, Ordered

(* Units that begin no frame are taken from the front.                     *)
LEMMA GoodRest ==
  ASSUME NEW q, NEW c, NEW b, NEW a, NEW u \in Seq(UnitType), NEW t \in Seq(UnitType),
         NEW n \in Nat, Good(q, c, b, u), Len(t) = Len(u) - n, \A i \in 1 .. Len(t) : t[i] = u[n + i],
         \A i \in 1 .. n : u[i].kind # "start",
         Len(t) > 0 => Joins(a, t[1])
  PROVE  Good(q, c, a, t)
<1>1. /\ Len(t) \in Nat /\ Len(u) \in Nat
      /\ \A i \in 1 .. Len(t) : n + i \in 1 .. Len(u) /\ (i < Len(t) => n + i < Len(u) /\ i + 1 \in 1 .. Len(t))
      /\ \A j \in 1 .. Len(u) : j <= n \/ (j - n \in 1 .. Len(t) /\ n + (j - n) = j)
  BY LenProperties
<1>2. Chained(a, t)
  <2>1. ASSUME NEW i \in 1 .. Len(t), i < Len(t) PROVE Joins(t[i], t[i + 1])
    <3>1. t[i] = u[n + i] /\ t[i + 1] = u[n + (i + 1)] /\ n + (i + 1) = (n + i) + 1
      BY <2>1, <1>1
    <3>2. Joins(u[n + i], u[(n + i) + 1])
      BY <2>1, <1>1 DEF Good, Chained
    <3>3. QED
      BY <3>1, <3>2
  <2>2. QED
    BY <2>1 DEF Chained
<1>3. Genuine(q, t)
  BY <1>1 DEF Good, Genuine
<1>4. ASSUME NEW i \in 1 .. Len(t), t[i].kind = "start" PROVE InTurn(c, t, i)
  <2> DEFINE f == t[i].frame
  <2>1. InTurn(c, u, n + i) /\ u[n + i].frame = f
    BY <1>1, <1>4 DEF Good, Ordered
  <2>2. f.id > c[f.via]
    BY <2>1 DEF InTurn
  <2>3. ASSUME NEW j \in 1 .. Len(t), IsStart(t[j], f) PROVE j = i
    <3>1. n + j = n + i
      BY <1>1, <2>1, <2>3 DEF InTurn
    <3>2. QED
      BY <3>1
  <2>4. ASSUME NEW j \in 1 .. Len(u), j < n + i, IsBefore(u[j], f)
        PROVE  j - n \in 1 .. Len(t) /\ j - n < i /\ IsBefore(t[j - n], f)
    <3>1. ~(j <= n)
      BY <2>4, <1>1 DEF IsBefore
    <3>2. j - n \in 1 .. Len(t) /\ n + (j - n) = j
      BY <3>1, <1>1
    <3>3. t[j - n] = u[j]
      BY <3>2
    <3>4. QED
      BY <2>4, <3>2, <3>3
  <2>5. f.id = c[f.via] + 1 \/ \E j \in 1 .. Len(t) : j < i /\ IsBefore(t[j], f)
    BY <2>1, <2>4 DEF InTurn
  <2>6. QED
    BY <2>2, <2>3, <2>5 DEF InTurn
<1>5. QED
  BY <1>2, <1>3, <1>4 DEF Good, Ordered

(* From a unit of a frame on, the units are those of the frame, as far as  *)
(* it goes.                                                                *)
LEMMA Along ==
  ASSUME NEW q, NEW b, NEW u \in Seq(UnitType), Chained(b, u), Genuine(q, u),
         NEW f \in Frames, NEW a \in 1 .. Size(f), ~IsLine(b), b.frame = f, b.at = a,
         NEW k \in 0 .. Len(u), a + k <= Size(f)
  PROVE  \A i \in 1 .. k : u[i] = Units(f)[a + i]
<1>1. Len(u) \in Nat /\ Size(f) \in Nat
  BY LenProperties, SizeIs
<1> DEFINE T == {i \in 1 .. k : u[i] # Units(f)[a + i]}
<1>2. T = {}
  <2> SUFFICES ASSUME T # {} PROVE FALSE
    OBVIOUS
  <2>1. PICK x \in T : \A y \in T : x <= y
    <3>1. T \subseteq Nat
      BY <1>1
    <3>2. QED
      BY <3>1, LeastNumber
  <2> DEFINE p == IF x = 1 THEN b ELSE u[x - 1]
  <2>2. x \in 1 .. k /\ x \in Nat /\ x \in 1 .. Len(u) /\ a + x \in 1 .. Size(f) /\ a + (x - 1) \in 1 .. Size(f)
        /\ a + (x - 1) < Size(f) /\ a + x = a + (x - 1) + 1
    BY <1>1
  <2>3. ~IsLine(p) /\ p.frame = f /\ p.at = a + (x - 1)
    <3>1. CASE x = 1
      BY <3>1
    <3>2. CASE x # 1
      <4>1. x - 1 \in 1 .. k /\ ~(x <= x - 1)
        BY <2>2, <3>2
      <4>2. u[x - 1] = Units(f)[a + (x - 1)]
        BY <4>1, <2>1
      <4>3. QED
        BY <2>2, <3>2, <4>2, UnitOfFrame
    <3>3. QED
      BY <3>1, <3>2
  <2>4. Joins(p, u[x])
    <3>1. CASE x = 1
      BY <3>1, <2>2 DEF Chained
    <3>2. CASE x # 1
      <4>1. x - 1 \in 1 .. Len(u) /\ x - 1 < Len(u) /\ (x - 1) + 1 = x
        BY <2>2, <3>2, <1>1
      <4>2. QED
        BY <4>1, <3>2 DEF Chained
    <3>3. QED
      BY <3>1, <3>2
  <2>5. ~EndsFrame(p)
    BY <2>2, <2>3 DEF EndsFrame
  <2> HIDE DEF p
  <2>6. ~IsLine(u[x]) /\ u[x].frame = f /\ u[x].at = a + x
    BY <2>2, <2>3, <2>4, <2>5 DEF Joins
  <2>7. u[x] = Units(f)[a + x]
    BY <2>2, <2>6 DEF Genuine, OfFrame
  <2>8. QED
    BY <2>1, <2>7
<1>3. QED
  BY <1>2

(* The units behind a line: a frame begins, and the next of its buffer.    *)
LEMMA Opening ==
  ASSUME NEW q \in Sents, NEW c \in Counts, NEW b, IsLine(b), NEW u \in Seq(UnitType), Good(q, c, b, u),
         Len(u) > 0, ~IsLine(u[1]), HeaderUnits(u[1].frame) <= Len(u)
  PROVE  LET f == u[1].frame
             n == HeaderUnits(f)
         IN  /\ u[1].kind = "start" /\ f \in Frames /\ SentFrame(q, f) /\ f.id = c[f.via] + 1
             /\ \A i \in 1 .. n : u[i] = Units(f)[i]
             /\ \A t \in Seq(UnitType) :
                  Len(t) = Len(u) - n /\ (\A i \in 1 .. Len(t) : t[i] = u[n + i]) =>
                    Good(q, [c EXCEPT ![f.via] = @ + 1], Units(f)[n], t)
<1> DEFINE f == u[1].frame
           n == HeaderUnits(f)
           d == [c EXCEPT ![f.via] = @ + 1]
<1>1. Len(u) \in Nat /\ 1 \in 1 .. Len(u) /\ u[1] \in UnitType /\ OfFrame(u[1]) /\ SentFrame(q, f)
  BY LenProperties, ElementOfSeq DEF Good, Genuine
<1>2. Joins(b, u[1])
  BY DEF Good, Chained
<1>3. u[1].at = 1
  BY <1>2 DEF Joins, StartsFrame
<1>4. u[1].kind = "start" /\ f \in Frames /\ u[1] = Units(f)[1]
  BY <1>1, <1>3, StartIs DEF OfFrame
<1>5. n \in 1 .. 3 /\ n <= Size(f) /\ Size(f) \in Nat /\ 1 \in 1 .. Size(f) /\ n \in 1 .. Size(f)
  <2>1. n \in 1 .. 3 /\ n \in Nat /\ Size(f) \in Nat \ {0} /\ f.len \in Nat /\ Size(f) = n + f.len
    BY <1>4, SizeIs
  <2> HIDE DEF n
  <2>2. QED
    BY <2>1
<1>6. f.id = c[f.via] + 1
  BY <1>1, <1>4 DEF Good, Ordered, InTurn
<1>7. n <= Len(u) /\ n \in Nat
  BY <1>5
<1> HIDE DEF n
<1>8. \A i \in 1 .. n : u[i] = Units(f)[i]
  <2> DEFINE r == Rest(u, 1)
  <2>1. r \in Seq(UnitType) /\ Len(r) = Len(u) - 1 /\ \A i \in 1 .. Len(u) - 1 : r[i] = u[1 + i]
    BY <1>1, RestHas
  <2> HIDE DEF r
  <2>2. Chained(u[1], r)
    <3>1. ASSUME Len(r) > 0 PROVE Joins(u[1], r[1])
      <4>1. r[1] = u[1 + 1] /\ 1 < Len(u)
        BY <3>1, <2>1, <1>1
      <4>2. QED
        BY <4>1, <1>1 DEF Good, Chained
    <3>2. ASSUME NEW i \in 1 .. Len(r), i < Len(r) PROVE Joins(r[i], r[i + 1])
      <4>1. i + 1 \in 1 .. Len(r) /\ 1 + i \in 1 .. Len(u) /\ 1 + i < Len(u) /\ 1 + (i + 1) = (1 + i) + 1
        BY <3>2, <2>1, <1>1
      <4>2. r[i] = u[1 + i] /\ r[i + 1] = u[(1 + i) + 1]
        BY <2>1, <4>1
      <4>3. QED
        BY <4>1, <4>2 DEF Good, Chained
    <3>3. QED
      BY <3>1, <3>2 DEF Chained
  <2>3. Genuine(q, r)
    <3>1. \A i \in 1 .. Len(r) : 1 + i \in 1 .. Len(u) /\ r[i] = u[1 + i]
      BY <2>1, <1>1
    <3>2. QED
      BY <3>1 DEF Good, Genuine
  <2>4. n - 1 \in 0 .. Len(r) /\ 1 + (n - 1) <= Size(f)
    BY <1>1, <1>5, <1>7, <2>1
  <2>5. ~IsLine(u[1]) /\ u[1].frame = f /\ u[1].at = 1 /\ f \in Frames /\ 1 \in 1 .. Size(f)
    BY <1>3, <1>4, <1>5
  <2>6. \A i \in 1 .. n - 1 : r[i] = Units(f)[1 + i]
    BY <2>1, <2>2, <2>3, <2>4, <2>5, Along
  <2>7. ASSUME NEW i \in 1 .. n PROVE u[i] = Units(f)[i]
    <3>1. CASE i = 1
      BY <3>1, <1>4
    <3>2. CASE i # 1
      <4>1. i - 1 \in 1 .. n - 1 /\ 1 + (i - 1) = i /\ i - 1 \in 1 .. Len(u) - 1
        BY <3>2, <1>1, <1>7
      <4>2. QED
        BY <4>1, <2>1, <2>6
    <3>3. QED
      BY <3>1, <3>2
  <2>8. QED
    BY <2>7
<1>9. \A i \in 1 .. n : u[i].kind = "start" <=> i = 1
  <2>1. ASSUME NEW i \in 1 .. n PROVE u[i].kind = "start" <=> i = 1
    <3>1. i \in 1 .. Size(f)
      BY <1>5
    <3>2. QED
      BY <3>1, <1>4, <1>8, UnitOfFrame
  <2>2. QED
    BY <2>1
<1>10. ASSUME NEW t \in Seq(UnitType), Len(t) = Len(u) - n, \A i \in 1 .. Len(t) : t[i] = u[n + i]
       PROVE  Good(q, d, Units(f)[n], t)
  <2>1. /\ Len(t) \in Nat
        /\ \A i \in 1 .. Len(t) : n + i \in 1 .. Len(u) /\ n + i # 1 /\ (i < Len(t) => n + i < Len(u) /\ i + 1 \in 1 .. Len(t))
        /\ \A j \in 1 .. Len(u) : j \in 1 .. n \/ (j - n \in 1 .. Len(t) /\ n + (j - n) = j)
    BY <1>1, <1>5, <1>7, <1>10, LenProperties
  <2>2. Chained(Units(f)[n], t)
    <3>1. ASSUME Len(t) > 0 PROVE Joins(Units(f)[n], t[1])
      <4>1. t[1] = u[n + 1] /\ n \in 1 .. Len(u) /\ n < Len(u) /\ n \in 1 .. n
        BY <3>1, <1>1, <1>5, <1>7, <1>10
      <4>2. u[n] = Units(f)[n]
        BY <4>1, <1>8
      <4>3. QED
        BY <4>1, <4>2 DEF Good, Chained
    <3>2. ASSUME NEW i \in 1 .. Len(t), i < Len(t) PROVE Joins(t[i], t[i + 1])
      <4>1. t[i] = u[n + i] /\ t[i + 1] = u[n + (i + 1)] /\ n + (i + 1) = (n + i) + 1
        BY <3>2, <2>1, <1>10, <1>7
      <4>2. Joins(u[n + i], u[(n + i) + 1])
        BY <3>2, <2>1 DEF Good, Chained
      <4>3. QED
        BY <4>1, <4>2
    <3>3. QED
      BY <3>1, <3>2 DEF Chained
  <2>3. Genuine(q, t)
    BY <2>1, <1>10 DEF Good, Genuine
  <2>4. ASSUME NEW i \in 1 .. Len(t), t[i].kind = "start" PROVE InTurn(d, t, i)
    <3> DEFINE g == t[i].frame
    <3>1. n + i \in 1 .. Len(u) /\ n + i # 1 /\ u[n + i] = t[i]
      BY <2>1, <1>10
    <3>2. InTurn(c, u, n + i) /\ u[n + i].frame = g /\ InTurn(c, u, 1)
      BY <3>1, <2>4, <1>1, <1>4 DEF Good, Ordered
    <3>3. ~IsLine(t[i]) /\ SentFrame(q, g) /\ g \in Frames
      <4>1. t[i] \in UnitType
        BY ElementOfSeq
      <4>2. QED
        BY <4>1, <2>4, <2>3, LineIsNoStart DEF Genuine, UnitType
    <3>4. g # f
      BY <1>1, <1>4, <3>1, <3>2 DEF InTurn, IsStart
    <3>5. g.via \in Ways /\ f.via \in Ways /\ g.id \in Nat /\ c \in [Ways -> Nat]
      BY <1>4, <3>3 DEF Frames, Counts
    <3>6. g.id > d[g.via]
      <4>1. CASE g.via = f.via
        <5>1. g.id > c[f.via] /\ g.id # c[f.via] + 1
          BY <4>1, <1>1, <1>6, <3>2, <3>3, <3>4 DEF InTurn, SentFrame
        <5>2. QED
          BY <4>1, <5>1, <3>5
      <4>2. CASE g.via # f.via
        BY <4>2, <3>2, <3>5 DEF InTurn
      <4>3. QED
        BY <4>1, <4>2
    <3>7. ASSUME NEW j \in 1 .. Len(t), IsStart(t[j], g) PROVE j = i
      <4>1. n + j = n + i
        BY <2>1, <3>2, <3>7, <1>10 DEF InTurn
      <4>2. QED
        BY <4>1, <1>7
    <3>8. g.id = d[g.via] + 1 \/ \E j \in 1 .. Len(t) : j < i /\ IsBefore(t[j], g)
      <4>1. CASE g.id = c[g.via] + 1
        <5>1. g.via # f.via
          BY <4>1, <1>1, <1>6, <3>3, <3>4 DEF SentFrame
        <5>2. QED
          BY <4>1, <5>1, <3>5
      <4>2. ASSUME NEW j \in 1 .. Len(u), j < n + i, IsBefore(u[j], g)
            PROVE  g.id = d[g.via] + 1 \/ \E k \in 1 .. Len(t) : k < i /\ IsBefore(t[k], g)
        <5>1. CASE j \in 1 .. n
          <6>1. j = 1
            BY <5>1, <4>2, <1>9 DEF IsBefore
          <6>2. f.via = g.via /\ f.id = g.id - 1
            BY <6>1, <4>2 DEF IsBefore
          <6>3. d[g.via] = f.id
            BY <6>2, <1>6, <3>5
          <6>4. QED
            BY <6>2, <6>3, <3>5
        <5>2. CASE j - n \in 1 .. Len(t) /\ n + (j - n) = j
          <6>1. t[j - n] = u[j] /\ j - n < i
            BY <5>2, <4>2, <1>10, <1>7
          <6>2. QED
            BY <5>2, <6>1, <4>2
        <5>3. QED
          BY <5>1, <5>2, <2>1
      <4>3. QED
        BY <3>2, <4>1, <4>2 DEF InTurn
    <3>9. QED
      BY <3>6, <3>7, <3>8 DEF InTurn
  <2>5. QED
    BY <2>2, <2>3, <2>4 DEF Good, Ordered
<1>11. QED
  BY <1>1, <1>4, <1>6, <1>8, <1>10 DEF n

(* A frame is taken whole: its payload is what comes next.                 *)
LEMMA Closing ==
  ASSUME NEW q, NEW c, NEW f \in Frames, NEW u \in Seq(UnitType),
         Good(q, c, Units(f)[HeaderUnits(f)], u), f.len <= Len(u)
  PROVE  /\ Prefix(u, f.len) = Payload(f)
         /\ \A i \in 1 .. f.len : u[i].kind # "start"
         /\ EndsFrame(Before(Units(f)[HeaderUnits(f)], u, f.len))
<1> DEFINE h == HeaderUnits(f)
           b == Units(f)[h]
<1>1. h \in 1 .. 3 /\ h \in Nat /\ f.len \in Nat /\ Size(f) = h + f.len /\ Len(u) \in Nat
  BY SizeIs, LenProperties
<1> HIDE DEF h
<1>2. h \in 1 .. Size(f) /\ f.len \in 0 .. Len(u) /\ h + f.len <= Size(f)
  BY <1>1
<1>3. ~IsLine(b) /\ b.frame = f /\ b.at = h
  BY <1>2, UnitOfFrame
<1>4. Chained(b, u) /\ Genuine(q, u)
  BY DEF Good, h
<1> HIDE DEF b
<1>5. \A i \in 1 .. f.len : u[i] = Units(f)[h + i]
  BY <1>2, <1>3, <1>4, Along
<1>6. \A i \in 1 .. f.len : h + i \in 1 .. Size(f) /\ h + i # 1
  BY <1>1
<1>7. \A i \in 1 .. f.len : u[i] = Unit("payload", f, h + i) /\ u[i].kind # "start"
  <2> SUFFICES ASSUME NEW i \in 1 .. f.len
               PROVE  u[i] = Unit("payload", f, h + i) /\ u[i].kind # "start"
    OBVIOUS
  <2>1. u[i] = Unit(KindAt(f, h + i), f, h + i)
    BY <1>5, <1>6, UnitsHave
  <2>2. KindAt(f, h + i) = "payload"
    <3>1. LengthUnits(f) \in 0 .. 1 /\ MaskUnits(f) \in 0 .. 1 /\ h = 1 + LengthUnits(f) + MaskUnits(f)
      BY DEF HeaderUnits, LengthUnits, MaskUnits, h
    <3>2. h + i # 1 /\ ~(h + i <= 1 + LengthUnits(f)) /\ ~(h + i <= h)
      BY <3>1
    <3>3. QED
      BY <3>2 DEF KindAt, h
  <2>3. QED
    BY <2>1, <2>2 DEF Unit
<1>8. Prefix(u, f.len) = Payload(f)
  <2>1. /\ Prefix(u, f.len) \in Seq(UnitType) /\ Len(Prefix(u, f.len)) = f.len
        /\ \A i \in 1 .. f.len : Prefix(u, f.len)[i] = u[i]
    BY <1>2, PrefixHas
  <2>2. Prefix(u, f.len) = [i \in 1 .. f.len |-> Prefix(u, f.len)[i]]
    BY <2>1
  <2>3. QED
    BY <2>1, <2>2, <1>7 DEF Payload, h
<1>9. EndsFrame(Before(b, u, f.len))
  <2>1. CASE f.len = 0
    BY <2>1, <1>1, <1>3 DEF Before, EndsFrame
  <2>2. CASE f.len # 0
    <3>1. f.len \in 1 .. f.len /\ f.len \in 1 .. Len(u)
      BY <2>2, <1>1, <1>2
    <3>2. u[f.len] = Unit("payload", f, h + f.len)
      BY <3>1, <1>7
    <3>3. QED
      BY <2>2, <3>2, <1>1 DEF Before, EndsFrame, Unit
  <2>3. QED
    BY <2>1, <2>2
<1>10. QED
  BY <1>7, <1>8, <1>9 DEF b, h

(* Behind the last unit of a frame, or a line, comes a beginning.          *)
LEMMA BeginningNext ==
  ASSUME NEW q, NEW c, NEW b, NEW u \in Seq(UnitType), Good(q, c, b, u),
         NEW n \in 0 .. Len(u), n < Len(u), EndsFrame(Before(b, u, n))
  PROVE  StartsFrame(u[n + 1])
<1>1. Len(u) \in Nat /\ n + 1 \in 1 .. Len(u) /\ u[n + 1] \in UnitType
  <2>1. Len(u) \in Nat
    BY LenProperties
  <2>2. n + 1 \in 1 .. Len(u)
    BY <2>1
  <2>3. QED
    BY <2>1, <2>2, ElementOfSeq
<1>2. Joins(Before(b, u, n), u[n + 1])
  <2>1. CASE n = 0
    BY <2>1 DEF Good, Chained, Before
  <2>2. CASE n # 0
    <3>1. n \in 1 .. Len(u)
      BY <2>2, <1>1
    <3>2. QED
      BY <3>1, <2>2 DEF Good, Chained, Before
  <2>3. QED
    BY <2>1, <2>2
<1>3. IsLine(u[n + 1]) \/ OfFrame(u[n + 1])
  BY <1>1 DEF Good, Genuine
<1>4. QED
  BY <1>1, <1>2, <1>3, NextStarts

(* ... and before a beginning there is an end.                             *)
LEMMA EndBefore ==
  ASSUME NEW q, NEW c, NEW b, NEW u \in Seq(UnitType), Good(q, c, b, u), IsLine(b) \/ b.at \in Nat \ {0},
         NEW n \in 0 .. Len(u), n < Len(u), u[n + 1].kind = "start"
  PROVE  EndsFrame(Before(b, u, n))
<1> DEFINE p == Before(b, u, n)
<1>1. Len(u) \in Nat /\ n + 1 \in 1 .. Len(u) /\ u[n + 1] \in UnitType
  <2>1. Len(u) \in Nat
    BY LenProperties
  <2>2. n + 1 \in 1 .. Len(u)
    BY <2>1
  <2>3. QED
    BY <2>1, <2>2, ElementOfSeq
<1>2. Joins(p, u[n + 1]) /\ (IsLine(p) \/ p.at \in Nat \ {0})
  <2>1. CASE n = 0
    BY <2>1 DEF Good, Chained, Before
  <2>2. CASE n # 0
    <3>1. n \in 1 .. Len(u)
      BY <2>2, <1>1
    <3>2. u[n] \in UnitType /\ (IsLine(u[n]) \/ OfFrame(u[n]))
      BY <3>1, ElementOfSeq DEF Good, Genuine
    <3>3. IsLine(u[n]) \/ u[n].at \in Nat \ {0}
      BY <3>2 DEF OfFrame, UnitType
    <3>4. QED
      BY <3>1, <3>3, <2>2 DEF Good, Chained, Before
  <2>3. QED
    BY <2>1, <2>2
<1> HIDE DEF p
<1>3. ~IsLine(u[n + 1]) /\ OfFrame(u[n + 1])
  BY <1>1, LineIsNoStart DEF Good, Genuine
<1>4. u[n + 1].at = 1
  BY <1>1, <1>3, StartIs
<1>5. QED
  <2>1. CASE ~IsLine(p) /\ u[n + 1].at = p.at + 1
    BY <2>1, <1>2, <1>4
  <2>2. QED
    BY <2>1, <1>2 DEF Joins, p

(* One more frame is sent.                                                 *)
Adding(q, f) == [q EXCEPT ![f.via] = Append(@, f)]

(* A frame is sent: its units come behind the first n, where a frame ends  *)
(* and the one sent before it through its buffer is under way.             *)
LEMMA GoodInsert ==
  ASSUME NEW q \in Sents, NEW c \in Counts, NEW b, NEW w \in Seq(UnitType), Good(q, c, b, w),
         NEW n \in 0 .. Len(w), EndsFrame(Before(b, w, n)),
         NEW f \in Frames, f.id = Len(q[f.via]) + 1, LastUnderWay(q, c, w, n, f.via),
         NEW t \in Seq(UnitType), Len(t) = Len(w) + Size(f),
         \A i \in 1 .. n : t[i] = w[i],
         \A i \in 1 .. Size(f) : t[n + i] = Units(f)[i],
         \A i \in n + 1 .. Len(w) : t[i + Size(f)] = w[i],
         NEW p, p = [q EXCEPT ![f.via] = Append(@, f)]
  PROVE  Good(p, c, b, t)
<1> DEFINE m == Size(f)
           place(k) == IF k <= n THEN k ELSE k + m
<1>1. /\ Len(w) \in Nat /\ Len(t) \in Nat /\ n \in Nat /\ m \in Nat \ {0}
      /\ f.via \in Ways /\ Len(q[f.via]) \in Nat /\ c[f.via] \in Nat
  BY LenProperties, SizeIs DEF Frames, Sents, Counts
<1>2. /\ \A k \in 1 .. m : n + k \in 1 .. Len(t)
      /\ \A k \in 1 .. m : t[n + k] = Units(f)[k] /\ Units(f)[k].frame = f /\ Units(f)[k].at = k
      /\ \A k \in 1 .. m : OfFrame(Units(f)[k]) /\ ~IsLine(Units(f)[k]) /\ (Units(f)[k].kind = "start" <=> k = 1)
  BY <1>1, UnitOfFrame
<1> HIDE DEF m
<1>3. \A k \in 1 .. Len(w) : place(k) \in 1 .. Len(t) /\ t[place(k)] = w[k]
  BY <1>1 DEF m
<1>4. ASSUME NEW i \in 1 .. Len(t)
      PROVE  (\E k \in 1 .. Len(w) : i = place(k)) \/ (\E k \in 1 .. m : i = n + k)
  <2>1. CASE i <= n
    <3>1. i \in 1 .. Len(w) /\ i = place(i)
      BY <1>1, <2>1
    <3>2. QED
      BY <3>1
  <2>2. CASE n < i /\ i <= n + m
    <3>1. i - n \in 1 .. m /\ i = n + (i - n)
      BY <1>1, <2>2
    <3>2. QED
      BY <3>1
  <2>3. CASE n + m < i
    <3>1. i - m \in 1 .. Len(w) /\ i = place(i - m)
      BY <1>1, <2>3 DEF m
    <3>2. QED
      BY <3>1
  <2>4. QED
    BY <1>1, <2>1, <2>2, <2>3
<1>5. \A j, k \in 1 .. Len(w) : (j < k => place(j) < place(k)) /\ (place(j) = place(k) => j = k)
  BY <1>1
<1>6. \A k \in 1 .. Len(w) : \A j \in 1 .. m : place(k) # n + j
  BY <1>1
<1>7. Len(t) = Len(w) + m
  BY DEF m
<1>8. Chained(b, t)
  <2>1. ASSUME Len(t) > 0 PROVE Joins(b, t[1])
    <3>1. CASE n = 0
      <4>1. 1 \in 1 .. m /\ n + 1 = 1
        BY <3>1, <1>1
      <4>2. StartsFrame(t[1])
        BY <4>1, <1>2 DEF StartsFrame
      <4>3. QED
        BY <3>1, <4>2 DEF Joins, Before
    <3>2. CASE n # 0
      <4>1. 1 \in 1 .. n /\ Len(w) > 0
        BY <3>2, <1>1
      <4>2. t[1] = w[1]
        BY <4>1
      <4>3. QED
        BY <4>1, <4>2 DEF Good, Chained
    <3>3. QED
      BY <3>1, <3>2
  <2>2. ASSUME NEW i \in 1 .. Len(t), i < Len(t) PROVE Joins(t[i], t[i + 1])
    <3>1. CASE i < n
      <4>1. i \in 1 .. n /\ i + 1 \in 1 .. n /\ i \in 1 .. Len(w) /\ i < Len(w)
        BY <3>1, <1>1
      <4>2. t[i] = w[i] /\ t[i + 1] = w[i + 1]
        BY <4>1
      <4>3. QED
        BY <4>1, <4>2 DEF Good, Chained
    <3>2. CASE i = n
      <4>1. 1 \in 1 .. m /\ i \in 1 .. n /\ n # 0
        BY <3>2, <1>1
      <4>2. StartsFrame(t[i + 1])
        BY <3>2, <4>1, <1>2 DEF StartsFrame
      <4>3. EndsFrame(t[i])
        BY <3>2, <4>1 DEF Before
      <4>4. QED
        BY <4>2, <4>3 DEF Joins
    <3>3. CASE n < i /\ i < n + m
      <4> DEFINE k == i - n
      <4>1. k \in 1 .. m /\ k + 1 \in 1 .. m /\ i = n + k /\ i + 1 = n + (k + 1)
        BY <3>3, <1>1
      <4> HIDE DEF k
      <4>2. t[i] = Units(f)[k] /\ t[i + 1] = Units(f)[k + 1]
        BY <4>1, <1>2
      <4>3. QED
        BY <4>1, <4>2, <1>2 DEF Joins
    <3>4. CASE i = n + m
      <4>1. m \in 1 .. m /\ n < Len(w) /\ n + 1 \in n + 1 .. Len(w) /\ i + 1 = (n + 1) + m
        BY <3>4, <2>2, <1>1, <1>7
      <4>2. t[i] = Units(f)[m] /\ Units(f)[m].frame = f /\ Units(f)[m].at = m
        BY <3>4, <4>1, <1>2
      <4>3. EndsFrame(t[i])
        BY <4>2 DEF EndsFrame, m
      <4>4. t[i + 1] = w[n + 1]
        <5>1. t[(n + 1) + m] = w[n + 1]
          BY <4>1 DEF m
        <5>2. QED
          BY <5>1, <4>1, Zenon
      <4>5. StartsFrame(t[i + 1])
        BY <4>1, <4>4, BeginningNext
      <4>6. QED
        BY <4>3, <4>5 DEF Joins
    <3>5. CASE n + m < i
      <4> DEFINE k == i - m
      <4>1. k \in n + 1 .. Len(w) /\ k + 1 \in n + 1 .. Len(w) /\ k \in 1 .. Len(w) /\ k < Len(w)
            /\ i = k + m /\ i + 1 = (k + 1) + m
        BY <3>5, <2>2, <1>1, <1>7
      <4> HIDE DEF k
      <4>2. t[i] = w[k] /\ t[i + 1] = w[k + 1]
        BY <4>1 DEF m
      <4>3. QED
        BY <4>1, <4>2 DEF Good, Chained
    <3>6. QED
      BY <1>1, <3>1, <3>2, <3>3, <3>4, <3>5
  <2>3. QED
    BY <2>1, <2>2 DEF Chained
<1> HIDE DEF place
<1>9. ASSUME NEW g \in Frames, SentFrame(q, g) PROVE SentFrame(p, g) /\ g # f
  <2>1. g.via \in Ways /\ Len(q[g.via]) \in Nat /\ q[g.via] \in Seq(Frames) /\ g.id \in 1 .. Len(q[g.via])
    BY <1>9, LenProperties DEF Frames, Sents, SentFrame
  <2>2. g # f
    BY <2>1, <1>1
  <2>3. CASE g.via = f.via
    <3>1. p[g.via] = Append(q[g.via], f)
      BY <2>1, <2>3 DEF Sents
    <3>2. Len(Append(q[g.via], f)) = Len(q[g.via]) + 1 /\ Append(q[g.via], f)[g.id] = q[g.via][g.id]
      BY <2>1, AppendProperties
    <3>3. QED
      BY <2>1, <2>2, <3>1, <3>2, <1>9 DEF SentFrame
  <2>4. CASE g.via # f.via
    <3>1. p[g.via] = q[g.via]
      BY <2>1, <2>4 DEF Sents
    <3>2. QED
      BY <2>2, <3>1, <1>9 DEF SentFrame
  <2>5. QED
    BY <2>3, <2>4
<1>10. SentFrame(p, f)
  <2>1. p[f.via] = Append(q[f.via], f) /\ q[f.via] \in Seq(Frames)
    BY <1>1 DEF Sents
  <2>2. Len(p[f.via]) = Len(q[f.via]) + 1 /\ p[f.via][Len(q[f.via]) + 1] = f
    BY <2>1, AppendProperties
  <2>3. QED
    BY <2>2, <1>1 DEF SentFrame
<1>11. ASSUME NEW k \in 1 .. Len(w), ~IsLine(w[k])
       PROVE  w[k].frame \in Frames /\ SentFrame(q, w[k].frame) /\ OfFrame(w[k])
  <2>1. w[k] \in UnitType
    BY ElementOfSeq
  <2>2. QED
    BY <2>1, <1>11 DEF Good, Genuine, UnitType
<1>12. Genuine(p, t)
  <2>1. ASSUME NEW i \in 1 .. Len(t), ~IsLine(t[i]) PROVE SentFrame(p, t[i].frame) /\ OfFrame(t[i])
    <3>1. CASE \E k \in 1 .. Len(w) : i = place(k)
      BY <3>1, <2>1, <1>3, <1>9, <1>11
    <3>2. CASE \E k \in 1 .. m : i = n + k
      BY <3>2, <1>2, <1>10
    <3>3. QED
      BY <3>1, <3>2, <1>4
  <2>2. QED
    BY <2>1 DEF Genuine
<1>13. ASSUME NEW k \in 1 .. Len(w), w[k].kind = "start"
       PROVE  w[k].frame \in Frames /\ w[k].frame # f /\ InTurn(c, w, k)
  BY <1>9, <1>11, <1>13, LineIsNoStart DEF Good, Ordered
<1>14. ASSUME NEW i \in 1 .. Len(t), t[i].kind = "start" PROVE InTurn(c, t, i)
  <2>1. ASSUME NEW k \in 1 .. Len(w), i = place(k) PROVE InTurn(c, t, i)
    <3> DEFINE g == w[k].frame
    <3>1. t[i] = w[k] /\ g # f /\ InTurn(c, w, k)
      BY <2>1, <1>3, <1>13, <1>14
    <3>2. g.id > c[g.via]
      BY <3>1 DEF InTurn
    <3>3. ASSUME NEW j \in 1 .. Len(t), IsStart(t[j], g) PROVE j = i
      <4>1. ASSUME NEW l \in 1 .. m, j = n + l PROVE FALSE
        BY <4>1, <3>1, <3>3, <1>2 DEF IsStart
      <4>2. ASSUME NEW l \in 1 .. Len(w), j = place(l) PROVE j = i
        <5>1. IsStart(w[l], g)
          BY <4>2, <3>3, <1>3
        <5>2. l = k
          BY <5>1, <3>1 DEF InTurn
        <5>3. QED
          BY <5>2, <4>2, <2>1
      <4>3. QED
        BY <4>1, <4>2, <1>4
    <3>4. g.id = c[g.via] + 1 \/ \E j \in 1 .. Len(t) : j < i /\ IsBefore(t[j], g)
      <4>1. ASSUME NEW l \in 1 .. Len(w), l < k, IsBefore(w[l], g)
            PROVE  \E j \in 1 .. Len(t) : j < i /\ IsBefore(t[j], g)
        <5>1. place(l) \in 1 .. Len(t) /\ place(l) < i /\ t[place(l)] = w[l]
          BY <4>1, <2>1, <1>3, <1>5
        <5>2. QED
          BY <5>1, <4>1
      <4>2. QED
        BY <4>1, <3>1 DEF InTurn
    <3>5. QED
      BY <3>1, <3>2, <3>3, <3>4 DEF InTurn
  <2>2. ASSUME NEW k \in 1 .. m, i = n + k PROVE InTurn(c, t, i)
    <3>1. t[i].frame = f /\ k = 1
      BY <2>2, <1>2, <1>14
    <3>2. ASSUME NEW j \in 1 .. Len(t), IsStart(t[j], f) PROVE j = i
      <4>1. ASSUME NEW l \in 1 .. m, j = n + l PROVE j = i
        BY <4>1, <3>1, <3>2, <2>2, <1>2 DEF IsStart
      <4>2. ASSUME NEW l \in 1 .. Len(w), j = place(l) PROVE FALSE
        BY <4>2, <3>2, <1>3, <1>13 DEF IsStart
      <4>3. QED
        BY <4>1, <4>2, <1>4
    <3>3. CASE c[f.via] = Len(q[f.via])
      BY <3>1, <3>2, <3>3, <1>1 DEF InTurn
    <3>4. ASSUME NEW l \in 1 .. n, w[l].kind = "start", w[l].frame.via = f.via, w[l].frame.id = Len(q[f.via])
          PROVE  InTurn(c, t, i)
      <4>1. l \in 1 .. Len(w) /\ l \in 1 .. Len(t) /\ l < i /\ t[l] = w[l]
        BY <1>1, <1>7, <2>2
      <4>2. InTurn(c, w, l)
        BY <4>1, <3>4, <1>13
      <4>3. Len(q[f.via]) > c[f.via]
        BY <4>2, <3>4 DEF InTurn
      <4>4. f.id > c[f.via] /\ IsBefore(t[l], f)
        BY <4>1, <4>3, <3>4, <1>1 DEF IsBefore
      <4>5. QED
        BY <4>1, <4>4, <3>1, <3>2 DEF InTurn
    <3>5. QED
      BY <3>3, <3>4 DEF LastUnderWay
  <2>3. QED
    BY <2>1, <2>2, <1>4
<1>15. QED
  BY <1>8, <1>12, <1>14 DEF Good, Ordered

(* The units of f come behind the first n of w.                            *)
Inserted(w, n, f, t) ==
  /\ Len(t) = Len(w) + Size(f)
  /\ \A i \in 1 .. n : t[i] = w[i]
  /\ \A i \in 1 .. Size(f) : t[n + i] = Units(f)[i]
  /\ \A i \in n + 1 .. Len(w) : t[i + Size(f)] = w[i]

(* The first e units end a frame, as all do, and the last frame sent       *)
(* through each buffer is under way.                                       *)
Complete(q, c, b, u, e) ==
  /\ EndsFrame(Before(b, u, e)) /\ EndsFrame(Before(b, u, Len(u)))
  /\ \A via \in Ways : LastUnderWay(q, c, u, Len(u), via)

LEMMA CompleteInsert ==
  ASSUME NEW q \in Sents, NEW c \in Counts, NEW b, NEW w \in Seq(UnitType), Good(q, c, b, w),
         NEW n \in 0 .. Len(w), NEW e \in 0 .. Len(w), Complete(q, c, b, w, e), n = e \/ n = Len(w),
         NEW f \in Frames, f.id = Len(q[f.via]) + 1,
         \A i \in n + 1 .. Len(w) : w[i].kind = "start" => w[i].frame.via # f.via,
         NEW t \in Seq(UnitType), Inserted(w, n, f, t)
  PROVE  /\ Good(Adding(q, f), c, b, t)
         /\ n = e => Complete(Adding(q, f), c, b, t, n + Size(f))
         /\ n = Len(w) => Complete(Adding(q, f), c, b, t, e)
<1> DEFINE m == Size(f)
           p == Adding(q, f)
<1>p. p = [q EXCEPT ![f.via] = Append(@, f)]
  BY DEF Adding
<1> HIDE DEF p
<1>0. /\ Len(t) = Len(w) + Size(f)
      /\ \A i \in 1 .. n : t[i] = w[i]
      /\ \A i \in 1 .. Size(f) : t[n + i] = Units(f)[i]
      /\ \A i \in n + 1 .. Len(w) : t[i + Size(f)] = w[i]
  BY DEF Inserted
<1>1. /\ Len(w) \in Nat /\ Len(t) \in Nat /\ n \in Nat /\ m \in Nat \ {0} /\ e \in Nat
      /\ f.via \in Ways /\ Len(q[f.via]) \in Nat /\ c[f.via] \in Nat
  BY <1>0, LenProperties, SizeIs DEF Frames, Sents, Counts
<1>2. EndsFrame(Before(b, w, n))
  BY DEF Complete
<1>3. LastUnderWay(q, c, w, n, f.via)
  <2>1. LastUnderWay(q, c, w, Len(w), f.via)
    BY <1>1 DEF Complete
  <2>2. ASSUME NEW i \in 1 .. Len(w), w[i].kind = "start", w[i].frame.via = f.via
        PROVE  i \in 1 .. n
    <3>1. i \in 1 .. n \/ i \in n + 1 .. Len(w)
      BY <1>1
    <3>2. QED
      BY <3>1, <2>2
  <2>3. QED
    BY <2>1, <2>2 DEF LastUnderWay
<1>4. Good(p, c, b, t)
  BY <1>0, <1>2, <1>3, <1>p, GoodInsert
<1>5. /\ 1 \in 1 .. m /\ m \in 1 .. m /\ n + 1 \in 1 .. Len(t) /\ n + m \in 1 .. Len(t) /\ n + m # 0
      /\ \A i \in n + 1 .. Len(w) : i + m \in 1 .. Len(t)
      /\ \A i \in 1 .. n : i \in 1 .. Len(t)
  <2>1. Len(t) = Len(w) + m
    BY <1>0
  <2> HIDE DEF m
  <2>2. QED
    BY <2>1, <1>1
<1>6. t[n + 1] = Units(f)[1] /\ t[n + m] = Units(f)[m]
  BY <1>0, <1>5
<1>7. t[n + 1].kind = "start" /\ t[n + 1].frame = f /\ t[n + m].frame = f /\ t[n + m].at = m
  BY <1>5, <1>6, UnitOfFrame
<1>8. EndsFrame(Before(b, t, n + m))
  BY <1>5, <1>7 DEF Before, EndsFrame
<1>9. EndsFrame(Before(b, t, Len(t)))
  <2>1. CASE n = Len(w)
    BY <2>1, <1>0, <1>8
  <2>2. CASE n # Len(w)
    <3>1. Len(w) \in n + 1 .. Len(w) /\ Len(w) # 0 /\ Len(t) # 0
      BY <2>2, <1>0, <1>1
    <3>2. t[Len(w) + m] = w[Len(w)]
      BY <1>0, <3>1
    <3>3. t[Len(t)] = w[Len(w)]
      BY <1>0, <3>2
    <3>4. QED
      BY <3>1, <3>3 DEF Complete, Before
  <2>3. QED
    BY <2>1, <2>2
<1>10. ASSUME n = Len(w) PROVE EndsFrame(Before(b, t, e))
  <2>1. e = 0 \/ e \in 1 .. n
    BY <1>1, <1>10
  <2>2. Before(b, t, e) = Before(b, w, e)
    BY <1>0, <2>1 DEF Before
  <2>3. QED
    BY <2>2 DEF Complete
<1>11. ASSUME NEW via \in Ways PROVE LastUnderWay(p, c, t, Len(t), via)
  <2>1. CASE via = f.via
    <3>1. p[via] = Append(q[via], f) /\ q[via] \in Seq(Frames)
      BY <1>p, <2>1 DEF Sents
    <3>2. Len(p[via]) = f.id
      BY <2>1, <3>1, AppendProperties
    <3>3. QED
      BY <2>1, <3>2, <1>5, <1>7 DEF LastUnderWay
  <2>2. CASE via # f.via
    <3>1. p[via] = q[via]
      BY <1>p, <2>2 DEF Sents
    <3>2. LastUnderWay(q, c, w, Len(w), via)
      BY DEF Complete
    <3>3. ASSUME NEW i \in 1 .. Len(w) PROVE \E j \in 1 .. Len(t) : t[j] = w[i]
      <4>1. CASE i \in 1 .. n
        BY <4>1, <1>0, <1>5
      <4>2. CASE i \in n + 1 .. Len(w)
        BY <4>2, <1>0, <1>5
      <4>3. QED
        BY <4>1, <4>2, <1>1
    <3>4. QED
      BY <3>1, <3>2, <3>3 DEF LastUnderWay
  <2>3. QED
    BY <2>1, <2>2
<1>12. QED
  BY <1>4, <1>8, <1>9, <1>10, <1>11 DEF Complete, p

(* Units are taken from the front.                                         *)
LEMMA CompleteRest ==
  ASSUME NEW q, NEW c, NEW g, NEW b, NEW a, NEW u \in Seq(UnitType), NEW t \in Seq(UnitType),
         NEW n \in Nat, NEW e \in n .. Len(u), Complete(q, c, b, u, e),
         Len(t) = Len(u) - n, \A i \in 1 .. Len(t) : t[i] = u[n + i],
         e = n \/ Len(u) = n => EndsFrame(a),
         \A via \in Ways : c[via] = Len(q[via]) => g[via] = Len(q[via]),
         \A i \in 1 .. n, via \in Ways :
           u[i].kind = "start" /\ u[i].frame.via = via /\ u[i].frame.id = Len(q[via]) => g[via] = Len(q[via])
  PROVE  Complete(q, g, a, t, e - n)
<1>1. Len(u) \in Nat /\ Len(t) \in Nat /\ e \in Nat /\ e - n \in Nat
  BY LenProperties
<1>2. ASSUME NEW k \in n .. Len(u), EndsFrame(Before(b, u, k)), k = n => EndsFrame(a)
      PROVE  EndsFrame(Before(a, t, k - n))
  <2>1. CASE k = n
    BY <2>1, <1>2 DEF Before
  <2>2. CASE k # n
    <3>1. k - n \in 1 .. Len(t) /\ n + (k - n) = k /\ k # 0 /\ k - n # 0
      BY <2>2, <1>1
    <3>2. t[k - n] = u[k]
      BY <3>1
    <3>3. QED
      BY <3>1, <3>2, <1>2 DEF Before
  <2>3. QED
    BY <2>1, <2>2
<1>3. EndsFrame(Before(a, t, e - n))
  BY <1>2 DEF Complete
<1>4. EndsFrame(Before(a, t, Len(t)))
  <2>1. Len(u) \in n .. Len(u)
    BY <1>1
  <2>2. QED
    BY <2>1, <1>2 DEF Complete
<1>5. ASSUME NEW via \in Ways PROVE LastUnderWay(q, g, t, Len(t), via)
  <2>1. CASE c[via] = Len(q[via])
    BY <2>1 DEF LastUnderWay
  <2>2. ASSUME NEW i \in 1 .. Len(u), u[i].kind = "start", u[i].frame.via = via, u[i].frame.id = Len(q[via])
        PROVE  LastUnderWay(q, g, t, Len(t), via)
    <3>1. CASE i \in 1 .. n
      BY <3>1, <2>2 DEF LastUnderWay
    <3>2. CASE i \notin 1 .. n
      <4>1. i - n \in 1 .. Len(t) /\ n + (i - n) = i
        BY <3>2, <1>1
      <4>2. t[i - n] = u[i]
        BY <4>1
      <4>3. QED
        BY <4>1, <4>2, <2>2 DEF LastUnderWay
    <3>3. QED
      BY <3>1, <3>2
  <2>3. QED
    BY <2>1, <2>2 DEF Complete, LastUnderWay
<1>6. QED
  BY <1>3, <1>4, <1>5 DEF Complete

(* HandleHTTP takes lines.                                                 *)
LEMMA LinesOff ==
  ASSUME NEW q, NEW c, NEW b, IsLine(b), NEW u \in Seq(UnitType), Good(q, c, b, u),
         NEW n \in 0 .. Len(u), \A i \in 1 .. n : IsLine(u[i]),
         NEW a, IsLine(a)
  PROVE  /\ Good(q, c, a, Rest(u, n))
         /\ \A e \in n .. Len(u) : Complete(q, c, b, u, e) => Complete(q, c, a, Rest(u, n), e - n)
<1> DEFINE t == Rest(u, n)
<1>1. t \in Seq(UnitType) /\ Len(t) = Len(u) - n /\ (\A i \in 1 .. Len(u) - n : t[i] = u[n + i]) /\ Len(u) \in Nat
  BY RestHas, LenProperties
<1> HIDE DEF t
<1>2. \A i \in 1 .. n : u[i].kind # "start"
  BY LineIsNoStart
<1>3. EndsFrame(a) /\ EndsFrame(Before(b, u, n))
  BY DEF EndsFrame, Before
<1>4. ASSUME Len(t) > 0 PROVE Joins(a, t[1])
  <2>1. n < Len(u) /\ 1 \in 1 .. Len(u) - n
    BY <1>1, <1>4
  <2>2. StartsFrame(u[n + 1]) /\ t[1] = u[n + 1]
    BY <2>1, <1>1, <1>3, BeginningNext
  <2>3. QED
    BY <2>2, <1>3 DEF Joins
<1>5. Good(q, c, a, t)
  BY <1>1, <1>2, <1>4, GoodRest
<1>6. ASSUME NEW e \in n .. Len(u), Complete(q, c, b, u, e)
      PROVE  Complete(q, c, a, t, e - n)
  <2>1. n \in Nat /\ \A i \in 1 .. Len(t) : t[i] = u[n + i]
    BY <1>1
  <2>2. QED
    BY <1>1, <1>2, <1>3, <1>6, <2>1, CompleteRest
<1>7. QED
  BY <1>5, <1>6 DEF t

(* DoOpenData takes a payload.                                             *)
LEMMA PayloadOff ==
  ASSUME NEW q, NEW c, NEW f \in Frames, NEW u \in Seq(UnitType),
         Good(q, c, Units(f)[HeaderUnits(f)], u), f.len <= Len(u),
         NEW a, IsLine(a)
  PROVE  /\ Good(q, c, a, Rest(u, f.len))
         /\ \A e \in f.len .. Len(u) :
              Complete(q, c, Units(f)[HeaderUnits(f)], u, e) => Complete(q, c, a, Rest(u, f.len), e - f.len)
<1> DEFINE n == f.len
           b == Units(f)[HeaderUnits(f)]
           t == Rest(u, n)
<1>1. n \in 0 .. Len(u) /\ n \in Nat /\ Len(u) \in Nat
  BY SizeIs, LenProperties
<1>2. (\A i \in 1 .. n : u[i].kind # "start") /\ EndsFrame(Before(b, u, n))
  BY Closing
<1>3. Good(q, c, b, u)
  OBVIOUS
<1> HIDE DEF n, b
<1>4. t \in Seq(UnitType) /\ Len(t) = Len(u) - n /\ \A i \in 1 .. Len(u) - n : t[i] = u[n + i]
  BY <1>1, RestHas
<1> HIDE DEF t
<1>5. EndsFrame(a)
  BY DEF EndsFrame
<1>6. ASSUME Len(t) > 0 PROVE Joins(a, t[1])
  <2>1. n < Len(u) /\ 1 \in 1 .. Len(u) - n
    BY <1>1, <1>4, <1>6
  <2>2. StartsFrame(u[n + 1]) /\ t[1] = u[n + 1]
    BY <2>1, <1>1, <1>2, <1>3, <1>4, BeginningNext
  <2>3. QED
    BY <2>2, <1>5 DEF Joins
<1>7. Good(q, c, a, t)
  BY <1>1, <1>2, <1>3, <1>4, <1>6, GoodRest
<1>8. ASSUME NEW e \in n .. Len(u), Complete(q, c, b, u, e)
      PROVE  Complete(q, c, a, t, e - n)
  <2>1. \A i \in 1 .. Len(t) : t[i] = u[n + i]
    BY <1>4
  <2>2. QED
    BY <1>1, <1>2, <1>4, <1>5, <1>8, <2>1, CompleteRest
<1>9. QED
  BY <1>7, <1>8 DEF n, b, t

(* DoOpen takes the header of a frame.                                     *)
Counting(c, f) == [c EXCEPT ![f.via] = @ + 1]

LEMMA HeaderOff ==
  ASSUME NEW q \in Sents, NEW c \in Counts, NEW b, IsLine(b), NEW u \in Seq(UnitType), Good(q, c, b, u),
         Len(u) > 0, ~IsLine(u[1]), NEW f \in Frames, f = u[1].frame, HeaderUnits(f) <= Len(u)
  PROVE  /\ u[1].kind = "start" /\ f \in Frames /\ SentFrame(q, f) /\ f.id = c[f.via] + 1
         /\ \A i \in 1 .. HeaderUnits(f) : u[i] = Units(f)[i]
         /\ Good(q, Counting(c, f), Units(f)[HeaderUnits(f)], Rest(u, HeaderUnits(f)))
         /\ \A e \in HeaderUnits(f) .. Len(u) :
              Complete(q, c, b, u, e) =>
                Complete(q, Counting(c, f), Units(f)[HeaderUnits(f)], Rest(u, HeaderUnits(f)), e - HeaderUnits(f))
<1> DEFINE n == HeaderUnits(f)
           a == Units(f)[n]
           t == Rest(u, n)
           g == Counting(c, f)
<1>1. /\ u[1].kind = "start" /\ f \in Frames /\ SentFrame(q, f) /\ f.id = c[f.via] + 1
      /\ \A i \in 1 .. n : u[i] = Units(f)[i]
      /\ \A r \in Seq(UnitType) :
           Len(r) = Len(u) - n /\ (\A i \in 1 .. Len(r) : r[i] = u[n + i]) => Good(q, g, Units(f)[n], r)
  <2>1. HeaderUnits(u[1].frame) <= Len(u)
    OBVIOUS
  <2>2. LET k == u[1].frame
            l == HeaderUnits(k)
        IN  /\ u[1].kind = "start" /\ k \in Frames /\ SentFrame(q, k) /\ k.id = c[k.via] + 1
            /\ \A i \in 1 .. l : u[i] = Units(k)[i]
            /\ \A r \in Seq(UnitType) :
                 Len(r) = Len(u) - l /\ (\A i \in 1 .. Len(r) : r[i] = u[l + i]) =>
                   Good(q, [c EXCEPT ![k.via] = @ + 1], Units(k)[l], r)
    BY ONLY q \in Sents, c \in Counts, IsLine(b), u \in Seq(UnitType), Good(q, c, b, u),
         Len(u) > 0, ~IsLine(u[1]), <2>1, Opening
  <2>3. QED
    BY ONLY f = u[1].frame, <2>2 DEF Counting
<1>2. n \in 1 .. 3 /\ n \in Nat /\ n \in 0 .. Len(u) /\ Len(u) \in Nat /\ n <= Size(f) /\ Size(f) \in Nat
  <2>1. n \in 1 .. 3 /\ n \in Nat /\ f.len \in Nat /\ Size(f) = n + f.len /\ Len(u) \in Nat /\ n <= Len(u)
    BY <1>1, SizeIs, LenProperties
  <2> HIDE DEF n
  <2>2. QED
    BY <2>1
<1>3. t \in Seq(UnitType) /\ Len(t) = Len(u) - n /\ \A i \in 1 .. Len(u) - n : t[i] = u[n + i]
  BY <1>2, RestHas
<1>4. Good(q, g, a, t)
  BY <1>1, <1>3
<1>10. g = [c EXCEPT ![f.via] = @ + 1]
  BY DEF Counting
<1>5. \A i \in 1 .. n : u[i].kind = "start" => i = 1
  <2> SUFFICES ASSUME NEW i \in 1 .. n, u[i].kind = "start" PROVE i = 1
    OBVIOUS
  <2>1. i \in 1 .. Size(f) /\ u[i] = Units(f)[i]
    BY <1>1, <1>2
  <2>2. QED
    BY <2>1, <1>1, UnitOfFrame
<1> HIDE DEF n, a, t, g
<1>6. ASSUME NEW e \in n .. Len(u), Complete(q, c, b, u, e) PROVE Complete(q, g, a, t, e - n)
  <2>1. f.via \in Ways /\ g[f.via] = f.id /\ \A via \in Ways : via # f.via => g[via] = c[via]
    BY <1>1, <1>10 DEF Frames, Counts
  <2>2. ASSUME NEW via \in Ways, c[via] = Len(q[via]) PROVE g[via] = Len(q[via])
    <3>1. CASE via = f.via
      <4>1. f.id \in 1 .. Len(q[via]) /\ f.id = Len(q[via]) + 1 /\ q[via] \in Seq(Frames)
        BY <3>1, <2>2, <1>1 DEF SentFrame, Sents
      <4>2. Len(q[via]) \in Nat
        BY <4>1, LenProperties
      <4>3. QED
        BY <4>1, <4>2
    <3>2. QED
      BY <3>1, <2>1, <2>2
  <2>3. ASSUME NEW i \in 1 .. n, NEW via \in Ways,
               u[i].kind = "start" /\ u[i].frame.via = via /\ u[i].frame.id = Len(q[via])
        PROVE  g[via] = Len(q[via])
    <3>1. u[i].frame = f
      BY <2>3, <1>5
    <3>2. QED
      BY <3>1, <2>1, <2>3
  <2>4. ASSUME e = n \/ Len(u) = n PROVE EndsFrame(a)
    <3>1. EndsFrame(Before(b, u, n))
      BY <1>6, <2>4 DEF Complete
    <3>2. Before(b, u, n) = u[n] /\ n \in 1 .. n
      BY <1>2 DEF Before
    <3>3. QED
      BY <3>1, <3>2, <1>1 DEF a, n
  <2>5. \A i \in 1 .. Len(t) : t[i] = u[n + i]
    BY <1>3
  <2>6. /\ e = n \/ Len(u) = n => EndsFrame(a)
        /\ \A via \in Ways : c[via] = Len(q[via]) => g[via] = Len(q[via])
        /\ \A i \in 1 .. n, via \in Ways :
             u[i].kind = "start" /\ u[i].frame.via = via /\ u[i].frame.id = Len(q[via]) => g[via] = Len(q[via])
        /\ n \in Nat /\ t \in Seq(UnitType) /\ Len(t) = Len(u) - n
    BY <1>2, <1>3, <2>2, <2>3, <2>4
  <2>7. QED
    BY ONLY u \in Seq(UnitType), <1>6, <2>5, <2>6, CompleteRest
<1>7. QED
  BY <1>1, <1>4, <1>6 DEF n, a, t, g

(* A sequence put between two others.                                      *)
LEMMA Between ==
  ASSUME NEW x \in Seq(UnitType), NEW d \in Seq(UnitType), NEW v \in Seq(UnitType),
         NEW t, t = (x \o v) \o d
  PROVE  /\ t \in Seq(UnitType) /\ Len(t) = Len(x \o d) + Len(v)
         /\ \A i \in 1 .. Len(x) : t[i] = (x \o d)[i]
         /\ \A i \in 1 .. Len(v) : t[Len(x) + i] = v[i]
         /\ \A i \in Len(x) + 1 .. Len(x \o d) : t[i + Len(v)] = (x \o d)[i]
<1> DEFINE y == x \o v
           w == x \o d
<1>1. Len(x) \in Nat /\ Len(d) \in Nat /\ Len(v) \in Nat
  BY LenProperties
<1>2. /\ y \in Seq(UnitType) /\ Len(y) = Len(x) + Len(v)
      /\ \A i \in 1 .. Len(x) + Len(v) : y[i] = IF i <= Len(x) THEN x[i] ELSE v[i - Len(x)]
  BY ConcatProperties
<1>3. /\ w \in Seq(UnitType) /\ Len(w) = Len(x) + Len(d)
      /\ \A i \in 1 .. Len(x) + Len(d) : w[i] = IF i <= Len(x) THEN x[i] ELSE d[i - Len(x)]
  BY ConcatProperties
<1>4. t = y \o d
  OBVIOUS
<1> HIDE DEF y, w
<1>5. /\ t \in Seq(UnitType) /\ Len(t) = Len(y) + Len(d)
      /\ \A i \in 1 .. Len(y) + Len(d) : t[i] = IF i <= Len(y) THEN y[i] ELSE d[i - Len(y)]
  BY <1>2, <1>4, ConcatProperties
<1>6. ASSUME NEW i \in 1 .. Len(x) PROVE t[i] = w[i]
  <2>1. i \in 1 .. Len(y) + Len(d) /\ i <= Len(y) /\ i \in 1 .. Len(x) + Len(v) /\ i \in 1 .. Len(x) + Len(d) /\ i <= Len(x)
    BY <1>1, <1>2
  <2>2. QED
    BY <2>1, <1>2, <1>3, <1>5
<1>7. ASSUME NEW i \in 1 .. Len(v) PROVE t[Len(x) + i] = v[i]
  <2>1. /\ Len(x) + i \in 1 .. Len(y) + Len(d) /\ Len(x) + i <= Len(y) /\ Len(x) + i \in 1 .. Len(x) + Len(v)
        /\ ~(Len(x) + i <= Len(x)) /\ (Len(x) + i) - Len(x) = i
    BY <1>1, <1>2
  <2>2. QED
    BY <2>1, <1>2, <1>5
<1>8. ASSUME NEW i \in Len(x) + 1 .. Len(w) PROVE t[i + Len(v)] = w[i]
  <2>1. /\ i + Len(v) \in 1 .. Len(y) + Len(d) /\ ~(i + Len(v) <= Len(y))
        /\ (i + Len(v)) - Len(y) = i - Len(x) /\ i \in 1 .. Len(x) + Len(d) /\ ~(i <= Len(x))
    BY <1>1, <1>2, <1>3
  <2>2. QED
    BY <2>1, <1>3, <1>5
<1>9. Len(t) = Len(w) + Len(v)
  BY <1>1, <1>2, <1>3, <1>5
<1>10. QED
  BY <1>5, <1>6, <1>7, <1>8, <1>9 DEF w

(* The frames that begin in a sequence go out through one buffer.          *)
StartsVia(u, via) == \A i \in 1 .. Len(u) : u[i].kind = "start" => u[i].frame.via = via

LEMMA ViaOfBoth ==
  ASSUME NEW via, NEW u \in Seq(UnitType), NEW v \in Seq(UnitType), StartsVia(u, via), StartsVia(v, via)
  PROVE  StartsVia(u \o v, via)
<1>1. /\ Len(u) \in Nat /\ Len(v) \in Nat /\ Len(u \o v) = Len(u) + Len(v)
      /\ \A i \in 1 .. Len(u) + Len(v) : (u \o v)[i] = IF i <= Len(u) THEN u[i] ELSE v[i - Len(u)]
  BY LenProperties, ConcatProperties
<1>2. \A i \in 1 .. Len(u) + Len(v) : i \in 1 .. Len(u) \/ (~(i <= Len(u)) /\ i - Len(u) \in 1 .. Len(v))
  BY <1>1
<1>3. QED
  BY <1>1, <1>2 DEF StartsVia

LEMMA ViaOfPieces ==
  ASSUME NEW via, NEW u \in Seq(UnitType), NEW n \in 0 .. Len(u), StartsVia(u, via)
  PROVE  StartsVia(Prefix(u, n), via) /\ StartsVia(Rest(u, n), via)
<1>1. Len(u) \in Nat
  BY LenProperties
<1>2. /\ Len(Prefix(u, n)) = n /\ \A i \in 1 .. n : Prefix(u, n)[i] = u[i]
      /\ Len(Rest(u, n)) = Len(u) - n /\ \A i \in 1 .. Len(u) - n : Rest(u, n)[i] = u[n + i]
  BY PrefixHas, RestHas
<1>3. \A i \in 1 .. n : i \in 1 .. Len(u)
  BY <1>1
<1>4. \A i \in 1 .. Len(u) - n : n + i \in 1 .. Len(u)
  BY <1>1
<1>5. QED
  BY <1>2, <1>3, <1>4 DEF StartsVia

LEMMA ViaOfUnits ==
  ASSUME NEW f \in Frames
  PROVE  StartsVia(Units(f), f.via)
<1>1. Len(Units(f)) = Size(f)
  BY UnitsHave
<1>2. QED
  BY <1>1, UnitOfFrame DEF StartsVia

LEMMA ViaOfLines ==
  ASSUME NEW via, NEW u \in Seq(UnitType), \A i \in 1 .. Len(u) : IsLine(u[i])
  PROVE  StartsVia(u, via)
BY LineIsNoStart DEF StartsVia

-----------------------------------------------------------------------------
(* The road to a side: what it read and did not take yet, what is on the   *)
(* wire, and what the other side has still to write, in the order in which *)
(* that will leave.                                                        *)

Ready(o)  == IF o = "server" THEN publish ELSE <<>>
First(o)  == IF MidPublished(o) THEN Ready(o) ELSE writeBuf[o]
Second(o) == IF MidPublished(o) THEN writeBuf[o] ELSE Ready(o)

In(s)    == (IF state[s] = "CONNECTING" THEN http[s] ELSE stream[s]) \o wire[s]
Until(s) == In(s) \o First(Other(s))
Road(s)  == Until(s) \o Second(Other(s))

(* The unit taken last: the end of a header while its payload is awaited.  *)
Behind(s) ==
  IF state[s] = "OPEN_DATA" THEN Units(frame[s].of)[HeaderUnits(frame[s].of)] ELSE Line("blank")

(* What was sent, and how many frames were begun, by buffer.               *)
Sending(s) == [via \in Ways |-> SentTo(s, via)]
Taking(s)  ==
  [via \in Ways |-> Len(got[s][via]) + IF state[s] = "OPEN_DATA" /\ frame[s].of.via = via THEN 1 ELSE 0]

Live(s) == state[s] \in {"CONNECTING", "OPEN", "OPEN_DATA"}

TakenType == [frame : Frames, payload : Seq(UnitType)]

Gots == got \in [Sides -> [Ways -> Seq(TakenType)]]

Vias == StartsVia(publish, "publish") /\ \A s \in Sides : StartsVia(writeBuf[s], "writeBuf")

(* The frames taken are the first that were sent.                          *)
Taken(s) ==
  \A via \in Ways :
    /\ Len(got[s][via]) <= Len(SentTo(s, via))
    /\ \A i \in 1 .. Len(got[s][via]) :
         LET f == SentTo(s, via)[i] IN got[s][via][i] = [frame |-> f, payload |-> Payload(f)]

(* The frame begun is the next of its buffer.                              *)
Halfway(s) ==
  /\ state[s] = "CONNECTING" => stream[s] = <<>>
  /\ state[s] = "OPEN_DATA" =>
       LET f == frame[s].of IN
       frame[s].len = f.len /\ SentFrame(Sending(s), f) /\ f.id = Len(got[s][f.via]) + 1

(* The rest is on the road; while the sender lives, whole and up to the    *)
(* last frame sent.                                                        *)
Arrives(s) ==
  Live(s) =>
    /\ Halfway(s)
    /\ Good(Sending(s), Taking(s), Behind(s), Road(s))
    /\ state[Other(s)] # "NONE" =>
         Complete(Sending(s), Taking(s), Behind(s), Road(s), Len(Until(s)))

DInv == Gots /\ Vias /\ (mishaps = {} => \A s \in Sides : Taken(s) /\ Arrives(s))

LEMMA RoadHas ==
  ASSUME Typed, NEW s \in Sides
  PROVE  /\ In(s) \in Seq(UnitType) /\ First(Other(s)) \in Seq(UnitType) /\ Second(Other(s)) \in Seq(UnitType)
         /\ Until(s) \in Seq(UnitType) /\ Road(s) \in Seq(UnitType)
         /\ Len(Until(s)) = Len(In(s)) + Len(First(Other(s))) /\ Len(Road(s)) = Len(Until(s)) + Len(Second(Other(s)))
         /\ Len(In(s)) \in Nat /\ Len(Until(s)) \in Nat /\ Len(Road(s)) \in Nat
         /\ Len(In(s)) <= Len(Until(s)) /\ Len(Until(s)) <= Len(Road(s))
<1> DEFINE o == Other(s)
           a == In(s)
           b == First(o)
           d == Second(o)
<1>1. /\ http[s] \in Seq(UnitType) /\ stream[s] \in Seq(UnitType) /\ wire[s] \in Seq(UnitType)
      /\ writeBuf[o] \in Seq(UnitType) /\ publish \in Seq(UnitType) /\ <<>> \in Seq(UnitType)
  BY OtherSide DEF Typed
<1>2. a \in Seq(UnitType)
  BY <1>1, ConcatProperties DEF In
<1>3. b \in Seq(UnitType) /\ d \in Seq(UnitType)
  BY <1>1 DEF First, Second, Ready
<1>4. Until(s) = a \o b /\ Road(s) = Until(s) \o d
  BY DEF Until, Road
<1> HIDE DEF a, b, d
<1>5. Until(s) \in Seq(UnitType) /\ Len(Until(s)) = Len(a) + Len(b)
  BY <1>2, <1>3, <1>4, ConcatProperties
<1>6. Road(s) \in Seq(UnitType) /\ Len(Road(s)) = Len(Until(s)) + Len(d)
  BY <1>3, <1>4, <1>5, ConcatProperties
<1>7. Len(a) \in Nat /\ Len(b) \in Nat /\ Len(d) \in Nat /\ Len(Until(s)) \in Nat /\ Len(Road(s)) \in Nat
  BY <1>2, <1>3, <1>5, <1>6, LenProperties
<1>8. Len(a) <= Len(Until(s)) /\ Len(Until(s)) <= Len(Road(s))
  BY <1>5, <1>6, <1>7
<1>9. QED
  BY <1>2, <1>3, <1>5, <1>6, <1>7, <1>8 DEF a, b, d

LEMMA SendingHas ==
  ASSUME Typed, Gots, NEW s \in Sides
  PROVE  Sending(s) \in Sents /\ Taking(s) \in Counts
<1>1. queued[Other(s)] \in Seq(Frames) /\ published \in Seq(Frames) /\ <<>> \in Seq(Frames)
  BY OtherSide DEF Typed
<1>2. \A via \in Ways : SentTo(s, via) \in Seq(Frames)
  BY <1>1 DEF SentTo
<1>3. \A via \in Ways : Len(got[s][via]) \in Nat
  BY LenProperties DEF Gots
<1>4. ASSUME NEW via \in Ways
      PROVE  Len(got[s][via]) + (IF state[s] = "OPEN_DATA" /\ frame[s].of.via = via THEN 1 ELSE 0) \in Nat
  <2> DEFINE k == IF state[s] = "OPEN_DATA" /\ frame[s].of.via = via THEN 1 ELSE 0
  <2>1. k \in Nat
    OBVIOUS
  <2> HIDE DEF k
  <2>2. Len(got[s][via]) + k \in Nat
    BY <2>1, <1>3
  <2>3. QED
    BY <2>2 DEF k
<1>5. Sending(s) \in Sents
  BY <1>2 DEF Sending, Sents
<1>6. Taking(s) \in Counts
  BY <1>4 DEF Taking, Counts
<1>7. QED
  BY <1>5, <1>6

(* A side that a step leaves alone, on both ends of the road.              *)
LEMMA AsideKeeps ==
  ASSUME NEW t \in Sides, NEW o, o = Other(t), Taken(t), Arrives(t),
         state'[t] = state[t], http'[t] = http[t], stream'[t] = stream[t], wire'[t] = wire[t],
         frame'[t] = frame[t], got'[t] = got[t],
         writeBuf'[o] = writeBuf[o], publish' = publish, queued'[o] = queued[o], published' = published,
         state[o] = "NONE" => state'[o] = "NONE"
  PROVE  Taken(t)' /\ Arrives(t)'
<1>1. \A via : SentTo(t, via)' = SentTo(t, via)
  BY DEF SentTo
<1>2. Sending(t)' = Sending(t) /\ Taking(t)' = Taking(t) /\ Behind(t)' = Behind(t)
  BY <1>1 DEF Sending, Taking, Behind
<1>3. MidPublished(o)' = MidPublished(o)
  BY DEF MidPublished
<1>4. First(o)' = First(o) /\ Second(o)' = Second(o)
  BY <1>3 DEF First, Second, Ready
<1>5. In(t)' = In(t)
  BY DEF In
<1>6. Until(t)' = Until(t) /\ Road(t)' = Road(t)
  BY <1>4, <1>5 DEF Until, Road
<1>7. Live(t)' = Live(t)
  BY DEF Live
<1>8. Taken(t)'
  BY <1>1 DEF Taken
<1>9. Halfway(t)' = Halfway(t)
  BY <1>2 DEF Halfway
<1>10. QED
  BY <1>2, <1>6, <1>7, <1>8, <1>9 DEF Arrives

(* A frame joins the road in the middle or at the end.                     *)
LEMMA FrameJoins ==
  ASSUME NEW q \in Sents, NEW c \in Counts, NEW b, NEW x \in Seq(UnitType), NEW d \in Seq(UnitType),
         Good(q, c, b, x \o d), Complete(q, c, b, x \o d, Len(x)),
         NEW f \in Frames, f.id = Len(q[f.via]) + 1
  PROVE  /\ (\E via : via # f.via /\ StartsVia(d, via)) =>
              /\ Good(Adding(q, f), c, b, (x \o Units(f)) \o d)
              /\ Complete(Adding(q, f), c, b, (x \o Units(f)) \o d, Len(x \o Units(f)))
         /\ Good(Adding(q, f), c, b, x \o (d \o Units(f)))
         /\ Complete(Adding(q, f), c, b, x \o (d \o Units(f)), Len(x))
<1> DEFINE v == Units(f)
           w == x \o d
           m == Size(f)
<1>1. /\ v \in Seq(UnitType) /\ Len(v) = m /\ m \in Nat /\ Len(x) \in Nat /\ Len(d) \in Nat
      /\ w \in Seq(UnitType) /\ Len(w) = Len(x) + Len(d)
      /\ x \o v \in Seq(UnitType) /\ Len(x \o v) = Len(x) + m
  <2>1. v \in Seq(UnitType) /\ Len(v) = m /\ m \in Nat
    BY UnitsHave, SizeIs
  <2> HIDE DEF v, m
  <2>2. QED
    BY <2>1, LenProperties, ConcatProperties
<1>2. Len(x) \in 0 .. Len(w) /\ Len(w) \in 0 .. Len(w)
  BY <1>1
<1>3. Good(q, c, b, w) /\ Complete(q, c, b, w, Len(x))
  OBVIOUS
<1> HIDE DEF v, m
<1>4. ASSUME NEW via, via # f.via, StartsVia(d, via)
      PROVE  Good(Adding(q, f), c, b, (x \o v) \o d) /\ Complete(Adding(q, f), c, b, (x \o v) \o d, Len(x \o v))
  <2> DEFINE t == (x \o v) \o d
  <2>1. t \in Seq(UnitType) /\ Inserted(w, Len(x), f, t)
    <3>1. t = (x \o v) \o d /\ w = x \o d
      OBVIOUS
    <3>2. x \in Seq(UnitType) /\ d \in Seq(UnitType) /\ v \in Seq(UnitType)
      BY <1>1
    <3> HIDE DEF t, w
    <3>3. /\ t \in Seq(UnitType) /\ Len(t) = Len(w) + Len(v)
          /\ \A i \in 1 .. Len(x) : t[i] = w[i]
          /\ \A i \in 1 .. Len(v) : t[Len(x) + i] = v[i]
          /\ \A i \in Len(x) + 1 .. Len(w) : t[i + Len(v)] = w[i]
      BY ONLY <3>1, <3>2, Between
    <3>4. QED
      BY <3>3, <1>1 DEF Inserted, v, m
  <2>2. ASSUME NEW i \in Len(x) + 1 .. Len(w), w[i].kind = "start" PROVE w[i].frame.via # f.via
    <3>1. i \in 1 .. Len(x) + Len(d) /\ ~(i <= Len(x)) /\ i - Len(x) \in 1 .. Len(d)
      BY <1>1
    <3>2. w[i] = d[i - Len(x)]
      BY <3>1, ConcatProperties
    <3>3. QED
      BY <3>1, <3>2, <2>2, <1>4 DEF StartsVia
  <2>3. Len(x \o v) = Len(x) + Size(f)
    BY <1>1 DEF m
  <2> HIDE DEF t, w
  <2>4. Good(Adding(q, f), c, b, t) /\ Complete(Adding(q, f), c, b, t, Len(x) + Size(f))
    <3>1. Len(x) \in 0 .. Len(w) /\ (Len(x) = Len(x) \/ Len(x) = Len(w))
      BY <1>2
    <3>2. \A i \in Len(x) + 1 .. Len(w) : w[i].kind = "start" => w[i].frame.via # f.via
      BY <2>2
    <3>3. w \in Seq(UnitType)
      BY <1>1
    <3>4. /\ Good(Adding(q, f), c, b, t)
          /\ Len(x) = Len(x) => Complete(Adding(q, f), c, b, t, Len(x) + Size(f))
          /\ Len(x) = Len(w) => Complete(Adding(q, f), c, b, t, Len(x))
      BY <3>1, <3>2, <3>3, <1>3, <2>1, CompleteInsert
    <3>9. QED
      BY <3>4
  <2>5. QED
    BY <2>3, <2>4 DEF t
<1>5. Good(Adding(q, f), c, b, x \o (d \o v)) /\ Complete(Adding(q, f), c, b, x \o (d \o v), Len(x))
  <2> DEFINE t == (w \o v) \o <<>>
  <2>1. <<>> \in Seq(UnitType) /\ w \o <<>> = w
    BY <1>1, ConcatEmptySeq
  <2>2. t = x \o (d \o v)
    <3>1. w \o v \in Seq(UnitType)
      BY <1>1, ConcatProperties
    <3>2. t = w \o v
      BY <3>1, ConcatEmptySeq
    <3>3. w \o v = x \o (d \o v)
      BY <1>1, Joined
    <3>4. QED
      BY <3>2, <3>3
  <2>3. t \in Seq(UnitType) /\ Inserted(w, Len(w), f, t)
    <3>1. t = (w \o v) \o <<>>
      OBVIOUS
    <3>2. w \in Seq(UnitType) /\ v \in Seq(UnitType)
      BY <1>1
    <3> HIDE DEF t, w
    <3>3. /\ t \in Seq(UnitType) /\ Len(t) = Len(w \o <<>>) + Len(v)
          /\ \A i \in 1 .. Len(w) : t[i] = (w \o <<>>)[i]
          /\ \A i \in 1 .. Len(v) : t[Len(w) + i] = v[i]
          /\ \A i \in Len(w) + 1 .. Len(w \o <<>>) : t[i + Len(v)] = (w \o <<>>)[i]
      BY ONLY <2>1, <3>1, <3>2, Between
    <3>4. QED
      BY <3>3, <2>1, <1>1 DEF Inserted, v, m
  <2> HIDE DEF t, w
  <2>4. \A i \in Len(w) + 1 .. Len(w) : FALSE
    BY <1>1
  <2>5. Good(Adding(q, f), c, b, t) /\ Complete(Adding(q, f), c, b, t, Len(x))
    <3>1. Len(w) \in 0 .. Len(w) /\ Len(x) \in 0 .. Len(w) /\ (Len(w) = Len(x) \/ Len(w) = Len(w))
      BY <1>2
    <3>2. \A i \in Len(w) + 1 .. Len(w) : w[i].kind = "start" => w[i].frame.via # f.via
      BY <2>4
    <3>3. w \in Seq(UnitType)
      BY <1>1
    <3>4. /\ Good(Adding(q, f), c, b, t)
          /\ Len(w) = Len(x) => Complete(Adding(q, f), c, b, t, Len(w) + Size(f))
          /\ Len(w) = Len(w) => Complete(Adding(q, f), c, b, t, Len(x))
      BY <3>1, <3>2, <3>3, <1>3, <2>3, CompleteInsert
    <3>9. QED
      BY <3>4
  <2>6. QED
    BY <2>2, <2>5
<1>6. QED
  BY <1>4, <1>5 DEF v

LEMMA RestOfBoth ==
  ASSUME NEW x \in Seq(UnitType), NEW y \in Seq(UnitType), NEW k \in 0 .. Len(x)
  PROVE  /\ Rest(x, k) \o y = Rest(x \o y, k)
         /\ \A i \in 1 .. Len(x) : (x \o y)[i] = x[i]
<1> DEFINE w == x \o y
<1>1. /\ Len(x) \in Nat /\ Len(y) \in Nat
      /\ w \in Seq(UnitType) /\ Len(w) = Len(x) + Len(y)
      /\ \A i \in 1 .. Len(x) + Len(y) : w[i] = IF i <= Len(x) THEN x[i] ELSE y[i - Len(x)]
  BY LenProperties, ConcatProperties
<1>2. k \in 0 .. Len(w)
  BY <1>1
<1> HIDE DEF w
<1> DEFINE r == Rest(x, k)
           l == Rest(w, k)
           j == r \o y
<1>3. r \in Seq(UnitType) /\ Len(r) = Len(x) - k /\ \A i \in 1 .. Len(x) - k : r[i] = x[k + i]
  BY RestHas
<1>4. l \in Seq(UnitType) /\ Len(l) = Len(w) - k /\ \A i \in 1 .. Len(w) - k : l[i] = w[k + i]
  BY <1>1, <1>2, RestHas
<1> HIDE DEF r, l
<1>5. /\ j \in Seq(UnitType) /\ Len(j) = Len(r) + Len(y)
      /\ \A i \in 1 .. Len(r) + Len(y) : j[i] = IF i <= Len(r) THEN r[i] ELSE y[i - Len(r)]
  BY <1>3, ConcatProperties
<1> HIDE DEF j
<1>6. Len(j) = Len(l) /\ Len(j) \in Nat
  BY <1>1, <1>3, <1>4, <1>5
<1>7. ASSUME NEW i \in 1 .. Len(j) PROVE j[i] = l[i]
  <2>5. k + i \in 1 .. Len(x) + Len(y) /\ i \in 1 .. Len(r) + Len(y) /\ i \in 1 .. Len(w) - k
    BY <1>1, <1>3, <1>5
  <2>1. l[i] = w[k + i] /\ k + i \in 1 .. Len(x) + Len(y) /\ i \in 1 .. Len(r) + Len(y)
    BY <2>5, <1>4
  <2>2. CASE i <= Len(r)
    <3>1. i \in 1 .. Len(x) - k /\ k + i <= Len(x)
      BY <2>2, <1>1, <1>3
    <3>2. QED
      BY <2>1, <2>2, <3>1, <1>1, <1>3, <1>5
  <2>3. CASE ~(i <= Len(r))
    <3>1. ~(k + i <= Len(x)) /\ (k + i) - Len(x) = i - Len(r)
      BY <2>3, <1>1, <1>3
    <3>2. QED
      BY <2>1, <2>3, <3>1, <1>1, <1>5
  <2>4. QED
    BY <2>2, <2>3
<1>8. j = l
  <2>1. j = [i \in 1 .. Len(j) |-> j[i]] /\ l = [i \in 1 .. Len(l) |-> l[i]]
    BY <1>4, <1>5
  <2>2. QED
    BY <2>1, <1>6, <1>7
<1>9. \A i \in 1 .. Len(x) : w[i] = x[i]
  BY <1>1
<1>10. QED
  BY <1>8, <1>9 DEF r, l, j, w

(* A frame that was sent stays one when another is.                        *)
LEMMA SentStill ==
  ASSUME NEW q \in Sents, NEW f \in Frames, NEW g \in Frames, SentFrame(q, g)
  PROVE  SentFrame(Adding(q, f), g)
<1>1. /\ g.via \in Ways /\ f.via \in Ways
      /\ Len(q[g.via]) \in Nat /\ q[g.via] \in Seq(Frames) /\ g.id \in 1 .. Len(q[g.via])
  BY LenProperties DEF Frames, Sents, SentFrame
<1>2. CASE g.via = f.via
  <2>1. Adding(q, f)[g.via] = Append(q[g.via], f)
    BY <1>1, <1>2 DEF Sents, Adding
  <2>2. Len(Append(q[g.via], f)) = Len(q[g.via]) + 1 /\ Append(q[g.via], f)[g.id] = q[g.via][g.id]
    BY <1>1, AppendProperties
  <2>3. g.id \in 1 .. Len(q[g.via]) + 1
    BY <1>1
  <2>4. QED
    BY <2>1, <2>2, <2>3 DEF SentFrame
<1>3. CASE g.via # f.via
  <2>1. Adding(q, f)[g.via] = q[g.via]
    BY <1>1, <1>3 DEF Sents, Adding
  <2>2. QED
    BY <2>1 DEF SentFrame
<1>4. QED
  BY <1>2, <1>3

(* The road is the same, and so is what the side makes of it.              *)
LEMMA RoadKeeps ==
  ASSUME NEW t \in Sides, Taken(t), Arrives(t),
         state'[t] = state[t], frame'[t] = frame[t], got'[t] = got[t],
         state[t] = "CONNECTING" => stream'[t] = stream[t],
         \A via : SentTo(t, via)' = SentTo(t, via),
         Road(t)' = Road(t),
         state'[Other(t)] # "NONE" => state[Other(t)] # "NONE",
         Live(t) /\ state[Other(t)] # "NONE" => EndsFrame(Before(Behind(t), Road(t), Len(Until(t)')))
  PROVE  Taken(t)' /\ Arrives(t)'
<1>1. Sending(t)' = Sending(t) /\ Taking(t)' = Taking(t) /\ Behind(t)' = Behind(t)
  BY DEF Sending, Taking, Behind
<1>2. Live(t)' = Live(t) /\ Taken(t)'
  BY DEF Live, Taken
<1>3. Halfway(t) => Halfway(t)'
  BY <1>1 DEF Halfway
<1>4. ASSUME Live(t), state'[Other(t)] # "NONE"
      PROVE  Complete(Sending(t), Taking(t), Behind(t), Road(t), Len(Until(t)'))
  BY <1>4 DEF Arrives, Complete
<1>5. QED
  BY <1>1, <1>2, <1>3, <1>4 DEF Arrives

(* Another frame is sent to a side that goes on as it was.                 *)
LEMMA SentArrives ==
  ASSUME Typed, Gots, Vias, NEW t \in Sides, NEW o, o = Other(t), Taken(t), Arrives(t), state[o] # "NONE",
         NEW f \in Frames, f.id = Len(SentTo(t, f.via)) + 1,
         state'[t] = state[t], http'[t] = http[t], stream'[t] = stream[t], wire'[t] = wire[t],
         frame'[t] = frame[t], got'[t] = got[t],
         \A via \in Ways : SentTo(t, via)' = IF via = f.via THEN Append(SentTo(t, via), f) ELSE SentTo(t, via),
         \/ /\ f.via = "writeBuf" /\ publish' = publish
            /\ writeBuf'[o] = writeBuf[o] \o Units(f)
         \/ /\ f.via = "publish" /\ o = "server" /\ writeBuf'[o] = writeBuf[o]
            /\ publish' = publish \o Units(f)
  PROVE  Taken(t)' /\ Arrives(t)'
<1> DEFINE q == Sending(t)
           p == Adding(q, f)
           c == Taking(t)
           b == Behind(t)
<1>1. q \in Sents /\ c \in Counts
  BY SendingHas
<1>2. f.via \in Ways /\ \A via \in Ways : q[via] = SentTo(t, via) /\ q[via] \in Seq(Frames) /\ Len(q[via]) \in Nat
  BY <1>1, LenProperties DEF Frames, Sending, Sents
<1>3. Sending(t)' = p
  BY <1>2 DEF Sending, Adding
<1>4. Taking(t)' = c /\ Behind(t)' = b /\ Live(t)' = Live(t) /\ In(t)' = In(t)
  BY DEF Taking, Behind, Live, In
<1>5. Taken(t)'
  <2>1. ASSUME NEW via \in Ways
        PROVE  /\ Len(SentTo(t, via)) <= Len(SentTo(t, via)') /\ Len(SentTo(t, via)') \in Nat
               /\ \A i \in 1 .. Len(SentTo(t, via)) : SentTo(t, via)'[i] = SentTo(t, via)[i]
    <3>1. SentTo(t, via) \in Seq(Frames) /\ Len(SentTo(t, via)) \in Nat
      BY <1>2
    <3>2. CASE via = f.via
      <4>1. SentTo(t, via)' = Append(SentTo(t, via), f)
        BY <3>2
      <4>2. QED
        BY <3>1, <4>1, AppendProperties
    <3>3. CASE via # f.via
      <4>1. SentTo(t, via)' = SentTo(t, via)
        BY <3>3
      <4>2. QED
        BY <3>1, <4>1
    <3>4. QED
      BY <3>2, <3>3
  <2>2. ASSUME NEW via \in Ways
        PROVE  /\ Len(got'[t][via]) <= Len(SentTo(t, via)')
               /\ \A i \in 1 .. Len(got'[t][via]) :
                    LET g == SentTo(t, via)'[i] IN got'[t][via][i] = [frame |-> g, payload |-> Payload(g)]
    <3>1. /\ got'[t][via] = got[t][via] /\ Len(got[t][via]) \in Nat /\ Len(SentTo(t, via)) \in Nat
          /\ Len(got[t][via]) <= Len(SentTo(t, via))
      BY <1>2, LenProperties DEF Gots, Taken
    <3>2. ASSUME NEW i \in 1 .. Len(got[t][via])
          PROVE  LET g == SentTo(t, via)'[i] IN got[t][via][i] = [frame |-> g, payload |-> Payload(g)]
      <4>1. i \in 1 .. Len(SentTo(t, via))
        BY <3>1
      <4>2. SentTo(t, via)'[i] = SentTo(t, via)[i]
        BY <4>1, <2>1
      <4>3. QED
        BY <4>2 DEF Taken
    <3>3. QED
      BY <3>1, <3>2, <2>1
  <2>3. QED
    BY <2>2 DEF Taken
<1>6. MidPublished(o)' = MidPublished(o)
  <2>1. CASE publish' = publish
    BY <2>1 DEF MidPublished
  <2>2. CASE publish' = publish \o Units(f)
    <3>1. publish \in Seq(UnitType) /\ Units(f) \in Seq(UnitType) /\ Len(Units(f)) = Size(f) /\ Size(f) \in Nat \ {0}
      BY UnitsHave, SizeIs DEF Typed
    <3>2. 1 \in 1 .. Size(f) /\ Units(f)[1].kind = "start"
      <4>1. 1 \in 1 .. Size(f)
        BY <3>1
      <4>2. QED
        BY <4>1, UnitOfFrame
    <3>3. /\ Len(publish) \in Nat /\ Len(publish') = Len(publish) + Size(f)
          /\ \A i \in 1 .. Len(publish) + Size(f) :
               publish'[i] = IF i <= Len(publish) THEN publish[i] ELSE Units(f)[i - Len(publish)]
      <4> DEFINE v == Units(f)
                 m == Size(f)
      <4>1. publish \in Seq(UnitType) /\ v \in Seq(UnitType) /\ Len(v) = m /\ publish' = publish \o v
        BY <3>1, <2>2
      <4> HIDE DEF v, m
      <4>2. /\ Len(publish) \in Nat /\ Len(publish') = Len(publish) + m
            /\ \A i \in 1 .. Len(publish) + m :
                 publish'[i] = IF i <= Len(publish) THEN publish[i] ELSE v[i - Len(publish)]
        BY ONLY <4>1, LenProperties, ConcatProperties
      <4>3. QED
        BY <4>2 DEF v, m
    <3>4. publish' # <<>> /\ 1 \in 1 .. Len(publish) + Size(f)
      BY <3>1, <3>3
    <3>5. CASE publish = <<>>
      BY <3>2, <3>3, <3>4, <3>5 DEF MidPublished
    <3>6. CASE publish # <<>>
      <4>1. 1 <= Len(publish)
        BY <3>1, <3>6
      <4>2. publish'[1] = publish[1]
        BY <4>1, <3>3, <3>4
      <4>3. QED
        BY <4>2, <3>4, <3>6 DEF MidPublished
    <3>7. QED
      BY <3>5, <3>6
  <2>3. QED
    BY <2>1, <2>2
<1>7. ASSUME Live(t)
      PROVE  Good(p, c, b, Road(t)') /\ Complete(p, c, b, Road(t)', Len(Until(t)'))
  <2> DEFINE x == Until(t)
             d == Second(o)
             v == Units(f)
  <2>1. /\ In(t) \in Seq(UnitType) /\ First(o) \in Seq(UnitType) /\ v \in Seq(UnitType)
        /\ x \in Seq(UnitType) /\ d \in Seq(UnitType) /\ Road(t) = x \o d /\ x = In(t) \o First(o)
    BY RoadHas, UnitsHave DEF Road, Until
  <2>2. Good(q, c, b, x \o d) /\ Complete(q, c, b, x \o d, Len(x)) /\ f.id = Len(q[f.via]) + 1
    BY <1>2, <1>7, <2>1 DEF Arrives
  <2>3. Until(t)' = In(t) \o First(o)' /\ Road(t)' = Until(t)' \o Second(o)'
    BY <1>4 DEF Until, Road
  <2> HIDE DEF q, p, c, b, x, d, v
  <2>4. /\ (\E via : via # f.via /\ StartsVia(d, via)) =>
             Good(p, c, b, (x \o v) \o d) /\ Complete(p, c, b, (x \o v) \o d, Len(x \o v))
        /\ Good(p, c, b, x \o (d \o v)) /\ Complete(p, c, b, x \o (d \o v), Len(x))
    BY <1>1, <2>1, <2>2, FrameJoins DEF p, v
  <2>5. CASE First(o)' = First(o) /\ Second(o)' = d \o v
    <3>1. Until(t)' = x /\ Road(t)' = x \o (d \o v)
      BY <2>1, <2>3, <2>5
    <3>2. QED
      BY <3>1, <2>4
  <2>6. CASE First(o)' = First(o) \o v /\ Second(o)' = d /\ \E via : via # f.via /\ StartsVia(d, via)
    <3>1. In(t) \o (First(o) \o v) = x \o v
      <4>1. (In(t) \o First(o)) \o v = In(t) \o (First(o) \o v)
        BY ONLY <2>1, Joined
      <4>2. QED
        BY ONLY <2>1, <4>1
    <3>2. Until(t)' = x \o v /\ Road(t)' = (x \o v) \o d
      BY <2>3, <2>6, <3>1
    <3>3. QED
      BY <3>2, <2>4, <2>6
  <2>7. \/ First(o)' = First(o) /\ Second(o)' = d \o v
        \/ First(o)' = First(o) \o v /\ Second(o)' = d /\ \E via : via # f.via /\ StartsVia(d, via)
    <3>1. o \in Sides /\ StartsVia(publish, "publish") /\ StartsVia(writeBuf[o], "writeBuf") /\ StartsVia(<<>>, "publish")
      BY OtherSide DEF Vias, StartsVia
    <3>2. StartsVia(Ready(o), "publish")
      BY <3>1 DEF Ready
    <3>3. CASE f.via = "writeBuf" /\ publish' = publish /\ writeBuf'[o] = writeBuf[o] \o v
      <4>1. Ready(o)' = Ready(o)
        BY <3>3 DEF Ready
      <4>2. CASE MidPublished(o)
        BY <4>1, <4>2, <3>3, <1>6 DEF First, Second, d
      <4>3. CASE ~MidPublished(o)
        <5>1. First(o)' = First(o) \o v /\ Second(o)' = d
          BY <4>1, <4>3, <3>3, <1>6 DEF First, Second, d
        <5>2. StartsVia(d, "publish")
          BY <3>2, <4>3 DEF Second, d
        <5>3. QED
          BY <5>1, <5>2, <3>3
      <4>4. QED
        BY <4>2, <4>3
    <3>4. CASE f.via = "publish" /\ o = "server" /\ writeBuf'[o] = writeBuf[o] /\ publish' = publish \o v
      <4>1. Ready(o)' = Ready(o) \o v
        BY <3>4 DEF Ready
      <4>2. CASE ~MidPublished(o)
        BY <4>1, <4>2, <3>4, <1>6 DEF First, Second, d
      <4>3. CASE MidPublished(o)
        <5>1. First(o)' = First(o) \o v /\ Second(o)' = d
          BY <4>1, <4>3, <3>4, <1>6 DEF First, Second, d
        <5>2. StartsVia(d, "writeBuf")
          BY <3>1, <4>3 DEF Second, d
        <5>3. QED
          BY <5>1, <5>2, <3>4
      <4>4. QED
        BY <4>2, <4>3
    <3>5. QED
      BY <3>3, <3>4 DEF v
  <2>8. QED
    BY <2>5, <2>6, <2>7
<1>8. ASSUME Live(t) PROVE Halfway(t)'
  <2>1. Halfway(t)
    BY <1>8 DEF Arrives
  <2>2. ASSUME state[t] = "OPEN_DATA" PROVE SentFrame(p, frame[t].of)
    <3>1. SentFrame(q, frame[t].of) /\ frame[t].of \in Frames
      BY <2>1, <2>2 DEF Halfway, Typed
    <3>2. QED
      BY <3>1, <1>1, SentStill
  <2>3. QED
    BY <2>1, <2>2, <1>3 DEF Halfway
<1>9. QED
  BY <1>3, <1>4, <1>5, <1>7, <1>8 DEF Arrives

(* QueueFrame: the frame is on its way unless it was truncated.            *)
LEMMA QueueReaches ==
  ASSUME Typed, Gots, Vias, NEW s \in Sides, NEW t, t = Other(s), NEW f \in Frames,
         f.via = "writeBuf", f.id = Len(queued[s]) + 1, QueueFrame(s, f)
  PROVE  /\ Vias' /\ (mishaps' = {} => mishaps = {})
         /\ /\ mishaps' = {} /\ Taken(t) /\ Arrives(t)
            /\ state'[t] = state[t] /\ http'[t] = http[t] /\ stream'[t] = stream[t]
            /\ wire'[t] = wire[t] /\ frame'[t] = frame[t] /\ got'[t] = got[t]
            => Taken(t)' /\ Arrives(t)'
         /\ \A via \in Ways : SentTo(s, via)' = SentTo(s, via)
         /\ writeBuf'[t] = writeBuf[t]
<1> DEFINE v == Units(f)
<1>1. /\ Opened(s) /\ writeBuf' = [writeBuf EXCEPT ![s] = Pushed(s, f)]
      /\ queued' = [queued EXCEPT ![s] = Append(@, f)]
      /\ mishaps' = IF Len(v) > Free(s) THEN mishaps \cup {"truncated"} ELSE mishaps
      /\ publish' = publish /\ published' = published
  BY DEF QueueFrame, Accepts
<1>2. t \in Sides /\ t # s /\ Other(t) = s
  BY OtherSide
<1>3. /\ writeBuf[s] \in Seq(UnitType) /\ Len(writeBuf[s]) \in Nat
      /\ v \in Seq(UnitType) /\ Len(v) = Size(f) /\ Len(v) \in Nat
  BY UnitsHave, SizeIs, LenProperties DEF Typed
<1>4. /\ writeBuf'[s] = Pushed(s, f) /\ writeBuf'[t] = writeBuf[t]
      /\ queued'[s] = Append(queued[s], f) /\ queued'[t] = queued[t]
  BY <1>1, <1>2 DEF Typed
<1>5. Vias'
  <2> DEFINE n == Lesser(Free(s), Len(v))
  <2>1. StartsVia(v, "writeBuf") /\ StartsVia(writeBuf[s], "writeBuf")
    BY ViaOfUnits DEF Vias
  <2>2. StartsVia(Pushed(s, f), "writeBuf")
    <3>1. CASE Free(s) < 0
      <4>1. Prefix(v, n) = <<>>
        <5>1. Free(s) \in Int
          BY <1>3, BoundsAssumption DEF Free
        <5>2. n = Free(s)
          BY <3>1, <5>1, <1>3 DEF Lesser
        <5>3. ~(1 <= n) /\ n \in Int
          BY <5>1, <5>2, <3>1
        <5>4. QED
          BY <5>3, <1>3, SubSeqEmpty DEF Prefix
      <4>2. QED
        BY <4>1, <1>3, <2>1, ConcatEmptySeq DEF Pushed
    <3>2. CASE ~(Free(s) < 0)
      <4>1. n \in 0 .. Len(v)
        <5>1. Free(s) \in Nat
          BY <1>3, <3>2, BoundsAssumption DEF Free
        <5>2. QED
          BY <5>1, <1>3 DEF Lesser
      <4>2. Prefix(v, n) \in Seq(UnitType) /\ StartsVia(Prefix(v, n), "writeBuf")
        <5> HIDE DEF n, v
        <5>1. QED
          BY <4>1, <1>3, <2>1, PrefixHas, ViaOfPieces
      <4>3. Pushed(s, f) = writeBuf[s] \o Prefix(v, n)
        BY DEF Pushed
      <4> HIDE DEF n, v
      <4>4. QED
        BY <4>2, <4>3, <1>3, <2>1, ViaOfBoth
    <3>3. QED
      BY <3>1, <3>2
  <2>3. \A r \in Sides : r = s \/ r = t
    BY TwoSides
  <2>4. QED
    BY <2>2, <2>3, <1>1, <1>4 DEF Vias, StartsVia
<1>6. mishaps' = {} => mishaps = {} /\ ~(Len(v) > Free(s))
  BY <1>1
<1>7. ASSUME ~(Len(v) > Free(s)) PROVE Pushed(s, f) = writeBuf[s] \o v
  <2>1. Free(s) \in Int
    BY <1>3, BoundsAssumption DEF Free
  <2>2. Lesser(Free(s), Len(v)) = Len(v)
    BY <1>3, <1>7, <2>1 DEF Lesser
  <2>3. Prefix(v, Len(v)) = v
    <3> HIDE DEF v
    <3>1. QED
      BY <1>3, SubSeqFull DEF Prefix
  <2>4. QED
    BY <2>2, <2>3 DEF Pushed
<1>8. \A via \in Ways : SentTo(s, via)' = SentTo(s, via)
  BY <1>1, <1>4 DEF SentTo
<1>9. \A via \in Ways : SentTo(t, via)' = IF via = f.via THEN Append(SentTo(t, via), f) ELSE SentTo(t, via)
  BY <1>1, <1>2, <1>4 DEF SentTo
<1>10. ASSUME mishaps' = {}, Taken(t), Arrives(t),
              state'[t] = state[t], http'[t] = http[t], stream'[t] = stream[t],
              wire'[t] = wire[t], frame'[t] = frame[t], got'[t] = got[t]
       PROVE  Taken(t)' /\ Arrives(t)'
  <2>1. writeBuf'[s] = writeBuf[s] \o Units(f)
    BY <1>4, <1>6, <1>7, <1>10
  <2>2. f.id = Len(SentTo(t, f.via)) + 1
    BY <1>2 DEF SentTo
  <2>3. state[s] # "NONE"
    BY <1>1 DEF Opened
  <2>4. QED
    BY <1>1, <1>2, <1>9, <1>10, <2>1, <2>2, <2>3, SentArrives
<1>11. QED
  BY <1>4, <1>5, <1>6, <1>8, <1>10

LEMMA QueueDelivers ==
  ASSUME WInv, DInv, NEW s \in Sides, NEW op \in Ops, NEW len \in Nat, Queue(s, op, len)
  PROVE  DInv'
<1> DEFINE f == NextFrame(s, op, len)
           t == Other(s)
<1>1. /\ QueueFrame(s, f)
      /\ UNCHANGED <<state, first, headers, http, stream, frame, processing, got, asked, wire, failed>>
  BY DEF Queue, input, parsing
<1>2. Typed /\ Gots /\ Vias /\ f \in Frames /\ f.via = "writeBuf" /\ f.id = Len(queued[s]) + 1
  <2>1. Typed
    BY DEF WInv
  <2>2. f.via = "writeBuf" /\ f.id = Len(queued[s]) + 1
    BY DEF NextFrame, Frame
  <2>3. QED
    BY <2>1, <2>2, NextFrameHas DEF DInv
<1> HIDE DEF f
<1>3. /\ Vias' /\ (mishaps' = {} => mishaps = {})
      /\ mishaps' = {} /\ Taken(t) /\ Arrives(t) => Taken(t)' /\ Arrives(t)'
      /\ \A via \in Ways : SentTo(s, via)' = SentTo(s, via)
      /\ writeBuf'[t] = writeBuf[t]
  BY <1>1, <1>2, QueueReaches
<1>4. t \in Sides /\ t # s /\ Other(t) = s /\ \A r \in Sides : r = s \/ r = t
  BY OtherSide, TwoSides
<1>5. ASSUME mishaps' = {} PROVE Taken(s)' /\ Arrives(s)'
  <2>1. Taken(s) /\ Arrives(s)
    BY <1>3, <1>5 DEF DInv
  <2>2. queued'[t] = queued[t] /\ publish' = publish /\ published' = published
    BY <1>1, <1>2, <1>4 DEF QueueFrame, Typed
  <2>3. QED
    BY <2>1, <2>2, <1>1, <1>3, AsideKeeps
<1>6. Gots'
  BY <1>1, <1>2 DEF Gots
<1>7. QED
  BY <1>3, <1>4, <1>5, <1>6 DEF DInv

LEMMA PublishDelivers ==
  ASSUME WInv, DInv, NEW len \in Lengths, Publish(len)
  PROVE  DInv'
<1> DEFINE s == "server"
           t == "client"
           f == Frame("server", "text", len, "publish", Len(published) + 1)
<1>1. /\ state[s] \notin {"CONNECTING", "NONE"}
      /\ publish' = publish \o Units(f) /\ published' = Append(published, f)
      /\ UNCHANGED <<state, first, headers, http, stream, frame, processing, got, asked, writeBuf, queued, wire,
                     mishaps, failed>>
  BY DEF Publish, input, parsing
<1>2. Typed /\ Gots /\ Vias
  BY DEF WInv, DInv
<1>3. /\ s \in Sides /\ t \in Sides /\ Other(t) = s /\ Other(s) = t /\ \A r \in Sides : r = s \/ r = t
  BY DEF Sides, Other
<1>4. f \in Frames /\ f.via = "publish" /\ f.id = Len(published) + 1
  <2>1. Len(published) \in Nat /\ len \in Nat
    BY <1>2, LengthsAssumption, LenProperties DEF Typed
  <2>2. QED
    BY <2>1 DEF Frame, Frames, Ways, Ops
<1> HIDE DEF f
<1>5. \A via \in Ways : SentTo(t, via)' = IF via = f.via THEN Append(SentTo(t, via), f) ELSE SentTo(t, via)
  BY <1>1, <1>4 DEF SentTo, Ways
<1>6. f.id = Len(SentTo(t, f.via)) + 1
  BY <1>4 DEF SentTo
<1>7. ASSUME mishaps = {} PROVE Taken(t)' /\ Arrives(t)'
  <2>1. Taken(t) /\ Arrives(t)
    BY <1>3, <1>7 DEF DInv
  <2>2. QED
    BY <2>1, <1>1, <1>2, <1>3, <1>4, <1>5, <1>6, SentArrives
<1>8. ASSUME mishaps = {} PROVE Taken(s)' /\ Arrives(s)'
  <2>1. Taken(s) /\ Arrives(s)
    BY <1>3, <1>8 DEF DInv
  <2>2. \A via : SentTo(s, via)' = SentTo(s, via)
    BY <1>1, <1>3 DEF SentTo
  <2>3. ~MidPublished(t) /\ ~MidPublished(t)' /\ Ready(t) = <<>> /\ Ready(t)' = <<>>
    BY DEF MidPublished, Ready
  <2>4. Road(s)' = Road(s) /\ Until(s)' = Until(s)
    BY <2>3, <1>1, <1>3 DEF Road, Until, In, First, Second
  <2>5. Live(s) /\ state[t] # "NONE" => EndsFrame(Before(Behind(s), Road(s), Len(Until(s)')))
    BY <2>1, <2>4, <1>3 DEF Arrives, Complete
  <2>6. QED
    BY <2>1, <2>2, <2>4, <2>5, <1>1, <1>3, RoadKeeps
<1>9. Vias'
  <2>1. publish \in Seq(UnitType) /\ Units(f) \in Seq(UnitType) /\ StartsVia(Units(f), "publish")
    BY <1>2, <1>4, UnitsHave, ViaOfUnits DEF Typed
  <2>2. StartsVia(publish', "publish")
    BY <2>1, <1>1, <1>2, ViaOfBoth DEF Vias
  <2>3. QED
    BY <2>2, <1>1, <1>2 DEF Vias, StartsVia
<1>10. Gots' /\ mishaps' = mishaps
  BY <1>1, <1>2 DEF Gots
<1>11. QED
  BY <1>3, <1>7, <1>8, <1>9, <1>10 DEF DInv

(* A handshake is sent to a side that got nothing yet.                     *)
LEMMA HandshakeReaches ==
  ASSUME Typed, Gots, NEW t \in Sides, NEW o, o = Other(t), Taken(t), Arrives(t), state[o] # "NONE",
         writeBuf[o] = <<>>, wire[t] = <<>>, http[t] = <<>>, state[t] \in {"CONNECTING", "NONE"},
         o = "server" => publish = <<>>,
         state'[t] = state[t], http'[t] = http[t], stream'[t] = stream[t], wire'[t] = wire[t],
         frame'[t] = frame[t], got'[t] = got[t],
         NEW u \in Seq(UnitType), u # <<>>, \A i \in 1 .. Len(u) : IsLine(u[i]),
         writeBuf'[o] = writeBuf[o] \o u, publish' = publish,
         \A via : SentTo(t, via)' = SentTo(t, via)
  PROVE  Taken(t)' /\ Arrives(t)'
<1> DEFINE q == Sending(t)
           c == Taking(t)
           b == Line("blank")
<1>1. Sending(t)' = q /\ Taking(t)' = c /\ Taken(t)'
  BY DEF Sending, Taking, Taken
<1>2. u \in Seq(UnitType) /\ Len(u) \in Nat /\ u # <<>> /\ \A i \in 1 .. Len(u) : IsLine(u[i])
  BY LenProperties
<1>3. ASSUME state[t] = "CONNECTING" PROVE Road(t) = <<>> /\ Road(t)' = u /\ Until(t)' = u /\ Behind(t) = b /\ Behind(t)' = b
  <2>1. <<>> \o <<>> = <<>> /\ <<>> \o u = u /\ u \o <<>> = u
    <3>1. <<>> \in Seq(UnitType)
      OBVIOUS
    <3>2. QED
      BY <3>1, <1>2, ConcatEmptySeq
  <2>2. Ready(o) = <<>> /\ Ready(o)' = <<>> /\ ~MidPublished(o) /\ ~MidPublished(o)'
    BY DEF Ready, MidPublished
  <2>3. First(o) = <<>> /\ Second(o) = <<>> /\ First(o)' = u /\ Second(o)' = <<>>
    BY <2>1, <2>2 DEF First, Second
  <2>4. In(t) = <<>> /\ In(t)' = <<>>
    BY <2>1, <1>3 DEF In
  <2>5. QED
    BY <2>1, <2>3, <2>4, <1>3 DEF Road, Until, Behind
<1>4. ASSUME state[t] = "CONNECTING" PROVE Arrives(t)'
  <2>1. Live(t) /\ Halfway(t) /\ Complete(q, c, b, <<>>, Len(Until(t)))
    BY <1>3, <1>4 DEF Live, Arrives
  <2>2. Chained(b, u) /\ Genuine(q, u) /\ Ordered(c, u)
    <3>1. IsLine(b)
      BY LinesHave
    <3>2. \A i \in 1 .. Len(u) : i < Len(u) => i + 1 \in 1 .. Len(u)
      BY <1>2
    <3>3. Len(u) > 0 => 1 \in 1 .. Len(u)
      BY <1>2
    <3>4. QED
      BY <1>2, <3>1, <3>2, <3>3, LineIsNoStart DEF Chained, Genuine, Ordered, Joins, EndsFrame, StartsFrame
  <2>3. EndsFrame(Before(b, u, Len(u)))
    <3>1. Len(u) \in 1 .. Len(u)
      BY <1>2
    <3>2. QED
      BY <3>1, <1>2 DEF Before, EndsFrame
  <2>4. ASSUME NEW via \in Ways PROVE LastUnderWay(q, c, u, Len(u), via)
    <3>1. LastUnderWay(q, c, <<>>, Len(<<>>), via)
      BY <2>1 DEF Complete
    <3>2. \A i \in 1 .. Len(<<>>) : FALSE
      OBVIOUS
    <3>3. c[via] = Len(q[via])
      BY <3>1, <3>2 DEF LastUnderWay
    <3>4. QED
      BY <3>3 DEF LastUnderWay
  <2>5. Complete(q, c, b, u, Len(u)) /\ Good(q, c, b, u)
    BY <2>2, <2>3, <2>4 DEF Complete, Good
  <2>6. Halfway(t)'
    BY <2>1, <1>1, <1>4 DEF Halfway
  <2> HIDE DEF q, c, b
  <2>7. QED
    BY <2>5, <2>6, <1>1, <1>3, <1>4 DEF Arrives
<1>5. ASSUME state[t] = "NONE" PROVE Arrives(t)'
  BY <1>5 DEF Arrives, Live
<1>6. QED
  BY <1>1, <1>4, <1>5

LEMMA StreamDelivers ==
  ASSUME WInv, DInv, Stream
  PROVE  DInv'
<1> DEFINE s == "client"
           t == "server"
<1>1. /\ state[s] = "CONNECTING" /\ ~asked
      /\ writeBuf' = [writeBuf EXCEPT ![s] = @ \o Handshake(Asked)]
      /\ UNCHANGED <<state, first, headers, http, stream, frame, processing, got, publish, queued,
                     published, wire, mishaps, failed>>
  BY DEF Stream, input, parsing
<1>2. Typed /\ Gots /\ Vias /\ Unasked
  BY DEF WInv, DInv
<1>3. /\ s \in Sides /\ t \in Sides /\ Other(t) = s /\ Other(s) = t /\ \A r \in Sides : r = s \/ r = t
  BY DEF Sides, Other
<1>4. writeBuf[s] = <<>> /\ wire[t] = <<>> /\ http[t] = <<>> /\ state[t] \in {"CONNECTING", "NONE"}
  BY <1>1, <1>2, <1>3 DEF Unasked, Fresh
<1>5. writeBuf'[s] = writeBuf[s] \o Handshake(Asked) /\ writeBuf'[t] = writeBuf[t]
  BY <1>1, <1>2, <1>3 DEF Typed
<1>6. ASSUME mishaps = {} PROVE Taken(t)' /\ Arrives(t)'
  <2>1. Taken(t) /\ Arrives(t)
    BY <1>3, <1>6 DEF DInv
  <2>2. \A via : SentTo(t, via)' = SentTo(t, via)
    BY <1>1, <1>3 DEF SentTo
  <2>3. QED
    BY <2>1, <2>2, <1>1, <1>2, <1>3, <1>4, <1>5, RequestHas, HandshakeReaches
<1>7. ASSUME mishaps = {} PROVE Taken(s)' /\ Arrives(s)'
  <2>1. Taken(s) /\ Arrives(s)
    BY <1>3, <1>7 DEF DInv
  <2>2. QED
    BY <2>1, <1>1, <1>3, <1>5, AsideKeeps
<1>8. Vias'
  <2>1. Handshake(Asked) \in Seq(UnitType) /\ StartsVia(Handshake(Asked), "writeBuf")
    BY RequestHas, ViaOfLines
  <2>2. <<>> \o Handshake(Asked) = Handshake(Asked)
    BY <2>1, ConcatEmptySeq
  <2>3. StartsVia(writeBuf'[s], "writeBuf")
    BY <2>1, <2>2, <1>4, <1>5
  <2>4. QED
    BY <2>3, <1>1, <1>2, <1>3, <1>5 DEF Vias, StartsVia
<1>9. Gots' /\ mishaps' = mishaps
  BY <1>1, <1>2 DEF Gots
<1>10. QED
  BY <1>3, <1>6, <1>7, <1>8, <1>9 DEF DInv

(* The unit taken last is a line or has a place in its frame.              *)
LEMMA BehindIs ==
  ASSUME Typed, NEW t \in Sides
  PROVE  IsLine(Behind(t)) \/ (Behind(t).at \in Nat \ {0} /\ frame[t].of \in Frames)
<1>1. frame[t].of \in Frames
  BY DEF Typed
<1>2. CASE state[t] = "OPEN_DATA"
  <2>1. HeaderUnits(frame[t].of) \in 1 .. Size(frame[t].of) /\ HeaderUnits(frame[t].of) \in Nat \ {0}
    BY <1>1, SizeIs
  <2>2. Behind(t).at = HeaderUnits(frame[t].of)
    BY <2>1, <1>1, <1>2, UnitOfFrame DEF Behind
  <2>3. QED
    BY <1>1, <2>1, <2>2
<1>3. CASE state[t] # "OPEN_DATA"
  BY <1>3, LinesHave DEF Behind
<1>4. QED
  BY <1>2, <1>3

(* What a write moves to the wire is in front of the reader.               *)
LEMMA WireTakes ==
  ASSUME Typed, NEW t \in Sides, NEW p \in Seq(UnitType), wire'[t] = wire[t] \o p,
         state'[t] = state[t], http'[t] = http[t], stream'[t] = stream[t]
  PROVE  In(t)' = In(t) \o p
<1> DEFINE x == IF state[t] = "CONNECTING" THEN http[t] ELSE stream[t]
<1>1. x \in Seq(UnitType) /\ wire[t] \in Seq(UnitType)
  BY DEF Typed
<1>2. In(t) = x \o wire[t] /\ In(t)' = x \o (wire[t] \o p)
  BY DEF In
<1> HIDE DEF x
<1>3. (x \o wire[t]) \o p = x \o (wire[t] \o p)
  BY <1>1, Joined
<1>4. QED
  BY <1>2, <1>3

(* Write from _writeBuf: the road stays as it is.                          *)
LEMMA WriteBufferDelivers ==
  ASSUME WInv, DInv, NEW s \in Sides, NEW n, WriteBuffer(s, n)
  PROVE  DInv'
<1> DEFINE t == Other(s)
           u == writeBuf[s]
           p == Prefix(u, n)
           r == Rest(u, n)
<1>1. /\ n \in Pieces(u)
      /\ wire' = [wire EXCEPT ![t] = @ \o p]
      /\ writeBuf' = [writeBuf EXCEPT ![s] = r]
      /\ mishaps' = IF MidPublished(s) THEN mishaps \cup {"mixed"} ELSE mishaps
      /\ UNCHANGED <<state, http, stream, frame, got, publish, queued, published>>
  BY DEF WriteBuffer, MayWrite, Sent, input, parsing
<1>2. Typed /\ Gots /\ Vias
  BY DEF WInv, DInv
<1>3. t \in Sides /\ t # s /\ Other(t) = s /\ \A q \in Sides : q = s \/ q = t
  BY OtherSide, TwoSides
<1>4. u \in Seq(UnitType) /\ n \in 0 .. Len(u)
  <2>1. u \in Seq(UnitType)
    BY <1>2 DEF Typed
  <2>2. n \in 1 .. Len(u)
    BY <2>1, <1>1, PiecesAre
  <2>3. QED
    BY <2>1, <2>2
<1>5. p \in Seq(UnitType) /\ r \in Seq(UnitType)
  BY <1>4, PrefixHas, RestHas
<1>6. wire'[t] = wire[t] \o p /\ wire'[s] = wire[s] /\ writeBuf'[s] = r /\ writeBuf'[t] = writeBuf[t]
  BY <1>1, <1>2, <1>3 DEF Typed
<1>7. In(t) \in Seq(UnitType) /\ In(t)' = In(t) \o p
  <2> HIDE DEF p, r, t
  <2>1. QED
    BY <1>1, <1>2, <1>3, <1>5, <1>6, RoadHas, WireTakes
<1>8. In(t)' \o r = In(t) \o u
  <2> HIDE DEF t, u
  <2>1. QED
    BY <1>4, <1>7, MovedOn
<1> HIDE DEF p, r
<1>9. mishaps' = {} => mishaps = {} /\ ~MidPublished(s)
  BY <1>1
<1>10. ASSUME mishaps' = {} PROVE Taken(t)' /\ Arrives(t)'
  <2>1. Taken(t) /\ Arrives(t)
    BY <1>3, <1>9, <1>10 DEF DInv
  <2>2. First(s) = u /\ First(s)' = r /\ Second(s)' = Second(s)
    BY <1>1, <1>6, <1>9, <1>10 DEF First, Second, MidPublished, Ready
  <2>3. Until(t)' = Until(t) /\ Road(t)' = Road(t)
    BY <2>2, <1>3, <1>8 DEF Until, Road
  <2>4. Live(t) /\ state[Other(t)] # "NONE" => EndsFrame(Before(Behind(t), Road(t), Len(Until(t)')))
    BY <2>1, <2>3 DEF Arrives, Complete
  <2>5. \A via : SentTo(t, via)' = SentTo(t, via)
    BY <1>1 DEF SentTo
  <2>6. QED
    BY <2>1, <2>3, <2>4, <2>5, <1>1, <1>3, RoadKeeps
<1>11. ASSUME mishaps' = {} PROVE Taken(s)' /\ Arrives(s)'
  <2>1. Taken(s) /\ Arrives(s)
    BY <1>9, <1>11 DEF DInv
  <2>2. QED
    BY <2>1, <1>1, <1>3, <1>6, AsideKeeps
<1>12. Vias'
  <2>1. StartsVia(r, "writeBuf")
    BY <1>2, <1>4, ViaOfPieces DEF Vias, r
  <2>2. QED
    BY <2>1, <1>1, <1>2, <1>3, <1>6 DEF Vias, StartsVia
<1>13. Gots'
  BY <1>1, <1>2 DEF Gots
<1>14. QED
  BY <1>3, <1>10, <1>11, <1>12, <1>13 DEF DInv

(* Write of what is published: the road stays as it is, and the queued     *)
(* frames to come will stand between frames.                               *)
LEMMA WritePublishedDelivers ==
  ASSUME WInv, DInv, NEW s \in Sides, NEW n, WritePublished(s, n)
  PROVE  DInv'
<1> DEFINE t == Other(s)
           u == Ready(s)
           p == Prefix(u, n)
           r == Rest(u, n)
<1>1. /\ n \in IF u = <<>> THEN {0} ELSE Pieces(u)
      /\ writeBuf[s] = <<>>
      /\ wire' = [wire EXCEPT ![t] = @ \o p]
      /\ publish' = IF s = "server" THEN r ELSE publish
      /\ UNCHANGED <<state, http, stream, frame, got, writeBuf, queued, published, mishaps>>
  BY DEF WritePublished, MayWrite, Sent, input, parsing, Ready
<1>2. Typed /\ Gots /\ Vias
  BY DEF WInv, DInv
<1>3. t \in Sides /\ t # s /\ Other(t) = s /\ \A q \in Sides : q = s \/ q = t
  BY OtherSide, TwoSides
<1>4. u \in Seq(UnitType) /\ n \in 0 .. Len(u) /\ Len(u) \in Nat
  <2>1. u \in Seq(UnitType)
    <3>1. <<>> \in Seq(UnitType) /\ publish \in Seq(UnitType)
      BY <1>2 DEF Typed
    <3>2. QED
      BY <3>1 DEF Ready
  <2> HIDE DEF u
  <2>2. Len(u) \in Nat
    BY <2>1, LenProperties
  <2>3. CASE u = <<>>
    BY <1>1, <2>1, <2>2, <2>3
  <2>4. CASE u # <<>>
    <3>1. n \in 1 .. Len(u)
      BY <2>1, <2>4, <1>1, PiecesAre
    <3>2. QED
      BY <2>1, <2>2, <3>1
  <2>5. QED
    BY <2>3, <2>4
<1>5. /\ p \in Seq(UnitType) /\ r \in Seq(UnitType) /\ Len(r) = Len(u) - n
      /\ s # "server" => r = <<>>
  <2>1. p \in Seq(UnitType) /\ r \in Seq(UnitType) /\ Len(r) = Len(u) - n
    <3> HIDE DEF u
    <3>1. QED
      BY <1>4, PrefixHas, RestHas
  <2>2. ASSUME s # "server" PROVE r = <<>>
    <3>1. u = <<>>
      BY <2>2 DEF Ready
    <3>2. n = 0 /\ Len(u) = 0
      BY <3>1, <1>1
    <3> HIDE DEF r, u
    <3>3. Len(r) = 0
      BY <3>2, <2>1
    <3>4. QED
      BY <3>3, <2>1, EmptySeq
  <2>3. QED
    BY <2>1, <2>2
<1>6. wire'[t] = wire[t] \o p /\ wire'[s] = wire[s]
  BY <1>1, <1>2, <1>3 DEF Typed
<1>7. /\ In(t) \in Seq(UnitType) /\ In(t)' = In(t) \o p
      /\ In(t)' \in Seq(UnitType) /\ Len(In(t)') \in Nat
  <2> HIDE DEF p, r, t
  <2>1. In(t) \in Seq(UnitType) /\ In(t)' = In(t) \o p
    BY <1>1, <1>2, <1>3, <1>5, <1>6, RoadHas, WireTakes
  <2>2. In(t)' \in Seq(UnitType)
    BY <2>1, <1>5, ConcatProperties
  <2>3. QED
    BY <2>1, <2>2, LenProperties
<1>8. In(t)' \o r = In(t) \o u
  <2> HIDE DEF t, u
  <2>1. QED
    BY <1>4, <1>7, MovedOn
<1>9. Ready(s)' = r
  BY <1>1, <1>5 DEF Ready
<1> HIDE DEF p, r
<1>10. /\ Road(t) = In(t) \o u /\ Road(t)' = In(t) \o u
       /\ Until(t)' = IF MidPublished(s)' THEN Road(t)' ELSE In(t)'
  <2>1. ASSUME NEW a \in Seq(UnitType), NEW b \in Seq(UnitType)
        PROVE  (a \o <<>>) \o b = a \o b /\ (a \o b) \o <<>> = a \o b /\ a \o <<>> = a
    <3>1. a \o b \in Seq(UnitType)
      BY ConcatProperties
    <3>2. QED
      BY <3>1, ConcatEmptySeq
  <2>2. Road(t) = In(t) \o u
    <3>1. (In(t) \o <<>>) \o u = In(t) \o u /\ (In(t) \o u) \o <<>> = In(t) \o u
      BY <2>1, <1>4, <1>7
    <3>2. QED
      BY <3>1, <1>1, <1>3 DEF Road, Until, First, Second
  <2>3. /\ Road(t)' = In(t)' \o r
        /\ Until(t)' = IF MidPublished(s)' THEN Road(t)' ELSE In(t)'
    <3>1. (In(t)' \o <<>>) \o r = In(t)' \o r /\ (In(t)' \o r) \o <<>> = In(t)' \o r /\ In(t)' \o <<>> = In(t)'
      BY <2>1, <1>5, <1>7
    <3>2. QED
      BY <3>1, <1>1, <1>3, <1>9 DEF Road, Until, First, Second
  <2>4. QED
    BY <2>2, <2>3, <1>8
<1> HIDE DEF u
<1>11. ASSUME mishaps = {} PROVE Taken(t)' /\ Arrives(t)'
  <2>1. Taken(t) /\ Arrives(t)
    BY <1>3, <1>11 DEF DInv
  <2>2. Road(t)' = Road(t)
    BY <1>10
  <2>3. ASSUME Live(t), state[s] # "NONE"
        PROVE  EndsFrame(Before(Behind(t), Road(t), Len(Until(t)')))
    <3>1. /\ Good(Sending(t), Taking(t), Behind(t), Road(t))
          /\ EndsFrame(Before(Behind(t), Road(t), Len(Road(t))))
      BY <2>1, <2>3, <1>3 DEF Arrives, Complete
    <3>2. CASE MidPublished(s)'
      BY <3>1, <3>2, <2>2, <1>10
    <3>3. CASE ~MidPublished(s)' /\ r = <<>>
      <4>1. Road(t) = In(t)' /\ Until(t)' = In(t)'
        BY <3>3, <1>7, <1>8, <1>10, ConcatEmptySeq
      <4>2. QED
        BY <3>1, <4>1
    <3>4. CASE ~MidPublished(s)' /\ r # <<>>
      <4> DEFINE a == In(t)'
                 k == Len(a)
      <4>1. Road(t) = a \o r /\ Until(t)' = a
        BY <3>4, <1>8, <1>10
      <4>2. r \in Seq(UnitType) /\ Len(r) \in Nat /\ Len(r) > 0 /\ a \in Seq(UnitType) /\ k \in Nat
        <5>1. r \in Seq(UnitType) /\ Len(r) \in Nat
          BY <1>5, LenProperties
        <5>2. Len(r) # 0
          BY <5>1, <3>4, EmptySeq
        <5>3. QED
          BY <5>1, <5>2, <1>7
      <4>3. r[1].kind = "start"
        BY <3>4, <1>5, <1>9 DEF MidPublished, Ready
      <4> HIDE DEF a
      <4>4. /\ Len(Road(t)) = k + Len(r)
            /\ \A i \in 1 .. k + Len(r) : Road(t)[i] = IF i <= k THEN a[i] ELSE r[i - k]
        BY <4>1, <4>2, ConcatProperties
      <4>5. k \in 0 .. Len(Road(t)) /\ k < Len(Road(t)) /\ k + 1 \in 1 .. k + Len(r) /\ ~(k + 1 <= k) /\ (k + 1) - k = 1
        BY <4>2, <4>4
      <4>6. Road(t)[k + 1].kind = "start"
        BY <4>3, <4>4, <4>5
      <4>7. Road(t) \in Seq(UnitType) /\ (IsLine(Behind(t)) \/ Behind(t).at \in Nat \ {0})
        BY <1>2, <1>3, RoadHas, BehindIs
      <4>8. EndsFrame(Before(Behind(t), Road(t), k))
        <5> HIDE DEF k, t
        <5>1. QED
          BY <3>1, <4>5, <4>6, <4>7, EndBefore
      <4>9. QED
        BY <4>1, <4>8
    <3>5. QED
      BY <3>2, <3>3, <3>4
  <2>4. \A via : SentTo(t, via)' = SentTo(t, via)
    BY <1>1 DEF SentTo
  <2>5. QED
    BY <2>1, <2>2, <2>3, <2>4, <1>1, <1>3, RoadKeeps
<1>12. ASSUME mishaps = {} PROVE Taken(s)' /\ Arrives(s)'
  <2>1. Taken(s) /\ Arrives(s)
    BY <1>12 DEF DInv
  <2>2. MidPublished(t)' = MidPublished(t) /\ Ready(t)' = Ready(t)
    BY <1>1, <1>3 DEF MidPublished, Ready, Sides
  <2>3. Road(s)' = Road(s) /\ Until(s)' = Until(s)
    BY <2>2, <1>1, <1>6 DEF Road, Until, In, First, Second
  <2>4. Live(s) /\ state[t] # "NONE" => EndsFrame(Before(Behind(s), Road(s), Len(Until(s)')))
    BY <2>1, <2>3 DEF Arrives, Complete
  <2>5. \A via : SentTo(s, via)' = SentTo(s, via)
    BY <1>1 DEF SentTo
  <2>6. QED
    BY <2>1, <2>3, <2>4, <2>5, <1>1, RoadKeeps
<1>13. Vias'
  <2>1. StartsVia(publish, "publish") /\ StartsVia(<<>>, "publish")
    BY <1>2 DEF Vias, StartsVia
  <2>2. StartsVia(u, "publish")
    BY <2>1 DEF u, Ready
  <2>3. StartsVia(r, "publish")
    BY <2>2, <1>4, ViaOfPieces DEF r
  <2>4. StartsVia(publish', "publish")
    BY <2>1, <2>3, <1>1
  <2>5. QED
    BY <2>4, <1>1, <1>2 DEF Vias, StartsVia
<1>14. Gots'
  BY <1>1, <1>2 DEF Gots
<1>15. QED
  BY <1>1, <1>3, <1>11, <1>12, <1>13, <1>14 DEF DInv

(* A step that moves no unit and takes none. *)
LEMMA SameDelivers ==
  ASSUME DInv, UNCHANGED <<state, http, stream, frame, got, writeBuf, publish, queued, published, wire, mishaps>>
  PROVE  DInv'
<1>1. ASSUME NEW t \in Sides, mishaps = {} PROVE Taken(t)' /\ Arrives(t)'
  <2>1. Taken(t) /\ Arrives(t)
    BY <1>1 DEF DInv
  <2>2. QED
    BY <2>1, AsideKeeps
<1>2. QED
  BY <1>1 DEF DInv, Gots, Vias, StartsVia

(* A side that is closing takes nothing more. *)
LEMMA EndClosingDelivers ==
  ASSUME WInv, DInv, NEW s \in Sides, EndClosing(s)
  PROVE  DInv'
<1> DEFINE t == Other(s)
<1>1. /\ state[s] = "CLOSING" /\ state' = [state EXCEPT ![s] = "CLOSED"]
      /\ UNCHANGED <<http, stream, frame, got, writeBuf, publish, queued, published, wire, mishaps>>
  BY DEF EndClosing, output, parsing
<1>2. Typed /\ Gots /\ Vias
  BY DEF WInv, DInv
<1>3. t \in Sides /\ t # s /\ Other(t) = s /\ \A q \in Sides : q = s \/ q = t
  BY OtherSide, TwoSides
<1>4. state'[s] = "CLOSED" /\ state'[t] = state[t]
  BY <1>1, <1>2, <1>3 DEF Typed
<1>5. ASSUME mishaps = {} PROVE Taken(t)' /\ Arrives(t)'
  <2>1. Taken(t) /\ Arrives(t)
    BY <1>3, <1>5 DEF DInv
  <2>2. QED
    BY <2>1, <1>1, <1>3, <1>4, AsideKeeps
<1>6. ASSUME mishaps = {} PROVE Taken(s)' /\ Arrives(s)'
  <2>1. Taken(s)'
    BY <1>1, <1>6 DEF DInv, Taken, SentTo
  <2>2. QED
    BY <2>1, <1>4 DEF Arrives, Live
<1>7. QED
  BY <1>1, <1>2, <1>3, <1>5, <1>6 DEF DInv, Gots, Vias, StartsVia

(* Close: what was on the wire may still arrive, and ends anywhere.   *)
LEMMA CloseDelivers ==
  ASSUME WInv, DInv, NEW s \in Sides, Close(s), mishaps' = mishaps \/ mishaps' = mishaps \cup {"refused"}
  PROVE  DInv'
<1> DEFINE t == Other(s)
<1>1. /\ state' = [state EXCEPT ![s] = "NONE"]
      /\ http' = [http EXCEPT ![s] = <<>>]
      /\ stream' = [stream EXCEPT ![s] = <<>>]
      /\ writeBuf' = [writeBuf EXCEPT ![s] = <<>>]
      /\ publish' = IF s = "server" THEN <<>> ELSE publish
      /\ wire' = [wire EXCEPT ![s] = <<>>]
      /\ UNCHANGED <<frame, got, queued, published>>
      /\ mishaps' = mishaps \/ mishaps' = mishaps \cup {"refused"}
  BY DEF Close
<1>2. Typed /\ Gots /\ Vias
  BY DEF WInv, DInv
<1>3. t \in Sides /\ t # s /\ Other(t) = s /\ \A q \in Sides : q = s \/ q = t
  BY OtherSide, TwoSides
<1>4. /\ state'[s] = "NONE" /\ state'[t] = state[t] /\ http'[t] = http[t] /\ stream'[t] = stream[t]
      /\ writeBuf'[s] = <<>> /\ writeBuf'[t] = writeBuf[t] /\ wire'[t] = wire[t]
  BY <1>1, <1>2, <1>3 DEF Typed
<1>5. ASSUME mishaps = {} PROVE Taken(s)' /\ Arrives(s)'
  <2>1. Taken(s)'
    BY <1>1, <1>5 DEF DInv, Taken, SentTo
  <2>2. QED
    BY <2>1, <1>4 DEF Arrives, Live
<1>6. ASSUME mishaps = {} PROVE Taken(t)' /\ Arrives(t)'
  <2>1. Taken(t) /\ Arrives(t)
    BY <1>3, <1>6 DEF DInv
  <2>2. Taken(t)'
    BY <2>1, <1>1 DEF Taken, SentTo
  <2>3. Sending(t)' = Sending(t) /\ Taking(t)' = Taking(t) /\ Behind(t)' = Behind(t) /\ Live(t)' = Live(t)
    BY <1>1, <1>4 DEF Sending, SentTo, Taking, Behind, Live
  <2>4. Live(t) => Halfway(t)'
    BY <2>1, <2>3, <1>1, <1>4 DEF Arrives, Halfway
  <2>5. /\ In(t) \in Seq(UnitType) /\ Len(In(t)) \in Nat
        /\ Road(t) \in Seq(UnitType) /\ Until(t) \in Seq(UnitType)
        /\ Len(In(t)) <= Len(Road(t)) /\ \A i \in 1 .. Len(In(t)) : Road(t)[i] = In(t)[i]
    <3> DEFINE a == In(t)
               b == First(Other(t))
               d == Second(Other(t))
    <3>1. /\ a \in Seq(UnitType) /\ b \in Seq(UnitType) /\ d \in Seq(UnitType)
          /\ Until(t) \in Seq(UnitType) /\ Road(t) \in Seq(UnitType)
          /\ Until(t) = a \o b /\ Road(t) = Until(t) \o d
          /\ Len(a) \in Nat /\ Len(Until(t)) \in Nat /\ Len(Road(t)) \in Nat
          /\ Len(a) <= Len(Until(t)) /\ Len(Until(t)) <= Len(Road(t))
      <4> HIDE DEF t
      <4>1. QED
        BY <1>2, <1>3, RoadHas DEF Until, Road
    <3> HIDE DEF a, b, d, t
    <3>2. \A i \in 1 .. Len(a) : Until(t)[i] = a[i]
      <4>1. 0 \in 0 .. Len(a)
        BY <3>1
      <4>2. QED
        BY <4>1, <3>1, RestOfBoth
    <3>3. \A i \in 1 .. Len(Until(t)) : Road(t)[i] = Until(t)[i]
      <4>1. 0 \in 0 .. Len(Until(t))
        BY <3>1
      <4>2. QED
        BY <4>1, <3>1, RestOfBoth
    <3>4. \A i \in 1 .. Len(a) : i \in 1 .. Len(Until(t))
      BY <3>1
    <3>5. \A i \in 1 .. Len(a) : Road(t)[i] = a[i]
      BY <3>2, <3>3, <3>4
    <3>6. Len(a) <= Len(Road(t))
      BY <3>1
    <3>7. QED
      BY <3>1, <3>5, <3>6 DEF a
  <2>6. Road(t)' = In(t)
    <3>1. In(t)' = In(t)
      BY <1>4 DEF In
    <3>2. First(s)' = <<>> /\ Second(s)' = <<>>
      BY <1>1, <1>4 DEF First, Second, Ready
    <3>3. In(t) \o <<>> = In(t)
      BY <2>5, ConcatEmptySeq
    <3>4. QED
      BY <3>1, <3>2, <3>3, <1>3 DEF Road, Until
  <2>7. Live(t) => Good(Sending(t), Taking(t), Behind(t), In(t))
    <3>1. Live(t) => Good(Sending(t), Taking(t), Behind(t), Road(t))
      BY <2>1 DEF Arrives
    <3> HIDE DEF t
    <3>2. QED
      BY <3>1, <2>5, GoodPart
  <2>8. QED
    BY <2>2, <2>3, <2>4, <2>6, <2>7, <1>3, <1>4 DEF Arrives
<1>7. Vias'
  <2>1. StartsVia(<<>>, "writeBuf") /\ StartsVia(<<>>, "publish")
    BY DEF StartsVia
  <2>2. StartsVia(publish', "publish")
    BY <2>1, <1>1, <1>2 DEF Vias
  <2>3. QED
    BY <2>1, <2>2, <1>2, <1>3, <1>4 DEF Vias, StartsVia
<1>8. Gots'
  BY <1>1, <1>2 DEF Gots
<1>9. QED
  BY <1>1, <1>3, <1>5, <1>6, <1>7, <1>8 DEF DInv

(* Open: what came behind the handshake moves to the stream, in its order. *)
LEMMA OpenDelivers ==
  ASSUME WInv, DInv, NEW s \in Sides, Open(s)
  PROVE  DInv'
<1> DEFINE t == Other(s)
<1>1. /\ state[s] = "CONNECTING" /\ state' = [state EXCEPT ![s] = "OPEN"]
      /\ stream' = [stream EXCEPT ![s] = @ \o http[s]]
      /\ IF s = "server" THEN writeBuf' = [writeBuf EXCEPT ![s] = @ \o Handshake(Answer)] ELSE writeBuf' = writeBuf
      /\ UNCHANGED <<http, frame, got, publish, queued, published, wire, mishaps>>
  BY DEF Open, parsing
<1>2. Typed /\ Gots /\ Vias /\ Unasked
  BY DEF WInv, DInv
<1>3. t \in Sides /\ t # s /\ Other(t) = s /\ \A q \in Sides : q = s \/ q = t
  BY OtherSide, TwoSides
<1>4. /\ state'[s] = "OPEN" /\ state'[t] = state[t] /\ stream'[s] = stream[s] \o http[s] /\ stream'[t] = stream[t]
      /\ writeBuf'[t] = writeBuf[t] /\ writeBuf'[s] = IF s = "server" THEN writeBuf[s] \o Handshake(Answer) ELSE writeBuf[s]
  BY <1>1, <1>2, <1>3 DEF Typed
<1>5. s = "server" =>
        /\ writeBuf[s] = <<>> /\ wire[t] = <<>> /\ http[t] = <<>>
        /\ state[t] \in {"CONNECTING", "NONE"} /\ publish = <<>>
  BY <1>1, <1>2 DEF Unasked, Fresh, Other
<1>6. \A q \in Sides : \A via : SentTo(q, via)' = SentTo(q, via)
  BY <1>1 DEF SentTo
<1>7. ASSUME mishaps = {} PROVE Taken(t)' /\ Arrives(t)'
  <2>1. Taken(t) /\ Arrives(t)
    BY <1>3, <1>7 DEF DInv
  <2>2. CASE s = "server"
    <3>1. /\ http'[t] = http[t] /\ wire'[t] = wire[t] /\ frame'[t] = frame[t] /\ got'[t] = got[t]
          /\ writeBuf'[s] = writeBuf[s] \o Handshake(Answer) /\ publish' = publish /\ state[s] # "NONE"
      BY <2>2, <1>1, <1>4
    <3> HIDE DEF t
    <3>2. QED
      BY <2>1, <2>2, <3>1, <1>2, <1>3, <1>4, <1>5, <1>6, AnswerHas, HandshakeReaches
  <2>3. CASE s # "server"
    <3>1. writeBuf'[s] = writeBuf[s]
      BY <2>3, <1>4
    <3>2. QED
      BY <2>1, <3>1, <1>1, <1>3, <1>4, AsideKeeps
  <2>4. QED
    BY <2>2, <2>3
<1>8. ASSUME mishaps = {} PROVE Taken(s)' /\ Arrives(s)'
  <2>1. Taken(s) /\ Arrives(s) /\ Live(s)
    BY <1>1, <1>8 DEF DInv, Live
  <2>2. stream[s] = <<>> /\ http[s] \in Seq(UnitType)
    BY <2>1, <1>1, <1>2 DEF Arrives, Halfway, Typed
  <2>3. In(s)' = In(s)
    <3>1. stream'[s] = http[s]
      BY <2>2, <1>4, ConcatEmptySeq
    <3>2. QED
      BY <3>1, <1>1, <1>4 DEF In
  <2>4. MidPublished(t)' = MidPublished(t) /\ Ready(t)' = Ready(t)
    BY <1>1 DEF MidPublished, Ready
  <2>5. Until(s)' = Until(s) /\ Road(s)' = Road(s)
    BY <2>3, <2>4, <1>4 DEF Until, Road, First, Second
  <2>6. Sending(s)' = Sending(s) /\ Taking(s)' = Taking(s) /\ Behind(s)' = Behind(s)
    BY <1>1, <1>4, <1>6 DEF Sending, Taking, Behind
  <2>7. Taken(s)' /\ Halfway(s)'
    BY <2>1, <1>1, <1>4, <1>6 DEF Taken, Halfway
  <2>8. QED
    BY <2>1, <2>5, <2>6, <2>7, <1>4 DEF Arrives
<1>9. Vias'
  <2>1. Handshake(Answer) \in Seq(UnitType) /\ StartsVia(Handshake(Answer), "writeBuf")
    BY AnswerHas, ViaOfLines
  <2>2. <<>> \o Handshake(Answer) = Handshake(Answer)
    BY <2>1, ConcatEmptySeq
  <2>3. StartsVia(writeBuf'[s], "writeBuf")
    BY <2>1, <2>2, <1>2, <1>4, <1>5 DEF Vias
  <2>4. StartsVia(writeBuf'[t], "writeBuf") /\ StartsVia(publish', "publish")
    BY <1>1, <1>2, <1>3, <1>4 DEF Vias
  <2>5. QED
    BY <2>3, <2>4, <1>3 DEF Vias, StartsVia
<1>10. Gots'
  BY <1>1, <1>2 DEF Gots
<1>11. QED
  BY <1>1, <1>3, <1>7, <1>8, <1>9, <1>10 DEF DInv

(* The front of the road is taken. *)
LEMMA RoadRest ==
  ASSUME Typed, NEW s \in Sides, NEW k \in 0 .. Len(In(s)), In(s)' = Rest(In(s), k),
         First(Other(s))' = First(Other(s)), Second(Other(s))' = Second(Other(s))
  PROVE  /\ Until(s)' = Rest(Until(s), k) /\ Road(s)' = Rest(Road(s), k)
         /\ Len(Until(s)') = Len(Until(s)) - k
         /\ k \in 0 .. Len(Road(s)) /\ Len(Until(s)) \in k .. Len(Road(s))
         /\ \A i \in 1 .. Len(In(s)) : Road(s)[i] = In(s)[i]
<1> DEFINE a == In(s)
           b == First(Other(s))
           d == Second(Other(s))
           m == Until(s)
           w == Road(s)
<1>1. /\ a \in Seq(UnitType) /\ b \in Seq(UnitType) /\ d \in Seq(UnitType)
      /\ m \in Seq(UnitType) /\ w \in Seq(UnitType) /\ m = a \o b /\ w = m \o d
      /\ Len(a) \in Nat /\ Len(m) \in Nat /\ Len(w) \in Nat
      /\ Len(a) <= Len(m) /\ Len(m) <= Len(w)
  BY RoadHas DEF Until, Road
<1>2. Until(s)' = Rest(a, k) \o b /\ Road(s)' = Until(s)' \o d
  BY DEF Until, Road
<1>3. k \in 0 .. Len(a)
  OBVIOUS
<1> HIDE DEF a, b, d, m, w
<1>4. k \in 0 .. Len(m) /\ k \in 0 .. Len(w) /\ Len(m) \in k .. Len(w)
  BY <1>1, <1>3
<1>5. Until(s)' = Rest(m, k) /\ \A i \in 1 .. Len(a) : m[i] = a[i]
  BY <1>1, <1>2, <1>3, RestOfBoth
<1>6. Road(s)' = Rest(w, k) /\ \A i \in 1 .. Len(m) : w[i] = m[i]
  <2>1. Road(s)' = Rest(m, k) \o d
    BY <1>2, <1>5
  <2>2. QED
    BY <2>1, <1>1, <1>4, RestOfBoth
<1>7. Len(Until(s)') = Len(m) - k
  BY <1>1, <1>4, <1>5, RestHas
<1>8. \A i \in 1 .. Len(a) : i \in 1 .. Len(m)
  BY <1>1
<1>9. \A i \in 1 .. Len(a) : w[i] = a[i]
  BY <1>5, <1>6, <1>8
<1>10. QED
  BY <1>4, <1>5, <1>6, <1>7, <1>9 DEF a, m, w

(* HandleHTTP: the lines in front of the road are taken. *)
LEMMA LinesLeave ==
  ASSUME Typed, Gots, NEW s \in Sides, state[s] = "CONNECTING", Taken(s), Arrives(s),
         NEW n \in 0 .. Len(wire[s]), NEW u, u = http[s] \o Prefix(wire[s], n),
         http'[s] = Rest(u, Lines(u)), wire'[s] = Rest(wire[s], n),
         UNCHANGED <<state, frame, got, writeBuf, publish, queued, published>>, stream'[s] = stream[s]
  PROVE  Taken(s)' /\ Arrives(s)'
<1> DEFINE k == Lines(u)
           r == Rest(wire[s], n)
           q == Sending(s)
           c == Taking(s)
           b == Line("blank")
<1>1. /\ http[s] \in Seq(UnitType) /\ wire[s] \in Seq(UnitType)
      /\ Prefix(wire[s], n) \in Seq(UnitType) /\ r \in Seq(UnitType)
  BY PrefixHas, RestHas DEF Typed
<1>2. u \in Seq(UnitType)
  BY <1>1, ConcatProperties
<1>3. k \in 0 .. Len(u) /\ \A j \in 1 .. k : IsLine(u[j])
  BY <1>2, LinesHas
<1>4. In(s) = u \o r /\ In(s)' = Rest(u, k) \o r
  <2>1. (http[s] \o Prefix(wire[s], n)) \o r = http[s] \o wire[s]
    BY <1>1, MovedOn
  <2>2. In(s)' = http'[s] \o wire'[s] /\ In(s) = http[s] \o wire[s]
    BY DEF In
  <2>3. QED
    BY <2>1, <2>2
<1> HIDE DEF r, k
<1>5. /\ In(s)' = Rest(In(s), k) /\ k \in 0 .. Len(In(s))
      /\ \A i \in 1 .. k : IsLine(In(s)[i])
  <2>1. Rest(u, k) \o r = Rest(u \o r, k) /\ \A i \in 1 .. Len(u) : (u \o r)[i] = u[i]
    BY <1>1, <1>2, <1>3, RestOfBoth
  <2>2. Len(u) \in Nat /\ Len(r) \in Nat /\ Len(u \o r) = Len(u) + Len(r)
    BY <1>1, <1>2, LenProperties, ConcatProperties
  <2>3. k \in 0 .. Len(u) + Len(r) /\ \A i \in 1 .. k : i \in 1 .. Len(u)
    <3>1. k \in 0 .. Len(u) /\ Len(u) \in Nat /\ Len(r) \in Nat
      BY <1>3, <2>2
    <3>2. \A i \in 1 .. k : i \in 1 .. Len(u)
      BY ONLY <3>1
    <3>3. k \in 0 .. Len(u) + Len(r)
      BY ONLY <3>1
    <3>4. QED
      BY <3>2, <3>3
  <2>4. k \in 0 .. Len(u \o r)
    BY <2>2, <2>3
  <2>5. QED
    BY <1>3, <1>4, <2>1, <2>3, <2>4
<1>6. First(Other(s))' = First(Other(s)) /\ Second(Other(s))' = Second(Other(s))
  BY DEF First, Second, Ready, MidPublished
<1>7. /\ Until(s)' = Rest(Until(s), k) /\ Road(s)' = Rest(Road(s), k)
      /\ Len(Until(s)') = Len(Until(s)) - k
      /\ k \in 0 .. Len(Road(s)) /\ Len(Until(s)) \in k .. Len(Road(s))
      /\ \A i \in 1 .. Len(In(s)) : Road(s)[i] = In(s)[i]
  BY <1>5, <1>6, RoadRest
<1>8. Sending(s)' = q /\ Taking(s)' = c /\ Behind(s) = b /\ Behind(s)' = b /\ Taken(s)' /\ Live(s)
  BY DEF Sending, SentTo, Taking, Behind, Taken, Live
<1>9. Halfway(s)'
  BY <1>8 DEF Arrives, Halfway
<1>10. /\ Good(q, c, b, Road(s)) /\ Road(s) \in Seq(UnitType) /\ IsLine(b)
       /\ state[Other(s)] # "NONE" => Complete(q, c, b, Road(s), Len(Until(s)))
  BY <1>8, RoadHas, LinesHave DEF Arrives
<1>11. \A i \in 1 .. k : IsLine(Road(s)[i])
  <2>1. Len(In(s)) \in Nat
    BY RoadHas
  <2>2. \A i \in 1 .. k : i \in 1 .. Len(In(s))
    BY <2>1, <1>5
  <2>3. QED
    BY <2>2, <1>5, <1>7
<1> HIDE DEF q, c, b
<1>12. /\ Good(q, c, b, Rest(Road(s), k))
       /\ \A e \in k .. Len(Road(s)) : Complete(q, c, b, Road(s), e) => Complete(q, c, b, Rest(Road(s), k), e - k)
  BY <1>7, <1>10, <1>11, LinesOff
<1>13. state[Other(s)] # "NONE" => Complete(q, c, b, Road(s)', Len(Until(s)'))
  BY <1>7, <1>10, <1>12
<1>14. QED
  BY <1>7, <1>8, <1>9, <1>12, <1>13 DEF Arrives

LEMMA ReadDelivers ==
  ASSUME WInv, DInv, NEW s \in Sides, NEW n \in Pieces(wire[s]), Read(s, n)
  PROVE  DInv'
<1> DEFINE t == Other(s)
           w == wire[s]
           p == Prefix(w, n)
           r == Rest(w, n)
           u == http[s] \o p
<1>1. /\ state[s] # "NONE" /\ wire' = [wire EXCEPT ![s] = r]
      /\ UNCHANGED <<state, frame, got, writeBuf, publish, queued, published>>
  BY DEF Read, output
<1>2. \/ /\ Opened(s)
         /\ stream' = [stream EXCEPT ![s] = @ \o p]
         /\ UNCHANGED <<http, mishaps>>
      \/ /\ state[s] = "CONNECTING"
         /\ http' = [http EXCEPT ![s] = Rest(u, Lines(u))]
         /\ (mishaps' = mishaps \/ mishaps' = mishaps \cup {"cut"})
         /\ UNCHANGED stream
      \/ /\ state[s] \in {"CLOSING", "CLOSED"}
         /\ http' = [http EXCEPT ![s] = @ \o p]
         /\ UNCHANGED <<stream, mishaps>>
  BY DEF Read, parsing, HandleHTTP
<1>3. Typed /\ Gots /\ Vias
  BY DEF WInv, DInv
<1>4. t \in Sides /\ t # s /\ Other(t) = s /\ \A o \in Sides : o = s \/ o = t
  BY OtherSide, TwoSides
<1>5. w \in Seq(UnitType) /\ n \in 0 .. Len(w) /\ p \in Seq(UnitType) /\ r \in Seq(UnitType)
  <2>1. w \in Seq(UnitType)
    BY <1>3 DEF Typed
  <2>2. n \in 1 .. Len(w)
    BY <2>1, PiecesAre
  <2>3. n \in 0 .. Len(w)
    BY <2>2
  <2>4. QED
    BY <2>1, <2>3, PrefixHas, RestHas
<1> HIDE DEF p, r, u
<1>6. http'[t] = http[t] /\ stream'[t] = stream[t] /\ wire'[t] = wire[t] /\ wire'[s] = r
  BY <1>1, <1>2, <1>3, <1>4 DEF Typed
<1>7. mishaps' = {} => mishaps = {}
  BY <1>2
<1>8. ASSUME mishaps' = {} PROVE Taken(t)' /\ Arrives(t)'
  <2>1. Taken(t) /\ Arrives(t)
    BY <1>4, <1>7, <1>8 DEF DInv
  <2>2. QED
    BY <2>1, <1>1, <1>4, <1>6, AsideKeeps
<1>9. ASSUME mishaps' = {} PROVE Taken(s)' /\ Arrives(s)'
  <2>1. Taken(s) /\ Arrives(s)
    BY <1>7, <1>9 DEF DInv
  <2>2. CASE Opened(s)
    <3>1. state[s] # "CONNECTING" /\ stream[s] \in Seq(UnitType) /\ stream'[s] = stream[s] \o p
      BY <1>2, <1>3, <2>2 DEF Opened, Typed
    <3>2. In(s)' = In(s)
      <4>1. (stream[s] \o p) \o r = stream[s] \o w
        BY <3>1, <1>5, MovedOn DEF p, r
      <4>2. QED
        BY <4>1, <3>1, <1>1, <1>6 DEF In
    <3>3. Until(s)' = Until(s) /\ Road(s)' = Road(s)
      BY <3>2, <1>1 DEF Until, Road, First, Second, Ready, MidPublished
    <3>4. Live(s) /\ state[t] # "NONE" => EndsFrame(Before(Behind(s), Road(s), Len(Until(s)')))
      BY <2>1, <3>3 DEF Arrives, Complete
    <3>5. \A via : SentTo(s, via)' = SentTo(s, via)
      BY <1>1 DEF SentTo
    <3>6. QED
      BY <2>1, <3>1, <3>3, <3>4, <3>5, <1>1, RoadKeeps
  <2>3. CASE state[s] = "CONNECTING"
    <3>1. stream'[s] = stream[s] /\ http'[s] = Rest(u, Lines(u))
      BY <1>2, <1>3, <2>3 DEF Opened, Typed
    <3>2. wire'[s] = Rest(wire[s], n) /\ u = http[s] \o Prefix(wire[s], n)
      BY <1>6 DEF r, u, p
    <3>3. QED
      BY <2>1, <2>3, <3>1, <3>2, <1>1, <1>3, <1>5, LinesLeave
  <2>4. CASE state[s] \in {"CLOSING", "CLOSED"}
    <3>1. Taken(s)'
      BY <2>1, <1>1 DEF Taken, SentTo
    <3>2. QED
      BY <3>1, <2>4, <1>1 DEF Arrives, Live
  <2>5. QED
    BY <2>2, <2>3, <2>4, <1>2
<1>10. QED
  BY <1>1, <1>3, <1>4, <1>8, <1>9 DEF DInv, Gots, Vias, StartsVia

(* The stream is what the road begins with once the connection opened.     *)
LEMMA StreamLeads ==
  ASSUME Typed, NEW s \in Sides, state[s] # "CONNECTING"
  PROVE  /\ stream[s] \in Seq(UnitType) /\ Len(stream[s]) \in Nat /\ Len(stream[s]) <= Len(In(s))
         /\ Len(In(s)) <= Len(Road(s)) /\ Len(In(s)) \in Nat /\ Len(Road(s)) \in Nat
         /\ \A i \in 1 .. Len(stream[s]) : Road(s)[i] = stream[s][i]
         /\ \A k \in 0 .. Len(stream[s]) : Rest(stream[s], k) \o wire[s] = Rest(In(s), k)
<1> DEFINE x == stream[s]
           w == wire[s]
           a == In(s)
           b == First(Other(s))
           d == Second(Other(s))
<1>1. x \in Seq(UnitType) /\ w \in Seq(UnitType) /\ a = x \o w
  BY DEF Typed, In
<1>2. /\ a \in Seq(UnitType) /\ b \in Seq(UnitType) /\ d \in Seq(UnitType)
      /\ Until(s) \in Seq(UnitType) /\ Road(s) \in Seq(UnitType)
      /\ Until(s) = a \o b /\ Road(s) = Until(s) \o d
      /\ Len(a) \in Nat /\ Len(Until(s)) \in Nat /\ Len(Road(s)) \in Nat
      /\ Len(a) <= Len(Until(s)) /\ Len(Until(s)) <= Len(Road(s))
  BY RoadHas DEF Until, Road
<1> HIDE DEF x, w, a, b, d
<1>3. Len(x) \in Nat /\ Len(w) \in Nat /\ Len(a) = Len(x) + Len(w)
  BY <1>1, LenProperties, ConcatProperties
<1>4. Len(x) <= Len(a) /\ Len(a) <= Len(Road(s))
  BY <1>2, <1>3
<1>5. \A k \in 0 .. Len(x) : Rest(x, k) \o w = Rest(a, k)
  BY <1>1, RestOfBoth
<1>6. ASSUME NEW i \in 1 .. Len(x) PROVE Road(s)[i] = x[i]
  <2>1. 0 \in 0 .. Len(x) /\ 0 \in 0 .. Len(a) /\ 0 \in 0 .. Len(Until(s)) /\ i \in 1 .. Len(a) /\ i \in 1 .. Len(Until(s))
    BY <1>2, <1>3, <1>4
  <2>2. a[i] = x[i]
    BY <2>1, <1>1, RestOfBoth
  <2>3. Until(s)[i] = a[i]
    BY <2>1, <1>2, RestOfBoth
  <2>4. Road(s)[i] = Until(s)[i]
    BY <2>1, <1>2, RestOfBoth
  <2>5. QED
    BY <2>2, <2>3, <2>4
<1>7. QED
  BY <1>1, <1>2, <1>3, <1>4, <1>5, <1>6 DEF x, w, a

(* DoOpen: the frame begun is the next one, and its length is its own.     *)
LEMMA HeaderTaken ==
  ASSUME Typed, Gots, NEW s \in Sides, state[s] = "OPEN", HeaderComplete(s), NoLines(stream[s]),
         Taken(s), Arrives(s), NEW f, f = Begun(stream[s][1]), LengthUnits(f) + MaskUnits(f) # 2,
         NEW len \in LengthRead(s), frame'[s] = [of |-> f, len |-> len],
         stream'[s] = Rest(stream[s], Needed(s)), state'[s] = "OPEN_DATA",
         state'[Other(s)] = state[Other(s)],
         UNCHANGED <<got, writeBuf, publish, queued, published, wire>>
  PROVE  Taken(s)' /\ Arrives(s)'
<1> DEFINE x == stream[s]
           u == Road(s)
           q == Sending(s)
           c == Taking(s)
           b == Line("blank")
           k == HeaderUnits(f)
           g == Counting(c, f)
<1>1. /\ x \in Seq(UnitType) /\ Len(x) \in Nat /\ Len(x) <= Len(In(s)) /\ Len(In(s)) <= Len(u)
      /\ Len(In(s)) \in Nat /\ Len(u) \in Nat
      /\ \A i \in 1 .. Len(x) : u[i] = x[i]
      /\ \A i \in 0 .. Len(x) : Rest(x, i) \o wire[s] = Rest(In(s), i)
      /\ u \in Seq(UnitType)
  BY StreamLeads, RoadHas
<1>2. q \in Sents /\ c \in Counts /\ IsLine(b) /\ Behind(s) = b /\ Live(s)
  BY SendingHas, LinesHave DEF Behind, Live
<1>3. /\ Good(q, c, b, u)
      /\ state[Other(s)] # "NONE" => Complete(q, c, b, u, Len(Until(s)))
  BY <1>2 DEF Arrives
<1>4. /\ 0 < Len(x) /\ 1 \in 1 .. Len(x) /\ 1 \in 1 .. Len(u) /\ 0 \in 0 .. Len(u) /\ 0 < Len(u) /\ 0 + 1 = 1
      /\ k <= Len(x)
  <2>1. x # <<>> /\ k <= Len(x)
    BY DEF HeaderComplete, Needed
  <2>2. Len(x) # 0
    BY <2>1, <1>1, EmptySeq
  <2> HIDE DEF x, u, k
  <2>3. QED
    BY <2>1, <2>2, <1>1
<1>5. u[1] = x[1] /\ ~IsLine(u[1]) /\ u[1] \in UnitType
  <2>1. u[1] = x[1] /\ ~IsLine(x[1])
    BY <1>1, <1>4 DEF NoLines
  <2>2. u[1] \in UnitType
    BY <1>1, <1>4, ElementOfSeq
  <2>3. QED
    BY <2>1, <2>2
<1> HIDE DEF x, u, q, c, b
<1>6. u[1].kind = "start"
  <2>1. EndsFrame(Before(b, u, 0))
    BY <1>2 DEF Before, EndsFrame
  <2>2. StartsFrame(u[0 + 1])
    BY <2>1, <1>1, <1>3, <1>4, BeginningNext
  <2>3. u[1].at = 1 /\ OfFrame(u[1])
    BY <2>2, <1>3, <1>4, <1>5 DEF StartsFrame, Good, Genuine
  <2>4. QED
    BY <2>3, <1>5, StartIs
<1>7. f = u[1].frame
  BY <1>5, <1>6 DEF Begun, x
<1>8. k <= Len(u) /\ k = Needed(s)
  <2>1. k = Needed(s)
    BY DEF Needed
  <2>2. u[1].frame \in Frames
    BY <1>5 DEF UnitType
  <2>3. k \in Nat
    BY <2>2, <1>7, SizeIs
  <2> HIDE DEF k
  <2>4. QED
    BY <1>1, <1>4, <2>1, <2>3
<1>9. /\ f \in Frames /\ SentFrame(q, f) /\ f.id = c[f.via] + 1
      /\ \A i \in 1 .. k : u[i] = Units(f)[i]
      /\ Good(q, g, Units(f)[k], Rest(u, k))
      /\ \A e \in k .. Len(u) : Complete(q, c, b, u, e) => Complete(q, g, Units(f)[k], Rest(u, k), e - k)
  <2>1. /\ Len(u) > 0 /\ f = u[1].frame /\ HeaderUnits(f) <= Len(u) /\ f \in Frames
        /\ q \in Sents /\ c \in Counts /\ IsLine(b) /\ u \in Seq(UnitType) /\ Good(q, c, b, u) /\ ~IsLine(u[1])
    BY <1>1, <1>2, <1>3, <1>4, <1>5, <1>7, <1>8 DEF UnitType
  <2>2. /\ f \in Frames /\ SentFrame(q, f) /\ f.id = c[f.via] + 1
        /\ \A i \in 1 .. HeaderUnits(f) : u[i] = Units(f)[i]
        /\ Good(q, g, Units(f)[HeaderUnits(f)], Rest(u, HeaderUnits(f)))
        /\ \A e \in HeaderUnits(f) .. Len(u) :
             Complete(q, c, b, u, e) =>
               Complete(q, g, Units(f)[HeaderUnits(f)], Rest(u, HeaderUnits(f)), e - HeaderUnits(f))
    BY ONLY <2>1, HeaderOff
  <2>3. QED
    BY <2>2
<1>10. len = f.len
  <2>1. /\ LengthUnits(f) \in {0, 1} /\ MaskUnits(f) \in {0, 1}
        /\ k = 1 + LengthUnits(f) + MaskUnits(f) /\ k \in 1 .. Size(f)
    BY <1>9, SizeIs DEF LengthUnits, MaskUnits, HeaderUnits
  <2>2. CASE LengthUnits(f) = 0
    BY <2>2, <1>5, <1>6 DEF LengthRead, x
  <2>3. CASE LengthUnits(f) # 0
    <3>1. LengthUnits(f) = 1 /\ MaskUnits(f) = 0 /\ 2 + MaskUnits(f) = 2 /\ k = 2
      BY <2>1, <2>3
    <3>2. 2 \in 1 .. k /\ 2 \in 1 .. Size(f) /\ 2 \in 1 .. Len(x) /\ 2 \in Nat
      BY <2>1, <3>1, <1>1, <1>4
    <3>3. x[2] = Unit(KindAt(f, 2), f, 2)
      <4>1. x[2] = u[2] /\ u[2] = Units(f)[2]
        BY <3>2, <1>1, <1>9
      <4>2. Units(f)[2] = Unit(KindAt(f, 2), f, 2)
        BY <3>2, <1>9, UnitsHave
      <4>3. QED
        BY <4>1, <4>2
    <3>4. KindAt(f, 2) = "length"
      BY <3>1 DEF KindAt
    <3>5. x[2].kind = "length"
      BY <3>3, <3>4 DEF Unit
    <3>6. QED
      BY <3>1, <3>5, <1>5, <1>6 DEF LengthRead, x
  <2>4. QED
    BY <2>2, <2>3
<1>11. /\ In(s)' = Rest(In(s), k) /\ k \in 0 .. Len(In(s))
       /\ First(Other(s))' = First(Other(s)) /\ Second(Other(s))' = Second(Other(s))
  <2>1. k \in 0 .. Len(x) /\ k \in 0 .. Len(In(s))
    BY <1>1, <1>4, <1>9, SizeIs
  <2>2. In(s)' = Rest(x, k) \o wire[s]
    BY <1>8 DEF In, x
  <2>3. QED
    BY <2>1, <2>2, <1>1 DEF First, Second, Ready, MidPublished
<1>12. /\ Road(s)' = Rest(u, k) /\ Len(Until(s)') = Len(Until(s)) - k /\ Len(Until(s)) \in k .. Len(u)
  BY <1>11, RoadRest DEF u
<1>13. Sending(s)' = q /\ Taken(s)' /\ Behind(s)' = Units(f)[k]
  BY DEF Sending, SentTo, Taken, Behind, q
<1>14. Taking(s)' = g /\ Len(got[s][f.via]) = c[f.via]
  <2>1. f.via \in Ways /\ \A via \in Ways : Len(got[s][via]) \in Nat
    BY <1>9, LenProperties DEF Frames, Gots
  <2>2. \A via \in Ways : c[via] = Len(got[s][via])
    BY <2>1 DEF Taking, c
  <2>3. Taking(s)' = [via \in Ways |-> Len(got[s][via]) + IF f.via = via THEN 1 ELSE 0]
    BY DEF Taking
  <2>4. g = [via \in Ways |-> IF via = f.via THEN c[via] + 1 ELSE c[via]]
    BY <2>1, <1>2 DEF Counts, Counting
  <2>5. ASSUME NEW via \in Ways
        PROVE  (Len(got[s][via]) + IF f.via = via THEN 1 ELSE 0) = IF via = f.via THEN c[via] + 1 ELSE c[via]
    <3> DEFINE l == Len(got[s][via])
               a == IF f.via = via THEN 1 ELSE 0
               d == IF via = f.via THEN c[via] + 1 ELSE c[via]
    <3>1. l \in Nat /\ c[via] = l
      BY <2>1, <2>2
    <3>2. (a = 1 /\ d = c[via] + 1) \/ (a = 0 /\ d = c[via])
      OBVIOUS
    <3> HIDE DEF l, a, d
    <3>3. l + a = d
      BY <3>1, <3>2
    <3>4. QED
      BY <3>3 DEF l, a, d
  <2>6. QED
    BY <2>1, <2>2, <2>3, <2>4, <2>5
<1> HIDE DEF g, k
<1>15. Halfway(s)'
  BY <1>9, <1>10, <1>13, <1>14 DEF Halfway
<1>16. QED
  BY <1>3, <1>9, <1>12, <1>13, <1>14, <1>15 DEF Arrives

LEMMA DoOpenDelivers ==
  ASSUME WInv, DInv, NEW s \in Sides, DoOpen(s)
  PROVE  DInv'
<1> DEFINE t == Other(s)
           f == Begun(stream[s][1])
<1>1. /\ state[s] = "OPEN" /\ HeaderComplete(s)
      /\ stream' = [stream EXCEPT ![s] = Rest(@, Needed(s))]
      /\ state' = [state EXCEPT ![s] = "OPEN_DATA"]
      /\ mishaps' = IF LengthUnits(f) + MaskUnits(f) = 2 THEN mishaps \cup {"swapped"} ELSE mishaps
      /\ UNCHANGED <<http, got, writeBuf, publish, queued, published, wire>>
  BY DEF DoOpen, output, parsing
<1>2. PICK len \in LengthRead(s) : frame' = [frame EXCEPT ![s] = [of |-> f, len |-> len]]
  BY DEF DoOpen
<1> HIDE DEF f
<1>3. Typed /\ Gots /\ Vias /\ AllApart
  BY DEF WInv, DInv
<1>4. t \in Sides /\ t # s /\ Other(t) = s /\ \A q \in Sides : q = s \/ q = t
  BY OtherSide, TwoSides
<1>5. /\ stream'[s] = Rest(stream[s], Needed(s)) /\ stream'[t] = stream[t]
      /\ state'[s] = "OPEN_DATA" /\ state'[t] = state[t]
      /\ frame'[s] = [of |-> f, len |-> len] /\ frame'[t] = frame[t]
  BY <1>1, <1>2, <1>3, <1>4 DEF Typed
<1>6. mishaps' = {} => mishaps = {} /\ LengthUnits(f) + MaskUnits(f) # 2
  BY <1>1
<1>7. ASSUME mishaps' = {} PROVE Taken(t)' /\ Arrives(t)'
  <2>1. Taken(t) /\ Arrives(t)
    BY <1>4, <1>6, <1>7 DEF DInv
  <2>2. QED
    BY <2>1, <1>1, <1>4, <1>5, AsideKeeps
<1>8. ASSUME mishaps' = {} PROVE Taken(s)' /\ Arrives(s)'
  <2>1. Taken(s) /\ Arrives(s)
    BY <1>6, <1>8 DEF DInv
  <2>2. NoLines(stream[s])
    BY <1>1, <1>3, <1>6, <1>8 DEF AllApart, Apart
  <2>3. f = Begun(stream[s][1])
    BY DEF f
  <2>4. QED
    BY <2>1, <2>2, <2>3, <1>1, <1>2, <1>3, <1>5, <1>6, <1>8, HeaderTaken
<1>9. QED
  BY <1>1, <1>3, <1>4, <1>7, <1>8 DEF DInv, Gots, Vias, StartsVia

(* Sequences that agree as far as they go have the same beginnings.        *)
LEMMA SamePrefix ==
  ASSUME NEW x \in Seq(UnitType), NEW u \in Seq(UnitType), NEW n \in Nat, n <= Len(x), n <= Len(u),
         \A i \in 1 .. n : u[i] = x[i]
  PROVE  Prefix(x, n) = Prefix(u, n)
<1> DEFINE a == Prefix(x, n)
           b == Prefix(u, n)
<1>1. n \in 0 .. Len(x) /\ n \in 0 .. Len(u)
  <2>1. Len(x) \in Nat /\ Len(u) \in Nat
    BY LenProperties
  <2>2. QED
    BY <2>1
<1>2. /\ a \in Seq(UnitType) /\ Len(a) = n /\ \A i \in 1 .. n : a[i] = x[i]
      /\ b \in Seq(UnitType) /\ Len(b) = n /\ \A i \in 1 .. n : b[i] = u[i]
  BY <1>1, PrefixHas
<1> HIDE DEF a, b
<1>3. a = [i \in 1 .. Len(a) |-> a[i]] /\ b = [i \in 1 .. Len(b) |-> b[i]]
  BY <1>2
<1>4. a = b
  BY <1>2, <1>3
<1>5. QED
  BY <1>4 DEF a, b

(* DoOpenData: what is taken is the frame that was sent, payload and all.  *)
LEMMA PayloadTaken ==
  ASSUME Typed, Gots, NEW s \in Sides, state[s] = "OPEN_DATA", PayloadComplete(s),
         Taken(s), Arrives(s), NEW f, f = frame[s].of,
         got'[s] = [got[s] EXCEPT ![f.via] =
                      Append(@, [frame |-> f, payload |-> Prefix(stream[s], frame[s].len)])],
         stream'[s] = Rest(stream[s], frame[s].len), state'[s] \in {"OPEN", "CLOSING"},
         state'[Other(s)] = "NONE" => state[Other(s)] = "NONE", state[Other(s)] = "NONE" => state'[Other(s)] = "NONE",
         wire'[s] = wire[s], writeBuf'[Other(s)] = writeBuf[Other(s)], publish' = publish,
         \A via \in Ways : SentTo(s, via)' = SentTo(s, via)
  PROVE  Taken(s)' /\ Arrives(s)'
<1> DEFINE x == stream[s]
           u == Road(s)
           q == Sending(s)
           c == Taking(s)
           b == Units(f)[HeaderUnits(f)]
           a == Line("blank")
           k == f.len
           rec == [frame |-> f, payload |-> Prefix(x, frame[s].len)]
<1>1. /\ x \in Seq(UnitType) /\ Len(x) \in Nat /\ Len(x) <= Len(In(s)) /\ Len(In(s)) <= Len(u)
      /\ Len(In(s)) \in Nat /\ Len(u) \in Nat
      /\ \A i \in 1 .. Len(x) : u[i] = x[i]
      /\ \A i \in 0 .. Len(x) : Rest(x, i) \o wire[s] = Rest(In(s), i)
      /\ u \in Seq(UnitType)
  BY StreamLeads, RoadHas
<1>2. q \in Sents /\ c \in Counts /\ IsLine(a) /\ Behind(s) = b /\ Live(s) /\ f \in Frames
  BY SendingHas, LinesHave DEF Behind, Live, Typed
<1>3. /\ Good(q, c, b, u)
      /\ state[Other(s)] # "NONE" => Complete(q, c, b, u, Len(Until(s)))
  BY <1>2 DEF Arrives
<1>4. /\ frame[s].len = k /\ SentFrame(q, f) /\ f.id = Len(got[s][f.via]) + 1
      /\ k \in Nat /\ k <= Len(x)
  <2>1. frame[s].len = k /\ SentFrame(q, f) /\ f.id = Len(got[s][f.via]) + 1
    BY <1>2 DEF Arrives, Halfway
  <2>2. k \in Nat
    BY <1>2, SizeIs
  <2>3. QED
    BY <2>1, <2>2 DEF PayloadComplete
<1>5. f.via \in Ways /\ \A via \in Ways : got[s][via] \in Seq(TakenType) /\ Len(got[s][via]) \in Nat
  BY <1>2, LenProperties DEF Frames, Gots
<1> HIDE DEF x, u, q, c, b, a, k
<1>6. k <= Len(u) /\ k \in 0 .. Len(x) /\ k \in 0 .. Len(In(s)) /\ \A i \in 1 .. k : i \in 1 .. Len(x)
  BY <1>1, <1>4
<1>7. Prefix(x, frame[s].len) = Payload(f)
  <2>1. Prefix(u, k) = Payload(f)
    <3>1. /\ f \in Frames /\ u \in Seq(UnitType) /\ k = f.len /\ f.len <= Len(u)
          /\ Good(q, c, Units(f)[HeaderUnits(f)], u)
      BY <1>1, <1>2, <1>3, <1>6 DEF b, k
    <3>2. QED
      BY ONLY <3>1, Closing
  <2>2. Prefix(x, k) = Prefix(u, k)
    BY <1>1, <1>4, <1>6, SamePrefix
  <2>3. QED
    BY <2>1, <2>2, <1>4
<1>8. rec = [frame |-> f, payload |-> Payload(f)]
  BY <1>7
<1> HIDE DEF rec
<1>9. /\ got'[s][f.via] = Append(got[s][f.via], rec)
      /\ \A via \in Ways : via # f.via => got'[s][via] = got[s][via]
      /\ rec \in TakenType
  <2>1. Payload(f) \in Seq(UnitType)
    <3>1. frame[s].len \in 0 .. Len(x)
      BY <1>4, <1>6
    <3>2. QED
      BY <3>1, <1>1, <1>7, PrefixHas
  <2>2. got[s] \in [Ways -> Seq(TakenType)]
    BY DEF Gots
  <2>3. QED
    BY <2>1, <2>2, <1>2, <1>5, <1>8 DEF rec, x, TakenType
<1>10. Taken(s)'
  <2>1. ASSUME NEW via \in Ways
        PROVE  /\ Len(got'[s][via]) <= Len(SentTo(s, via)')
               /\ \A i \in 1 .. Len(got'[s][via]) :
                    LET g == SentTo(s, via)'[i] IN got'[s][via][i] = [frame |-> g, payload |-> Payload(g)]
    <3>1. CASE via # f.via
      <4>1. got'[s][via] = got[s][via] /\ SentTo(s, via)' = SentTo(s, via)
        BY <3>1, <1>9
      <4>2. /\ Len(got[s][via]) <= Len(SentTo(s, via))
            /\ \A i \in 1 .. Len(got[s][via]) :
                 got[s][via][i] = [frame |-> SentTo(s, via)[i], payload |-> Payload(SentTo(s, via)[i])]
        BY Zenon DEF Taken
      <4>3. QED
        BY ONLY <4>1, <4>2
    <3>2. CASE via = f.via
      <4> DEFINE v == got[s][via]
                 y == SentTo(s, via)
      <4>1. /\ v \in Seq(TakenType) /\ Len(v) \in Nat
            /\ got'[s][via] = Append(v, rec) /\ SentTo(s, via)' = y
            /\ f.id = Len(v) + 1 /\ f.id \in 1 .. Len(y) /\ y[f.id] = f
            /\ \A i \in 1 .. Len(v) : LET g == y[i] IN v[i] = [frame |-> g, payload |-> Payload(g)]
        BY <3>2, <1>4, <1>5, <1>9 DEF SentFrame, Sending, q, Taken
      <4> HIDE DEF v, y
      <4>2. /\ Len(Append(v, rec)) = Len(v) + 1
            /\ \A i \in 1 .. Len(v) : Append(v, rec)[i] = v[i]
            /\ Append(v, rec)[Len(v) + 1] = rec
        <5>1. v \in Seq(TakenType) /\ rec \in TakenType /\ Len(v) \in Nat
          BY <4>1, <1>9
        <5>2. QED
          BY ONLY <5>1, AppendProperties
      <4>3. ASSUME NEW i \in 1 .. Len(v) + 1
            PROVE  Append(v, rec)[i] = [frame |-> y[i], payload |-> Payload(y[i])]
        <5>1. CASE i = Len(v) + 1
          BY <5>1, <4>1, <4>2, <1>8
        <5>2. CASE i # Len(v) + 1
          <6>1. i \in 1 .. Len(v)
            BY <4>1, <5>2
          <6>2. QED
            BY <6>1, <4>1, <4>2
        <5>3. QED
          BY <5>1, <5>2
      <4>4. Len(Append(v, rec)) <= Len(y)
        BY <4>1, <4>2
      <4>5. /\ Len(got'[s][via]) <= Len(SentTo(s, via)')
            /\ \A i \in 1 .. Len(got'[s][via]) :
                 got'[s][via][i] = [frame |-> SentTo(s, via)'[i], payload |-> Payload(SentTo(s, via)'[i])]
        <5>1. got'[s][via] = Append(v, rec) /\ SentTo(s, via)' = y /\ Len(Append(v, rec)) = Len(v) + 1
          BY <4>1, <4>2
        <5>2. \A i \in 1 .. Len(v) + 1 : Append(v, rec)[i] = [frame |-> y[i], payload |-> Payload(y[i])]
          BY <4>3
        <5>3. QED
          BY ONLY <5>1, <5>2, <4>4
      <4>6. QED
        BY ONLY <4>5
    <3>3. QED
      BY <3>1, <3>2
  <2>2. QED
    BY <2>1 DEF Taken
<1>11. Sending(s)' = q
  BY DEF Sending, q
<1>12. Taking(s)' = c
  <2>1. ASSUME NEW via \in Ways
        PROVE  (Len(got'[s][via]) + IF state'[s] = "OPEN_DATA" /\ frame'[s].of.via = via THEN 1 ELSE 0) = c[via]
    <3> DEFINE v == got[s][via]
               l == Len(got'[s][via])
               d == IF state'[s] = "OPEN_DATA" /\ frame'[s].of.via = via THEN 1 ELSE 0
               e == IF f.via = via THEN 1 ELSE 0
    <3>1. d = 0
      OBVIOUS
    <3>2. c[via] = Len(v) + e /\ v \in Seq(TakenType) /\ Len(v) \in Nat /\ rec \in TakenType
      BY <1>5, <1>9 DEF c, Taking
    <3>3. l = Len(v) + e
      <4>1. CASE via = f.via
        <5>1. e = 1 /\ l = Len(Append(v, rec))
          BY <4>1, <1>9
        <5> HIDE DEF v, l, e
        <5>2. Len(Append(v, rec)) = Len(v) + 1
          BY ONLY <3>2, AppendProperties
        <5>3. QED
          BY <5>1, <5>2
      <4>2. CASE via # f.via
        <5>1. e = 0 /\ l = Len(v)
          BY <4>2, <1>9
        <5> HIDE DEF v, l, e
        <5>2. QED
          BY <5>1, <3>2
      <4>3. QED
        BY <4>1, <4>2
    <3>4. e \in Nat
      OBVIOUS
    <3> HIDE DEF v, l, d, e
    <3>5. l + d = c[via]
      BY <3>1, <3>2, <3>3, <3>4
    <3>6. QED
      BY <3>5 DEF l, d
  <2>2. Taking(s)' = [via \in Ways |-> c[via]]
    BY <2>1 DEF Taking
  <2>3. QED
    BY <2>2, <1>2 DEF Counts
<1>13. /\ In(s)' = Rest(In(s), k)
       /\ First(Other(s))' = First(Other(s)) /\ Second(Other(s))' = Second(Other(s))
  <2>1. In(s)' = Rest(x, k) \o wire[s]
    BY <1>4 DEF In, x
  <2>2. QED
    BY <2>1, <1>1, <1>6 DEF First, Second, Ready, MidPublished
<1>14. /\ Road(s)' = Rest(u, k) /\ Len(Until(s)') = Len(Until(s)) - k /\ Len(Until(s)) \in k .. Len(u)
  BY <1>6, <1>13, RoadRest DEF u
<1>15. ASSUME state'[s] = "OPEN" PROVE Arrives(s)'
  <2>1. Behind(s)' = a /\ Halfway(s)'
    BY <1>15 DEF Behind, Halfway, a
  <2>2. /\ Good(q, c, a, Rest(u, k))
        /\ \A e \in k .. Len(u) : Complete(q, c, b, u, e) => Complete(q, c, a, Rest(u, k), e - k)
    BY <1>1, <1>2, <1>3, <1>6, PayloadOff DEF b, k
  <2>3. QED
    BY <2>1, <2>2, <1>3, <1>11, <1>12, <1>14 DEF Arrives
<1>16. ASSUME state'[s] = "CLOSING" PROVE Arrives(s)'
  BY <1>16 DEF Arrives, Live
<1>17. QED
  BY <1>10, <1>15, <1>16

LEMMA DoOpenDataDelivers ==
  ASSUME WInv, DInv, NEW s \in Sides, DoOpenData(s)
  PROVE  DInv'
<1> DEFINE t    == Other(s)
           f    == frame[s].of
           pong == NextFrame(s, "pong", frame[s].len)
           rec  == [frame |-> f, payload |-> Prefix(stream[s], frame[s].len)]
<1>1. /\ state[s] = "OPEN_DATA" /\ PayloadComplete(s)
      /\ stream' = [stream EXCEPT ![s] = Rest(@, frame[s].len)]
      /\ got' = [got EXCEPT ![s][f.via] = Append(@, rec)]
      /\ state' = [state EXCEPT ![s] = AfterFrame(f.op)]
      /\ QueueFrame(s, pong) \/ UNCHANGED <<writeBuf, publish, queued, published, mishaps>>
      /\ UNCHANGED <<http, frame, wire>>
  BY DEF DoOpenData, output, parsing
<1>2. Typed /\ Gots /\ Vias
  BY DEF WInv, DInv
<1>3. t \in Sides /\ t # s /\ Other(t) = s /\ \A q \in Sides : q = s \/ q = t
  BY OtherSide, TwoSides
<1>4. /\ pong \in Frames /\ pong.via = "writeBuf" /\ pong.id = Len(queued[s]) + 1
      /\ f \in Frames /\ f.via \in Ways /\ frame[s].len \in Nat
  <2>1. frame[s].len \in Nat /\ f \in Frames
    BY <1>2 DEF Typed
  <2>2. pong \in Frames
    BY <2>1, <1>2, NextFrameHas DEF Ops
  <2>3. QED
    BY <2>1, <2>2 DEF NextFrame, Frame, Frames
<1> HIDE DEF pong
<1>5. /\ state'[t] = state[t] /\ stream'[t] = stream[t] /\ got'[t] = got[t]
      /\ stream'[s] = Rest(stream[s], frame[s].len) /\ state'[s] \in {"OPEN", "CLOSING"}
      /\ got'[s] = [got[s] EXCEPT ![f.via] = Append(@, rec)]
  BY <1>1, <1>2, <1>3, <1>4 DEF Typed, Gots, AfterFrame
<1>6. /\ Vias' /\ (mishaps' = {} => mishaps = {})
      /\ mishaps' = {} /\ Taken(t) /\ Arrives(t) => Taken(t)' /\ Arrives(t)'
      /\ \A via \in Ways : SentTo(s, via)' = SentTo(s, via)
      /\ writeBuf'[t] = writeBuf[t] /\ publish' = publish
  <2>1. CASE QueueFrame(s, pong)
    <3>1. publish' = publish /\ UNCHANGED <<http, frame, wire>>
      BY <2>1, <1>1 DEF QueueFrame
    <3> HIDE DEF t, f, rec
    <3>2. t = Other(s)
      BY DEF t
    <3>3. QED
      BY <2>1, <3>1, <3>2, <1>2, <1>4, <1>5, QueueReaches
  <2>2. CASE UNCHANGED <<writeBuf, publish, queued, published, mishaps>>
    <3>1. Vias'
      BY <2>2, <1>2 DEF Vias, StartsVia
    <3>2. \A via \in Ways : SentTo(s, via)' = SentTo(s, via)
      BY <2>2 DEF SentTo
    <3>3. state[s] # "NONE"
      BY <1>1
    <3>4. Taken(t) /\ Arrives(t) => Taken(t)' /\ Arrives(t)'
      BY <2>2, <3>3, <1>1, <1>3, <1>5, AsideKeeps
    <3>5. QED
      BY <2>2, <3>1, <3>2, <3>4
  <2>3. QED
    BY <1>1, <2>1, <2>2
<1>7. ASSUME mishaps' = {} PROVE Taken(s)' /\ Arrives(s)'
  <2>1. Taken(s) /\ Arrives(s)
    BY <1>6, <1>7 DEF DInv
  <2>2. /\ state[s] = "OPEN_DATA" /\ PayloadComplete(s) /\ wire'[s] = wire[s] /\ f = frame[s].of
        /\ got'[s] = [got[s] EXCEPT ![f.via] =
                        Append(@, [frame |-> f, payload |-> Prefix(stream[s], frame[s].len)])]
        /\ state'[Other(s)] = state[Other(s)] /\ writeBuf'[Other(s)] = writeBuf[Other(s)]
    BY <1>1, <1>5, <1>6
  <2> HIDE DEF f
  <2>3. QED
    BY ONLY s \in Sides, <2>1, <2>2, <1>2, <1>5, <1>6, PayloadTaken
<1>8. ASSUME mishaps' = {} PROVE Taken(t)' /\ Arrives(t)'
  BY <1>3, <1>6, <1>8 DEF DInv
<1>9. Gots'
  <2>1. stream[s] \in Seq(UnitType) /\ frame[s].len \in 0 .. Len(stream[s])
    <3>1. stream[s] \in Seq(UnitType) /\ frame[s].len <= Len(stream[s])
      BY <1>1, <1>2 DEF PayloadComplete, Typed
    <3>2. Len(stream[s]) \in Nat
      BY <3>1, LenProperties
    <3>3. QED
      BY <3>1, <3>2, <1>4
  <2>2. rec \in TakenType
    BY <2>1, <1>4, PrefixHas DEF TakenType
  <2>3. got \in [Sides -> [Ways -> Seq(TakenType)]]
    BY <1>2 DEF Gots
  <2> HIDE DEF rec, f
  <2>4. Append(got[s][f.via], rec) \in Seq(TakenType)
    BY <2>2, <2>3, <1>4, AppendProperties
  <2>5. got' \in [Sides -> [Ways -> Seq(TakenType)]]
    BY <2>3, <2>4, <1>1, <1>4
  <2>6. QED
    BY <2>5 DEF Gots
<1>10. QED
  BY <1>3, <1>6, <1>7, <1>8, <1>9 DEF DInv

LEMMA DInvInitial == Init => DInv
<1> SUFFICES ASSUME Init
             PROVE  DInv
  OBVIOUS
<1>1. <<>> \in Seq(UnitType) /\ Len(<<>>) = 0 /\ <<>> \o <<>> = <<>> /\ \A i \in 1 .. 0 : FALSE
  <2>1. <<>> \in Seq(UnitType)
    OBVIOUS
  <2>2. QED
    BY <2>1, ConcatEmptySeq
<1>2. Gots
  <2>1. <<>> \in Seq(TakenType)
    OBVIOUS
  <2>2. QED
    BY <2>1 DEF Init, Gots
<1>3. Vias
  BY <1>1 DEF Init, Vias, StartsVia
<1>4. ASSUME NEW s \in Sides PROVE Taken(s) /\ Arrives(s)
  <2>1. /\ state[s] = "CONNECTING" /\ stream[s] = <<>> /\ http[s] = <<>> /\ wire[s] = <<>>
        /\ writeBuf[Other(s)] = <<>> /\ publish = <<>> /\ queued[Other(s)] = <<>> /\ published = <<>>
        /\ \A via \in Ways : got[s][via] = <<>>
    BY OtherSide DEF Init
  <2>2. \A via \in Ways : SentTo(s, via) = <<>>
    BY <2>1 DEF SentTo
  <2>3. Taken(s)
    BY <2>1, <2>2, <1>1 DEF Taken
  <2>4. In(s) = <<>> /\ First(Other(s)) = <<>> /\ Second(Other(s)) = <<>>
    BY <2>1, <1>1 DEF In, First, Second, Ready
  <2>5. Until(s) = <<>> /\ Road(s) = <<>>
    BY <2>4, <1>1 DEF Until, Road
  <2>6. Halfway(s) /\ Behind(s) = Line("blank") /\ IsLine(Behind(s))
    BY <2>1, LinesHave DEF Halfway, Behind
  <2>7. \A via \in Ways : Sending(s)[via] = <<>> /\ Taking(s)[via] = 0
    BY <2>1, <2>2, <1>1 DEF Sending, Taking
  <2>8. Good(Sending(s), Taking(s), Behind(s), <<>>)
    BY <1>1 DEF Good, Chained, Genuine, Ordered
  <2>9. Complete(Sending(s), Taking(s), Behind(s), <<>>, 0)
    BY <2>6, <2>7, <1>1 DEF Complete, Before, EndsFrame, LastUnderWay
  <2>10. QED
    BY <2>3, <2>5, <2>6, <2>8, <2>9, <1>1 DEF Arrives
<1>5. QED
  BY <1>2, <1>3, <1>4 DEF DInv

LEMMA DInvStep ==
  ASSUME WInv, DInv, [Next]_vars
  PROVE  DInv'
<1>1. CASE Program
  <2>1. CASE Stream
    BY <2>1, StreamDelivers
  <2>2. ASSUME NEW s \in Sides, NEW send \in Sends[s], Queue(s, send[1], send[2])
        PROVE  DInv'
    <3>1. send \in {"text", "ping", "close"} \X Nat
      BY <2>2, SendsAssumption DEF Sides
    <3>2. send[1] \in Ops /\ send[2] \in Nat
      BY <3>1 DEF Ops
    <3>3. QED
      BY <2>2, <3>2, QueueDelivers
  <2>3. ASSUME NEW len \in Lengths, Publish(len) PROVE DInv'
    BY <2>3, PublishDelivers
  <2>4. ASSUME NEW s \in Sides, Unregister(s) PROVE DInv'
    BY <2>4, CloseDelivers DEF Unregister
  <2>5. QED
    BY <1>1, <2>1, <2>2, <2>3, <2>4 DEF Program
<1>2. ASSUME NEW s \in Sides, Reads(s) PROVE DInv'
  BY <1>2, ReadDelivers DEF Reads
<1>3. ASSUME NEW s \in Sides, Rounds(s) PROVE DInv'
  <2>1. CASE Wait(s)
    <3>1. UNCHANGED <<state, http, stream, frame, got, writeBuf, publish, queued, published, wire, mishaps>>
      BY <2>1 DEF Wait, parsing, output
    <3>2. QED
      BY <3>1, SameDelivers
  <2>2. CASE Open(s)
    BY <2>2, OpenDelivers
  <2>3. CASE DoOpen(s)
    BY <2>3, DoOpenDelivers
  <2>4. CASE DoOpenData(s)
    BY <2>4, DoOpenDataDelivers
  <2>5. CASE EndClosing(s)
    BY <2>5, EndClosingDelivers
  <2>6. QED
    BY <1>3, <2>1, <2>2, <2>3, <2>4, <2>5
    DEF Rounds, ProcessState, KeepConnecting, KeepOpen, KeepWaiting, KeepClosed
<1>4. ASSUME NEW s \in Sides, Writes(s) PROVE DInv'
  BY <1>4, WriteBufferDelivers, WritePublishedDelivers, CloseDelivers DEF Writes, WriteFails
<1>5. CASE UNCHANGED vars
  <2>1. UNCHANGED <<state, http, stream, frame, got, writeBuf, publish, queued, published, wire, mishaps>>
    BY <1>5 DEF vars, input, output, parsing
  <2>2. QED
    BY <2>1, SameDelivers
<1>6. QED
  BY <1>1, <1>2, <1>3, <1>4, <1>5 DEF Next

(* What a side took, and what is on the road to it, is what was sent to    *)
(* it: nothing is lost, repeated or put inside another frame by Queue,     *)
(* Write, Read and ProcessState.                                           *)
THEOREM DInvInvariant == Spec => [](WInv /\ DInv)
<1>1. Init => WInv /\ DInv
  BY WInvInitial, DInvInitial
<1>2. (WInv /\ DInv) /\ [Next]_vars => (WInv /\ DInv)'
  BY WInvStep, DInvStep
<1>3. QED
  BY <1>1, <1>2, PTL DEF Spec

(* A side takes exactly the frames that were sent to it, each with its own *)
(* payload and in the order of the buffer it went out through, whatever    *)
(* pieces the connection makes of them, whatever the two sides do at the   *)
(* same time and whoever goes at what moment (Queue, Write, Read, DoOpen   *)
(* and DoOpenData) - as long as none of the mishaps happened.              *)
THEOREM ArrivesAsSent == Spec => []ReceivedAsSent
<1>1. WInv /\ DInv => ReceivedAsSent
  <2> SUFFICES ASSUME WInv, DInv, mishaps = {}, NEW s \in Sides, NEW via \in Ways
               PROVE  /\ \A g \in Range(got[s][via]) : g.payload = Payload(g.frame)
                      /\ IsPrefix([i \in DOMAIN got[s][via] |-> got[s][via][i].frame], SentTo(s, via))
    BY DEF ReceivedAsSent
  <2> DEFINE v == got[s][via]
             y == SentTo(s, via)
             z == [i \in DOMAIN v |-> v[i].frame]
  <2>1. Typed /\ Gots /\ Taken(s)
    BY DEF WInv, DInv
  <2>2. v \in Seq(TakenType) /\ Len(v) \in Nat /\ DOMAIN v = 1 .. Len(v)
    BY <2>1, LenProperties DEF Gots
  <2>3. y \in Seq(Frames) /\ Len(y) \in Nat
    <3>1. queued[Other(s)] \in Seq(Frames) /\ published \in Seq(Frames) /\ <<>> \in Seq(Frames)
      BY <2>1, OtherSide DEF Typed
    <3>2. y \in Seq(Frames)
      BY <3>1 DEF SentTo
    <3> HIDE DEF y
    <3>3. QED
      BY <3>2, LenProperties
  <2>4. /\ Len(v) <= Len(y)
        /\ \A i \in 1 .. Len(v) : v[i] = [frame |-> y[i], payload |-> Payload(y[i])]
    BY <2>1 DEF Taken
  <2> HIDE DEF v, y
  <2>5. \A g \in Range(v) : g.payload = Payload(g.frame)
    BY <2>2, <2>4 DEF Range
  <2>6. z = SubSeq(y, 1, Len(v)) /\ Len(z) = Len(v)
    <3>1. z = [i \in 1 .. Len(v) |-> y[i]]
      BY <2>2, <2>4
    <3>2. SubSeq(y, 1, Len(v)) = [i \in 1 .. Len(v) |-> y[i]]
      BY <2>2, <2>3, <2>4
    <3>3. Len(z) = Len(v)
      BY <3>1, <2>2
    <3>4. QED
      BY <3>1, <3>2, <3>3
  <2>7. IsPrefix(z, y)
    BY <2>2, <2>4, <2>6 DEF IsPrefix
  <2>8. QED
    BY <2>5, <2>7 DEF v, y
<1>2. QED
  BY <1>1, DInvInvariant, PTL

=============================================================================
