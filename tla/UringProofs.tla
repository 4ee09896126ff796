---------------------------- MODULE UringProofs -----------------------------
(***************************************************************************)
(* Proofs about Uring, for rings of every size, every width of the indices *)
(* that the sizes divide, and processors that delay stores or do not: the  *)
(* kernel takes what was submitted, in order, the callback is called for   *)
(* what completed, in order, and the completion ring overflows only when   *)
(* completions with more to come crowd it.                                 *)
(*                                                                         *)
(* Then proofs about TlsEcho, what is built on the rings, for every number *)
(* of connections and buffers, every size of the buffers, the write cache  *)
(* and the records, and every load: the buffers of the group are counted,  *)
(* and what comes back is what was sent.                                   *)
(***************************************************************************)
EXTENDS Uring, TlsEcho, FiniteSetTheorems, SequenceTheorems, TLAPS

-----------------------------------------------------------------------------
(* Division with remainder. *)

(* Every integer is a multiple of n and a remainder. *)
LEMMA Division ==
  ASSUME NEW a \in Int, NEW n \in Nat \ {0}
  PROVE  /\ a % n \in 0 .. n - 1 /\ a % n \in Int
         /\ \E q \in Int : a = q * n + (a % n)
<1> DEFINE d == a \div n
<1>1. d \in Int /\ a = d * n + (a % n)
  OBVIOUS
<1>2. a % n \in 0 .. n - 1
  OBVIOUS
<1>3. a % n \in Int
  OBVIOUS
<1> HIDE DEF d
<1>4. \E q \in Int : a = q * n + (a % n)
  BY <1>1
<1> QED  BY <1>2, <1>3, <1>4

(* There is one way to write it so. *)
LEMMA DivisionUnique ==
  ASSUME NEW n \in Nat \ {0}, NEW q \in Int, NEW r \in 0 .. n - 1
  PROVE  (q * n + r) % n = r
OBVIOUS

(* Numbers less than n apart with one remainder are one number. *)
LEMMA Congruent ==
  ASSUME NEW n \in Nat \ {0}, NEW a \in Int, NEW b \in Int, a % n = b % n, b - a \in 0 .. n - 1
  PROVE  a = b
<1>1. PICK q \in Int : a = q * n + (a % n)
  BY Division
<1>2. PICK p \in Int : b = p * n + (b % n)
  BY Division
<1>3. b - a = (p - q) * n
  BY <1>1, <1>2
<1> QED  BY <1>3

(* A remainder may be taken before a sum. *)
LEMMA ModPlus ==
  ASSUME NEW n \in Nat \ {0}, NEW a \in Int, NEW b \in Int
  PROVE  ((a % n) + b) % n = (a + b) % n
<1> DEFINE r == a % n
<1> DEFINE c == r + b
<1>1. r \in Int /\ \E q \in Int : a = q * n + r
  <2>1. a % n \in Int /\ \E q \in Int : a = q * n + (a % n)
    BY Division
  <2> QED  BY <2>1
<1> HIDE DEF r
<1>2. PICK q \in Int : a = q * n + r
  BY <1>1
<1>3. c \in Int /\ a + b = q * n + c
  BY <1>1, <1>2
<1> HIDE DEF c
<1>4. c % n \in 0 .. n - 1 /\ \E p \in Int : c = p * n + (c % n)
  BY <1>3, Division
<1>5. PICK p \in Int : c = p * n + (c % n)
  BY <1>4
<1>6. q + p \in Int /\ a + b = (q + p) * n + (c % n)
  <2> DEFINE e == c % n
  <2>1. e \in Int /\ c = p * n + e
    BY <1>4, <1>5
  <2> HIDE DEF e
  <2>2. a + b = (q + p) * n + e
    BY <1>3, <2>1
  <2> QED  BY <2>2 DEF e
<1>7. ((q + p) * n + (c % n)) % n = c % n
  BY <1>4, <1>6, DivisionUnique
<1> QED  BY <1>6, <1>7 DEF c, r

(* A remainder may be taken before one of a divisor. *)
LEMMA ModFine ==
  ASSUME NEW n \in Nat \ {0}, NEW m \in Nat \ {0}, m % n = 0, NEW a \in Int
  PROVE  (a % m) % n = a % n
<1> DEFINE c == a % m
<1>1. c \in Int /\ \E q \in Int : a = q * m + c
  <2>1. a % m \in Int /\ \E q \in Int : a = q * m + (a % m)
    BY Division
  <2> QED  BY <2>1
<1> HIDE DEF c
<1>2. PICK q \in Int : a = q * m + c
  BY <1>1
<1>0. m \in Int
  OBVIOUS
<1>3. \E p \in Int : m = p * n + (m % n)
  BY <1>0, Division
<1>4. PICK p \in Int : m = p * n
  BY <1>3
<1>5. c % n \in 0 .. n - 1 /\ \E r \in Int : c = r * n + (c % n)
  BY <1>1, Division
<1>6. PICK r \in Int : c = r * n + (c % n)
  BY <1>5
<1>7. a = (q * p + r) * n + (c % n) /\ q * p + r \in Int
  BY <1>1, <1>2, <1>4, <1>5, <1>6
<1>8. ((q * p + r) * n + (c % n)) % n = c % n
  BY <1>5, <1>7, DivisionUnique
<1> QED  BY <1>7, <1>8 DEF c

-----------------------------------------------------------------------------
(* The indices. Each is the place where its ring started, s, and a number  *)
(* of entries, modulo Width: Plus(s, n).                                   *)

(* The constants, as the lemmas use them. *)
LEMMA Sizes ==
  /\ Width \in Nat \ {0} /\ Entries \in Nat \ {0} /\ CqEntries \in Nat \ {0}
  /\ Entries < Width /\ CqEntries < Width
BY RingsAssumption

LEMMA Divides == Width % Entries = 0 /\ Width % CqEntries = 0
BY RingsAssumption

LEMMA PlusType ==
  ASSUME NEW s \in Index, NEW n \in Nat
  PROVE  Plus(s, n) \in Index
<1>1. s + n \in Int
  BY Sizes DEF Index
<1> QED  BY <1>1, Sizes, Division DEF Plus, Index

(* An index moved on by one is that of the next entry. *)
LEMMA PlusNext ==
  ASSUME NEW s \in Index, NEW n \in Nat
  PROVE  Plus(Plus(s, n), 1) = Plus(s, n + 1)
<1>1. s + n \in Int /\ (s + n) + 1 = s + (n + 1)
  BY Sizes DEF Index
<1>2. (((s + n) % Width) + 1) % Width = ((s + n) + 1) % Width
  BY <1>1, Sizes, ModPlus
<1> QED  BY <1>1, <1>2 DEF Plus

(* A ring starts at s. *)
LEMMA PlusZero ==
  ASSUME NEW s \in Index
  PROVE  Plus(s, 0) = s
BY Sizes DEF Index, Plus

(* The same index means the same number, within Width. *)
LEMMA PlusSame ==
  ASSUME NEW s \in Index, NEW a \in Nat, NEW b \in Nat, a <= b, b - a < Width,
         Plus(s, a) = Plus(s, b)
  PROVE  a = b
<1>1. s + a \in Int /\ s + b \in Int /\ (s + b) - (s + a) \in 0 .. Width - 1
  BY Sizes DEF Index
<1>2. s + a = s + b
  BY <1>1, Sizes, Congruent DEF Plus
<1> QED  BY <1>2 DEF Index

(* The same slot means the same number, within the size of the ring. *)
LEMMA SlotSame ==
  ASSUME NEW size \in Nat \ {0}, Width % size = 0,
         NEW s \in Index, NEW a \in Nat, NEW b \in Nat, a <= b, b - a < size,
         Plus(s, a) % size = Plus(s, b) % size
  PROVE  a = b
<1>1. s + a \in Int /\ s + b \in Int /\ (s + b) - (s + a) \in 0 .. size - 1
  BY Sizes DEF Index
<1>2. (s + a) % size = (s + b) % size
  BY <1>1, Sizes, ModFine DEF Plus
<1>3. s + a = s + b
  BY <1>1, <1>2, Congruent
<1> QED  BY <1>3 DEF Index

(* The distance of two indices is how many entries are between them. *)
LEMMA DistPlus ==
  ASSUME NEW s \in Index, NEW a \in Nat, NEW b \in Nat, a <= b, b - a < Width
  PROVE  Dist(Plus(s, a), Plus(s, b)) = b - a
<1> DEFINE x == Plus(s, a)
           y == Plus(s, b)
<1>1. x \in Int /\ y \in Int
  <2>1. x \in Index /\ y \in Index
    BY PlusType
  <2> QED  BY <2>1 DEF Index
<1>2. s + a \in Int /\ s + b \in Int /\ b - a \in 0 .. Width - 1
  BY Sizes DEF Index
<1>3. \E q \in Int : s + a = q * Width + x
  BY <1>2, Sizes, Division DEF Plus
<1>4. \E q \in Int : s + b = q * Width + y
  BY <1>2, Sizes, Division DEF Plus
<1> HIDE DEF x, y
<1>5. PICK q \in Int : s + a = q * Width + x
  BY <1>3
<1>6. PICK p \in Int : s + b = p * Width + y
  BY <1>4
<1>7. q - p \in Int /\ y - x = (q - p) * Width + (b - a)
  BY <1>1, <1>2, <1>5, <1>6, Sizes DEF Index
<1>8. ((q - p) * Width + (b - a)) % Width = b - a
  BY <1>2, <1>7, Sizes, DivisionUnique
<1>9. (y - x) % Width = b - a
  BY <1>7, <1>8
<1> QED  BY <1>9 DEF Dist, x, y

-----------------------------------------------------------------------------
(* The inductive invariant. Its numbers count entries and do not wrap: v   *)
(* and h are those that stand for the tail and the head in memory, l for   *)
(* the head the program stored last, and c[i] for the store at i of the    *)
(* buffer.                                                                 *)

(* The entries whose tail the program has stored. *)
Published == IF pc = "publish" THEN submitted - 1 ELSE submitted

Draining == pc = "drain" \/ (pc \in {"publish", "check"} /\ inDrain)

(* How many of the first n completions were the last of their entries. *)
Done == [n \in 0 .. Len(posted) |-> Cardinality({i \in 1..n : ~posted[i].more})]

(* What the indices stand for. *)
Placed(s, v, h) ==
  /\ sqTail = Plus(s, Published) /\ tailSeen = Plus(s, v) /\ sqHead = Plus(s, Len(taken))
  /\ cqTail = Plus(s, Len(posted)) /\ head = Plus(s, Len(reported)) /\ headSeen = Plus(s, h)

(* An entry is published, seen, taken, posted and reported in this order,  *)
(* and its slot in the completion ring free when the head has passed it.   *)
Chain(v, h, l) ==
  /\ h <= l /\ l <= Len(reported)
  /\ Len(reported) <= Len(posted) /\ Len(posted) <= h + CqEntries
  /\ Done[Len(posted)] <= Len(taken)
  /\ Len(taken) <= v /\ v <= Published

(* What is outstanding fits the window, and the last completions of what   *)
(* the kernel sees of the submission ring fit the completion ring as it    *)
(* sees that.                                                              *)
Fits(v, h, l) ==
  /\ submitted - Done[Len(reported)] <= Window
  /\ v <= Done[h] + Window + FromCallbacks
  /\ Draining => submitted <= Done[l] + Window + byCalls
  /\ ~Draining => l = Len(reported)

Ordered(v, h, l) == Chain(v, h, l) /\ Fits(v, h, l)

(* The stores in the buffer. *)
Values(s, c) == \A i \in DOMAIN buffer : buffer[i].val = Plus(s, c[i])

(* A tail stays within the limit counted from the head in memory, or from  *)
(* one that reaches memory before it does.                                 *)
Tails(v, h, c) ==
  \A i \in DOMAIN buffer : buffer[i].to = "tail" =>
    /\ v <= c[i] /\ c[i] <= Published
    /\ \/ c[i] <= Done[h] + Window + FromCallbacks
       \/ \E j \in 1 .. i - 1 :
            buffer[j].to = "head" /\ c[i] <= Done[c[j]] + Window + FromCallbacks

Heads(h, l, c) ==
  \A i \in DOMAIN buffer : buffer[i].to = "head" => h <= c[i] /\ c[i] <= l

Sorted(c) ==
  \A i, j \in DOMAIN buffer : i < j /\ buffer[i].to = buffer[j].to => c[i] <= c[j]

LastHead(h, l, c) == l = h \/ \E i \in DOMAIN buffer : buffer[i].to = "head" /\ c[i] = l

Buffered(s, v, h, l, c) ==
  Values(s, c) /\ Tails(v, h, c) /\ Heads(h, l, c) /\ Sorted(c) /\ LastHead(h, l, c)

(* The slots from the head of a ring to its tail hold the entries that     *)
(* belong there.                                                           *)
Contents(s) ==
  /\ \A n \in Len(taken) + 1 .. submitted : sqes[Plus(s, n - 1) % Entries] = n
  /\ \A n \in Len(reported) + 1 .. Len(posted) : cqes[Plus(s, n - 1) % CqEntries] = posted[n]

Ring(s, v, h, l, c) ==
  Placed(s, v, h) /\ Ordered(v, h, l) /\ Buffered(s, v, h, l, c) /\ Contents(s)

(* What is in flight has been taken, and its last completion not posted. *)
Kept ==
  /\ ~delays => buffer = <<>>
  /\ pc = "publish" => submitted >= 1
  /\ \A n \in DOMAIN taken : taken[n] = n
  /\ \A n \in DOMAIN reported : reported[n] = posted[n]
  /\ inFlight \subseteq 1 .. Len(taken)
  /\ Done[Len(posted)] + Cardinality(inFlight) <= Len(taken)

IInv ==
  /\ TypeOK
  /\ Kept
  /\ \E s \in Index, v \in Nat, h \in Nat, l \in Nat :
       \E c \in [DOMAIN buffer -> Nat] : Ring(s, v, h, l, c)

(* The numbers are natural numbers. *)
LEMMA Numbers ==
  ASSUME TypeOK
  PROVE  /\ submitted \in Nat /\ byCalls \in Nat /\ byCalls <= FromCallbacks
         /\ Len(taken) \in Nat /\ Len(posted) \in Nat /\ Len(reported) \in Nat
         /\ Window \in Nat /\ FromCallbacks \in Nat
         /\ Window <= Entries /\ Window + FromCallbacks <= CqEntries
BY OutstandingAssumption, LenProperties DEF TypeOK

(* Of the completions from a to b, those that are not the last of their    *)
(* entries are what the count of those that are leaves.                    *)
LEMMA Counting ==
  ASSUME TypeOK, NEW a \in Nat, NEW b \in Nat, a <= b, b <= Len(posted)
  PROVE  /\ Done[a] \in Nat /\ Done[b] \in Nat /\ Done[a] <= Done[b]
         /\ Cardinality({i \in a + 1 .. b : posted[i].more}) = (b - a) - (Done[b] - Done[a])
<1> DEFINE A == {i \in 1 .. a : ~posted[i].more}
           B == {i \in 1 .. b : ~posted[i].more}
           D == {i \in a + 1 .. b : ~posted[i].more}
           M == {i \in a + 1 .. b : posted[i].more}
<1>1. /\ IsFiniteSet(1 .. a) /\ IsFiniteSet(1 .. b) /\ IsFiniteSet(a + 1 .. b)
      /\ Cardinality(a + 1 .. b) = b - a
  <2>1. a + 1 \in Int /\ 1 \in Int /\ a \in Int /\ b \in Int
    OBVIOUS
  <2>2. IsFiniteSet(1 .. a) /\ IsFiniteSet(1 .. b) /\ IsFiniteSet(a + 1 .. b)
    BY <2>1, FS_Interval
  <2>3. Cardinality(a + 1 .. b) = IF a + 1 > b THEN 0 ELSE b - (a + 1) + 1
    BY <2>1, FS_Interval
  <2> QED  BY <2>2, <2>3
<1>2. IsFiniteSet(A) /\ IsFiniteSet(B) /\ IsFiniteSet(D) /\ IsFiniteSet(M)
  <2>1. A \subseteq 1 .. a /\ B \subseteq 1 .. b /\ D \subseteq a + 1 .. b /\ M \subseteq a + 1 .. b
    OBVIOUS
  <2> HIDE DEF A, B, D, M
  <2> QED  BY <2>1, <1>1, FS_Subset
<1>3. B = A \cup D /\ A \cap D = {} /\ a + 1 .. b = D \cup M /\ D \cap M = {}
  OBVIOUS
<1>4. Done[a] = Cardinality(A) /\ Done[b] = Cardinality(B)
  <2>1. a \in 0 .. Len(posted) /\ b \in 0 .. Len(posted)
    BY LenProperties DEF TypeOK
  <2> QED  BY <2>1 DEF Done
<1> HIDE DEF A, B, D, M
<1>5. /\ Cardinality(A) \in Nat /\ Cardinality(D) \in Nat /\ Cardinality(M) \in Nat
      /\ Cardinality({}) = 0
  BY <1>2, FS_CardinalityType, FS_EmptySet
<1>6. Cardinality(B) = Cardinality(A) + Cardinality(D)
  <2>1. Cardinality(A \cup D) = Cardinality(A) + Cardinality(D) - Cardinality(A \cap D)
    BY <1>2, FS_Union
  <2>2. Cardinality(B) = Cardinality(A) + Cardinality(D) - 0
    BY <2>1, <1>3, <1>5, Zenon
  <2> QED  BY <2>2, <1>5
<1>7. b - a = Cardinality(D) + Cardinality(M)
  <2>1. Cardinality(D \cup M) = Cardinality(D) + Cardinality(M) - Cardinality(D \cap M)
    BY <1>2, FS_Union
  <2>2. b - a = Cardinality(D) + Cardinality(M) - 0
    BY <2>1, <1>1, <1>3, <1>5, Zenon
  <2> QED  BY <2>2, <1>5
<1>8. Cardinality(M) = (b - a) - (Done[b] - Done[a])
  BY <1>4, <1>5, <1>6, <1>7
<1> QED  BY <1>4, <1>5, <1>6, <1>8 DEF M

(* The counts are natural numbers, and grow. *)
LEMMA CountsGrow ==
  ASSUME TypeOK
  PROVE  /\ \A n \in Nat : n <= Len(posted) => Done[n] \in Nat
         /\ \A a, b \in Nat : a <= b /\ b <= Len(posted) => Done[a] <= Done[b]
<1>1. ASSUME NEW a \in Nat, NEW b \in Nat, a <= b, b <= Len(posted)
      PROVE  Done[a] \in Nat /\ Done[b] \in Nat /\ Done[a] <= Done[b]
  BY <1>1, Counting
<1>2. ASSUME NEW n \in Nat, n <= Len(posted)
      PROVE  Done[n] \in Nat
  <2>1. n <= n
    OBVIOUS
  <2> QED  BY <2>1, <1>2, <1>1
<1> QED  BY <1>1, <1>2

(* What has been reported is where posted begins: the program counts the   *)
(* same completions.                                                       *)
LEMMA PostCounts ==
  ASSUME TypeOK, Kept, Len(reported) <= Len(posted)
  PROVE  Outstanding = submitted - Done[Len(reported)]
<1>1. Len(reported) \in 0 .. Len(posted) /\ DOMAIN reported = 1 .. Len(reported)
  BY Numbers, LenProperties DEF TypeOK
<1>2. \A i \in 1 .. Len(reported) : reported[i] = posted[i]
  BY <1>1 DEF Kept
<1>3. Finals(reported) = {i \in 1 .. Len(reported) : ~posted[i].more}
  BY <1>1, <1>2 DEF Finals
<1> QED  BY <1>1, <1>3 DEF Done, Outstanding

(* The kernel measures the part of the completion ring in use right. *)
LEMMA Measured ==
  ASSUME TypeOK, NEW s \in Index, NEW v \in Nat, NEW h \in Nat, NEW l \in Nat,
         Placed(s, v, h), Chain(v, h, l)
  PROVE  h <= Len(posted) /\ Dist(headSeen, cqTail) = Len(posted) - h
<1>1. h <= Len(posted) /\ Len(posted) \in Nat /\ Len(posted) - h < Width
  BY Numbers, Sizes DEF Chain
<1> QED  BY <1>1, DistPlus DEF Placed

LEMMA BufferDomain ==
  ASSUME TypeOK
  PROVE  Len(buffer) \in Nat /\ DOMAIN buffer = 1 .. Len(buffer)
BY LenProperties DEF TypeOK

(* A store joins the buffer, and its number the others. *)
StoreRecord == [to : {"tail", "head"}, val : Index]

Joined(c, d, n, store) ==
  /\ d \in [DOMAIN buffer' -> Nat]
  /\ Len(buffer) + 1 \in Nat /\ DOMAIN buffer' = DOMAIN buffer \cup {Len(buffer) + 1}
  /\ d[Len(buffer) + 1] = n /\ buffer'[Len(buffer) + 1] = store
  /\ \A i \in DOMAIN buffer :
       i \in Nat /\ i < Len(buffer) + 1 /\ d[i] = c[i] /\ buffer'[i] = buffer[i]

LEMMA Appended ==
  ASSUME TypeOK, NEW c \in [DOMAIN buffer -> Nat], NEW n \in Nat, NEW store \in StoreRecord,
         buffer' = Append(buffer, store)
  PROVE  \E d \in [DOMAIN buffer' -> Nat] : Joined(c, d, n, store)
<1> DEFINE m == Len(buffer) + 1
           d == [i \in 1 .. m |-> IF i = m THEN n ELSE c[i]]
<1>1. Len(buffer) \in Nat /\ DOMAIN buffer = 1 .. Len(buffer)
  BY BufferDomain
<1>2. /\ DOMAIN buffer' = 1 .. m
      /\ buffer'[m] = store
      /\ \A i \in 1 .. Len(buffer) : buffer'[i] = buffer[i]
  BY <1>1, AppendProperties DEF TypeOK, StoreRecord
<1>3. d \in [DOMAIN buffer' -> Nat]
  BY <1>1, <1>2
<1>4. d[m] = n /\ \A i \in 1 .. Len(buffer) : i \in Nat /\ i < m /\ d[i] = c[i]
  BY <1>1
<1>5. m \in Nat /\ 1 .. m = 1 .. Len(buffer) \cup {m}
  BY <1>1
<1> HIDE DEF d
<1>6. Joined(c, d, n, store)
  BY <1>1, <1>2, <1>3, <1>4, <1>5 DEF Joined
<1> QED  BY <1>3, <1>6

-----------------------------------------------------------------------------
(* The program. *)

(* Fill puts its entry in a slot whose entry has been taken: this is where *)
(* the window matters.                                                     *)
LEMMA FillStep ==
  ASSUME TypeOK, Kept, NEW s \in Index, NEW v \in Nat, NEW h \in Nat, NEW l \in Nat,
         NEW c \in [DOMAIN buffer -> Nat], Ring(s, v, h, l, c), Fill
  PROVE  IInv'
<1> USE DEF Ring, Ordered
<1>1. Published = submitted /\ Published' = submitted /\ submitted' = submitted + 1
  BY DEF Fill, Published, TypeOK
<1>9. /\ UNCHANGED <<taken, posted, reported>>
      /\ submitted - Done[Len(reported)] < Window /\ Done' = Done
  <2>1. Outstanding = submitted - Done[Len(reported)]
    BY PostCounts DEF Chain
  <2>2. UNCHANGED <<taken, posted, reported>> /\ Outstanding < Window
    BY DEF Fill, kernel
  <2> QED  BY <2>1, <2>2 DEF Done
<1>11. /\ Done[Len(reported)] \in Nat /\ Done[l] \in Nat /\ Done[Len(posted)] \in Nat
       /\ Done[Len(reported)] <= Done[Len(posted)]
  <2>1. l \in Nat /\ l <= Len(posted) /\ Len(reported) \in Nat /\ Len(reported) <= Len(posted)
    BY Numbers DEF Chain
  <2>2. Len(posted) \in Nat /\ Len(posted) <= Len(posted)
    BY Numbers
  <2> HIDE DEF Ring
  <2> QED  BY <2>1, <2>2, CountsGrow
<1>2. Slot(sqTail) \in 0 .. Entries - 1
  <2>1. sqTail \in Int
    BY DEF TypeOK, Index
  <2> QED  BY <2>1, Sizes, Division DEF Slot
<1>3. TypeOK'
  <2>1. inDrain' \in BOOLEAN
    BY DEF Fill
  <2>2. byCalls' \in 0 .. FromCallbacks
    BY Numbers DEF Fill, TypeOK
  <2>3. submitted' \in 0 .. Submits /\ sqes' \in [0 .. Entries - 1 -> 0 .. Submits]
    BY <1>2, RingsAssumption DEF Fill, TypeOK
  <2> QED  BY <2>1, <2>2, <2>3 DEF Fill, TypeOK, kernel
<1>4. Kept'
  BY <1>9 DEF Fill, TypeOK, Kept, kernel
<1>5. Placed(s, v, h)'
  BY <1>1 DEF Fill, Placed, kernel, Plus
<1>6. Chain(v, h, l)'
  BY <1>1, <1>9 DEF Chain
<1>10. Fits(v, h, l)'
  <2>1. submitted' - Done'[Len(reported)'] <= Window
    BY <1>1, <1>9, <1>11, Numbers
  <2>2. CASE pc = "idle"
    <3>1. pc' = "publish" /\ ~inDrain'
      BY <2>2 DEF Fill
    <3>2. ~Draining /\ ~Draining'
      BY <2>2, <3>1 DEF Draining
    <3> QED  BY <3>2, <2>1, <1>9 DEF Fits
  <2>3. CASE pc = "drain"
    <3>1. pc' = "publish" /\ inDrain'
      BY <2>3 DEF Fill
    <3>2. Draining /\ Draining' /\ byCalls' = byCalls + 1
      BY <2>3, <3>1 DEF Draining, Fill
    <3>3. submitted' <= Done[l] + Window + byCalls'
      <4>1. submitted <= Done[l] + Window + byCalls
        BY <3>2 DEF Fits
      <4>2. submitted \in Nat /\ byCalls \in Nat /\ Window \in Nat
        BY Numbers
      <4>3. submitted' = submitted + 1 /\ byCalls' = byCalls + 1
        BY <3>2, <1>1
      <4> HIDE DEF Ring
      <4>4. submitted + 1 <= Done[l] + Window + (byCalls + 1)
        BY <4>1, <4>2, <1>11
      <4> QED  BY <4>4, <4>3
    <3> QED  BY <3>2, <3>3, <2>1, <1>9 DEF Fits
  <2> QED  BY <2>2, <2>3 DEF Fill
<1>7. Buffered(s, v, h, l, c)'
  BY <1>1, <1>9 DEF Fill, Buffered, Values, Tails, Heads, Sorted, LastHead, kernel, Plus
<1>8. Contents(s)'
  <2>1. ASSUME NEW n \in Len(taken) + 1 .. submitted + 1
        PROVE  sqes'[Plus(s, n - 1) % Entries] = n
    <3>1. /\ n \in Nat /\ n - 1 \in Nat /\ submitted \in Nat
          /\ n - 1 <= submitted /\ submitted - (n - 1) < Entries
      <4>1. n \in Nat /\ n - 1 \in Nat /\ Len(taken) <= n - 1 /\ n - 1 <= submitted
        BY Numbers
      <4>2. Done[Len(reported)] <= Len(taken)
        BY <1>11, Numbers DEF Chain
      <4>4. submitted \in Nat /\ Len(taken) \in Nat /\ Entries \in Nat
        BY Numbers, Sizes
      <4>3. submitted - Len(taken) < Entries
        <5>1. PICK d \in Nat : d = Done[Len(reported)]
          BY <1>11
        <5>2. d <= Len(taken) /\ submitted - d < Window
          BY <5>1, <4>2, <1>9
        <5> HIDE DEF Ring
        <5> QED  BY <5>2, <4>4, Numbers
      <4>5. submitted - (n - 1) < Entries
        BY <4>1, <4>3, <4>4
      <4> QED  BY <4>1, <4>4, <4>5
    <3>2. Slot(sqTail) = Plus(s, submitted) % Entries
      BY <1>1 DEF Slot, Placed
    <3>3. CASE n = submitted + 1
      BY <3>3, <3>2, <3>1, <1>2 DEF Fill, TypeOK
    <3>4. CASE n # submitted + 1
      <4>1. Plus(s, n - 1) % Entries # Plus(s, submitted) % Entries
        BY <3>1, <3>4, Sizes, Divides, SlotSame
      <4>2. n \in Len(taken) + 1 .. submitted
        BY <3>1, <3>4 DEF TypeOK
      <4>3. Plus(s, n - 1) % Entries \in 0 .. Entries - 1
        <5>1. Plus(s, n - 1) \in Int
          BY <3>1, PlusType DEF Index
        <5> QED  BY <5>1, Sizes, Division
      <4> QED  BY <4>1, <4>2, <4>3, <3>2 DEF Fill, TypeOK, Contents
    <3> QED  BY <3>3, <3>4
  <2> QED  BY <2>1, <1>1 DEF Fill, Contents, kernel, Plus
<1> QED
  <2>1. Ring(s, v, h, l, c)' /\ c \in [DOMAIN buffer' -> Nat]
    BY <1>5, <1>6, <1>10, <1>7, <1>8 DEF Fill
  <2> QED  BY <1>3, <1>4, <2>1 DEF IInv, Index

(* Publish stores a tail that is within the limit as far as the head that  *)
(* the program stored last goes: that head reaches memory first.           *)
LEMMA PublishStep ==
  ASSUME TypeOK, Kept, NEW s \in Index, NEW v \in Nat, NEW h \in Nat, NEW l \in Nat,
         NEW c \in [DOMAIN buffer -> Nat], Ring(s, v, h, l, c), Publish
  PROVE  IInv'
<1> USE DEF Ring, Ordered
<1>1. /\ pc = "publish" /\ pc' = "check"
      /\ UNCHANGED <<inDrain, byCalls, submitted, head, cqTail, sqHead, sqes, cqes, taken, posted,
                     reported>>
      /\ submitted >= 1
  BY DEF Publish, Kept, kernel
<1>9. Done' = Done /\ Done[l] \in Nat /\ Done[h] \in Nat
  <2>1. l \in Nat /\ l <= Len(posted) /\ h \in Nat /\ h <= Len(posted)
    BY Numbers DEF Chain
  <2>2. Done' = Done
    BY <1>1 DEF Done
  <2> HIDE DEF Ring
  <2> QED  BY <2>1, <2>2, CountsGrow
<1>2. Published = submitted - 1 /\ Published' = submitted
  BY <1>1 DEF Published
<1>3. Draining' = Draining
  BY <1>1 DEF Draining
<1>4. Plus(sqTail, 1) = Plus(s, submitted) /\ Plus(s, submitted) \in Index
  <2>1. submitted - 1 \in Nat /\ (submitted - 1) + 1 = submitted /\ submitted \in Nat
    BY <1>1, Numbers
  <2>2. Plus(Plus(s, submitted - 1), 1) = Plus(s, (submitted - 1) + 1)
    BY <2>1, PlusNext
  <2> QED  BY <2>1, <2>2, <1>2, PlusType DEF Placed
<1>5. submitted <= Done[l] + Window + FromCallbacks
  <2>1. CASE Draining
    <3>1. submitted <= Done[l] + Window + byCalls
      BY <2>1 DEF Fits
    <3> QED  BY <3>1, <1>9, Numbers
  <2>2. CASE ~Draining
    <3>1. submitted - Done[l] <= Window
      BY <2>2 DEF Fits
    <3> QED  BY <3>1, <1>9, Numbers
  <2> QED  BY <2>1, <2>2
<1>6. Contents(s)'
  BY <1>1 DEF Contents, Plus
<1>7. CASE delays
  <2> DEFINE m == Len(buffer) + 1
             store == [to |-> "tail", val |-> Plus(s, submitted)]
  <2>1. /\ buffer' = Append(buffer, store) /\ UNCHANGED <<delays, tailSeen, headSeen>>
        /\ sqTail' = Plus(s, submitted)
    BY <1>7, <1>4 DEF Publish, Store
  <2>2. store \in [to : {"tail", "head"}, val : Index]
    BY <1>4
  <2>3. TypeOK'
    BY <1>4, <2>1, <2>2 DEF Publish, TypeOK, kernel
  <2>4. Kept'
    BY <1>7, <1>9, <2>1 DEF Publish, Kept, kernel
  <2>5. Placed(s, v, h)'
    BY <1>1, <1>2, <2>1 DEF Placed, Plus
  <2>6. Chain(v, h, l)'
    BY <1>1, <1>2, <1>9, Numbers DEF Chain
  <2>7. Fits(v, h, l)'
    BY <1>1, <1>3, <1>9 DEF Fits
  <2> HIDE DEF store
  <2>8. PICK d \in [DOMAIN buffer' -> Nat] : Joined(c, d, submitted, store)
    <3>1. buffer' = Append(buffer, store) /\ submitted \in Nat
      BY <2>1, Numbers
    <3> QED  BY <2>2, <3>1, Appended DEF StoreRecord
  <2>16. /\ m \in Nat /\ DOMAIN buffer' = DOMAIN buffer \cup {m}
        /\ d[m] = submitted /\ buffer'[m] = store
        /\ \A i \in DOMAIN buffer :
             i \in Nat /\ i < m /\ d[i] = c[i] /\ buffer'[i] = buffer[i]
    BY <2>8 DEF Joined
  <2>9. buffer'[m].val = Plus(s, submitted) /\ buffer'[m].to = "tail"
    BY <2>16 DEF store
  <2> HIDE DEF m
  <2>10. Values(s, d)'
    BY <2>16, <2>9 DEF Buffered, Values, Plus
  <2>11. Tails(v, h, d)'
    <3>1. DOMAIN buffer = 1 .. Len(buffer) /\ Len(buffer) \in Nat /\ m = Len(buffer) + 1
      BY BufferDomain DEF m
    <3>2. ASSUME NEW i \in DOMAIN buffer, buffer[i].to = "tail"
          PROVE  /\ v <= d[i] /\ d[i] <= submitted
                 /\ \/ d[i] <= Done[h] + Window + FromCallbacks
                    \/ \E j \in 1 .. i - 1 :
                         buffer'[j].to = "head" /\ d[i] <= Done[d[j]] + Window + FromCallbacks
      <4>1. \A j \in 1 .. i - 1 : j \in DOMAIN buffer
        BY <3>1
      <4>2. d[i] = c[i] /\ c[i] \in Nat /\ v <= c[i] /\ c[i] <= submitted - 1
        BY <2>16, <3>2, <1>2 DEF Buffered, Tails
      <4>3. d[i] <= submitted
        BY <4>2, Numbers
      <4> QED  BY <4>1, <4>2, <4>3, <3>2, <2>16 DEF Buffered, Tails
    <3>3. v <= submitted
      BY <1>2, Numbers DEF Chain
    <3>4. \/ submitted <= Done[h] + Window + FromCallbacks
          \/ \E j \in 1 .. m - 1 :
               buffer'[j].to = "head" /\ submitted <= Done[d[j]] + Window + FromCallbacks
      <4>1. CASE l = h
        BY <4>1, <1>5
      <4>2. CASE \E j \in DOMAIN buffer : buffer[j].to = "head" /\ c[j] = l
        <5>1. PICK j \in DOMAIN buffer : buffer[j].to = "head" /\ c[j] = l
          BY <4>2
        <5>2. j \in 1 .. m - 1
          BY <3>1
        <5> QED  BY <5>1, <5>2, <2>16, <1>5
      <4> QED  BY <4>1, <4>2 DEF Buffered, LastHead
    <3> QED  BY <3>2, <3>3, <3>4, <2>16, <2>9, <1>2, <1>9 DEF Tails
  <2>12. Heads(h, l, d)'
    BY <2>16, <2>9 DEF Buffered, Heads
  <2>13. Sorted(d)'
    BY <2>16, <2>9, <1>1, <1>2, Numbers DEF Buffered, Sorted, Tails
  <2>14. LastHead(h, l, d)'
    BY <2>16, <2>9 DEF Buffered, LastHead
  <2>15. Ring(s, v, h, l, d)'
    BY <2>5, <2>6, <2>7, <2>10, <2>11, <2>12, <2>13, <2>14, <1>6 DEF Buffered
  <2> QED  BY <2>3, <2>4, <2>15 DEF IInv, Index
<1>8. CASE ~delays
  <2>1. /\ tailSeen' = Plus(s, submitted) /\ UNCHANGED <<delays, headSeen, buffer>>
        /\ sqTail' = Plus(s, submitted)
    BY <1>8, <1>4 DEF Publish, Store
  <2>2. buffer = <<>> /\ l = h
    BY <1>8 DEF Kept, Buffered, LastHead
  <2>3. TypeOK'
    BY <1>4, <2>1 DEF Publish, TypeOK, kernel
  <2>4. Kept'
    BY <1>8, <1>9, <2>1, <2>2 DEF Publish, Kept, kernel
  <2>5. PICK w \in Nat : w = submitted
    BY Numbers
  <2>6. Placed(s, w, h)'
    BY <1>1, <1>2, <2>1, <2>5 DEF Placed, Plus
  <2>7. Chain(w, h, l)'
    BY <1>1, <1>2, <1>9, <2>5, Numbers DEF Chain
  <2>8. Fits(w, h, l)'
    BY <1>1, <1>3, <1>5, <1>9, <2>2, <2>5 DEF Fits
  <2>9. Buffered(s, w, h, l, c)'
    BY <2>1, <2>2 DEF Buffered, Values, Tails, Heads, Sorted, LastHead
  <2>10. Ring(s, w, h, l, c)'
    BY <2>6, <2>7, <2>8, <2>9, <1>6
  <2>11. s \in Index' /\ c \in [DOMAIN buffer' -> Nat]
    BY <2>1 DEF Index
  <2> HIDE DEF Ring
  <2> QED  BY <2>3, <2>4, <2>10, <2>11 DEF IInv
<1> QED  BY <1>7, <1>8

(* Check returns to where AddToSQE was called from, and what is in the     *)
(* rings stays as it is.                                                   *)
LEMMA CheckStep ==
  ASSUME TypeOK, Kept, NEW s \in Index, NEW v \in Nat, NEW h \in Nat, NEW l \in Nat,
         NEW c \in [DOMAIN buffer -> Nat], Ring(s, v, h, l, c), Check
  PROVE  IInv'
<1> USE DEF Ring, Ordered
<1>1. /\ pc = "check"
      /\ UNCHANGED <<delays, inDrain, byCalls, sqTail, submitted, head, cqTail, sqHead, sqes, cqes,
                     taken, posted, reported, inFlight, overflow, buffer, tailSeen, headSeen>>
  BY DEF Check
<1>2. pc' = IF inDrain THEN "drain" ELSE "idle"
  BY DEF Check
<1>3. Published = submitted /\ Published' = submitted
  BY <1>1, <1>2 DEF Published
<1>13. Done' = Done
  BY <1>1 DEF Done
<1>4. Draining' = Draining
  <2>1. CASE inDrain
    BY <2>1, <1>1, <1>2 DEF Draining
  <2>2. CASE ~inDrain
    BY <2>2, <1>1, <1>2 DEF Draining
  <2> QED  BY <2>1, <2>2
<1>5. TypeOK'
  <2>1. thread' \in {"polling", "dozing", "asleep"}
    BY DEF Check, TypeOK
  <2>2. needWakeup' \in BOOLEAN
    BY DEF Check, TypeOK
  <2>3. unwoken' \in BOOLEAN
    BY DEF Check, TypeOK
  <2> QED  BY <1>1, <1>2, <2>1, <2>2, <2>3 DEF TypeOK
<1>6. Kept'
  BY <1>1, <1>2, <1>13 DEF Kept
<1>7. Placed(s, v, h)'
  BY <1>1, <1>3 DEF Placed, Plus
<1>8. Chain(v, h, l)'
  BY <1>1, <1>3, <1>13 DEF Chain
<1>9. Fits(v, h, l)'
  BY <1>1, <1>4, <1>13 DEF Fits
<1>10. Buffered(s, v, h, l, c)'
  BY <1>1, <1>3, <1>13 DEF Buffered, Values, Tails, Heads, Sorted, LastHead, Plus
<1>11. Contents(s)'
  BY <1>1 DEF Contents, Plus
<1>12. Ring(s, v, h, l, c)' /\ c \in [DOMAIN buffer' -> Nat]
  BY <1>1, <1>7, <1>8, <1>9, <1>10, <1>11
<1> QED  BY <1>5, <1>6, <1>12 DEF IInv, Index

(* BeginDrain counts the entries its callbacks submit from none. *)
LEMMA BeginDrainStep ==
  ASSUME TypeOK, Kept, NEW s \in Index, NEW v \in Nat, NEW h \in Nat, NEW l \in Nat,
         NEW c \in [DOMAIN buffer -> Nat], Ring(s, v, h, l, c), BeginDrain
  PROVE  IInv'
<1> USE DEF Ring, Ordered
<1>1. /\ pc = "idle" /\ pc' = "drain" /\ byCalls' = 0
      /\ UNCHANGED <<delays, inDrain, sqTail, submitted, head, cqTail, sqHead, sqes, cqes, unwoken,
                     taken, posted, reported, inFlight, overflow, buffer, tailSeen, headSeen,
                     thread, needWakeup>>
  BY DEF BeginDrain, kernel
<1>2. Published = submitted /\ Published' = submitted
  BY <1>1 DEF Published
<1>12. Done' = Done /\ Done[l] \in Nat
  <2>1. l \in Nat /\ l <= Len(posted)
    BY Numbers DEF Chain
  <2>2. Done' = Done
    BY <1>1 DEF Done
  <2> HIDE DEF Ring
  <2> QED  BY <2>1, <2>2, CountsGrow
<1>3. ~Draining /\ Draining'
  BY <1>1 DEF Draining
<1>4. TypeOK'
  BY <1>1, Numbers DEF TypeOK
<1>5. Kept'
  BY <1>1, <1>12 DEF Kept
<1>6. Placed(s, v, h)'
  BY <1>1, <1>2 DEF Placed, Plus
<1>7. Chain(v, h, l)'
  BY <1>1, <1>2, <1>12 DEF Chain
<1>8. Fits(v, h, l)'
  <2>1. submitted - Done[l] <= Window
    BY <1>3 DEF Fits
  <2>2. submitted <= Done[l] + Window + 0
    BY <2>1, <1>12, Numbers
  <2> QED  BY <1>1, <1>3, <1>12, <2>2 DEF Fits
<1>9. Buffered(s, v, h, l, c)'
  BY <1>1, <1>2, <1>12 DEF Buffered, Values, Tails, Heads, Sorted, LastHead, Plus
<1>10. Contents(s)'
  BY <1>1 DEF Contents, Plus
<1>11. Ring(s, v, h, l, c)' /\ c \in [DOMAIN buffer' -> Nat]
  BY <1>1, <1>6, <1>7, <1>8, <1>9, <1>10
<1> QED  BY <1>4, <1>5, <1>11 DEF IInv, Index

(* Report delivers the entry at the head, which is there and is the next   *)
(* one that was posted.                                                    *)
LEMMA ReportStep ==
  ASSUME TypeOK, Kept, NEW s \in Index, NEW v \in Nat, NEW h \in Nat, NEW l \in Nat,
         NEW c \in [DOMAIN buffer -> Nat], Ring(s, v, h, l, c), Report
  PROVE  IInv'
<1> USE DEF Ring, Ordered
<1> DEFINE r == Len(reported)
<1>1. /\ pc = "drain"
      /\ UNCHANGED <<delays, pc, inDrain, byCalls, sqTail, submitted, cqTail, sqHead, sqes, cqes,
                     unwoken, taken, posted, inFlight, overflow, buffer, tailSeen, headSeen,
                     thread, needWakeup>>
      /\ reported' = Append(reported, cqes[head % CqEntries])
      /\ head' = Plus(head, 1)
  BY DEF Report, kernel
<1>2. Published = submitted /\ Published' = submitted
  BY <1>1 DEF Published
<1>3. Draining' = Draining
  BY <1>1 DEF Draining
<1>4. r \in Nat /\ Len(posted) \in Nat /\ r < Len(posted)
  <2>1. Plus(s, r) # Plus(s, Len(posted))
    BY DEF Report, More, Placed
  <2> QED  BY <2>1, Numbers DEF Chain
<1>5. cqes[head % CqEntries] = posted[r + 1] /\ posted[r + 1] \in Completion
  <2>1. r + 1 \in r + 1 .. Len(posted) /\ (r + 1) - 1 = r /\ r + 1 \in 1 .. Len(posted)
    BY <1>4
  <2>2. cqes[Plus(s, (r + 1) - 1) % CqEntries] = posted[r + 1]
    BY <2>1 DEF Contents
  <2>3. posted[r + 1] \in Completion
    BY <2>1, ElementOfSeq DEF TypeOK
  <2> QED  BY <2>1, <2>2, <2>3 DEF Placed
<1>6. /\ reported' \in Seq(Completion) /\ Len(reported') = r + 1
      /\ reported'[r + 1] = posted[r + 1] /\ \A n \in 1 .. r : reported'[n] = reported[n]
      /\ DOMAIN reported' = 1 .. r + 1 /\ DOMAIN reported = 1 .. r
  BY <1>1, <1>5, AppendProperties, LenProperties DEF TypeOK
<1>7. head' = Plus(s, r + 1) /\ Plus(s, r + 1) \in Index
  <2>1. r + 1 \in Nat
    BY <1>4
  <2> QED  BY <2>1, <1>1, <1>4, PlusNext, PlusType DEF Placed
<1>8. TypeOK'
  BY <1>1, <1>6, <1>7 DEF TypeOK
<1>16. /\ Done' = Done /\ Done[r] \in Nat /\ Done[r + 1] \in Nat
       /\ Done[r] <= Done[r + 1]
  <2>1. r + 1 \in Nat /\ r <= r + 1 /\ r + 1 <= Len(posted)
    BY <1>4
  <2> HIDE DEF r
  <2>2. Done[r] \in Nat /\ Done[r + 1] \in Nat /\ Done[r] <= Done[r + 1]
    BY <2>1, <1>4, Counting
  <2> QED  BY <2>2, <1>1 DEF Done
<1>9. Kept'
  <2>1. \A n \in 1 .. r + 1 : n = r + 1 \/ n \in 1 .. r
    BY <1>4
  <2>2. \A n \in DOMAIN reported' : reported'[n] = posted[n]
    BY <2>1, <1>6 DEF Kept
  <2> QED  BY <2>2, <1>1, <1>16 DEF Kept
<1>10. Placed(s, v, h)'
  BY <1>1, <1>2, <1>6, <1>7 DEF Placed, Plus
<1> HIDE DEF r
<1>11. Chain(v, h, l)'
  <2>1. l <= r + 1 /\ r + 1 <= Len(posted)
    BY <1>4 DEF Chain, r
  <2> QED  BY <2>1, <1>1, <1>2, <1>6, <1>16 DEF Chain
<1>12. Fits(v, h, l)'
  <2>1. Draining
    BY <1>1 DEF Draining
  <2>2. submitted - Done[r + 1] <= Window
    BY <1>4, <1>16, Numbers DEF Fits, r
  <2> QED  BY <2>1, <2>2, <1>1, <1>3, <1>6, <1>16 DEF Fits
<1>13. Buffered(s, v, h, l, c)'
  BY <1>1, <1>2, <1>16 DEF Buffered, Values, Tails, Heads, Sorted, LastHead, Plus
<1>14. Contents(s)'
  <2>1. \A n \in (r + 1) + 1 .. Len(posted) : n \in r + 1 .. Len(posted)
    BY <1>4
  <2> QED  BY <2>1, <1>1, <1>6 DEF Contents, Plus, r
<1>15. Ring(s, v, h, l, c)' /\ c \in [DOMAIN buffer' -> Nat]
  BY <1>1, <1>10, <1>11, <1>12, <1>13, <1>14
<1> QED  BY <1>8, <1>9, <1>15 DEF IInv, Index

(* EndDrain stores the head, which may wait in the buffer: what is         *)
(* submitted from now on is stored after it.                               *)
LEMMA EndDrainStep ==
  ASSUME TypeOK, Kept, NEW s \in Index, NEW v \in Nat, NEW h \in Nat, NEW l \in Nat,
         NEW c \in [DOMAIN buffer -> Nat], Ring(s, v, h, l, c), EndDrain
  PROVE  IInv'
<1> USE DEF Ring, Ordered
<1>0. PICK r \in Nat : r = Len(reported)
  BY Numbers
<1>1. /\ pc = "drain" /\ pc' = "idle"
      /\ UNCHANGED <<delays, inDrain, byCalls, sqTail, submitted, head, cqTail, sqHead, sqes, cqes,
                     unwoken, taken, posted, reported, inFlight, overflow, thread, needWakeup>>
  BY DEF EndDrain, Store, kernel
<1>2. Published = submitted /\ Published' = submitted
  BY <1>1 DEF Published
<1>3. ~Draining'
  BY <1>1 DEF Draining
<1>4. head = Plus(s, r) /\ Plus(s, r) \in Index
  BY <1>0, PlusType DEF Placed
<1>5. l <= r /\ h <= l /\ h <= r
  BY <1>0 DEF Chain
<1>9. Done' = Done /\ Done[h] \in Nat /\ Done[r] \in Nat /\ Done[h] <= Done[r]
  <2>1. h \in Nat /\ h <= r /\ r <= Len(posted) /\ h <= Len(posted)
    BY <1>0, <1>5, Numbers DEF Chain
  <2>2. Done' = Done
    BY <1>1 DEF Done
  <2> HIDE DEF Ring
  <2> QED  BY <2>1, <2>2, CountsGrow
<1>6. Contents(s)'
  BY <1>1 DEF Contents, Plus
<1>7. CASE delays
  <2> DEFINE m == Len(buffer) + 1
             store == [to |-> "head", val |-> Plus(s, r)]
  <2>1. buffer' = Append(buffer, store) /\ UNCHANGED <<tailSeen, headSeen>>
    BY <1>7, <1>4 DEF EndDrain, Store, HeadStored
  <2>2. store \in StoreRecord
    BY <1>4 DEF StoreRecord
  <2>3. TypeOK'
    BY <1>1, <2>1, <2>2 DEF TypeOK, StoreRecord
  <2>4. Kept'
    BY <1>7, <1>1, <1>9, <2>1 DEF Kept
  <2>5. Placed(s, v, h)'
    BY <1>1, <1>2, <2>1 DEF Placed, Plus
  <2>6. Chain(v, h, r)'
    BY <1>0, <1>1, <1>2, <1>5, <1>9 DEF Chain
  <2>7. Fits(v, h, r)'
    BY <1>0, <1>1, <1>3, <1>9 DEF Fits
  <2> HIDE DEF store
  <2>8. PICK d \in [DOMAIN buffer' -> Nat] : Joined(c, d, r, store)
    BY <2>1, <2>2, Appended
  <2>9. /\ m \in Nat /\ DOMAIN buffer' = DOMAIN buffer \cup {m}
        /\ d[m] = r /\ buffer'[m] = store
        /\ \A i \in DOMAIN buffer :
             i \in Nat /\ i < m /\ d[i] = c[i] /\ buffer'[i] = buffer[i]
    BY <2>8 DEF Joined
  <2>10. buffer'[m].val = Plus(s, r) /\ buffer'[m].to = "head"
    BY <2>9 DEF store
  <2> HIDE DEF m
  <2>11. Values(s, d)'
    BY <2>9, <2>10 DEF Buffered, Values, Plus
  <2>12. Tails(v, h, d)'
    <3>1. ASSUME NEW i \in DOMAIN buffer, buffer[i].to = "tail"
          PROVE  /\ v <= d[i] /\ d[i] <= submitted
                 /\ \/ d[i] <= Done[h] + Window + FromCallbacks
                    \/ \E j \in 1 .. i - 1 :
                         buffer'[j].to = "head" /\ d[i] <= Done[d[j]] + Window + FromCallbacks
      <4>1. \A j \in 1 .. i - 1 : j \in DOMAIN buffer
        BY BufferDomain
      <4> QED  BY <4>1, <3>1, <2>9, <1>2 DEF Buffered, Tails
    <3> QED  BY <3>1, <2>9, <2>10, <1>2, <1>9 DEF Tails
  <2>13. Heads(h, r, d)'
    <3>1. \A i \in DOMAIN buffer : buffer[i].to = "head" => h <= c[i] /\ c[i] <= r
      BY <1>5 DEF Buffered, Heads
    <3> QED  BY <3>1, <2>9, <2>10, <1>5 DEF Heads
  <2>14. Sorted(d)'
    <3>1. \A i \in DOMAIN buffer : buffer[i].to = "head" => c[i] <= r
      BY <1>5 DEF Buffered, Heads
    <3> QED  BY <3>1, <2>9, <2>10 DEF Buffered, Sorted
  <2>15. LastHead(h, r, d)'
    BY <2>9, <2>10 DEF LastHead
  <2>16. Ring(s, v, h, r, d)'
    BY <2>5, <2>6, <2>7, <2>11, <2>12, <2>13, <2>14, <2>15, <1>6 DEF Buffered
  <2> HIDE DEF Ring
  <2> QED  BY <2>3, <2>4, <2>16 DEF IInv, Index
<1>8. CASE ~delays
  <2>1. headSeen' = Plus(s, r) /\ UNCHANGED <<tailSeen, buffer>>
    BY <1>8, <1>4 DEF EndDrain, Store, HeadStored
  <2>2. buffer = <<>>
    BY <1>8 DEF Kept
  <2>3. TypeOK'
    BY <1>1, <1>4, <2>1 DEF TypeOK
  <2>4. Kept'
    BY <1>8, <1>1, <1>9, <2>1, <2>2 DEF Kept
  <2>5. Placed(s, v, r)'
    BY <1>0, <1>1, <1>2, <2>1 DEF Placed, Plus
  <2>6. Chain(v, r, r)'
    <3>1. Len(posted) <= r + CqEntries
      BY <1>5, Numbers, Sizes DEF Chain
    <3> QED  BY <3>1, <1>0, <1>1, <1>2, <1>9 DEF Chain
  <2>7. Fits(v, r, r)'
    <3>1. v <= Done[r] + Window + FromCallbacks
      <4> DEFINE x == Done[h]
                 y == Done[r]
      <4>1. x \in Nat /\ y \in Nat /\ x <= y /\ Window \in Nat /\ FromCallbacks \in Nat
        BY <1>9, Numbers
      <4>2. v <= x + Window + FromCallbacks /\ v \in Nat
        BY DEF Fits
      <4> HIDE DEF x, y, Ring
      <4>3. v <= y + Window + FromCallbacks
        BY ONLY <4>1, <4>2
      <4> QED  BY <4>3 DEF y
    <3> QED  BY <3>1, <1>0, <1>1, <1>3, <1>9 DEF Fits
  <2>8. Buffered(s, v, r, r, c)'
    BY <2>1, <2>2 DEF Buffered, Values, Tails, Heads, Sorted, LastHead
  <2>9. Ring(s, v, r, r, c)'
    BY <2>5, <2>6, <2>7, <2>8, <1>6
  <2>10. s \in Index' /\ c \in [DOMAIN buffer' -> Nat]
    BY <2>1 DEF Index
  <2> HIDE DEF Ring
  <2> QED  BY <2>3, <2>4, <2>9, <2>10 DEF IInv
<1> QED  BY <1>7, <1>8

(* Flush takes the oldest store of the buffer to memory. A tail is within  *)
(* the limit by then, since no head is before it.                          *)
LEMMA FlushStep ==
  ASSUME TypeOK, Kept, NEW s \in Index, NEW v \in Nat, NEW h \in Nat, NEW l \in Nat,
         NEW c \in [DOMAIN buffer -> Nat], Ring(s, v, h, l, c), Flush
  PROVE  IInv'
<1> USE DEF Ring, Ordered
<1>1. /\ UNCHANGED <<delays, pc, inDrain, byCalls, sqTail, submitted, head, cqTail, sqHead, sqes,
                     cqes, unwoken, taken, posted, reported, inFlight, overflow, thread,
                     needWakeup>>
      /\ buffer # <<>> /\ buffer' = Tail(buffer)
      /\ tailSeen' = IF buffer[1].to = "tail" THEN buffer[1].val ELSE tailSeen
      /\ headSeen' = IF buffer[1].to = "head" THEN buffer[1].val ELSE headSeen
  BY DEF Flush, program, kernel
<1>2. Published' = Published /\ Draining' = Draining
  BY <1>1 DEF Published, Draining
<1>17. Done' = Done
  BY <1>1 DEF Done
<1>3. Len(buffer) \in Nat /\ DOMAIN buffer = 1 .. Len(buffer) /\ 1 \in DOMAIN buffer
  BY <1>1, EmptySeq, LenProperties DEF TypeOK
<1>4. buffer[1] \in StoreRecord /\ buffer' \in Seq(StoreRecord)
  BY <1>1, <1>3, ElementOfSeq, HeadTailProperties DEF TypeOK, StoreRecord
<1>5. PICK k \in Nat : k = c[1]
  BY <1>3
<1>6. /\ DOMAIN buffer' = 1 .. Len(buffer) - 1
      /\ \A i \in 1 .. Len(buffer) - 1 : buffer'[i] = buffer[i + 1]
  BY <1>1, HeadTailProperties, LenProperties DEF TypeOK
<1>7. PICK d \in [DOMAIN buffer' -> Nat] : \A i \in DOMAIN buffer' : d[i] = c[i + 1]
  <2> DEFINE e == [i \in 1 .. Len(buffer) - 1 |-> c[i + 1]]
  <2>1. e \in [DOMAIN buffer' -> Nat] /\ \A i \in DOMAIN buffer' : e[i] = c[i + 1]
    BY <1>3, <1>6
  <2> HIDE DEF e
  <2> QED  BY <2>1
<1>8. \A i \in DOMAIN buffer' :
        /\ i \in Nat /\ i + 1 \in DOMAIN buffer /\ 1 < i + 1
        /\ d[i] = c[i + 1] /\ buffer'[i] = buffer[i + 1]
  BY <1>3, <1>6, <1>7
<1>9. \A j \in DOMAIN buffer : j # 1 =>
        /\ j - 1 \in DOMAIN buffer' /\ d[j - 1] = c[j] /\ buffer'[j - 1] = buffer[j]
  BY <1>3, <1>6, <1>7
<1>10. Kept'
  <2>1. delays
    BY <1>1 DEF Kept
  <2> QED  BY <2>1, <1>1, <1>17 DEF Kept
<1>11. TypeOK'
  <2>1. tailSeen' \in Index
    BY <1>1, <1>4 DEF TypeOK, StoreRecord
  <2>2. headSeen' \in Index
    BY <1>1, <1>4 DEF TypeOK, StoreRecord
  <2> QED  BY <1>1, <1>4, <2>1, <2>2 DEF TypeOK, StoreRecord, Index
<1>12. Values(s, d)'
  BY <1>8 DEF Buffered, Values, Plus
<1>13. Sorted(d)'
  <2>1. ASSUME NEW i \in DOMAIN buffer', NEW j \in DOMAIN buffer', i < j,
               buffer'[i].to = buffer'[j].to
        PROVE  d[i] <= d[j]
    <3>1. i + 1 < j + 1 /\ i + 1 \in DOMAIN buffer /\ j + 1 \in DOMAIN buffer
      BY <2>1, <1>8
    <3> QED  BY <3>1, <2>1, <1>8 DEF Buffered, Sorted
  <2> QED  BY <2>1 DEF Sorted
<1>14. Contents(s)'
  BY <1>1 DEF Contents, Plus
<1>15. CASE buffer[1].to = "tail"
  <2>1. /\ tailSeen' = Plus(s, k) /\ UNCHANGED headSeen
        /\ v <= k /\ k <= Published /\ k <= Done[h] + Window + FromCallbacks
    BY <1>1, <1>3, <1>5, <1>15 DEF Buffered, Values, Tails
  <2>2. Placed(s, k, h)'
    BY <1>1, <1>2, <2>1 DEF Placed, Plus
  <2>3. Chain(k, h, l)'
    <3>1. Len(taken) <= k
      BY <2>1, Numbers DEF Chain
    <3> QED  BY <3>1, <1>1, <1>2, <1>17, <2>1 DEF Chain
  <2>4. Fits(k, h, l)'
    BY <1>1, <1>2, <1>17, <2>1 DEF Fits
  <2>5. Tails(k, h, d)'
    <3>1. ASSUME NEW i \in DOMAIN buffer', buffer'[i].to = "tail"
          PROVE  /\ k <= d[i] /\ d[i] <= Published
                 /\ \/ d[i] <= Done[h] + Window + FromCallbacks
                    \/ \E j \in 1 .. i - 1 :
                         buffer'[j].to = "head" /\ d[i] <= Done[d[j]] + Window + FromCallbacks
      <4>1. k <= d[i]
        BY <3>1, <1>3, <1>5, <1>8, <1>15 DEF Buffered, Sorted
      <4>2. /\ d[i] <= Published
            /\ \/ d[i] <= Done[h] + Window + FromCallbacks
               \/ \E j \in 1 .. (i + 1) - 1 :
                    buffer[j].to = "head" /\ d[i] <= Done[c[j]] + Window + FromCallbacks
        BY <3>1, <1>8 DEF Buffered, Tails
      <4>3. ASSUME NEW j \in 1 .. (i + 1) - 1, buffer[j].to = "head"
            PROVE  j - 1 \in 1 .. i - 1 /\ d[j - 1] = c[j] /\ buffer'[j - 1] = buffer[j]
        <5>1. i \in Nat /\ i + 1 \in 1 .. Len(buffer) /\ j # 1
          BY <1>8, <1>3, <1>15, <4>3
        <5>2. j \in DOMAIN buffer /\ j - 1 \in 1 .. i - 1
          BY <5>1, <1>3
        <5> QED  BY <5>1, <5>2, <1>9
      <4> QED  BY <4>1, <4>2, <4>3
    <3> QED  BY <3>1, <1>2, <1>17 DEF Tails
  <2>6. Heads(h, l, d)'
    BY <1>8 DEF Buffered, Heads
  <2>7. LastHead(h, l, d)'
    <3>1. ASSUME NEW j \in DOMAIN buffer, buffer[j].to = "head", c[j] = l
          PROVE  j - 1 \in DOMAIN buffer' /\ buffer'[j - 1].to = "head" /\ d[j - 1] = l
      BY <3>1, <1>9, <1>15
    <3> QED  BY <3>1 DEF Buffered, LastHead
  <2>8. Ring(s, k, h, l, d)'
    BY <2>2, <2>3, <2>4, <2>5, <2>6, <2>7, <1>12, <1>13, <1>14 DEF Buffered
  <2> HIDE DEF Ring
  <2> QED  BY <2>8, <1>7, <1>10, <1>11 DEF IInv, Index
<1>16. CASE buffer[1].to = "head"
  <2>1. /\ headSeen' = Plus(s, k) /\ UNCHANGED tailSeen
        /\ h <= k /\ k <= l
    BY <1>1, <1>3, <1>5, <1>16 DEF Buffered, Values, Heads
  <2>9. Done[h] \in Nat /\ Done[k] \in Nat /\ Done[h] <= Done[k]
    <3>1. k <= Len(posted)
      BY <2>1, Numbers DEF Chain
    <3> QED  BY <3>1, <2>1, Counting
  <2>2. Placed(s, v, k)'
    BY <1>1, <1>2, <2>1 DEF Placed, Plus
  <2>3. Chain(v, k, l)'
    <3>1. Len(posted) <= k + CqEntries
      BY <2>1, Numbers, Sizes DEF Chain
    <3> QED  BY <3>1, <1>1, <1>2, <1>17, <2>1 DEF Chain
  <2>4. Fits(v, k, l)'
    <3>1. v <= Done[k] + Window + FromCallbacks
      <4>1. v <= Done[h] + Window + FromCallbacks
        BY DEF Fits
      <4>2. Window \in Nat /\ FromCallbacks \in Nat
        BY Numbers
      <4> HIDE DEF Ring
      <4> QED  BY <4>1, <4>2, <2>9
    <3> QED  BY <3>1, <1>1, <1>2, <1>17 DEF Fits
  <2>5. Tails(v, k, d)'
    <3>1. ASSUME NEW i \in DOMAIN buffer', buffer'[i].to = "tail"
          PROVE  /\ v <= d[i] /\ d[i] <= Published
                 /\ \/ d[i] <= Done[k] + Window + FromCallbacks
                    \/ \E j \in 1 .. i - 1 :
                         buffer'[j].to = "head" /\ d[i] <= Done[d[j]] + Window + FromCallbacks
      <4>1. /\ v <= d[i] /\ d[i] <= Published /\ d[i] \in Nat
            /\ \/ d[i] <= Done[h] + Window + FromCallbacks
               \/ \E j \in 1 .. (i + 1) - 1 :
                    buffer[j].to = "head" /\ d[i] <= Done[c[j]] + Window + FromCallbacks
        BY <3>1, <1>7, <1>8 DEF Buffered, Tails
      <4>2. CASE d[i] <= Done[h] + Window + FromCallbacks
        <5>1. d[i] <= Done[k] + Window + FromCallbacks
          <6>1. Window \in Nat /\ FromCallbacks \in Nat /\ d[i] \in Nat
            BY <4>1, Numbers
          <6> HIDE DEF Ring
          <6> QED  BY <6>1, <4>2, <2>9
        <5> QED  BY <5>1, <4>1
      <4>3. ASSUME NEW j \in 1 .. (i + 1) - 1, buffer[j].to = "head",
                   d[i] <= Done[c[j]] + Window + FromCallbacks
            PROVE  \/ d[i] <= Done[k] + Window + FromCallbacks
                   \/ \E n \in 1 .. i - 1 :
                        buffer'[n].to = "head" /\ d[i] <= Done[d[n]] + Window + FromCallbacks
        <5>1. CASE j = 1
          BY <5>1, <4>3, <1>5
        <5>2. CASE j # 1
          <6>1. i \in Nat /\ i + 1 \in 1 .. Len(buffer)
            BY <1>8, <1>3
          <6>2. j \in DOMAIN buffer /\ j - 1 \in 1 .. i - 1
            BY <6>1, <5>2, <1>3
          <6> QED  BY <6>2, <5>2, <4>3, <1>9
        <5> QED  BY <5>1, <5>2
      <4> QED  BY <4>1, <4>2, <4>3
    <3> QED  BY <3>1, <1>2, <1>17 DEF Tails
  <2>6. Heads(k, l, d)'
    <3>1. ASSUME NEW i \in DOMAIN buffer', buffer'[i].to = "head"
          PROVE  k <= d[i] /\ d[i] <= l
      <4>1. k <= d[i]
        BY <3>1, <1>3, <1>5, <1>8, <1>16 DEF Buffered, Sorted
      <4> QED  BY <4>1, <3>1, <1>8 DEF Buffered, Heads
    <3> QED  BY <3>1 DEF Heads
  <2>7. LastHead(k, l, d)'
    <3>1. ASSUME NEW j \in DOMAIN buffer, buffer[j].to = "head", c[j] = l
          PROVE  l = k \/ \E i \in DOMAIN buffer' : buffer'[i].to = "head" /\ d[i] = l
      <4>1. CASE j = 1
        BY <4>1, <3>1, <1>5
      <4>2. CASE j # 1
        BY <4>2, <3>1, <1>9
      <4> QED  BY <4>1, <4>2
    <3>2. CASE l = h
      <4>1. l = k
        BY <3>2, <2>1
      <4> QED  BY <4>1 DEF LastHead
    <3> QED  BY <3>1, <3>2 DEF Buffered, LastHead
  <2>8. Ring(s, v, k, l, d)'
    BY <2>2, <2>3, <2>4, <2>5, <2>6, <2>7, <1>12, <1>13, <1>14 DEF Buffered
  <2> HIDE DEF Ring
  <2> QED  BY <2>8, <1>7, <1>10, <1>11 DEF IInv, Index
<1> QED  BY <1>4, <1>15, <1>16 DEF StoreRecord

-----------------------------------------------------------------------------
(* The kernel. *)

(* The thread goes to sleep or wakes: no entry is touched. *)
LEMMA SleepStep ==
  ASSUME TypeOK, Kept, NEW s \in Index, NEW v \in Nat, NEW h \in Nat, NEW l \in Nat,
         NEW c \in [DOMAIN buffer -> Nat], Ring(s, v, h, l, c), Doze \/ LookAgain
  PROVE  IInv'
<1> USE DEF Ring, Ordered
<1>1. UNCHANGED <<delays, pc, inDrain, byCalls, sqTail, submitted, head, cqTail, sqHead, sqes, cqes,
                  unwoken, taken, posted, reported, inFlight, overflow, buffer, tailSeen, headSeen>>
  BY DEF Doze, LookAgain, program
<1>2. Published' = Published /\ Draining' = Draining
  BY <1>1 DEF Published, Draining
<1>9. Done' = Done
  BY <1>1 DEF Done
<1>3. TypeOK'
  <2>1. thread' \in {"polling", "dozing", "asleep"}
    BY DEF Doze, LookAgain
  <2>2. needWakeup' \in BOOLEAN
    BY DEF Doze, LookAgain, TypeOK
  <2> QED  BY <1>1, <2>1, <2>2 DEF TypeOK
<1>4. Kept'
  BY <1>1, <1>9 DEF Kept
<1>5. Placed(s, v, h)' /\ Chain(v, h, l)' /\ Fits(v, h, l)'
  BY <1>1, <1>2, <1>9 DEF Placed, Chain, Fits, Plus
<1>6. Buffered(s, v, h, l, c)'
  BY <1>1, <1>2, <1>9 DEF Buffered, Values, Tails, Heads, Sorted, LastHead, Plus
<1>7. Contents(s)'
  BY <1>1 DEF Contents, Plus
<1>8. Ring(s, v, h, l, c)' /\ c \in [DOMAIN buffer' -> Nat]
  BY <1>1, <1>5, <1>6, <1>7
<1> QED  BY <1>3, <1>4, <1>8 DEF IInv, Index

(* Take finds the entry that was submitted next in the slot at the head. *)
LEMMA TakeStep ==
  ASSUME TypeOK, Kept, NEW s \in Index, NEW v \in Nat, NEW h \in Nat, NEW l \in Nat,
         NEW c \in [DOMAIN buffer -> Nat], Ring(s, v, h, l, c), Take
  PROVE  IInv'
<1> USE DEF Ring, Ordered
<1>0. PICK t \in Nat : t = Len(taken)
  BY Numbers
<1>1. /\ UNCHANGED <<delays, pc, inDrain, byCalls, sqTail, submitted, head, cqTail, sqes, cqes,
                     unwoken, posted, reported, overflow, buffer, tailSeen, headSeen, thread,
                     needWakeup>>
      /\ taken' = Append(taken, sqes[sqHead % Entries])
      /\ inFlight' = inFlight \cup {sqes[sqHead % Entries]}
      /\ sqHead' = Plus(sqHead, 1)
  BY DEF Take, program
<1>2. Published' = Published /\ Draining' = Draining
  BY <1>1 DEF Published, Draining
<1>16. Done' = Done /\ Done[Len(posted)] \in Nat
  <2>1. Len(posted) \in Nat /\ Len(posted) <= Len(posted)
    BY Numbers
  <2>2. Done' = Done
    BY <1>1 DEF Done
  <2> QED  BY <2>1, <2>2, CountsGrow
<1>3. t < v /\ v <= submitted
  <2>1. Plus(s, t) # Plus(s, v)
    BY <1>0 DEF Take, Placed
  <2>2. t <= v /\ t # v
    BY <2>1, <1>0 DEF Chain
  <2>3. Published <= submitted
    BY Numbers DEF Published
  <2>4. Published \in Int
    BY Numbers DEF Published
  <2> QED  BY <2>2, <2>3, <2>4, Numbers DEF Chain
<1>4. sqes[sqHead % Entries] = t + 1 /\ t + 1 \in 1 .. Submits
  <2>1. t + 1 \in t + 1 .. submitted /\ (t + 1) - 1 = t /\ t + 1 \in Nat
    BY <1>3, Numbers
  <2>2. sqes[Plus(s, (t + 1) - 1) % Entries] = t + 1
    BY <2>1, <1>0 DEF Contents
  <2>3. t + 1 \in 1 .. Submits
    BY <1>3, RingsAssumption DEF TypeOK
  <2> QED  BY <2>1, <2>2, <2>3, <1>0 DEF Placed
<1>5. /\ taken' \in Seq(1 .. Submits) /\ Len(taken') = t + 1
      /\ taken'[t + 1] = t + 1 /\ \A n \in 1 .. t : taken'[n] = taken[n]
      /\ DOMAIN taken' = 1 .. t + 1 /\ DOMAIN taken = 1 .. t
  BY <1>0, <1>1, <1>4, AppendProperties, LenProperties DEF TypeOK
<1>6. sqHead' = Plus(s, t + 1) /\ Plus(s, t + 1) \in Index
  <2>1. t + 1 \in Nat
    OBVIOUS
  <2> QED  BY <2>1, <1>0, <1>1, PlusNext, PlusType DEF Placed
<1>7. inFlight' = inFlight \cup {t + 1}
  BY <1>1, <1>4
<1>8. TypeOK'
  <2>1. inFlight' \subseteq 1 .. Submits
    BY <1>4, <1>7 DEF TypeOK
  <2> QED  BY <1>1, <1>5, <1>6, <2>1 DEF TypeOK
<1>9. Kept'
  <2>1. \A n \in 1 .. t + 1 : n = t + 1 \/ n \in 1 .. t
    OBVIOUS
  <2>2. \A n \in DOMAIN taken' : taken'[n] = n
    BY <2>1, <1>5 DEF Kept
  <2>3. inFlight \subseteq 1 .. t /\ IsFiniteSet(inFlight) /\ t + 1 \notin inFlight
    <3>1. IsFiniteSet(1 .. t) /\ t + 1 \notin 1 .. t
      BY FS_Interval
    <3> QED  BY <3>1, <1>0, FS_Subset DEF Kept
  <2>4. Cardinality(inFlight') = Cardinality(inFlight) + 1 /\ Cardinality(inFlight) \in Nat
    BY <2>3, <1>7, FS_AddElement, FS_CardinalityType
  <2>5. Done[Len(posted)] + Cardinality(inFlight') <= t + 1
    BY <2>4, <1>0, <1>16, Numbers DEF Kept
  <2>6. inFlight' \subseteq 1 .. t + 1
    BY <2>3, <1>7
  <2> QED  BY <1>1, <1>5, <1>16, <2>2, <2>5, <2>6 DEF Kept
<1>10. Placed(s, v, h)'
  BY <1>1, <1>2, <1>5, <1>6 DEF Placed, Plus
<1>11. Chain(v, h, l)'
  <2>1. Done[Len(posted)] <= t + 1 /\ t + 1 <= v
    BY <1>0, <1>3, <1>16, Numbers DEF Chain
  <2> QED  BY <2>1, <1>1, <1>2, <1>5, <1>16 DEF Chain
<1>12. Fits(v, h, l)'
  BY <1>1, <1>2, <1>16 DEF Fits
<1>13. Buffered(s, v, h, l, c)'
  BY <1>1, <1>2, <1>16 DEF Buffered, Values, Tails, Heads, Sorted, LastHead, Plus
<1>14. Contents(s)'
  <2>1. \A n \in (t + 1) + 1 .. submitted : n \in t + 1 .. submitted
    BY Numbers
  <2> QED  BY <2>1, <1>0, <1>1, <1>5 DEF Contents, Plus
<1>15. Ring(s, v, h, l, c)' /\ c \in [DOMAIN buffer' -> Nat]
  BY <1>1, <1>10, <1>11, <1>12, <1>13, <1>14
<1> QED  BY <1>8, <1>9, <1>15 DEF IInv, Index

(* A completion put in the ring, with room for it: it fills the slot of an *)
(* entry that was reported, and what is in front of it stays.              *)
LEMMA PutStep ==
  ASSUME TypeOK, Kept, NEW s \in Index, NEW v \in Nat, NEW h \in Nat, NEW l \in Nat,
         NEW c \in [DOMAIN buffer -> Nat], Ring(s, v, h, l, c),
         NEW completion \in Completion, Room, Put(completion),
         UNCHANGED <<program, thread, sqHead, taken, overflow, buffer, tailSeen, headSeen, sqes,
                     needWakeup>>,
         inFlight' \subseteq inFlight,
         IF completion.more THEN inFlight' = inFlight
                            ELSE Cardinality(inFlight') = Cardinality(inFlight) - 1
  PROVE  IInv'
<1> USE DEF Ring, Ordered
<1>0. PICK p \in Nat : p = Len(posted)
  BY Numbers
<1>1. /\ UNCHANGED <<delays, pc, inDrain, byCalls, sqTail, submitted, head, sqHead, sqes, overflow,
                     unwoken, taken, reported, buffer, tailSeen, headSeen, thread, needWakeup>>
      /\ posted' = Append(posted, completion)
      /\ cqes' = [cqes EXCEPT ![cqTail % CqEntries] = completion]
      /\ cqTail' = Plus(cqTail, 1)
  BY DEF Put, program
<1>2. Published' = Published /\ Draining' = Draining
  BY <1>1 DEF Published, Draining
<1>5. h <= p /\ p - h < CqEntries
  <2>1. h <= Len(posted) /\ Dist(headSeen, cqTail) = Len(posted) - h
    BY Measured
  <2> QED  BY <2>1, <1>0 DEF Room
<1>8. /\ posted' \in Seq(Completion) /\ Len(posted') = p + 1
      /\ posted'[p + 1] = completion /\ \A n \in 1 .. p : posted'[n] = posted[n]
      /\ DOMAIN posted' = 1 .. p + 1 /\ DOMAIN posted = 1 .. p
  BY <1>0, <1>1, AppendProperties, LenProperties DEF TypeOK
<1>9. cqTail' = Plus(s, p + 1) /\ Plus(s, p + 1) \in Index
  <2>1. p + 1 \in Nat
    OBVIOUS
  <2> QED  BY <2>1, <1>0, <1>1, PlusNext, PlusType DEF Placed
<1>10. cqTail % CqEntries \in 0 .. CqEntries - 1
  <2>1. cqTail \in Int
    BY DEF TypeOK, Index
  <2> QED  BY <2>1, Sizes, Division
<1>11. TypeOK'
  <2>1. cqes' \in [0 .. CqEntries - 1 -> Completion]
    BY <1>1, <1>10 DEF TypeOK
  <2>2. inFlight' \subseteq 1 .. Submits
    BY DEF TypeOK
  <2> QED  BY <1>1, <1>8, <1>9, <2>1, <2>2 DEF TypeOK, Completion
<1>3. \A n \in 0 .. p : Done'[n] = Done[n]
  <2>1. ASSUME NEW n \in 0 .. p
        PROVE  Done'[n] = Done[n]
    <3>1. {i \in 1 .. n : ~posted'[i].more} = {i \in 1 .. n : ~posted[i].more}
      BY <1>8
    <3>2. n \in 0 .. Len(posted) /\ n \in 0 .. Len(posted')
      BY <1>0, <1>8
    <3>3. Done[n] = Cardinality({i \in 1 .. n : ~posted[i].more})
      BY <3>2 DEF Done
    <3>4. Done'[n] = Cardinality({i \in 1 .. n : ~posted'[i].more})
      BY <3>2 DEF Done
    <3> QED  BY <3>1, <3>3, <3>4
  <2> QED  BY <2>1
<1>4. /\ Done[p] \in Nat
      /\ Done'[p + 1] = IF completion.more THEN Done[p] ELSE Done[p] + 1
  <2> DEFINE A == {i \in 1 .. p : ~posted[i].more}
             B == {i \in 1 .. p + 1 : ~posted'[i].more}
  <2>1. Done[p] = Cardinality(A)
    BY <1>0 DEF Done
  <2>2. Done'[p + 1] = Cardinality(B)
    <3>1. p + 1 \in 0 .. Len(posted')
      BY <1>8
    <3> QED  BY <3>1 DEF Done
  <2>3. IsFiniteSet(A) /\ p + 1 \notin A
    <3>1. A \subseteq 1 .. p /\ p + 1 \notin A /\ IsFiniteSet(1 .. p)
      BY FS_Interval
    <3> HIDE DEF A
    <3> QED  BY <3>1, FS_Subset
  <2>4. B = IF completion.more THEN A ELSE A \cup {p + 1}
    <3>1. \A i \in 1 .. p + 1 : i = p + 1 \/ i \in 1 .. p
      OBVIOUS
    <3>2. p + 1 \in 1 .. p + 1 /\ \A i \in 1 .. p : i \in 1 .. p + 1 /\ i # p + 1
      OBVIOUS
    <3> QED  BY <3>1, <3>2, <1>8
  <2> HIDE DEF A, B
  <2>5. Cardinality(A) \in Nat /\ Cardinality(A \cup {p + 1}) = Cardinality(A) + 1
    BY <2>3, FS_CardinalityType, FS_AddElement
  <2> QED  BY <2>1, <2>2, <2>4, <2>5
<1>6. Done'[p + 1] + Cardinality(inFlight') <= Len(taken) /\ Done'[p + 1] <= Len(taken)
  <2>1. IsFiniteSet(inFlight) /\ IsFiniteSet(inFlight')
    <3>1. IsFiniteSet(1 .. Len(taken))
      BY Numbers, FS_Interval
    <3>2. inFlight \subseteq 1 .. Len(taken) /\ inFlight' \subseteq 1 .. Len(taken)
      BY DEF Kept
    <3> QED  BY <3>1, <3>2, FS_Subset
  <2>2. Cardinality(inFlight) \in Nat /\ Cardinality(inFlight') \in Nat
    BY <2>1, FS_CardinalityType
  <2>3. Done[p] + Cardinality(inFlight) <= Len(taken)
    BY <1>0 DEF Kept
  <2>4. CASE completion.more
    BY <2>2, <2>3, <2>4, <1>4, Numbers
  <2>5. CASE ~completion.more
    <3>1. Done'[p + 1] = Done[p] + 1 /\ Cardinality(inFlight') = Cardinality(inFlight) - 1
      BY <2>5, <1>4
    <3>2. PICK d \in Nat : d = Done[p]
      BY <1>4
    <3>3. Done'[p + 1] = d + 1 /\ d + Cardinality(inFlight) <= Len(taken) /\ Len(taken) \in Nat
      BY <3>1, <3>2, <2>3, Numbers
    <3> HIDE DEF Ring
    <3> QED  BY <3>1, <3>3, <2>2
  <2> QED  BY <2>4, <2>5
<1>7. /\ \A n \in Nat : n <= Len(reported) => n \in 0 .. p
      /\ l \in 0 .. p /\ h \in 0 .. p /\ Len(reported) \in 0 .. p
  BY <1>0, Numbers DEF Chain
<1>12. Kept'
  <2>1. \A n \in DOMAIN reported : n \in 1 .. p
    BY <1>7, LenProperties DEF TypeOK
  <2>2. \A n \in DOMAIN reported' : reported'[n] = posted'[n]
    BY <2>1, <1>1, <1>8 DEF Kept
  <2>3. inFlight' \subseteq 1 .. Len(taken)
    BY DEF Kept
  <2> QED  BY <1>1, <1>6, <1>8, <2>2, <2>3 DEF Kept
<1>13. Placed(s, v, h)'
  BY <1>1, <1>2, <1>8, <1>9 DEF Placed, Plus
<1>14. Chain(v, h, l)'
  <2>1. Len(reported) <= p + 1 /\ p + 1 <= h + CqEntries
    BY <1>5, <1>7, Numbers, Sizes
  <2> QED  BY <2>1, <1>1, <1>2, <1>6, <1>8 DEF Chain
<1>15. Fits(v, h, l)'
  BY <1>1, <1>2, <1>3, <1>7 DEF Fits
<1>16. Buffered(s, v, h, l, c)'
  <2>1. Tails(v, h, c)'
    <3>1. ASSUME NEW i \in DOMAIN buffer, buffer[i].to = "tail"
          PROVE  /\ v <= c[i] /\ c[i] <= Published
                 /\ \/ c[i] <= Done'[h] + Window + FromCallbacks
                    \/ \E j \in 1 .. i - 1 :
                         buffer[j].to = "head" /\ c[i] <= Done'[c[j]] + Window + FromCallbacks
      <4>1. \A j \in 1 .. i - 1 : j \in DOMAIN buffer
        BY BufferDomain
      <4>2. \A j \in DOMAIN buffer : buffer[j].to = "head" => c[j] \in 0 .. p
        <5>1. ASSUME NEW j \in DOMAIN buffer, buffer[j].to = "head"
              PROVE  c[j] \in 0 .. p
          <6>1. c[j] \in Nat /\ c[j] <= l
            BY <5>1 DEF Buffered, Heads
          <6> QED  BY <6>1, <1>7
        <5> QED  BY <5>1
      <4> QED  BY <4>1, <4>2, <3>1, <1>3, <1>7 DEF Buffered, Tails
    <3> QED  BY <3>1, <1>1, <1>2 DEF Tails
  <2>2. Values(s, c)' /\ Heads(h, l, c)' /\ Sorted(c)' /\ LastHead(h, l, c)'
    BY <1>1 DEF Buffered, Values, Heads, Sorted, LastHead, Plus
  <2> QED  BY <2>1, <2>2 DEF Buffered
<1>17. Contents(s)'
  <2>1. ASSUME NEW n \in Len(reported) + 1 .. p + 1
        PROVE  cqes'[Plus(s, n - 1) % CqEntries] = posted'[n]
    <3>1. n - 1 \in Nat /\ n \in 1 .. p + 1 /\ n - 1 <= p
      BY Numbers
    <3>2. p - (n - 1) < CqEntries
      <4>1. h <= n - 1
        BY <3>1, Numbers DEF Chain
      <4> QED  BY <4>1, <3>1, <1>5, Sizes
    <3>3. cqTail % CqEntries = Plus(s, p) % CqEntries
      BY <1>0 DEF Placed
    <3>4. CASE n = p + 1
      <4>1. n - 1 = p
        BY <3>4
      <4> QED  BY <4>1, <3>3, <3>4, <1>1, <1>8, <1>10 DEF TypeOK
    <3>5. CASE n # p + 1
      <4>1. n \in Len(reported) + 1 .. p /\ n \in 1 .. p /\ n - 1 # p
        BY <3>1, <3>5, Numbers
      <4>2. Plus(s, n - 1) % CqEntries # Plus(s, p) % CqEntries
        BY <3>1, <3>2, <4>1, Sizes, Divides, SlotSame
      <4>3. Plus(s, n - 1) % CqEntries \in 0 .. CqEntries - 1
        <5>1. Plus(s, n - 1) \in Index
          BY <3>1, PlusType
        <5>2. Plus(s, n - 1) \in Int
          BY <5>1 DEF Index
        <5> QED  BY <5>2, Sizes, Division
      <4>4. cqes'[Plus(s, n - 1) % CqEntries] = cqes[Plus(s, n - 1) % CqEntries]
        BY <4>2, <4>3, <3>3, <1>1 DEF TypeOK
      <4> QED  BY <4>1, <4>4, <1>0, <1>8 DEF Contents
    <3> QED  BY <3>4, <3>5
  <2> QED  BY <2>1, <1>0, <1>1, <1>8 DEF Contents, Plus
<1>18. Ring(s, v, h, l, c)' /\ c \in [DOMAIN buffer' -> Nat]
  BY <1>1, <1>13, <1>14, <1>15, <1>16, <1>17
<1> QED  BY <1>11, <1>12, <1>18 DEF IInv, Index

(* What is in flight is finite, and an operation less when it completes. *)
LEMMA InFlightFewer ==
  ASSUME TypeOK, Kept, NEW op \in inFlight
  PROVE  /\ Cardinality(inFlight) \in Nat /\ Cardinality(inFlight) >= 1
         /\ Cardinality(inFlight \ {op}) = Cardinality(inFlight) - 1
<1>1. IsFiniteSet(1 .. Len(taken))
  BY Numbers, FS_Interval
<1>2. IsFiniteSet(inFlight)
  BY <1>1, FS_Subset DEF Kept
<1>3. Cardinality(inFlight) \in Nat /\ Cardinality(inFlight) # 0
  BY <1>2, FS_CardinalityType, FS_EmptySet
<1>4. Cardinality(inFlight \ {op}) = Cardinality(inFlight) - 1
  BY <1>2, FS_RemoveElement
<1>5. Cardinality(inFlight) >= 1
  BY <1>3
<1> QED  BY <1>3, <1>4, <1>5

(* The last completion of an operation goes into the ring or, if there is  *)
(* no room, to the list, which leaves the ring as it is.                   *)
LEMMA CompleteStep ==
  ASSUME TypeOK, Kept, NEW s \in Index, NEW v \in Nat, NEW h \in Nat, NEW l \in Nat,
         NEW c \in [DOMAIN buffer -> Nat], Ring(s, v, h, l, c),
         NEW op \in 1 .. Submits, Complete(op)
  PROVE  IInv'
<1>1. /\ UNCHANGED <<program, thread, sqHead, taken, buffer, tailSeen, headSeen, sqes, needWakeup>>
      /\ op \in inFlight /\ inFlight' = inFlight \ {op}
  BY DEF Complete
<1>2. /\ Cardinality(inFlight) \in Nat
      /\ Cardinality(inFlight') = Cardinality(inFlight) - 1
  BY <1>1, InFlightFewer
<1> DEFINE completion == [op |-> op, more |-> FALSE]
<1>3. CASE Room /\ Put(completion) /\ UNCHANGED overflow
  <2>1. completion \in Completion /\ ~completion.more
    BY RingsAssumption DEF Completion
  <2>2. inFlight' \subseteq inFlight
    BY <1>1
  <2> HIDE DEF completion
  <2> QED  BY <2>1, <2>2, <1>1, <1>2, <1>3, PutStep
<1>4. CASE ~Room /\ overflow' = overflow \cup {op} /\ UNCHANGED <<posted, cqes, cqTail>>
  <2>1. UNCHANGED <<delays, pc, inDrain, byCalls, sqTail, submitted, head, cqTail, sqHead, sqes,
                    cqes, unwoken, taken, posted, reported, buffer, tailSeen, headSeen, thread,
                    needWakeup>>
    BY <1>1, <1>4 DEF program
  <2>2. Published' = Published /\ Draining' = Draining /\ Done' = Done
    BY <2>1 DEF Published, Draining, Done
  <2>3. TypeOK'
    <3>1. inFlight' \subseteq 1 .. Submits /\ overflow' \subseteq 1 .. Submits
      BY <1>1, <1>4 DEF TypeOK
    <3> QED  BY <3>1, <2>1 DEF TypeOK
  <2>4. Kept'
    <3>1. Done[Len(posted)] \in Nat
      <4>1. Len(posted) \in Nat /\ Len(posted) <= Len(posted)
        BY Numbers
      <4> QED  BY <4>1, CountsGrow
    <3>2. Done[Len(posted)] + Cardinality(inFlight') <= Len(taken)
      BY <3>1, <1>2, Numbers DEF Kept
    <3>3. inFlight' \subseteq 1 .. Len(taken)
      BY <1>1 DEF Kept
    <3> QED  BY <3>2, <3>3, <2>1, <2>2 DEF Kept
  <2>5. Placed(s, v, h)' /\ Chain(v, h, l)' /\ Fits(v, h, l)'
    BY <2>1, <2>2 DEF Ring, Ordered, Placed, Chain, Fits, Plus
  <2>6. Buffered(s, v, h, l, c)'
    BY <2>1, <2>2 DEF Ring, Buffered, Values, Tails, Heads, Sorted, LastHead, Plus
  <2>7. Contents(s)'
    BY <2>1 DEF Ring, Contents, Plus
  <2>8. Ring(s, v, h, l, c)' /\ c \in [DOMAIN buffer' -> Nat]
    BY <2>1, <2>5, <2>6, <2>7 DEF Ring, Ordered
  <2> QED  BY <2>3, <2>4, <2>8 DEF IInv, Index
<1> QED  BY <1>3, <1>4 DEF Complete

(* A completion with more to come leaves its operation in flight. *)
LEMMA PostAnotherStep ==
  ASSUME TypeOK, Kept, NEW s \in Index, NEW v \in Nat, NEW h \in Nat, NEW l \in Nat,
         NEW c \in [DOMAIN buffer -> Nat], Ring(s, v, h, l, c),
         NEW op \in 1 .. Submits, PostAnother(op)
  PROVE  IInv'
<1> DEFINE completion == [op |-> op, more |-> TRUE]
<1>1. /\ UNCHANGED <<program, thread, sqHead, taken, overflow, buffer, tailSeen, headSeen, sqes,
                     needWakeup>>
      /\ Room /\ Put(completion) /\ inFlight' = inFlight
  BY DEF PostAnother
<1>2. completion \in Completion /\ completion.more
  BY RingsAssumption DEF Completion
<1> HIDE DEF completion
<1> QED  BY <1>1, <1>2, PutStep

-----------------------------------------------------------------------------
(* The theorems. *)

(* The rings start empty, all indices at the same place. *)
LEMMA InitIInv == Init => IInv
<1> SUFFICES ASSUME Init PROVE IInv
  OBVIOUS
<1>1. PICK s \in Index :
        /\ sqTail = s /\ tailSeen = s /\ sqHead = s
        /\ cqTail = s /\ head = s /\ headSeen = s
  BY Sizes DEF Init, Index
<1>2. Plus(s, 0) = s
  BY PlusZero
<1>3. pc = "idle" /\ Published = 0 /\ ~Draining
  BY DEF Init, Published, Draining
<1>4. TypeOK
  <2>1. /\ sqes \in [0 .. Entries - 1 -> 0 .. Submits]
        /\ cqes \in [0 .. CqEntries - 1 -> Completion]
    BY RingsAssumption DEF Init, Completion
  <2>2. /\ buffer \in Seq([to : {"tail", "head"}, val : Index])
        /\ taken \in Seq(1 .. Submits) /\ posted \in Seq(Completion)
        /\ reported \in Seq(Completion)
    BY EmptySeq DEF Init
  <2>3. submitted \in 0 .. Submits /\ byCalls \in 0 .. FromCallbacks
    BY RingsAssumption, OutstandingAssumption DEF Init
  <2>4. inDrain \in BOOLEAN /\ unwoken \in BOOLEAN /\ needWakeup \in BOOLEAN
    BY DEF Init
  <2> QED  BY <1>1, <2>1, <2>2, <2>3, <2>4 DEF Init, TypeOK
<1>8. Done[0] = 0 /\ Len(posted) = 0 /\ Len(reported) = 0 /\ Len(taken) = 0 /\ submitted = 0
  <2>1. posted = <<>> /\ reported = <<>> /\ taken = <<>> /\ submitted = 0
    BY DEF Init
  <2>2. {n \in 1 .. 0 : ~posted[n].more} = {}
    OBVIOUS
  <2>3. Len(posted) = 0 /\ Len(reported) = 0 /\ Len(taken) = 0
    BY <2>1, EmptySeq
  <2>4. Done[0] = Cardinality({n \in 1 .. 0 : ~posted[n].more})
    BY <2>3 DEF Done
  <2> QED  BY <2>1, <2>2, <2>3, <2>4, FS_EmptySet
<1>5. Kept
  BY <1>8, FS_EmptySet DEF Init, Kept
<1>6. Ring(s, 0, 0, 0, <<>>)
  <2>1. Placed(s, 0, 0)
    BY <1>1, <1>2, <1>3 DEF Init, Placed
  <2>2. Chain(0, 0, 0)
    BY <1>3, <1>8, Sizes DEF Chain
  <2>3. Fits(0, 0, 0)
    BY <1>3, <1>8, OutstandingAssumption DEF Fits
  <2>4. Buffered(s, 0, 0, 0, <<>>)
    BY DEF Init, Buffered, Values, Tails, Heads, Sorted, LastHead
  <2>5. Contents(s)
    BY DEF Init, Contents
  <2> QED  BY <2>1, <2>2, <2>3, <2>4, <2>5 DEF Ring, Ordered
<1>7. <<>> \in [DOMAIN buffer -> Nat]
  BY DEF Init
<1> QED  BY <1>4, <1>5, <1>6, <1>7 DEF IInv

LEMMA NextIInv == IInv /\ [Next]_vars => IInv'
<1> SUFFICES ASSUME IInv, [Next]_vars PROVE IInv'
  OBVIOUS
<1>1. TypeOK /\ Kept
  BY DEF IInv
<1>2. PICK s \in Index, v \in Nat, h \in Nat, l \in Nat :
        \E c \in [DOMAIN buffer -> Nat] : Ring(s, v, h, l, c)
  BY DEF IInv
<1>3. PICK c \in [DOMAIN buffer -> Nat] : Ring(s, v, h, l, c)
  BY <1>2
<1>4. CASE AddToSQE
  BY <1>1, <1>3, <1>4, FillStep, PublishStep, CheckStep DEF AddToSQE
<1>5. CASE Drain
  BY <1>1, <1>3, <1>5, BeginDrainStep, ReportStep, EndDrainStep DEF Drain
<1>6. CASE Flush
  BY <1>1, <1>3, <1>6, FlushStep
<1>7. CASE Thread \/ Doze
  BY <1>1, <1>3, <1>7, TakeStep, SleepStep DEF Thread
<1>8. ASSUME NEW op \in 1 .. Submits, Complete(op) \/ PostAnother(op)
      PROVE  IInv'
  BY <1>1, <1>3, <1>8, CompleteStep, PostAnotherStep
<1>9. CASE UNCHANGED vars
  <2>1. UNCHANGED <<delays, pc, inDrain, byCalls, sqTail, submitted, head, cqTail, sqHead, sqes,
                    cqes, unwoken, taken, posted, reported, inFlight, overflow, buffer, tailSeen,
                    headSeen, thread, needWakeup>>
    BY <1>9 DEF vars, program, kernel
  <2>2. Published' = Published /\ Draining' = Draining /\ Done' = Done
    BY <2>1 DEF Published, Draining, Done
  <2>3. TypeOK' /\ Kept'
    BY <2>1, <2>2, <1>1 DEF TypeOK, Kept
  <2>4. Placed(s, v, h)' /\ Chain(v, h, l)' /\ Fits(v, h, l)'
    BY <2>1, <2>2, <1>3 DEF Ring, Ordered, Placed, Chain, Fits, Plus
  <2>5. Buffered(s, v, h, l, c)'
    BY <2>1, <2>2, <1>3 DEF Ring, Buffered, Values, Tails, Heads, Sorted, LastHead, Plus
  <2>6. Contents(s)'
    BY <2>1, <1>3 DEF Ring, Contents, Plus
  <2>7. Ring(s, v, h, l, c)' /\ c \in [DOMAIN buffer' -> Nat]
    BY <2>1, <2>4, <2>5, <2>6 DEF Ring, Ordered
  <2> QED  BY <2>3, <2>7 DEF IInv, Index
<1> QED  BY <1>4, <1>5, <1>6, <1>7, <1>8, <1>9 DEF Next

LEMMA Invariance == Spec => []IInv
<1> QED  BY InitIInv, NextIInv, PTL DEF Spec

(* The variables of Uring have their types: the indices stay within Width, *)
(* the slots hold entries that were submitted.                             *)
THEOREM TypeCorrect == Spec => []TypeOK
<1>1. IInv => TypeOK
  BY DEF IInv
<1> QED  BY <1>1, Invariance, PTL

(* The kernel takes every entry that AddToSQE put in the ring, once and in *)
(* order, whatever the sizes and wherever the indices wrap, for a program  *)
(* that keeps no more outstanding than the ring holds.                     *)
THEOREM NoneOverwritten == Spec => []TakenInOrder
<1>1. IInv => TakenInOrder
  BY DEF IInv, Kept, TakenInOrder
<1> QED  BY <1>1, Invariance, PTL

(* Drain calls the callback for every completion, in order, also when      *)
(* stores of the head reach memory late.                                   *)
THEOREM DrainInOrder == Spec => []ReportedInOrder
<1>1. IInv => ReportedInOrder
  BY DEF IInv, Kept, Ring, Ordered, Chain, ReportedInOrder
<1> QED  BY <1>1, Invariance, PTL

(* The kernel finds room for the last completion of every entry, if the    *)
(* window and what the callbacks of one Drain submit fit the completion    *)
(* ring together, unless more completions with more to come than that      *)
(* leaves room for are in the ring: the completions from the head in       *)
(* memory on are those last of entries the kernel saw, which the window    *)
(* bounds, and those with more to come.                                    *)
LEMMA OverflowCrowds ==
  ASSUME IInv, [Next]_vars, overflow = {}, overflow' # {}
  PROVE  Crowding
<1>1. TypeOK /\ Kept
  BY DEF IInv
<1>2. PICK s \in Index, v \in Nat, h \in Nat, l \in Nat :
        \E c \in [DOMAIN buffer -> Nat] : Ring(s, v, h, l, c)
  BY DEF IInv
<1>3. Placed(s, v, h) /\ Chain(v, h, l) /\ Fits(v, h, l)
  BY <1>2 DEF Ring, Ordered
<1>4. PICK op \in 1 .. Submits : Complete(op)
  <2>1. CASE AddToSQE
    BY <2>1 DEF AddToSQE, Fill, Publish, Check, kernel
  <2>2. CASE Drain
    BY <2>2 DEF Drain, BeginDrain, Report, EndDrain, kernel
  <2>3. CASE Flush \/ Thread \/ Doze \/ UNCHANGED vars
    BY <2>3 DEF Flush, Thread, Take, LookAgain, Doze, vars, kernel
  <2>4. ASSUME NEW op \in 1 .. Submits, PostAnother(op)
        PROVE  FALSE
    BY <2>4 DEF PostAnother
  <2> QED  BY <2>1, <2>2, <2>3, <2>4 DEF Next
<1>5. op \in inFlight /\ ~Room
  BY <1>4 DEF Complete
<1>6. h <= Len(posted) /\ Dist(headSeen, cqTail) = Len(posted) - h /\ Len(posted) \in Nat
  BY <1>1, <1>3, Measured, Numbers
<1>12. Done[Len(posted)] \in Nat /\ Done[h] \in Nat
  <2>1. Len(posted) <= Len(posted)
    BY <1>6
  <2> QED  BY <2>1, <1>1, <1>6, CountsGrow
<1>7. Len(posted) - h >= CqEntries
  <2>1. ~(Len(posted) - h < CqEntries)
    BY <1>5, <1>6 DEF Room
  <2> QED  BY <2>1, <1>6, Sizes
<1>8. Done[Len(posted)] + 1 <= Done[h] + Window + FromCallbacks
  <2>1. Cardinality(inFlight) \in Nat /\ Cardinality(inFlight) >= 1
    BY <1>1, <1>5, InFlightFewer
  <2>3. Done[Len(posted)] + 1 <= v
    BY <2>1, <1>12, <1>1, <1>3, Numbers DEF Kept, Chain
  <2> DEFINE x == Done[Len(posted)]
             y == Done[h]
  <2>4. x \in Nat /\ y \in Nat /\ v \in Nat /\ Window \in Nat /\ FromCallbacks \in Nat
    BY <1>1, <1>12, Numbers
  <2>5. x + 1 <= v /\ v <= y + Window + FromCallbacks
    BY <1>3, <2>3 DEF Fits
  <2> HIDE DEF x, y
  <2>6. x + 1 <= y + Window + FromCallbacks
    BY ONLY <2>4, <2>5
  <2> QED  BY <2>6 DEF x, y
<1>9. Cardinality({i \in h + 1 .. Len(posted) : posted[i].more})
        = (Len(posted) - h) - (Done[Len(posted)] - Done[h])
  <2>1. PICK p \in Nat : p = Len(posted)
    BY <1>6
  <2>2. h <= p /\ p <= Len(posted)
    BY <2>1, <1>6
  <2>3. Cardinality({i \in h + 1 .. p : posted[i].more}) = (p - h) - (Done[p] - Done[h])
    BY <2>2, <1>1, Counting
  <2> QED  BY <2>1, <2>3
<1>10. (Len(posted) - h) - (Done[Len(posted)] - Done[h]) > CqEntries - (Window + FromCallbacks)
  <2>1. Window \in Nat /\ FromCallbacks \in Nat /\ CqEntries \in Nat
    BY <1>1, Numbers, Sizes
  <2> DEFINE p == Len(posted)
             d == Done[p]
             e == Done[h]
  <2>2. p \in Nat /\ d \in Nat /\ e \in Nat /\ p - h >= CqEntries /\ d + 1 <= e + Window + FromCallbacks
    BY <1>6, <1>7, <1>8, <1>12
  <2> HIDE DEF p, d, e
  <2>3. (p - h) - (d - e) > CqEntries - (Window + FromCallbacks)
    BY <2>1, <2>2
  <2> QED  BY <2>3 DEF p, d, e
<1>11. Len(posted) - Dist(headSeen, cqTail) + 1 = h + 1
  BY <1>6
<1> QED  BY <1>9, <1>10, <1>11 DEF Crowding, Spare

(* The same of every step: a program without multishot entries that keeps  *)
(* to its window loses no completion.                                      *)
THEOREM RoomForAll == Spec => NoOverflow
<1>1. IInv /\ [Next]_vars => [overflow = {} /\ overflow' # {} => Crowding]_vars
  BY OverflowCrowds
<1> QED  BY <1>1, Invariance, PTL DEF Spec, NoOverflow

-----------------------------------------------------------------------------
(*                                 TlsEcho                                 *)

-----------------------------------------------------------------------------
(* Pieces of sequences. *)

LEMMA PrefixHas ==
  ASSUME NEW X, NEW u \in Seq(X), NEW n \in Nat
  PROVE  /\ Prefix(u, n) \in Seq(X) /\ Len(Prefix(u, n)) = Lesser(n, Len(u))
         /\ \A i \in 1 .. Lesser(n, Len(u)) : Prefix(u, n)[i] = u[i]
<1>1. Len(u) \in Nat /\ \A i \in 1 .. Len(u) : u[i] \in X
  BY LenProperties
<1>2. Lesser(n, Len(u)) \in 0 .. Len(u)
  BY <1>1 DEF Lesser
<1>3. QED
  BY <1>1, <1>2, SubSeqProperties DEF Prefix

LEMMA RestHas ==
  ASSUME NEW X, NEW u \in Seq(X), NEW n \in 0 .. Len(u)
  PROVE  /\ Rest(u, n) \in Seq(X) /\ Len(Rest(u, n)) = Len(u) - n
         /\ \A i \in 1 .. Len(u) - n : Rest(u, n)[i] = u[n + i]
<1>1. Len(u) \in Nat /\ \A i \in n + 1 .. Len(u) : u[i] \in X
  BY LenProperties
<1>2. /\ Rest(u, n) \in Seq(X)
      /\ Len(Rest(u, n)) = IF n + 1 <= Len(u) THEN Len(u) - (n + 1) + 1 ELSE 0
      /\ \A i \in 1 .. Len(u) - (n + 1) + 1 : Rest(u, n)[i] = u[(n + 1) + i - 1]
  BY <1>1, SubSeqProperties DEF Rest
<1>3. n \in Nat /\ Len(u) - (n + 1) + 1 = Len(u) - n /\ n <= Len(u)
  BY <1>1
<1>4. ASSUME NEW i \in 1 .. Len(u) - n PROVE Rest(u, n)[i] = u[n + i]
  <2>1. (n + 1) + i - 1 = n + i
    BY <1>1, <1>3
  <2>2. QED
    BY <1>2, <1>3, <2>1
<1>5. Len(Rest(u, n)) = Len(u) - n
  <2> DEFINE x == Len(Rest(u, n))
             y == Len(u)
  <2>1. x = (IF n + 1 <= y THEN y - (n + 1) + 1 ELSE 0) /\ y \in Nat /\ n \in 0 .. y
    BY <1>1, <1>2
  <2> HIDE DEF x, y
  <2>2. x = y - n
    BY ONLY <2>1
  <2>3. QED
    BY <2>2 DEF x, y
<1>6. QED
  BY <1>2, <1>4, <1>5

LEMMA BothHave ==
  ASSUME NEW X, NEW u \in Seq(X), NEW v \in Seq(X)
  PROVE  /\ u \o v \in Seq(X) /\ Len(u \o v) = Len(u) + Len(v)
         /\ \A i \in 1 .. Len(u) + Len(v) : (u \o v)[i] = IF i <= Len(u) THEN u[i] ELSE v[i - Len(u)]
         /\ Len(u) \in Nat /\ Len(v) \in Nat
BY ConcatProperties, LenProperties

LEMMA WithNothing ==
  ASSUME NEW X, NEW u \in Seq(X)
  PROVE  u \o <<>> = u /\ <<>> \o u = u
BY ConcatEmptySeq

LEMMA RemovedHas ==
  ASSUME NEW X, NEW u \in Seq(X), NEW n \in 1 .. Len(u)
  PROVE  /\ RemoveAt(u, n) \in Seq(X) /\ Len(RemoveAt(u, n)) = Len(u) - 1
         /\ \A i \in 1 .. Len(u) - 1 : RemoveAt(u, n)[i] = IF i < n THEN u[i] ELSE u[i + 1]
<1> DEFINE a == SubSeq(u, 1, n - 1)
           b == SubSeq(u, n + 1, Len(u))
<1>1. Len(u) \in Nat /\ \A i \in 1 .. Len(u) : u[i] \in X
  BY LenProperties
<1>2. /\ a \in Seq(X) /\ Len(a) = n - 1
      /\ \A i \in 1 .. n - 1 : a[i] = u[i]
  <2>1. 1 \in Int /\ n - 1 \in Int /\ \A i \in 1 .. n - 1 : u[i] \in X
    BY <1>1
  <2>2. /\ a \in Seq(X) /\ Len(a) = IF 1 <= n - 1 THEN (n - 1) - 1 + 1 ELSE 0
        /\ \A i \in 1 .. (n - 1) - 1 + 1 : a[i] = u[1 + i - 1]
    BY <2>1, SubSeqProperties
  <2>3. QED
    BY <1>1, <2>2
<1>3. /\ b \in Seq(X) /\ Len(b) = Len(u) - n
      /\ \A i \in 1 .. Len(u) - n : b[i] = u[n + i]
  <2>1. n + 1 \in Int /\ Len(u) \in Int /\ \A i \in n + 1 .. Len(u) : u[i] \in X
    BY <1>1
  <2>2. /\ b \in Seq(X) /\ Len(b) = IF n + 1 <= Len(u) THEN Len(u) - (n + 1) + 1 ELSE 0
        /\ \A i \in 1 .. Len(u) - (n + 1) + 1 : b[i] = u[(n + 1) + i - 1]
    BY <2>1, SubSeqProperties
  <2>3. QED
    BY <1>1, <2>2
<1>4. RemoveAt(u, n) = a \o b
  BY DEF RemoveAt
<1> HIDE DEF a, b
<1>5. /\ a \o b \in Seq(X) /\ Len(a \o b) = Len(a) + Len(b)
      /\ \A i \in 1 .. Len(a) + Len(b) : (a \o b)[i] = IF i <= Len(a) THEN a[i] ELSE b[i - Len(a)]
  BY <1>2, <1>3, BothHave
<1>6. ASSUME NEW i \in 1 .. Len(u) - 1 PROVE (a \o b)[i] = IF i < n THEN u[i] ELSE u[i + 1]
  <2>1. i \in 1 .. Len(a) + Len(b)
    BY <1>1, <1>2, <1>3
  <2>2. (a \o b)[i] = IF i <= Len(a) THEN a[i] ELSE b[i - Len(a)]
    BY <1>5, <2>1
  <2>3. CASE i < n
    BY <1>1, <1>2, <2>2, <2>3
  <2>4. CASE ~(i < n)
    <3>1. i - Len(a) \in 1 .. Len(u) - n /\ n + (i - Len(a)) = i + 1 /\ ~(i <= Len(a))
      BY <1>1, <1>2, <2>4
    <3>2. b[i - Len(a)] = u[n + (i - Len(a))]
      BY <1>3, <3>1
    <3>3. QED
      BY <2>2, <2>4, <3>1, <3>2
  <2>5. QED
    BY <2>3, <2>4
<1>7. QED
  BY <1>1, <1>2, <1>3, <1>4, <1>5, <1>6

-----------------------------------------------------------------------------
(* A piece of the stream: the units from n on.                             *)

Units == Seq(Nat)

Runs(u, n) == \A i \in 1 .. Len(u) : u[i] = n + i - 1

LEMMA RunsNot == \A n : Runs(<<>>, n)
BY DEF Runs

LEMMA RunsOn ==
  ASSUME NEW u \in Units, NEW v \in Units, NEW n \in Nat
  PROVE  Runs(u \o v, n) <=> Runs(u, n) /\ Runs(v, n + Len(u))
<1>1. /\ Len(u \o v) = Len(u) + Len(v) /\ Len(u) \in Nat /\ Len(v) \in Nat
      /\ \A i \in 1 .. Len(u) + Len(v) : (u \o v)[i] = IF i <= Len(u) THEN u[i] ELSE v[i - Len(u)]
  BY BothHave DEF Units
<1>2. ASSUME Runs(u, n), Runs(v, n + Len(u)), NEW i \in 1 .. Len(u) + Len(v)
      PROVE  (u \o v)[i] = n + i - 1
  <2>1. CASE i <= Len(u)
    BY <1>1, <1>2, <2>1 DEF Runs
  <2>2. CASE ~(i <= Len(u))
    <3>1. i - Len(u) \in 1 .. Len(v)
      BY <1>1, <2>2
    <3>2. v[i - Len(u)] = n + Len(u) + (i - Len(u)) - 1
      BY <1>2, <3>1 DEF Runs
    <3>3. QED
      BY <1>1, <2>2, <3>2
  <2>3. QED
    BY <2>1, <2>2
<1>3. ASSUME Runs(u \o v, n), NEW i \in 1 .. Len(u) PROVE u[i] = n + i - 1
  BY <1>1, <1>3 DEF Runs
<1>4. ASSUME Runs(u \o v, n), NEW i \in 1 .. Len(v) PROVE v[i] = n + Len(u) + i - 1
  <2>1. i + Len(u) \in 1 .. Len(u) + Len(v) /\ ~(i + Len(u) <= Len(u)) /\ (i + Len(u)) - Len(u) = i
    BY <1>1
  <2>2. (u \o v)[i + Len(u)] = n + (i + Len(u)) - 1
    BY <1>1, <1>4, <2>1 DEF Runs
  <2>3. QED
    BY <1>1, <2>1, <2>2
<1>5. QED
  BY <1>1, <1>2, <1>3, <1>4 DEF Runs

LEMMA RunsPrefix ==
  ASSUME NEW u \in Units, NEW n \in Nat, NEW m \in Nat, Runs(u, n)
  PROVE  Runs(Prefix(u, m), n)
<1>1. /\ Len(Prefix(u, m)) = Lesser(m, Len(u)) /\ Len(u) \in Nat
      /\ \A i \in 1 .. Lesser(m, Len(u)) : Prefix(u, m)[i] = u[i]
  BY PrefixHas, LenProperties DEF Units
<1>2. Lesser(m, Len(u)) \in 0 .. Len(u)
  BY <1>1 DEF Lesser
<1>3. QED
  BY <1>1, <1>2 DEF Runs

LEMMA RunsRest ==
  ASSUME NEW u \in Units, NEW n \in Nat, NEW m \in 0 .. Len(u), Runs(u, n)
  PROVE  Runs(Rest(u, m), n + m)
<1>1. /\ Len(Rest(u, m)) = Len(u) - m /\ Len(u) \in Nat
      /\ \A i \in 1 .. Len(u) - m : Rest(u, m)[i] = u[m + i]
  BY RestHas, LenProperties DEF Units
<1>2. ASSUME NEW i \in 1 .. Len(u) - m PROVE Rest(u, m)[i] = n + m + i - 1
  <2>1. m + i \in 1 .. Len(u)
    BY <1>1
  <2>2. u[m + i] = n + (m + i) - 1
    BY <2>1 DEF Runs
  <2>3. QED
    BY <1>1, <2>2
<1>3. QED
  BY <1>1, <1>2 DEF Runs

(* What is taken from a sequence no longer than what is asked for.         *)
LEMMA Pieces ==
  ASSUME NEW X, NEW u \in Seq(X), NEW m \in 0 .. Len(u)
  PROVE  /\ Prefix(u, m) \in Seq(X) /\ Len(Prefix(u, m)) = m
         /\ Rest(u, m) \in Seq(X) /\ Len(Rest(u, m)) = Len(u) - m
         /\ m \in Nat /\ Len(u) \in Nat
<1>1. Len(u) \in Nat /\ m \in Nat
  BY LenProperties
<1>2. Lesser(m, Len(u)) = m
  BY ONLY <1>1, m \in 0 .. Len(u) DEF Lesser
<1>3. QED
  BY <1>1, <1>2, PrefixHas, RestHas

(* What a buffer holds in front of what was in it.                         *)
LEMMA OverWrites ==
  ASSUME NEW u \in Units, NEW v \in Units, NEW m \in 0 .. Len(u), m <= Len(v)
  PROVE  /\ Prefix(v, m) \o Rest(u, m) \in Units /\ Len(Prefix(v, m) \o Rest(u, m)) = Len(u)
         /\ Prefix(Prefix(v, m) \o Rest(u, m), m) = Prefix(v, m)
<1> DEFINE p == Prefix(v, m)
           r == Rest(u, m)
           w == p \o r
<1>1. Len(v) \in Nat /\ Len(u) \in Nat /\ m \in 0 .. Len(v) /\ m \in Nat
  BY LenProperties DEF Units
<1>2. p \in Units /\ Len(p) = m
  BY <1>1, Pieces DEF Units
<1>3. r \in Units /\ Len(r) = Len(u) - m
  BY Pieces DEF Units
<1> HIDE DEF p, r
<1>4. /\ w \in Units /\ Len(w) = Len(p) + Len(r)
      /\ \A i \in 1 .. Len(p) + Len(r) : w[i] = IF i <= Len(p) THEN p[i] ELSE r[i - Len(p)]
  BY <1>2, <1>3, BothHave DEF Units
<1> HIDE DEF w
<1>5. Len(w) = Len(u) /\ m \in 0 .. Len(w)
  BY <1>1, <1>2, <1>3, <1>4
<1>6. Lesser(m, Len(w)) = m
  BY <1>1, <1>5 DEF Lesser
<1>7. /\ Prefix(w, m) \in Units /\ Len(Prefix(w, m)) = m
      /\ \A i \in 1 .. m : Prefix(w, m)[i] = w[i]
  BY <1>1, <1>4, <1>6, PrefixHas DEF Units
<1>8. Prefix(w, m) = p
  <2>1. ASSUME NEW i \in 1 .. m PROVE Prefix(w, m)[i] = p[i]
    BY <1>1, <1>2, <1>3, <1>4, <1>7
  <2> DEFINE x == Prefix(w, m)
  <2>2. x \in Seq(Nat) /\ p \in Seq(Nat) /\ Len(x) = Len(p) /\ \A i \in 1 .. Len(x) : x[i] = p[i]
    BY <1>2, <1>7, <2>1 DEF Units
  <2> HIDE DEF x
  <2>3. x = p
    BY <2>2, SeqEqual
  <2>4. QED
    BY <2>3 DEF x
<1>9. QED
  BY <1>4, <1>5, <1>8 DEF w, p, r

-----------------------------------------------------------------------------
(* How many members of a set a sequence has.                               *)

Hits(u, X) == {i \in 1 .. Len(u) : u[i] \in X}

HowMany(u, X) == Cardinality(Hits(u, X))

LEMMA HowManyType ==
  ASSUME NEW S, NEW u \in Seq(S), NEW X
  PROVE  IsFiniteSet(Hits(u, X)) /\ HowMany(u, X) \in Nat
<1>1. Len(u) \in Nat /\ IsFiniteSet(1 .. Len(u)) /\ Hits(u, X) \in SUBSET (1 .. Len(u))
  BY LenProperties, FS_Interval DEF Hits
<1>2. IsFiniteSet(Hits(u, X))
  BY <1>1, FS_Subset
<1>3. QED
  BY <1>2, FS_CardinalityType DEF HowMany

LEMMA HowManyNone ==
  ASSUME NEW X
  PROVE  HowMany(<<>>, X) = 0
<1>1. Hits(<<>>, X) = {}
  BY DEF Hits
<1>2. QED
  BY <1>1, FS_EmptySet DEF HowMany

LEMMA HowManyOne ==
  ASSUME NEW x, NEW X
  PROVE  HowMany(<<x>>, X) = IF x \in X THEN 1 ELSE 0
<1>1. Len(<<x>>) = 1 /\ <<x>>[1] = x
  OBVIOUS
<1>2. Hits(<<x>>, X) = IF x \in X THEN {1} ELSE {}
  BY <1>1 DEF Hits
<1>3. Cardinality({1}) = 1 /\ Cardinality({}) = 0
  BY FS_Singleton, FS_EmptySet
<1>4. QED
  BY <1>2, <1>3 DEF HowMany

LEMMA HowManyBoth ==
  ASSUME NEW S, NEW u \in Seq(S), NEW v \in Seq(S), NEW X
  PROVE  HowMany(u \o v, X) = HowMany(u, X) + HowMany(v, X)
<1> DEFINE A == Hits(u, X)
           B == Hits(v, X)
           n == Len(u)
           C == {n + i : i \in B}
           f == [i \in B |-> n + i]
<1>1. /\ Len(u \o v) = Len(u) + Len(v) /\ Len(u) \in Nat /\ Len(v) \in Nat
      /\ \A i \in 1 .. Len(u) + Len(v) : (u \o v)[i] = IF i <= Len(u) THEN u[i] ELSE v[i - Len(u)]
  BY BothHave
<1>2. A \subseteq 1 .. n /\ B \subseteq 1 .. Len(v) /\ B \subseteq Nat
  BY <1>1 DEF Hits
<1>3. Hits(u \o v, X) = A \cup C
  <2>1. ASSUME NEW i \in Hits(u \o v, X) PROVE i \in A \cup C
    <3>1. i \in 1 .. Len(u) + Len(v) /\ (u \o v)[i] \in X
      BY <1>1, <2>1 DEF Hits
    <3>2. CASE i <= Len(u)
      BY <1>1, <3>1, <3>2 DEF Hits
    <3>3. CASE ~(i <= Len(u))
      <4>1. i - n \in 1 .. Len(v) /\ v[i - n] \in X /\ n + (i - n) = i
        BY <1>1, <3>1, <3>3
      <4>2. i - n \in B
        BY <4>1 DEF Hits
      <4>3. QED
        BY <4>1, <4>2
    <3>4. QED
      BY <3>2, <3>3
  <2>2. ASSUME NEW i \in A PROVE i \in Hits(u \o v, X)
    BY <1>1, <2>2 DEF Hits
  <2>3. ASSUME NEW j \in B PROVE n + j \in Hits(u \o v, X)
    <3>1. j \in 1 .. Len(v) /\ v[j] \in X
      BY <2>3 DEF Hits
    <3>2. n + j \in 1 .. Len(u) + Len(v) /\ ~(n + j <= Len(u)) /\ (n + j) - Len(u) = j
      BY <1>1, <3>1
    <3>3. (u \o v)[n + j] = v[j]
      BY <1>1, <3>2
    <3>4. QED
      BY <1>1, <3>1, <3>2, <3>3 DEF Hits
  <2>4. QED
    BY <2>1, <2>2, <2>3
<1>4. IsFiniteSet(A) /\ IsFiniteSet(B) /\ Cardinality(A) \in Nat /\ Cardinality(B) \in Nat
  BY HowManyType DEF HowMany
<1>5. f \in Bijection(B, C)
  <2> HIDE DEF A, B
  <2>1. f \in [B -> C] /\ \A c \in C : \E i \in B : f[i] = c
    OBVIOUS
  <2>2. \A i, j \in B : f[i] = f[j] => i = j
    BY <1>1, <1>2
  <2>3. QED
    BY <2>1, <2>2 DEF Bijection, Injection, Surjection, IsInjective
<1>6. IsFiniteSet(C) /\ Cardinality(C) = Cardinality(B)
  <2>1. ExistsBijection(B, C)
    BY <1>5 DEF ExistsBijection
  <2> HIDE DEF B, C
  <2>2. QED
    BY <1>4, <2>1, FS_Bijection
<1>7. A \cap C = {}
  <2>1. ASSUME NEW i \in A, i \in C PROVE FALSE
    <3>1. PICK j \in B : i = n + j
      BY <2>1
    <3>2. QED
      BY <1>1, <1>2, <2>1, <3>1
  <2>2. QED
    BY <2>1
<1> HIDE DEF A, B, C, n
<1>8. Cardinality(A \cup C) = Cardinality(A) + Cardinality(C) - Cardinality(A \cap C)
  BY <1>4, <1>6, FS_Union
<1>9. Cardinality(A \cap C) = 0
  BY <1>7, FS_EmptySet
<1>10. Cardinality(A \cup C) = Cardinality(A) + Cardinality(B)
  BY <1>4, <1>6, <1>8, <1>9
<1>11. QED
  BY <1>3, <1>10 DEF HowMany, A, B

(* With one more, and without the first.                                   *)
LEMMA HowManyMore ==
  ASSUME NEW S, NEW u \in Seq(S), NEW x \in S, NEW X
  PROVE  HowMany(Append(u, x), X) = HowMany(u, X) + (IF x \in X THEN 1 ELSE 0)
<1> DEFINE o == <<x>>
<1>1. Append(u, x) = u \o o /\ o \in Seq(S) /\ HowMany(o, X) = IF x \in X THEN 1 ELSE 0
  BY AppendIsConcat, HowManyOne
<1> HIDE DEF o
<1>2. HowMany(u \o o, X) = HowMany(u, X) + HowMany(o, X)
  BY <1>1, HowManyBoth
<1>3. QED
  BY <1>1, <1>2

LEMMA HowManyLess ==
  ASSUME NEW S, NEW u \in Seq(S), u # <<>>, NEW X
  PROVE  HowMany(u, X) = (IF u[1] \in X THEN 1 ELSE 0) + HowMany(Tail(u), X)
<1>1. /\ Tail(u) \in Seq(S) /\ Len(Tail(u)) = Len(u) - 1 /\ Len(u) \in Nat \ {0}
      /\ \A i \in 1 .. Len(Tail(u)) : Tail(u)[i] = u[i + 1]
  BY HeadTailProperties, EmptySeq
<1>2. u[1] \in S
  BY <1>1, ElementOfSeq
<1> DEFINE o == <<u[1]>>
           t == Tail(u)
<1>3. o \in Seq(S) /\ Len(o) = 1 /\ o[1] = u[1] /\ HowMany(o, X) = IF u[1] \in X THEN 1 ELSE 0
  BY <1>2, HowManyOne
<1>4. t \in Seq(S) /\ Len(t) = Len(u) - 1 /\ \A i \in 1 .. Len(t) : t[i] = u[i + 1]
  BY <1>1
<1> HIDE DEF o, t
<1>5. /\ o \o t \in Seq(S) /\ Len(o \o t) = Len(o) + Len(t)
      /\ \A i \in 1 .. Len(o) + Len(t) : (o \o t)[i] = IF i <= Len(o) THEN o[i] ELSE t[i - Len(o)]
  BY <1>3, <1>4, BothHave
<1>6. ASSUME NEW i \in 1 .. Len(u) PROVE (o \o t)[i] = u[i]
  <2>1. CASE i = 1
    <3>1. i <= Len(o) /\ i \in 1 .. Len(o) + Len(t)
      BY <1>1, <1>3, <1>4, <2>1
    <3>2. (o \o t)[i] = o[i]
      BY <1>5, <3>1
    <3>3. QED
      BY <1>3, <2>1, <3>2
  <2>2. CASE i > 1
    <3>1. i - 1 \in 1 .. Len(t) /\ ~(i <= Len(o)) /\ i \in 1 .. Len(o) + Len(t) /\ (i - 1) + 1 = i
      BY <1>1, <1>3, <1>4, <2>2
    <3>2. (o \o t)[i] = t[i - Len(o)] /\ i - Len(o) = i - 1
      BY <1>3, <1>5, <3>1
    <3>3. t[i - 1] = u[i]
      BY <1>4, <3>1
    <3>4. QED
      BY <3>2, <3>3
  <2>3. i = 1 \/ i > 1
    BY <1>1
  <2>4. QED
    BY ONLY <2>1, <2>2, <2>3
<1>7. o \o t = u
  <2> DEFINE w == o \o t
  <2>1. w \in Seq(S) /\ Len(w) = Len(u) /\ \A i \in 1 .. Len(w) : w[i] = u[i]
    BY <1>1, <1>3, <1>4, <1>5, <1>6
  <2> HIDE DEF w
  <2>2. w = u
    BY <2>1, SeqEqual
  <2>3. QED
    BY <2>2 DEF w
<1>8. HowMany(o \o t, X) = HowMany(o, X) + HowMany(t, X)
  BY <1>3, <1>4, HowManyBoth
<1>9. QED
  BY <1>3, <1>7, <1>8 DEF t

-----------------------------------------------------------------------------
(* The types of the state.                                                 *)

GroupSizes == NumBufs \in Nat \ {0} /\ BufSize \in Nat \ {0} /\ CacheSize \in Nat \ {0} /\ RecordSize \in Nat \ {0}

Phases == {"none", "accept", "flight", "open", "broken"}

Ssl == [phase : Phases, rbio : Units, wbio : Units, held : Units, clear : BOOLEAN, expected : Nat]

CacheEntry == {k \in [buf : Units, len : 0 .. CacheSize] : Len(k.buf) = CacheSize}

BufContents == {u \in Units : Len(u) = BufSize}

Recv == [op : {"RECV"}, fd : Connections, cb : {"RECV", "WRITEV"}]

Entry == {Provide} \cup Recv \cup [op : {"WRITEV"}, fd : Connections]

Received ==
  {k \in [op : {"RECV"}, fd : Connections, cb : {"RECV", "WRITEV"}, buf : 0 .. NumBufs,
          units : 0 .. BufSize, more : BOOLEAN] : k.units > 0 => k.buf # 0}

Completed == Received \cup [op : {"WRITEV"}, fd : Connections, cb : {"WRITEV"}]

Handed == {k \in Received : k.units > 0 /\ k.cb = "RECV"}

UnderWay == [fd : Connections, len : 0 .. CacheSize]

(* The client is before its hello, before its finished or between records. *)
Sends(c) ==
  next[c] = HELLO \/ next[c] = FINISHED \/ \E m \in 0 .. load.records[c] : next[c] = FINISHED + 1 + m * RecordSize

ClientTyped ==
  /\ load \in Loads
  /\ wire \in [Connections -> Units] /\ back \in [Connections -> Units]
  /\ next \in [Connections -> Nat]
  /\ \A c \in DOMAIN load.records : Sends(c)

ProgramTyped ==
  /\ ssl \in [Connections -> Ssl] /\ cache \in [Connections -> CacheEntry]
  /\ \A c \in Connections : ssl[c].phase # "none" => c \in DOMAIN load.records
  /\ used \in Nat /\ called \in {None} \cup Handed

KernelTyped ==
  /\ bufs \in [1 .. NumBufs -> BufContents] /\ free \in Seq(1 .. NumBufs)
  /\ armed \in Seq(Recv) /\ writes \in Seq(UnderWay)

EchoTyped ==
  /\ ClientTyped /\ ProgramTyped /\ KernelTyped
  /\ sq \in Seq(Entry) /\ cq \in Seq(Completed)
  /\ mishaps \in [Connections -> SUBSET Mishaps]

LEMMA SizesAre == GroupSizes
BY SizesAssumption DEF GroupSizes

LEMMA LoadHas ==
  ASSUME load \in Loads
  PROVE  /\ DOMAIN load.records \subseteq Connections /\ load.read \in Nat
         /\ \A c \in DOMAIN load.records : load.records[c] \in Nat
<1>1. PICK clients \in SUBSET Connections : load.records \in [clients -> Nat]
  BY LoadsAssumption
<1>2. load.read \in Nat
  BY LoadsAssumption
<1>3. QED
  BY <1>1, <1>2

LEMMA EntriesAre ==
  /\ Provide \in Entry /\ Provide.op = "PROVIDE_BUFFERS"
  /\ \A c \in Connections :
       /\ Writev(c) \in Entry /\ Writev(c).op = "WRITEV" /\ Writev(c).fd = c /\ Writev(c) # Provide
       /\ \A cb \in {"RECV", "WRITEV"} :
            /\ RecvMulti(c, cb) \in Recv /\ RecvMulti(c, cb) \in Entry
            /\ RecvMulti(c, cb).op = "RECV" /\ RecvMulti(c, cb) # Provide
BY DEF Entry, Recv, Provide, Writev, RecvMulti

LEMMA EntryKinds ==
  ASSUME NEW e \in Entry
  PROVE  /\ e.op = "PROVIDE_BUFFERS" <=> e = Provide
         /\ e.op = "RECV" => e \in Recv
         /\ e.op = "WRITEV" => e.fd \in Connections /\ e = Writev(e.fd)
<1>1. CASE e = Provide
  BY <1>1, EntriesAre DEF Provide
<1>2. CASE e \in Recv
  BY <1>2 DEF Recv, Provide
<1>3. CASE e \in [op : {"WRITEV"}, fd : Connections]
  BY <1>3 DEF Writev, Provide
<1>4. QED
  BY <1>1, <1>2, <1>3 DEF Entry

LEMMA CompletionKinds ==
  ASSUME NEW k \in Completed
  PROVE  /\ k.op \in {"RECV", "WRITEV"} /\ k.fd \in Connections /\ k.cb \in {"RECV", "WRITEV"}
         /\ k.op = "RECV" => /\ k \in Received /\ k.buf \in 0 .. NumBufs /\ k.units \in 0 .. BufSize
                             /\ k.more \in BOOLEAN
                             /\ k.units > 0 => k.buf \in 1 .. NumBufs
         /\ k.op = "WRITEV" => k.cb = "WRITEV"
<1>1. CASE k \in Received
  <2>1. k.op = "RECV" /\ k.fd \in Connections /\ k.cb \in {"RECV", "WRITEV"} /\ k.more \in BOOLEAN
    BY <1>1 DEF Received
  <2>2. k.buf \in 0 .. NumBufs /\ k.units \in 0 .. BufSize /\ (k.units > 0 => k.buf # 0)
    BY <1>1 DEF Received
  <2>3. k.units > 0 => k.buf \in 1 .. NumBufs
    BY <2>2, SizesAre DEF GroupSizes
  <2>4. QED
    BY <1>1, <2>1, <2>2, <2>3
<1>2. CASE k \in [op : {"WRITEV"}, fd : Connections, cb : {"WRITEV"}]
  BY <1>2
<1>3. QED
  BY <1>1, <1>2 DEF Completed

LEMMA CompletionsMade ==
  ASSUME NEW c \in Connections, NEW cb \in {"RECV", "WRITEV"}, NEW b \in 1 .. NumBufs, NEW n \in 1 .. BufSize,
         NEW more \in BOOLEAN
  PROVE  /\ [op |-> "RECV", fd |-> c, cb |-> cb, buf |-> b, units |-> n, more |-> more] \in Completed
         /\ [op |-> "RECV", fd |-> c, cb |-> cb, buf |-> 0, units |-> 0, more |-> FALSE] \in Completed
         /\ [op |-> "WRITEV", fd |-> c, cb |-> "WRITEV"] \in Completed
<1>1. /\ b \in 0 .. NumBufs /\ n \in 0 .. BufSize /\ b # 0 /\ 0 \in 0 .. NumBufs /\ 0 \in 0 .. BufSize
      /\ ~(0 > 0)
  BY SizesAre DEF GroupSizes
<1>2. [op |-> "RECV", fd |-> c, cb |-> cb, buf |-> b, units |-> n, more |-> more] \in Received
  BY <1>1 DEF Received
<1>3. [op |-> "RECV", fd |-> c, cb |-> cb, buf |-> 0, units |-> 0, more |-> FALSE] \in Received
  BY <1>1 DEF Received
<1>4. [op |-> "WRITEV", fd |-> c, cb |-> "WRITEV"] \in [op : {"WRITEV"}, fd : Connections, cb : {"WRITEV"}]
  OBVIOUS
<1>5. QED
  BY <1>2, <1>3, <1>4 DEF Completed

LEMMA HandedHas ==
  ASSUME called \in {None} \cup Handed, called # None
  PROVE  /\ called \in Received /\ called.op = "RECV" /\ called.cb = "RECV" /\ called.fd \in Connections
         /\ called.buf \in 1 .. NumBufs /\ called.units \in 1 .. BufSize /\ called.more \in BOOLEAN
<1>1. called \in Received /\ called.units > 0 /\ called.cb = "RECV"
  BY DEF Handed
<1>2. called \in Completed /\ called.op = "RECV"
  BY <1>1 DEF Completed, Received
<1>3. /\ called.fd \in Connections /\ called.buf \in 1 .. NumBufs
      /\ called.units \in 0 .. BufSize /\ called.more \in BOOLEAN
  BY <1>1, <1>2, CompletionKinds
<1>4. QED
  BY <1>1, <1>2, <1>3, SizesAre DEF GroupSizes

-----------------------------------------------------------------------------
(* What the callbacks do to the SSL of a connection.                       *)

LEMMA SslHas ==
  ASSUME NEW s \in Ssl
  PROVE  /\ s.phase \in Phases /\ s.rbio \in Units /\ s.wbio \in Units /\ s.held \in Units /\ s.expected \in Nat
         /\ s.clear \in BOOLEAN
         /\ Len(s.rbio) \in Nat /\ Len(s.wbio) \in Nat /\ Len(s.held) \in Nat
<1>1. /\ s.phase \in Phases /\ s.rbio \in Units /\ s.wbio \in Units /\ s.held \in Units /\ s.expected \in Nat
      /\ s.clear \in BOOLEAN
  BY DEF Ssl
<1>2. QED
  BY <1>1, LenProperties DEF Units

(* PushReadBIO. *)
Given(c) == [ssl[c] EXCEPT !.rbio = @ \o Filled(bufs[called.buf], called.units)]

Handled(s) ==
  CASE s.phase \in {"accept", "flight"} -> DoHandshake(s)
    [] IsInitFinished(s)                -> ReadAndEcho(s)
    [] OTHER                            -> s

LEMMA GivenHas ==
  ASSUME EchoTyped, called # None
  PROVE  LET c == called.fd  p == Filled(bufs[called.buf], called.units) IN
         /\ c \in Connections /\ p \in Units /\ Len(p) = called.units
         /\ Given(c) \in Ssl /\ Given(c).rbio = ssl[c].rbio \o p
         /\ Given(c).phase = ssl[c].phase /\ Given(c).wbio = ssl[c].wbio
         /\ Given(c).held = ssl[c].held /\ Given(c).expected = ssl[c].expected
<1> DEFINE c == called.fd
           p == Filled(bufs[called.buf], called.units)
           s == ssl[c]
<1>1. c \in Connections /\ called.buf \in 1 .. NumBufs /\ called.units \in 1 .. BufSize
  BY HandedHas DEF EchoTyped, ProgramTyped
<1>2. bufs[called.buf] \in Units /\ Len(bufs[called.buf]) = BufSize
  BY <1>1 DEF EchoTyped, KernelTyped, BufContents
<1>3. called.units \in 0 .. Len(bufs[called.buf])
  BY <1>1, <1>2, SizesAre DEF GroupSizes
<1>4. p \in Units /\ Len(p) = called.units
  BY <1>2, <1>3, Pieces DEF Units, Filled
<1>5. s \in Ssl /\ s.rbio \in Units
  BY <1>1 DEF EchoTyped, ProgramTyped, Ssl
<1> HIDE DEF p
<1>6. s.rbio \o p \in Units
  BY <1>4, <1>5, BothHave DEF Units
<1>7. Given(c) = [s EXCEPT !.rbio = s.rbio \o p]
  BY DEF Given, p
<1> HIDE DEF s, c
<1> DEFINE r == s.rbio \o p
<1>8. Given(c) = [s EXCEPT !.rbio = r] /\ r \in Units
  BY <1>6, <1>7
<1> HIDE DEF r
<1>9. Given(c) \in Ssl /\ Given(c).rbio = r
  BY <1>5, <1>8 DEF Ssl
<1>10. Given(c).phase = s.phase /\ Given(c).wbio = s.wbio /\ Given(c).held = s.held /\ Given(c).expected = s.expected
  BY <1>5, <1>8 DEF Ssl
<1>11. QED
  BY <1>1, <1>4, <1>9, <1>10 DEF r, s, p, c

LEMMA HandshakeHas ==
  ASSUME NEW s \in Ssl
  PROVE  LET d == DoHandshake(s) IN
         /\ d \in Ssl /\ d.held = s.held /\ d.expected = s.expected
         /\ \/ s.rbio = <<>> /\ d = s
            \/ /\ s.phase = "accept" /\ s.rbio # <<>> /\ s.rbio[1] = HELLO
               /\ d.phase = "flight" /\ d.rbio = Tail(s.rbio) /\ d.wbio = Append(s.wbio, HELLO)
            \/ /\ s.phase = "flight" /\ s.rbio # <<>> /\ s.rbio[1] = FINISHED
               /\ d.phase = "open" /\ d.rbio = Tail(s.rbio) /\ d.wbio = Append(s.wbio, FINISHED)
            \/ /\ ~(s.phase = "accept" /\ s.rbio[1] = HELLO) /\ ~(s.phase = "flight" /\ s.rbio[1] = FINISHED)
               /\ s.rbio # <<>> /\ d.phase = "broken" /\ d.rbio = s.rbio /\ d.wbio = s.wbio
<1> DEFINE d == DoHandshake(s)
           t == Tail(s.rbio)
           h == Append(s.wbio, HELLO)
           f == Append(s.wbio, FINISHED)
<1>1. CASE s.rbio = <<>>
  BY <1>1 DEF DoHandshake
<1>2. CASE s.rbio # <<>>
  <2>1. t \in Units
    BY <1>2, SslHas, HeadTailProperties DEF Units
  <2>2. HELLO \in Nat /\ FINISHED \in Nat
    BY DEF HELLO, FINISHED
  <2>3. h \in Units /\ f \in Units
    BY <2>2, SslHas, AppendProperties DEF Units
  <2>4. /\ d = CASE s.phase = "accept" /\ s.rbio[1] = HELLO -> [s EXCEPT !.phase = "flight", !.rbio = t, !.wbio = h]
                 [] s.phase = "flight" /\ s.rbio[1] = FINISHED -> [s EXCEPT !.phase = "open", !.rbio = t, !.wbio = f]
                 [] OTHER -> [s EXCEPT !.phase = "broken"]
    BY <1>2 DEF DoHandshake
  <2> HIDE DEF d, t, h, f
  <2>5. CASE s.phase = "accept" /\ s.rbio[1] = HELLO
    <3>1. d = [s EXCEPT !.phase = "flight", !.rbio = t, !.wbio = h]
      BY <2>4, <2>5
    <3>2. d \in Ssl /\ d.held = s.held /\ d.expected = s.expected /\ d.phase = "flight" /\ d.rbio = t /\ d.wbio = h
      BY <2>1, <2>3, <3>1 DEF Ssl, Phases
    <3>3. QED
      BY <1>2, <2>5, <3>2 DEF d, t, h
  <2>6. CASE s.phase = "flight" /\ s.rbio[1] = FINISHED
    <3>1. d = [s EXCEPT !.phase = "open", !.rbio = t, !.wbio = f]
      BY <2>4, <2>6
    <3>2. d \in Ssl /\ d.held = s.held /\ d.expected = s.expected /\ d.phase = "open" /\ d.rbio = t /\ d.wbio = f
      BY <2>1, <2>3, <3>1 DEF Ssl, Phases
    <3>3. QED
      BY <1>2, <2>6, <3>2 DEF d, t, f
  <2>7. CASE ~(s.phase = "accept" /\ s.rbio[1] = HELLO) /\ ~(s.phase = "flight" /\ s.rbio[1] = FINISHED)
    <3>1. d = [s EXCEPT !.phase = "broken"]
      BY <2>4, <2>7
    <3>2. /\ d \in Ssl /\ d.held = s.held /\ d.expected = s.expected /\ d.phase = "broken"
          /\ d.rbio = s.rbio /\ d.wbio = s.wbio
      BY <3>1 DEF Ssl, Phases
    <3>3. QED
      BY <1>2, <2>7, <3>2 DEF d
  <2>8. QED
    BY <2>5, <2>6, <2>7
<1>3. QED
  BY <1>1, <1>2

(* What is read of a record that is decrypted, and echoed.                 *)
LEMMA EchoHas ==
  ASSUME load.read \in Nat, NEW s \in Ssl, NEW record \in Units, NEW rbio \in Units
  PROVE  \E n \in 0 .. Len(record) :
           LET d == Echo(s, record, rbio) IN
           /\ d \in Ssl /\ d.held = Rest(record, n) /\ d.rbio = rbio /\ d.wbio = s.wbio \o Prefix(record, n)
           /\ d.phase = s.phase /\ d.expected = s.expected + n
<1> DEFINE n == Lesser(load.read, Len(record))
           d == Echo(s, record, rbio)
           rest == Rest(record, n)
           out == s.wbio \o Prefix(record, n)
           clear == n < Len(record)
           k == s.expected + n
<1>1. Len(record) \in Nat
  BY LenProperties DEF Units
<1>2. n \in 0 .. Len(record) /\ n \in Nat
  BY <1>1 DEF Lesser
<1>3. d = [s EXCEPT !.held = rest, !.clear = clear, !.rbio = rbio, !.wbio = out, !.expected = k]
  BY SslHas DEF Echo
<1> HIDE DEF n
<1>4. rest \in Units /\ Prefix(record, n) \in Units
  BY <1>2, Pieces DEF Units
<1>5. out \in Units
  BY <1>4, SslHas, BothHave DEF Units
<1>6. k \in Nat
  BY <1>2, SslHas
<1>7. clear \in BOOLEAN
  OBVIOUS
<1> HIDE DEF d, rest, out, clear, k
<1>8. d \in Ssl /\ d.held = rest /\ d.rbio = rbio /\ d.wbio = out /\ d.phase = s.phase /\ d.expected = k
  BY <1>3, <1>4, <1>5, <1>6, <1>7 DEF Ssl
<1>9. QED
  BY <1>2, <1>8 DEF d, rest, out, k

(* What SSL_read and the echo do: nothing with a part of a record, or they *)
(* read n units of the record r that is decrypted.                         *)
LEMMA ReadHas ==
  ASSUME load.read \in Nat, NEW s \in Ssl
  PROVE  LET d == ReadAndEcho(s)
             all == s.held \o s.rbio
             record == Prefix(all, RecordSize) IN
         /\ d \in Ssl
         /\ \/ /\ ~s.clear /\ Len(all) < RecordSize /\ d.held = all /\ d.rbio = <<>>
               /\ d.phase = s.phase /\ d.wbio = s.wbio /\ d.expected = s.expected
            \/ ~s.clear /\ Len(all) >= RecordSize /\ ~Sound(s, record) /\ d.phase = "broken"
            \/ \E r \in Units, rest \in Units : \E n \in 0 .. Len(r) :
                 /\ \/ s.clear /\ r = s.held /\ rest = s.rbio
                    \/ ~s.clear /\ Len(all) >= RecordSize /\ r = record /\ rest = Rest(all, RecordSize)
                 /\ d.held = Rest(r, n) /\ d.rbio = rest /\ d.wbio = s.wbio \o Prefix(r, n)
                 /\ d.phase = s.phase /\ d.expected = s.expected + n
<1> DEFINE d == ReadAndEcho(s)
           all == s.held \o s.rbio
           record == Prefix(all, RecordSize)
           rest == Rest(all, RecordSize)
<1>1. all \in Units /\ Len(all) \in Nat
  <2>1. all \in Units
    BY SslHas, BothHave DEF Units
  <2> HIDE DEF all
  <2>2. QED
    BY <2>1, LenProperties DEF Units
<1>2. d = IF s.clear THEN Echo(s, s.held, s.rbio)
          ELSE IF Len(all) < RecordSize THEN [s EXCEPT !.held = all, !.rbio = <<>>]
          ELSE IF ~Sound(s, record) THEN [s EXCEPT !.phase = "broken"]
          ELSE Echo(s, record, rest)
  BY DEF ReadAndEcho
<1>3. <<>> \in Units
  BY EmptySeq DEF Units
<1>4. Len(all) >= RecordSize => record \in Units /\ rest \in Units
  <2> SUFFICES ASSUME Len(all) >= RecordSize PROVE record \in Units /\ rest \in Units
    OBVIOUS
  <2> HIDE DEF all
  <2>1. RecordSize \in 0 .. Len(all)
    BY <1>1, SizesAre DEF GroupSizes
  <2>2. QED
    BY <1>1, <2>1, Pieces DEF Units
<1> HIDE DEF d, all, record, rest
<1>5. CASE s.clear
  <2>1. d = Echo(s, s.held, s.rbio)
    BY <1>2, <1>5
  <2>2. s.held \in Units /\ s.rbio \in Units
    BY SslHas
  <2>3. PICK n \in 0 .. Len(s.held) :
          /\ d \in Ssl /\ d.held = Rest(s.held, n) /\ d.rbio = s.rbio /\ d.wbio = s.wbio \o Prefix(s.held, n)
          /\ d.phase = s.phase /\ d.expected = s.expected + n
    BY <2>1, <2>2, EchoHas
  <2>4. QED
    BY <1>5, <2>2, <2>3 DEF d
<1>6. CASE ~s.clear /\ Len(all) < RecordSize
  <2>1. d = [s EXCEPT !.held = all, !.rbio = <<>>]
    BY <1>2, <1>6
  <2>2. /\ d \in Ssl /\ d.held = all /\ d.rbio = <<>>
        /\ d.phase = s.phase /\ d.wbio = s.wbio /\ d.expected = s.expected
    BY <1>1, <1>3, <2>1 DEF Ssl
  <2>3. QED
    BY <1>6, <2>2 DEF d, all
<1>7. CASE ~s.clear /\ Len(all) >= RecordSize
  <2>1. ~(Len(all) < RecordSize)
    BY <1>1, <1>7, SizesAre DEF GroupSizes
  <2>2. CASE ~Sound(s, record)
    <3>1. d = [s EXCEPT !.phase = "broken"]
      BY ONLY <2>1, <2>2, <1>2, <1>7
    <3>2. d \in Ssl /\ d.phase = "broken"
      BY <3>1 DEF Ssl, Phases
    <3>3. QED
      BY <1>7, <2>2, <3>2 DEF d, all, record
  <2>3. CASE Sound(s, record)
    <3>1. d = Echo(s, record, rest)
      BY ONLY <2>1, <2>3, <1>2, <1>7
    <3>2. record \in Units /\ rest \in Units
      BY <1>4, <1>7
    <3>3. PICK n \in 0 .. Len(record) :
            /\ d \in Ssl /\ d.held = Rest(record, n) /\ d.rbio = rest /\ d.wbio = s.wbio \o Prefix(record, n)
            /\ d.phase = s.phase /\ d.expected = s.expected + n
      BY <3>1, <3>2, EchoHas
    <3>4. QED
      BY <1>7, <3>2, <3>3 DEF d, all, record, rest
  <2>4. QED
    BY <2>2, <2>3
<1>8. Len(all) < RecordSize \/ Len(all) >= RecordSize
  BY <1>1, SizesAre DEF GroupSizes
<1>9. s.clear \in BOOLEAN
  BY SslHas
<1>10. QED
  BY <1>5, <1>6, <1>7, <1>8, <1>9

LEMMA HandledHas ==
  ASSUME load.read \in Nat, NEW s \in Ssl
  PROVE  /\ Handled(s) \in Ssl
         /\ s.phase \in {"accept", "flight"} => Handled(s) = DoHandshake(s)
         /\ s.phase = "open" => Handled(s) = ReadAndEcho(s)
         /\ s.phase \notin {"accept", "flight", "open"} => Handled(s) = s
         /\ s.phase = "none" <=> Handled(s).phase = "none"
<1>1. /\ s.phase \in {"accept", "flight"} => Handled(s) = DoHandshake(s)
      /\ s.phase = "open" => Handled(s) = ReadAndEcho(s)
      /\ s.phase \notin {"accept", "flight", "open"} => Handled(s) = s
  BY DEF Handled, IsInitFinished
<1>2. DoHandshake(s) \in Ssl /\ ReadAndEcho(s) \in Ssl
  BY HandshakeHas, ReadHas
<1>3. s.phase \in {"accept", "flight"} => DoHandshake(s).phase # "none"
  BY HandshakeHas
<1>4. s.phase = "open" => ReadAndEcho(s).phase # "none"
  BY ReadHas
<1>5. QED
  BY <1>1, <1>2, <1>3, <1>4

LEMMA DrainHas ==
  ASSUME EchoTyped, NEW c \in Connections, NEW s \in Ssl, s.phase # "none" => c \in DOMAIN load.records,
         NEW extra \in Seq(Entry), DrainAndWrite(c, s, extra)
  PROVE  \E n \in 0 .. Len(s.wbio) :
           /\ n <= CacheSize /\ (n = 0 <=> s.wbio = <<>>)
           /\ ssl' \in [Connections -> Ssl] /\ \A d \in Connections : d # c => ssl'[d] = ssl[d]
           /\ ssl'[c].phase = s.phase /\ ssl'[c].rbio = s.rbio /\ ssl'[c].held = s.held
           /\ ssl'[c].expected = s.expected /\ ssl'[c].wbio = Rest(s.wbio, n)
           /\ \A d \in Connections : ssl'[d].phase # "none" => d \in DOMAIN load.records
           /\ cache' \in [Connections -> CacheEntry] /\ \A d \in Connections : d # c => cache'[d] = cache[d]
           /\ IF n = 0 THEN cache'[c] = cache[c]
              ELSE cache'[c].len = n /\ Prefix(cache'[c].buf, n) = Prefix(s.wbio, n)
           /\ sq' \in Seq(Entry) /\ sq' = (sq \o (IF n = 0 THEN <<>> ELSE <<Writev(c)>>)) \o extra
<1> DEFINE n == Lesser(PendingWrite(s), CacheSize)
           w == Rest(s.wbio, n)
           l == [s EXCEPT !.wbio = Rest(@, n)]
           b == Prefix(s.wbio, n) \o Rest(cache[c].buf, n)
           o == IF n = 0 THEN <<>> ELSE <<Writev(c)>>
<1>1. n \in 0 .. Len(s.wbio) /\ n <= CacheSize /\ (n = 0 <=> s.wbio = <<>>) /\ n \in Nat
  <2>1. Len(s.wbio) \in Nat /\ (Len(s.wbio) = 0 <=> s.wbio = <<>>)
    BY SslHas, EmptySeq DEF Units
  <2>2. QED
    BY <2>1, SizesAre DEF Lesser, PendingWrite, GroupSizes
<1>2. /\ ssl' = [ssl EXCEPT ![c] = l]
      /\ cache' = IF n = 0 THEN cache
                  ELSE [cache EXCEPT ![c] = [buf |-> Prefix(s.wbio, n) \o Rest(@.buf, n), len |-> n]]
      /\ sq' = (sq \o o) \o extra
  BY DEF DrainAndWrite
<1> HIDE DEF n
<1>3. w \in Units
  BY <1>1, SslHas, Pieces DEF Units
<1>4. /\ l \in Ssl /\ l.phase = s.phase /\ l.rbio = s.rbio /\ l.held = s.held
      /\ l.expected = s.expected /\ l.wbio = w
  <2>1. l = [s EXCEPT !.wbio = w]
    OBVIOUS
  <2> HIDE DEF w, l
  <2>2. QED
    BY <1>3, <2>1 DEF Ssl
<1>5. ssl \in [Connections -> Ssl] /\ cache \in [Connections -> CacheEntry] /\ sq \in Seq(Entry)
  BY DEF EchoTyped, ProgramTyped
<1>6. /\ ssl' \in [Connections -> Ssl] /\ ssl'[c] = l /\ \A d \in Connections : d # c => ssl'[d] = ssl[d]
  <2> HIDE DEF l
  <2>1. QED
    BY <1>2, <1>4, <1>5
<1>7. \A d \in Connections : ssl'[d].phase # "none" => d \in DOMAIN load.records
  <2> HIDE DEF l
  <2>1. QED
    BY <1>4, <1>6 DEF EchoTyped, ProgramTyped
<1>8. b \in Units /\ Len(b) = CacheSize /\ Prefix(b, n) = Prefix(s.wbio, n)
  <2>1. cache[c].buf \in Units /\ Len(cache[c].buf) = CacheSize
    BY <1>5 DEF CacheEntry
  <2>2. n \in 0 .. Len(cache[c].buf) /\ n <= Len(s.wbio) /\ s.wbio \in Units
    BY <1>1, <2>1, SslHas, SizesAre DEF GroupSizes
  <2>3. QED
    BY <2>1, <2>2, OverWrites
<1>9. /\ cache' \in [Connections -> CacheEntry] /\ \A d \in Connections : d # c => cache'[d] = cache[d]
      /\ IF n = 0 THEN cache'[c] = cache[c]
         ELSE cache'[c].len = n /\ Prefix(cache'[c].buf, n) = Prefix(s.wbio, n)
  <2> DEFINE e == [buf |-> b, len |-> n]
  <2>1. CASE n = 0
    BY <1>2, <1>5, <2>1
  <2>2. CASE n # 0
    <3>1. cache' = [cache EXCEPT ![c] = e]
      BY <1>2, <1>5, <2>2
    <3>2. e \in CacheEntry /\ e.buf = b /\ e.len = n
      <4> HIDE DEF b
      <4>1. n \in 0 .. CacheSize
        BY <1>1, SizesAre DEF GroupSizes
      <4>2. QED
        BY <1>8, <4>1 DEF CacheEntry
    <3> HIDE DEF e, b
    <3>3. /\ cache' \in [Connections -> CacheEntry] /\ cache'[c] = e
          /\ \A d \in Connections : d # c => cache'[d] = cache[d]
      BY <1>5, <3>1, <3>2
    <3>4. QED
      BY <1>8, <2>2, <3>2, <3>3
  <2>3. QED
    BY <2>1, <2>2
<1>10. sq' \in Seq(Entry)
  <2>1. o \in Seq(Entry)
    <3>1. Writev(c) \in Entry
      BY EntriesAre
    <3>2. QED
      BY <3>1
  <2> HIDE DEF o
  <2>2. sq \o o \in Seq(Entry)
    BY <1>5, <2>1, BothHave
  <2>3. QED
    BY <1>2, <2>2, BothHave
<1>11. QED
  BY <1>1, <1>2, <1>4, <1>6, <1>7, <1>9, <1>10

-----------------------------------------------------------------------------
(* The types are kept.                                                     *)

LEMMA EchoTypedInitial == EchoInit => EchoTyped
<1> SUFFICES ASSUME EchoInit PROVE EchoTyped
  OBVIOUS
<1>1. <<>> \in Units /\ HELLO \in Nat /\ FINISHED + 1 \in Nat
  BY EmptySeq DEF Units, HELLO, FINISHED
<1>2. ClientTyped
  <2>1. /\ load \in Loads /\ wire = [c \in Connections |-> <<>>] /\ back = [c \in Connections |-> <<>>]
        /\ next = [c \in Connections |-> HELLO]
    BY DEF EchoInit
  <2>2. wire \in [Connections -> Units] /\ back \in [Connections -> Units] /\ next \in [Connections -> Nat]
    BY <1>1, <2>1
  <2>3. \A c \in DOMAIN load.records : Sends(c)
    BY <2>1, LoadHas DEF Sends
  <2>4. QED
    BY <2>1, <2>2, <2>3 DEF ClientTyped
<1>3. ProgramTyped
  <2> DEFINE s == [phase |-> "none", rbio |-> <<>>, wbio |-> <<>>, held |-> <<>>, clear |-> FALSE,
                   expected |-> FINISHED + 1]
  <2>1. s \in Ssl /\ s.phase = "none"
    BY <1>1 DEF Ssl, Phases
  <2>2. ssl = [c \in Connections |-> s]
    BY DEF EchoInit
  <2> HIDE DEF s
  <2>3. NewCache \in CacheEntry
    <3> DEFINE z == [i \in 1 .. CacheSize |-> 0]
    <3>1. z \in Units /\ Len(z) = CacheSize
      BY SizesAre DEF GroupSizes, Units
    <3>2. CacheSize \in 0 .. CacheSize
      BY SizesAre DEF GroupSizes
    <3> HIDE DEF z
    <3>3. [buf |-> z, len |-> CacheSize] \in CacheEntry
      BY <3>1, <3>2 DEF CacheEntry
    <3>4. QED
      BY <3>3 DEF NewCache, z
  <2>4. cache = [c \in Connections |-> NewCache] /\ used = 0 /\ called = None
    BY DEF EchoInit
  <2>5. QED
    BY <2>1, <2>2, <2>3, <2>4 DEF ProgramTyped
<1>4. KernelTyped
  <2> DEFINE z == [i \in 1 .. BufSize |-> 0]
  <2>1. z \in BufContents
    BY SizesAre DEF GroupSizes, Units, BufContents
  <2>2. bufs = [b \in 1 .. NumBufs |-> z]
    BY DEF EchoInit
  <2> HIDE DEF z
  <2>3. free = <<>> /\ armed = <<>> /\ writes = <<>>
    BY DEF EchoInit
  <2>4. QED
    BY <2>1, <2>2, <2>3 DEF KernelTyped
<1>5. sq \in Seq(Entry) /\ cq \in Seq(Completed)
  <2>1. Provide \in Entry
    BY EntriesAre
  <2>2. QED
    BY <2>1 DEF EchoInit
<1>6. mishaps \in [Connections -> SUBSET Mishaps]
  BY DEF EchoInit
<1>7. QED
  BY <1>2, <1>3, <1>4, <1>5, <1>6 DEF EchoTyped

(* A multiple that is less is less by a whole factor. *)
LEMMA Factor ==
  ASSUME NEW m \in Nat, NEW r \in Nat, NEW f \in Nat, m * f < r * f
  PROVE  m + 1 <= r /\ (m + 1) * f <= r * f /\ (m + 1) * f = m * f + f
<1>1. m < r
  <2>1. SUFFICES ASSUME r <= m PROVE FALSE
    OBVIOUS
  <2>2. PICK k \in Nat : m = r + k
    BY <2>1
  <2>3. m * f = r * f + k * f /\ k * f >= 0
    BY <2>2
  <2>4. QED
    BY <2>3
<1>2. PICK k \in Nat : r = (m + 1) + k
  BY <1>1
<1>3. r * f = (m + 1) * f + k * f /\ k * f >= 0
  BY <1>2
<1>4. QED
  BY <1>1, <1>3

(* What the client sends are the units from next on, and it is between     *)
(* records then, or before its finished.                                   *)
LEMMA SendHas ==
  ASSUME EchoTyped, NEW c \in Connections, Send(c)
  PROVE  \E v \in Units :
           /\ wire' = [wire EXCEPT ![c] = @ \o v] /\ next' = [next EXCEPT ![c] = @ + Len(v)]
           /\ Runs(v, next[c]) /\ Sends(c)' /\ c \in DOMAIN load.records
<1> DEFINE last == IF next[c] <= FINISHED THEN next[c] ELSE next[c] + RecordSize - 1
           v == SubSeq(Stream(c), next[c], last)
           size == 2 + load.records[c] * RecordSize
<1>1. /\ ssl[c].phase # "none" /\ next[c] \in DOMAIN Stream(c) /\ load' = load
      /\ next' = [next EXCEPT ![c] = last + 1]
      /\ wire' = [wire EXCEPT ![c] = @ \o v]
  BY DEF Send
<1>2. c \in DOMAIN load.records /\ load.records[c] \in Nat /\ RecordSize \in Nat /\ RecordSize > 0
  BY <1>1, LoadHas, SizesAre DEF EchoTyped, ProgramTyped, ClientTyped, GroupSizes
<1>3. size \in Nat /\ next[c] \in 1 .. size /\ Stream(c) = [i \in 1 .. size |-> i]
  <2>1. size \in Nat
    BY <1>2
  <2>2. Stream(c) = [i \in 1 .. size |-> i]
    BY DEF Stream
  <2> HIDE DEF size
  <2>3. QED
    BY <1>1, <2>1, <2>2
<1>4. /\ last \in next[c] .. size
      /\ next'[c] = FINISHED \/ \E m \in 0 .. load.records[c] : next'[c] = FINISHED + 1 + m * RecordSize
  <2>0. next'[c] = last + 1
    BY <1>1 DEF EchoTyped, ClientTyped
  <2>1. CASE next[c] = HELLO
    <3>1. last = 1 /\ next[c] = 1
      BY <2>1 DEF HELLO, FINISHED
    <3>2. QED
      BY <1>3, <2>0, <3>1 DEF FINISHED
  <2>2. CASE next[c] = FINISHED
    <3>1. last = 2 /\ next[c] = 2
      BY <2>2 DEF FINISHED
    <3>2. 0 \in 0 .. load.records[c] /\ last + 1 = FINISHED + 1 + 0 * RecordSize
      BY <1>2, <3>1 DEF FINISHED
    <3>3. QED
      BY <1>3, <2>0, <3>1, <3>2
  <2>3. ASSUME NEW m \in 0 .. load.records[c], next[c] = FINISHED + 1 + m * RecordSize
        PROVE  last \in next[c] .. size /\ \E k \in 0 .. load.records[c] : next'[c] = FINISHED + 1 + k * RecordSize
    <3> DEFINE r == load.records[c]
               x == m * RecordSize
               y == (m + 1) * RecordSize
               z == r * RecordSize
    <3>1. m \in Nat /\ r \in Nat /\ x \in Nat /\ y \in Nat /\ z \in Nat
      BY <1>2
    <3>2. next[c] = 3 + x /\ size = 2 + z
      BY <2>3 DEF FINISHED
    <3>3. x < z
      <4> HIDE DEF x, z, size
      <4>1. QED
        BY <1>3, <3>1, <3>2
    <3>4. m + 1 <= r /\ y <= z /\ y = x + RecordSize
      BY <1>2, <3>1, <3>3, Factor
    <3>5. last = 2 + y
      <4>1. ~(next[c] <= FINISHED)
        <5> HIDE DEF x
        <5>1. QED
          BY <3>1, <3>2 DEF FINISHED
      <4>2. last = next[c] + RecordSize - 1
        BY <4>1
      <4> HIDE DEF x, y, last
      <4>3. QED
        BY <1>2, <3>1, <3>2, <3>4, <4>2
    <3>6. m + 1 \in 0 .. load.records[c] /\ last + 1 = FINISHED + 1 + (m + 1) * RecordSize
      <4>1. last + 1 = FINISHED + 1 + y
        <5> HIDE DEF y, last
        <5>1. QED
          BY <3>1, <3>5 DEF FINISHED
      <4>2. m + 1 \in 0 .. r
        BY <3>1, <3>4
      <4>3. QED
        BY <4>1, <4>2
    <3>7. last \in next[c] .. size
      <4> HIDE DEF x, y, z, last, size
      <4>1. QED
        BY <1>2, <3>1, <3>2, <3>4, <3>5
    <3>8. QED
      BY <2>0, <3>6, <3>7
  <2>4. Sends(c)
    BY <1>2 DEF EchoTyped, ClientTyped
  <2>5. QED
    BY <2>1, <2>2, <2>3, <2>4 DEF Sends
<1> HIDE DEF last, size
<1>5. /\ v \in Units /\ Len(v) = last - next[c] + 1
      /\ \A i \in 1 .. last - next[c] + 1 : v[i] = next[c] + i - 1
  <2>1. \A i \in next[c] .. last : Stream(c)[i] = i /\ i \in Nat
    BY <1>3, <1>4
  <2>2. next[c] \in Int /\ last \in Int /\ next[c] <= last
    BY <1>3, <1>4
  <2>3. /\ v \in Seq(Nat) /\ Len(v) = IF next[c] <= last THEN last - next[c] + 1 ELSE 0
        /\ \A i \in 1 .. last - next[c] + 1 : v[i] = Stream(c)[next[c] + i - 1]
    BY <2>1, <2>2, SubSeqProperties
  <2>4. ASSUME NEW i \in 1 .. last - next[c] + 1 PROVE v[i] = next[c] + i - 1
    <3>1. next[c] + i - 1 \in next[c] .. last
      BY <2>2
    <3>2. QED
      BY <2>1, <2>3, <3>1
  <2>5. QED
    BY <2>2, <2>3, <2>4 DEF Units
<1> HIDE DEF v
<1>6. Runs(v, next[c])
  BY <1>5 DEF Runs
<1>7. next' = [next EXCEPT ![c] = @ + Len(v)]
  <2>1. next[c] \in Int /\ last \in Int
    BY <1>3, <1>4
  <2>2. last + 1 = next[c] + Len(v)
    BY <1>5, <2>1
  <2>3. QED
    BY <1>1, <2>2
<1>8. Sends(c)'
  BY <1>1, <1>4 DEF Sends
<1>9. QED
  BY <1>1, <1>2, <1>5, <1>6, <1>7, <1>8

LEMMA SendTyped ==
  ASSUME EchoTyped, NEW c \in Connections, Send(c)
  PROVE  EchoTyped'
<1>1. PICK v \in Units :
        /\ wire' = [wire EXCEPT ![c] = @ \o v] /\ next' = [next EXCEPT ![c] = @ + Len(v)]
        /\ Sends(c)' /\ c \in DOMAIN load.records
  BY SendHas
<1>2. UNCHANGED <<load, back, programSide, sq, cq, kernelSide, mishaps>>
  BY DEF Send
<1>3. wire' \in [Connections -> Units] /\ next' \in [Connections -> Nat]
  <2>1. wire[c] \o v \in Units /\ next[c] + Len(v) \in Nat
    BY BothHave, LenProperties DEF EchoTyped, ClientTyped, Units
  <2>2. QED
    BY <1>1, <2>1 DEF EchoTyped, ClientTyped
<1>4. ASSUME NEW d \in DOMAIN load'.records PROVE Sends(d)'
  <2>1. CASE d = c
    BY <1>1, <2>1
  <2>2. CASE d # c
    <3>1. d \in DOMAIN load.records /\ d \in Connections /\ load' = load
      BY <1>2, LoadHas DEF EchoTyped, ClientTyped
    <3>2. next'[d] = next[d]
      BY <1>1, <2>2, <3>1 DEF EchoTyped, ClientTyped
    <3>3. Sends(d)
      BY <3>1 DEF EchoTyped, ClientTyped
    <3>4. QED
      BY <3>1, <3>2, <3>3 DEF Sends
  <2>3. QED
    BY <2>1, <2>2
<1>5. ClientTyped'
  BY <1>2, <1>3, <1>4 DEF EchoTyped, ClientTyped
<1>6. QED
  BY <1>2, <1>5 DEF EchoTyped, ProgramTyped, KernelTyped, programSide, kernelSide

(* A step of the program or the kernel leaves what clients sent in order.  *)
LEMMA ClientKept ==
  ASSUME ClientTyped, UNCHANGED <<load, next>>,
         wire' \in [Connections -> Units], back' \in [Connections -> Units]
  PROVE  ClientTyped'
BY DEF ClientTyped, Sends

LEMMA AcceptTyped ==
  ASSUME EchoTyped, NEW c \in Connections, Accept(c)
  PROVE  EchoTyped'
<1> DEFINE e == RecvMulti(c, "RECV")
<1>1. /\ c \in DOMAIN load.records /\ ssl' = [ssl EXCEPT ![c].phase = "accept"]
      /\ sq' = Append(sq, e)
      /\ UNCHANGED <<load, client, cache, used, called, cq, kernelSide, mishaps>>
  BY DEF Accept
<1>2. e \in Entry
  BY EntriesAre
<1> HIDE DEF e
<1>3. sq' \in Seq(Entry)
  BY <1>1, <1>2, AppendProperties DEF EchoTyped
<1>4. ssl' \in [Connections -> Ssl]
  BY <1>1 DEF EchoTyped, ProgramTyped, Ssl, Phases
<1>5. \A d \in Connections : ssl'[d].phase # "none" => d \in DOMAIN load'.records
  <2> SUFFICES ASSUME NEW d \in Connections, d # c PROVE ssl'[d].phase # "none" => d \in DOMAIN load'.records
    BY <1>1
  <2>1. ssl'[d] = ssl[d]
    BY <1>1 DEF EchoTyped, ProgramTyped
  <2>2. QED
    BY <1>1, <2>1 DEF EchoTyped, ProgramTyped
<1>6. ClientTyped'
  BY <1>1, ClientKept DEF EchoTyped, ClientTyped, client
<1>7. ProgramTyped'
  BY <1>1, <1>4, <1>5 DEF EchoTyped, ProgramTyped
<1>8. QED
  BY <1>1, <1>3, <1>6, <1>7 DEF EchoTyped, KernelTyped, kernelSide

(* Push, with the SSL it leaves and what it submits.                       *)
Again(k) == IF k.more THEN <<>> ELSE <<RecvMulti(k.fd, "WRITEV")>>

LEMMA AgainHas ==
  ASSUME NEW k, k.fd \in Connections
  PROVE  Again(k) \in Seq(Entry)
<1>1. RecvMulti(k.fd, "WRITEV") \in Entry
  BY EntriesAre
<1>2. QED
  BY <1>1 DEF Again

LEMMA PushHas ==
  ASSUME EchoTyped, Push
  PROVE  LET c == called.fd  d == Handled(Given(c)) IN
         /\ called # None /\ c \in Connections /\ d \in Ssl /\ (d.phase # "none" => c \in DOMAIN load.records)
         /\ Again(called) \in Seq(Entry) /\ DrainAndWrite(c, d, Again(called))
         /\ mishaps' = [mishaps EXCEPT ![c] =
              @ \cup Overwrites(c, d) \cup (IF PendingRead(d) > 0 \/ d.clear THEN {"left"} ELSE {})]
         /\ called' = None /\ UNCHANGED <<load, client, used, cq, kernelSide>>
<1> DEFINE c == called.fd
           s == Given(c)
           d == Handled(s)
<1>1. /\ called # None
      /\ d = CASE s.phase \in {"accept", "flight"} -> DoHandshake(s)
               [] IsInitFinished(s)                -> ReadAndEcho(s)
               [] OTHER                            -> s
      /\ DrainAndWrite(c, d, Again(called))
      /\ mishaps' = [mishaps EXCEPT ![c] =
           @ \cup Overwrites(c, d) \cup (IF PendingRead(d) > 0 \/ d.clear THEN {"left"} ELSE {})]
      /\ called' = None
      /\ UNCHANGED <<load, client, used, cq, kernelSide>>
  BY DEF Push, Given, Handled, Again
<1>2. c \in Connections /\ s \in Ssl /\ s.phase = ssl[c].phase
  BY <1>1, GivenHas
<1>3. d \in Ssl /\ (s.phase = "none" <=> d.phase = "none")
  <2>1. load.read \in Nat
    BY LoadHas DEF EchoTyped, ClientTyped
  <2>2. QED
    BY <1>2, <2>1, HandledHas
<1>4. d.phase # "none" => c \in DOMAIN load.records
  BY <1>2, <1>3 DEF EchoTyped, ProgramTyped
<1>5. Again(called) \in Seq(Entry)
  BY <1>2, AgainHas
<1>6. QED
  BY <1>1, <1>2, <1>3, <1>4, <1>5

LEMMA PushTyped ==
  ASSUME EchoTyped, Push
  PROVE  EchoTyped'
<1> DEFINE c == called.fd
           d == Handled(Given(c))
           m == Overwrites(c, d) \cup (IF PendingRead(d) > 0 \/ d.clear THEN {"left"} ELSE {})
<1>1. /\ c \in Connections /\ d \in Ssl /\ (d.phase # "none" => c \in DOMAIN load.records)
      /\ Again(called) \in Seq(Entry) /\ DrainAndWrite(c, d, Again(called))
      /\ mishaps' = [mishaps EXCEPT ![c] =
           @ \cup Overwrites(c, d) \cup (IF PendingRead(d) > 0 \/ d.clear THEN {"left"} ELSE {})]
      /\ called' = None /\ UNCHANGED <<load, client, used, cq, kernelSide>>
  BY PushHas
<1> HIDE DEF c, d
<1>2. /\ ssl' \in [Connections -> Ssl] /\ cache' \in [Connections -> CacheEntry] /\ sq' \in Seq(Entry)
      /\ \A e \in Connections : ssl'[e].phase # "none" => e \in DOMAIN load.records
  BY <1>1, DrainHas
<1>3. ProgramTyped'
  BY <1>1, <1>2 DEF EchoTyped, ProgramTyped
<1>4. mishaps' \in [Connections -> SUBSET Mishaps]
  <2>1. m \in SUBSET Mishaps
    BY DEF Overwrites, Mishaps
  <2>2. mishaps' = [mishaps EXCEPT ![c] = @ \cup m]
    BY <1>1
  <2> HIDE DEF m
  <2>3. QED
    BY <1>1, <2>1, <2>2 DEF EchoTyped
<1>5. ClientTyped'
  BY <1>1, ClientKept DEF EchoTyped, ClientTyped, client
<1>6. QED
  BY <1>1, <1>2, <1>3, <1>4, <1>5 DEF EchoTyped, KernelTyped, kernelSide

(* The completion Fire takes, and what is left.                            *)
LEMMA FireHas ==
  ASSUME EchoTyped, Fire
  PROVE  /\ cq # <<>> /\ cq[1] \in Completed /\ cq' = Tail(cq) /\ cq' \in Seq(Completed)
         /\ Len(cq) \in Nat \ {0} /\ Len(cq') = Len(cq) - 1 /\ \A i \in 1 .. Len(cq') : cq'[i] = cq[i + 1]
         /\ called = None /\ UNCHANGED <<load, client, kernelSide>>
<1>1. cq # <<>> /\ cq' = Tail(cq) /\ called = None /\ UNCHANGED <<load, client, kernelSide>>
  BY DEF Fire
<1>2. cq \in Seq(Completed)
  BY DEF EchoTyped
<1>3. /\ Tail(cq) \in Seq(Completed) /\ Len(Tail(cq)) = Len(cq) - 1 /\ Len(cq) \in Nat \ {0}
      /\ \A i \in 1 .. Len(Tail(cq)) : Tail(cq)[i] = cq[i + 1]
  BY <1>1, <1>2, HeadTailProperties, EmptySeq
<1>4. cq[1] \in Completed
  BY <1>2, <1>3, ElementOfSeq
<1>5. QED
  BY <1>1, <1>3, <1>4

LEMMA RearmedHas ==
  ASSUME NEW c \in Connections
  PROVE  Rearmed(c) \in Seq(Entry) /\ Rearmed(c) = <<Provide, RecvMulti(c, "RECV")>>
<1>1. Provide \in Entry /\ RecvMulti(c, "RECV") \in Entry
  BY EntriesAre
<1>2. QED
  BY <1>1 DEF Rearmed

LEMMA FireTyped ==
  ASSUME EchoTyped, Fire
  PROVE  EchoTyped'
<1> DEFINE k == cq[1]
<1>1. k \in Completed /\ cq' \in Seq(Completed) /\ called = None /\ UNCHANGED <<load, client, kernelSide>>
  BY FireHas
<1>2. OnRecv(k) \/ OnNoBuffers(k) \/ OnWritev(k)
  BY DEF Fire
<1> HIDE DEF k
<1>3. k.fd \in Connections /\ (k.op = "RECV" => k \in Received)
  BY <1>1, CompletionKinds
<1>4. ClientTyped' /\ KernelTyped'
  BY <1>1, ClientKept DEF EchoTyped, ClientTyped, KernelTyped, client, kernelSide
<1>5. CASE OnRecv(k)
  <2>1. /\ k.op = "RECV" /\ k.cb = "RECV" /\ k.units > 0
        /\ used' = IF IsFull(used + 1) THEN 0 ELSE used + 1
        /\ sq' = IF IsFull(used + 1) THEN sq \o Rearmed(k.fd) ELSE sq
        /\ called' = k /\ UNCHANGED <<ssl, cache, mishaps>>
    BY <1>5 DEF OnRecv
  <2>2. called' \in Handed
    BY <1>3, <2>1 DEF Handed
  <2>3. sq' \in Seq(Entry)
    <3>1. sq \o Rearmed(k.fd) \in Seq(Entry)
      BY <1>3, RearmedHas, BothHave DEF EchoTyped
    <3>2. QED
      BY <2>1, <3>1 DEF EchoTyped
  <2>4. used' \in Nat
    BY <2>1 DEF EchoTyped, ProgramTyped
  <2>5. ProgramTyped'
    BY <1>1, <2>1, <2>2, <2>4 DEF EchoTyped, ProgramTyped
  <2>6. QED
    BY <1>1, <1>4, <2>1, <2>3, <2>5 DEF EchoTyped
<1>6. CASE OnNoBuffers(k)
  <2>1. /\ UNCHANGED <<ssl, cache, used, called, sq>>
        /\ mishaps' = mishaps \/ mishaps' = [mishaps EXCEPT ![k.fd] = @ \cup {"starved"}]
    BY <1>6 DEF OnNoBuffers
  <2>2. mishaps' \in [Connections -> SUBSET Mishaps]
    BY <1>3, <2>1 DEF EchoTyped, Mishaps
  <2>3. ProgramTyped'
    BY <1>1, <2>1 DEF EchoTyped, ProgramTyped
  <2>4. QED
    BY <1>1, <1>4, <2>1, <2>2, <2>3 DEF EchoTyped
<1>7. CASE OnWritev(k)
  <2> DEFINE s == ssl[k.fd]
             m == Overwrites(k.fd, s) \cup (IF k.op = "RECV" THEN {"misdirected"} ELSE {})
  <2>1. /\ IF WriteMore(s) THEN DrainAndWrite(k.fd, s, <<>>) ELSE UNCHANGED <<ssl, cache, sq>>
        /\ mishaps' = [mishaps EXCEPT ![k.fd] = @ \cup m]
        /\ UNCHANGED <<used, called>>
    BY <1>7 DEF OnWritev
  <2>2. m \in SUBSET Mishaps
    BY DEF Overwrites, Mishaps
  <2> HIDE DEF m
  <2>3. mishaps' \in [Connections -> SUBSET Mishaps]
    BY <1>3, <2>1, <2>2 DEF EchoTyped
  <2>4. /\ ssl' \in [Connections -> Ssl] /\ cache' \in [Connections -> CacheEntry] /\ sq' \in Seq(Entry)
        /\ \A e \in Connections : ssl'[e].phase # "none" => e \in DOMAIN load.records
    <3>1. CASE WriteMore(s)
      <4>1. <<>> \in Seq(Entry) /\ s \in Ssl /\ (s.phase # "none" => k.fd \in DOMAIN load.records)
        BY <1>3 DEF EchoTyped, ProgramTyped
      <4> HIDE DEF s
      <4>2. QED
        BY <1>3, <2>1, <3>1, <4>1, DrainHas
    <3>2. CASE ~WriteMore(s)
      BY <2>1, <3>2 DEF EchoTyped, ProgramTyped
    <3>3. QED
      BY <3>1, <3>2
  <2>5. ProgramTyped'
    BY <1>1, <2>1, <2>4 DEF EchoTyped, ProgramTyped
  <2>6. QED
    BY <1>1, <1>4, <2>3, <2>4, <2>5 DEF EchoTyped
<1>8. QED
  BY <1>2, <1>5, <1>6, <1>7

(* The entry the thread takes.                                             *)
LEMMA TakeHas ==
  ASSUME EchoTyped, TakeEntry
  PROVE  /\ sq # <<>> /\ sq[1] \in Entry /\ sq' = Tail(sq) /\ sq' \in Seq(Entry)
         /\ Len(sq) \in Nat \ {0} /\ Len(sq') = Len(sq) - 1 /\ \A i \in 1 .. Len(sq') : sq'[i] = sq[i + 1]
         /\ UNCHANGED <<load, client, programSide, cq, bufs, ends, shorts, mishaps>>
<1>1. sq # <<>> /\ sq' = Tail(sq) /\ UNCHANGED <<load, client, programSide, cq, bufs, ends, shorts, mishaps>>
  BY DEF TakeEntry
<1>2. sq \in Seq(Entry)
  BY DEF EchoTyped
<1>3. /\ Tail(sq) \in Seq(Entry) /\ Len(Tail(sq)) = Len(sq) - 1 /\ Len(sq) \in Nat \ {0}
      /\ \A i \in 1 .. Len(Tail(sq)) : Tail(sq)[i] = sq[i + 1]
  BY <1>1, <1>2, HeadTailProperties, EmptySeq
<1>4. sq[1] \in Entry
  BY <1>2, <1>3, ElementOfSeq
<1>5. QED
  BY <1>1, <1>3, <1>4

LEMMA TakeTyped ==
  ASSUME EchoTyped, TakeEntry
  PROVE  EchoTyped'
<1> DEFINE e == sq[1]
           g == [i \in 1 .. NumBufs |-> i]
           w == [fd |-> e.fd, len |-> cache[e.fd].len]
<1>1. /\ e \in Entry /\ sq' \in Seq(Entry)
      /\ UNCHANGED <<load, client, programSide, cq, bufs, ends, shorts, mishaps>>
  BY TakeHas
<1>2. /\ free'   = IF e.op = "PROVIDE_BUFFERS" THEN free \o g ELSE free
      /\ armed'  = IF e.op = "RECV" THEN Append(armed, e) ELSE armed
      /\ writes' = IF e.op = "WRITEV" THEN Append(writes, w) ELSE writes
  BY DEF TakeEntry
<1>3. g \in Seq(1 .. NumBufs)
  BY SizesAre DEF GroupSizes
<1>4. e.op = "RECV" => e \in Recv
  BY <1>1, EntryKinds
<1>5. e.op = "WRITEV" => w \in UnderWay
  <2>1. e.op = "WRITEV" => e.fd \in Connections
    BY <1>1, EntryKinds
  <2> HIDE DEF e
  <2>2. QED
    BY <2>1 DEF UnderWay, EchoTyped, ProgramTyped, CacheEntry
<1> HIDE DEF e, g, w
<1>6. free' \in Seq(1 .. NumBufs)
  BY <1>2, <1>3, BothHave DEF EchoTyped, KernelTyped
<1>7. armed' \in Seq(Recv)
  BY <1>2, <1>4, AppendProperties DEF EchoTyped, KernelTyped
<1>8. writes' \in Seq(UnderWay)
  BY <1>2, <1>5, AppendProperties DEF EchoTyped, KernelTyped
<1>9. ClientTyped' /\ ProgramTyped'
  BY <1>1, ClientKept DEF EchoTyped, ClientTyped, ProgramTyped, client, programSide
<1>10. KernelTyped'
  BY <1>1, <1>6, <1>7, <1>8 DEF EchoTyped, KernelTyped
<1>11. QED
  BY <1>1, <1>9, <1>10 DEF EchoTyped

(* What a receive takes, and the buffer it leaves.                         *)
LEMMA ReceiveHas ==
  ASSUME EchoTyped, NEW i \in DOMAIN armed, NEW n, NEW more \in BOOLEAN, Receive(i, n, more)
  PROVE  LET c == armed[i].fd  b == free[1]  p == Prefix(wire[c], n)
             k == [op |-> "RECV", fd |-> c, cb |-> armed[i].cb, buf |-> b, units |-> n, more |-> more] IN
         /\ armed[i] \in Recv /\ c \in Connections /\ b \in 1 .. NumBufs
         /\ n \in 1 .. BufSize /\ n \in 0 .. Len(wire[c])
         /\ free # <<>> /\ free' = Tail(free)
         /\ wire' = [wire EXCEPT ![c] = Rest(@, n)] /\ p \in Units /\ Len(p) = n
         /\ bufs' \in [1 .. NumBufs -> BufContents] /\ Filled(bufs'[b], n) = p
         /\ \A d \in 1 .. NumBufs : d # b => bufs'[d] = bufs[d]
         /\ k \in Completed /\ cq' = Append(cq, k)
         /\ k.op = "RECV" /\ k.fd = c /\ k.cb = armed[i].cb /\ k.units = n /\ k.buf = b
         /\ mishaps' = [d \in Connections |-> mishaps[d] \cup (IF d \in Owners(b) THEN {"refilled"} ELSE {})]
         /\ armed' = IF more THEN armed ELSE RemoveAt(armed, i)
         /\ UNCHANGED <<load, next, back, programSide, sq, writes, shorts>>
<1> DEFINE c == armed[i].fd
           b == free[1]
           p == Prefix(wire[c], n)
           k == [op |-> "RECV", fd |-> c, cb |-> armed[i].cb, buf |-> b, units |-> n, more |-> more]
           u == bufs[b]
           x == p \o Rest(u, n)
<1>1. /\ free # <<>> /\ n \in 1 .. Lesser(BufSize, Len(wire[c]))
      /\ wire' = [wire EXCEPT ![c] = Rest(@, n)]
      /\ bufs' = [bufs EXCEPT ![b] = p \o Rest(@, n)]
      /\ free' = Tail(free) /\ armed' = IF more THEN armed ELSE RemoveAt(armed, i)
      /\ cq' = Append(cq, k)
      /\ mishaps' = [d \in Connections |-> mishaps[d] \cup (IF d \in Owners(b) THEN {"refilled"} ELSE {})]
      /\ UNCHANGED <<load, next, back, programSide, sq, writes, shorts>>
  BY DEF Receive
<1>2. armed[i] \in Recv /\ c \in Connections /\ armed[i].cb \in {"RECV", "WRITEV"}
  <2>1. armed[i] \in Recv
    BY LenProperties, ElementOfSeq DEF EchoTyped, KernelTyped
  <2>2. QED
    BY <2>1 DEF Recv
<1>3. wire[c] \in Units /\ Len(wire[c]) \in Nat
  <2>1. wire[c] \in Units
    BY <1>2 DEF EchoTyped, ClientTyped
  <2>2. QED
    BY <2>1, LenProperties DEF Units
<1>4. b \in 1 .. NumBufs
  <2>1. free \in Seq(1 .. NumBufs) /\ 1 \in 1 .. Len(free)
    BY <1>1, EmptySeq DEF EchoTyped, KernelTyped
  <2>2. QED
    BY <2>1, ElementOfSeq
<1>5. u \in Units /\ Len(u) = BufSize
  BY <1>4 DEF EchoTyped, KernelTyped, BufContents
<1> HIDE DEF c, b, u
<1>6. n \in 1 .. BufSize /\ n \in 0 .. Len(wire[c]) /\ n \in 0 .. Len(u) /\ n <= Len(wire[c])
  BY <1>1, <1>3, <1>5, SizesAre DEF Lesser, GroupSizes
<1>7. p \in Units /\ Len(p) = n
  BY <1>3, <1>6, Pieces DEF Units
<1>8. x \in Units /\ Len(x) = BufSize /\ Prefix(x, n) = p
  BY <1>3, <1>5, <1>6, OverWrites
<1>9. bufs' = [bufs EXCEPT ![b] = x]
  BY <1>1 DEF u
<1> HIDE DEF p, x
<1>10. /\ bufs' \in [1 .. NumBufs -> BufContents] /\ Filled(bufs'[b], n) = p
       /\ \A d \in 1 .. NumBufs : d # b => bufs'[d] = bufs[d]
  <2>1. x \in BufContents
    BY <1>8 DEF BufContents
  <2>2. bufs \in [1 .. NumBufs -> BufContents]
    BY DEF EchoTyped, KernelTyped
  <2>3. /\ bufs' \in [1 .. NumBufs -> BufContents] /\ bufs'[b] = x
        /\ \A d \in 1 .. NumBufs : d # b => bufs'[d] = bufs[d]
    BY <1>4, <1>9, <2>1, <2>2
  <2>4. QED
    BY <1>8, <2>3 DEF Filled
<1>11. k \in Completed
  BY <1>2, <1>4, <1>6, CompletionsMade
<1>12. k.op = "RECV" /\ k.fd = c /\ k.cb = armed[i].cb /\ k.units = n /\ k.buf = b
  OBVIOUS
<1> HIDE DEF k
<1>13. QED
  BY <1>1, <1>2, <1>4, <1>6, <1>7, <1>10, <1>11, <1>12 DEF c, b, p, k

LEMMA ReceiveTyped ==
  ASSUME EchoTyped, NEW i \in DOMAIN armed, NEW n, NEW more \in BOOLEAN, Receive(i, n, more)
  PROVE  EchoTyped'
<1> DEFINE c == armed[i].fd
           b == free[1]
           k == [op |-> "RECV", fd |-> c, cb |-> armed[i].cb, buf |-> b, units |-> n, more |-> more]
<1>1. /\ c \in Connections /\ n \in 0 .. Len(wire[c]) /\ free # <<>> /\ free' = Tail(free)
      /\ wire' = [wire EXCEPT ![c] = Rest(@, n)]
      /\ bufs' \in [1 .. NumBufs -> BufContents] /\ k \in Completed /\ cq' = Append(cq, k)
      /\ mishaps' = [d \in Connections |-> mishaps[d] \cup (IF d \in Owners(b) THEN {"refilled"} ELSE {})]
      /\ armed' = IF more THEN armed ELSE RemoveAt(armed, i)
      /\ UNCHANGED <<load, next, back, programSide, sq, writes, shorts>>
  BY ReceiveHas
<1> HIDE DEF c, b, k
<1>2. wire' \in [Connections -> Units]
  <2>1. Rest(wire[c], n) \in Units
    BY <1>1, RestHas DEF EchoTyped, ClientTyped, Units
  <2>2. QED
    BY <1>1, <2>1 DEF EchoTyped, ClientTyped
<1>3. free' \in Seq(1 .. NumBufs)
  BY <1>1, HeadTailProperties DEF EchoTyped, KernelTyped
<1>4. armed' \in Seq(Recv)
  <2>1. i \in 1 .. Len(armed) /\ armed \in Seq(Recv)
    BY LenProperties DEF EchoTyped, KernelTyped
  <2>2. RemoveAt(armed, i) \in Seq(Recv)
    BY <2>1, RemovedHas
  <2>3. QED
    BY <1>1, <2>1, <2>2
<1>5. cq' \in Seq(Completed)
  BY <1>1, AppendProperties DEF EchoTyped
<1>6. mishaps' \in [Connections -> SUBSET Mishaps]
  BY <1>1 DEF EchoTyped, Mishaps
<1>7. ClientTyped' /\ ProgramTyped'
  BY <1>1, <1>2, ClientKept DEF EchoTyped, ClientTyped, ProgramTyped, programSide
<1>8. KernelTyped'
  BY <1>1, <1>3, <1>4 DEF EchoTyped, KernelTyped
<1>9. QED
  BY <1>1, <1>5, <1>6, <1>7, <1>8 DEF EchoTyped

LEMMA NoBuffersTyped ==
  ASSUME EchoTyped, NEW i \in DOMAIN armed, NoBuffers(i)
  PROVE  /\ EchoTyped' /\ armed[i] \in Recv
         /\ \E k \in Completed :
              cq' = Append(cq, k) /\ k.op = "RECV" /\ k.fd = armed[i].fd /\ k.cb = armed[i].cb /\ k.units = 0
<1> DEFINE c == armed[i].fd
           k == [op |-> "RECV", fd |-> c, cb |-> armed[i].cb, buf |-> 0, units |-> 0, more |-> FALSE]
<1>1. /\ armed' = RemoveAt(armed, i) /\ cq' = Append(cq, k)
      /\ UNCHANGED <<load, client, programSide, sq, bufs, free, writes, ends, shorts, mishaps>>
  BY DEF NoBuffers
<1>2. armed[i] \in Recv /\ i \in 1 .. Len(armed) /\ armed \in Seq(Recv)
  BY LenProperties, ElementOfSeq DEF EchoTyped, KernelTyped
<1>3. k \in Completed
  <2>1. c \in Connections /\ armed[i].cb \in {"RECV", "WRITEV"} /\ 1 \in 1 .. NumBufs /\ 1 \in 1 .. BufSize
    BY <1>2, SizesAre DEF Recv, GroupSizes
  <2>2. QED
    BY <2>1, CompletionsMade
<1>4. k.op = "RECV" /\ k.fd = armed[i].fd /\ k.cb = armed[i].cb /\ k.units = 0
  OBVIOUS
<1> HIDE DEF k
<1>5. cq' \in Seq(Completed) /\ armed' \in Seq(Recv)
  BY <1>1, <1>2, <1>3, AppendProperties, RemovedHas DEF EchoTyped
<1>6. ClientTyped' /\ ProgramTyped' /\ KernelTyped'
  BY <1>1, <1>5, ClientKept DEF EchoTyped, ClientTyped, ProgramTyped, KernelTyped, client, programSide
<1>7. EchoTyped'
  BY <1>1, <1>5, <1>6 DEF EchoTyped
<1>8. QED
  BY <1>1, <1>2, <1>3, <1>4, <1>7

(* What a write sends.                                                     *)
LEMMA TransferHas ==
  ASSUME EchoTyped, NEW i \in DOMAIN writes, NEW n, Transfer(i, n)
  PROVE  LET c == writes[i].fd  p == Prefix(cache[c].buf, n)
             k == [op |-> "WRITEV", fd |-> c, cb |-> "WRITEV"] IN
         /\ c \in Connections /\ writes[i].len \in 0 .. CacheSize /\ n \in 0 .. CacheSize /\ n <= writes[i].len
         /\ p \in Units /\ Len(p) = n /\ back' = [back EXCEPT ![c] = @ \o p]
         /\ i \in 1 .. Len(writes) /\ writes' = RemoveAt(writes, i)
         /\ k \in Completed /\ k.op = "WRITEV" /\ k.fd = c /\ k.cb = "WRITEV" /\ cq' = Append(cq, k)
         /\ mishaps' = [mishaps EXCEPT ![c] = @ \cup (IF n = writes[i].len THEN {} ELSE {"short"})]
         /\ UNCHANGED <<load, wire, next, programSide, sq, bufs, free, armed, ends>>
<1> DEFINE c == writes[i].fd
           p == Prefix(cache[c].buf, n)
           k == [op |-> "WRITEV", fd |-> c, cb |-> "WRITEV"]
<1>1. /\ n = writes[i].len \/ n \in 0 .. writes[i].len - 1
      /\ back' = [back EXCEPT ![c] = @ \o p]
      /\ writes' = RemoveAt(writes, i) /\ cq' = Append(cq, k)
      /\ mishaps' = [mishaps EXCEPT ![c] = @ \cup (IF n = writes[i].len THEN {} ELSE {"short"})]
      /\ UNCHANGED <<load, wire, next, programSide, sq, bufs, free, armed, ends>>
  BY DEF Transfer
<1>2. i \in 1 .. Len(writes) /\ c \in Connections /\ writes[i].len \in 0 .. CacheSize
  <2>1. i \in 1 .. Len(writes) /\ writes[i] \in UnderWay
    BY LenProperties, ElementOfSeq DEF EchoTyped, KernelTyped
  <2>2. QED
    BY <2>1 DEF UnderWay
<1>3. n \in 0 .. CacheSize /\ n <= writes[i].len
  BY <1>1, <1>2, SizesAre DEF GroupSizes
<1>4. p \in Units /\ Len(p) = n
  <2>1. cache[c].buf \in Units /\ Len(cache[c].buf) = CacheSize
    BY <1>2 DEF EchoTyped, ProgramTyped, CacheEntry
  <2>2. n \in 0 .. Len(cache[c].buf)
    BY <1>3, <2>1
  <2>3. QED
    BY <2>1, <2>2, Pieces DEF Units
<1>5. k \in Completed
  BY <1>2 DEF Completed
<1>6. k.op = "WRITEV" /\ k.fd = c /\ k.cb = "WRITEV"
  OBVIOUS
<1> HIDE DEF c, p, k
<1>7. QED
  BY <1>1, <1>2, <1>3, <1>4, <1>5, <1>6 DEF c, p, k

LEMMA TransferTyped ==
  ASSUME EchoTyped, NEW i \in DOMAIN writes, NEW n, Transfer(i, n)
  PROVE  EchoTyped'
<1> DEFINE c == writes[i].fd
           p == Prefix(cache[c].buf, n)
           k == [op |-> "WRITEV", fd |-> c, cb |-> "WRITEV"]
           m == IF n = writes[i].len THEN {} ELSE {"short"}
<1>1. /\ c \in Connections /\ p \in Units /\ back' = [back EXCEPT ![c] = @ \o p]
      /\ i \in 1 .. Len(writes) /\ writes' = RemoveAt(writes, i)
      /\ k \in Completed /\ cq' = Append(cq, k)
      /\ mishaps' = [mishaps EXCEPT ![c] = @ \cup m]
      /\ UNCHANGED <<load, wire, next, programSide, sq, bufs, free, armed, ends>>
  BY TransferHas
<1>2. m \in SUBSET Mishaps
  BY DEF Mishaps
<1> HIDE DEF c, p, k, m
<1>3. back' \in [Connections -> Units]
  <2>1. back[c] \o p \in Units
    BY <1>1, BothHave DEF EchoTyped, ClientTyped, Units
  <2>2. QED
    BY <1>1, <2>1 DEF EchoTyped, ClientTyped
<1>4. writes' \in Seq(UnderWay) /\ cq' \in Seq(Completed)
  BY <1>1, RemovedHas, AppendProperties DEF EchoTyped, KernelTyped
<1>5. mishaps' \in [Connections -> SUBSET Mishaps]
  BY <1>1, <1>2 DEF EchoTyped
<1>6. ClientTyped' /\ ProgramTyped' /\ KernelTyped'
  BY <1>1, <1>3, <1>4, ClientKept DEF EchoTyped, ClientTyped, ProgramTyped, KernelTyped, programSide
<1>7. QED
  BY <1>1, <1>4, <1>5, <1>6 DEF EchoTyped

(* The steps, with who takes them.                                         *)
LEMMA EchoSteps ==
  ASSUME EchoNext
  PROVE  \/ \E c \in Connections : Send(c) \/ Accept(c)
         \/ Fire \/ Push \/ TakeEntry
         \/ \E i \in DOMAIN armed : NoBuffers(i) \/ \E n \in Nat, more \in BOOLEAN : Receive(i, n, more)
         \/ \E i \in DOMAIN writes, n \in Nat : Transfer(i, n)
BY DEF EchoNext, CarryOut, ReceiveSome, TransferSome

LEMMA EchoTypedKept ==
  ASSUME EchoTyped, [EchoNext]_echoVars
  PROVE  EchoTyped'
<1>1. CASE UNCHANGED echoVars
  BY <1>1 DEF echoVars, client, programSide, kernelSide, EchoTyped, ClientTyped, ProgramTyped, KernelTyped, Sends
<1>2. CASE EchoNext
  BY <1>2, EchoSteps, SendTyped, AcceptTyped, FireTyped, PushTyped, TakeTyped, NoBuffersTyped, ReceiveTyped,
     TransferTyped
<1>3. QED
  BY <1>1, <1>2

LEMMA EchoTypedInvariant == EchoSpec => []EchoTyped
BY EchoTypedInitial, EchoTypedKept, PTL DEF EchoSpec

-----------------------------------------------------------------------------
(* The buffers of the group.                                               *)

Arrivals == {k \in Completed : k.op = "RECV" /\ k.units > 0}

(* All completions were given, and will be given, to onRecv that should be.*)
Straight ==
  /\ \A c \in Connections : "misdirected" \notin mishaps[c]
  /\ \A i \in 1 .. Len(cq) : cq[i].cb = cq[i].op

Tally == Len(free) + NumBufs * HowMany(sq, {Provide}) + HowMany(cq, Arrivals) + used = NumBufs

Counted == Straight => Tally /\ IsInjective(free)

LEMMA Counts ==
  ASSUME EchoTyped
  PROVE  /\ Len(free) \in Nat /\ HowMany(sq, {Provide}) \in Nat /\ HowMany(cq, Arrivals) \in Nat /\ used \in Nat
         /\ NumBufs \in Nat \ {0} /\ NumBufs * HowMany(sq, {Provide}) \in Nat
<1>1. Len(free) \in Nat /\ used \in Nat /\ NumBufs \in Nat \ {0}
  BY LenProperties, SizesAre DEF EchoTyped, KernelTyped, ProgramTyped, GroupSizes
<1>2. HowMany(sq, {Provide}) \in Nat /\ HowMany(cq, Arrivals) \in Nat
  BY HowManyType DEF EchoTyped
<1>3. QED
  BY <1>1, <1>2

LEMMA CountedInitial == EchoInit => Counted
<1> SUFFICES ASSUME EchoInit PROVE Counted
  OBVIOUS
<1>1. sq = <<Provide>> /\ cq = <<>> /\ free = <<>> /\ used = 0
  BY DEF EchoInit
<1>2. HowMany(sq, {Provide}) = 1 /\ HowMany(cq, Arrivals) = 0
  BY <1>1, HowManyOne, HowManyNone
<1>3. Tally
  BY <1>1, <1>2, SizesAre DEF Tally, GroupSizes
<1>4. IsInjective(free)
  BY <1>1 DEF IsInjective
<1>5. QED
  BY <1>3, <1>4 DEF Counted

LEMMA PendingSame ==
  ASSUME EchoTyped, NEW c \in Connections, NEW s \in Ssl, s.phase # "none" => c \in DOMAIN load.records,
         NEW extra \in Seq(Entry), HowMany(extra, {Provide}) = 0, DrainAndWrite(c, s, extra)
  PROVE  HowMany(sq', {Provide}) = HowMany(sq, {Provide})
<1> DEFINE n == Lesser(PendingWrite(s), CacheSize)
           o == IF n = 0 THEN <<>> ELSE <<Writev(c)>>
           a == sq \o o
<1>1. sq' = a \o extra
  BY DEF DrainAndWrite
<1>2. o \in Seq(Entry) /\ HowMany(o, {Provide}) = 0
  <2>1. Writev(c) \in Entry /\ Writev(c) \notin {Provide}
    BY EntriesAre
  <2>2. HowMany(<<>>, {Provide}) = 0 /\ HowMany(<<Writev(c)>>, {Provide}) = 0
    BY <2>1, HowManyNone, HowManyOne
  <2>3. QED
    BY <2>1, <2>2
<1>3. sq \in Seq(Entry) /\ HowMany(sq, {Provide}) \in Nat
  BY Counts DEF EchoTyped
<1> HIDE DEF o
<1>4. a \in Seq(Entry) /\ HowMany(a, {Provide}) = HowMany(sq, {Provide}) + HowMany(o, {Provide})
  BY <1>2, <1>3, BothHave, HowManyBoth
<1> HIDE DEF a
<1>5. HowMany(a \o extra, {Provide}) = HowMany(a, {Provide}) + HowMany(extra, {Provide})
  BY <1>4, HowManyBoth
<1>6. QED
  BY <1>1, <1>2, <1>3, <1>4, <1>5

(* A step that adds no buffer anywhere. *)
LEMMA TallySame ==
  ASSUME Counted, Straight' => Straight, UNCHANGED <<free, used>>,
         HowMany(sq', {Provide}) = HowMany(sq, {Provide}), HowMany(cq', Arrivals) = HowMany(cq, Arrivals)
  PROVE  Counted'
<1>1. ASSUME Straight' PROVE Tally' /\ IsInjective(free')
  <2>1. Tally /\ IsInjective(free)
    BY <1>1 DEF Counted
  <2>2. QED
    BY <2>1 DEF Tally
<1>2. QED
  BY <1>1 DEF Counted

(* Mishaps are not forgotten.                                              *)
LEMMA StraightBefore ==
  ASSUME \A c \in Connections : mishaps[c] \subseteq mishaps'[c],
         \/ cq' = cq
         \/ \E k \in Completed : cq' = Append(cq, k) /\ cq \in Seq(Completed)
  PROVE  Straight' => Straight
<1> SUFFICES ASSUME Straight' PROVE Straight
  OBVIOUS
<1>1. \A c \in Connections : "misdirected" \notin mishaps[c]
  BY DEF Straight
<1>2. ASSUME NEW i \in 1 .. Len(cq) PROVE cq[i].cb = cq[i].op
  <2>1. CASE cq' = cq
    BY <2>1 DEF Straight
  <2>2. ASSUME NEW k \in Completed, cq' = Append(cq, k), cq \in Seq(Completed) PROVE cq[i].cb = cq[i].op
    <3>1. cq'[i] = cq[i] /\ i \in 1 .. Len(cq')
      <4>1. Len(cq') = Len(cq) + 1 /\ Len(cq) \in Nat /\ cq'[i] = cq[i]
        BY <2>2, AppendProperties, LenProperties
      <4>2. QED
        BY <4>1
    <3>2. QED
      BY <3>1 DEF Straight
  <2>3. QED
    BY <2>1, <2>2
<1>3. QED
  BY <1>1, <1>2 DEF Straight

LEMMA AcceptCounts ==
  ASSUME EchoTyped, Counted, NEW c \in Connections, Accept(c)
  PROVE  Counted'
<1>1. sq' = Append(sq, RecvMulti(c, "RECV")) /\ UNCHANGED <<cq, mishaps, free, used>>
  BY DEF Accept, kernelSide
<1>2. RecvMulti(c, "RECV") \in Entry /\ RecvMulti(c, "RECV") \notin {Provide}
  BY EntriesAre
<1>3. HowMany(sq', {Provide}) = HowMany(sq, {Provide})
  <2>1. HowMany(sq', {Provide}) = HowMany(sq, {Provide}) + 0
    BY <1>1, <1>2, HowManyMore DEF EchoTyped
  <2>2. QED
    BY <2>1, Counts
<1>4. QED
  BY <1>1, <1>3, TallySame DEF Straight

LEMMA PushCounts ==
  ASSUME EchoTyped, Counted, Push
  PROVE  Counted'
<1> DEFINE c == called.fd
           d == Handled(Given(c))
<1>1. /\ c \in Connections /\ d \in Ssl /\ (d.phase # "none" => c \in DOMAIN load.records)
      /\ Again(called) \in Seq(Entry) /\ DrainAndWrite(c, d, Again(called))
      /\ mishaps' = [mishaps EXCEPT ![c] =
           @ \cup Overwrites(c, d) \cup (IF PendingRead(d) > 0 \/ d.clear THEN {"left"} ELSE {})]
      /\ UNCHANGED <<used, cq, free>>
  BY PushHas DEF kernelSide
<1>2. HowMany(Again(called), {Provide}) = 0
  <2>1. RecvMulti(c, "WRITEV") \notin {Provide}
    BY <1>1, EntriesAre
  <2>2. HowMany(<<>>, {Provide}) = 0 /\ HowMany(<<RecvMulti(c, "WRITEV")>>, {Provide}) = 0
    BY <2>1, HowManyNone, HowManyOne
  <2>3. QED
    BY <2>2 DEF Again
<1> HIDE DEF c, d
<1>3. HowMany(sq', {Provide}) = HowMany(sq, {Provide})
  BY <1>1, <1>2, PendingSame
<1>4. \A e \in Connections : mishaps[e] \subseteq mishaps'[e]
  BY <1>1 DEF EchoTyped
<1>5. QED
  BY <1>1, <1>3, <1>4, StraightBefore, TallySame

LEMMA FireCounts ==
  ASSUME EchoTyped, Counted, Fire
  PROVE  Counted'
<1> DEFINE k == cq[1]
<1>1. /\ k \in Completed /\ cq # <<>> /\ cq' = Tail(cq) /\ Len(cq) \in Nat \ {0} /\ Len(cq') = Len(cq) - 1
      /\ \A i \in 1 .. Len(cq') : cq'[i] = cq[i + 1]
      /\ UNCHANGED free
  BY FireHas DEF kernelSide
<1>2. OnRecv(k) \/ OnNoBuffers(k) \/ OnWritev(k)
  BY DEF Fire
<1>3. HowMany(cq, Arrivals) = (IF k \in Arrivals THEN 1 ELSE 0) + HowMany(cq', Arrivals)
  BY <1>1, HowManyLess DEF EchoTyped
<1>4. HowMany(cq', Arrivals) \in Nat
  BY FireHas, HowManyType
<1> HIDE DEF k
<1>5. /\ k.fd \in Connections /\ (k.op = "WRITEV" => k.cb = "WRITEV") /\ k.op \in {"RECV", "WRITEV"}
      /\ (k.op = "RECV" => k.units \in 0 .. BufSize)
  BY <1>1, CompletionKinds
<1>6. k \in Arrivals <=> k.op = "RECV" /\ k.units > 0
  BY <1>1 DEF Arrivals
<1>7. ASSUME Straight', \A c \in Connections : mishaps[c] \subseteq mishaps'[c], k.cb = k.op
      PROVE  Straight
  <2>1. \A c \in Connections : "misdirected" \notin mishaps[c]
    BY <1>7 DEF Straight
  <2>2. ASSUME NEW i \in 1 .. Len(cq) PROVE cq[i].cb = cq[i].op
    <3>1. CASE i = 1
      BY <1>7, <3>1 DEF k
    <3>2. CASE i # 1
      <4>1. i - 1 \in 1 .. Len(cq') /\ (i - 1) + 1 = i
        BY <1>1, <3>2
      <4>2. cq'[i - 1] = cq[i]
        BY <1>1, <4>1
      <4>3. QED
        BY <1>7, <4>1, <4>2 DEF Straight
    <3>3. QED
      BY <3>1, <3>2
  <2>3. QED
    BY <2>1, <2>2 DEF Straight
<1>8. CASE OnRecv(k)
  <2>1. /\ k.op = "RECV" /\ k.cb = "RECV" /\ k.units > 0
        /\ used' = IF IsFull(used + 1) THEN 0 ELSE used + 1
        /\ sq' = IF IsFull(used + 1) THEN sq \o Rearmed(k.fd) ELSE sq
        /\ UNCHANGED mishaps
    BY <1>8 DEF OnRecv
  <2>2. Straight' => Straight
    BY <1>7, <2>1
  <2>3. HowMany(cq, Arrivals) = 1 + HowMany(cq', Arrivals)
    BY <1>3, <1>6, <2>1
  <2>4. ASSUME Tally PROVE Tally'
    <3>1. CASE ~IsFull(used + 1)
      BY <1>1, <1>4, <2>1, <2>3, <2>4, <3>1, Counts DEF Tally
    <3>2. CASE IsFull(used + 1)
      <4>1. used + 1 = NumBufs /\ used' = 0 /\ sq' = sq \o Rearmed(k.fd)
        BY <2>1, <3>2 DEF IsFull
      <4>2. HowMany(sq', {Provide}) = HowMany(sq, {Provide}) + 1
        <5> DEFINE r == Rearmed(k.fd)
                   a == <<Provide>>
                   b == <<RecvMulti(k.fd, "RECV")>>
        <5>1. r \in Seq(Entry) /\ r = a \o b /\ a \in Seq(Entry) /\ b \in Seq(Entry)
          <6>1. Provide \in Entry /\ RecvMulti(k.fd, "RECV") \in Entry
            BY <1>5, EntriesAre
          <6>2. QED
            BY <1>5, <6>1, RearmedHas
        <5>2. HowMany(a, {Provide}) = 1 /\ HowMany(b, {Provide}) = 0
          <6>1. RecvMulti(k.fd, "RECV") \notin {Provide}
            BY <1>5, EntriesAre
          <6>2. QED
            BY <6>1, HowManyOne
        <5> HIDE DEF r, a, b
        <5>3. HowMany(r, {Provide}) = 1
          <6>1. HowMany(a \o b, {Provide}) = HowMany(a, {Provide}) + HowMany(b, {Provide})
            BY <5>1, HowManyBoth
          <6>2. QED
            BY <5>1, <5>2, <6>1
        <5>4. HowMany(sq \o r, {Provide}) = HowMany(sq, {Provide}) + HowMany(r, {Provide})
          <6>1. sq \in Seq(Entry)
            BY DEF EchoTyped
          <6>2. r \in Seq(Entry)
            BY <5>1
          <6>3. QED
            BY ONLY <6>1, <6>2, HowManyBoth
        <5>5. QED
          BY <4>1, <5>3, <5>4 DEF r
      <4> DEFINE p == HowMany(sq, {Provide})
                 q == HowMany(sq', {Provide})
                 w == HowMany(cq, Arrivals)
                 v == HowMany(cq', Arrivals)
      <4>3. p \in Nat /\ q = p + 1 /\ w = 1 + v /\ v \in Nat /\ Len(free) \in Nat /\ used \in Nat /\ NumBufs \in Nat
        BY <1>4, <2>3, <4>2, Counts
      <4>4. Len(free) + NumBufs * p + w + used = NumBufs /\ free' = free
        BY <1>1, <2>4 DEF Tally
      <4> HIDE DEF p, q, w, v
      <4>5. NumBufs * q = NumBufs * p + NumBufs
        BY <4>3
      <4>6. Len(free) + NumBufs * q + v + 0 = NumBufs
        <5> DEFINE x == NumBufs * p
                   y == NumBufs * q
        <5>1. x \in Nat /\ y = x + NumBufs /\ Len(free) + x + w + used = NumBufs
          BY <4>3, <4>4, <4>5
        <5> HIDE DEF x, y
        <5>2. Len(free) + y + v + 0 = NumBufs
          BY <4>1, <4>3, <5>1
        <5>3. QED
          BY <5>2 DEF y
      <4>7. QED
        BY <4>1, <4>4, <4>6 DEF Tally, p, q, w, v
    <3>3. QED
      BY <3>1, <3>2
  <2>5. QED
    BY <1>1, <2>2, <2>4 DEF Counted
<1>9. CASE OnNoBuffers(k)
  <2>1. /\ k.op = "RECV" /\ k.cb = "RECV" /\ k.units = 0 /\ UNCHANGED <<used, sq>>
        /\ mishaps' = mishaps \/ mishaps' = [mishaps EXCEPT ![k.fd] = @ \cup {"starved"}]
    BY <1>9 DEF OnNoBuffers
  <2>2. \A c \in Connections : mishaps[c] \subseteq mishaps'[c]
    BY <1>5, <2>1 DEF EchoTyped
  <2>3. Straight' => Straight
    BY <1>7, <2>1, <2>2
  <2>4. HowMany(cq', Arrivals) = HowMany(cq, Arrivals)
    BY <1>3, <1>4, <1>6, <2>1
  <2>5. QED
    BY <1>1, <2>1, <2>3, <2>4, TallySame
<1>10. CASE OnWritev(k)
  <2> DEFINE s == ssl[k.fd]
             m == Overwrites(k.fd, s) \cup (IF k.op = "RECV" THEN {"misdirected"} ELSE {})
  <2>1. /\ IF WriteMore(s) THEN DrainAndWrite(k.fd, s, <<>>) ELSE UNCHANGED <<ssl, cache, sq>>
        /\ mishaps' = [mishaps EXCEPT ![k.fd] = @ \cup m]
        /\ UNCHANGED <<used, called>> /\ (k.op = "WRITEV" \/ k.cb = "WRITEV")
    BY <1>10 DEF OnWritev
  <2>2. k.op = "RECV" => "misdirected" \in m
    OBVIOUS
  <2> HIDE DEF m
  <2>3. (\A c \in Connections : mishaps[c] \subseteq mishaps'[c]) /\ mishaps'[k.fd] = mishaps[k.fd] \cup m
    BY <1>5, <2>1 DEF EchoTyped
  <2>4. ASSUME Straight' PROVE k.op = "WRITEV"
    BY <1>5, <2>2, <2>3, <2>4 DEF Straight
  <2>5. HowMany(sq', {Provide}) = HowMany(sq, {Provide})
    <3>1. CASE WriteMore(s)
      <4>1. <<>> \in Seq(Entry) /\ s \in Ssl /\ (s.phase # "none" => k.fd \in DOMAIN load.records)
        BY <1>5 DEF EchoTyped, ProgramTyped
      <4>2. HowMany(<<>>, {Provide}) = 0
        BY HowManyNone
      <4> HIDE DEF s
      <4>3. QED
        BY <1>5, <2>1, <3>1, <4>1, <4>2, PendingSame
    <3>2. CASE ~WriteMore(s)
      BY <2>1, <3>2
    <3>3. QED
      BY <3>1, <3>2
  <2>6. ASSUME Straight' PROVE Tally' /\ IsInjective(free')
    <3>1. k.op = "WRITEV" /\ k.cb = "WRITEV"
      BY <1>5, <2>4, <2>6
    <3>2. Straight
      BY <1>7, <2>3, <2>6, <3>1
    <3>3. HowMany(cq', Arrivals) = HowMany(cq, Arrivals)
      BY <1>3, <1>4, <1>6, <3>1
    <3>4. QED
      BY <1>1, <2>1, <2>5, <3>2, <3>3 DEF Counted, Tally
  <2>7. QED
    BY <2>6 DEF Counted
<1>11. QED
  BY <1>2, <1>8, <1>9, <1>10

LEMMA TakeCounts ==
  ASSUME EchoTyped, Counted, TakeEntry
  PROVE  Counted'
<1> DEFINE e == sq[1]
           g == [i \in 1 .. NumBufs |-> i]
<1>1. /\ e \in Entry /\ sq # <<>> /\ sq' = Tail(sq) /\ sq' \in Seq(Entry)
      /\ UNCHANGED <<used, cq, mishaps>>
  BY TakeHas DEF programSide
<1>2. free' = IF e.op = "PROVIDE_BUFFERS" THEN free \o g ELSE free
  BY DEF TakeEntry
<1>3. HowMany(sq, {Provide}) = (IF e \in {Provide} THEN 1 ELSE 0) + HowMany(sq', {Provide})
  BY <1>1, HowManyLess DEF EchoTyped
<1>4. HowMany(sq', {Provide}) \in Nat
  BY <1>1, HowManyType
<1>5. e.op = "PROVIDE_BUFFERS" <=> e = Provide
  BY <1>1, EntryKinds
<1>6. Straight' => Straight
  BY <1>1 DEF Straight
<1>7. CASE e # Provide
  <2>1. free' = free /\ HowMany(sq', {Provide}) = HowMany(sq, {Provide})
    BY <1>2, <1>3, <1>4, <1>5, <1>7
  <2>2. QED
    BY <1>1, <1>6, <2>1, TallySame
<1>8. CASE e = Provide
  <2> DEFINE p == HowMany(sq, {Provide})
             q == HowMany(sq', {Provide})
             w == HowMany(cq, Arrivals)
  <2>1. p = 1 + q /\ q \in Nat /\ w \in Nat /\ used \in Nat /\ Len(free) \in Nat /\ NumBufs \in Nat \ {0}
    BY <1>3, <1>4, <1>8, Counts
  <2>2. free' = free \o g
    BY <1>2, <1>5, <1>8
  <2>3. ASSUME Straight' PROVE Tally' /\ IsInjective(free')
    <3>1. Tally
      BY <1>6, <2>3 DEF Counted
    <3> DEFINE x == NumBufs * q
    <3>2. Len(free) + (NumBufs + x) + w + used = NumBufs /\ x \in Nat
      <4>1. Len(free) + NumBufs * p + w + used = NumBufs
        BY <3>1 DEF Tally
      <4> HIDE DEF p, q, w
      <4>2. NumBufs * p = NumBufs + x /\ x \in Nat
        BY <2>1
      <4>3. QED
        BY <4>1, <4>2
    <3> HIDE DEF p, q, w, x
    <3>3. Len(free) = 0 /\ x = 0 /\ w = 0 /\ used = 0
      BY <2>1, <3>2
    <3>4. free' = g
      <4>1. free = <<>>
        BY <3>3, EmptySeq DEF EchoTyped, KernelTyped
      <4>2. g \in Seq(1 .. NumBufs)
        BY <2>1
      <4> HIDE DEF g
      <4>3. QED
        BY <2>2, <4>1, <4>2, WithNothing
    <3>5. Len(g) = NumBufs /\ IsInjective(g)
      BY <2>1 DEF IsInjective
    <3>6. Len(free') + x + w + used = NumBufs
      BY <2>1, <3>3, <3>4, <3>5
    <3>7. QED
      BY <1>1, <3>4, <3>5, <3>6 DEF Tally, x, q, w
  <2>4. QED
    BY <2>3 DEF Counted
<1>9. QED
  BY <1>7, <1>8

LEMMA ReceiveCounts ==
  ASSUME EchoTyped, Counted, NEW i \in DOMAIN armed, NEW n, NEW more \in BOOLEAN, Receive(i, n, more)
  PROVE  Counted'
<1> DEFINE c == armed[i].fd
           b == free[1]
           k == [op |-> "RECV", fd |-> c, cb |-> armed[i].cb, buf |-> b, units |-> n, more |-> more]
<1>1. /\ n \in 1 .. BufSize /\ free # <<>> /\ free' = Tail(free)
      /\ k \in Completed /\ cq' = Append(cq, k) /\ k.op = "RECV" /\ k.units = n
      /\ mishaps' = [d \in Connections |-> mishaps[d] \cup (IF d \in Owners(b) THEN {"refilled"} ELSE {})]
      /\ UNCHANGED <<used, sq>>
  BY ReceiveHas DEF programSide
<1> HIDE DEF k, b
<1>2. k \in Arrivals
  BY <1>1, SizesAre DEF Arrivals, GroupSizes
<1>3. HowMany(cq', Arrivals) = HowMany(cq, Arrivals) + 1
  BY <1>1, <1>2, HowManyMore DEF EchoTyped
<1>4. /\ Len(free') = Len(free) - 1 /\ Len(free) \in Nat \ {0}
      /\ free' \in Seq(1 .. NumBufs) /\ free \in Seq(1 .. NumBufs)
      /\ \A j \in 1 .. Len(free') : free'[j] = free[j + 1]
  BY <1>1, HeadTailProperties, EmptySeq DEF EchoTyped, KernelTyped
<1>5. \A e \in Connections : mishaps[e] \subseteq mishaps'[e]
  BY <1>1 DEF EchoTyped
<1>6. Straight' => Straight
  BY <1>1, <1>5, StraightBefore DEF EchoTyped
<1>7. ASSUME IsInjective(free) PROVE IsInjective(free')
  <2>1. DOMAIN free = 1 .. Len(free) /\ DOMAIN free' = 1 .. Len(free')
    BY <1>4, LenProperties
  <2>2. ASSUME NEW j \in 1 .. Len(free'), NEW l \in 1 .. Len(free'), free'[j] = free'[l] PROVE j = l
    <3>1. j + 1 \in 1 .. Len(free) /\ l + 1 \in 1 .. Len(free)
      BY <1>4
    <3>2. free[j + 1] = free[l + 1]
      BY <1>4, <2>2
    <3>3. j + 1 = l + 1
      BY <1>7, <2>1, <3>1, <3>2 DEF IsInjective
    <3>4. QED
      BY <3>3
  <2>3. QED
    BY <2>1, <2>2 DEF IsInjective
<1>8. ASSUME Tally PROVE Tally'
  BY <1>1, <1>3, <1>4, <1>8, Counts DEF Tally
<1>9. QED
  BY <1>6, <1>7, <1>8 DEF Counted

(* A completion without units.                                             *)
LEMMA OtherCounts ==
  ASSUME EchoTyped, Counted, NEW k \in Completed, cq' = Append(cq, k), k.op = "WRITEV" \/ k.units = 0,
         \A c \in Connections : mishaps[c] \subseteq mishaps'[c], UNCHANGED <<free, used, sq>>
  PROVE  Counted'
<1>1. k \notin Arrivals
  BY DEF Arrivals
<1>2. HowMany(cq', Arrivals) = HowMany(cq, Arrivals)
  <2>1. HowMany(cq', Arrivals) = HowMany(cq, Arrivals) + 0
    BY <1>1, HowManyMore DEF EchoTyped
  <2>2. QED
    BY <2>1, Counts
<1>3. Straight' => Straight
  BY StraightBefore DEF EchoTyped
<1>4. QED
  BY <1>2, <1>3, TallySame

LEMMA CountedKept ==
  ASSUME EchoTyped, Counted, [EchoNext]_echoVars
  PROVE  Counted'
<1>1. CASE UNCHANGED echoVars
  BY <1>1 DEF echoVars, client, programSide, kernelSide, Counted, Straight, Tally
<1>2. ASSUME NEW c \in Connections, Send(c) PROVE Counted'
  <2>1. UNCHANGED <<used, sq, cq, free, mishaps>>
    BY <1>2 DEF Send, programSide, kernelSide
  <2>2. QED
    BY <2>1 DEF Counted, Straight, Tally
<1>3. ASSUME NEW i \in DOMAIN armed, NoBuffers(i) PROVE Counted'
  <2>1. PICK k \in Completed : cq' = Append(cq, k) /\ k.units = 0
    BY <1>3, NoBuffersTyped
  <2>2. UNCHANGED <<free, used, sq, mishaps>>
    BY <1>3 DEF NoBuffers, programSide
  <2>3. QED
    BY <2>1, <2>2, OtherCounts
<1>4. ASSUME NEW i \in DOMAIN writes, NEW n \in Nat, Transfer(i, n) PROVE Counted'
  <2> DEFINE k == [op |-> "WRITEV", fd |-> writes[i].fd, cb |-> "WRITEV"]
             m == IF n = writes[i].len THEN {} ELSE {"short"}
  <2>1. /\ k \in Completed /\ k.op = "WRITEV" /\ cq' = Append(cq, k) /\ writes[i].fd \in Connections
        /\ mishaps' = [mishaps EXCEPT ![writes[i].fd] = @ \cup m]
        /\ UNCHANGED <<free, used, sq>>
    BY <1>4, TransferHas DEF programSide
  <2> HIDE DEF k, m
  <2>2. \A c \in Connections : mishaps[c] \subseteq mishaps'[c]
    BY <2>1 DEF EchoTyped
  <2>3. QED
    BY <2>1, <2>2, OtherCounts
<1>5. CASE EchoNext
  BY <1>2, <1>3, <1>4, <1>5, EchoSteps, AcceptCounts, FireCounts, PushCounts, TakeCounts, ReceiveCounts
<1>6. QED
  BY <1>1, <1>5

(* The buffers the kernel may select or will be given, those in            *)
(* completions to come and those counted as used are the buffers of the    *)
(* group, each once, for every number and size of buffers, connections and *)
(* loads, as long as every completion goes to onRecv that should.          *)
THEOREM GroupIsCounted == EchoSpec => []BuffersCounted
<1>1. ASSUME EchoTyped, Counted PROVE BuffersCounted
  <2> SUFFICES ASSUME \A c \in Connections : "misdirected" \notin mishaps[c], \A i \in DOMAIN cq : cq[i].cb = cq[i].op
               PROVE  /\ Len(free) + NumBufs * Cardinality(Provided) + Cardinality(Waiting) + used = NumBufs
                      /\ IsInjective(free)
    BY DEF BuffersCounted
  <2>1. DOMAIN cq = 1 .. Len(cq) /\ DOMAIN sq = 1 .. Len(sq)
    BY <1>1, LenProperties DEF EchoTyped
  <2>2. Provided = Hits(sq, {Provide})
    BY <2>1 DEF Provided, Hits
  <2>3. Waiting = Hits(cq, Arrivals)
    <3>1. \A i \in 1 .. Len(cq) : cq[i] \in Completed
      BY <1>1, ElementOfSeq DEF EchoTyped
    <3>2. QED
      BY <2>1, <3>1 DEF Waiting, Hits, Arrivals
  <2>4. Tally /\ IsInjective(free)
    BY <1>1, <2>1 DEF Counted, Straight
  <2>5. QED
    BY <2>2, <2>3, <2>4 DEF Tally, HowMany
<1>2. EchoTyped /\ Counted /\ [EchoNext]_echoVars => Counted'
  BY CountedKept
<1>3. QED
  BY <1>1, <1>2, CountedInitial, EchoTypedInvariant, PTL DEF EchoSpec

-----------------------------------------------------------------------------
(* The units on their way out: those the client received, those in the     *)
(* write cache of a write under way and those in the write BIO.            *)

Out(b, p, w, n) ==
  /\ Runs(b, 1) /\ Runs(p, Len(b) + 1) /\ Runs(w, Len(b) + Len(p) + 1)
  /\ Len(b) + Len(p) + Len(w) + 1 = n

LEMMA UnitsHave ==
  ASSUME NEW u \in Units, NEW v \in Units
  PROVE  /\ u \o v \in Units /\ Len(u \o v) = Len(u) + Len(v)
         /\ Len(u) \in Nat /\ Len(v) \in Nat /\ <<>> \in Units /\ Len(<<>>) = 0
BY BothHave, EmptySeq DEF Units

LEMMA OutMore ==
  ASSUME NEW b \in Units, NEW p \in Units, NEW w \in Units, NEW v \in Units, NEW n \in Nat,
         Out(b, p, w, n), Runs(v, n)
  PROVE  Out(b, p, w \o v, n + Len(v))
<1>1. /\ Len(w \o v) = Len(w) + Len(v)
      /\ Len(b) \in Nat /\ Len(p) \in Nat /\ Len(w) \in Nat /\ Len(v) \in Nat
  BY UnitsHave
<1>2. /\ Runs(b, 1) /\ Runs(p, Len(b) + 1) /\ Runs(w, Len(b) + Len(p) + 1)
      /\ Len(b) + Len(p) + Len(w) + 1 = n
  BY DEF Out
<1> DEFINE k == Len(b) + Len(p) + 1
<1>3. k \in Nat /\ k + Len(w) = n
  BY <1>1, <1>2
<1>4. Runs(w \o v, k) <=> Runs(w, k) /\ Runs(v, k + Len(w))
  <2> HIDE DEF k
  <2>1. QED
    BY <1>3, RunsOn
<1>5. Runs(w \o v, k)
  BY <1>2, <1>3, <1>4
<1>6. Len(b) + Len(p) + Len(w \o v) + 1 = n + Len(v)
  BY <1>1, <1>2
<1>7. QED
  BY <1>2, <1>5, <1>6 DEF Out

LEMMA OutDrained ==
  ASSUME NEW b \in Units, NEW w \in Units, NEW n \in Nat, NEW m \in 0 .. Len(w), Out(b, <<>>, w, n)
  PROVE  Out(b, Prefix(w, m), Rest(w, m), n)
<1>1. /\ Len(Prefix(w, m)) = m /\ Len(Rest(w, m)) = Len(w) - m
      /\ Len(b) \in Nat /\ Len(w) \in Nat /\ m \in Nat /\ Len(<<>>) = 0
  BY Pieces, UnitsHave DEF Units
<1>2. Runs(b, 1) /\ Runs(w, Len(b) + 0 + 1) /\ Len(b) + 0 + Len(w) + 1 = n
  BY <1>1 DEF Out
<1> DEFINE k == Len(b) + 1
<1>3. k \in Nat /\ Runs(w, k)
  BY <1>1, <1>2
<1>4. Runs(Prefix(w, m), k) /\ Runs(Rest(w, m), k + m)
  <2> HIDE DEF k
  <2>1. QED
    BY <1>1, <1>3, RunsPrefix, RunsRest
<1>5. k + m = Len(b) + Len(Prefix(w, m)) + 1
  BY <1>1
<1>6. Len(b) + Len(Prefix(w, m)) + Len(Rest(w, m)) + 1 = n
  BY <1>1, <1>2
<1>7. QED
  BY <1>2, <1>4, <1>5, <1>6 DEF Out

LEMMA OutKept ==
  ASSUME NEW b \in Units, NEW p \in Units, NEW w \in Units, NEW n \in Nat, Out(b, p, w, n)
  PROVE  Out(b, p, Rest(w, 0), n)
<1>1. Len(Rest(w, 0)) = Len(w) - 0 /\ Len(b) \in Nat /\ Len(p) \in Nat /\ Len(w) \in Nat /\ 0 \in 0 .. Len(w)
  <2>1. Len(b) \in Nat /\ Len(p) \in Nat /\ Len(w) \in Nat
    BY UnitsHave
  <2>2. 0 \in 0 .. Len(w)
    BY <2>1
  <2>3. QED
    BY <2>1, <2>2, Pieces DEF Units
<1> DEFINE k == Len(b) + Len(p) + 1
<1>2. k \in Nat /\ Runs(w, k)
  BY <1>1 DEF Out
<1>3. Runs(Rest(w, 0), k + 0)
  <2> HIDE DEF k
  <2>1. QED
    BY <1>1, <1>2, RunsRest
<1>4. k + 0 = k /\ Len(Rest(w, 0)) = Len(w)
  BY <1>1, <1>2
<1>5. QED
  BY <1>3, <1>4 DEF Out

LEMMA OutSent ==
  ASSUME NEW b \in Units, NEW p \in Units, NEW w \in Units, NEW n \in Nat, Out(b, p, w, n)
  PROVE  Out(b \o p, <<>>, w, n)
<1>1. /\ Len(b \o p) = Len(b) + Len(p) /\ Len(<<>>) = 0
      /\ Len(b) \in Nat /\ Len(p) \in Nat /\ Len(w) \in Nat
  BY UnitsHave
<1>2. /\ Runs(b, 1) /\ Runs(p, Len(b) + 1) /\ Runs(w, Len(b) + Len(p) + 1)
      /\ Len(b) + Len(p) + Len(w) + 1 = n
  BY DEF Out
<1>3. Runs(b \o p, 1)
  <2>1. Runs(p, 1 + Len(b))
    BY <1>1, <1>2
  <2>2. QED
    BY <1>2, <2>1, RunsOn
<1>4. Runs(<<>>, Len(b \o p) + 1)
  BY RunsNot
<1>5. Len(b \o p) + Len(<<>>) + 1 = Len(b) + Len(p) + 1 /\ Len(b \o p) + Len(<<>>) + Len(w) + 1 = n
  BY <1>1, <1>2
<1>6. QED
  BY <1>2, <1>3, <1>4, <1>5 DEF Out

-----------------------------------------------------------------------------
(* The units on their way in: at[i] is the unit that follows those in the  *)
(* first i completions, and the wire follows them all.                     *)

Carries(k, c) == k.op = "RECV" /\ k.fd = c /\ k.units > 0

Travels(c, from, q, b, at) ==
  /\ at \in [0 .. Len(q) -> Nat] /\ at[0] = from
  /\ \A i \in 0 .. Len(q) : at[i] <= at[Len(q)]
  /\ \A i \in 1 .. Len(q) :
       IF Carries(q[i], c)
       THEN at[i] = at[i - 1] + q[i].units /\ Runs(Filled(b[q[i].buf], q[i].units), at[i - 1])
       ELSE at[i] = at[i - 1]

Arrives(c, from, q, b, w, n) ==
  \E at : Travels(c, from, q, b, at) /\ Runs(w, at[Len(q)]) /\ at[Len(q)] + Len(w) = n

LEMMA ArrivesBound ==
  ASSUME NEW c, NEW from, NEW q \in Seq(Completed), NEW b, NEW w \in Units, NEW n, Arrives(c, from, q, b, w, n)
  PROVE  from \in Nat /\ n \in Nat /\ from <= n
<1>1. PICK at : Travels(c, from, q, b, at) /\ at[Len(q)] + Len(w) = n
  BY DEF Arrives
<1>2. Len(q) \in Nat /\ Len(w) \in Nat
  BY LenProperties DEF Units
<1>3. 0 \in 0 .. Len(q) /\ Len(q) \in 0 .. Len(q)
  BY <1>2
<1>4. at[0] \in Nat /\ at[Len(q)] \in Nat /\ at[0] = from /\ at[0] <= at[Len(q)]
  BY <1>1, <1>3 DEF Travels
<1>5. QED
  BY <1>1, <1>2, <1>4

LEMMA ArrivesSent ==
  ASSUME NEW c, NEW from, NEW q \in Seq(Completed), NEW b, NEW w \in Units, NEW v \in Units, NEW n,
         Arrives(c, from, q, b, w, n), Runs(v, n)
  PROVE  Arrives(c, from, q, b, w \o v, n + Len(v))
<1>1. PICK at : Travels(c, from, q, b, at) /\ Runs(w, at[Len(q)]) /\ at[Len(q)] + Len(w) = n
  BY DEF Arrives
<1>2. Len(q) \in Nat /\ Len(w) \in Nat /\ Len(v) \in Nat /\ Len(w \o v) = Len(w) + Len(v)
  BY LenProperties, UnitsHave DEF Units
<1> DEFINE k == at[Len(q)]
<1>3. k \in Nat
  BY <1>1, <1>2 DEF Travels
<1>4. Runs(w, k) /\ k + Len(w) = n
  BY <1>1
<1> HIDE DEF k
<1>5. Runs(w \o v, k)
  BY <1>3, <1>4, RunsOn
<1>6. k + Len(w \o v) = n + Len(v)
  BY <1>2, <1>3, <1>4
<1>7. QED
  BY <1>1, <1>5, <1>6 DEF Arrives, k

LEMMA ArrivesElse ==
  ASSUME NEW c, NEW from, NEW q \in Seq(Completed), NEW b, NEW a, NEW w, NEW n,
         Arrives(c, from, q, b, w, n), \A i \in 1 .. Len(q) : Carries(q[i], c) => a[q[i].buf] = b[q[i].buf]
  PROVE  Arrives(c, from, q, a, w, n)
<1>1. PICK at : Travels(c, from, q, b, at) /\ Runs(w, at[Len(q)]) /\ at[Len(q)] + Len(w) = n
  BY DEF Arrives
<1>2. Travels(c, from, q, a, at)
  BY <1>1 DEF Travels
<1>3. QED
  BY <1>1, <1>2 DEF Arrives

(* The first completion is drained.                                        *)
LEMMA ArrivesFirst ==
  ASSUME NEW c, NEW from, NEW q \in Seq(Completed), q # <<>>, NEW b, NEW w, NEW n, Arrives(c, from, q, b, w, n)
  PROVE  IF Carries(q[1], c)
         THEN Arrives(c, from + q[1].units, Tail(q), b, w, n) /\ Runs(Filled(b[q[1].buf], q[1].units), from)
         ELSE Arrives(c, from, Tail(q), b, w, n)
<1>1. PICK at : Travels(c, from, q, b, at) /\ Runs(w, at[Len(q)]) /\ at[Len(q)] + Len(w) = n
  BY DEF Arrives
<1> DEFINE t == Tail(q)
           on == [i \in 0 .. Len(t) |-> at[i + 1]]
<1>2. Len(t) = Len(q) - 1 /\ Len(q) \in Nat \ {0} /\ \A i \in 1 .. Len(t) : t[i] = q[i + 1]
  BY HeadTailProperties, EmptySeq
<1> HIDE DEF t
<1>3. /\ at \in [0 .. Len(q) -> Nat] /\ at[0] = from
      /\ \A i \in 0 .. Len(q) : at[i] <= at[Len(q)]
      /\ \A i \in 1 .. Len(q) :
           IF Carries(q[i], c)
           THEN at[i] = at[i - 1] + q[i].units /\ Runs(Filled(b[q[i].buf], q[i].units), at[i - 1])
           ELSE at[i] = at[i - 1]
  BY <1>1 DEF Travels
<1>4. \A i \in 0 .. Len(t) : i + 1 \in 0 .. Len(q) /\ on[i] = at[i + 1]
  BY <1>2
<1>5. on \in [0 .. Len(t) -> Nat] /\ on[0] = at[1] /\ on[Len(t)] = at[Len(q)]
  BY <1>2, <1>3, <1>4
<1>6. \A i \in 0 .. Len(t) : on[i] <= on[Len(t)]
  BY <1>3, <1>4, <1>5
<1>7. ASSUME NEW i \in 1 .. Len(t)
      PROVE  IF Carries(t[i], c)
             THEN on[i] = on[i - 1] + t[i].units /\ Runs(Filled(b[t[i].buf], t[i].units), on[i - 1])
             ELSE on[i] = on[i - 1]
  <2>1. i + 1 \in 1 .. Len(q) /\ (i + 1) - 1 = i /\ i \in 0 .. Len(t) /\ i - 1 \in 0 .. Len(t) /\ (i - 1) + 1 = i
    BY <1>2
  <2>2. t[i] = q[i + 1] /\ on[i] = at[i + 1] /\ on[i - 1] = at[i]
    BY <1>2, <1>4, <2>1
  <2>3. IF Carries(q[i + 1], c)
        THEN at[i + 1] = at[i] + q[i + 1].units /\ Runs(Filled(b[q[i + 1].buf], q[i + 1].units), at[i])
        ELSE at[i + 1] = at[i]
    BY <1>3, <2>1
  <2> HIDE DEF on
  <2>4. QED
    BY <2>2, <2>3
<1> HIDE DEF on
<1>8. Travels(c, at[1], t, b, on)
  BY <1>5, <1>6, <1>7 DEF Travels
<1>9. Arrives(c, at[1], t, b, w, n)
  BY <1>1, <1>5, <1>8 DEF Arrives
<1>10. IF Carries(q[1], c)
       THEN at[1] = from + q[1].units /\ Runs(Filled(b[q[1].buf], q[1].units), from)
       ELSE at[1] = from
  <2>1. 1 \in 1 .. Len(q) /\ 1 - 1 = 0
    BY <1>2
  <2>2. QED
    BY <1>3, <2>1
<1>11. QED
  BY <1>9, <1>10 DEF t

(* A completion is posted.                                                 *)
LEMMA TravelsMore ==
  ASSUME NEW c, NEW from, NEW q \in Seq(Completed), NEW b, NEW at, Travels(c, from, q, b, at),
         NEW k \in Completed, NEW m \in Nat,
         IF Carries(k, c) THEN m = k.units /\ Runs(Filled(b[k.buf], k.units), at[Len(q)]) ELSE m = 0
  PROVE  \E on : /\ Travels(c, from, Append(q, k), b, on) /\ on[Len(Append(q, k))] = at[Len(q)] + m
<1> DEFINE l == Len(q)
           a == Append(q, k)
           on == [i \in 0 .. l + 1 |-> IF i <= l THEN at[i] ELSE at[l] + m]
<1>1. Len(a) = l + 1 /\ l \in Nat /\ a[l + 1] = k /\ \A i \in 1 .. l : a[i] = q[i]
  BY AppendProperties, LenProperties
<1>2. /\ at \in [0 .. l -> Nat] /\ at[0] = from
      /\ \A i \in 0 .. l : at[i] <= at[l]
      /\ \A i \in 1 .. l :
           IF Carries(q[i], c)
           THEN at[i] = at[i - 1] + q[i].units /\ Runs(Filled(b[q[i].buf], q[i].units), at[i - 1])
           ELSE at[i] = at[i - 1]
  BY DEF Travels
<1>3. l \in 0 .. l /\ at[l] \in Nat
  BY <1>1, <1>2
<1> HIDE DEF a
<1> SUFFICES Travels(c, from, a, b, on) /\ on[Len(a)] = at[l] + m
  BY DEF a
<1>4. \A i \in 0 .. l : on[i] = at[i]
  BY <1>1
<1>5. on[l + 1] = at[l] + m /\ l + 1 \in 0 .. l + 1
  BY <1>1
<1>6. on \in [0 .. Len(a) -> Nat]
  BY <1>1, <1>2, <1>3
<1> HIDE DEF on, l
<1>7. ASSUME NEW i \in 0 .. l + 1 PROVE on[i] <= on[l + 1]
  <2>1. CASE i = l + 1
    BY <1>3, <1>5, <2>1
  <2>2. CASE i # l + 1
    <3>1. i \in 0 .. l
      BY <1>1, <2>2
    <3>2. on[i] = at[i] /\ at[i] <= at[l] /\ at[i] \in Nat
      BY <1>2, <1>4, <3>1
    <3>3. QED
      BY <1>3, <1>5, <3>2
  <2>3. QED
    BY <2>1, <2>2
<1>8. ASSUME NEW i \in 1 .. l + 1
      PROVE  IF Carries(a[i], c)
             THEN on[i] = on[i - 1] + a[i].units /\ Runs(Filled(b[a[i].buf], a[i].units), on[i - 1])
             ELSE on[i] = on[i - 1]
  <2>1. CASE i = l + 1
    <3>1. i - 1 = l /\ on[i - 1] = at[l] /\ a[i] = k /\ on[i] = at[l] + m
      BY <1>1, <1>3, <1>4, <1>5, <2>1
    <3>2. IF Carries(k, c) THEN m = k.units /\ Runs(Filled(b[k.buf], k.units), at[l]) ELSE m = 0
      BY DEF l
    <3>3. at[l] + 0 = at[l]
      BY <1>3
    <3>4. QED
      BY <3>1, <3>2, <3>3
  <2>2. CASE i # l + 1
    <3>1. i \in 1 .. l /\ i \in 0 .. l /\ i - 1 \in 0 .. l
      BY <1>1, <2>2
    <3>2. on[i] = at[i] /\ on[i - 1] = at[i - 1] /\ a[i] = q[i]
      BY <1>1, <1>4, <3>1
    <3>3. QED
      BY <1>2, <3>1, <3>2
  <2>3. QED
    BY <2>1, <2>2
<1>9. on[0] = from
  <2>1. 0 \in 0 .. l
    BY <1>1
  <2>2. QED
    BY <1>2, <1>4, <2>1
<1>10. QED
  BY <1>1, <1>5, <1>6, <1>7, <1>8, <1>9 DEF Travels

LEMMA ArrivesElsewhere ==
  ASSUME NEW c, NEW from, NEW q \in Seq(Completed), NEW b, NEW w, NEW n, Arrives(c, from, q, b, w, n),
         NEW k \in Completed, ~Carries(k, c)
  PROVE  Arrives(c, from, Append(q, k), b, w, n)
<1>1. PICK at : Travels(c, from, q, b, at) /\ Runs(w, at[Len(q)]) /\ at[Len(q)] + Len(w) = n
  BY DEF Arrives
<1>2. at[Len(q)] \in Nat
  <2>1. Len(q) \in 0 .. Len(q)
    BY LenProperties
  <2>2. QED
    BY <1>1, <2>1 DEF Travels
<1> DEFINE a == Append(q, k)
<1>3. \E on : Travels(c, from, a, b, on) /\ on[Len(a)] = at[Len(q)] + 0
  BY <1>1, TravelsMore
<1> HIDE DEF a
<1>4. PICK on : Travels(c, from, a, b, on) /\ on[Len(a)] = at[Len(q)]
  BY <1>2, <1>3
<1>5. Runs(w, on[Len(a)]) /\ on[Len(a)] + Len(w) = n
  BY <1>1, <1>4
<1>6. QED
  BY <1>4, <1>5 DEF Arrives, a

LEMMA ArrivesHere ==
  ASSUME NEW c, NEW from, NEW q \in Seq(Completed), NEW b, NEW w \in Units, NEW n, Arrives(c, from, q, b, w, n),
         NEW k \in Completed, Carries(k, c), NEW m \in 0 .. Len(w), k.units = m, Filled(b[k.buf], m) = Prefix(w, m)
  PROVE  Arrives(c, from, Append(q, k), b, Rest(w, m), n)
<1>1. PICK at : Travels(c, from, q, b, at) /\ Runs(w, at[Len(q)]) /\ at[Len(q)] + Len(w) = n
  BY DEF Arrives
<1> DEFINE a == Append(q, k)
           e == at[Len(q)]
<1>2. e \in Nat
  <2>1. Len(q) \in 0 .. Len(q)
    BY LenProperties
  <2>2. QED
    BY <1>1, <2>1 DEF Travels
<1>3. Runs(w, e) /\ e + Len(w) = n
  BY <1>1
<1> HIDE DEF e
<1>4. m \in Nat /\ Len(Rest(w, m)) = Len(w) - m /\ Len(w) \in Nat
  BY Pieces DEF Units
<1>5. Runs(Prefix(w, m), e) /\ Runs(Rest(w, m), e + m)
  BY <1>2, <1>3, <1>4, RunsPrefix, RunsRest
<1>6. \E on : Travels(c, from, a, b, on) /\ on[Len(a)] = e + m
  BY <1>1, <1>4, <1>5, TravelsMore DEF e
<1> HIDE DEF a
<1>7. PICK on : Travels(c, from, a, b, on) /\ on[Len(a)] = e + m
  BY <1>6
<1>8. (e + m) + Len(Rest(w, m)) = n
  BY <1>2, <1>3, <1>4
<1>9. Runs(Rest(w, m), on[Len(a)]) /\ on[Len(a)] + Len(Rest(w, m)) = n
  BY <1>5, <1>7, <1>8
<1>10. QED
  BY <1>7, <1>9 DEF Arrives, a

-----------------------------------------------------------------------------
(* What an SSL has echoed, what it holds and its read BIO follow one       *)
(* another. Begins is the unit it takes next, Ends the one that is pushed  *)
(* next.                                                                   *)

Begins(s) ==
  IF s.phase \in {"none", "accept"} THEN HELLO
  ELSE IF s.phase = "flight" THEN FINISHED ELSE s.expected

Ends(s) == Begins(s) + Len(s.held) + Len(s.rbio)

Serving(s) ==
  /\ s.phase # "broken"
  /\ s.phase # "open" => s.held = <<>> /\ s.expected = FINISHED + 1
  /\ Runs(s.held, Begins(s)) /\ Runs(s.rbio, Begins(s) + Len(s.held))

LEMMA RunsTail ==
  ASSUME NEW u \in Units, NEW n \in Nat, u # <<>>, Runs(u, n)
  PROVE  u[1] = n /\ Tail(u) \in Units /\ Len(u) = Len(Tail(u)) + 1 /\ Runs(Tail(u), n + 1)
<1>1. /\ Tail(u) \in Seq(Nat) /\ Len(Tail(u)) = Len(u) - 1 /\ Len(u) \in Nat \ {0}
      /\ \A i \in 1 .. Len(Tail(u)) : Tail(u)[i] = u[i + 1]
  BY HeadTailProperties, EmptySeq DEF Units
<1>2. u[1] = n
  BY <1>1 DEF Runs
<1>3. ASSUME NEW i \in 1 .. Len(Tail(u)) PROVE Tail(u)[i] = n + 1 + i - 1
  <2>1. i + 1 \in 1 .. Len(u)
    BY <1>1
  <2>2. u[i + 1] = n + (i + 1) - 1
    BY <2>1 DEF Runs
  <2>3. QED
    BY <1>1, <2>2
<1>4. QED
  BY <1>1, <1>2, <1>3 DEF Runs, Units

LEMMA BeginsHas ==
  ASSUME NEW s \in Ssl
  PROVE  Begins(s) \in Nat /\ Ends(s) \in Nat /\ Begins(s) <= Ends(s)
         /\ Begins(s) + Len(s.held) \in Nat
<1>1. Begins(s) \in Nat
  BY SslHas DEF Begins, HELLO, FINISHED
<1>2. Len(s.held) \in Nat /\ Len(s.rbio) \in Nat
  BY SslHas
<1>3. QED
  BY <1>1, <1>2 DEF Ends

(* PushReadBIO of the units that follow.                                   *)
LEMMA GivenServes ==
  ASSUME NEW s \in Ssl, Serving(s), NEW p \in Units, Runs(p, Ends(s)), NEW g \in Ssl,
         g.rbio = s.rbio \o p, g.phase = s.phase, g.held = s.held, g.expected = s.expected
  PROVE  Serving(g) /\ Begins(g) = Begins(s) /\ Ends(g) = Ends(s) + Len(p)
<1>1. Begins(g) = Begins(s)
  BY DEF Begins
<1>2. s.rbio \in Units /\ Len(s.rbio) \in Nat /\ Len(s.held) \in Nat /\ Len(p) \in Nat
  BY SslHas, LenProperties DEF Units
<1>3. Len(g.rbio) = Len(s.rbio) + Len(p)
  BY <1>2, UnitsHave
<1> DEFINE k == Begins(s) + Len(s.held)
<1>4. k \in Nat /\ Begins(s) \in Nat /\ Ends(s) = k + Len(s.rbio)
  BY BeginsHas DEF Ends
<1>5. Runs(s.rbio, k) /\ Runs(p, k + Len(s.rbio))
  BY <1>4 DEF Serving
<1> HIDE DEF k
<1>6. Runs(g.rbio, k)
  <2>1. Runs(s.rbio \o p, k) <=> Runs(s.rbio, k) /\ Runs(p, k + Len(s.rbio))
    BY <1>2, <1>4, RunsOn
  <2>2. QED
    BY <1>5, <2>1
<1>7. Ends(g) = Ends(s) + Len(p)
  <2>1. Ends(g) = Begins(s) + Len(s.held) + Len(g.rbio)
    BY <1>1 DEF Ends
  <2>2. QED
    BY <1>2, <1>3, <1>4, <2>1 DEF k
<1>8. QED
  BY <1>1, <1>6, <1>7 DEF Serving, k

(* SSL_do_handshake takes the unit it waits for and answers with the same. *)
LEMMA HandshakeServes ==
  ASSUME NEW s \in Ssl, Serving(s), s.phase \in {"accept", "flight"}
  PROVE  LET d == DoHandshake(s) IN
         /\ Serving(d) /\ Ends(d) = Ends(s)
         /\ \E v \in Units : /\ Runs(v, Begins(s)) /\ Begins(d) = Begins(s) + Len(v)
                             /\ d.wbio = s.wbio \o v
<1> DEFINE d == DoHandshake(s)
<1>1. /\ s.rbio \in Units /\ s.wbio \in Units /\ s.held = <<>> /\ s.expected = FINISHED + 1
      /\ Len(s.held) = 0 /\ Len(<<>>) = 0 /\ <<>> \in Units
  BY SslHas, UnitsHave DEF Serving
<1>2. /\ d \in Ssl /\ d.held = s.held /\ d.expected = s.expected
      /\ \/ s.rbio = <<>> /\ d = s
         \/ /\ s.phase = "accept" /\ s.rbio # <<>> /\ s.rbio[1] = HELLO
            /\ d.phase = "flight" /\ d.rbio = Tail(s.rbio) /\ d.wbio = Append(s.wbio, HELLO)
         \/ /\ s.phase = "flight" /\ s.rbio # <<>> /\ s.rbio[1] = FINISHED
            /\ d.phase = "open" /\ d.rbio = Tail(s.rbio) /\ d.wbio = Append(s.wbio, FINISHED)
         \/ /\ ~(s.phase = "accept" /\ s.rbio[1] = HELLO) /\ ~(s.phase = "flight" /\ s.rbio[1] = FINISHED)
            /\ s.rbio # <<>> /\ d.phase = "broken" /\ d.rbio = s.rbio /\ d.wbio = s.wbio
  BY HandshakeHas
<1> HIDE DEF d
<1> SUFFICES /\ Serving(d) /\ Ends(d) = Ends(s)
             /\ \E v \in Units : /\ Runs(v, Begins(s)) /\ Begins(d) = Begins(s) + Len(v)
                                 /\ d.wbio = s.wbio \o v
  BY DEF d
<1> DEFINE n == Begins(s)
<1>3. n \in Nat /\ n = (IF s.phase = "accept" THEN 1 ELSE 2) /\ Runs(s.rbio, n + 0)
  BY <1>1, BeginsHas DEF Begins, HELLO, FINISHED, Serving
<1>4. Ends(s) = n + 0 + Len(s.rbio)
  BY <1>1 DEF Ends
<1>5. Runs(<<>>, n)
  BY RunsNot
<1> HIDE DEF n
<1>6. Runs(s.rbio, n)
  BY <1>3
<1>7. CASE s.rbio = <<>>
  <2>1. d = s
    BY <1>2, <1>7
  <2>2. s.wbio \o <<>> = s.wbio
    BY <1>1, WithNothing DEF Units
  <2>3. n = n + Len(<<>>)
    BY <1>1, <1>3
  <2>4. QED
    BY <1>1, <1>5, <2>1, <2>2, <2>3 DEF n
<1>8. CASE s.rbio # <<>>
  <2>1. s.rbio[1] = n /\ Len(s.rbio) = Len(Tail(s.rbio)) + 1 /\ Runs(Tail(s.rbio), n + 1) /\ Tail(s.rbio) \in Units
    BY <1>1, <1>3, <1>6, <1>8, RunsTail
  <2>2. Len(Tail(s.rbio)) \in Nat
    BY <2>1, LenProperties DEF Units
  <2>3. /\ d.rbio = Tail(s.rbio) /\ d.wbio = Append(s.wbio, n)
        /\ d.phase = IF s.phase = "accept" THEN "flight" ELSE "open"
    BY <1>2, <1>3, <1>8, <2>1 DEF HELLO, FINISHED
  <2>4. Begins(d) = n + 1 /\ d.held = <<>> /\ d.expected = FINISHED + 1 /\ d.phase # "broken"
    BY <1>1, <1>2, <1>3, <2>3 DEF Begins, FINISHED
  <2>5. Serving(d)
    <3>1. Runs(d.held, Begins(d)) /\ Runs(d.rbio, n + 1)
      BY <2>1, <2>3, <2>4, RunsNot
    <3>2. Begins(d) + Len(d.held) = n + 1
      BY <1>1, <1>3, <2>4
    <3>3. QED
      BY <2>4, <3>1, <3>2 DEF Serving
  <2>6. Ends(d) = Ends(s)
    <3>1. Ends(d) = (n + 1) + 0 + Len(Tail(s.rbio))
      BY <1>1, <2>3, <2>4 DEF Ends
    <3> DEFINE x == Len(Tail(s.rbio))
               y == Len(s.rbio)
    <3>2. n \in Nat /\ x \in Nat /\ y = x + 1 /\ Ends(d) = (n + 1) + 0 + x /\ Ends(s) = n + 0 + y
      BY <1>3, <1>4, <2>1, <2>2, <3>1
    <3> HIDE DEF x, y
    <3>3. QED
      BY <3>2
  <2> DEFINE v == <<n>>
  <2>7. v \in Units /\ Len(v) = 1 /\ v[1] = n
    BY <1>3 DEF Units
  <2>8. d.wbio = s.wbio \o v
    <3>1. Append(s.wbio, n) = s.wbio \o <<n>>
      BY <1>1, <1>3, AppendIsConcat DEF Units
    <3>2. QED
      BY <2>3, <3>1
  <2> HIDE DEF v
  <2>9. Runs(v, n) /\ Begins(d) = n + Len(v)
    BY <1>3, <2>4, <2>7 DEF Runs
  <2>10. QED
    BY <2>5, <2>6, <2>7, <2>8, <2>9 DEF n
<1>9. QED
  BY <1>7, <1>8

(* A record that follows is sound, and what is echoed is what follows.     *)
LEMMA ReadServes ==
  ASSUME load.read \in Nat, NEW s \in Ssl, Serving(s), s.phase = "open"
  PROVE  LET d == ReadAndEcho(s) IN
         /\ Serving(d) /\ Ends(d) = Ends(s)
         /\ \E v \in Units : /\ Runs(v, Begins(s)) /\ Begins(d) = Begins(s) + Len(v)
                             /\ d.wbio = s.wbio \o v
<1> DEFINE d == ReadAndEcho(s)
           all == s.held \o s.rbio
           record == Prefix(all, RecordSize)
           remainder == Rest(all, RecordSize)
           e == s.expected
<1>1. /\ s.held \in Units /\ s.rbio \in Units /\ s.wbio \in Units /\ e \in Nat
      /\ Len(s.held) \in Nat /\ Len(s.rbio) \in Nat /\ Len(<<>>) = 0 /\ <<>> \in Units
  BY SslHas, UnitsHave
<1>2. /\ d \in Ssl
      /\ \/ /\ ~s.clear /\ Len(all) < RecordSize /\ d.held = all /\ d.rbio = <<>>
            /\ d.phase = s.phase /\ d.wbio = s.wbio /\ d.expected = s.expected
         \/ ~s.clear /\ Len(all) >= RecordSize /\ ~Sound(s, record) /\ d.phase = "broken"
         \/ \E r \in Units, rest \in Units : \E n \in 0 .. Len(r) :
              /\ \/ s.clear /\ r = s.held /\ rest = s.rbio
                 \/ ~s.clear /\ Len(all) >= RecordSize /\ r = record /\ rest = remainder
              /\ d.held = Rest(r, n) /\ d.rbio = rest /\ d.wbio = s.wbio \o Prefix(r, n)
              /\ d.phase = s.phase /\ d.expected = s.expected + n
  BY ReadHas
<1>3. Begins(s) = e /\ Runs(s.held, e) /\ Runs(s.rbio, e + Len(s.held)) /\ Ends(s) = e + Len(s.held) + Len(s.rbio)
  BY DEF Begins, Serving, Ends
<1>4. all \in Units /\ Len(all) = Len(s.held) + Len(s.rbio) /\ Runs(all, e)
  <2> HIDE DEF e
  <2>1. QED
    BY <1>1, <1>3, UnitsHave, RunsOn
<1>5. RecordSize \in Nat \ {0}
  BY SizesAre DEF GroupSizes
<1> HIDE DEF d
<1> SUFFICES /\ Serving(d) /\ Ends(d) = Ends(s)
             /\ \E v \in Units : /\ Runs(v, Begins(s)) /\ Begins(d) = Begins(s) + Len(v)
                                 /\ d.wbio = s.wbio \o v
  BY DEF d
<1> HIDE DEF all, e
<1>6. Len(all) \in Nat /\ Ends(s) = e + Len(all)
  <2> DEFINE x == Len(s.held)
             y == Len(s.rbio)
  <2>1. x \in Nat /\ y \in Nat /\ e \in Nat /\ Ends(s) = e + x + y /\ Len(all) = x + y
    BY <1>1, <1>3, <1>4
  <2> HIDE DEF x, y
  <2>2. QED
    BY <2>1
<1>7. Len(all) >= RecordSize =>
        /\ Len(record) = RecordSize /\ Len(remainder) = Len(all) - RecordSize
        /\ Runs(record, e) /\ Runs(remainder, e + RecordSize) /\ Sound(s, record)
  <2> SUFFICES ASSUME Len(all) >= RecordSize
               PROVE  /\ Len(record) = RecordSize /\ Len(remainder) = Len(all) - RecordSize
                      /\ Runs(record, e) /\ Runs(remainder, e + RecordSize) /\ Sound(s, record)
    OBVIOUS
  <2>1. RecordSize \in 0 .. Len(all) /\ RecordSize \in Nat
    BY <1>5, <1>6
  <2>2. /\ record \in Units /\ Len(record) = RecordSize
        /\ remainder \in Units /\ Len(remainder) = Len(all) - RecordSize
    BY <1>4, <2>1, Pieces DEF Units
  <2>3. Runs(record, e) /\ Runs(remainder, e + RecordSize)
    BY <1>1, <1>4, <2>1, RunsPrefix, RunsRest
  <2> HIDE DEF record, remainder
  <2>4. Sound(s, record)
    <3>1. 1 \in 1 .. Len(record) /\ DOMAIN record = 1 .. Len(record)
      BY <1>5, <2>2, LenProperties DEF Units
    <3>2. record[1] = e
      BY <1>1, <2>3, <3>1 DEF Runs
    <3>3. QED
      BY <2>3, <3>1, <3>2 DEF Sound, Runs, e
  <2>5. QED
    BY <2>2, <2>3, <2>4
<1> HIDE DEF record, remainder
<1>8. CASE ~s.clear /\ Len(all) < RecordSize
  <2>1. d.held = all /\ d.rbio = <<>> /\ d.phase = "open" /\ d.wbio = s.wbio /\ d.expected = e
    BY <1>2, <1>5, <1>6, <1>8 DEF e
  <2>2. Begins(d) = e
    BY <2>1 DEF Begins
  <2>3. Serving(d)
    BY <1>4, <2>1, <2>2, RunsNot DEF Serving
  <2>4. Ends(d) = Ends(s)
    <3>1. Ends(d) = e + Len(all) + 0
      BY <1>1, <2>1, <2>2 DEF Ends
    <3>2. QED
      BY <1>1, <1>6, <3>1
  <2>5. s.wbio \o <<>> = s.wbio
    BY <1>1, WithNothing DEF Units
  <2>6. Begins(d) = Begins(s) + Len(<<>>)
    BY <1>1, <1>3, <2>2
  <2>7. Runs(<<>>, Begins(s))
    BY RunsNot
  <2>8. QED
    BY <1>1, <2>1, <2>3, <2>4, <2>5, <2>6, <2>7
<1>9. CASE s.clear \/ Len(all) >= RecordSize
  <2>1. \E r \in Units, rest \in Units : \E n \in 0 .. Len(r) :
          /\ \/ s.clear /\ r = s.held /\ rest = s.rbio
             \/ ~s.clear /\ Len(all) >= RecordSize /\ r = record /\ rest = remainder
          /\ d.held = Rest(r, n) /\ d.rbio = rest /\ d.wbio = s.wbio \o Prefix(r, n)
          /\ d.phase = s.phase /\ d.expected = s.expected + n
    <3>1. ~(~s.clear /\ Len(all) < RecordSize)
      BY <1>5, <1>6, <1>9
    <3>2. ~(~s.clear /\ Len(all) >= RecordSize /\ ~Sound(s, record) /\ d.phase = "broken")
      BY <1>7
    <3>3. QED
      BY ONLY <1>2, <3>1, <3>2
  <2>2. PICK r \in Units, rest \in Units : \E n \in 0 .. Len(r) :
          /\ \/ s.clear /\ r = s.held /\ rest = s.rbio
             \/ ~s.clear /\ Len(all) >= RecordSize /\ r = record /\ rest = remainder
          /\ d.held = Rest(r, n) /\ d.rbio = rest /\ d.wbio = s.wbio \o Prefix(r, n)
          /\ d.phase = s.phase /\ d.expected = s.expected + n
    BY <2>1
  <2>3. PICK n \in 0 .. Len(r) :
          /\ \/ s.clear /\ r = s.held /\ rest = s.rbio
             \/ ~s.clear /\ Len(all) >= RecordSize /\ r = record /\ rest = remainder
          /\ d.held = Rest(r, n) /\ d.rbio = rest /\ d.wbio = s.wbio \o Prefix(r, n)
          /\ d.phase = s.phase /\ d.expected = s.expected + n
    BY <2>2
  <2> DEFINE out  == Prefix(r, n)
             left == Rest(r, n)
  <2>4. Runs(r, e) /\ Runs(rest, e + Len(r)) /\ Ends(s) = e + Len(r) + Len(rest)
    <3>1. CASE s.clear
      BY <1>3, <2>3, <3>1
    <3>2. CASE ~s.clear
      <4>1. Len(all) >= RecordSize /\ r = record /\ rest = remainder
        BY <2>3, <3>2
      <4>2. Ends(s) = e + RecordSize + (Len(all) - RecordSize)
        BY <1>1, <1>5, <1>6
      <4>3. QED
        BY <1>7, <4>1, <4>2
    <3>3. QED
      BY <3>1, <3>2
  <2>5. /\ out \in Units /\ Len(out) = n /\ left \in Units /\ Len(left) = Len(r) - n
        /\ n \in Nat /\ Len(r) \in Nat /\ Len(rest) \in Nat
    BY Pieces, LenProperties DEF Units
  <2>6. Runs(out, e) /\ Runs(left, e + n)
    BY <1>1, <2>4, <2>5, RunsPrefix, RunsRest
  <2>7. d.held = left /\ d.rbio = rest /\ d.wbio = s.wbio \o out /\ d.phase = "open" /\ d.expected = e + n
    BY <2>3 DEF e
  <2> HIDE DEF out, left
  <2>8. Begins(d) = e + n
    BY <2>7 DEF Begins
  <2>9. Begins(d) + Len(d.held) = e + Len(r)
    BY <1>1, <2>5, <2>7, <2>8
  <2>10. Serving(d)
    BY <2>4, <2>6, <2>7, <2>8, <2>9 DEF Serving
  <2>11. Ends(d) = Ends(s)
    BY <2>4, <2>7, <2>9 DEF Ends
  <2>12. Begins(d) = Begins(s) + Len(out) /\ Runs(out, Begins(s))
    BY <1>3, <2>5, <2>6, <2>8
  <2>13. QED
    BY <2>5, <2>7, <2>10, <2>11, <2>12
<1>10. s.clear \in BOOLEAN
  BY SslHas
<1>11. QED
  BY <1>5, <1>6, <1>8, <1>9, <1>10

LEMMA HandledServes ==
  ASSUME load.read \in Nat, NEW s \in Ssl, Serving(s)
  PROVE  LET d == Handled(s) IN
         /\ Serving(d) /\ Ends(d) = Ends(s)
         /\ \E v \in Units : /\ Runs(v, Begins(s)) /\ Begins(d) = Begins(s) + Len(v)
                             /\ d.wbio = s.wbio \o v
<1>1. CASE s.phase \in {"accept", "flight"}
  BY <1>1, HandledHas, HandshakeServes
<1>2. CASE s.phase = "open"
  BY <1>2, HandledHas, ReadServes
<1>3. CASE s.phase \notin {"accept", "flight", "open"}
  <2>1. Handled(s) = s
    BY <1>3, HandledHas
  <2>2. s.wbio \in Units /\ <<>> \in Units /\ Len(<<>>) = 0 /\ Begins(s) \in Nat
    BY SslHas, UnitsHave, BeginsHas
  <2>3. s.wbio \o <<>> = s.wbio
    BY <2>2, WithNothing DEF Units
  <2>4. Begins(s) = Begins(s) + Len(<<>>)
    BY <2>2
  <2>5. QED
    BY <2>1, <2>2, <2>3, <2>4, RunsNot
<1>4. QED
  BY <1>1, <1>2, <1>3

-----------------------------------------------------------------------------
(* Counting when a member is removed, and when there is none.              *)

LEMMA HowManyRemoved ==
  ASSUME NEW S, NEW u \in Seq(S), NEW n \in 1 .. Len(u), NEW X
  PROVE  HowMany(u, X) = HowMany(RemoveAt(u, n), X) + (IF u[n] \in X THEN 1 ELSE 0)
<1> DEFINE a == SubSeq(u, 1, n - 1)
           e == <<u[n]>>
           b == SubSeq(u, n + 1, Len(u))
           f == a \o e
           w == f \o b
<1>1. Len(u) \in Nat /\ \A i \in 1 .. Len(u) : u[i] \in S
  BY LenProperties, ElementOfSeq
<1>2. /\ a \in Seq(S) /\ Len(a) = n - 1 /\ \A i \in 1 .. n - 1 : a[i] = u[i]
  <2>1. 1 \in Int /\ n - 1 \in Int /\ \A i \in 1 .. n - 1 : u[i] \in S
    BY <1>1
  <2>2. /\ a \in Seq(S) /\ Len(a) = IF 1 <= n - 1 THEN (n - 1) - 1 + 1 ELSE 0
        /\ \A i \in 1 .. (n - 1) - 1 + 1 : a[i] = u[1 + i - 1]
    BY <2>1, SubSeqProperties
  <2>3. QED
    BY <1>1, <2>2
<1>3. /\ b \in Seq(S) /\ Len(b) = Len(u) - n /\ \A i \in 1 .. Len(u) - n : b[i] = u[n + i]
  <2>1. n + 1 \in Int /\ Len(u) \in Int /\ \A i \in n + 1 .. Len(u) : u[i] \in S
    BY <1>1
  <2>2. /\ b \in Seq(S) /\ Len(b) = IF n + 1 <= Len(u) THEN Len(u) - (n + 1) + 1 ELSE 0
        /\ \A i \in 1 .. Len(u) - (n + 1) + 1 : b[i] = u[(n + 1) + i - 1]
    BY <2>1, SubSeqProperties
  <2>3. QED
    BY <1>1, <2>2
<1>4. e \in Seq(S) /\ Len(e) = 1 /\ e[1] = u[n] /\ HowMany(e, X) = IF u[n] \in X THEN 1 ELSE 0
  BY <1>1, HowManyOne
<1>5. RemoveAt(u, n) = a \o b
  BY DEF RemoveAt
<1> HIDE DEF a, b, e
<1>6. /\ f \in Seq(S) /\ Len(f) = n
      /\ \A i \in 1 .. n : f[i] = u[i]
  <2>1. /\ f \in Seq(S) /\ Len(f) = Len(a) + Len(e)
        /\ \A i \in 1 .. Len(a) + Len(e) : f[i] = IF i <= Len(a) THEN a[i] ELSE e[i - Len(a)]
    BY <1>2, <1>4, BothHave
  <2> HIDE DEF f
  <2>2. Len(a) + Len(e) = n
    BY <1>1, <1>2, <1>4
  <2>3. ASSUME NEW i \in 1 .. n PROVE f[i] = u[i]
    <3>1. f[i] = IF i <= n - 1 THEN a[i] ELSE e[i - (n - 1)]
      BY <1>2, <2>1, <2>2
    <3>2. CASE i <= n - 1
      BY <1>2, <3>1, <3>2
    <3>3. CASE ~(i <= n - 1)
      <4>1. i = n /\ i - (n - 1) = 1
        BY <1>1, <3>3
      <4>2. QED
        BY <1>4, <3>1, <3>3, <4>1
    <3>4. QED
      BY <3>2, <3>3
  <2>4. QED
    BY <2>1, <2>2, <2>3
<1> HIDE DEF f
<1>7. w = u
  <2>1. /\ w \in Seq(S) /\ Len(w) = Len(f) + Len(b)
        /\ \A i \in 1 .. Len(f) + Len(b) : w[i] = IF i <= Len(f) THEN f[i] ELSE b[i - Len(f)]
    BY <1>3, <1>6, BothHave
  <2> HIDE DEF w
  <2>2. Len(w) = Len(u)
    BY <1>1, <1>3, <1>6, <2>1
  <2>3. ASSUME NEW i \in 1 .. Len(w) PROVE w[i] = u[i]
    <3>1. w[i] = IF i <= n THEN f[i] ELSE b[i - n]
      BY <1>6, <2>1
    <3>2. CASE i <= n
      <4>1. i \in 1 .. n
        BY <1>1, <2>2, <3>2
      <4>2. QED
        BY <1>6, <3>1, <3>2, <4>1
    <3>3. CASE ~(i <= n)
      <4>1. i - n \in 1 .. Len(u) - n /\ n + (i - n) = i
        BY <1>1, <2>2, <3>3
      <4>2. QED
        BY <1>3, <3>1, <3>3, <4>1
    <3>4. QED
      BY <3>2, <3>3
  <2>4. QED
    BY <2>1, <2>2, <2>3, SeqEqual
<1>8. HowMany(w, X) = HowMany(f, X) + HowMany(b, X)
  BY <1>3, <1>6, HowManyBoth
<1>9. HowMany(f, X) = HowMany(a, X) + HowMany(e, X)
  BY <1>2, <1>4, HowManyBoth DEF f
<1>10. HowMany(a \o b, X) = HowMany(a, X) + HowMany(b, X)
  BY <1>2, <1>3, HowManyBoth
<1>11. HowMany(a, X) \in Nat /\ HowMany(b, X) \in Nat /\ HowMany(e, X) \in Nat
  BY <1>2, <1>3, <1>4, HowManyType
<1>12. QED
  BY <1>4, <1>5, <1>7, <1>8, <1>9, <1>10, <1>11

LEMMA HowManyZero ==
  ASSUME NEW u, NEW X, \A i \in 1 .. Len(u) : u[i] \notin X
  PROVE  HowMany(u, X) = 0
<1>1. Hits(u, X) = {}
  BY DEF Hits
<1>2. QED
  BY <1>1, FS_EmptySet DEF HowMany

-----------------------------------------------------------------------------
(* A connection that met none of the mishaps.                              *)

Clean(c) == mishaps[c] \cap {"overwritten", "short", "misdirected", "refilled"} = {}

Here(c) == called # None /\ called.fd = c

Start(c) == IF Here(c) THEN Ends(ssl[c]) + called.units ELSE Ends(ssl[c])

(* What it has to take follows what it took.                               *)
Inward(c) ==
  /\ Serving(ssl[c])
  /\ Arrives(c, Start(c), cq, bufs, wire[c], next[c])
  /\ Here(c) => Runs(Filled(bufs[called.buf], called.units), Ends(ssl[c]))

Of(c) == {w \in UnderWay : w.fd = c}

(* The writes of a connection, not taken yet or under way.                 *)
Writing(c) == HowMany(sq, {Writev(c)}) + HowMany(writes, Of(c))

Cached(c) == IF Writing(c) = 0 THEN <<>> ELSE Prefix(cache[c].buf, cache[c].len)

(* What left it, and is to leave it, is what it took. There is one write   *)
(* at most, and it is of what the write cache holds.                       *)
Outward(c) ==
  /\ Writing(c) <= 1
  /\ \A i \in 1 .. Len(writes) : writes[i].fd = c => writes[i].len = cache[c].len
  /\ Out(back[c], Cached(c), ssl[c].wbio, Begins(ssl[c]))

Echoing == \A c \in DOMAIN load.records : Clean(c) => Inward(c) /\ Outward(c)

LEMMA CleanBefore ==
  ASSUME NEW c, mishaps[c] \subseteq mishaps'[c], Clean(c)'
  PROVE  Clean(c)
BY DEF Clean

LEMMA StateHas ==
  ASSUME EchoTyped, NEW c \in Connections
  PROVE  /\ ssl[c] \in Ssl /\ ssl[c].wbio \in Units /\ wire[c] \in Units /\ back[c] \in Units /\ next[c] \in Nat
         /\ cache[c].buf \in Units /\ cache[c].len \in 0 .. CacheSize /\ Len(cache[c].buf) = CacheSize
         /\ sq \in Seq(Entry) /\ cq \in Seq(Completed) /\ writes \in Seq(UnderWay)
         /\ HowMany(sq, {Writev(c)}) \in Nat /\ HowMany(writes, Of(c)) \in Nat /\ Writing(c) \in Nat
         /\ Prefix(cache[c].buf, cache[c].len) \in Units /\ Len(Prefix(cache[c].buf, cache[c].len)) = cache[c].len
         /\ Cached(c) \in Units
<1>1. /\ ssl[c] \in Ssl /\ wire[c] \in Units /\ back[c] \in Units /\ next[c] \in Nat
      /\ cache[c] \in CacheEntry
      /\ sq \in Seq(Entry) /\ cq \in Seq(Completed) /\ writes \in Seq(UnderWay)
  BY DEF EchoTyped, ClientTyped, ProgramTyped, KernelTyped
<1>2. ssl[c].wbio \in Units
  BY <1>1, SslHas
<1>3. cache[c].buf \in Units /\ cache[c].len \in 0 .. CacheSize /\ Len(cache[c].buf) = CacheSize
  BY <1>1 DEF CacheEntry
<1>4. HowMany(sq, {Writev(c)}) \in Nat /\ HowMany(writes, Of(c)) \in Nat
  BY <1>1, HowManyType
<1>5. /\ Prefix(cache[c].buf, cache[c].len) \in Units
      /\ Len(Prefix(cache[c].buf, cache[c].len)) = cache[c].len
  BY <1>3, Pieces DEF Units
<1>6. Writing(c) \in Nat
  BY <1>4 DEF Writing
<1>7. Cached(c) \in Units
  BY <1>5, EmptySeq DEF Cached, Units
<1>8. QED
  BY <1>1, <1>2, <1>3, <1>4, <1>5, <1>6, <1>7

LEMMA OutwardKept ==
  ASSUME NEW c \in Connections, Outward(c), UNCHANGED <<back[c], cache[c], ssl[c].wbio, Begins(ssl[c]), writes>>,
         HowMany(sq', {Writev(c)}) = HowMany(sq, {Writev(c)})
  PROVE  Outward(c)'
<1>1. Writing(c)' = Writing(c)
  BY DEF Writing
<1>2. Cached(c)' = Cached(c)
  BY <1>1 DEF Cached
<1>3. QED
  BY <1>1, <1>2 DEF Outward

(* EntriesAre that write nothing.                                             *)
LEMMA WritesNothing ==
  ASSUME NEW c \in Connections
  PROVE  /\ HowMany(<<>>, {Writev(c)}) = 0
         /\ \A d \in Connections, cb \in {"RECV", "WRITEV"} :
              RecvMulti(d, cb) \notin {Writev(c)} /\ HowMany(<<RecvMulti(d, cb)>>, {Writev(c)}) = 0
         /\ \A d \in Connections : HowMany(Rearmed(d), {Writev(c)}) = 0
<1>1. /\ Provide \notin {Writev(c)}
      /\ \A d \in Connections, cb \in {"RECV", "WRITEV"} : RecvMulti(d, cb) \notin {Writev(c)}
  BY EntriesAre
<1>2. ASSUME NEW d \in Connections PROVE HowMany(Rearmed(d), {Writev(c)}) = 0
  <2>1. Len(Rearmed(d)) = 2 /\ Rearmed(d)[1] = Provide /\ Rearmed(d)[2] = RecvMulti(d, "RECV")
    BY DEF Rearmed
  <2>2. \A i \in 1 .. Len(Rearmed(d)) : Rearmed(d)[i] \notin {Writev(c)}
    BY <1>1, <2>1
  <2>3. QED
    BY <2>2, HowManyZero
<1>3. QED
  BY <1>1, <1>2, HowManyNone, HowManyOne

(* DrainWriteBIO and SubmitWritev.                                         *)
LEMMA PendingMore ==
  ASSUME EchoTyped, NEW c \in Connections, NEW s \in Ssl, NEW extra \in Seq(Entry), DrainAndWrite(c, s, extra),
         NEW d \in Connections, HowMany(extra, {Writev(d)}) = 0
  PROVE  HowMany(sq', {Writev(d)}) = HowMany(sq, {Writev(d)}) + (IF d = c /\ PendingWrite(s) > 0 THEN 1 ELSE 0)
<1> DEFINE n == Lesser(PendingWrite(s), CacheSize)
           o == IF n = 0 THEN <<>> ELSE <<Writev(c)>>
           a == sq \o o
<1>1. sq' = a \o extra
  BY DEF DrainAndWrite
<1>2. n = 0 <=> ~(PendingWrite(s) > 0)
  BY SslHas, SizesAre DEF Lesser, PendingWrite, GroupSizes
<1>3. o \in Seq(Entry) /\ HowMany(o, {Writev(d)}) = IF d = c /\ PendingWrite(s) > 0 THEN 1 ELSE 0
  <2>1. Writev(c) \in Entry /\ (Writev(c) \in {Writev(d)} <=> d = c)
    BY EntriesAre
  <2>2. HowMany(<<>>, {Writev(d)}) = 0 /\ HowMany(<<Writev(c)>>, {Writev(d)}) = IF d = c THEN 1 ELSE 0
    BY <2>1, HowManyNone, HowManyOne
  <2> HIDE DEF n
  <2>3. QED
    BY <1>2, <2>1, <2>2
<1>4. sq \in Seq(Entry) /\ HowMany(sq, {Writev(d)}) \in Nat
  BY StateHas
<1> HIDE DEF o, n
<1>5. a \in Seq(Entry) /\ HowMany(a, {Writev(d)}) = HowMany(sq, {Writev(d)}) + HowMany(o, {Writev(d)})
  BY <1>3, <1>4, BothHave, HowManyBoth
<1> HIDE DEF a
<1>6. HowMany(a \o extra, {Writev(d)}) = HowMany(a, {Writev(d)}) + HowMany(extra, {Writev(d)})
  BY <1>5, HowManyBoth
<1>7. QED
  BY <1>1, <1>3, <1>4, <1>5, <1>6

LEMMA DrainKeeps ==
  ASSUME EchoTyped, NEW c \in Connections, NEW s \in Ssl, s.phase # "none" => c \in DOMAIN load.records,
         NEW extra \in Seq(Entry), DrainAndWrite(c, s, extra)
  PROVE  /\ Begins(ssl'[c]) = Begins(s) /\ Ends(ssl'[c]) = Ends(s) /\ (Serving(s) => Serving(ssl'[c]))
         /\ \A d \in Connections : d # c => ssl'[d] = ssl[d] /\ cache'[d] = cache[d]
<1>1. /\ ssl'[c].phase = s.phase /\ ssl'[c].rbio = s.rbio /\ ssl'[c].held = s.held /\ ssl'[c].expected = s.expected
      /\ \A d \in Connections : d # c => ssl'[d] = ssl[d] /\ cache'[d] = cache[d]
  BY DrainHas
<1> DEFINE t == ssl'[c]
<1>2. t.phase = s.phase /\ t.rbio = s.rbio /\ t.held = s.held /\ t.expected = s.expected
  BY <1>1
<1> HIDE DEF t
<1>3. Begins(t) = Begins(s)
  BY <1>2 DEF Begins
<1>4. Ends(t) = Ends(s) /\ (Serving(s) => Serving(t))
  BY <1>2, <1>3 DEF Ends, Serving
<1>5. QED
  BY <1>1, <1>3, <1>4 DEF t

(* Nothing is written yet, or nothing is left to write.                    *)
LEMMA DrainOut ==
  ASSUME EchoTyped, NEW c \in Connections, NEW s \in Ssl, s.phase # "none" => c \in DOMAIN load.records,
         NEW extra \in Seq(Entry), HowMany(extra, {Writev(c)}) = 0, DrainAndWrite(c, s, extra),
         UNCHANGED <<back, writes>>, Writing(c) <= 1, PendingWrite(s) > 0 => Writing(c) = 0,
         \A i \in 1 .. Len(writes) : writes[i].fd = c => writes[i].len = cache[c].len,
         Out(back[c], Cached(c), s.wbio, Begins(s))
  PROVE  Outward(c)'
<1> DEFINE t == ssl'[c]
           k == cache'[c]
<1>1. PICK n \in 0 .. Len(s.wbio) :
        /\ n <= CacheSize /\ (n = 0 <=> s.wbio = <<>>)
        /\ t.wbio = Rest(s.wbio, n)
        /\ IF n = 0 THEN k = cache[c] ELSE k.len = n /\ Prefix(k.buf, n) = Prefix(s.wbio, n)
  <2>1. \E n \in 0 .. Len(s.wbio) :
          /\ n <= CacheSize /\ (n = 0 <=> s.wbio = <<>>)
          /\ ssl' \in [Connections -> Ssl] /\ \A d \in Connections : d # c => ssl'[d] = ssl[d]
          /\ ssl'[c].phase = s.phase /\ ssl'[c].rbio = s.rbio /\ ssl'[c].held = s.held
          /\ ssl'[c].expected = s.expected /\ ssl'[c].wbio = Rest(s.wbio, n)
          /\ \A d \in Connections : ssl'[d].phase # "none" => d \in DOMAIN load.records
          /\ cache' \in [Connections -> CacheEntry] /\ \A d \in Connections : d # c => cache'[d] = cache[d]
          /\ IF n = 0 THEN cache'[c] = cache[c]
             ELSE cache'[c].len = n /\ Prefix(cache'[c].buf, n) = Prefix(s.wbio, n)
          /\ sq' \in Seq(Entry) /\ sq' = (sq \o (IF n = 0 THEN <<>> ELSE <<Writev(c)>>)) \o extra
    BY DrainHas
  <2>2. PICK n \in 0 .. Len(s.wbio) :
          /\ n <= CacheSize /\ (n = 0 <=> s.wbio = <<>>) /\ ssl'[c].wbio = Rest(s.wbio, n)
          /\ IF n = 0 THEN cache'[c] = cache[c]
             ELSE cache'[c].len = n /\ Prefix(cache'[c].buf, n) = Prefix(s.wbio, n)
    BY ONLY <2>1, Zenon
  <2>3. QED
    BY ONLY <2>2 DEF t, k
<1>2. Begins(t) = Begins(s)
  BY DrainKeeps
<1>3. s.wbio \in Units /\ Len(s.wbio) \in Nat /\ (PendingWrite(s) > 0 <=> n # 0) /\ Begins(s) \in Nat
  BY <1>1, SslHas, EmptySeq, BeginsHas DEF Units, PendingWrite
<1>4. /\ back[c] \in Units /\ Cached(c) \in Units /\ Writing(c) \in Nat
      /\ HowMany(sq, {Writev(c)}) \in Nat /\ HowMany(writes, Of(c)) \in Nat
  BY StateHas
<1>5. HowMany(sq', {Writev(c)}) = HowMany(sq, {Writev(c)}) + (IF PendingWrite(s) > 0 THEN 1 ELSE 0)
  BY PendingMore
<1>6. Writing(c)' = Writing(c) + (IF n # 0 THEN 1 ELSE 0)
  BY <1>3, <1>4, <1>5 DEF Writing
<1> HIDE DEF t, k
<1>7. CASE n = 0
  <2>1. Writing(c)' = Writing(c) /\ k = cache[c]
    BY <1>1, <1>4, <1>6, <1>7
  <2>2. Cached(c)' = Cached(c)
    BY <2>1 DEF Cached, k
  <2>3. Out(back[c], Cached(c), Rest(s.wbio, 0), Begins(s))
    BY <1>3, <1>4, OutKept
  <2>4. QED
    BY <1>1, <1>2, <1>7, <2>1, <2>2, <2>3 DEF Outward, t, k
<1>8. CASE n # 0
  <2>1. Writing(c) = 0 /\ Writing(c)' = 1
    BY <1>3, <1>4, <1>6, <1>8
  <2>2. Cached(c) = <<>>
    BY <2>1 DEF Cached
  <2>3. Cached(c)' = Prefix(s.wbio, n)
    <3>1. Cached(c)' = Prefix(k.buf, k.len)
      BY <2>1 DEF Cached, k
    <3>2. QED
      BY <1>1, <1>8, <3>1
  <2>4. Out(back[c], Prefix(s.wbio, n), Rest(s.wbio, n), Begins(s))
    BY <1>3, <1>4, <2>2, OutDrained
  <2>5. \A i \in 1 .. Len(writes) : writes[i].fd # c
    <3> SUFFICES ASSUME NEW i \in 1 .. Len(writes), writes[i].fd = c PROVE FALSE
      OBVIOUS
    <3>1. writes \in Seq(UnderWay)
      BY StateHas
    <3>2. writes[i] \in Of(c)
      BY <3>1, ElementOfSeq DEF Of
    <3>3. /\ HowMany(writes, Of(c)) = HowMany(RemoveAt(writes, i), Of(c)) + 1
          /\ HowMany(RemoveAt(writes, i), Of(c)) \in Nat
      BY <3>1, <3>2, HowManyRemoved, HowManyType, RemovedHas
    <3>4. QED
      BY <1>4, <2>1, <3>3 DEF Writing
  <2>6. Out(back[c]', Cached(c)', t.wbio, Begins(t))
    BY <1>1, <1>2, <2>3, <2>4
  <2>7. QED
    BY <2>1, <2>5, <2>6 DEF Outward, t
<1>9. QED
  BY <1>7, <1>8

LEMMA DrainOther ==
  ASSUME EchoTyped, NEW c \in Connections, NEW s \in Ssl, s.phase # "none" => c \in DOMAIN load.records,
         NEW extra \in Seq(Entry), DrainAndWrite(c, s, extra), UNCHANGED <<back, writes>>,
         NEW d \in Connections, HowMany(extra, {Writev(d)}) = 0, d # c, Outward(d)
  PROVE  Outward(d)'
<1>1. ssl'[d] = ssl[d] /\ cache'[d] = cache[d]
  BY DrainKeeps
<1>2. HowMany(sq', {Writev(d)}) = HowMany(sq, {Writev(d)}) + 0
  BY PendingMore
<1>3. HowMany(sq, {Writev(d)}) \in Nat
  BY StateHas
<1>4. HowMany(sq', {Writev(d)}) = HowMany(sq, {Writev(d)})
  BY <1>2, <1>3
<1>5. QED
  BY <1>1, <1>4, OutwardKept

-----------------------------------------------------------------------------
(* Every step keeps a connection echoing that met none of the mishaps.     *)

LEMMA InwardKept ==
  ASSUME NEW c \in Connections, Inward(c), UNCHANGED <<ssl[c], called, cq, bufs, wire[c], next[c]>>
  PROVE  Inward(c)'
<1>1. Here(c)' = Here(c) /\ Start(c)' = Start(c)
  BY DEF Here, Start
<1>2. QED
  BY <1>1 DEF Inward, Here

LEMMA SendEchoes ==
  ASSUME EchoTyped, NEW c \in Connections, Send(c), NEW d \in Connections, Inward(d), Outward(d)
  PROVE  Inward(d)' /\ Outward(d)'
<1>1. PICK v \in Units :
        wire' = [wire EXCEPT ![c] = @ \o v] /\ next' = [next EXCEPT ![c] = @ + Len(v)] /\ Runs(v, next[c])
  BY SendHas
<1>2. UNCHANGED <<back, ssl, cache, called, sq, cq, bufs, writes>>
  BY DEF Send, programSide, kernelSide
<1>3. Outward(d)'
  BY <1>2, OutwardKept
<1>4. wire \in [Connections -> Units] /\ next \in [Connections -> Nat] /\ cq \in Seq(Completed)
  BY DEF EchoTyped, ClientTyped
<1>5. CASE d # c
  <2>1. wire'[d] = wire[d] /\ next'[d] = next[d]
    BY <1>1, <1>4, <1>5
  <2>2. QED
    BY <1>2, <1>3, <2>1, InwardKept
<1>6. CASE d = c
  <2>1. wire'[d] = wire[d] \o v /\ next'[d] = next[d] + Len(v) /\ Runs(v, next[d]) /\ wire[d] \in Units
    BY <1>1, <1>4, <1>6
  <2>2. Arrives(d, Start(d), cq, bufs, wire[d], next[d])
    BY DEF Inward
  <2>3. Arrives(d, Start(d), cq, bufs, wire'[d], next'[d])
    <3>1. Arrives(d, Start(d), cq, bufs, wire[d] \o v, next[d] + Len(v))
      BY <1>4, <2>1, <2>2, ArrivesSent
    <3>2. QED
      BY <2>1, <3>1
  <2>4. Here(d)' = Here(d) /\ Start(d)' = Start(d)
    BY <1>2 DEF Here, Start
  <2>5. Inward(d)'
    BY <1>2, <2>3, <2>4 DEF Inward, Here
  <2>6. QED
    BY <1>3, <2>5
<1>7. QED
  BY <1>5, <1>6

LEMMA AcceptEchoes ==
  ASSUME EchoTyped, NEW c \in Connections, Accept(c), NEW d \in Connections, Inward(d), Outward(d)
  PROVE  Inward(d)' /\ Outward(d)'
<1> DEFINE e == RecvMulti(c, "RECV")
<1>1. /\ ssl[c].phase = "none" /\ ssl' = [ssl EXCEPT ![c].phase = "accept"] /\ sq' = Append(sq, e)
      /\ UNCHANGED <<wire, next, back, cache, called, cq, bufs, writes>>
  BY DEF Accept, client, kernelSide
<1>2. HowMany(sq', {Writev(d)}) = HowMany(sq, {Writev(d)})
  <2>1. e \in Entry /\ e \notin {Writev(d)}
    BY EntriesAre, WritesNothing
  <2> HIDE DEF e
  <2>2. sq \in Seq(Entry) /\ HowMany(sq, {Writev(d)}) \in Nat
    BY StateHas
  <2>3. HowMany(Append(sq, e), {Writev(d)}) = HowMany(sq, {Writev(d)}) + 0
    BY <2>1, <2>2, HowManyMore
  <2>4. QED
    BY <1>1, <2>2, <2>3
<1>3. /\ ssl'[d].rbio = ssl[d].rbio /\ ssl'[d].wbio = ssl[d].wbio
      /\ ssl'[d].held = ssl[d].held /\ ssl'[d].expected = ssl[d].expected
      /\ \/ ssl'[d].phase = ssl[d].phase
         \/ ssl[d].phase = "none" /\ ssl'[d].phase = "accept"
  BY <1>1 DEF EchoTyped, ProgramTyped, Ssl
<1> DEFINE s == ssl[d]
           t == ssl'[d]
<1>4. Serving(t) /\ Begins(t) = Begins(s) /\ Ends(t) = Ends(s)
  <2>1. Serving(s)
    BY DEF Inward
  <2>2. /\ t.rbio = s.rbio /\ t.held = s.held /\ t.expected = s.expected
        /\ t.phase = s.phase \/ (s.phase = "none" /\ t.phase = "accept")
    BY <1>3
  <2> HIDE DEF s, t
  <2>3. Begins(t) = Begins(s)
    BY <2>2 DEF Begins
  <2>4. QED
    BY <2>1, <2>2, <2>3 DEF Serving, Ends
<1>5. Here(d)' = Here(d) /\ Start(d)' = Start(d)
  BY <1>1, <1>4 DEF Here, Start
<1>6. Inward(d)'
  BY <1>1, <1>4, <1>5 DEF Inward, Here
<1>7. Outward(d)'
  BY <1>1, <1>2, <1>3, <1>4, OutwardKept
<1>8. QED
  BY <1>6, <1>7

(* The entry taken, when it writes, is under way with what the write cache *)
(* holds.                                                                  *)
LEMMA TakeEchoes ==
  ASSUME EchoTyped, TakeEntry, NEW d \in Connections, Inward(d), Outward(d)
  PROVE  Inward(d)' /\ Outward(d)'
<1> DEFINE e == sq[1]
           w == [fd |-> e.fd, len |-> cache[e.fd].len]
<1>1. /\ e \in Entry /\ sq # <<>> /\ sq' = Tail(sq)
      /\ UNCHANGED <<wire, next, back, ssl, cache, called, cq, bufs>>
      /\ writes' = IF e.op = "WRITEV" THEN Append(writes, w) ELSE writes
  <2>1. /\ e \in Entry /\ sq # <<>> /\ sq' = Tail(sq)
        /\ UNCHANGED <<wire, next, back, ssl, cache, called, cq, bufs>>
    BY TakeHas DEF client, programSide
  <2>2. QED
    BY <2>1 DEF TakeEntry
<1>2. sq \in Seq(Entry) /\ writes \in Seq(UnderWay) /\ HowMany(writes, Of(d)) \in Nat
  BY StateHas
<1>3. HowMany(sq, {Writev(d)}) = (IF e \in {Writev(d)} THEN 1 ELSE 0) + HowMany(sq', {Writev(d)})
  BY <1>1, <1>2, HowManyLess
<1>4. HowMany(sq', {Writev(d)}) \in Nat
  BY <1>1, <1>2, HowManyType, HeadTailProperties, EmptySeq
<1>5. Inward(d)'
  BY <1>1, InwardKept
<1>6. CASE e.op # "WRITEV"
  <2>1. e # Writev(d)
    BY <1>6, EntriesAre
  <2>2. HowMany(sq', {Writev(d)}) = HowMany(sq, {Writev(d)})
    BY <1>3, <1>4, <2>1
  <2>3. QED
    BY <1>1, <1>5, <1>6, <2>2, OutwardKept
<1>7. CASE e.op = "WRITEV"
  <2>1. e.fd \in Connections /\ e = Writev(e.fd) /\ (e = Writev(d) <=> e.fd = d)
    BY <1>1, <1>7, EntryKinds, EntriesAre
  <2>2. w \in UnderWay /\ w.fd = e.fd /\ w.len = cache[e.fd].len
    <3>1. cache[e.fd].len \in 0 .. CacheSize
      BY <2>1, StateHas
    <3> DEFINE l == cache[e.fd].len
               f == e.fd
    <3>2. l \in 0 .. CacheSize /\ f \in Connections /\ w = [fd |-> f, len |-> l]
      BY <2>1, <3>1
    <3> HIDE DEF l, f, w
    <3>3. w \in UnderWay /\ w.fd = f /\ w.len = l
      BY <3>2 DEF UnderWay
    <3>4. QED
      BY <3>3 DEF l, f
  <2> HIDE DEF w
  <2>3. writes' = Append(writes, w)
    BY <1>1, <1>7
  <2>4. HowMany(writes', Of(d)) = HowMany(writes, Of(d)) + (IF e.fd = d THEN 1 ELSE 0)
    <3>1. w \in Of(d) <=> e.fd = d
      BY <2>2 DEF Of
    <3>2. HowMany(Append(writes, w), Of(d)) = HowMany(writes, Of(d)) + (IF w \in Of(d) THEN 1 ELSE 0)
      BY <1>2, <2>2, HowManyMore
    <3>3. QED
      BY <2>3, <3>1, <3>2
  <2>5. Writing(d)' = Writing(d)
    BY <1>2, <1>3, <1>4, <2>1, <2>4 DEF Writing
  <2>6. Cached(d)' = Cached(d)
    BY <1>1, <2>5 DEF Cached
  <2>7. ASSUME NEW i \in 1 .. Len(writes'), writes'[i].fd = d PROVE writes'[i].len = cache[d].len
    <3>1. /\ Len(Append(writes, w)) = Len(writes) + 1 /\ Append(writes, w)[Len(writes) + 1] = w
          /\ \A j \in 1 .. Len(writes) : Append(writes, w)[j] = writes[j]
      BY <1>2, <2>2, AppendProperties
    <3>2. Len(writes) \in Nat
      BY <1>2, LenProperties
    <3>3. CASE i = Len(writes) + 1
      BY <2>2, <2>3, <2>7, <3>1, <3>3
    <3>4. CASE i # Len(writes) + 1
      <4>1. i \in 1 .. Len(writes)
        BY <2>3, <3>1, <3>2, <3>4
      <4>2. QED
        BY <2>3, <2>7, <3>1, <4>1 DEF Outward
    <3>5. QED
      BY <3>3, <3>4
  <2>8. Outward(d)'
    BY <1>1, <2>5, <2>6, <2>7 DEF Outward
  <2>9. QED
    BY <1>5, <2>8
<1>8. QED
  BY <1>6, <1>7

LEMMA NoBuffersEchoes ==
  ASSUME EchoTyped, NEW i \in DOMAIN armed, NoBuffers(i), NEW d \in Connections, Inward(d), Outward(d)
  PROVE  Inward(d)' /\ Outward(d)'
<1>1. PICK k \in Completed : cq' = Append(cq, k) /\ k.units = 0
  BY NoBuffersTyped
<1>2. UNCHANGED <<wire, next, back, ssl, cache, called, sq, bufs, writes>>
  BY DEF NoBuffers, client, programSide
<1>3. Outward(d)'
  BY <1>2, OutwardKept
<1>4. ~Carries(k, d) /\ cq \in Seq(Completed)
  BY <1>1 DEF Carries, EchoTyped
<1>5. Here(d)' = Here(d) /\ Start(d)' = Start(d)
  BY <1>2 DEF Here, Start
<1>6. Arrives(d, Start(d), cq', bufs, wire[d], next[d])
  <2>1. Arrives(d, Start(d), cq, bufs, wire[d], next[d])
    BY DEF Inward
  <2>2. QED
    BY <1>1, <1>4, <2>1, ArrivesElsewhere
<1>7. Inward(d)'
  BY <1>2, <1>5, <1>6 DEF Inward, Here
<1>8. QED
  BY <1>3, <1>7

(* A write that takes all of the write cache leaves nothing of it.         *)
LEMMA TransferEchoes ==
  ASSUME EchoTyped, NEW i \in DOMAIN writes, NEW n \in Nat, Transfer(i, n),
         NEW d \in Connections, Inward(d), Outward(d), Clean(d)'
  PROVE  Inward(d)' /\ Outward(d)'
<1> DEFINE c == writes[i].fd
           p == Prefix(cache[c].buf, n)
           k == [op |-> "WRITEV", fd |-> c, cb |-> "WRITEV"]
           m == IF n = writes[i].len THEN {} ELSE {"short"}
<1>1. /\ c \in Connections /\ i \in 1 .. Len(writes) /\ writes' = RemoveAt(writes, i)
      /\ back' = [back EXCEPT ![c] = @ \o p] /\ p \in Units /\ Len(p) = n
      /\ k \in Completed /\ k.op = "WRITEV" /\ cq' = Append(cq, k)
      /\ mishaps' = [mishaps EXCEPT ![c] = @ \cup m]
      /\ UNCHANGED <<wire, next, ssl, cache, called, sq, bufs>>
  BY TransferHas DEF programSide
<1>2. sq \in Seq(Entry) /\ writes \in Seq(UnderWay) /\ cq \in Seq(Completed)
  BY StateHas
<1>3. ~Carries(k, d)
  BY <1>1 DEF Carries
<1> HIDE DEF k
<1>4. Arrives(d, Start(d), cq', bufs, wire[d], next[d])
  <2>1. Arrives(d, Start(d), cq, bufs, wire[d], next[d])
    BY DEF Inward
  <2>2. QED
    BY <1>1, <1>2, <1>3, <2>1, ArrivesElsewhere
<1>5. Here(d)' = Here(d) /\ Start(d)' = Start(d)
  BY <1>1 DEF Here, Start
<1>6. Inward(d)'
  BY <1>1, <1>4, <1>5 DEF Inward, Here
<1>7. writes[i] \in UnderWay /\ (writes[i] \in Of(d) <=> c = d)
  BY <1>1, <1>2, ElementOfSeq DEF Of
<1>8. HowMany(writes, Of(d)) = HowMany(writes', Of(d)) + (IF c = d THEN 1 ELSE 0)
  BY <1>1, <1>2, <1>7, HowManyRemoved
<1>9. HowMany(writes', Of(d)) \in Nat /\ HowMany(sq, {Writev(d)}) \in Nat
  BY <1>1, <1>2, HowManyType, RemovedHas
<1>10. \A j \in 1 .. Len(writes') : \E l \in 1 .. Len(writes) : writes'[j] = writes[l]
  <2>1. /\ Len(writes') = Len(writes) - 1
        /\ \A j \in 1 .. Len(writes) - 1 : writes'[j] = IF j < i THEN writes[j] ELSE writes[j + 1]
    BY <1>1, <1>2, RemovedHas
  <2>2. Len(writes) \in Nat
    BY <1>2, LenProperties
  <2>3. \A j \in 1 .. Len(writes) - 1 : j \in 1 .. Len(writes) /\ j + 1 \in 1 .. Len(writes)
    BY <2>2
  <2>4. QED
    BY <2>1, <2>3
<1>11. \A j \in 1 .. Len(writes') : writes'[j].fd = d => writes'[j].len = cache'[d].len
  BY <1>1, <1>10 DEF Outward
<1>12. CASE c # d
  <2>1. Writing(d)' = Writing(d) /\ back'[d] = back[d]
    <3>1. HowMany(writes', Of(d)) = HowMany(writes, Of(d))
      BY <1>8, <1>9, <1>12
    <3>2. back'[d] = back[d]
      BY <1>1, <1>12 DEF EchoTyped, ClientTyped
    <3>3. QED
      BY <1>1, <3>1, <3>2 DEF Writing
  <2>2. Cached(d)' = Cached(d)
    BY <1>1, <2>1 DEF Cached
  <2>3. Outward(d)'
    BY <1>1, <1>11, <2>1, <2>2 DEF Outward
  <2>4. QED
    BY <1>6, <2>3
<1>13. CASE c = d
  <2>1. Writing(d) <= 1 /\ Out(back[d], Cached(d), ssl[d].wbio, Begins(ssl[d])) /\ writes[i].len = cache[d].len
    BY <1>1, <1>13 DEF Outward
  <2>2. Writing(d) = 1 /\ Writing(d)' = 0
    BY <1>1, <1>8, <1>9, <1>13, <2>1 DEF Writing
  <2>3. n = cache[d].len
    <3>1. mishaps'[d] = mishaps[d] \cup m
      <4> HIDE DEF m
      <4>1. QED
        BY <1>1, <1>13 DEF EchoTyped
    <3>2. "short" \notin m
      BY <3>1 DEF Clean
    <3>3. QED
      BY <2>1, <3>2
  <2>4. Cached(d) = p /\ Cached(d)' = <<>>
    BY <1>13, <2>2, <2>3 DEF Cached
  <2>5. back'[d] = back[d] \o Cached(d)
    BY <1>1, <1>13, <2>4 DEF EchoTyped, ClientTyped
  <2>6. back[d] \in Units /\ Cached(d) \in Units /\ ssl[d].wbio \in Units /\ Begins(ssl[d]) \in Nat
    BY StateHas, BeginsHas
  <2>7. Out(back[d] \o Cached(d), <<>>, ssl[d].wbio, Begins(ssl[d]))
    BY <2>1, <2>6, OutSent
  <2>8. Outward(d)'
    <3>1. Out(back[d]', Cached(d)', ssl[d]'.wbio, Begins(ssl[d]'))
      BY <1>1, <2>4, <2>5, <2>7
    <3>2. QED
      BY <1>11, <2>2, <3>1 DEF Outward
  <2>9. QED
    BY <1>6, <2>8
<1>14. QED
  BY <1>12, <1>13

LEMMA NotOutstanding ==
  ASSUME EchoTyped, NEW c \in Connections, ~WriteOutstanding(c)
  PROVE  Writing(c) = 0
<1>1. DOMAIN sq = 1 .. Len(sq) /\ DOMAIN writes = 1 .. Len(writes)
  BY LenProperties DEF EchoTyped, KernelTyped
<1>2. \A i \in 1 .. Len(sq) : sq[i] \notin {Writev(c)}
  BY <1>1 DEF WriteOutstanding
<1>3. \A i \in 1 .. Len(writes) : writes[i] \notin Of(c)
  BY <1>1 DEF WriteOutstanding, Of
<1>4. HowMany(sq, {Writev(c)}) = 0 /\ HowMany(writes, Of(c)) = 0
  BY <1>2, <1>3, HowManyZero
<1>5. QED
  BY <1>4 DEF Writing

(* The buffer filled is none of those that hold what is still to be pushed.*)
LEMMA ReceiveEchoes ==
  ASSUME EchoTyped, NEW i \in DOMAIN armed, NEW n \in Nat, NEW more \in BOOLEAN, Receive(i, n, more),
         NEW d \in Connections, Inward(d), Outward(d), Clean(d)'
  PROVE  Inward(d)' /\ Outward(d)'
<1> DEFINE c == armed[i].fd
           b == free[1]
           p == Prefix(wire[c], n)
           k == [op |-> "RECV", fd |-> c, cb |-> armed[i].cb, buf |-> b, units |-> n, more |-> more]
<1>1. /\ c \in Connections /\ b \in 1 .. NumBufs /\ n \in 1 .. BufSize /\ n \in 0 .. Len(wire[c])
      /\ wire' = [wire EXCEPT ![c] = Rest(@, n)]
      /\ Filled(bufs'[b], n) = p
      /\ \A e \in 1 .. NumBufs : e # b => bufs'[e] = bufs[e]
      /\ k \in Completed /\ cq' = Append(cq, k)
      /\ k.op = "RECV" /\ k.fd = c /\ k.units = n /\ k.buf = b
      /\ mishaps' = [e \in Connections |-> mishaps[e] \cup (IF e \in Owners(b) THEN {"refilled"} ELSE {})]
      /\ UNCHANGED <<next, back, ssl, cache, called, sq, writes>>
  BY ReceiveHas DEF programSide
<1> HIDE DEF k, c, b
<1>2. Outward(d)'
  BY <1>1, OutwardKept
<1>3. cq \in Seq(Completed) /\ wire[d] \in Units
  BY StateHas
<1>4. d \notin Owners(b)
  <2>1. mishaps'[d] = mishaps[d] \cup (IF d \in Owners(b) THEN {"refilled"} ELSE {})
    BY <1>1
  <2>2. "refilled" \notin mishaps'[d]
    BY DEF Clean
  <2>3. QED
    BY <2>1, <2>2
<1>5. \A j \in 1 .. Len(cq) : Carries(cq[j], d) => bufs'[cq[j].buf] = bufs[cq[j].buf]
  <2> SUFFICES ASSUME NEW j \in 1 .. Len(cq), Carries(cq[j], d)
               PROVE  bufs'[cq[j].buf] = bufs[cq[j].buf]
    OBVIOUS
  <2>1. cq[j] \in Completed /\ cq[j] \in ToSet(cq)
    BY <1>3, ElementOfSeq, LenProperties DEF ToSet
  <2>2. cq[j].op = "RECV" /\ cq[j].fd = d /\ cq[j].units > 0
    BY DEF Carries
  <2>3. cq[j].buf \in 1 .. NumBufs
    BY <2>1, <2>2, CompletionKinds
  <2>4. cq[j].buf # b
    BY <1>4, <2>1, <2>2 DEF Owners
  <2>5. QED
    BY <1>1, <2>3, <2>4
<1>6. Here(d) => bufs'[called.buf] = bufs[called.buf]
  <2> SUFFICES ASSUME Here(d) PROVE bufs'[called.buf] = bufs[called.buf]
    OBVIOUS
  <2>1. called # None /\ called.fd = d
    BY DEF Here
  <2>2. called.buf \in 1 .. NumBufs
    BY <2>1, HandedHas DEF EchoTyped, ProgramTyped
  <2>3. called.buf # b
    BY <1>4, <2>1 DEF Owners
  <2>4. QED
    BY <1>1, <2>2, <2>3
<1>7. Here(d)' = Here(d) /\ Start(d)' = Start(d)
  BY <1>1 DEF Here, Start
<1>8. Arrives(d, Start(d), cq, bufs', wire[d], next[d])
  <2>1. Arrives(d, Start(d), cq, bufs, wire[d], next[d])
    BY DEF Inward
  <2>2. QED
    BY <1>3, <1>5, <2>1, ArrivesElse
<1>9. Arrives(d, Start(d), cq', bufs', wire'[d], next[d])
  <2>1. CASE d # c
    <3>1. wire'[d] = wire[d]
      BY <1>1, <2>1 DEF EchoTyped, ClientTyped
    <3>2. ~Carries(k, d)
      BY <1>1, <2>1 DEF Carries
    <3>3. QED
      BY <1>1, <1>3, <1>8, <3>1, <3>2, ArrivesElsewhere
  <2>2. CASE d = c
    <3>1. wire'[d] = Rest(wire[d], n) /\ n \in 0 .. Len(wire[d])
      BY <1>1, <2>2 DEF EchoTyped, ClientTyped
    <3>2. Carries(k, d)
      BY <1>1, <2>2 DEF Carries
    <3>3. k.units = n /\ Filled(bufs'[k.buf], n) = Prefix(wire[d], n)
      BY <1>1, <2>2
    <3>4. Arrives(d, Start(d), Append(cq, k), bufs', Rest(wire[d], n), next[d])
      BY <1>1, <1>3, <1>8, <3>1, <3>2, <3>3, ArrivesHere
    <3>5. QED
      BY <1>1, <3>1, <3>4
  <2>3. QED
    BY <2>1, <2>2
<1>10. Inward(d)'
  BY <1>1, <1>6, <1>7, <1>9 DEF Inward, Here
<1>11. QED
  BY <1>2, <1>10

(* The rest of onRecv.                                                     *)
LEMMA PushEchoes ==
  ASSUME EchoTyped, Push, NEW d \in Connections, Inward(d), Outward(d), Clean(d)'
  PROVE  Inward(d)' /\ Outward(d)'
<1> DEFINE c == called.fd
           g == Given(c)
           h == Handled(g)
           p == Filled(bufs[called.buf], called.units)
           m == Overwrites(c, h) \cup (IF PendingRead(h) > 0 \/ h.clear THEN {"left"} ELSE {})
<1>1. /\ called # None /\ c \in Connections /\ h \in Ssl /\ (h.phase # "none" => c \in DOMAIN load.records)
      /\ Again(called) \in Seq(Entry) /\ DrainAndWrite(c, h, Again(called))
      /\ mishaps' = [mishaps EXCEPT ![c] = @ \cup m]
      /\ called' = None
      /\ UNCHANGED <<wire, next, back, cq, bufs, writes>>
  <2>1. /\ called # None /\ c \in Connections /\ h \in Ssl /\ (h.phase # "none" => c \in DOMAIN load.records)
        /\ Again(called) \in Seq(Entry) /\ DrainAndWrite(c, h, Again(called))
        /\ mishaps' = [mishaps EXCEPT ![c] =
             @ \cup Overwrites(c, h) \cup (IF PendingRead(h) > 0 \/ h.clear THEN {"left"} ELSE {})]
        /\ called' = None /\ UNCHANGED <<load, client, used, cq, kernelSide>>
    BY PushHas
  <2>2. [mishaps EXCEPT ![c] = @ \cup Overwrites(c, h) \cup (IF PendingRead(h) > 0 \/ h.clear THEN {"left"} ELSE {})]
          = [mishaps EXCEPT ![c] = @ \cup m]
    OBVIOUS
  <2>3. QED
    BY <2>1, <2>2 DEF client, kernelSide
<1>2. HowMany(Again(called), {Writev(d)}) = 0
  BY <1>1, WritesNothing DEF Again
<1>3. ~Here(d)'
  BY <1>1 DEF Here
<1>4. /\ Begins(ssl'[c]) = Begins(h) /\ Ends(ssl'[c]) = Ends(h) /\ (Serving(h) => Serving(ssl'[c]))
      /\ \A e \in Connections : e # c => ssl'[e] = ssl[e] /\ cache'[e] = cache[e]
  <2> HIDE DEF h, c
  <2>1. QED
    BY <1>1, DrainKeeps
<1>5. CASE d # c
  <2>1. ~Here(d) /\ ssl'[d] = ssl[d]
    BY <1>4, <1>5 DEF Here
  <2>2. Start(d)' = Start(d)
    BY <1>3, <2>1 DEF Start
  <2>3. Inward(d)'
    BY <1>1, <1>3, <2>1, <2>2 DEF Inward
  <2>4. Outward(d)'
    <3> HIDE DEF h, c
    <3>1. QED
      BY <1>1, <1>2, <1>5, DrainOther
  <2>5. QED
    BY <2>3, <2>4
<1>6. CASE d = c
  <2> DEFINE s == ssl[c]
  <2>1. Here(d)
    BY <1>1, <1>6 DEF Here
  <2>2. /\ Serving(s) /\ Runs(p, Ends(s)) /\ Arrives(d, Ends(s) + called.units, cq, bufs, wire[d], next[d])
    BY <1>6, <2>1 DEF Inward, Start
  <2>3. /\ p \in Units /\ Len(p) = called.units
        /\ g \in Ssl /\ g.rbio = s.rbio \o p
        /\ g.phase = s.phase /\ g.wbio = s.wbio /\ g.held = s.held /\ g.expected = s.expected
    BY <1>1, GivenHas
  <2>4. s \in Ssl
    BY <1>1, StateHas
  <2> HIDE DEF p, g, s
  <2>5. Serving(g) /\ Begins(g) = Begins(s) /\ Ends(g) = Ends(s) + called.units
    BY <2>2, <2>3, <2>4, GivenServes
  <2>6. /\ Serving(h) /\ Ends(h) = Ends(g)
        /\ \E v \in Units : /\ Runs(v, Begins(g)) /\ Begins(h) = Begins(g) + Len(v)
                            /\ h.wbio = g.wbio \o v
    <3>1. load.read \in Nat
      BY LoadHas DEF Echoing, EchoTyped, ClientTyped
    <3>2. QED
      BY <2>3, <2>5, <3>1, HandledServes
  <2>7. PICK v \in Units : Runs(v, Begins(g)) /\ Begins(h) = Begins(g) + Len(v) /\ h.wbio = g.wbio \o v
    BY <2>6
  <2> HIDE DEF h
  <2>8. Serving(ssl'[d]) /\ Ends(ssl'[d]) = Ends(s) + called.units
    BY <1>4, <1>6, <2>5, <2>6
  <2>9. Inward(d)'
    <3>1. Start(d)' = Ends(s) + called.units
      BY <1>3, <2>8 DEF Start
    <3>2. QED
      BY <1>1, <1>3, <2>2, <2>8, <3>1 DEF Inward
  <2>10. Outward(d)'
    <3>1. /\ Writing(c) <= 1 /\ Out(back[c], Cached(c), s.wbio, Begins(s))
          /\ \A i \in 1 .. Len(writes) : writes[i].fd = c => writes[i].len = cache[c].len
      BY <1>6 DEF Outward, s
    <3>2. back[c] \in Units /\ Cached(c) \in Units /\ s.wbio \in Units /\ Begins(s) \in Nat /\ Writing(c) \in Nat
      BY <1>1, <2>4, StateHas, SslHas, BeginsHas
    <3>3. Out(back[c], Cached(c), h.wbio, Begins(h))
      <4>1. Out(back[c], Cached(c), s.wbio \o v, Begins(s) + Len(v))
        BY <2>5, <2>7, <3>1, <3>2, OutMore
      <4>2. QED
        BY <2>3, <2>5, <2>7, <4>1
    <3>4. PendingWrite(h) > 0 => Writing(c) = 0
      <4>1. Overwrites(c, h) = {}
        <5>1. mishaps'[c] = mishaps[c] \cup m
          <6> HIDE DEF m
          <6>1. QED
            BY <1>1 DEF EchoTyped
        <5>2. "overwritten" \notin m
          BY <1>6, <5>1 DEF Clean
        <5>3. QED
          BY <5>2 DEF Overwrites
      <4>2. PendingWrite(h) > 0 => ~WriteOutstanding(c)
        BY <4>1 DEF Overwrites
      <4>3. QED
        BY <1>1, <4>2, NotOutstanding
    <3> HIDE DEF c
    <3>5. QED
      BY <1>1, <1>2, <1>6, <3>1, <3>3, <3>4, DrainOut
  <2>11. QED
    BY <2>9, <2>10
<1>7. QED
  BY <1>5, <1>6

(* Fire gives onRecv what follows, and onWritev what was written.          *)
LEMMA FireEchoes ==
  ASSUME EchoTyped, Fire, NEW d \in Connections, Inward(d), Outward(d), Clean(d)'
  PROVE  Inward(d)' /\ Outward(d)'
<1> DEFINE k == cq[1]
<1>1. /\ cq # <<>> /\ k \in Completed /\ cq' = Tail(cq) /\ called = None
      /\ UNCHANGED <<wire, next, back, bufs, writes>>
  BY FireHas DEF client, kernelSide
<1>2. OnRecv(k) \/ OnNoBuffers(k) \/ OnWritev(k)
  BY DEF Fire
<1>3. cq \in Seq(Completed) /\ sq \in Seq(Entry) /\ HowMany(sq, {Writev(d)}) \in Nat
  BY StateHas
<1>4. ~Here(d) /\ Start(d) = Ends(ssl[d])
  BY <1>1 DEF Here, Start
<1>5. Serving(ssl[d]) /\ Arrives(d, Ends(ssl[d]), cq, bufs, wire[d], next[d])
  BY <1>4 DEF Inward
<1>6. IF Carries(k, d)
      THEN /\ Arrives(d, Ends(ssl[d]) + k.units, cq', bufs, wire[d], next[d])
           /\ Runs(Filled(bufs[k.buf], k.units), Ends(ssl[d]))
      ELSE Arrives(d, Ends(ssl[d]), cq', bufs, wire[d], next[d])
  BY <1>1, <1>3, <1>5, ArrivesFirst
<1> HIDE DEF k
<1>7. k.fd \in Connections /\ (k.op = "WRITEV" => k.cb = "WRITEV")
  BY <1>1, CompletionKinds
<1>8. CASE OnRecv(k)
  <2>1. /\ k.op = "RECV" /\ k.units > 0 /\ called' = k /\ UNCHANGED <<ssl, cache>>
        /\ sq' = IF IsFull(used + 1) THEN sq \o Rearmed(k.fd) ELSE sq
    BY <1>8 DEF OnRecv
  <2>2. HowMany(sq', {Writev(d)}) = HowMany(sq, {Writev(d)})
    <3> DEFINE r == Rearmed(k.fd)
    <3>1. r \in Seq(Entry) /\ HowMany(r, {Writev(d)}) = 0
      BY <1>7, RearmedHas, WritesNothing
    <3> HIDE DEF r
    <3>2. HowMany(sq \o r, {Writev(d)}) = HowMany(sq, {Writev(d)}) + HowMany(r, {Writev(d)})
      BY <1>3, <3>1, HowManyBoth
    <3>3. HowMany(sq \o r, {Writev(d)}) = HowMany(sq, {Writev(d)})
      BY <1>3, <3>1, <3>2
    <3>4. QED
      BY <2>1, <3>3 DEF r
  <2>3. Outward(d)'
    BY <1>1, <2>1, <2>2, OutwardKept
  <2>4. k # None
    <3>1. k \in Handed
      BY <1>1, <1>8, CompletionKinds DEF OnRecv, Handed
    <3>2. "units" \in DOMAIN k
      BY <3>1 DEF Handed, Received
    <3>3. "units" \notin DOMAIN None
      BY DEF None
    <3>4. QED
      BY <3>2, <3>3
  <2>5. Here(d)' <=> k.fd = d
    BY <2>1, <2>4 DEF Here
  <2>6. CASE k.fd = d
    <3>1. Carries(k, d)
      BY <2>1, <2>6 DEF Carries
    <3>2. Start(d)' = Ends(ssl[d]) + k.units
      BY <2>1, <2>5, <2>6 DEF Start
    <3>3. Inward(d)'
      BY <1>1, <1>5, <1>6, <2>1, <3>1, <3>2 DEF Inward
    <3>4. QED
      BY <2>3, <3>3
  <2>7. CASE k.fd # d
    <3>1. ~Carries(k, d)
      BY <2>7 DEF Carries
    <3>2. Start(d)' = Ends(ssl[d])
      BY <2>1, <2>5, <2>7 DEF Start
    <3>3. Inward(d)'
      BY <1>1, <1>5, <1>6, <2>1, <2>5, <2>7, <3>1, <3>2 DEF Inward
    <3>4. QED
      BY <2>3, <3>3
  <2>8. QED
    BY <2>6, <2>7
<1>9. CASE OnNoBuffers(k)
  <2>1. k.units = 0 /\ UNCHANGED <<ssl, cache, called, sq>>
    BY <1>9 DEF OnNoBuffers
  <2>2. ~Carries(k, d)
    BY <2>1 DEF Carries
  <2>3. ~Here(d)' /\ Start(d)' = Ends(ssl[d])
    BY <1>4, <2>1 DEF Here, Start
  <2>4. Inward(d)'
    BY <1>1, <1>5, <1>6, <2>1, <2>2, <2>3 DEF Inward
  <2>5. Outward(d)'
    BY <1>1, <2>1, OutwardKept
  <2>6. QED
    BY <2>4, <2>5
<1>10. CASE OnWritev(k)
  <2> DEFINE c == k.fd
             s == ssl[c]
             m == Overwrites(c, s) \cup (IF k.op = "RECV" THEN {"misdirected"} ELSE {})
  <2>1. /\ IF WriteMore(s) THEN DrainAndWrite(c, s, <<>>) ELSE UNCHANGED <<ssl, cache, sq>>
        /\ mishaps' = [mishaps EXCEPT ![c] = @ \cup m]
        /\ UNCHANGED called
    BY <1>10 DEF OnWritev
  <2>2. c = d => "misdirected" \notin m /\ "overwritten" \notin m
    <3>1. mishaps'[c] = mishaps[c] \cup m
      <4> HIDE DEF m
      <4>1. QED
        BY <1>7, <2>1 DEF EchoTyped
    <3>2. QED
      BY <3>1 DEF Clean
  <2>3. ~Carries(k, d)
    BY <2>2 DEF Carries
  <2>4. c = d => (PendingWrite(s) > 0 => Writing(c) = 0)
    <3>1. c = d => (PendingWrite(s) > 0 => ~WriteOutstanding(c))
      BY <2>2 DEF Overwrites
    <3>2. QED
      BY <1>7, <3>1, NotOutstanding
  <2>5. ~Here(d)' /\ Start(d)' = Ends(ssl'[d])
    BY <1>4, <2>1 DEF Here, Start
  <2>6. CASE ~WriteMore(s)
    <3>1. UNCHANGED <<ssl, cache, sq>>
      BY <2>1, <2>6
    <3>2. Inward(d)'
      BY <1>1, <1>5, <1>6, <2>3, <2>5, <3>1 DEF Inward
    <3>3. Outward(d)'
      BY <1>1, <3>1, OutwardKept
    <3>4. QED
      BY <3>2, <3>3
  <2>7. CASE WriteMore(s)
    <3>1. DrainAndWrite(c, s, <<>>) /\ <<>> \in Seq(Entry) /\ s \in Ssl /\ c \in Connections
      <4>1. s \in Ssl
        BY <1>7 DEF EchoTyped, ProgramTyped
      <4>2. QED
        BY <1>7, <2>1, <2>7, <4>1
    <3>2. s.phase # "none" => c \in DOMAIN load.records
      BY <1>7 DEF EchoTyped, ProgramTyped
    <3>3. HowMany(<<>>, {Writev(d)}) = 0
      BY WritesNothing
    <3>4. CASE c = d
      <4>1. /\ Writing(c) <= 1 /\ Out(back[c], Cached(c), s.wbio, Begins(s))
            /\ \A i \in 1 .. Len(writes) : writes[i].fd = c => writes[i].len = cache[c].len
        BY <3>4 DEF Outward
      <4>2. Serving(s) /\ Arrives(d, Ends(s), cq', bufs, wire[d], next[d])
        BY <1>5, <1>6, <2>3, <3>4
      <4> HIDE DEF s, c
      <4>3. Outward(d)'
        BY <1>1, <2>4, <3>1, <3>2, <3>3, <3>4, <4>1, DrainOut
      <4>4. Serving(ssl'[c]) /\ Ends(ssl'[c]) = Ends(s)
        BY <3>1, <3>2, <4>2, DrainKeeps
      <4>5. Inward(d)'
        BY <1>1, <2>5, <3>4, <4>2, <4>4 DEF Inward
      <4>6. QED
        BY <4>3, <4>5
    <3>5. CASE c # d
      <4> HIDE DEF s, c
      <4>1. ssl'[d] = ssl[d]
        BY <3>1, <3>2, <3>5, DrainKeeps
      <4>2. Inward(d)'
        BY <1>1, <1>5, <1>6, <2>3, <2>5, <4>1 DEF Inward
      <4>3. Outward(d)'
        BY <1>1, <3>1, <3>2, <3>3, <3>5, DrainOther
      <4>4. QED
        BY <4>2, <4>3
    <3>6. QED
      BY <3>4, <3>5
  <2>8. QED
    BY <2>6, <2>7
<1>11. QED
  BY <1>2, <1>8, <1>9, <1>10

-----------------------------------------------------------------------------
LEMMA EchoingInitial == EchoInit => Echoing
<1> SUFFICES ASSUME EchoInit, NEW c \in DOMAIN load.records PROVE Inward(c) /\ Outward(c)
  BY DEF Echoing
<1>1. c \in Connections
  BY LoadHas DEF EchoInit
<1>2. /\ wire[c] = <<>> /\ back[c] = <<>> /\ next[c] = 1 /\ called = None /\ sq = <<Provide>> /\ cq = <<>>
      /\ writes = <<>>
  BY <1>1 DEF EchoInit, HELLO
<1>3. /\ ssl[c].phase = "none" /\ ssl[c].rbio = <<>> /\ ssl[c].wbio = <<>> /\ ssl[c].held = <<>>
      /\ ssl[c].expected = FINISHED + 1
  BY <1>1 DEF EchoInit
<1>4. Begins(ssl[c]) = 1 /\ Len(<<>>) = 0 /\ Ends(ssl[c]) = 1
  BY <1>3 DEF Begins, Ends, HELLO
<1>5. Serving(ssl[c])
  BY <1>3, RunsNot DEF Serving
<1>6. ~Here(c) /\ Start(c) = 1
  BY <1>2, <1>4 DEF Here, Start
<1>7. Arrives(c, Start(c), cq, bufs, wire[c], next[c])
  <2> DEFINE at == [i \in {0} |-> 1]
  <2>1. 0 .. Len(cq) = {0} /\ 1 .. Len(cq) = {} /\ Len(cq) = 0
    BY <1>2
  <2>2. Travels(c, 1, cq, bufs, at)
    BY <2>1 DEF Travels
  <2>3. Runs(wire[c], at[Len(cq)]) /\ at[Len(cq)] + Len(wire[c]) = next[c]
    BY <1>2, <1>4, <2>1, RunsNot
  <2> HIDE DEF at
  <2>4. QED
    BY <1>6, <2>2, <2>3 DEF Arrives
<1>8. Writing(c) = 0
  <2>1. HowMany(sq, {Writev(c)}) = 0
    BY <1>1, <1>2, EntriesAre, HowManyOne
  <2>2. HowMany(writes, Of(c)) = 0
    BY <1>2, HowManyNone
  <2>3. QED
    BY <2>1, <2>2 DEF Writing
<1>9. Outward(c)
  <2>1. Cached(c) = <<>>
    BY <1>8 DEF Cached
  <2>2. Out(<<>>, <<>>, <<>>, 1)
    BY <1>4, RunsNot DEF Out
  <2>3. 1 .. Len(writes) = {}
    BY <1>2
  <2>4. QED
    BY <1>2, <1>3, <1>4, <1>8, <2>1, <2>2, <2>3 DEF Outward
<1>10. QED
  BY <1>5, <1>6, <1>7, <1>9 DEF Inward

(* No step forgets a mishap.                                               *)
LEMMA MishapsStay ==
  ASSUME EchoTyped, EchoNext, NEW d \in Connections
  PROVE  mishaps[d] \subseteq mishaps'[d]
<1>1. ASSUME NEW c \in Connections, Send(c) \/ Accept(c) PROVE mishaps' = mishaps
  BY <1>1 DEF Send, Accept
<1>2. CASE Fire
  <2> DEFINE k == cq[1]
  <2>1. k \in Completed /\ (OnRecv(k) \/ OnNoBuffers(k) \/ OnWritev(k))
    BY <1>2, FireHas DEF Fire
  <2> HIDE DEF k
  <2>2. k.fd \in Connections
    BY <2>1, CompletionKinds
  <2>3. \E m : mishaps' = mishaps \/ mishaps' = [mishaps EXCEPT ![k.fd] = @ \cup m]
    <3> DEFINE o == Overwrites(k.fd, ssl[k.fd]) \cup (IF k.op = "RECV" THEN {"misdirected"} ELSE {})
    <3>1. CASE OnRecv(k)
      BY <3>1 DEF OnRecv
    <3>2. CASE OnNoBuffers(k)
      BY <3>2 DEF OnNoBuffers
    <3>3. CASE OnWritev(k)
      <4>1. mishaps' = [mishaps EXCEPT ![k.fd] = @ \cup o]
        BY <3>3 DEF OnWritev
      <4> HIDE DEF o
      <4>2. QED
        BY <4>1
    <3>4. QED
      BY <2>1, <3>1, <3>2, <3>3
  <2>4. QED
    BY <2>2, <2>3 DEF EchoTyped
<1>3. CASE Push
  BY <1>3, PushHas DEF EchoTyped
<1>4. CASE TakeEntry
  BY <1>4, TakeHas
<1>5. ASSUME NEW i \in DOMAIN armed, NoBuffers(i) PROVE mishaps' = mishaps
  BY <1>5 DEF NoBuffers
<1>6. ASSUME NEW i \in DOMAIN armed, NEW n \in Nat, NEW more \in BOOLEAN, Receive(i, n, more)
      PROVE  mishaps[d] \subseteq mishaps'[d]
  <2> DEFINE m(e) == IF e \in Owners(free[1]) THEN {"refilled"} ELSE {}
  <2>1. mishaps' = [e \in Connections |-> mishaps[e] \cup m(e)]
    BY <1>6 DEF Receive
  <2> HIDE DEF m
  <2>2. QED
    BY <2>1
<1>7. ASSUME NEW i \in DOMAIN writes, NEW n \in Nat, Transfer(i, n)
      PROVE  mishaps[d] \subseteq mishaps'[d]
  <2> DEFINE m == IF n = writes[i].len THEN {} ELSE {"short"}
             c == writes[i].fd
  <2>1. mishaps' = [mishaps EXCEPT ![c] = @ \cup m] /\ c \in Connections
    BY <1>7, TransferHas DEF Transfer
  <2> HIDE DEF m, c
  <2>2. QED
    BY <2>1 DEF EchoTyped
<1>8. QED
  BY <1>1, <1>2, <1>3, <1>4, <1>5, <1>6, <1>7, EchoSteps

LEMMA LoadStays ==
  ASSUME EchoNext
  PROVE  load' = load
BY DEF EchoNext, Send, Accept, Fire, Push, TakeEntry, CarryOut, ReceiveSome, Receive, NoBuffers, TransferSome, Transfer

LEMMA EchoingKept ==
  ASSUME EchoTyped, Echoing, [EchoNext]_echoVars
  PROVE  Echoing'
<1>1. CASE UNCHANGED echoVars
  <2>1. UNCHANGED <<load, wire, next, back, ssl, cache, called, sq, cq, bufs, writes, mishaps>>
    BY <1>1 DEF echoVars, client, programSide, kernelSide
  <2>2. ASSUME NEW c \in DOMAIN load.records, Clean(c)' PROVE Inward(c)' /\ Outward(c)'
    <3>1. c \in Connections /\ Clean(c)
      BY <2>1, <2>2, LoadHas DEF EchoTyped, ClientTyped, Clean
    <3>2. Inward(c) /\ Outward(c)
      BY <3>1 DEF Echoing
    <3>3. QED
      BY <2>1, <3>1, <3>2, InwardKept, OutwardKept
  <2>3. QED
    BY <2>1, <2>2 DEF Echoing
<1>2. CASE EchoNext
  <2>1. load' = load
    BY <1>2, LoadStays
  <2>2. ASSUME NEW c \in DOMAIN load.records, Clean(c)' PROVE Inward(c)' /\ Outward(c)'
    <3>1. c \in Connections
      BY LoadHas DEF EchoTyped, ClientTyped
    <3>2. Clean(c)
      BY <1>2, <2>2, <3>1, MishapsStay, CleanBefore
    <3>3. Inward(c) /\ Outward(c)
      BY <3>2 DEF Echoing
    <3>4. QED
      BY <1>2, <2>2, <3>1, <3>3, EchoSteps, SendEchoes, AcceptEchoes, FireEchoes, PushEchoes, TakeEchoes,
         NoBuffersEchoes, ReceiveEchoes, TransferEchoes
  <2>3. QED
    BY <2>1, <2>2 DEF Echoing
<1>3. QED
  BY <1>1, <1>2

(* A client sends no more than its stream.                                 *)
LEMMA SendsItsStream ==
  ASSUME EchoTyped, NEW c \in DOMAIN load.records
  PROVE  /\ next[c] <= 3 + load.records[c] * RecordSize /\ 2 + load.records[c] * RecordSize \in Nat
         /\ c \in Connections
<1>1. c \in Connections /\ load.records[c] \in Nat /\ RecordSize \in Nat
  BY LoadHas, SizesAre DEF EchoTyped, ClientTyped, GroupSizes
<1> DEFINE r == load.records[c]
           f == RecordSize
<1>2. r \in Nat /\ f \in Nat /\ r * f \in Nat
  BY <1>1
<1>3. next[c] = 1 \/ next[c] = 2 \/ \E m \in 0 .. r : next[c] = 3 + m * f
  BY DEF EchoTyped, ClientTyped, Sends, HELLO, FINISHED
<1> HIDE DEF r, f
<1>4. ASSUME NEW m \in 0 .. r PROVE m * f <= r * f /\ m * f \in Nat
  <2>1. PICK k \in Nat : r = m + k
    BY <1>2
  <2>2. r * f = m * f + k * f /\ m * f \in Nat /\ k * f \in Nat
    BY <1>2, <2>1
  <2>3. QED
    BY <2>2
<1>5. next[c] <= 3 + r * f
  <2>1. CASE next[c] = 1 \/ next[c] = 2
    <3> DEFINE x == r * f
    <3>1. x \in Nat
      BY <1>2
    <3> HIDE DEF x
    <3>2. next[c] <= 3 + x
      BY <2>1, <3>1
    <3>3. QED
      BY <3>2 DEF x
  <2>2. ASSUME NEW m \in 0 .. r, next[c] = 3 + m * f PROVE next[c] <= 3 + r * f
    <3> DEFINE x == r * f
               y == m * f
    <3>1. x \in Nat /\ y \in Nat /\ y <= x /\ next[c] = 3 + y
      BY <1>2, <1>4, <2>2
    <3> HIDE DEF x, y
    <3>2. next[c] <= 3 + x
      BY <3>1
    <3>3. QED
      BY <3>2 DEF x
  <2>3. QED
    BY <1>3, <2>1, <2>2
<1>6. 2 + r * f \in Nat
  BY <1>2
<1>7. QED
  BY <1>1, <1>5, <1>6 DEF r, f

(* What a client receives is the stream it should receive, in order and    *)
(* with nothing added, for every number of connections, sizes of buffers,  *)
(* write cache and records, and whatever the kernel does when, on a        *)
(* connection that met none of the mishaps the property names.             *)
THEOREM EchoIsSent == EchoSpec => []EchoedAsSent
<1>1. ASSUME EchoTyped, Echoing, NEW c \in DOMAIN load.records, Clean(c)
      PROVE  IsPrefix(back[c], Stream(c)) /\ ssl[c].phase # "broken"
  <2>1. c \in Connections /\ Inward(c) /\ Outward(c)
    BY <1>1, LoadHas DEF Echoing, EchoTyped, ClientTyped
  <2>2. ssl[c].phase # "broken"
    BY <2>1 DEF Inward, Serving
  <2> DEFINE u == back[c]
             size == 2 + load.records[c] * RecordSize
             t == Stream(c)
  <2>3. u \in Units /\ Len(u) \in Nat /\ next[c] <= 3 + load.records[c] * RecordSize /\ size \in Nat /\ next[c] \in Nat
    BY <1>1, <2>1, StateHas, SendsItsStream, LenProperties DEF Units
  <2>4. Len(u) + 1 <= next[c]
    <3>1. Len(u) + 1 <= Begins(ssl[c]) /\ Begins(ssl[c]) \in Nat
      <4>1. Len(u) + Len(Cached(c)) + Len(ssl[c].wbio) + 1 = Begins(ssl[c])
        BY <2>1 DEF Outward, Out
      <4>2. Len(Cached(c)) \in Nat /\ Len(ssl[c].wbio) \in Nat
        BY <1>1, <2>1, StateHas, LenProperties DEF Units
      <4> DEFINE x == Len(Cached(c))
                 y == Len(ssl[c].wbio)
                 z == Begins(ssl[c])
      <4>3. x \in Nat /\ y \in Nat /\ Len(u) \in Nat /\ Len(u) + x + y + 1 = z
        BY <2>3, <4>1, <4>2
      <4> HIDE DEF x, y, z, u
      <4>4. Len(u) + 1 <= z /\ z \in Nat
        BY <4>3
      <4>5. QED
        BY <4>4 DEF z
    <3>2. Begins(ssl[c]) <= Ends(ssl[c]) /\ Ends(ssl[c]) \in Nat
      BY <1>1, <2>1, StateHas, BeginsHas
    <3>3. Ends(ssl[c]) <= Start(c) /\ Start(c) \in Nat
      <4>1. Here(c) => called.units \in Nat
        BY <1>1, HandedHas DEF Here, EchoTyped, ProgramTyped
      <4>2. QED
        BY <3>2, <4>1 DEF Start
    <3>4. Start(c) <= next[c]
      <4>1. Arrives(c, Start(c), cq, bufs, wire[c], next[c]) /\ cq \in Seq(Completed) /\ wire[c] \in Units
        BY <1>1, <2>1, StateHas DEF Inward
      <4>2. QED
        BY <4>1, ArrivesBound
    <3>5. QED
      BY <2>3, <3>1, <3>2, <3>3, <3>4
  <2>5. Len(u) <= size
    <3> DEFINE x == load.records[c] * RecordSize
    <3>1. 2 + x \in Nat /\ next[c] <= 3 + x /\ Len(u) \in Nat /\ next[c] \in Nat /\ Len(u) + 1 <= next[c] /\ x \in Nat
      <4>1. load.records[c] \in Nat /\ RecordSize \in Nat
        BY <1>1, LoadHas, SizesAre DEF EchoTyped, ClientTyped, GroupSizes
      <4>2. QED
        BY <2>3, <2>4, <4>1
    <3> HIDE DEF x, u
    <3>2. Len(u) <= 2 + x
      BY <3>1
    <3>3. QED
      BY <3>2 DEF x
  <2>6. Runs(u, 1)
    BY <2>1 DEF Outward, Out
  <2>7. t = [i \in 1 .. size |-> i]
    BY DEF Stream
  <2> HIDE DEF u, size, t
  <2>8. t \in Units /\ Len(t) = size
    <3>1. t \in [1 .. size -> Nat]
      BY <2>3, <2>7
    <3>2. QED
      BY <2>3, <2>7, <3>1 DEF Units
  <2>9. u = SubSeq(t, 1, Len(u))
    <3> DEFINE w == SubSeq(t, 1, Len(u))
    <3>1. /\ w \in Seq(Nat) /\ Len(w) = IF 1 <= Len(u) THEN Len(u) - 1 + 1 ELSE 0
          /\ \A i \in 1 .. Len(u) - 1 + 1 : w[i] = t[1 + i - 1]
      <4>1. 1 \in Int /\ Len(u) \in Int /\ \A i \in 1 .. Len(u) : t[i] \in Nat
        BY <2>3, <2>5, <2>7
      <4>2. QED
        BY <2>8, <4>1, SubSeqProperties DEF Units
    <3>2. Len(w) = Len(u)
      BY <2>3, <3>1
    <3>3. ASSUME NEW i \in 1 .. Len(u) PROVE w[i] = u[i]
      <4>1. w[i] = t[1 + i - 1] /\ 1 + i - 1 = i
        BY <2>3, <3>1
      <4>2. t[i] = i
        BY <2>3, <2>5, <2>7
      <4>3. u[i] = 1 + i - 1
        BY <2>6 DEF Runs
      <4>4. QED
        BY <4>1, <4>2, <4>3
    <3> HIDE DEF w
    <3>4. w = u
      BY <2>3, <3>1, <3>2, <3>3, SeqEqual DEF Units
    <3>5. QED
      BY <3>4 DEF w
  <2>10. IsPrefix(u, t)
    BY <2>5, <2>8, <2>9 DEF IsPrefix
  <2>11. QED
    BY <2>2, <2>10 DEF u, t
<1>2. EchoTyped /\ Echoing => EchoedAsSent
  BY <1>1 DEF EchoedAsSent, Clean
<1>3. EchoTyped /\ Echoing /\ [EchoNext]_echoVars => Echoing'
  BY EchoingKept
<1>4. QED
  BY <1>2, <1>3, EchoingInitial, EchoTypedInvariant, PTL DEF EchoSpec

=============================================================================
