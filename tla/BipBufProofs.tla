---------------------------- MODULE BipBufProofs ----------------------------
(***************************************************************************)
(* Proofs about BipBuf, for every capacity, every set of elements and every *)
(* set of owners: the indices stay in bounds, and the ring is a FIFO queue  *)
(* for every owner that does not mix Pop with its peak flag and Pop.        *)
(***************************************************************************)
EXTENDS BipBuf, SequenceTheorems, TLAPS

-----------------------------------------------------------------------------
(* The inductive invariant. tail stands at Capacity only in a ring that was *)
(* filled to its end and drained to its end by the calls that do not wrap;  *)
(* head is then at Capacity too, or has moved on from slot 0, so the two    *)
(* ways to count an empty ring agree.                                       *)
IInv ==
  /\ TypeOK
  /\ MayCall("Push") => head < Capacity /\ tail < Capacity
  /\ tail = Capacity => head # 0
  /\ loan > 0 => loan <= Free

(* Only owners that Push also PushDirect, BackupDirect, Write or Writev,   *)
(* and none of them Reads or Readvs.                                       *)
LEMMA CallsDisjoint ==
  ASSUME TypeOK
  PROVE
  /\ MayCall("PushDirect") => MayCall("Push")
  /\ MayCall("BackupDirect") => MayCall("Push")
  /\ MayCall("Write") => MayCall("Push")
  /\ MayCall("Writev") => MayCall("Push")
  /\ MayCall("Read") => ~MayCall("Push")
  /\ MayCall("Readv") => ~MayCall("Push")
  /\ MayCall("PopAll") => ~MayCall("Push")
  /\ MayCall("Skip") => ~MayCall("Push")
  /\ MayCall("Backup") => ~MayCall("Push")
  /\ MayCall("Direct") => ~MayCall("Push")
BY UsesAssumption DEF TypeOK, MayCall, Calls

(* How many elements there are, in terms of the indices alone. *)
LEMMA AvailableBounds ==
  ASSUME IInv
  PROVE  /\ Available \in 0..Capacity
         /\ Free \in 0..Capacity
         /\ IsEmpty <=> Available = 0
BY CapacityAssumption DEF IInv, TypeOK, Available, Free, IsEmpty

LEMMA StoredType ==
  ASSUME TypeOK, NEW s \in Seq(Values), NEW n \in 0..Len(s), NEW from \in Nat
  PROVE  Stored(s, n, from) \in [Slots -> Byte]
BY CapacityAssumption DEF Stored, TypeOK, Slots, Byte

(* Copies that stay inside the array deliver elements of the ring. *)
LEMMA CopiedType ==
  ASSUME TypeOK, NEW size \in Nat, NEW n \in 0..size, NEW from \in Nat,
         tail + n <= Capacity, from + (size - n) <= Capacity
  PROVE  /\ Copied(size, n, from) \in Seq(Byte)
         /\ Len(Copied(size, n, from)) = size
         /\ \A i \in 1..size : Copied(size, n, from)[i] =
              IF i <= n THEN data[tail + i - 1] ELSE data[from + (i - n) - 1]
<1>1. \A i \in 1..size :
        (IF i <= n THEN data[tail + i - 1] ELSE data[from + (i - n) - 1]) \in Byte
  BY CapacityAssumption DEF TypeOK, Slots
<1>2. Copied(size, n, from) \in [1..size -> Byte]
  BY <1>1 DEF Copied
<1>3. Copied(size, n, from) \in Seq(Byte)
  BY <1>2, SeqDef
<1>4. QED
  BY <1>2, <1>3, LenProperties DEF Copied

LEMMA ElementsAreSeq ==
  ASSUME NEW n \in Nat, NEW s \in Elements(n)
  PROVE  s \in Seq(Values) /\ Len(s) = n
BY LenProperties, SeqDef DEF Elements

-----------------------------------------------------------------------------
(* Preservation, one lemma per operation. *)

(* What every operation but Direct has to establish. *)
LEMMA Reestablished ==
  ASSUME IInv,
         use' = use, loan' = 0,
         head' \in 0..Capacity, tail' \in 0..Capacity,
         full' \in BOOLEAN, full' => head' = tail',
         data' \in [Slots -> Byte], got' \in Seq(Byte),
         MayCall("Push") => head' < Capacity /\ tail' < Capacity,
         tail' = Capacity => head' # 0
  PROVE  IInv'
<1>1. TypeOK'
  BY DEF IInv, TypeOK
<1>2. MayCall("Push")' => head' < Capacity /\ tail' < Capacity
  BY DEF MayCall
<1>3. QED
  BY <1>1, <1>2 DEF IInv

LEMMA PushOneKeeps ==
  ASSUME IInv, NEW d \in Values, PushOne(d)
  PROVE  IInv'
<1>1. head < Capacity /\ tail < Capacity
  BY DEF IInv, PushOne
<1>2. data' \in [Slots -> Byte]
  <2> DEFINE s == <<d>>
  <2>1. s \in Seq(Values) /\ Len(s) = 1
    OBVIOUS
  <2>2. data' = Stored(s, 1, 0)
    BY DEF PushOne
  <2>3. 1 \in 0..Len(s) /\ 0 \in Nat
    BY <2>1
  <2> HIDE DEF s
  <2>4. Stored(s, 1, 0) \in [Slots -> Byte]
    BY StoredType, <2>1, <2>3 DEF IInv
  <2>5. QED
    BY <2>2, <2>4
<1>3. QED
  BY <1>1, <1>2, CapacityAssumption, Reestablished
     DEF IInv, TypeOK, PushOne, Wrapped

LEMMA PushKeeps ==
  ASSUME IInv, NEW n \in 1..Capacity, NEW s \in Elements(n), Push(s)
  PROVE  IInv'
<1> DEFINE x == IF head >= tail /\ head < Capacity THEN Lesser(Len(s), Capacity - head) ELSE 0
           h1 == IF x > 0 THEN Wrapped(head + x) ELSE head
<1>1. s \in Seq(Values) /\ Len(s) = n /\ n \in Nat
  BY ElementsAreSeq
<1>2. head < Capacity /\ tail < Capacity /\ head \in Nat /\ tail \in Nat /\ Capacity \in Nat
  BY CapacityAssumption DEF IInv, TypeOK, Push
<1>3. x \in 0..Len(s) /\ h1 \in Nat
  BY <1>1, <1>2 DEF Lesser, Wrapped
<1>4. data' = Stored(s, x, h1) /\ head' = h1 + (Len(s) - x)
  BY DEF Push
<1>5. data' \in [Slots -> Byte]
  <2> HIDE DEF x, h1
  <2> QED BY <1>1, <1>3, <1>4, StoredType DEF IInv
<1>6. head' \in 0 .. Capacity - 1
  BY <1>1, <1>2, <1>4, AvailableBounds DEF IInv, TypeOK, Push, Available, Lesser, Wrapped
<1>7. QED
  <2> HIDE DEF x, h1
  <2> QED BY <1>2, <1>5, <1>6, Reestablished DEF IInv, TypeOK, Push

LEMMA PushDirectKeeps ==
  ASSUME IInv, NEW s \in Elements(PushDirectLen), PushDirect(s)
  PROVE  IInv'
<1>1. head < Capacity /\ tail < Capacity /\ head \in Nat /\ tail \in Nat /\ Capacity \in Nat
  BY CapacityAssumption, CallsDisjoint DEF IInv, TypeOK, PushDirect
<1>2. s \in Seq(Values) /\ Len(s) = PushDirectLen /\ PushDirectLen \in Nat
  <2>1. PushDirectLen \in Nat
    BY <1>1 DEF PushDirectLen
  <2>2. QED
    BY <2>1, ElementsAreSeq
<1>3. data' \in [Slots -> Byte]
  <2>1. Len(s) \in 0..Len(s) /\ 0 \in Nat
    BY <1>2
  <2>2. QED
    BY StoredType, <1>2, <2>1 DEF IInv, PushDirect
<1>4. head' \in 0 .. Capacity - 1
  BY <1>1, <1>2 DEF PushDirect, PushDirectLen, Wrapped
<1>5. QED
  BY <1>1, <1>3, <1>4, Reestablished DEF IInv, TypeOK, PushDirect

LEMMA BackupDirectKeeps ==
  ASSUME IInv, NEW n \in 1..Capacity, BackupDirect(n)
  PROVE  IInv'
<1>1. head < Capacity /\ tail < Capacity
  BY CallsDisjoint DEF IInv, BackupDirect
<1>2. head' \in 0 .. Capacity - 1
  BY <1>1, CapacityAssumption DEF IInv, TypeOK, BackupDirect, Lesser, Available
<1>3. UNCHANGED <<tail, data, got, use>> /\ ~full' /\ full' \in BOOLEAN /\ loan' = 0
  BY DEF BackupDirect
<1>4. QED
  BY <1>1, <1>2, <1>3, CapacityAssumption, Reestablished DEF IInv, TypeOK

LEMMA ReadKeeps ==
  ASSUME IInv, NEW n \in 1..Capacity, NEW s \in Elements(n), Read(s)
  PROVE  IInv'
<1>1. s \in Seq(Values) /\ Len(s) = n /\ n \in Nat
  BY ElementsAreSeq
<1>2. data' \in [Slots -> Byte]
  <2>1. Len(s) \in 0..Len(s) /\ 0 \in Nat
    BY <1>1
  <2>2. QED
    BY StoredType, <1>1, <2>1 DEF IInv, Read
<1>3. ~MayCall("Push")
  BY CallsDisjoint DEF IInv, Read
<1>4. head' \in 1 .. Capacity
  BY <1>1, CapacityAssumption DEF IInv, TypeOK, Read, ReadSpace
<1>5. QED
  BY <1>1, <1>2, <1>3, <1>4, CapacityAssumption, Reestablished DEF IInv, TypeOK, Read

(* What the two shapes of Readv's vector are. *)
LEMMA ReadvShape ==
  ASSUME IInv, ~full
  PROVE  /\ tail > head =>
              /\ Len(ReadvIov) = 1
              /\ ReadvIov[1][2] = tail - head
              /\ IovLen(ReadvIov) = tail - head
         /\ ~(tail > head) =>
              /\ Len(ReadvIov) \in {1, 2}
              /\ ReadvIov[1][2] = Capacity - head
              /\ IovLen(ReadvIov) = (Capacity - head) + tail
              /\ Len(ReadvIov) = 1 => head = 0 /\ tail = 0
BY CapacityAssumption DEF IInv, TypeOK, ReadvIov, IovLen

LEMMA ReadvKeeps ==
  ASSUME IInv, NEW n \in 1..Capacity, NEW s \in Elements(n), Readv(s)
  PROVE  IInv'
<1> DEFINE x == ReadvIov[1][2]
<1>1. s \in Seq(Values) /\ Len(s) = n /\ n \in Nat /\ n > 0
  BY ElementsAreSeq
<1>2. /\ head \in 0..Capacity /\ tail \in 0..Capacity /\ Capacity \in Nat \ {0}
      /\ tail = Capacity => head # 0
      /\ ~full
  BY CapacityAssumption DEF IInv, TypeOK, Readv
<1>3. x \in Nat
  BY <1>2, ReadvShape
<1>4. Lesser(Len(s), x) \in 0..Len(s) /\ 0 \in Nat
  BY <1>1, <1>3 DEF Lesser
<1>5. data' = Stored(s, Lesser(Len(s), x), 0)
  BY DEF Readv
<1>6. data' \in [Slots -> Byte]
  <2> HIDE DEF x
  <2> QED BY StoredType, <1>1, <1>4, <1>5 DEF IInv
<1>7. ~MayCall("Push")
  BY CallsDisjoint DEF IInv, Readv
<1>8. head' \in 0..Capacity /\ (tail = Capacity => head' # 0)
  <2>1. /\ Len(s) <= IovLen(ReadvIov)
        /\ head' = IF Len(ReadvIov) = 2 /\ Len(s) >= x THEN Len(s) - x ELSE head + Len(s)
    BY DEF Readv
  <2>2. CASE tail > head
    <3>1. Len(ReadvIov) = 1 /\ IovLen(ReadvIov) = tail - head
      BY <1>2, <2>2, ReadvShape
    <3>2. head' = head + Len(s)
      BY <2>1, <3>1
    <3>3. QED
      BY <1>1, <1>2, <2>1, <2>2, <3>1, <3>2
  <2>3. CASE ~(tail > head)
    <3>1. /\ x = Capacity - head
          /\ IovLen(ReadvIov) = (Capacity - head) + tail
          /\ Len(ReadvIov) \in {1, 2}
          /\ Len(ReadvIov) = 1 => head = 0 /\ tail = 0
      BY <1>2, <2>3, ReadvShape
    <3>2. QED
      BY <1>1, <1>2, <2>1, <2>3, <3>1
  <2>4. QED
    BY <2>2, <2>3
<1>9. QED
  BY <1>2, <1>6, <1>7, <1>8, Reestablished DEF IInv, TypeOK, Readv

(* The two pieces Pop, PopAll and Skip move over: n elements up to the end  *)
(* of the array, and the others from t on, at or before head.               *)
LEMMA Pieces ==
  ASSUME IInv, NEW size \in 1..Available
  PROVE  LET n == ToEnd(size)
             t == TailAfter(n)
         IN  /\ size \in 1..Capacity
             /\ n \in 0..size
             /\ tail + n <= Capacity
             /\ t \in 0..Capacity
             /\ size > n => t + (size - n) <= head
             /\ size = n => t < Capacity
             /\ n > 0 => (tail > head \/ full)
             /\ n > 0 /\ n < size => tail + n = Capacity /\ t = 0
             /\ (tail > head \/ full) => n > 0 \/ (tail = Capacity /\ t = 0)
             /\ ~(tail > head \/ full) => n = 0 /\ t = tail
BY CapacityAssumption
   DEF IInv, TypeOK, Available, ToEnd, TailAfter, PastEnd, Lesser

LEMMA PopKeeps ==
  ASSUME IInv, NEW size \in 1..Capacity, Pop(size)
  PROVE  IInv'
<1> DEFINE n == ToEnd(size)
           t == TailAfter(n)
<1>1. size \in 1..Available
  BY AvailableBounds DEF Pop
<1>2. /\ n \in 0..size /\ tail + n <= Capacity /\ t \in 0..Capacity
      /\ size > n => t + (size - n) <= head
      /\ size = n => t < Capacity
  BY <1>1, Pieces
<1>3. /\ got' = Copied(size, n, t)
      /\ tail' = t + (size - n)
      /\ UNCHANGED <<head, data, use>> /\ ~full' /\ full' \in BOOLEAN /\ loan' = 0
  BY DEF Pop
<1> HIDE DEF n, t
<1>4. head \in 0..Capacity /\ tail \in 0..Capacity /\ Capacity \in Nat /\ size \in Nat
  BY CapacityAssumption DEF IInv, TypeOK
<1>5. got' \in Seq(Byte)
  <2>1. t \in Nat /\ t + (size - n) <= Capacity
    BY <1>2, <1>4
  <2>2. QED
    BY <1>2, <1>3, <1>4, <2>1, CopiedType DEF IInv
<1>6. tail' \in 0..Capacity /\ (tail' = Capacity => head = Capacity /\ head # 0)
  BY <1>2, <1>3, <1>4, CapacityAssumption
<1>7. QED
  BY <1>3, <1>4, <1>5, <1>6, Reestablished DEF IInv, TypeOK

LEMMA PopPeakKeeps ==
  ASSUME IInv, NEW size \in 1..Capacity, PopPeak(size)
  PROVE  IInv'
<1> DEFINE n == ToEnd(size)
<1>1. size \in 1..Available
  BY AvailableBounds DEF PopPeak
<1>2. n \in 0..size /\ tail + n <= Capacity
  BY <1>1, Pieces
<1>3. /\ got' = Copied(size, n, 0)
      /\ UNCHANGED <<head, tail, full, data, use>> /\ loan' = 0
  BY DEF PopPeak
<1> HIDE DEF n
<1>4. got' \in Seq(Byte)
  <2>1. size \in Nat /\ 0 \in Nat /\ 0 + (size - n) <= Capacity
    BY <1>2, CapacityAssumption
  <2>2. QED
    BY <1>2, <1>3, <2>1, CopiedType DEF IInv
<1>5. QED
  BY <1>3, <1>4, Reestablished DEF IInv, TypeOK

LEMMA SkipKeeps ==
  ASSUME IInv, NEW size \in 1..Capacity, Skip(size)
  PROVE  IInv'
<1> DEFINE n == ToEnd(size)
           t == TailAfter(n)
<1>1. size \in 1..Available
  BY AvailableBounds DEF Skip
<1>2. /\ n \in 0..size /\ t \in 0..Capacity
      /\ size > n => t + (size - n) <= head
      /\ size = n => t < Capacity
  BY <1>1, Pieces
<1>3. /\ tail' = t + (size - n)
      /\ UNCHANGED <<head, data, got, use>> /\ ~full' /\ full' \in BOOLEAN /\ loan' = 0
  BY DEF Skip
<1>4. head \in 0..Capacity /\ Capacity \in Nat \ {0}
  BY CapacityAssumption DEF IInv, TypeOK
<1> HIDE DEF n, t
<1>5. tail' \in 0..Capacity /\ (tail' = Capacity => head = Capacity /\ head # 0)
  BY <1>2, <1>3, <1>4
<1>6. ~MayCall("Push")
  BY CallsDisjoint DEF IInv, Skip
<1>7. QED
  BY <1>3, <1>4, <1>5, <1>6, Reestablished DEF IInv, TypeOK

LEMMA PopAllKeeps ==
  ASSUME IInv, NEW size \in 1..Capacity, NEW accepted \in 0..2, PopAll(size, accepted)
  PROVE  IInv'
<1> DEFINE n == ToEnd(size)
           t == TailAfter(n)
           pieces == (IF tail > head \/ full THEN 1 ELSE 0) + (IF size > n THEN 1 ELSE 0)
           taken == IF accepted = pieces THEN size ELSE n
<1>1. size \in 1..Available
  BY AvailableBounds DEF PopAll
<1>2. /\ n \in 0..size /\ tail + n <= Capacity /\ t \in 0..Capacity
      /\ size > n => t + (size - n) <= head
      /\ size = n => t < Capacity
      /\ tail > head \/ full => t < Capacity
      /\ ~(tail > head \/ full) => n = 0 /\ t = tail
  BY <1>1, Pieces, CapacityAssumption
     DEF IInv, TypeOK, TailAfter, PastEnd
<1>3. /\ got' = Copied(taken, n, t)
      /\ tail' = t + (taken - n)
      /\ UNCHANGED <<head, data, use>> /\ ~full' /\ full' \in BOOLEAN /\ loan' = 0
  BY DEF PopAll
<1>4. taken \in {size, n}
  OBVIOUS
<1>5. ~MayCall("Push")
  BY CallsDisjoint DEF IInv, PopAll
<1> HIDE DEF n, t, taken, pieces
<1>6. head \in 0..Capacity /\ tail \in 0..Capacity /\ Capacity \in Nat \ {0}
      /\ (tail = Capacity => head # 0)
  BY CapacityAssumption DEF IInv, TypeOK
<1>7. got' \in Seq(Byte)
  <2>1. taken \in Nat /\ n \in 0..taken /\ t \in Nat /\ t + (taken - n) <= Capacity
    BY <1>2, <1>4, <1>6
  <2>2. QED
    BY <1>2, <1>3, <2>1, CopiedType DEF IInv
<1>8. tail' \in 0..Capacity /\ (tail' = Capacity => head # 0)
  BY <1>2, <1>3, <1>4, <1>6
<1>9. QED
  BY <1>3, <1>5, <1>6, <1>7, <1>8, Reestablished DEF IInv, TypeOK

LEMMA DirectKeeps ==
  ASSUME IInv, Direct
  PROVE  IInv'
<1>1. ~MayCall("Push")
  BY CallsDisjoint DEF IInv, Direct
<1>2. /\ tail' = (IF head > tail THEN head ELSE 0)
      /\ loan' = DirectLen /\ ~IsEmpty
      /\ UNCHANGED <<head, data, got, use>> /\ ~full' /\ full' \in BOOLEAN
  BY DEF Direct
<1>3. head \in 0..Capacity /\ tail \in 0..Capacity /\ Capacity \in Nat \ {0}
      /\ (full => head = tail)
  BY CapacityAssumption DEF IInv, TypeOK
<1>4. DirectLen \in Int
  BY <1>3 DEF DirectLen
<1>5. TypeOK'
  BY <1>2, <1>3, <1>4 DEF IInv, TypeOK
<1>6. loan' > 0 => loan' <= Free'
  <2>1. CASE head > tail
    BY <1>2, <1>3, <2>1 DEF DirectLen, Free, Available
  <2>2. CASE ~(head > tail) /\ full
    BY <1>2, <1>3, <2>2 DEF DirectLen, Free, Available
  <2>3. CASE ~(head > tail) /\ ~full
    BY <1>2, <1>3, <2>3 DEF DirectLen
  <2>4. QED
    BY <2>1, <2>2, <2>3
<1>7. tail' = Capacity => head' # 0
  BY <1>2, <1>3
<1>8. ~MayCall("Push")'
  BY <1>1, <1>2 DEF MayCall
<1>9. QED
  BY <1>5, <1>6, <1>7, <1>8 DEF IInv

(* Where Backup moves tail: count slots back, around the end of the array. *)
LEMMA BackupMoves ==
  ASSUME IInv, NEW count \in 1..Capacity, Backup(count)
  PROVE  /\ ~full /\ count <= loan /\ count <= Free
         /\ tail' = IF count <= tail THEN tail - count ELSE Capacity - (count - tail)
         /\ full' \in BOOLEAN /\ (full' => head = tail')
         /\ full' \/ tail' # head
         /\ tail' \in 0 .. Capacity - 1
         /\ loan' = 0 /\ UNCHANGED <<head, data, got, use>>
<1>1. /\ head \in 0..Capacity /\ tail \in 0..Capacity /\ Capacity \in Nat \ {0}
      /\ (full => head = tail) /\ full \in BOOLEAN /\ count \in 1..Capacity
      /\ (tail = Capacity => head # 0)
  BY CapacityAssumption DEF IInv, TypeOK
<1>2. ~full
  BY <1>1 DEF Backup
<1>3. /\ count <= loan /\ count <= Free
      /\ loan' = 0 /\ UNCHANGED <<head, data, got, use>>
  BY DEF Backup
<1>4. CASE head < tail
  <2>1. count <= tail - head /\ tail' = tail - count /\ full' = (tail' = head)
    BY <1>4 DEF Backup
  <2>2. full' \in BOOLEAN /\ (full' <=> tail' = head)
    BY <2>1
  <2>3. QED
    BY <1>1, <1>2, <1>3, <1>4, <2>1, <2>2
<1>5. CASE ~(head < tail)
  <2>1. /\ tail' = IF count > Lesser(tail, count)
                   THEN Capacity - (count - Lesser(tail, count))
                   ELSE tail - Lesser(tail, count)
        /\ full' = IF count > Lesser(tail, count) THEN tail' = head ELSE full
    BY <1>5 DEF Backup
  <2>2. CASE count <= tail
    <3>1. Lesser(tail, count) = count
      BY <1>1, <2>2 DEF Lesser
    <3>2. tail' = tail - count /\ ~full' /\ full' \in BOOLEAN
      BY <1>1, <1>2, <2>1, <3>1
    <3>3. QED
      BY <1>1, <1>2, <1>3, <1>5, <2>2, <3>2
  <2>3. CASE ~(count <= tail)
    <3>1. Lesser(tail, count) = tail
      BY <1>1, <2>3 DEF Lesser
    <3>2. tail' = Capacity - (count - tail) /\ full' = (tail' = head)
      BY <1>1, <2>1, <2>3, <3>1
    <3>3. full' \in BOOLEAN /\ (full' <=> tail' = head)
      BY <3>2
    <3>4. QED
      BY <1>1, <1>2, <1>3, <1>5, <2>3, <3>2, <3>3
  <2>4. QED
    BY <2>2, <2>3
<1>6. QED
  BY <1>4, <1>5

LEMMA BackupKeeps ==
  ASSUME IInv, NEW count \in 1..Capacity, Backup(count)
  PROVE  IInv'
<1>1. ~MayCall("Push")
  BY CallsDisjoint DEF IInv, Backup
<1>2. QED
  BY <1>1, BackupMoves, Reestablished, CapacityAssumption DEF IInv, TypeOK

LEMMA WriteKeeps ==
  ASSUME IInv, NEW n \in 1..Capacity, Write(n)
  PROVE  IInv'
<1>1. head < Capacity /\ tail < Capacity
  BY CallsDisjoint DEF IInv, Write
<1>2. /\ n <= WriteLen /\ got' = Copied(n, n, 0) /\ tail' = Wrapped(tail + n)
      /\ UNCHANGED <<head, data, use>> /\ ~full' /\ full' \in BOOLEAN /\ loan' = 0
  BY DEF Write
<1>3. head \in 0..Capacity /\ tail \in 0..Capacity /\ Capacity \in Nat \ {0}
  BY CapacityAssumption DEF IInv, TypeOK
<1>4. tail + n <= Capacity
  BY <1>2, <1>3 DEF WriteLen
<1>5. got' \in Seq(Byte)
  <2>1. n \in Nat /\ n \in 0..n /\ 0 \in Nat /\ 0 + (n - n) <= Capacity
    BY <1>3
  <2>2. QED
    BY <1>2, <1>4, <2>1, CopiedType DEF IInv
<1>6. tail' \in 0 .. Capacity - 1
  BY <1>2, <1>3, <1>4 DEF Wrapped
<1>7. QED
  BY <1>1, <1>2, <1>3, <1>5, <1>6, Reestablished DEF IInv, TypeOK

(* The vector Writev offers, when it can make progress: the elements up to  *)
(* the end of the array, then those before head.                            *)
LEMMA WritevShape ==
  ASSUME IInv, head < Capacity, tail < Capacity, Available > 0, IovLen(WritevIov) > 0
  PROVE  /\ head > tail =>
              /\ Len(WritevIov) = 1
              /\ WritevIov[1][2] = head - tail
              /\ IovLen(WritevIov) = head - tail
         /\ ~(head > tail) =>
              /\ head > 0
              /\ Len(WritevIov) = 2
              /\ WritevIov[1][2] = Capacity - tail
              /\ IovLen(WritevIov) = (Capacity - tail) + head
BY CapacityAssumption DEF IInv, TypeOK, WritevIov, IovLen

LEMMA WritevMoves ==
  ASSUME IInv, NEW n \in 1..Capacity, Writev(n)
  PROVE  LET x == IF head > tail THEN n ELSE Lesser(n, Capacity - tail)
         IN  /\ head < Capacity /\ tail < Capacity
             /\ n <= Available
             /\ got' = Copied(n, x, 0)
             /\ tail' = IF tail + n < Capacity THEN tail + n ELSE tail + n - Capacity
             /\ x \in 0..n /\ tail + x <= Capacity /\ n - x <= Capacity
             /\ x < n => tail + x = Capacity
             /\ UNCHANGED <<head, data, use>> /\ ~full' /\ full' \in BOOLEAN /\ loan' = 0
<1> DEFINE x == IF head > tail THEN n ELSE Lesser(n, Capacity - tail)
           w == WritevIov[1][2]
<1>1. head < Capacity /\ tail < Capacity
  BY CallsDisjoint DEF IInv, Writev
<1>2. /\ n <= IovLen(WritevIov) /\ Available > 0
      /\ got' = Copied(n, Lesser(n, w), 0)
      /\ tail' = Wrapped(IF Len(WritevIov) = 2 /\ n > w THEN n - w ELSE tail + n)
      /\ UNCHANGED <<head, data, use>> /\ ~full' /\ full' \in BOOLEAN /\ loan' = 0
  BY DEF Writev
<1>3. head \in 0..Capacity /\ tail \in 0..Capacity /\ Capacity \in Nat \ {0}
      /\ (full => head = tail) /\ n \in Nat /\ n > 0
  BY CapacityAssumption DEF IInv, TypeOK
<1>4. IovLen(WritevIov) > 0
  <2>1. IovLen(WritevIov) \in Int
    BY <1>3 DEF IovLen, WritevIov
  <2>2. QED
    BY <1>2, <1>3, <2>1
<1>5. CASE head > tail
  <2>1. w = head - tail /\ IovLen(WritevIov) = head - tail /\ Len(WritevIov) = 1
    BY <1>1, <1>2, <1>4, <1>5, WritevShape
  <2>2. Lesser(n, w) = n /\ tail' = Wrapped(tail + n)
    BY <1>2, <1>3, <2>1 DEF Lesser
  <2>3. n <= Available
    BY <1>2, <1>3, <1>5, <2>1 DEF Available
  <2>4. QED
    BY <1>1, <1>2, <1>3, <1>5, <2>1, <2>2, <2>3 DEF Wrapped
<1>6. CASE ~(head > tail)
  <2>1. /\ head > 0 /\ Len(WritevIov) = 2 /\ w = Capacity - tail
        /\ IovLen(WritevIov) = (Capacity - tail) + head
    BY <1>1, <1>2, <1>4, <1>6, WritevShape
  <2>2. n <= Available
    BY <1>2, <1>3, <1>6, <2>1 DEF Available
  <2>3. /\ got' = Copied(n, Lesser(n, Capacity - tail), 0)
        /\ tail' = Wrapped(IF n > Capacity - tail THEN n - (Capacity - tail) ELSE tail + n)
    BY <1>2, <2>1
  <2>4. QED
    BY <1>1, <1>2, <1>3, <1>6, <2>1, <2>2, <2>3 DEF Wrapped, Lesser
<1>7. QED
  BY <1>5, <1>6

LEMMA WritevKeeps ==
  ASSUME IInv, NEW n \in 1..Capacity, Writev(n)
  PROVE  IInv'
<1> DEFINE x == IF head > tail THEN n ELSE Lesser(n, Capacity - tail)
<1>1. /\ head < Capacity /\ tail < Capacity
      /\ n <= Available
      /\ got' = Copied(n, x, 0)
      /\ tail' = IF tail + n < Capacity THEN tail + n ELSE tail + n - Capacity
      /\ x \in 0..n /\ tail + x <= Capacity /\ n - x <= Capacity
      /\ UNCHANGED <<head, data, use>> /\ ~full' /\ full' \in BOOLEAN /\ loan' = 0
  BY WritevMoves
<1> HIDE DEF x
<1>2. got' \in Seq(Byte)
  <2>1. n \in Nat /\ 0 \in Nat /\ 0 + (n - x) <= Capacity
    BY <1>1, CapacityAssumption
  <2>2. QED
    BY <1>1, <2>1, CopiedType DEF IInv
<1>3. QED
  BY <1>1, <1>2, CapacityAssumption, Reestablished DEF IInv, TypeOK

-----------------------------------------------------------------------------
LEMMA IInvInitial == Init => IInv
BY CapacityAssumption, EmptySeq DEF Init, IInv, TypeOK, Byte, Slots, Free, Available

LEMMA IInvKept == IInv /\ [Next]_vars => IInv'
<1> SUFFICES ASSUME IInv, [Next]_vars
             PROVE  IInv'
  OBVIOUS
<1>1. CASE Fills
  BY <1>1, PushOneKeeps, PushKeeps, ReadKeeps, ReadvKeeps, PushDirectKeeps, BackupDirectKeeps
     DEF Fills
<1>2. CASE Drains
  BY <1>2, PopKeeps, PopPeakKeeps, SkipKeeps, BackupKeeps, WriteKeeps, WritevKeeps,
     PopAllKeeps, DirectKeeps DEF Drains
<1>3. CASE UNCHANGED vars
  BY <1>3 DEF vars, IInv, TypeOK, MayCall, Free, Available
<1>4. QED
  BY <1>1, <1>2, <1>3 DEF Next

THEOREM IInvInvariant == Spec => []IInv
BY IInvInitial, IInvKept, PTL DEF Spec

(* The indices, the flag and the array have their types in every reachable *)
(* state of every ring: no sequence of an owner's calls moves an index past *)
(* the end of the array by more than one (buf.hpp:142-598).                 *)
THEOREM TypeCorrect == Spec => []TypeOK
<1>1. IInv => TypeOK
  BY DEF IInv
<1>2. QED
  BY <1>1, IInvInvariant, PTL

(* A ring that is pushed into never has an index at Capacity, so Push and   *)
(* PushDirect write inside _data; and a ring is empty exactly when it has   *)
(* nothing available (buf.hpp:55-80, 142-214); what Read offers is free,    *)
(* and is nothing exactly when the head is at Capacity (buf.hpp:325-350).   *)
THEOREM IndicesAreSound == Spec => []IndicesSound
<1>1. ASSUME IInv
      PROVE  IndicesSound
  <2>1. /\ head \in 0..Capacity /\ tail \in 0..Capacity /\ Capacity \in Nat \ {0}
        /\ full \in BOOLEAN
    BY <1>1, CapacityAssumption DEF IInv, TypeOK
  <2>2. ASSUME ~full, NEW i \in 1..Available
        PROVE  Slot(tail + i - 1) \notin head .. head + ReadSpace - 1
    BY <2>1, <2>2 DEF Available, Slot, ReadSpace
  <2>3. ReadSpace = 0 <=> head = Capacity
    BY <2>1 DEF ReadSpace
  <2> QED  BY <1>1, <2>2, <2>3, AvailableBounds DEF IInv, IndicesSound
<1>2. QED
  BY <1>1, IInvInvariant, PTL

-----------------------------------------------------------------------------
(* The ring is a queue. n elements of d from t on, around the end.         *)
Ring(d, t, n) == [i \in 1..n |-> d[Slot(t + i - 1)]]

LEMMA SlotType ==
  ASSUME NEW i \in Int, -Capacity <= i, i < 2 * Capacity
  PROVE  Slot(i) \in Slots
BY CapacityAssumption DEF Slot, Slots

LEMMA SlotInjective ==
  ASSUME NEW t \in 0..Capacity, NEW i \in 1..Capacity, NEW j \in 1..Capacity,
         Slot(t + i - 1) = Slot(t + j - 1)
  PROVE  i = j
BY CapacityAssumption DEF Slot

LEMMA RingType ==
  ASSUME NEW d \in [Slots -> Byte], NEW t \in Int, NEW n \in 0..Capacity,
         -Capacity <= t, t <= Capacity
  PROVE  /\ Ring(d, t, n) \in Seq(Byte) /\ Len(Ring(d, t, n)) = n
         /\ \A i \in 1..n : Ring(d, t, n)[i] = d[Slot(t + i - 1)]
<1>1. Capacity \in Nat
  BY CapacityAssumption
<1>2. \A i \in 1..n : t + i - 1 \in Int /\ -Capacity <= t + i - 1 /\ t + i - 1 < 2 * Capacity
  BY <1>1
<1>3. \A i \in 1..n : d[Slot(t + i - 1)] \in Byte
  BY <1>2, SlotType
<1>4. Ring(d, t, n) \in [1..n -> Byte] /\ n \in Nat
  BY <1>1, <1>3 DEF Ring
<1>5. Ring(d, t, n) \in Seq(Byte)
  BY <1>4, SeqDef
<1>6. Len(Ring(d, t, n)) = n
  BY <1>4, <1>5, LenProperties
<1> QED  BY <1>5, <1>6 DEF Ring

(* The numbers the proofs about the queue rest on. *)
LEMMA Numbers ==
  ASSUME IInv
  PROVE  /\ head \in 0..Capacity /\ tail \in 0..Capacity /\ Capacity \in Nat \ {0}
         /\ Available \in 0..Capacity
         /\ full \in BOOLEAN /\ (full => head = tail) /\ (tail = Capacity => head # 0)
         /\ data \in [Slots -> Byte] /\ got \in Seq(Byte) /\ loan \in Int
         /\ (loan > 0 => loan <= Capacity - Available)
BY CapacityAssumption, AvailableBounds DEF IInv, TypeOK, Free

LEMMA ContentsParts ==
  ASSUME IInv
  PROVE  /\ Contents = Ring(data, tail, Available)
         /\ Contents \in Seq(Byte) /\ Len(Contents) = Available
         /\ \A i \in 1..Available : Contents[i] = data[Slot(tail + i - 1)]
<1>1. Contents = Ring(data, tail, Available)
  BY DEF Contents, Ring
<1>2. /\ data \in [Slots -> Byte] /\ tail \in Int /\ Available \in 0..Capacity
      /\ -Capacity <= tail /\ tail <= Capacity
  BY Numbers
<1> QED  BY <1>1, <1>2, RingType

LEMMA LentParts ==
  ASSUME IInv, loan > 0
  PROVE  /\ Lent \in Seq(Byte) /\ Len(Lent) = loan
         /\ \A i \in 1..loan : Lent[i] = data[Slot(tail - loan + i - 1)]
<1>1. Lent = Ring(data, tail - loan, loan)
  BY DEF Lent, Ring
<1>2. /\ data \in [Slots -> Byte] /\ tail - loan \in Int /\ loan \in 0..Capacity
      /\ -Capacity <= tail - loan /\ tail - loan <= Capacity
  BY Numbers
<1> QED  BY <1>1, <1>2, RingType

LEMMA NoneLent ==
  /\ ~(loan > 0) => Lent = <<>>
  /\ loan = 0 => Queue!NothingLent
  /\ loan' = 0 => Queue!NothingLent'
BY DEF Lent, Queue!NothingLent

(* tail moves over n elements. *)
MovesOver(n) ==
  /\ tail' \in 0..Capacity /\ (tail' = tail + n \/ tail' = tail + n - Capacity)
  /\ Available' = Available - n
  /\ data' = data

LEMMA SlotMoves ==
  ASSUME NEW t \in 0..Capacity, NEW u \in 0..Capacity, NEW n \in Nat, NEW i \in 1..Capacity,
         n + i <= Capacity, u = t + n \/ u = t + n - Capacity
  PROVE  Slot(u + i - 1) = Slot(t + (n + i) - 1)
BY CapacityAssumption DEF Slot

(* Then the others are what is left. *)
LEMMA RestIs ==
  ASSUME IInv, NEW n \in 0..Available, MovesOver(n)
  PROVE  Contents' = Queue!Rest(n)
<1>1. /\ tail \in 0..Capacity /\ Capacity \in Nat \ {0} /\ Available \in 0..Capacity /\ n \in Nat
  BY Numbers
<1>2. Contents' = [i \in 1 .. Available - n |-> data[Slot(tail' + i - 1)]]
  BY DEF Contents, MovesOver
<1>3. ASSUME NEW i \in 1 .. Available - n
      PROVE  Slot(tail' + i - 1) = Slot(tail + (n + i) - 1) /\ n + i \in 1..Available
  <2>1. tail' \in 0..Capacity /\ (tail' = tail + n \/ tail' = tail + n - Capacity)
    BY DEF MovesOver
  <2>2. n + i \in 1..Available /\ i \in Nat /\ i >= 1 /\ n + i <= Capacity
    <3>1. PICK a \in 0..Capacity : a = Available
      BY <1>1
    <3>2. n + i \in 1..a /\ i \in Nat /\ i >= 1 /\ n + i <= Capacity
      BY <1>1, <3>1
    <3> QED  BY <3>1, <3>2
  <2>3. tail \in 0..Capacity /\ i \in 1..Capacity /\ n \in Nat
    BY <1>1, <2>2
  <2> QED  BY <2>1, <2>2, <2>3, SlotMoves
<1>4. /\ Contents \in Seq(Byte) /\ Len(Contents) = Available
      /\ \A i \in 1..Available : Contents[i] = data[Slot(tail + i - 1)]
  BY ContentsParts
<1>5. \A i \in 1 .. Available - n : data[Slot(tail' + i - 1)] = Contents[n + i]
  BY <1>3, <1>4
<1> DEFINE r == SubSeq(Contents, n + 1, Available)
<1>6. /\ r \in Seq(Byte) /\ Len(r) = Available - n
      /\ \A i \in 1 .. Available - n : r[i] = Contents[n + i]
  <2>1. \A i \in n + 1 .. Available : i \in 1 .. Len(Contents)
    BY <1>1, <1>4
  <2>2. \A i \in n + 1 .. Available : Contents[i] \in Byte
    BY <1>4, <2>1, ElementOfSeq
  <2>3. n + 1 \in Int /\ Available \in Int
    BY <1>1
  <2>4. /\ r \in Seq(Byte)
        /\ Len(r) = IF n + 1 <= Available THEN Available - (n + 1) + 1 ELSE 0
        /\ \A i \in 1 .. Available - (n + 1) + 1 : r[i] = Contents[n + 1 + i - 1]
    BY <2>2, <2>3, SubSeqProperties
  <2>5. \A i \in 1 .. Available - n : i \in 1 .. Available - (n + 1) + 1 /\ n + 1 + i - 1 = n + i
    BY <1>1
  <2>6. Len(r) = Available - n
    BY <1>1, <2>4
  <2> QED  BY <2>4, <2>5, <2>6
<1>7. r = [i \in 1 .. Available - n |-> data[Slot(tail' + i - 1)]]
  <2>1. r \in [1 .. Available - n -> Byte]
    BY <1>6, LenProperties
  <2> HIDE DEF r
  <2> QED  BY <1>5, <1>6, <2>1
<1> QED  BY <1>2, <1>4, <1>7 DEF Queue!Rest

LEMMA OldestIs ==
  ASSUME IInv, NEW n \in 0..Available
  PROVE  Queue!Oldest(n) = Ring(data, tail, n)
<1>1. Capacity \in Nat \ {0} /\ Available \in 0..Capacity /\ n \in Nat
  BY Numbers
<1>2. /\ Contents \in Seq(Byte) /\ Len(Contents) = Available
      /\ \A i \in 1..Available : Contents[i] = data[Slot(tail + i - 1)]
  BY ContentsParts
<1> DEFINE r == SubSeq(Contents, 1, n)
<1>3. \A i \in 1..n : i \in 1..Available /\ i \in 1..Len(Contents)
  BY <1>1, <1>2
<1>4. \A i \in 1..n : Contents[i] \in Byte
  BY <1>2, <1>3, ElementOfSeq
<1>5. /\ r \in Seq(Byte) /\ Len(r) = IF 1 <= n THEN n - 1 + 1 ELSE 0
      /\ \A i \in 1 .. n - 1 + 1 : r[i] = Contents[1 + i - 1]
  BY <1>1, <1>4, SubSeqProperties
<1>6. Len(r) = n /\ \A i \in 1..n : i \in 1 .. n - 1 + 1 /\ 1 + i - 1 = i
  BY <1>1, <1>5
<1>7. \A i \in 1..n : r[i] = data[Slot(tail + i - 1)]
  BY <1>2, <1>3, <1>5, <1>6
<1>8. r \in [1..n -> Byte]
  BY <1>5, <1>6, LenProperties
<1> HIDE DEF r
<1>9. r = Ring(data, tail, n)
  BY <1>7, <1>8 DEF Ring
<1> QED  BY <1>9 DEF Queue!Oldest, r

(* What is copied out, in one piece or two, is the oldest elements. *)
LEMMA CopiedIsOldest ==
  ASSUME IInv, NEW size \in 0..Available, NEW n \in 0..size, NEW from \in Nat,
         tail + n <= Capacity,
         n < size => from + (size - n) <= Capacity /\ (from = tail + n \/ from = tail + n - Capacity)
  PROVE  Copied(size, n, from) = Queue!Oldest(size)
<1>1. /\ tail \in 0..Capacity /\ Capacity \in Nat \ {0} /\ Available \in 0..Capacity
      /\ size \in Nat /\ n \in Nat
  BY Numbers
<1>2. ASSUME NEW i \in 1..size
      PROVE  (IF i <= n THEN data[tail + i - 1] ELSE data[from + (i - n) - 1]) = data[Slot(tail + i - 1)]
  <2>1. CASE i <= n
    <3>1. Slot(tail + i - 1) = tail + i - 1
      BY <1>1, <2>1 DEF Slot
    <3> QED  BY <2>1, <3>1
  <2>2. CASE ~(i <= n)
    <3>1. Slot(tail + i - 1) = from + (i - n) - 1
      BY <1>1, <2>2 DEF Slot
    <3> QED  BY <2>2, <3>1
  <2> QED  BY <2>1, <2>2
<1>3. Copied(size, n, from) = Ring(data, tail, size)
  BY <1>2 DEF Copied, Ring
<1> QED  BY <1>3, OldestIs

(* The step of the queue when elements are delivered, dropped or copied. *)
LEMMA TakeStep ==
  ASSUME IInv, NEW n \in 0..Available, MovesOver(n), got' = Queue!Oldest(n), loan' = 0
  PROVE  Queue!Next
<1>1. Contents' = Queue!Rest(n) /\ Queue!NothingLent' /\ n \in 0..Len(Contents)
  BY RestIs, NoneLent, ContentsParts
<1>2. Queue!Take(n)
  BY <1>1 DEF Queue!Take
<1> QED  BY <1>1, <1>2 DEF Queue!Next

LEMMA DropStep ==
  ASSUME IInv, NEW n \in 0..Available, MovesOver(n), got' = got, loan' = 0
  PROVE  Queue!Next
<1>1. Contents' = Queue!Rest(n) /\ Queue!NothingLent' /\ n \in 0..Len(Contents)
  BY RestIs, NoneLent, ContentsParts
<1>2. Queue!Drop(n)
  BY <1>1 DEF Queue!Drop
<1> QED  BY <1>1, <1>2 DEF Queue!Next

LEMMA PeekStep ==
  ASSUME IInv, NEW n \in 0..Available, UNCHANGED <<head, tail, full, data>>,
         got' = Queue!Oldest(n), loan' = 0
  PROVE  Queue!Next
<1>1. Contents' = Contents /\ Queue!NothingLent' /\ n \in 0..Len(Contents)
  BY NoneLent, ContentsParts DEF Contents, Available, Slot
<1>2. Queue!Peek(n)
  BY <1>1 DEF Queue!Peek
<1> QED  BY <1>1, <1>2 DEF Queue!Next

(* The newest elements are withdrawn: those that stay are the oldest. *)
LEMMA WithdrawStep ==
  ASSUME IInv, NEW n \in 1..Available, UNCHANGED <<tail, data, got>>,
         Available' = Available - n, loan' = 0
  PROVE  Queue!Next
<1>1. /\ Available \in 0..Capacity /\ Capacity \in Nat
      /\ Queue!NothingLent' /\ Len(Contents) = Available
  BY Numbers, NoneLent, ContentsParts
<1>2. Available - n \in 0..Available
  BY <1>1
<1>3. Contents' = Ring(data, tail, Available - n)
  BY DEF Contents, Ring
<1>4. Contents' = SubSeq(Contents, 1, Len(Contents) - n)
  BY <1>1, <1>2, <1>3, OldestIs DEF Queue!Oldest
<1>5. Queue!Withdraw(n) /\ n \in 1..Len(Contents)
  BY <1>1, <1>4 DEF Queue!Withdraw
<1> QED  BY <1>5 DEF Queue!Next

-----------------------------------------------------------------------------
(* Elements are put behind those in the ring: where each of them lands. *)
Lands(s, n, from) ==
  \A i \in 1..Len(s) :
    Slot(tail + (Available + i) - 1) = IF i <= n THEN head + i - 1 ELSE from + (i - n) - 1

LEMMA StoredNew ==
  ASSUME IInv, NEW s \in Seq(Values), NEW n \in 0..Len(s), NEW from \in Nat,
         Available + Len(s) <= Capacity, Lands(s, n, from), NEW i \in 1..Len(s)
  PROVE  Stored(s, n, from)[Slot(tail + (Available + i) - 1)] = s[i]
<1>1. /\ head \in 0..Capacity /\ tail \in 0..Capacity /\ Capacity \in Nat \ {0}
      /\ Available \in 0..Capacity /\ Len(s) \in Nat /\ i \in Nat /\ n \in Nat
  BY Numbers, LenProperties
<1> DEFINE at(j) == Slot(tail + (Available + j) - 1)
<1>2. \A j \in 1..Len(s) : at(j) = IF j <= n THEN head + j - 1 ELSE from + (j - n) - 1
  BY DEF Lands
<1>3. \A j \in 1..Len(s) : Available + j \in 1..Capacity
  BY <1>1
<1>4. \A j \in 1..Len(s) : at(j) = at(i) => j = i
  <2> SUFFICES ASSUME NEW j \in 1..Len(s), at(j) = at(i)
               PROVE  j = i
    OBVIOUS
  <2>1. Available + j = Available + i
    BY <1>1, <1>3, SlotInjective
  <2> QED  BY <1>1, <2>1
<1>5. at(i) \in Slots
  <2>1. /\ tail + (Available + i) - 1 \in Int /\ -Capacity <= tail + (Available + i) - 1
        /\ tail + (Available + i) - 1 < 2 * Capacity
    BY <1>1, <1>3
  <2> QED  BY <2>1, SlotType
<1> HIDE DEF at
<1>6. CASE i <= n
  <2>1. at(i) = head + i - 1 /\ at(i) \in head .. head + n - 1 /\ at(i) - head + 1 = i
    BY <1>1, <1>2, <1>6
  <2> QED  BY <1>5, <2>1 DEF Stored, at
<1>7. CASE ~(i <= n)
  <2>1. at(i) = from + (i - n) - 1
    BY <1>2, <1>7
  <2>2. at(i) \notin head .. head + n - 1
    <3> SUFFICES ASSUME at(i) \in head .. head + n - 1
                 PROVE  FALSE
      OBVIOUS
    <3> DEFINE j == at(i) - head + 1
    <3>1. j \in 1..n /\ j \in 1..Len(s) /\ head + j - 1 = at(i)
      BY <1>1
    <3>2. at(j) = at(i)
      <4> HIDE DEF j
      <4>1. j <= n
        BY <1>1, <3>1
      <4> QED  BY <1>2, <3>1, <4>1
    <3>3. j = i /\ j <= n
      BY <1>1, <1>4, <3>1, <3>2
    <3> QED  BY <1>7, <3>3
  <2>3. /\ at(i) \in from .. from + (Len(s) - n) - 1
        /\ n + at(i) - from + 1 = i
    BY <1>1, <1>7, <2>1
  <2> QED  BY <1>5, <2>2, <2>3 DEF Stored, at
<1> QED  BY <1>6, <1>7

LEMMA StoredOld ==
  ASSUME IInv, NEW s \in Seq(Values), NEW n \in 0..Len(s), NEW from \in Nat,
         Available + Len(s) <= Capacity, Lands(s, n, from), NEW i \in 1..Available
  PROVE  Stored(s, n, from)[Slot(tail + i - 1)] = data[Slot(tail + i - 1)]
<1>1. /\ head \in 0..Capacity /\ tail \in 0..Capacity /\ Capacity \in Nat \ {0}
      /\ Available \in 0..Capacity /\ Len(s) \in Nat /\ i \in 1..Capacity /\ n \in Nat
  BY Numbers, LenProperties
<1> DEFINE x == Slot(tail + i - 1)
           at(j) == Slot(tail + (Available + j) - 1)
<1>2. \A j \in 1..Len(s) : at(j) = IF j <= n THEN head + j - 1 ELSE from + (j - n) - 1
  BY DEF Lands
<1>3. \A j \in 1..Len(s) : at(j) # x
  <2> SUFFICES ASSUME NEW j \in 1..Len(s), at(j) = x
               PROVE  FALSE
    OBVIOUS
  <2>1. Available + j \in 1..Capacity /\ Available + j > i
    <3>1. PICK a \in 0..Capacity : a = Available
      BY <1>1
    <3>2. a + j \in 1..Capacity /\ a + j > i
      BY <1>1, <3>1
    <3> QED  BY <3>1, <3>2
  <2>2. Available + j = i
    BY <1>1, <2>1, SlotInjective
  <2> QED  BY <1>1, <2>1, <2>2
<1>4. x \in Slots
  <2>1. /\ tail + i - 1 \in Int /\ -Capacity <= tail + i - 1 /\ tail + i - 1 < 2 * Capacity
    BY <1>1
  <2> QED  BY <2>1, SlotType
<1> HIDE DEF at, x
<1>5. x \in Nat
  BY <1>1, <1>4 DEF Slots
<1>6. x \notin head .. head + n - 1
  <2> SUFFICES ASSUME x \in head .. head + n - 1
               PROVE  FALSE
    OBVIOUS
  <2>1. PICK j \in Nat : j = x - head + 1
    BY <1>1, <1>5
  <2>2. j \in 1..Len(s) /\ j <= n /\ head + j - 1 = x
    BY <1>1, <1>5, <2>1
  <2> QED  BY <1>2, <1>3, <2>2
<1>7. x \notin from .. from + (Len(s) - n) - 1
  <2> SUFFICES ASSUME x \in from .. from + (Len(s) - n) - 1
               PROVE  FALSE
    OBVIOUS
  <2>1. PICK j \in Nat : j = n + (x - from) + 1
    BY <1>1, <1>5
  <2>2. j \in 1..Len(s) /\ ~(j <= n) /\ from + (j - n) - 1 = x
    BY <1>1, <1>5, <2>1
  <2> QED  BY <1>2, <1>3, <2>2
<1> QED  BY <1>4, <1>6, <1>7 DEF Stored, x

(* The step of the queue when elements are put in. *)
LEMMA PutStep ==
  ASSUME IInv, NEW k \in 1..Capacity, NEW s \in Elements(k), NEW n \in 0..k, NEW from \in Nat,
         Available + k <= Capacity, Lands(s, n, from),
         data' = Stored(s, n, from), tail' = tail, got' = got, loan' = 0,
         Available' = Available + k
  PROVE  Queue!Next
<1>1. s \in Seq(Values) /\ Len(s) = k /\ k \in Nat
  BY ElementsAreSeq
<1>2. /\ Available \in 0..Capacity /\ Capacity \in Nat \ {0} /\ Queue!NothingLent'
      /\ Contents \in Seq(Byte) /\ Len(Contents) = Available
      /\ \A i \in 1..Available : Contents[i] = data[Slot(tail + i - 1)]
  BY Numbers, NoneLent, ContentsParts
<1>3. s \in Seq(Byte)
  BY <1>1, SeqMonotonic DEF Byte
<1>4. PICK a \in 0..Capacity : a = Available
  BY <1>2
<1>5. Contents' = [i \in 1 .. a + k |-> data'[Slot(tail + i - 1)]]
  BY <1>4 DEF Contents
<1> DEFINE c == Contents \o s
<1>6. /\ c \in Seq(Byte) /\ Len(c) = a + k
      /\ \A i \in 1 .. a + k : c[i] = IF i <= a THEN Contents[i] ELSE s[i - a]
  <2>1. Len(Contents) = a /\ Len(s) = k
    BY <1>1, <1>2, <1>4
  <2>2. /\ c \in Seq(Byte) /\ Len(c) = Len(Contents) + Len(s)
        /\ \A i \in 1 .. Len(Contents) + Len(s) :
             c[i] = IF i <= Len(Contents) THEN Contents[i] ELSE s[i - Len(Contents)]
    BY <1>2, <1>3, ConcatProperties
  <2> HIDE DEF c
  <2> QED  BY <2>1, <2>2
<1>7. c \in [1 .. a + k -> Byte]
  BY <1>6, LenProperties
<1> HIDE DEF c
<1>8. ASSUME NEW i \in 1 .. a + k
      PROVE  data'[Slot(tail + i - 1)] = c[i]
  <2>1. CASE i <= a
    <3>1. i \in 1..Available
      BY <1>4, <2>1
    <3>2. data'[Slot(tail + i - 1)] = data[Slot(tail + i - 1)]
      BY <1>1, <3>1, StoredOld
    <3> QED  BY <1>2, <1>6, <2>1, <3>1, <3>2
  <2>2. CASE ~(i <= a)
    <3>1. i - a \in 1..Len(s) /\ a + (i - a) = i
      BY <1>1, <1>4, <2>2
    <3>2. data'[Slot(tail + (Available + (i - a)) - 1)] = s[i - a]
      BY <1>1, <3>1, StoredNew
    <3>3. data'[Slot(tail + i - 1)] = s[i - a]
      BY <1>4, <3>1, <3>2
    <3> QED  BY <1>6, <2>2, <3>3
  <2> QED  BY <2>1, <2>2
<1>9. Contents' = c
  BY <1>5, <1>7, <1>8
<1>10. Queue!Put(s)
  BY <1>1, <1>2, <1>9 DEF Queue!Put, c
<1> QED  BY <1>10 DEF Queue!Next, Elements

-----------------------------------------------------------------------------
(* Each operation's step. *)

LEMMA AvailableIs ==
  ASSUME IInv
  PROVE  /\ full => Available = Capacity
         /\ ~full /\ head >= tail => Available = head - tail
         /\ ~full /\ head < tail => Available = Capacity - (tail - head)
BY Numbers DEF Available

LEMMA AvailableAfter ==
  ASSUME head' \in 0..Capacity, tail' \in 0..Capacity
  PROVE  /\ full' => Available' = Capacity
         /\ ~full' /\ head' >= tail' => Available' = head' - tail'
         /\ ~full' /\ head' < tail' => Available' = Capacity - (tail' - head')
<1>1. full' => Available' = Capacity
  BY DEF Available
<1>2. ~full' /\ head' >= tail' => Available' = head' - tail'
  BY DEF Available
<1>3. ~full' /\ head' < tail' => Available' = Capacity - (tail' - head')
  <2>1. head' < tail' => ~(head' >= tail')
    BY CapacityAssumption
  <2> QED  BY <2>1 DEF Available
<1> QED  BY <1>1, <1>2, <1>3

(* Elements that move head from the head of a ring that is not full. *)
MovesHead(k) ==
  /\ head' \in 0..Capacity
  /\ head' = head + k \/ (head' = head + k - Capacity /\ head >= tail)
  /\ full' <=> head' = tail

LEMMA PutCounts ==
  ASSUME IInv, ~full, NEW k \in 1..Capacity, Available + k <= Capacity,
         MovesHead(k), tail' = tail
  PROVE  Available' = Available + k
<1>1. /\ head \in 0..Capacity /\ tail \in 0..Capacity /\ Capacity \in Nat \ {0}
      /\ (tail = Capacity => head # 0)
  BY Numbers
<1>2. /\ head' \in 0..Capacity /\ tail' \in 0..Capacity
      /\ head' = head + k \/ (head' = head + k - Capacity /\ head >= tail)
      /\ full' <=> head' = tail
  BY <1>1 DEF MovesHead
<1>3. /\ full' => Available' = Capacity
      /\ ~full' /\ head' >= tail' => Available' = head' - tail'
      /\ ~full' /\ head' < tail' => Available' = Capacity - (tail' - head')
  BY <1>2, AvailableAfter
<1>4. CASE head >= tail
  <2>1. Available = head - tail
    BY <1>4, AvailableIs
  <2>2. CASE head' = head + k
    <3>1. ~(head' = tail) /\ head' >= tail'
      BY <1>1, <1>2, <1>4, <2>2
    <3>2. Available' = head' - tail'
      BY <1>2, <1>3, <3>1
    <3> QED  BY <1>1, <2>1, <2>2, <3>2
  <2>3. CASE head' = head + k - Capacity
    <3>1. head' <= tail
      BY <1>1, <2>1, <2>3
    <3>2. CASE head' = tail
      BY <1>1, <1>2, <1>3, <2>1, <2>3, <3>2
    <3>3. CASE head' # tail
      <4>1. Available' = Capacity - (tail' - head')
        BY <1>1, <1>2, <1>3, <3>1, <3>3
      <4> QED  BY <1>1, <2>1, <2>3, <4>1
    <3> QED  BY <3>2, <3>3
  <2> QED  BY <1>2, <2>2, <2>3
<1>5. CASE head < tail
  <2>1. Available = Capacity - (tail - head)
    BY <1>5, AvailableIs
  <2>2. head' = head + k /\ head' <= tail
    BY <1>1, <1>2, <1>5, <2>1
  <2>3. CASE head' = tail
    BY <1>1, <1>2, <1>3, <2>1, <2>2, <2>3
  <2>4. CASE head' # tail
    <3>1. Available' = Capacity - (tail' - head')
      BY <1>1, <1>2, <1>3, <2>2, <2>4
    <3> QED  BY <1>1, <1>2, <2>1, <2>2, <3>1
  <2> QED  BY <2>3, <2>4
<1> QED  BY <1>1, <1>4, <1>5

(* The first n of k elements at head, the others from slot from on. *)
LEMMA LandsStraight ==
  ASSUME IInv, ~full, NEW s, Len(s) \in 1..Capacity, Available + Len(s) <= Capacity,
         NEW n \in 0..Len(s), NEW from \in Nat,
         head < tail => n = Len(s) \/ (n = 0 /\ from = head),
         head >= tail => head + n <= Capacity /\ (n < Len(s) => from = 0 /\ head + n = Capacity)
  PROVE  Lands(s, n, from)
<1>1. /\ head \in 0..Capacity /\ tail \in 0..Capacity /\ Capacity \in Nat \ {0}
      /\ Len(s) \in Nat
  BY Numbers
<1>2. ASSUME NEW i \in 1..Len(s)
      PROVE  Slot(tail + (Available + i) - 1) = IF i <= n THEN head + i - 1 ELSE from + (i - n) - 1
  <2>1. CASE head >= tail
    <3>1. Available = head - tail
      BY <2>1, AvailableIs
    <3>2. tail + (Available + i) - 1 = head + i - 1 /\ head + i - 1 \in Nat
      BY <1>1, <3>1
    <3>3. CASE i <= n
      <4>1. head + i - 1 < Capacity
        BY <1>1, <2>1, <3>3
      <4>2. Slot(head + i - 1) = head + i - 1
        BY <1>1, <3>2, <4>1 DEF Slot
      <4> QED  BY <3>2, <3>3, <4>2
    <3>4. CASE ~(i <= n)
      <4>1. n < Len(s) /\ from = 0 /\ head + n = Capacity
        BY <1>1, <2>1, <3>4
      <4>2. head + i - 1 >= Capacity /\ (head + i - 1) - Capacity = from + (i - n) - 1
        BY <1>1, <3>4, <4>1
      <4>3. Slot(head + i - 1) = (head + i - 1) - Capacity
        BY <1>1, <3>2, <4>2 DEF Slot
      <4> QED  BY <3>2, <3>4, <4>2, <4>3
    <3> QED  BY <3>3, <3>4
  <2>2. CASE head < tail
    <3>1. Available = Capacity - (tail - head)
      BY <2>2, AvailableIs
    <3>2. /\ tail + (Available + i) - 1 = (head + i - 1) + Capacity
          /\ head + i - 1 \in Nat
      BY <1>1, <3>1
    <3>3. Slot((head + i - 1) + Capacity) = head + i - 1
      BY <1>1, <3>2 DEF Slot
    <3>4. (IF i <= n THEN head + i - 1 ELSE from + (i - n) - 1) = head + i - 1
      BY <1>1, <2>2
    <3> QED  BY <3>2, <3>3, <3>4
  <2> QED  BY <1>1, <2>1, <2>2
<1> QED  BY <1>2 DEF Lands

LEMMA PushOneStep ==
  ASSUME IInv, NEW d \in Values, PushOne(d)
  PROVE  Queue!Next
<1>1. /\ ~full /\ data' = Stored(<<d>>, 1, 0) /\ head' = Wrapped(head + 1)
      /\ full' = (head' = tail) /\ loan' = 0 /\ tail' = tail /\ got' = got
      /\ MayCall("Push")
  BY DEF PushOne
<1>2. /\ head \in 0 .. Capacity - 1 /\ tail \in 0 .. Capacity - 1 /\ Capacity \in Nat \ {0}
  BY <1>1, Numbers DEF IInv
<1>3. <<d>> \in Elements(1) /\ Len(<<d>>) = 1 /\ 1 \in 1..Capacity
  BY <1>2 DEF Elements
<1>4. Available + 1 <= Capacity
  BY <1>1, <1>2, AvailableIs
<1>5. MovesHead(1)
  <2>1. full' <=> head' = tail
    BY <1>1
  <2>2. head' \in 0..Capacity /\ (head' = head + 1 \/ (head' = head + 1 - Capacity /\ head >= tail))
    BY <1>1, <1>2 DEF Wrapped
  <2> QED  BY <2>1, <2>2 DEF MovesHead
<1>6. Available' = Available + 1
  BY <1>1, <1>3, <1>4, <1>5, PutCounts
<1>7. Lands(<<d>>, 1, 0)
  <2>1. PICK s : s = <<d>>
    OBVIOUS
  <2>2. 1 \in 0..Len(s) /\ 0 \in Nat /\ Len(s) \in 1..Capacity /\ Available + Len(s) <= Capacity
    BY <1>3, <1>4, <2>1
  <2>3. /\ head < tail => 1 = Len(s)
        /\ head >= tail => head + 1 <= Capacity /\ ~(1 < Len(s))
    BY <1>2, <1>3, <2>1
  <2>4. Lands(s, 1, 0)
    BY <1>1, <2>2, <2>3, LandsStraight
  <2> QED  BY <2>1, <2>4
<1> QED  BY <1>1, <1>3, <1>4, <1>6, <1>7, PutStep

LEMMA PushStep ==
  ASSUME IInv, NEW k \in 1..Capacity, NEW s \in Elements(k), Push(s)
  PROVE  Queue!Next
<1> DEFINE n  == IF head >= tail /\ head < Capacity THEN Lesser(Len(s), Capacity - head) ELSE 0
           h1 == IF n > 0 THEN Wrapped(head + n) ELSE head
<1>1. /\ ~full /\ data' = Stored(s, n, h1) /\ head' = h1 + (Len(s) - n)
      /\ full' = (head' = tail) /\ loan' = 0 /\ tail' = tail /\ got' = got
      /\ MayCall("Push") /\ Len(s) <= Capacity - Available
  BY DEF Push
<1>2. /\ head \in 0 .. Capacity - 1 /\ tail \in 0 .. Capacity - 1 /\ Capacity \in Nat \ {0}
      /\ Available \in 0..Capacity /\ k \in Nat
  BY <1>1, Numbers DEF IInv
<1>3. Len(s) = k
  BY ElementsAreSeq
<1>4. Available + k <= Capacity
  BY <1>1, <1>2, <1>3
<1>5. /\ n \in 0..k /\ h1 \in Nat
      /\ head < tail => n = 0 /\ h1 = head
      /\ head >= tail => head + n <= Capacity /\ n > 0 /\ (n < k => h1 = 0 /\ head + n = Capacity)
      /\ n = k => h1 = Wrapped(head + k)
  BY <1>2, <1>3 DEF Lesser, Wrapped
<1> HIDE DEF n, h1
<1>6. MovesHead(k)
  <2>1. full' <=> head' = tail
    BY <1>1
  <2>2. CASE head < tail
    <3>1. Available = Capacity - (tail - head)
      BY <1>1, <2>2, AvailableIs
    <3>2. head' = head + k /\ head' \in 0..Capacity
      BY <1>1, <1>2, <1>3, <1>4, <1>5, <2>2, <3>1
    <3> QED  BY <2>1, <3>2 DEF MovesHead
  <2>3. CASE head >= tail
    <3>1. Available = head - tail
      BY <1>1, <2>3, AvailableIs
    <3>2. CASE n = k
      <4>1. head' = Wrapped(head + k) /\ head + k <= Capacity
        BY <1>1, <1>2, <1>3, <1>5, <2>3, <3>2 DEF Wrapped
      <4>2. head' \in 0..Capacity /\ (head' = head + k \/ head' = head + k - Capacity)
        BY <1>2, <4>1 DEF Wrapped
      <4> QED  BY <2>1, <2>3, <4>2 DEF MovesHead
    <3>3. CASE n # k
      <4>1. h1 = 0 /\ head + n = Capacity
        BY <1>2, <1>5, <2>3, <3>3
      <4>2. head' = head + k - Capacity
        BY <1>1, <1>2, <1>3, <1>5, <4>1
      <4>3. head' \in 0..Capacity
        BY <1>1, <1>2, <1>3, <1>5, <4>1
      <4> QED  BY <2>1, <2>3, <4>2, <4>3 DEF MovesHead
    <3> QED  BY <3>2, <3>3
  <2> QED  BY <1>2, <2>2, <2>3
<1>7. Available' = Available + k
  BY <1>1, <1>4, <1>6, PutCounts
<1>8. Lands(s, n, h1)
  <2>1. /\ head < tail => n = Len(s) \/ (n = 0 /\ h1 = head)
        /\ head >= tail => head + n <= Capacity /\ (n < Len(s) => h1 = 0 /\ head + n = Capacity)
    BY <1>3, <1>5
  <2>2. Len(s) \in 1..Capacity /\ Available + Len(s) <= Capacity /\ n \in 0..Len(s)
    BY <1>3, <1>4, <1>5
  <2> QED  BY <1>1, <1>5, <2>1, <2>2, LandsStraight
<1> QED  BY <1>1, <1>4, <1>5, <1>7, <1>8, PutStep

LEMMA PushDirectStep ==
  ASSUME IInv, NEW s \in Elements(PushDirectLen), PushDirect(s)
  PROVE  Queue!Next
<1> DEFINE k == PushDirectLen
<1>1. /\ ~full /\ data' = Stored(s, Len(s), 0)
      /\ head' = IF head >= tail THEN Wrapped(head + Len(s)) ELSE head + Len(s)
      /\ full' = (head' = tail) /\ loan' = 0 /\ tail' = tail /\ got' = got
      /\ MayCall("PushDirect")
  BY DEF PushDirect
<1>2. /\ head \in 0 .. Capacity - 1 /\ tail \in 0 .. Capacity - 1 /\ Capacity \in Nat \ {0}
  BY <1>1, CallsDisjoint, Numbers DEF IInv
<1>3. k = (IF head >= tail THEN Capacity - head ELSE tail - head) /\ k \in 1..Capacity
  BY <1>2 DEF PushDirectLen
<1> HIDE DEF k
<1>4. s \in Elements(k) /\ Len(s) = k
  <2>1. s \in Elements(k)
    BY DEF k
  <2> QED  BY <1>2, <1>3, <2>1, ElementsAreSeq
<1>5. Available + k <= Capacity
  BY <1>1, <1>2, <1>3, AvailableIs
<1>6. MovesHead(k)
  <2>1. full' <=> head' = tail
    BY <1>1
  <2>2. head' = IF head >= tail THEN Wrapped(head + k) ELSE head + k
    BY <1>1, <1>4
  <2>3. head' \in 0..Capacity /\ (head' = head + k \/ (head' = head + k - Capacity /\ head >= tail))
    BY <1>2, <1>3, <2>2 DEF Wrapped
  <2> QED  BY <2>1, <2>3 DEF MovesHead
<1>7. Available' = Available + k
  BY <1>1, <1>3, <1>5, <1>6, PutCounts
<1>8. k \in 0..k /\ 0 \in Nat
  BY <1>2, <1>3
<1>9. Lands(s, k, 0)
  <2>1. /\ head < tail => k = Len(s)
        /\ head >= tail => head + k <= Capacity /\ ~(k < Len(s))
    BY <1>2, <1>3, <1>4
  <2>2. Len(s) \in 1..Capacity /\ Available + Len(s) <= Capacity /\ k \in 0..Len(s)
    BY <1>3, <1>4, <1>5, <1>8
  <2> QED  BY <1>1, <1>8, <2>1, <2>2, LandsStraight
<1>10. data' = Stored(s, k, 0)
  BY <1>1, <1>4
<1> QED  BY <1>1, <1>3, <1>4, <1>5, <1>7, <1>8, <1>9, <1>10, PutStep

LEMMA ReadStep ==
  ASSUME IInv, NEW k \in 1..Capacity, NEW s \in Elements(k), Read(s)
  PROVE  Queue!Next
<1>1. /\ ~full /\ data' = Stored(s, Len(s), 0) /\ head' = head + Len(s)
      /\ full' = (head' = tail) /\ loan' = 0 /\ tail' = tail /\ got' = got
      /\ Len(s) <= (IF tail > head THEN tail - head ELSE Capacity - head)
  BY DEF Read, ReadSpace
<1>2. /\ head \in 0..Capacity /\ tail \in 0..Capacity /\ Capacity \in Nat \ {0} /\ k \in Nat
  BY Numbers
<1>3. Len(s) = k
  BY ElementsAreSeq
<1>4. Available + k <= Capacity
  BY <1>1, <1>2, <1>3, AvailableIs
<1>5. MovesHead(k)
  <2>1. full' <=> head' = tail
    BY <1>1
  <2>2. head' \in 0..Capacity /\ head' = head + k
    BY <1>1, <1>2, <1>3
  <2> QED  BY <2>1, <2>2 DEF MovesHead
<1>6. Available' = Available + k
  BY <1>1, <1>4, <1>5, PutCounts
<1>7. k \in 0..k /\ 0 \in Nat
  BY <1>2
<1>8. Lands(s, k, 0)
  <2>1. /\ head < tail => k = Len(s)
        /\ head >= tail => head + k <= Capacity /\ ~(k < Len(s))
    BY <1>1, <1>2, <1>3
  <2>2. Len(s) \in 1..Capacity /\ Available + Len(s) <= Capacity /\ k \in 0..Len(s)
    BY <1>3, <1>4, <1>7
  <2> QED  BY <1>1, <1>7, <2>1, <2>2, LandsStraight
<1>9. data' = Stored(s, k, 0)
  BY <1>1, <1>3
<1> QED  BY <1>1, <1>4, <1>6, <1>7, <1>8, <1>9, PutStep

LEMMA ReadvStep ==
  ASSUME IInv, NEW k \in 1..Capacity, NEW s \in Elements(k), Readv(s)
  PROVE  Queue!Next
<1> DEFINE x == ReadvIov[1][2]
           n == Lesser(k, x)
<1>1. /\ ~full /\ data' = Stored(s, Lesser(Len(s), x), 0)
      /\ head' = IF Len(ReadvIov) = 2 /\ Len(s) >= x THEN Len(s) - x ELSE head + Len(s)
      /\ full' = (head' = tail) /\ loan' = 0 /\ tail' = tail /\ got' = got
      /\ Len(s) <= IovLen(ReadvIov)
  BY DEF Readv
<1>2. /\ head \in 0..Capacity /\ tail \in 0..Capacity /\ Capacity \in Nat \ {0} /\ k \in Nat
  BY Numbers
<1>3. Len(s) = k
  BY ElementsAreSeq
<1>4. tail > head => Len(ReadvIov) = 1 /\ x = tail - head /\ IovLen(ReadvIov) = tail - head
  BY <1>1, ReadvShape
<1>5. ~(tail > head) =>
        /\ Len(ReadvIov) \in {1, 2} /\ x = Capacity - head
        /\ IovLen(ReadvIov) = (Capacity - head) + tail
        /\ Len(ReadvIov) = 1 => head = 0 /\ tail = 0
  BY <1>1, ReadvShape
<1> HIDE DEF x
<1>6. Available + k <= Capacity
  BY <1>1, <1>2, <1>3, <1>4, <1>5, AvailableIs
<1>7. /\ n \in 0..k /\ 0 \in Nat
      /\ head < tail => n = k
      /\ head >= tail => head + n <= Capacity /\ (n < k => head + n = Capacity)
  BY <1>1, <1>2, <1>3, <1>4, <1>5 DEF Lesser
<1>8. MovesHead(k)
  <2>1. full' <=> head' = tail
    BY <1>1
  <2>2. CASE tail > head
    <3>1. head' = head + k /\ head' \in 0..Capacity
      <4>1. Len(ReadvIov) = 1 /\ k <= tail - head
        BY <1>1, <1>3, <1>4, <2>2
      <4>2. head' = head + k
        BY <1>1, <1>3, <4>1
      <4> QED  BY <1>2, <4>1, <4>2
    <3> QED  BY <2>1, <3>1 DEF MovesHead
  <2>3. CASE ~(tail > head)
    <3>1. /\ head' \in 0..Capacity /\ head >= tail
          /\ head' = head + k \/ head' = head + k - Capacity
      BY <1>1, <1>2, <1>3, <1>5, <2>3
    <3> QED  BY <2>1, <3>1 DEF MovesHead
  <2> QED  BY <2>2, <2>3
<1>9. Available' = Available + k
  BY <1>1, <1>6, <1>8, PutCounts
<1>10. data' = Stored(s, n, 0)
  BY <1>1, <1>3
<1> HIDE DEF n
<1>11. Lands(s, n, 0)
  <2>1. /\ head < tail => n = Len(s)
        /\ head >= tail => head + n <= Capacity /\ (n < Len(s) => 0 = 0 /\ head + n = Capacity)
    BY <1>3, <1>7
  <2>2. Len(s) \in 1..Capacity /\ Available + Len(s) <= Capacity /\ n \in 0..Len(s)
    BY <1>3, <1>6, <1>7
  <2> QED  BY <1>1, <1>7, <2>1, <2>2, LandsStraight
<1> QED  BY <1>1, <1>6, <1>7, <1>9, <1>10, <1>11, PutStep

LEMMA BackupDirectStep ==
  ASSUME IInv, NEW n \in 1..Capacity, BackupDirect(n)
  PROVE  Queue!Next
<1>1. /\ n <= Available /\ ~IsEmpty /\ ~full' /\ loan' = 0 /\ UNCHANGED <<tail, data, got>>
      /\ head' = IF head > tail THEN head - n
                 ELSE IF n > Lesser(head, n) THEN Capacity - (n - Lesser(head, n))
                 ELSE head - Lesser(head, n)
      /\ MayCall("BackupDirect")
  BY DEF BackupDirect
<1>2. /\ head \in 0 .. Capacity - 1 /\ tail \in 0 .. Capacity - 1 /\ Capacity \in Nat \ {0}
      /\ Available \in 0..Capacity /\ full \in BOOLEAN /\ (full => head = tail)
  BY <1>1, CallsDisjoint, Numbers DEF IInv
<1>3. /\ full => Available = Capacity
      /\ ~full /\ head >= tail => Available = head - tail
      /\ ~full /\ head < tail => Available = Capacity - (tail - head)
      /\ ~full => head # tail
  BY <1>1, AvailableIs DEF IsEmpty
<1>4. head' \in 0..Capacity /\ tail' \in 0..Capacity
  BY <1>1, <1>2, <1>3 DEF Lesser
<1>5. /\ head' >= tail' => Available' = head' - tail'
      /\ head' < tail' => Available' = Capacity - (tail' - head')
  BY <1>1, <1>4, AvailableAfter
<1>6. Available' = Available - n
  <2>1. CASE head > tail
    <3>1. Available = head - tail /\ head' = head - n /\ head' >= tail'
      BY <1>1, <1>2, <1>3, <2>1
    <3> QED  BY <1>1, <1>2, <1>5, <3>1
  <2>2. CASE ~(head > tail)
    <3>1. Available = Capacity - (tail - head)
      BY <1>2, <1>3, <2>2
    <3>2. CASE n <= head
      <4>1. head' = head - n
        BY <1>1, <1>2, <2>2, <3>2 DEF Lesser
      <4>2. head' < tail'
        BY <1>1, <1>2, <2>2, <4>1
      <4> QED  BY <1>1, <1>2, <1>5, <3>1, <4>1, <4>2
    <3>3. CASE ~(n <= head)
      <4>1. head' = Capacity - (n - head)
        BY <1>1, <1>2, <2>2, <3>3 DEF Lesser
      <4>2. head' >= tail'
        BY <1>1, <1>2, <3>1, <4>1
      <4> QED  BY <1>1, <1>2, <1>5, <3>1, <4>1, <4>2
    <3> QED  BY <3>2, <3>3
  <2> QED  BY <2>1, <2>2
<1>7. n \in 1..Available
  BY <1>1, <1>2
<1> QED  BY <1>1, <1>6, <1>7, WithdrawStep

-----------------------------------------------------------------------------
(* tail moves over n of the elements in use, to their end or around it. *)
LEMMA TakeCounts ==
  ASSUME IInv, NEW n \in 0..Available, head' = head, data' = data, ~full',
         tail' \in 0..Capacity,
         tail' = tail + n \/ (tail' = tail + n - Capacity /\ (full \/ head < tail)),
         n = 0 /\ full => tail' # tail
  PROVE  MovesOver(n)
<1>1. /\ head \in 0..Capacity /\ tail \in 0..Capacity /\ Capacity \in Nat \ {0}
      /\ Available \in 0..Capacity /\ (full => head = tail) /\ n \in Nat
  BY Numbers
<1>2. head' \in 0..Capacity
  BY <1>1
<1>3. /\ head' >= tail' => Available' = head' - tail'
      /\ head' < tail' => Available' = Capacity - (tail' - head')
  BY <1>2, AvailableAfter
<1>4. PICK a \in 0..Capacity : a = Available
  BY <1>1
<1>5. n \in 0..a
  BY <1>4
<1>6. Available' = a - n
  <2>1. CASE ~full /\ head >= tail
    <3>1. a = head - tail
      BY <1>4, <2>1, AvailableIs
    <3>2. tail' = tail + n /\ head' >= tail'
      BY <1>1, <1>5, <2>1, <3>1
    <3> QED  BY <1>1, <1>3, <3>1, <3>2
  <2>2. CASE full \/ head < tail
    <3>1. a = Capacity - (tail - head) /\ head <= tail
      BY <1>1, <1>4, <2>2, AvailableIs
    <3>2. CASE tail' = tail + n
      <4>1. head' < tail'
        BY <1>1, <2>2, <3>2
      <4> QED  BY <1>1, <1>3, <3>1, <3>2, <4>1
    <3>3. CASE tail' = tail + n - Capacity
      <4>1. head' >= tail'
        BY <1>1, <1>5, <3>1, <3>3
      <4> QED  BY <1>1, <1>3, <3>1, <3>3, <4>1
    <3> QED  BY <3>2, <3>3
  <2> QED  BY <1>1, <2>1, <2>2
<1> QED  BY <1>4, <1>6 DEF MovesOver

(* Pop, PopAll and Skip: size elements in two pieces, of which the call may *)
(* take the first only.                                                     *)
LEMMA PiecesMove ==
  ASSUME IInv, NEW size \in 1..Available, NEW taken \in {size, ToEnd(size)},
         tail' = TailAfter(ToEnd(size)) + (taken - ToEnd(size)),
         head' = head, data' = data, ~full'
  PROVE  /\ taken \in 0..Available
         /\ MovesOver(taken)
         /\ Copied(taken, ToEnd(size), TailAfter(ToEnd(size))) = Queue!Oldest(taken)
<1> DEFINE n == ToEnd(size)
           t == TailAfter(n)
<1>1. /\ head \in 0..Capacity /\ tail \in 0..Capacity /\ Capacity \in Nat \ {0}
      /\ Available \in 0..Capacity /\ full \in BOOLEAN
  BY Numbers
<1>2. /\ n \in 0..size /\ tail + n <= Capacity /\ t \in 0..Capacity
      /\ size > n => t + (size - n) <= head
      /\ ~(tail > head \/ full) => n = 0 /\ t = tail
  BY Pieces
<1>3. tail > head \/ full =>
        /\ t = tail + n \/ t = tail + n - Capacity
        /\ n < size => tail + n = Capacity /\ t = 0
        /\ n = 0 => tail = Capacity /\ t = 0
  BY <1>1 DEF ToEnd, TailAfter, PastEnd, Lesser
<1>4. taken \in {size, n} /\ tail' = t + (taken - n)
  OBVIOUS
<1> HIDE DEF n, t
<1>5. size \in Nat /\ size >= 1 /\ size <= Available /\ n \in Nat /\ t \in Nat
  BY <1>1, <1>2
<1>6. taken \in 0..Available /\ taken \in Nat /\ n \in 0..taken
  BY <1>1, <1>2, <1>4, <1>5
<1>7. MovesOver(taken)
  <2>1. tail' \in 0..Capacity
    BY <1>1, <1>2, <1>4, <1>5
  <2>2. tail' = tail + taken \/ (tail' = tail + taken - Capacity /\ (full \/ head < tail))
    <3>1. CASE tail > head \/ full
      BY <1>1, <1>2, <1>3, <1>4, <1>5, <3>1
    <3>2. CASE ~(tail > head \/ full)
      BY <1>1, <1>2, <1>4, <1>5, <3>2
    <3> QED  BY <3>1, <3>2
  <2>3. taken = 0 /\ full => tail' # tail
    BY <1>1, <1>3, <1>4, <1>5, <1>6
  <2> QED  BY <1>6, <2>1, <2>2, <2>3, TakeCounts
<1>8. Copied(taken, n, t) = Queue!Oldest(taken)
  <2>1. n < taken => t + (taken - n) <= Capacity /\ (t = tail + n \/ t = tail + n - Capacity)
    BY <1>1, <1>2, <1>3, <1>4, <1>5
  <2> QED  BY <1>2, <1>5, <1>6, <2>1, CopiedIsOldest
<1> QED  BY <1>6, <1>7, <1>8 DEF n, t

LEMMA PopStep ==
  ASSUME IInv, NEW size \in 1..Capacity, Pop(size)
  PROVE  Queue!Next
<1>1. /\ size <= Available /\ got' = Copied(size, ToEnd(size), TailAfter(ToEnd(size)))
      /\ tail' = TailAfter(ToEnd(size)) + (size - ToEnd(size))
      /\ ~full' /\ loan' = 0 /\ head' = head /\ data' = data
  BY DEF Pop
<1>2. size \in 1..Available /\ size \in {size, ToEnd(size)}
  BY <1>1, Numbers
<1>3. /\ size \in 0..Available /\ MovesOver(size)
      /\ Copied(size, ToEnd(size), TailAfter(ToEnd(size))) = Queue!Oldest(size)
  BY <1>1, <1>2, PiecesMove
<1> QED  BY <1>1, <1>3, TakeStep

LEMMA PopAllStep ==
  ASSUME IInv, NEW size \in 1..Capacity, NEW accepted \in 0..2, PopAll(size, accepted)
  PROVE  Queue!Next
<1> DEFINE n == ToEnd(size)
           pieces == (IF tail > head \/ full THEN 1 ELSE 0) + (IF size > n THEN 1 ELSE 0)
           taken == IF accepted = pieces THEN size ELSE n
<1>1. /\ size <= Available /\ got' = Copied(taken, n, TailAfter(n))
      /\ tail' = TailAfter(n) + (taken - n)
      /\ ~full' /\ loan' = 0 /\ head' = head /\ data' = data
  BY DEF PopAll
<1>2. size \in 1..Available /\ taken \in {size, n}
  BY <1>1, Numbers
<1> HIDE DEF taken
<1>3. /\ taken \in 0..Available /\ MovesOver(taken)
      /\ Copied(taken, n, TailAfter(n)) = Queue!Oldest(taken)
  BY <1>1, <1>2, PiecesMove
<1> QED  BY <1>1, <1>3, TakeStep

LEMMA SkipStep ==
  ASSUME IInv, NEW size \in 1..Capacity, Skip(size)
  PROVE  Queue!Next
<1>1. /\ size <= Available
      /\ tail' = TailAfter(ToEnd(size)) + (size - ToEnd(size))
      /\ ~full' /\ loan' = 0 /\ head' = head /\ data' = data /\ got' = got
  BY DEF Skip
<1>2. size \in 1..Available /\ size \in {size, ToEnd(size)}
  BY <1>1, Numbers
<1>3. size \in 0..Available /\ MovesOver(size)
  BY <1>1, <1>2, PiecesMove
<1> QED  BY <1>1, <1>3, DropStep

LEMMA WriteStep ==
  ASSUME IInv, NEW n \in 1..Capacity, Write(n)
  PROVE  Queue!Next
<1>1. /\ n <= WriteLen /\ got' = Copied(n, n, 0) /\ tail' = Wrapped(tail + n) /\ Available > 0
      /\ ~full' /\ loan' = 0 /\ head' = head /\ data' = data /\ MayCall("Write")
  BY DEF Write
<1>2. /\ head \in 0 .. Capacity - 1 /\ tail \in 0 .. Capacity - 1 /\ Capacity \in Nat \ {0}
      /\ Available \in 0..Capacity /\ full \in BOOLEAN /\ (full => head = tail) /\ n \in Nat
  BY <1>1, CallsDisjoint, Numbers DEF IInv
<1>3. n <= (IF head > tail THEN head - tail ELSE Capacity - tail)
  BY <1>1 DEF WriteLen
<1>4. n \in 0..Available
  BY <1>1, <1>2, <1>3, AvailableIs
<1>5. tail' \in 0..Capacity /\ (tail' = tail + n \/ (tail' = tail + n - Capacity /\ (full \/ head < tail)))
  <2>1. CASE head > tail
    <3>1. tail' = tail + n
      BY <1>1, <1>2, <1>3, <2>1 DEF Wrapped
    <3> QED  BY <1>2, <1>3, <2>1, <3>1
  <2>2. CASE ~(head > tail)
    <3>1. full \/ head < tail
      BY <1>1, <1>2, <2>2, AvailableIs
    <3> QED  BY <1>1, <1>2, <1>3, <2>2, <3>1 DEF Wrapped
  <2> QED  BY <2>1, <2>2
<1>6. MovesOver(n)
  BY <1>1, <1>2, <1>4, <1>5, TakeCounts
<1>7. Copied(n, n, 0) = Queue!Oldest(n)
  <2>1. n \in 0..n /\ 0 \in Nat /\ tail + n <= Capacity /\ ~(n < n)
    BY <1>2, <1>3
  <2> QED  BY <1>4, <2>1, CopiedIsOldest
<1> QED  BY <1>1, <1>4, <1>6, <1>7, TakeStep

LEMMA WritevStep ==
  ASSUME IInv, NEW n \in 1..Capacity, Writev(n)
  PROVE  Queue!Next
<1> DEFINE x == IF head > tail THEN n ELSE Lesser(n, Capacity - tail)
<1>1. /\ n <= Available
      /\ got' = Copied(n, x, 0)
      /\ tail' = IF tail + n < Capacity THEN tail + n ELSE tail + n - Capacity
      /\ x \in 0..n /\ tail + x <= Capacity /\ n - x <= Capacity
      /\ x < n => tail + x = Capacity
      /\ head' = head /\ data' = data /\ ~full' /\ loan' = 0
      /\ head < Capacity
  BY WritevMoves
<1> HIDE DEF x
<1>2. /\ head \in 0..Capacity /\ tail \in 0..Capacity /\ Capacity \in Nat \ {0}
      /\ Available \in 0..Capacity /\ full \in BOOLEAN /\ (full => head = tail) /\ n \in Nat
  BY Numbers
<1>3. n \in 0..Available
  BY <1>1, <1>2
<1>4. tail' \in 0..Capacity /\ (tail' = tail + n \/ (tail' = tail + n - Capacity /\ (full \/ head < tail)))
  BY <1>1, <1>2, AvailableIs
<1>5. MovesOver(n)
  BY <1>1, <1>2, <1>3, <1>4, TakeCounts
<1>6. Copied(n, x, 0) = Queue!Oldest(n)
  <2>1. x < n => 0 + (n - x) <= Capacity /\ (0 = tail + x \/ 0 = tail + x - Capacity)
    BY <1>1, <1>2
  <2>2. 0 \in Nat
    OBVIOUS
  <2> QED  BY <1>1, <1>3, <2>1, <2>2, CopiedIsOldest
<1> QED  BY <1>1, <1>3, <1>5, <1>6, TakeStep

LEMMA DirectStep ==
  ASSUME IInv, Direct
  PROVE  Queue!Next \/ DirectMisreports
<1> SUFFICES ASSUME ~(head < tail)
             PROVE  Queue!Next
  BY DEF DirectMisreports
<1> DEFINE n == DirectTaken
<1>1. /\ loan' = DirectLen /\ tail' = (IF head > tail THEN head ELSE 0) /\ ~IsEmpty
      /\ ~full' /\ head' = head /\ data' = data /\ got' = got
  BY DEF Direct
<1>2. /\ head \in 0..Capacity /\ tail \in 0..Capacity /\ Capacity \in Nat \ {0}
      /\ Available \in 0..Capacity /\ full \in BOOLEAN /\ (full => head = tail)
  BY Numbers
<1>3. /\ full => Available = Capacity
      /\ ~full /\ head >= tail => Available = head - tail
      /\ ~full /\ head < tail => Available = Capacity - (tail - head)
      /\ ~full => head # tail
  BY <1>1, AvailableIs DEF IsEmpty
<1>4. n = IF head > tail THEN head - tail ELSE Capacity - tail
  BY DEF DirectTaken
<1>5. DirectLen = IF head > tail THEN head - tail ELSE IF full THEN Capacity - tail ELSE head - tail
  BY DEF DirectLen
<1> HIDE DEF n
<1>6. n \in 0..Available
  BY <1>2, <1>3, <1>4
<1>7. MovesOver(n)
  <2>1. /\ tail' \in 0..Capacity
        /\ tail' = tail + n \/ (tail' = tail + n - Capacity /\ (full \/ head < tail))
    BY <1>1, <1>2, <1>3, <1>4
  <2>2. n = 0 /\ full => tail' # tail
    BY <1>1, <1>2, <1>4
  <2> QED  BY <1>1, <1>6, <2>1, <2>2, TakeCounts
<1>8. loan' = n /\ n \in Nat
  BY <1>1, <1>2, <1>3, <1>4, <1>5
<1>9. CASE n = 0   \* a full ring with both indices at Capacity
  BY <1>1, <1>6, <1>7, <1>8, <1>9, DropStep
<1>10. CASE n > 0
  <2>1. Lent' = [i \in 1..n |-> data[Slot(tail' - n + i - 1)]]
    BY <1>1, <1>8, <1>10 DEF Lent
  <2>2. ASSUME NEW i \in 1..n
        PROVE  Slot(tail' - n + i - 1) = Slot(tail + i - 1)
    <3>1. CASE head > tail
      <4>1. tail' - n = tail
        BY <1>1, <1>2, <1>4, <3>1
      <4> QED  BY <4>1
    <3>2. CASE ~(head > tail)
      <4>1. /\ tail' - n + i - 1 = (tail + i - 1) - Capacity
            /\ tail + i - 1 \in 0 .. Capacity - 1
        BY <1>1, <1>2, <1>4, <1>8, <3>2
      <4>2. Slot((tail + i - 1) - Capacity) = tail + i - 1 /\ Slot(tail + i - 1) = tail + i - 1
        BY <1>2, <4>1 DEF Slot
      <4> QED  BY <4>1, <4>2
    <3> QED  BY <3>1, <3>2
  <2>3. Lent' = Ring(data, tail, n)
    BY <2>1, <2>2 DEF Ring
  <2>4. Lent' = Queue!Oldest(n)
    BY <1>6, <2>3, OldestIs
  <2>5. Contents' = Queue!Rest(n) /\ n \in 0..Len(Contents)
    BY <1>6, <1>7, RestIs, ContentsParts
  <2>6. (loan # 0)' = TRUE
    BY <1>8, <1>10
  <2>7. Queue!Lend(n)
    BY <1>1, <1>10, <2>4, <2>5, <2>6 DEF Queue!Lend
  <2> QED  BY <2>5, <2>7 DEF Queue!Next
<1> QED  BY <1>8, <1>9, <1>10

(* tail moves back over count elements it lent. *)
LEMMA SlotBack ==
  ASSUME NEW t \in 0..Capacity, NEW u \in 0..Capacity, NEW n \in 1..Capacity, NEW i \in 1..Capacity,
         u = IF n <= t THEN t - n ELSE Capacity - (n - t)
  PROVE  Slot(u + i - 1) = Slot(t - n + i - 1)
BY CapacityAssumption DEF Slot

LEMMA BackupCounts ==
  ASSUME IInv, NEW count \in 1..Capacity, Backup(count)
  PROVE  Available' = Available + count
<1>1. /\ head \in 0..Capacity /\ tail \in 0..Capacity /\ Capacity \in Nat \ {0}
      /\ Available \in 0..Capacity
  BY Numbers
<1>2. /\ ~full /\ count <= Free
      /\ tail' = IF count <= tail THEN tail - count ELSE Capacity - (count - tail)
      /\ full' => head = tail'
      /\ full' \/ tail' # head
      /\ tail' \in 0 .. Capacity - 1
      /\ head' = head
  BY BackupMoves
<1>3. head' \in 0..Capacity /\ tail' \in 0..Capacity
  BY <1>1, <1>2
<1>4. /\ full' => Available' = Capacity
      /\ ~full' /\ head' >= tail' => Available' = head' - tail'
      /\ ~full' /\ head' < tail' => Available' = Capacity - (tail' - head')
  BY <1>3, AvailableAfter
<1>5. count <= Capacity - Available
  BY <1>2 DEF Free
<1>6. CASE head >= tail
  <2>1. Available = head - tail
    BY <1>2, <1>6, AvailableIs
  <2>2. CASE count <= tail
    <3>1. head' >= tail' /\ ~full' /\ tail' = tail - count
      BY <1>1, <1>2, <1>6, <2>2
    <3> QED  BY <1>1, <1>2, <1>4, <2>1, <3>1
  <2>3. CASE ~(count <= tail)
    <3>1. tail' = Capacity - (count - tail) /\ head <= tail'
      BY <1>1, <1>2, <1>5, <2>1, <2>3
    <3>2. CASE full'
      BY <1>1, <1>2, <1>4, <2>1, <3>1, <3>2
    <3>3. CASE ~full'
      <4>1. head' < tail'
        BY <1>1, <1>2, <3>1, <3>3
      <4> QED  BY <1>1, <1>2, <1>4, <2>1, <3>1, <3>3, <4>1
    <3> QED  BY <3>2, <3>3
  <2> QED  BY <2>2, <2>3
<1>7. CASE head < tail
  <2>1. Available = Capacity - (tail - head)
    BY <1>2, <1>7, AvailableIs
  <2>2. tail' = tail - count /\ head <= tail'
    BY <1>1, <1>2, <1>5, <1>7, <2>1
  <2>3. CASE full'
    BY <1>1, <1>2, <1>4, <2>1, <2>2, <2>3
  <2>4. CASE ~full'
    <3>1. head' < tail'
      BY <1>1, <1>2, <2>2, <2>4
    <3> QED  BY <1>1, <1>2, <1>4, <2>1, <2>2, <2>4, <3>1
  <2> QED  BY <2>3, <2>4
<1> QED  BY <1>1, <1>6, <1>7

LEMMA BackupStep ==
  ASSUME IInv, NEW count \in 1..Capacity, Backup(count)
  PROVE  Queue!Next
<1>1. /\ count <= loan /\ loan' = 0 /\ head' = head /\ data' = data /\ got' = got
      /\ tail' = IF count <= tail THEN tail - count ELSE Capacity - (count - tail)
      /\ tail' \in 0 .. Capacity - 1
  BY BackupMoves
<1>2. /\ head \in 0..Capacity /\ tail \in 0..Capacity /\ Capacity \in Nat \ {0}
      /\ Available \in 0..Capacity /\ loan \in Int /\ loan > 0 /\ count \in Nat
      /\ (loan > 0 => loan <= Capacity - Available)
  BY <1>1, Numbers
<1>3. PICK a \in 0..Capacity : a = Available
  BY <1>2
<1>4. PICK l \in 1..Capacity : l = loan /\ l <= Capacity - a
  BY <1>2, <1>3
<1>5. a + count \in 1..Capacity /\ count \in 1..l
  BY <1>1, <1>2, <1>4
<1>6. Available' = a + count
  BY <1>3, BackupCounts
<1>7. /\ Lent \in Seq(Byte) /\ Len(Lent) = l
      /\ \A i \in 1..l : Lent[i] = data[Slot(tail - l + i - 1)]
  BY <1>2, <1>4, LentParts
<1>8. /\ Contents \in Seq(Byte) /\ Len(Contents) = a
      /\ \A i \in 1..a : Contents[i] = data[Slot(tail + i - 1)]
  BY <1>3, ContentsParts
<1>9. Contents' = [i \in 1 .. a + count |-> data[Slot(tail' + i - 1)]]
  BY <1>1, <1>6 DEF Contents
<1>10. \A i \in 1 .. a + count : Slot(tail' + i - 1) = Slot(tail - count + i - 1)
  <2> SUFFICES ASSUME NEW i \in 1 .. a + count
               PROVE  Slot(tail' + i - 1) = Slot(tail - count + i - 1)
    OBVIOUS
  <2>1. i \in 1..Capacity /\ tail' \in 0..Capacity /\ tail \in 0..Capacity
    BY <1>1, <1>2, <1>5
  <2>2. tail' = IF count <= tail THEN tail - count ELSE Capacity - (count - tail)
    BY <1>1
  <2>3. PICK u \in 0..Capacity : u = tail'
    BY <2>1
  <2>4. Slot(u + i - 1) = Slot(tail - count + i - 1)
    BY <2>1, <2>2, <2>3, SlotBack
  <2> QED  BY <2>3, <2>4
<1> DEFINE r == SubSeq(Lent, l - count + 1, l)
           c == r \o Contents
<1>11. /\ r \in Seq(Byte) /\ Len(r) = count
       /\ \A i \in 1..count : r[i] = Lent[l - count + i]
  <2>1. l - count + 1 \in Int /\ l \in Int /\ l - count + 1 <= l /\ l - (l - count + 1) + 1 = count
    BY <1>2, <1>5
  <2>2. \A i \in l - count + 1 .. l : i \in 1 .. Len(Lent)
    BY <1>5, <1>7
  <2>3. \A i \in l - count + 1 .. l : Lent[i] \in Byte
    BY <1>7, <2>2, ElementOfSeq
  <2>4. /\ r \in Seq(Byte)
        /\ Len(r) = IF l - count + 1 <= l THEN l - (l - count + 1) + 1 ELSE 0
        /\ \A i \in 1 .. l - (l - count + 1) + 1 : r[i] = Lent[l - count + 1 + i - 1]
    BY <2>1, <2>3, SubSeqProperties
  <2>5. \A i \in 1..count : l - count + 1 + i - 1 = l - count + i
    BY <1>5
  <2> QED  BY <2>1, <2>4, <2>5
<1> HIDE DEF r
<1>12. /\ c \in Seq(Byte) /\ Len(c) = a + count
       /\ \A i \in 1 .. a + count : c[i] = IF i <= count THEN r[i] ELSE Contents[i - count]
  <2>1. /\ c \in Seq(Byte) /\ Len(c) = Len(r) + Len(Contents)
        /\ \A i \in 1 .. Len(r) + Len(Contents) :
             c[i] = IF i <= Len(r) THEN r[i] ELSE Contents[i - Len(r)]
    BY <1>8, <1>11, ConcatProperties
  <2>2. Len(r) = count /\ Len(r) + Len(Contents) = a + count
    BY <1>2, <1>8, <1>11
  <2> HIDE DEF c
  <2> QED  BY <2>1, <2>2
<1>13. c \in [1 .. a + count -> Byte]
  BY <1>12, LenProperties
<1> HIDE DEF c
<1>14. ASSUME NEW i \in 1 .. a + count
       PROVE  data[Slot(tail' + i - 1)] = c[i]
  <2>1. Slot(tail' + i - 1) = Slot(tail - count + i - 1)
    BY <1>10
  <2>2. CASE i <= count
    <3>1. i \in 1..count /\ l - count + i \in 1..l /\ tail - l + (l - count + i) - 1 = tail - count + i - 1
      BY <1>2, <1>5, <2>2
    <3>2. Lent[l - count + i] = data[Slot(tail - count + i - 1)]
      BY <1>7, <3>1
    <3> QED  BY <1>11, <1>12, <2>1, <2>2, <3>1, <3>2
  <2>3. CASE ~(i <= count)
    <3>1. i - count \in 1..a /\ tail + (i - count) - 1 = tail - count + i - 1
      BY <1>2, <1>5, <2>3
    <3>2. Contents[i - count] = data[Slot(tail - count + i - 1)]
      BY <1>8, <3>1
    <3> QED  BY <1>12, <2>1, <2>3, <3>2
  <2> QED  BY <2>2, <2>3
<1>15. Contents' = c
  BY <1>9, <1>13, <1>14
<1>16. Queue!NothingLent' /\ count \in 1..Len(Lent)
  BY <1>1, <1>5, <1>7, NoneLent
<1>17. Queue!GiveBack(count)
  BY <1>1, <1>7, <1>15, <1>16 DEF Queue!GiveBack, c, r
<1> QED  BY <1>16, <1>17 DEF Queue!Next

(* A ring that is only peeked and never popped from keeps its oldest        *)
(* element in slot 0: where the second piece of a peek reads from.          *)
PeeksFromStart == MayCall("PopPeak") => tail = 0

LEMMA PeekersOnlyPush ==
  ASSUME TypeOK, "popPeeker" \notin Uses, MayCall("PopPeak")
  PROVE  /\ ~MayCall("PushDirect") /\ ~MayCall("BackupDirect") /\ ~MayCall("Read")
         /\ ~MayCall("Readv") /\ ~MayCall("Pop") /\ ~MayCall("PopAll") /\ ~MayCall("Skip")
         /\ ~MayCall("Direct") /\ ~MayCall("Backup") /\ ~MayCall("Write") /\ ~MayCall("Writev")
BY UsesAssumption DEF TypeOK, MayCall, Calls

LEMMA PeeksFromStartKept ==
  ASSUME IInv, PeeksFromStart, "popPeeker" \notin Uses, [Next]_vars
  PROVE  PeeksFromStart'
<1> SUFFICES ASSUME MayCall("PopPeak")'
             PROVE  tail' = 0
  BY DEF PeeksFromStart
<1>1. use' = use
  BY DEF vars, Next, Fills, Drains, PushOne, Push, Read, Readv, PushDirect, BackupDirect, Pop,
         PopPeak, Skip, Backup, Write, Writev, PopAll, Direct
<1>2. MayCall("PopPeak") /\ tail = 0
  BY <1>1 DEF MayCall, PeeksFromStart
<1>3. /\ ~MayCall("PushDirect") /\ ~MayCall("BackupDirect") /\ ~MayCall("Read")
      /\ ~MayCall("Readv") /\ ~MayCall("Pop") /\ ~MayCall("PopAll") /\ ~MayCall("Skip")
      /\ ~MayCall("Direct") /\ ~MayCall("Backup") /\ ~MayCall("Write") /\ ~MayCall("Writev")
  BY <1>2, PeekersOnlyPush DEF IInv
<1>4. tail' = tail
  BY <1>3 DEF vars, Next, Fills, Drains, PushOne, Push, Read, Readv, PushDirect, BackupDirect,
              Pop, PopPeak, Skip, Backup, Write, Writev, PopAll, Direct
<1> QED  BY <1>2, <1>4

LEMMA PopPeakStep ==
  ASSUME IInv, PeeksFromStart, NEW size \in 1..Capacity, PopPeak(size)
  PROVE  Queue!Next
<1>1. /\ size <= Available /\ got' = Copied(size, ToEnd(size), 0) /\ loan' = 0
      /\ UNCHANGED <<head, tail, full, data>> /\ MayCall("PopPeak")
  BY DEF PopPeak
<1>2. tail = 0 /\ size \in 1..Available /\ size \in Nat /\ size <= Capacity /\ Capacity \in Nat
      /\ size \in 0..Available /\ head \in 0..Capacity
  BY <1>1, Numbers DEF PeeksFromStart
<1>3. ToEnd(size) \in {0, size}
  BY <1>2 DEF ToEnd, Lesser
<1>4. PICK n \in {0, size} : n = ToEnd(size)
  BY <1>3
<1>5. /\ n \in 0..size /\ tail + n <= Capacity /\ 0 \in Nat
      /\ n < size => 0 + (size - n) <= Capacity /\ (0 = tail + n \/ 0 = tail + n - Capacity)
  BY <1>2
<1>6. Copied(size, n, 0) = Queue!Oldest(size)
  BY <1>2, <1>5, CopiedIsOldest
<1> QED  BY <1>1, <1>2, <1>4, <1>6, PeekStep

LEMMA QueueInit == Init => Queue!Init
<1> SUFFICES ASSUME Init
             PROVE  Queue!Init
  OBVIOUS
<1>1. /\ head = 0 /\ tail = 0 /\ ~full /\ got = <<>> /\ loan = 0
  BY DEF Init
<1>2. Available = 0
  BY <1>1 DEF Available
<1>3. Contents = <<>>
  BY <1>2 DEF Contents
<1>4. Queue!NothingLent
  BY <1>1, NoneLent
<1> QED  BY <1>1, <1>3, <1>4 DEF Queue!Init

LEMMA QueueStep ==
  ASSUME IInv, PeeksFromStart, [Next]_vars
  PROVE  [Queue!Next \/ DirectMisreports]_(Queue!vars)
<1>1. CASE Fills
  <2>1. Queue!Next
    BY <1>1, PushOneStep, PushStep, ReadStep, ReadvStep, PushDirectStep, BackupDirectStep DEF Fills
  <2> QED  BY <2>1
<1>2. CASE Drains
  <2>1. Queue!Next \/ DirectMisreports
    BY <1>2, PopStep, PopPeakStep, SkipStep, BackupStep, WriteStep, WritevStep, PopAllStep,
       DirectStep DEF Drains
  <2> QED  BY <2>1
<1>3. CASE UNCHANGED vars
  <2>1. Contents' = Contents /\ Lent' = Lent /\ got' = got /\ (loan # 0)' = (loan # 0)
    BY <1>3 DEF vars, Contents, Lent, Available, Slot
  <2> QED  BY <2>1 DEF Queue!vars
<1> QED  BY <1>1, <1>2, <1>3 DEF Next

(* Every ring is the bounded FIFO queue of ByteQueue, whoever owns it and   *)
(* whatever its capacity: pushes in one, two or lent pieces put elements    *)
(* behind the others, every reading call delivers or lends the oldest in    *)
(* order, and what BackupDirect and Backup undo is the newest put and the   *)
(* newest lent. The one call excepted is Direct on a ring whose head is     *)
(* below its tail, which reports less than nothing and drops elements (a    *)
(* finding about buf.hpp's Direct). The one owner excluded, which mixes Pop with its peak flag  *)
(* and Pop, is the one of the finding about buf.hpp's Pop.                  *)
THEOREM Implements == ASSUME "popPeeker" \notin Uses PROVE Spec => IsQueue
<1>1. Init => PeeksFromStart
  BY DEF Init, PeeksFromStart
<1>2. IInv /\ PeeksFromStart /\ [Next]_vars => PeeksFromStart'
  BY PeeksFromStartKept
<1>3. IInv /\ PeeksFromStart /\ [Next]_vars => [Queue!Next \/ DirectMisreports]_(Queue!vars)
  BY QueueStep
<1>4. Spec => [](IInv /\ PeeksFromStart)
  BY <1>1, <1>2, IInvInitial, IInvKept, PTL DEF Spec
<1> QED  BY <1>3, <1>4, QueueInit, PTL DEF Spec, IsQueue

-----------------------------------------------------------------------------
(* The queries. *)

LEMMA PeeksInPlace ==
  ASSUME IInv, NEW i \in 0 .. Available - 1
  PROVE  data[PeakSlot(i)] = Contents[i + 1]
<1>1. /\ head \in 0..Capacity /\ tail \in 0..Capacity /\ Capacity \in Nat \ {0}
      /\ Available \in 0..Capacity /\ full \in BOOLEAN /\ (full => head = tail)
  BY Numbers
<1>2. PICK a \in 0..Capacity : a = Available
  BY <1>1
<1>3. i \in Nat /\ i < a /\ i + 1 \in 1..a
  BY <1>1, <1>2
<1>4. head > tail => i < Capacity - tail
  BY <1>1, <1>2, <1>3, AvailableIs
<1>5. PeakSlot(i) = Slot(tail + (i + 1) - 1)
  <2>1. tail + (i + 1) - 1 = tail + i
    BY <1>1, <1>3
  <2>2. CASE i < Capacity - tail
    <3>1. PeakSlot(i) = tail + i
      BY <2>2 DEF PeakSlot
    <3>2. Slot(tail + i) = tail + i
      BY <1>1, <1>3, <2>2 DEF Slot
    <3> QED  BY <2>1, <3>1, <3>2
  <2>3. CASE ~(i < Capacity - tail)
    <3>1. PeakSlot(i) = i - (Capacity - tail)
      BY <1>4, <2>3 DEF PeakSlot
    <3>2. Slot(tail + i) = i - (Capacity - tail)
      BY <1>1, <1>3, <2>3 DEF Slot
    <3> QED  BY <2>1, <3>1, <3>2
  <2> QED  BY <2>2, <2>3
<1>6. Contents[i + 1] = data[Slot(tail + (i + 1) - 1)]
  BY <1>2, <1>3, ContentsParts
<1> QED  BY <1>5, <1>6

LEMMA FindsInOrder ==
  ASSUME IInv
  PROVE  /\ Len(FindSlots) = Available
         /\ DOMAIN FindSlots = 1..Available
         /\ \A i \in 1..Available : data[FindSlots[i]] = Contents[i]
<1>1. /\ head \in 0..Capacity /\ tail \in 0..Capacity /\ Capacity \in Nat \ {0}
      /\ Available \in 0..Capacity /\ full \in BOOLEAN /\ (full => head = tail)
      /\ (IsEmpty <=> Available = 0)
  BY Numbers, AvailableBounds
<1>2. PICK a \in 0..Capacity : a = Available
  BY <1>1
<1>3. FindSlots = [i \in 1..a |-> Slot(tail + i - 1)]
  <2>1. CASE IsEmpty
    BY <1>1, <1>2, <2>1 DEF FindSlots
  <2>2. CASE ~IsEmpty /\ head > tail
    <3>1. a = head - tail
      BY <1>1, <1>2, <2>2, AvailableIs
    <3>2. \A i \in 1..a : Slot(tail + i - 1) = tail + i - 1
      BY <1>1, <3>1 DEF Slot
    <3>3. FindSlots = [i \in 1..a |-> tail + i - 1]
      BY <2>2, <3>1 DEF FindSlots
    <3> QED  BY <3>2, <3>3
  <2>3. CASE ~IsEmpty /\ ~(head > tail)
    <3>1. a = (Capacity - tail) + head
      BY <1>1, <1>2, <2>3, AvailableIs DEF IsEmpty
    <3>2. \A i \in 1..a :
            Slot(tail + i - 1) = IF i <= Capacity - tail THEN tail + i - 1
                                 ELSE i - (Capacity - tail) - 1
      BY <1>1, <3>1 DEF Slot
    <3>3. FindSlots = [i \in 1..a |-> IF i <= Capacity - tail THEN tail + i - 1
                                      ELSE i - (Capacity - tail) - 1]
      BY <2>3, <3>1 DEF FindSlots
    <3> QED  BY <3>2, <3>3
  <2> QED  BY <2>1, <2>2, <2>3
<1>4. DOMAIN FindSlots = 1..a /\ \A i \in 1..a : FindSlots[i] = Slot(tail + i - 1)
  BY <1>3
<1>5. Len(FindSlots) = a
  <2>1. FindSlots \in [1..a -> {FindSlots[i] : i \in 1..a}]
    BY <1>3
  <2>2. FindSlots \in Seq({FindSlots[i] : i \in 1..a})
    BY <1>1, <2>1, SeqDef
  <2> QED  BY <1>1, <1>4, <2>2, LenProperties
<1> QED  BY <1>2, <1>4, <1>5, ContentsParts

(* Find, told by what the queue holds. *)
LEMMA FindsFirst ==
  ASSUME IInv, NEW d
  PROVE  Find(d) = {i - 1 : i \in {j \in 1..Available :
                      Contents[j] = d /\ \A k \in 1 .. j - 1 : Contents[k] # d}}
<1>1. DOMAIN FindSlots = 1..Available
  BY FindsInOrder
<1>2. \A j \in 1..Available : data[FindSlots[j]] = Contents[j]
  BY FindsInOrder
<1>3. \A j \in 1..Available : \A k \in 1 .. j - 1 : k \in 1..Available
  BY Numbers
<1>4. ASSUME NEW j \in 1..Available
      PROVE  (data[FindSlots[j]] = d /\ \A k \in 1 .. j - 1 : data[FindSlots[k]] # d)
             <=> (Contents[j] = d /\ \A k \in 1 .. j - 1 : Contents[k] # d)
  <2>1. \A k \in 1 .. j - 1 : data[FindSlots[k]] = Contents[k]
    BY <1>2, <1>3
  <2> QED  BY <1>2, <2>1
<1>5. {j \in DOMAIN FindSlots :
         data[FindSlots[j]] = d /\ \A k \in 1 .. j - 1 : data[FindSlots[k]] # d}
      = {j \in 1..Available : Contents[j] = d /\ \A k \in 1 .. j - 1 : Contents[k] # d}
  BY <1>1, <1>4
<1> QED  BY <1>5 DEF Find

(* What Readv offers the kernel. *)
LEMMA OffersTheFree ==
  ASSUME IInv, ~full
  PROVE  /\ IovLen(ReadvIov) = Free
         /\ \A i \in 1..Available : \A k \in DOMAIN ReadvIov :
              Slot(tail + i - 1) \notin ReadvIov[k][1] .. ReadvIov[k][1] + ReadvIov[k][2] - 1
<1>1. /\ head \in 0..Capacity /\ tail \in 0..Capacity /\ Capacity \in Nat \ {0}
      /\ Available \in 0..Capacity
  BY Numbers
<1>2. PICK a \in 0..Capacity : a = Available
  BY <1>1
<1>3. CASE tail > head
  <2>1. ReadvIov = << <<head, tail - head>> >> /\ a = Capacity - (tail - head)
    BY <1>2, <1>3, AvailableIs DEF ReadvIov
  <2>2. /\ DOMAIN ReadvIov = {1} /\ Len(ReadvIov) = 1
        /\ ReadvIov[1][1] = head /\ ReadvIov[1][2] = tail - head
    BY <2>1
  <2>3. IovLen(ReadvIov) = Free
    BY <1>1, <1>2, <2>1, <2>2 DEF IovLen, Free
  <2>4. ASSUME NEW i \in 1..a
        PROVE  Slot(tail + i - 1) \notin head .. head + (tail - head) - 1
    BY <1>1, <1>3, <2>1 DEF Slot
  <2> QED  BY <1>2, <2>2, <2>3, <2>4
<1>4. CASE ~(tail > head) /\ head = 0 /\ tail = 0
  <2>1. ReadvIov = << <<head, Capacity>> >> /\ a = 0
    BY <1>2, <1>4, AvailableIs DEF ReadvIov
  <2>2. IovLen(ReadvIov) = Capacity
    BY <1>1, <2>1 DEF IovLen
  <2> QED  BY <1>1, <1>2, <2>1, <2>2 DEF Free
<1>5. CASE ~(tail > head) /\ ~(head = 0 /\ tail = 0)
  <2>1. ReadvIov = << <<head, Capacity - head>>, <<0, tail>> >> /\ a = head - tail
    BY <1>1, <1>2, <1>5, AvailableIs DEF ReadvIov
  <2>2. /\ DOMAIN ReadvIov = {1, 2} /\ Len(ReadvIov) = 2
        /\ ReadvIov[1][1] = head /\ ReadvIov[1][2] = Capacity - head
        /\ ReadvIov[2][1] = 0 /\ ReadvIov[2][2] = tail
    BY <2>1
  <2>3. IovLen(ReadvIov) = Free
    BY <1>1, <1>2, <2>1, <2>2 DEF IovLen, Free
  <2>4. ASSUME NEW i \in 1..a
        PROVE  /\ Slot(tail + i - 1) \notin head .. head + (Capacity - head) - 1
               /\ Slot(tail + i - 1) \notin 0 .. 0 + tail - 1
    BY <1>1, <1>5, <2>1 DEF Slot
  <2> QED  BY <1>2, <2>2, <2>3, <2>4
<1> QED  BY <1>3, <1>4, <1>5

(* Peak, Find and the vector of Readv agree with the queue in every         *)
(* reachable state of every ring (buf.hpp:82-140, 448-504).                 *)
THEOREM QueriesAreSound == Spec => []QueriesAgree
<1>1. IInv => QueriesAgree
  BY PeeksInPlace, FindsInOrder, FindsFirst, OffersTheFree DEF QueriesAgree
<1> QED  BY <1>1, IInvInvariant, PTL

=============================================================================
