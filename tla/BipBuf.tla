------------------------------- MODULE BipBuf -------------------------------
(***************************************************************************)
(* coypu::buf::BipBuf (include/echidna/buf.hpp): a ring of Capacity slots  *)
(* with a write index head, a read index tail and a flag full that tells a *)
(* full ring from an empty one when the indices meet. Either index may     *)
(* stand at Capacity itself, one past the last slot: some operations wrap  *)
(* an index that reaches it and some do not.                               *)
(*                                                                         *)
(* Every connection owns two such rings and uses each in its own way. The  *)
(* variable use, chosen once, names the owner; Calls gives the operations  *)
(* that owner performs. A call that returns false, or -2, changes nothing: *)
(* it is a step that is not enabled.                                       *)
(***************************************************************************)
EXTENDS Integers, Sequences

CONSTANTS
  Capacity,  \* _capacity
  Values,    \* what a slot holds
  Uses,      \* the owners considered
  NoByte     \* a slot nothing was written to

ASSUME CapacityAssumption == Capacity \in Nat \ {0}
ASSUME NoByteAssumption == NoByte \notin Values

VARIABLES
  head,  \* _head
  tail,  \* _tail
  full,  \* _full
  data,  \* _data
  got,   \* the elements the last reading call delivered to its caller
  loan,  \* *len of the last call if that was Direct, else 0
  use    \* the owner

vars == <<head, tail, full, data, got, loan, use>>

Slots == 0 .. Capacity - 1
Byte  == Values \cup {NoByte}

(* The operations each owner performs on its ring. The first four are the  *)
(* rings of a connection: _httpBuf and _writeBuf of the web socket and     *)
(* HTTP/2 managers, _readBuf and _writeBuf of the protobuf manager. The    *)
(* others are the tests' rings: calls that no manager makes.               *)
Calls ==
  [httpBuf   |-> {"Readv", "Pop", "PopAll"},
   writeBuf  |-> {"Push", "Writev"},
   protoIn   |-> {"Readv", "Pop", "Direct", "Backup", "Skip"},
   protoOut  |-> {"Push", "PushDirect", "BackupDirect", "Writev"},
   pipe      |-> {"Push", "Pop", "Write"},
   reader    |-> {"Read", "Pop"},
   peeker    |-> {"Push", "PopPeak"},
   popPeeker |-> {"Push", "Pop", "PopPeak"}]

ASSUME UsesAssumption == Uses \subseteq DOMAIN Calls

MayCall(op) == op \in Calls[use]

Lesser(a, b) == IF a < b THEN a ELSE b

-----------------------------------------------------------------------------
(* The queries. *)

Available ==
  IF full THEN Capacity
  ELSE IF head >= tail THEN head - tail
  ELSE Capacity - (tail - head)

Free == Capacity - Available

IsEmpty == head = tail /\ ~full

(* The slot Peak reads for an offset below Available. *)
PeakSlot(offset) ==
  IF head > tail \/ offset < Capacity - tail
  THEN tail + offset
  ELSE offset - (Capacity - tail)

(* Mutant: Find without its second loop. *)
FindSlotsUnwrapped ==
  IF IsEmpty THEN <<>>
  ELSE IF head > tail THEN [i \in 1 .. head - tail |-> tail + i - 1]
  ELSE [i \in 1 .. Capacity - tail |-> tail + i - 1]

(* The slots Find visits, in order. *)
FindSlots ==
  IF IsEmpty THEN <<>>
  ELSE IF head > tail THEN [i \in 1 .. head - tail |-> tail + i - 1]
  ELSE [i \in 1 .. (Capacity - tail) + head |->
          IF i <= Capacity - tail THEN tail + i - 1 ELSE i - (Capacity - tail) - 1]

(* The offsets at which Find may return true for d: the first match. *)
Find(d) ==
  {i - 1 : i \in {j \in DOMAIN FindSlots :
                    /\ data[FindSlots[j]] = d
                    /\ \A k \in 1 .. j - 1 : data[FindSlots[k]] # d}}

-----------------------------------------------------------------------------
(* Moving elements. *)

(* data after s is copied in: n elements at head, the others at slot from. *)
Stored(s, n, from) ==
  [j \in Slots |->
     IF j \in head .. head + n - 1 THEN s[j - head + 1]
     ELSE IF j \in from .. from + (Len(s) - n) - 1 THEN s[n + j - from + 1]
     ELSE data[j]]

(* Mutant: the second copy starts at slot 0 whether or not tail wrapped. *)
CopiedFromZero(size, n, from) ==
  [i \in 1..size |-> IF i <= n THEN data[tail + i - 1] ELSE data[(i - n) - 1]]

(* size elements copied out: n from tail on, the others from slot from on. *)
Copied(size, n, from) ==
  [i \in 1..size |-> IF i <= n THEN data[tail + i - 1] ELSE data[from + (i - n) - 1]]

(* How many of size elements Pop, PopAll and Skip take before the end. *)
ToEnd(size) == IF tail > head \/ full THEN Lesser(size, Capacity - tail) ELSE 0

(* tail once it has moved over these. *)
PastEnd(n) == IF tail + n = Capacity THEN 0 ELSE tail + n

TailAfter(n) == IF tail > head \/ full THEN PastEnd(n) ELSE tail

(* Mutant: the index is left at Capacity. *)
Unwrapped(i) == i

(* An index that reached the end of the array starts over. *)
Wrapped(i) == IF i = Capacity THEN 0 ELSE i

Init ==
  /\ head = 0
  /\ tail = 0
  /\ full = FALSE
  /\ data = [j \in Slots |-> NoByte]
  /\ got = <<>>
  /\ loan = 0
  /\ use \in Uses

Elements(n) == [1..n -> Values]

-----------------------------------------------------------------------------
(* Writing into the ring. *)

(* Push of one element. *)
PushOne(d) ==
  /\ MayCall("Push")
  /\ ~full
  /\ data' = Stored(<<d>>, 1, 0)
  /\ head' = Wrapped(head + 1)
  /\ full' = (head' = tail)
  /\ loan' = 0
  /\ UNCHANGED <<tail, got, use>>

(* Push of the elements of s, around the end of the ring if need be. *)
Push(s) ==
  LET n  == IF head >= tail /\ head < Capacity THEN Lesser(Len(s), Capacity - head) ELSE 0
      h1 == IF n > 0 THEN Wrapped(head + n) ELSE head
  IN
  /\ MayCall("Push")
  /\ Len(s) <= Capacity - Available
  /\ ~full
  /\ data' = Stored(s, n, h1)
  /\ head' = h1 + (Len(s) - n)
  /\ full' = (head' = tail)
  /\ loan' = 0
  /\ UNCHANGED <<tail, got, use>>

(* PushDirect lends the free slots up to the end, or up to tail, and the   *)
(* caller (a protobuf coded stream) writes s over them.                    *)
PushDirectLen == IF head >= tail THEN Capacity - head ELSE tail - head

PushDirect(s) ==
  /\ MayCall("PushDirect")
  /\ ~full
  /\ Len(s) = PushDirectLen
  /\ data' = Stored(s, Len(s), 0)
  /\ head' = IF head >= tail THEN Wrapped(head + Len(s)) ELSE head + Len(s)
  /\ full' = (head' = tail)
  /\ loan' = 0
  /\ UNCHANGED <<tail, got, use>>

(* BackupDirect withdraws the last count elements. *)
BackupDirect(count) ==
  LET r == Lesser(head, count) IN
  /\ MayCall("BackupDirect")
  /\ count <= Available
  /\ ~IsEmpty
  /\ head' = IF head > tail THEN head - count
             ELSE IF count > r THEN Capacity - (count - r)
             ELSE head - r
  /\ full' = FALSE
  /\ loan' = 0
  /\ UNCHANGED <<tail, data, got, use>>

(* Mutant: the whole array is offered, wherever head is. *)
ReadSpaceWhole == Capacity

ReadSpace == IF tail > head THEN tail - head ELSE Capacity - head

(* Read fills one segment from a descriptor that returns the elements s.   *)
Read(s) ==
  /\ MayCall("Read")
  /\ ~full
  /\ Len(s) <= ReadSpace
  /\ data' = Stored(s, Len(s), 0)
  /\ head' = head + Len(s)
  /\ full' = (head' = tail)
  /\ loan' = 0
  /\ UNCHANGED <<tail, got, use>>

(* The segments Readv hands to readv, as <<first slot, length>>. *)
ReadvIov ==
  IF tail > head THEN << <<head, tail - head>> >>
  ELSE IF head = 0 /\ tail = 0 THEN << <<head, Capacity>> >>
  ELSE << <<head, Capacity - head>>, <<0, tail>> >>

IovLen(iov) == iov[1][2] + (IF Len(iov) = 2 THEN iov[2][2] ELSE 0)

(* Readv when the descriptor returns the elements s, all of them or fewer  *)
(* than there is room for. A result of 0 or -1 changes nothing.            *)
Readv(s) ==
  LET x == ReadvIov[1][2] IN
  /\ MayCall("Readv")
  /\ ~full
  /\ Len(s) <= IovLen(ReadvIov)
  /\ data' = Stored(s, Lesser(Len(s), x), 0)
  /\ head' = IF Len(ReadvIov) = 2 /\ Len(s) >= x THEN Len(s) - x ELSE head + Len(s)
  /\ full' = (head' = tail)
  /\ loan' = 0
  /\ UNCHANGED <<tail, got, use>>

-----------------------------------------------------------------------------
(* Reading from the ring. *)

Pop(size) ==
  LET n == ToEnd(size)
      t == TailAfter(n)
  IN
  /\ MayCall("Pop")
  /\ size <= Available
  /\ got' = Copied(size, n, t)
  /\ tail' = t + (size - n)
  /\ full' = FALSE
  /\ loan' = 0
  /\ UNCHANGED <<head, data, use>>

(* Pop with peak set. The second piece is read from slot 0. *)
PopPeak(size) ==
  /\ MayCall("PopPeak")
  /\ size <= Available
  /\ got' = Copied(size, ToEnd(size), 0)
  /\ loan' = 0
  /\ UNCHANGED <<head, tail, full, data, use>>

(* PopAll hands the elements to a callback in one piece or two. accepted   *)
(* counts the pieces it returned true for: the first refusal ends the call *)
(* and keeps the refused piece.                                            *)
PopAll(size, accepted) ==
  LET n      == ToEnd(size)
      wraps  == tail > head \/ full
      pieces == (IF wraps THEN 1 ELSE 0) + (IF size > n THEN 1 ELSE 0)
      t      == TailAfter(n)
      taken  == IF accepted = pieces THEN size ELSE n
  IN
  /\ MayCall("PopAll")
  /\ size <= Available
  /\ accepted \in 0..pieces
  /\ ~(wraps /\ accepted = 0)   \* nothing was taken: the call changed nothing
  /\ got' = Copied(taken, n, t)
  /\ tail' = t + (taken - n)
  /\ full' = FALSE
  /\ loan' = 0
  /\ UNCHANGED <<head, data, use>>

Skip(size) ==
  LET n == ToEnd(size) IN
  /\ MayCall("Skip")
  /\ size <= Available
  /\ tail' = TailAfter(n) + (size - n)
  /\ full' = FALSE
  /\ loan' = 0
  /\ UNCHANGED <<head, data, got, use>>

(* Direct lends the first segment. DirectLen is the *len it reports and    *)
(* DirectTaken the number of elements tail moves over.                     *)
DirectLen ==
  IF head > tail THEN head - tail
  ELSE IF full THEN Capacity - tail
  ELSE head - tail

DirectTaken == IF head > tail THEN head - tail ELSE Capacity - tail

Direct ==
  /\ MayCall("Direct")
  /\ ~IsEmpty
  /\ loan' = DirectLen
  /\ tail' = IF head > tail THEN head ELSE 0
  /\ full' = FALSE
  /\ UNCHANGED <<head, data, got, use>>

(* Backup gives back the last count elements lent by Direct: what the      *)
(* coded stream that borrowed them did not parse.                          *)
Backup(count) ==
  LET r == Lesser(tail, count) IN
  /\ MayCall("Backup")
  /\ count <= loan
  /\ count <= Free
  /\ ~(full /\ tail = head)
  /\ IF head < tail
     THEN /\ count <= tail - head
          /\ tail' = tail - count
          /\ full' = (tail' = head)
     ELSE /\ count <= tail + (Capacity - head)
          /\ tail' = IF count > r THEN Capacity - (count - r) ELSE tail - r
          /\ full' = IF count > r THEN tail' = head ELSE full
  /\ loan' = 0
  /\ UNCHANGED <<head, data, got, use>>

(* Write drains one segment: the descriptor accepts n elements. *)
WriteLen == IF head > tail THEN head - tail ELSE Capacity - tail

Write(n) ==
  /\ MayCall("Write")
  /\ Available > 0
  /\ n <= WriteLen
  /\ got' = Copied(n, n, 0)
  /\ tail' = Wrapped(tail + n)
  /\ full' = FALSE
  /\ loan' = 0
  /\ UNCHANGED <<head, data, use>>

(* The segments Writev hands to writev, as <<first slot, length>>. A       *)
(* length below zero is what the code computes before it converts it to    *)
(* the unsigned iov_len.                                                   *)
WritevIov ==
  IF head > tail THEN << <<tail, head - tail>> >>
  ELSE IF head > 0 THEN << <<tail, Capacity - tail>>, <<0, head>> >>
  ELSE << <<tail, tail - Capacity>> >>

(* Writev when the descriptor accepts n elements. It accepts none when a   *)
(* length is out of range: writev fails with EINVAL.                       *)
Writev(n) ==
  LET x == WritevIov[1][2] IN
  /\ MayCall("Writev")
  /\ Available > 0
  /\ n <= IovLen(WritevIov)
  /\ got' = Copied(n, Lesser(n, x), 0)
  /\ tail' = Wrapped(IF Len(WritevIov) = 2 /\ n > x THEN n - x ELSE tail + n)
  /\ full' = FALSE
  /\ loan' = 0
  /\ UNCHANGED <<head, data, use>>

-----------------------------------------------------------------------------
Fills ==
  \/ \E d \in Values : PushOne(d)
  \/ \E n \in 1..Capacity : \E s \in Elements(n) : Push(s) \/ Read(s) \/ Readv(s)
  \/ \E s \in Elements(PushDirectLen) : PushDirect(s)
  \/ \E n \in 1..Capacity : BackupDirect(n)

Drains ==
  \/ \E n \in 1..Capacity : Pop(n) \/ PopPeak(n) \/ Skip(n) \/ Backup(n)
  \/ \E n \in 1..Capacity : Write(n) \/ Writev(n)
  \/ \E n \in 1..Capacity : \E accepted \in 0..2 : PopAll(n, accepted)
  \/ Direct

Next == Fills \/ Drains

Spec == Init /\ [][Next]_vars

-----------------------------------------------------------------------------
(* The queue the ring stands for. *)

Slot(i) == IF i < 0 THEN i + Capacity ELSE IF i < Capacity THEN i ELSE i - Capacity

Contents == [i \in 1..Available |-> data[Slot(tail + i - 1)]]

(* The elements Direct lent last: the slots tail just moved over. *)
Lent ==
  [i \in 1 .. (IF loan > 0 THEN loan ELSE 0) |-> data[Slot(tail - loan + i - 1)]]

Queue == INSTANCE ByteQueue WITH q <- Contents, lent <- Lent, lending <- loan # 0

(* Direct where it does not report what it takes: the head is below the    *)
(* tail. The length is below zero and the elements up to the end of the    *)
(* array are gone.                                                         *)
DirectMisreports == Direct /\ head < tail

-----------------------------------------------------------------------------
(* Properties. *)

(* The type invariant: neither index passes the end of the array by more  *)
(* than one, and the flag is set only where the indices meet.              *)
TypeOK ==
  /\ use \in Uses
  /\ head \in 0..Capacity
  /\ tail \in 0..Capacity
  /\ full \in BOOLEAN
  /\ full => head = tail
  /\ data \in [Slots -> Byte]
  /\ got \in Seq(Byte)
  /\ loan \in Int

(* What the indices allow at the end of the array. A ring that Push and    *)
(* PushDirect write into never has an index at Capacity (they would write  *)
(* data[_capacity]). Available counts zero elements in the rings IsEmpty   *)
(* says are empty and in no others. And Read, which no call takes back to  *)
(* slot 0, offers no slot in use, and offers none at all just when the     *)
(* head stands at Capacity: from then on it reads nothing, however many    *)
(* slots the reader frees.                                                 *)
IndicesSound ==
  /\ MayCall("Push") => head < Capacity /\ tail < Capacity
  /\ IsEmpty <=> Available = 0
  /\ MayCall("Read") /\ ~full =>
       /\ \A i \in 1..Available : Slot(tail + i - 1) \notin head .. head + ReadSpace - 1
       /\ ReadSpace = 0 <=> head = Capacity

(* What a caller or the kernel learns from the indices without consuming   *)
(* agrees with the queue: Peak(i) is the element i places from the oldest, *)
(* Find gives the offset of the first match, around the end of the array   *)
(* too, and what Readv offers is every free slot and no slot in use.       *)
QueriesAgree ==
  /\ \A i \in 0 .. Available - 1 : data[PeakSlot(i)] = Contents[i + 1]
  /\ Len(FindSlots) = Available
  /\ \A d \in Values :
       Find(d) = {i - 1 : i \in {j \in 1..Available :
                    Contents[j] = d /\ \A k \in 1 .. j - 1 : Contents[k] # d}}
  /\ MayCall("Readv") /\ ~full =>
       /\ IovLen(ReadvIov) = Free
       /\ \A i \in 1..Available : \A k \in DOMAIN ReadvIov :
            Slot(tail + i - 1) \notin ReadvIov[k][1] .. ReadvIov[k][1] + ReadvIov[k][2] - 1

(* The ring is a FIFO queue: every call puts, delivers, lends and takes    *)
(* back exactly the elements the abstract queue does, in order, wherever   *)
(* the indices stand (the memcpy pairs of Push, Pop, Readv and Writev).    *)
(* The one call that does not is Direct with the head below the tail: it   *)
(* drops elements that nobody was lent.                                    *)
IsQueue == Queue!Init /\ [][Queue!Next \/ DirectMisreports]_(Queue!vars)

=============================================================================
