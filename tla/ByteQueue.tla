------------------------------ MODULE ByteQueue ------------------------------
(***************************************************************************)
(* What a byte buffer promises the code around it: a bounded FIFO queue.   *)
(* Bytes come out once, whole and in the order they went in, except that   *)
(* the zero-copy protocol of protobuf lets a caller put back the end of    *)
(* what it was last lent and withdraw the end of what it last reserved.    *)
(* BipBuf implements this queue with two indices, a flag and an array.     *)
(***************************************************************************)
EXTENDS Naturals, Sequences

CONSTANTS
  Capacity,  \* the most elements the queue holds
  Values     \* the elements

VARIABLES
  q,        \* the queued elements, oldest first
  got,      \* the elements the last reading call delivered
  lending,  \* was the last call a Lend
  lent      \* the elements it lent

vars == <<q, got, lending, lent>>

Oldest(n) == SubSeq(q, 1, n)
Rest(n)   == SubSeq(q, n + 1, Len(q))

NothingLent == lending = FALSE /\ lent = <<>>

Init ==
  /\ q = <<>>
  /\ got = <<>>
  /\ NothingLent

(* Append the elements s. *)
Put(s) ==
  /\ Len(q) + Len(s) <= Capacity
  /\ q' = q \o s
  /\ NothingLent'
  /\ UNCHANGED got

(* Withdraw the newest n elements, reserved but not used. *)
Withdraw(n) ==
  /\ q' = SubSeq(q, 1, Len(q) - n)
  /\ NothingLent'
  /\ UNCHANGED got

(* Deliver a copy of the oldest n elements and leave them in the queue. *)
Peek(n) ==
  /\ got' = Oldest(n)
  /\ NothingLent'
  /\ UNCHANGED q

(* Deliver the oldest n elements. *)
Take(n) ==
  /\ got' = Oldest(n)
  /\ q' = Rest(n)
  /\ NothingLent'

(* Drop the oldest n elements unseen. *)
Drop(n) ==
  /\ q' = Rest(n)
  /\ NothingLent'
  /\ UNCHANGED got

(* Lend the oldest n elements in place. The borrower may give some back. *)
Lend(n) ==
  /\ q' = Rest(n)
  /\ n > 0
  /\ lending' = TRUE
  /\ lent' = Oldest(n)
  /\ UNCHANGED got

(* Take back the last n of the elements lent: they are the oldest again. *)
GiveBack(n) ==
  /\ q' = SubSeq(lent, Len(lent) - n + 1, Len(lent)) \o q
  /\ NothingLent'
  /\ UNCHANGED got

Next ==
  \/ \E n \in 1..Capacity : \E s \in [1..n -> Values] : Put(s)
  \/ \E n \in 0..Len(q) : Peek(n) \/ Take(n) \/ Drop(n) \/ Lend(n)
  \/ \E n \in 1..Len(q) : Withdraw(n)
  \/ \E n \in 1..Len(lent) : GiveBack(n)

Spec == Init /\ [][Next]_vars

=============================================================================
