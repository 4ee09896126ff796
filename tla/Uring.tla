------------------------------- MODULE Uring -------------------------------
(***************************************************************************)
(* coypu::event::IOURingHelper (include/echidna/event_hlpr.hpp,            *)
(* src/event_hlpr.cpp): the two rings a program shares with the kernel.    *)
(* AddToSQE puts an entry in the submission ring, moves its tail and, if   *)
(* the kernel thread said it went to sleep, wakes it; Drain calls a        *)
(* callback for each entry of the completion ring and then moves its head. *)
(* The rings are set up with IORING_SETUP_SQPOLL, so a kernel thread reads *)
(* the submission ring on its own, and goes to sleep when it stays empty.  *)
(*                                                                         *)
(* The indices are unsigned and wrap around. The stores of the program may *)
(* wait in its processor's store buffer, oldest first (x86): the barriers  *)
(* of the code are compiler barriers, and the flags are loaded relaxed, so *)
(* nothing orders the store of the tail before the load of the flags. The  *)
(* variable delays, chosen once, says whether the processor does that.     *)
(***************************************************************************)
EXTENDS Integers, Sequences, FiniteSets

CONSTANTS
  Entries,        \* *_sq_ring.ring_entries
  CqEntries,      \* *_cq_ring.ring_entries, twice as many in the kernel
  Width,          \* the indices are modulo this: 2^32 in the code
  Window,         \* how many entries the program has outstanding at most
  FromCallbacks,  \* how many entries the callbacks of one Drain submit at most
  Submits,        \* bound on the entries submitted in a run
  Multishot,      \* the entries of SubmitRecvMulti and SubmitAcceptNonBlockMulti
  Mores,          \* bound on the completions of those with more to come
  Delays,         \* the processors considered: TRUE for one that delays stores
  EnterFails      \* whether calls of io_uring_enter may fail

ASSUME RingsAssumption ==
  /\ Entries \in Nat \ {0} /\ CqEntries \in Nat \ {0}
  /\ Width \in Nat /\ Width % Entries = 0 /\ Width % CqEntries = 0
  /\ Width > Entries /\ Width > CqEntries
  /\ Submits \in Nat /\ Mores \in Nat
  /\ Multishot \subseteq 1..Submits
  /\ Delays \subseteq BOOLEAN /\ EnterFails \in BOOLEAN

(* What the program keeps to: AddToSQE looks at the head of neither ring.  *)
(* Those of tests/testcases-uring.cpp have two entries outstanding at most *)
(* (lines 72 and 73) and submit none from a callback, in rings of 16 and   *)
(* 32 entries, the default of Create (include/echidna/event_hlpr.hpp:70).  *)
(* It bounds the entries outstanding, and so their last completions. What  *)
(* a multishot entry completes before its last, nothing bounds: those of   *)
(* tests/test-ssl.cpp, an accept and a receive for each connection, post   *)
(* one for whatever arrives.                                               *)
ASSUME OutstandingAssumption ==
  /\ Window \in Nat /\ FromCallbacks \in Nat
  /\ Window <= Entries
  /\ Window + FromCallbacks <= CqEntries

VARIABLES
  delays,     \* the processor delays stores
  (* the program *)
  pc,         \* "idle", "publish" and "check" in AddToSQE, "drain" in Drain
  inDrain,    \* AddToSQE was called by a callback of Drain
  sqTail,     \* the tail of the submission ring as the program last stored it
  head,       \* Drain's local variable
  byCalls,    \* how many entries the callbacks of this Drain submitted
  unwoken,    \* the last call that should have woken the thread failed
  buffer,     \* the stores that have not reached memory yet
  (* the shared memory *)
  tailSeen,   \* *_sq_ring.tail
  headSeen,   \* *_cq_ring.head
  sqes,       \* the entry in each slot of _sqes: its number, 0 if none
  cqes,       \* the completion in each slot of the completion ring
  cqTail,     \* *_cq_ring.tail
  needWakeup, \* IORING_SQ_NEED_WAKEUP is set in *_sq_ring.flags
  (* the kernel *)
  thread,     \* the polling thread: "polling", "dozing" or "asleep"
  sqHead,     \* where the thread reads the submission ring
  inFlight,   \* the operations under way
  overflow,   \* the operations whose last completion found no room
  (* history *)
  submitted,  \* the number of entries AddToSQE was called with
  taken,      \* the entries the kernel took, in order
  posted,     \* the completions put in the ring, in order
  reported    \* the completions reported to the callback, in order

program == <<delays, pc, inDrain, sqTail, head, byCalls, unwoken, submitted, reported>>
kernel  == <<thread, sqHead, inFlight, overflow, taken, posted>>
vars    == <<program, kernel, buffer, tailSeen, headSeen, sqes, cqes, cqTail, needWakeup>>

Plus(i, n) == (i + n) % Width

Dist(from, to) == (to - from) % Width

-----------------------------------------------------------------------------
(* Memory. *)

(* The program stores v to the tail of the submission ring, or to the head *)
(* of the completion ring.                                                 *)
Store(where, v) ==
  IF delays
  THEN /\ buffer' = Append(buffer, [to |-> where, val |-> v])
       /\ UNCHANGED <<tailSeen, headSeen>>
  ELSE /\ tailSeen' = IF where = "tail" THEN v ELSE tailSeen
       /\ headSeen' = IF where = "head" THEN v ELSE headSeen
       /\ UNCHANGED buffer

(* The oldest store in the buffer reaches memory. *)
Flush ==
  /\ buffer # <<>>
  /\ buffer' = Tail(buffer)
  /\ tailSeen' = IF buffer[1].to = "tail" THEN buffer[1].val ELSE tailSeen
  /\ headSeen' = IF buffer[1].to = "head" THEN buffer[1].val ELSE headSeen
  /\ UNCHANGED <<program, kernel, sqes, cqes, cqTail, needWakeup>>

-----------------------------------------------------------------------------
(* AddToSQE, called by the program or by a callback of Drain. The program  *)
(* limits what it has outstanding, which the flags given to the callback   *)
(* tell it (IORING_CQE_F_MORE); AddToSQE never looks at the head.          *)
Finals(completions) == {i \in DOMAIN completions : ~completions[i].more}

Outstanding == submitted - Cardinality(Finals(reported))

(* Mutant: the slot is the one after the tail. *)
SlotAfterTail(tail) == (tail + 1) % Entries

(* tail & *ring_mask *)
Slot(tail) == tail % Entries

Fill ==
  /\ \/ pc = "idle" /\ UNCHANGED byCalls
     \/ pc = "drain" /\ byCalls < FromCallbacks /\ byCalls' = byCalls + 1
  /\ submitted < Submits /\ Outstanding < Window
  /\ inDrain' = (pc = "drain")
  /\ submitted' = submitted + 1
  /\ sqes' = [sqes EXCEPT ![Slot(sqTail)] = submitted + 1]
  /\ pc' = "publish"
  /\ UNCHANGED <<delays, sqTail, head, unwoken, reported, kernel, buffer, tailSeen, headSeen, cqes,
                 cqTail, needWakeup>>

Publish ==
  /\ pc = "publish"
  /\ sqTail' = Plus(sqTail, 1)
  /\ Store("tail", Plus(sqTail, 1))
  /\ pc' = "check"
  /\ UNCHANGED <<delays, inDrain, head, byCalls, unwoken, submitted, reported, kernel, sqes,
                 cqes, cqTail, needWakeup>>

(* Mutant: the flag is not looked at. *)
WakesNever == FALSE

(* The flags loaded by AddToSQE say that the thread needs waking. *)
Wakes == needWakeup

(* io_uring_enter wakes the thread: the call is a barrier. Where it fails  *)
(* AddToSQE returns 1, with the entry in the ring; its callers look for    *)
(* less than 0.                                                            *)
Check ==
  /\ pc = "check"
  /\ pc' = IF inDrain THEN "drain" ELSE "idle"
  /\ \/ /\ ~Wakes
        /\ UNCHANGED <<thread, needWakeup, unwoken>>
     \/ /\ Wakes /\ buffer = <<>>
        /\ thread' = "polling" /\ needWakeup' = FALSE /\ unwoken' = FALSE
     \/ /\ Wakes /\ buffer = <<>> /\ EnterFails
        /\ unwoken' = (thread = "asleep")
        /\ UNCHANGED <<thread, needWakeup>>
  /\ UNCHANGED <<delays, inDrain, sqTail, head, byCalls, submitted, reported, sqHead, inFlight,
                 overflow, taken, posted, buffer, tailSeen, headSeen, sqes, cqes, cqTail>>

-----------------------------------------------------------------------------
(* Drain. *)

(* The head the program last stored: only Drain stores it. *)
BeginDrain ==
  /\ pc = "idle"
  /\ cqTail # head
  /\ pc' = "drain"
  /\ byCalls' = 0
  /\ UNCHANGED <<delays, inDrain, sqTail, head, unwoken, submitted, reported, kernel, buffer, tailSeen,
                 headSeen, sqes, cqes, cqTail, needWakeup>>

(* Mutant: the loop stops at the end of the array instead of the tail. *)
MoreToArrayEnd == head % CqEntries # 0 \/ head # cqTail

More == head # cqTail

(* One turn of the loop: the callback for the entry at head. *)
Report ==
  /\ pc = "drain"
  /\ More
  /\ reported' = Append(reported, cqes[head % CqEntries])
  /\ head' = Plus(head, 1)
  /\ UNCHANGED <<delays, pc, inDrain, sqTail, byCalls, unwoken, submitted, kernel, buffer,
                 tailSeen, headSeen, sqes, cqes, cqTail, needWakeup>>

(* Mutant: the head stored is that of the last entry reported. *)
HeadOfLast == Plus(head, Width - 1)

HeadStored == head

(* The head is stored once the ring is empty. *)
EndDrain ==
  /\ pc = "drain"
  /\ ~More
  /\ Store("head", HeadStored)
  /\ pc' = "idle"
  /\ UNCHANGED <<delays, inDrain, sqTail, head, byCalls, unwoken, submitted, reported, kernel,
                 sqes, cqes, cqTail, needWakeup>>

-----------------------------------------------------------------------------
(* The kernel. *)

(* The thread takes the next entry of the submission ring. *)
Take ==
  /\ thread = "polling"
  /\ sqHead # tailSeen
  /\ taken' = Append(taken, sqes[sqHead % Entries])
  /\ inFlight' = inFlight \cup {sqes[sqHead % Entries]}
  /\ sqHead' = Plus(sqHead, 1)
  /\ UNCHANGED <<program, thread, overflow, posted, buffer, tailSeen, headSeen, sqes,
                 cqes, cqTail, needWakeup>>

(* Having found the ring empty for a while, the thread says that it will   *)
(* sleep, and looks once more before it does.                              *)
Doze ==
  /\ thread = "polling"
  /\ sqHead = tailSeen
  /\ thread' = "dozing"
  /\ needWakeup' = TRUE
  /\ UNCHANGED <<program, sqHead, inFlight, overflow, taken, posted, buffer, tailSeen,
                 headSeen, sqes, cqes, cqTail>>

LookAgain ==
  /\ thread = "dozing"
  /\ IF sqHead = tailSeen
     THEN thread' = "asleep" /\ UNCHANGED needWakeup
     ELSE thread' = "polling" /\ needWakeup' = FALSE
  /\ UNCHANGED <<program, sqHead, inFlight, overflow, taken, posted, buffer, tailSeen,
                 headSeen, sqes, cqes, cqTail>>

(* Once a completion did not fit, those after it do not overtake it.       *)
Room == overflow = {} /\ Dist(headSeen, cqTail) < CqEntries

Put(completion) ==
  /\ posted' = Append(posted, completion)
  /\ cqes' = [cqes EXCEPT ![cqTail % CqEntries] = completion]
  /\ cqTail' = Plus(cqTail, 1)

(* An operation completes for the last or only time: its completion goes   *)
(* into the ring, or, if that is full, to a list that nothing in the       *)
(* program ever asks to be emptied.                                        *)
Complete(op) ==
  /\ op \in inFlight
  /\ inFlight' = inFlight \ {op}
  /\ \/ Room /\ Put([op |-> op, more |-> FALSE]) /\ UNCHANGED overflow
     \/ ~Room /\ overflow' = overflow \cup {op} /\ UNCHANGED <<posted, cqes, cqTail>>
  /\ UNCHANGED <<program, thread, sqHead, taken, buffer, tailSeen, headSeen, sqes,
                 needWakeup>>

(* A multishot operation completes, with more to come. It comes to an end  *)
(* when there is no room.                                                  *)
PostAnother(op) ==
  /\ op \in inFlight \cap Multishot
  /\ Room
  /\ Cardinality({i \in DOMAIN posted : posted[i].more}) < Mores
  /\ Put([op |-> op, more |-> TRUE])
  /\ UNCHANGED <<program, thread, sqHead, inFlight, overflow, taken, buffer, tailSeen, headSeen,
                 sqes, needWakeup>>

-----------------------------------------------------------------------------
Init ==
  /\ delays \in Delays
  /\ pc = "idle" /\ inDrain = FALSE /\ byCalls = 0 /\ unwoken = FALSE
  /\ \E start \in {0, Width - 1} :
       sqTail = start /\ head = start /\ tailSeen = start /\ headSeen = start
       /\ cqTail = start /\ sqHead = start
  /\ buffer = <<>>
  /\ sqes = [i \in 0 .. Entries - 1 |-> 0]
  /\ cqes = [i \in 0 .. CqEntries - 1 |-> [op |-> 0, more |-> FALSE]]
  /\ needWakeup = FALSE
  /\ thread = "polling"
  /\ inFlight = {} /\ overflow = {}
  /\ submitted = 0 /\ taken = <<>> /\ posted = <<>> /\ reported = <<>>

AddToSQE == Fill \/ Publish \/ Check
Drain    == BeginDrain \/ Report \/ EndDrain
Thread   == Take \/ LookAgain

Next == AddToSQE \/ Drain \/ Flush \/ Thread \/ Doze
        \/ \E op \in 1..Submits : Complete(op) \/ PostAnother(op)

(* A call that has begun goes on, the program goes on calling Drain (the   *)
(* tests' loops do until they have what they wait for), the processor does *)
(* not hold stores back for ever, and the kernel does its work. Nothing    *)
(* has to arrive for a multishot operation, and it need not come to an end.*)
Fairness ==
  /\ WF_vars(Publish \/ Check) /\ WF_vars(Drain)
  /\ WF_vars(Flush)
  /\ WF_vars(Thread)
  /\ \A op \in 1..Submits \ Multishot : WF_vars(Complete(op))

Spec == Init /\ [][Next]_vars /\ Fairness

-----------------------------------------------------------------------------
(* Properties. *)

Index == 0 .. Width - 1

Completion == [op : 0..Submits, more : BOOLEAN]

TypeOK ==
  /\ delays \in Delays
  /\ pc \in {"idle", "publish", "check", "drain"} /\ inDrain \in BOOLEAN
  /\ sqTail \in Index /\ head \in Index /\ tailSeen \in Index /\ headSeen \in Index
  /\ cqTail \in Index /\ sqHead \in Index
  /\ byCalls \in 0..FromCallbacks /\ unwoken \in BOOLEAN
  /\ buffer \in Seq([to : {"tail", "head"}, val : Index])
  /\ sqes \in [0 .. Entries - 1 -> 0..Submits]
  /\ cqes \in [0 .. CqEntries - 1 -> Completion]
  /\ needWakeup \in BOOLEAN
  /\ thread \in {"polling", "dozing", "asleep"}
  /\ inFlight \subseteq 1..Submits /\ overflow \subseteq 1..Submits
  /\ submitted \in 0..Submits
  /\ taken \in Seq(1..Submits) /\ posted \in Seq(Completion) /\ reported \in Seq(Completion)

(* The kernel takes every entry once, in the order of submission: none is  *)
(* overwritten before it is taken, as long as the program never has more   *)
(* outstanding than the ring holds (AddToSQE does not look).               *)
TakenInOrder == \A i \in DOMAIN taken : taken[i] = i

(* The callback is called once for every completion, in order, across the  *)
(* end of the array and the wrap of the indices, although Drain moves the  *)
(* shared head long after it has read the entries.                         *)
ReportedInOrder ==
  /\ Len(reported) <= Len(posted)
  /\ \A i \in DOMAIN reported : reported[i] = posted[i]

(* The completion ring overflows only if completions with more to come     *)
(* crowd it: if there are more of them in the slots not yet given back     *)
(* than the window and what callbacks submit leave. Drain keeps the slots  *)
(* of all it reports until it ends, so what callbacks submit in between    *)
(* counts. A program without multishot entries never loses a completion.   *)
Spare == CqEntries - (Window + FromCallbacks)

Crowding ==
  LET kept == Len(posted) - Dist(headSeen, cqTail) + 1 .. Len(posted)
  IN  Cardinality({i \in kept : posted[i].more}) > Spare

NoOverflow == [][overflow = {} /\ overflow' # {} => Crowding]_vars

(* Every entry submitted is taken and its last completion reported,        *)
(* whatever moment the thread goes to sleep at, if stores are seen at      *)
(* once, also one whose call of io_uring_enter failed if a later one does  *)
(* not, unless the ring overflowed. What is in the ring is reported.       *)
AllReported ==
  /\ \A n \in 1..Submits \ Multishot :
       (~delays /\ submitted >= n) ~>
         (unwoken \/ n \in overflow \/ \E i \in Finals(reported) : reported[i].op = n)
  /\ \A n \in 1 .. Submits + Mores : Len(posted) >= n ~> Len(reported) >= n

(* A submission is not left behind in the ring with the thread asleep, as  *)
(* TestNop1 expects, which submits once and then only calls Drain          *)
(* (tests/testcases-uring.cpp:46-47).                                      *)
WakeUpNotLost == \A n \in 1..Submits : submitted >= n ~> Len(taken) >= n

=============================================================================
