--------------------------- MODULE EventCBManager ---------------------------
(***************************************************************************)
(* coypu::event::EventCBManager (include/echidna/event_mgr.hpp): events    *)
(* of the program itself. Queue appends an event type to a deque and asks  *)
(* the loop for write events on an eventfd; the write callback adds the    *)
(* length of the deque to the eventfd, which makes it readable; the read   *)
(* callback resets the eventfd and calls the callback registered for each  *)
(* type in the deque. With io_uring, QueueSend submits the write itself,   *)
(* and ReadIO is called when a read that was submitted earlier completes.  *)
(*                                                                         *)
(* The loop is what EventManager (or Uring) promises: it collects the      *)
(* conditions of the eventfd, level triggered, and hands them over later;  *)
(* callbacks of other descriptors, which queue events, run in between.     *)
(***************************************************************************)
EXTENDS Integers, Sequences

CONSTANTS
  Types,      \* the event types, keys of _cbMap
  MaxQueued,  \* bound on the events queued in a run
  Loops       \* the kinds of loop considered

ASSUME LoopsAssumption == Loops \subseteq {"epoll", "uring"}
ASSUME MaxQueuedAssumption == MaxQueued \in Nat

VARIABLES
  loop,     \* the kind of loop the program runs
  queue,    \* _queue
  cbMap,    \* _cbMap: the types that have a callback
  (* the eventfd and the loop *)
  counter,  \* what the eventfd holds
  watched,  \* EPOLLOUT is asked for (epoll)
  writes,   \* the writes submitted and not yet carried out (uring)
  events,   \* the events collected and not yet handled
  pc,       \* "loop", "reading" (in the loop of Read or ReadIO) or "writing"
  halted,   \* an assertion failed: the program is gone
  (* history *)
  log,      \* every event ever queued
  done      \* how many of them have been called

queueVars == <<loop, queue, cbMap, counter, watched, writes, events, pc, halted, log, done>>

-----------------------------------------------------------------------------
(* Mutant: the loop is not asked for write events. *)
AskToWriteForgotten == UNCHANGED watched

(* _set_write(_fd) *)
AskToWrite == watched' = TRUE

(* Mutant: the newest event is put first. *)
PushFront(u) == <<u>> \o queue

PushBack(u) == Append(queue, u)

(* Queue, or QueueSend: push, then see to it that the eventfd is written.  *)
Notify ==
  IF loop = "epoll"
  THEN AskToWrite /\ UNCHANGED writes
  ELSE writes' = writes + 1 /\ UNCHANGED watched

(* A callback of another descriptor queues an event. *)
Queue(u) ==
  /\ pc = "loop" /\ ~halted
  /\ Len(log) < MaxQueued
  /\ queue' = PushBack(u)
  /\ log' = Append(log, u)
  /\ Notify
  /\ UNCHANGED <<loop, cbMap, counter, events, pc, halted, done>>

RegisterType(u) ==
  /\ pc = "loop" /\ ~halted
  /\ u \notin cbMap
  /\ cbMap' = cbMap \cup {u}
  /\ UNCHANGED <<loop, queue, counter, watched, writes, events, pc, halted, log, done>>

UnregisterType(u) ==
  /\ pc = "loop" /\ ~halted
  /\ u \in cbMap
  /\ cbMap' = cbMap \ {u}
  /\ UNCHANGED <<loop, queue, counter, watched, writes, events, pc, halted, log, done>>

-----------------------------------------------------------------------------
(* The loop. *)

(* epoll_wait reports the eventfd readable or, if asked, writable. *)
Collect ==
  /\ loop = "epoll" /\ pc = "loop" /\ events = {} /\ ~halted
  /\ counter > 0 \/ watched
  /\ events' = {e \in {"in", "out"} : IF e = "in" THEN counter > 0 ELSE watched}
  /\ UNCHANGED <<loop, queue, cbMap, counter, watched, writes, pc, halted, log, done>>

(* The kernel carries out a submitted write: every length sent is above 0. *)
CarryOut ==
  /\ writes > 0
  /\ writes' = writes - 1
  /\ counter' = counter + 1
  /\ UNCHANGED <<loop, queue, cbMap, watched, events, pc, halted, log, done>>

(* A submitted read completes with 8 bytes once the eventfd is not zero.   *)
Complete ==
  /\ loop = "uring" /\ events = {} /\ ~halted
  /\ counter > 0
  /\ counter' = 0
  /\ events' = {"in"}
  /\ UNCHANGED <<loop, queue, cbMap, watched, writes, pc, halted, log, done>>

(* Mutant: the eventfd counts down, one for each event queued. *)
AfterReadCounts == counter - Len(queue)

AfterRead == 0

(* Read resets the eventfd and enters its loop; ReadIO finds it reset.     *)
BeginRead ==
  /\ pc = "loop" /\ "in" \in events /\ ~halted
  /\ pc' = "reading"
  /\ counter' = IF loop = "epoll" THEN AfterRead ELSE counter
  /\ UNCHANGED <<loop, queue, cbMap, watched, writes, events, halted, log, done>>

(* One turn of the loop: assert that the type has a callback and call it.  *)
(* The callback may queue another event.                                   *)
Fire ==
  /\ pc = "reading" /\ queue # <<>> /\ ~halted
  /\ IF Head(queue) \notin cbMap
     THEN /\ halted' = TRUE
          /\ queue' = Tail(queue)
          /\ UNCHANGED <<watched, writes, log, done>>
     ELSE /\ done' = done + 1
          /\ \/ /\ queue' = Tail(queue)
                /\ UNCHANGED <<watched, writes, log>>
             \/ \E u \in Types :
                  /\ Len(log) < MaxQueued
                  /\ queue' = Append(Tail(queue), u)
                  /\ log' = Append(log, u)
                  /\ Notify
          /\ UNCHANGED halted
  /\ UNCHANGED <<loop, cbMap, counter, events, pc>>

(* Mutant: one event is called for each time the eventfd is readable. *)
DrainedOnce == TRUE

Drained == queue = <<>>

EndRead ==
  /\ pc = "reading" /\ ~halted
  /\ Drained
  /\ events' = events \ {"in"}
  /\ pc' = IF "out" \in events THEN "writing" ELSE "loop"
  /\ UNCHANGED <<loop, queue, cbMap, counter, watched, writes, halted, log, done>>

(* Write adds the length of the deque, which may be zero, and returns 0:   *)
(* the loop stops asking for write events.                                 *)
Write ==
  /\ pc = "writing" \/ (pc = "loop" /\ events = {"out"})
  /\ ~halted
  /\ counter' = counter + Len(queue)
  /\ watched' = FALSE
  /\ events' = {}
  /\ pc' = "loop"
  /\ UNCHANGED <<loop, queue, cbMap, writes, halted, log, done>>

-----------------------------------------------------------------------------
QueueInit ==
  /\ loop \in Loops
  /\ queue = <<>>
  /\ cbMap = {}
  /\ counter = 0
  /\ watched = FALSE
  /\ writes = 0
  /\ events = {}
  /\ pc = "loop"
  /\ halted = FALSE
  /\ log = <<>>
  /\ done = 0

Program == \E u \in Types : Queue(u) \/ RegisterType(u) \/ UnregisterType(u)

LoopStep == Collect \/ Complete \/ BeginRead \/ Fire \/ EndRead \/ Write

QueueNext == Program \/ CarryOut \/ LoopStep

(* The loop goes on, and the kernel carries out what was submitted. *)
QueueSpec == QueueInit /\ [][QueueNext]_queueVars /\ WF_queueVars(LoopStep) /\ WF_queueVars(CarryOut)

-----------------------------------------------------------------------------
(* Properties. *)

QueueTypeOK ==
  /\ loop \in Loops
  /\ queue \in Seq(Types)
  /\ cbMap \subseteq Types
  /\ counter \in Nat
  /\ watched \in BOOLEAN
  /\ writes \in Nat
  /\ events \subseteq {"in", "out"}
  /\ pc \in {"loop", "reading", "writing"}
  /\ halted \in BOOLEAN
  /\ log \in Seq(Types)
  /\ done \in Nat

(* No wake-up is lost: whenever events are queued and the loop is not      *)
(* already calling them, the eventfd is readable, was collected as         *)
(* readable, or is about to be written, however the writes, the reads and  *)
(* new events are interleaved.                                             *)
WakeUpPending ==
  (queue # <<>> /\ pc # "reading" /\ ~halted) =>
    \/ counter > 0
    \/ watched
    \/ writes > 0
    \/ pc = "loop" /\ "in" \in events

(* Events are called in the order they were queued, each of them once.     *)
CalledInOrder == ~halted => SubSeq(log, done + 1, Len(log)) = queue

(* Every event is called, those that callbacks queue themselves included.  *)
EventuallyCalled == \A n \in 1..MaxQueued : Len(log) >= n ~> (done >= n \/ halted)


=============================================================================
