---------------------------- MODULE EventManager ----------------------------
(***************************************************************************)
(* coypu::event::EventManager (include/echidna/event_mgr.hpp): a level-    *)
(* triggered epoll loop. Wait collects a batch of events and calls the     *)
(* read and write callbacks of each descriptor; the connections that       *)
(* failed are remembered in _closeSet, and only after the whole batch are  *)
(* their close callbacks called and their registrations removed.           *)
(*                                                                         *)
(* The loop is composed with what it works between: the kernel, which owns *)
(* the descriptors and gives a new file the lowest free number, and the    *)
(* callbacks of a server, which accept connections, read requests, queue   *)
(* replies to any connection and write them out. Each callback is one      *)
(* step: the program is single threaded, but peers act between the steps.  *)
(***************************************************************************)
EXTENDS Integers, Sequences, FiniteSets

CONSTANTS
  Fds,         \* descriptor numbers
  Listener,    \* the number of the listening socket
  Files,       \* the files opened in a run are 1..Files: the listener is 1
  MaxEvents,   \* _maxEvents, 16 in the code
  Replies      \* bound on the replies queued in a run

ASSUME FdsAssumption == Fds \subseteq Nat \ {0} /\ IsFiniteSet(Fds) /\ Listener \in Fds
ASSUME BoundsAssumption == Files \in Nat \ {0} /\ Replies \in Nat /\ MaxEvents \in Nat \ {0}

NoFile == 0

VARIABLES
  (* the kernel *)
  file,      \* the file a descriptor number stands for, or NoFile
  interest,  \* the events epoll watches for a number; {} if it is not in the set
  cond,      \* the conditions that hold of the file
  opened,    \* how many files have been opened or are waiting in the backlog
  (* the event manager *)
  cb,        \* _fdToCB: the file the callbacks were registered for, or NoFile
  batch,     \* the events of _outEvents still to be handled, and whose they were
  closeSet,  \* _closeSet
  failed,    \* an assertion failed: the program is gone
  (* the server behind the callbacks *)
  pending,   \* the replies queued for a descriptor and not yet written
  replies,   \* how many replies were queued so far
  doomed,    \* the files a callback gave up or whose hang-up was reported
  fired      \* how often the close callback of a file was called

kernel  == <<file, interest, cond, opened>>
manager == <<cb, batch, closeSet, failed>>
server  == <<pending, replies, doomed, fired>>
vars    == <<kernel, manager, server>>

Conditions == {"in", "out", "hup"}

Conn == 1..Files

Idle == batch = <<>> /\ closeSet = {} /\ ~failed

-----------------------------------------------------------------------------
(* The kernel. *)

(* What epoll_wait reports of a number: EPOLLHUP and EPOLLERR always. *)
Revents(fd) == IF interest[fd] = {} THEN {} ELSE cond[fd] \cap (interest[fd] \cup {"hup"})

FreeFds == {fd \in Fds : file[fd] = NoFile}

(* A new file gets the lowest number. *)
Lowest(fd) == fd \in FreeFds /\ \A other \in FreeFds : fd <= other

(* A client connects: the connection waits in the listener's backlog. *)
Connect ==
  /\ file[Listener] # NoFile
  /\ "in" \notin cond[Listener]
  /\ opened < Files
  /\ opened' = opened + 1
  /\ cond' = [cond EXCEPT ![Listener] = @ \cup {"in"}]
  /\ UNCHANGED <<file, interest, manager, server>>

(* The peer of a connection sends, hangs up, or makes room for output. *)
Arrive(fd) ==
  /\ fd # Listener /\ file[fd] # NoFile
  /\ "hup" \notin cond[fd]
  /\ cond' = [cond EXCEPT ![fd] = @ \cup {"in"}]
  /\ UNCHANGED <<file, interest, opened, manager, server>>

HangUp(fd) ==
  /\ fd # Listener /\ file[fd] # NoFile
  /\ cond' = [cond EXCEPT ![fd] = @ \cup {"in", "hup"}]
  /\ UNCHANGED <<file, interest, opened, manager, server>>

MakeRoom(fd) ==
  /\ fd # Listener /\ file[fd] # NoFile
  /\ cond' = [cond EXCEPT ![fd] = @ \cup {"out"}]
  /\ UNCHANGED <<file, interest, opened, manager, server>>

-----------------------------------------------------------------------------
(* The operations of the manager, as the values they give its variables. *)

(* EPollHelper::Modify fails, with no effect, for a number not in the set. *)
Modified(watched, fd, events) ==
  IF watched[fd] = {} THEN watched ELSE [watched EXCEPT ![fd] = events]

(* Mutants: the write event replaces the read events; it is not asked for. *)
SetWriteOutOnly(watched, fd) == Modified(watched, fd, {"out"})
SetWriteInOnly(watched, fd)  == Modified(watched, fd, {"in"})

SetWrite(watched, fd)   == Modified(watched, fd, {"in", "out"})
ClearWrite(watched, fd) == Modified(watched, fd, {"in"})

(* Register asserts that the number has no callbacks yet. *)
Register(fd, f) ==
  IF cb[fd] # NoFile
  THEN failed' = TRUE /\ UNCHANGED <<cb, interest>>
  ELSE /\ cb' = [cb EXCEPT ![fd] = f]
       /\ interest' = [interest EXCEPT ![fd] = {"in"}]
       /\ UNCHANGED failed

(* The program opens a connection of its own between two calls of Wait. *)
Open ==
  /\ Idle
  /\ opened < Files
  /\ "in" \notin cond[Listener]
  /\ opened' = opened + 1
  /\ \E fd \in Fds :
       /\ Lowest(fd)
       /\ file' = [file EXCEPT ![fd] = opened + 1]
       /\ Register(fd, opened + 1)
  /\ UNCHANGED <<cond, batch, closeSet, server>>

(* epoll_wait: at most MaxEvents of the ready descriptors, in any order. *)
Wait ==
  /\ Idle
  /\ \E n \in 1..MaxEvents : \E order \in [1..n -> {fd \in Fds : Revents(fd) # {}}] :
       /\ \A i, j \in 1..n : order[i] = order[j] => i = j
       /\ batch' = [i \in 1..n |-> [fd |-> order[i], events |-> Revents(order[i]),
                                    of |-> file[order[i]]]]
  /\ UNCHANGED <<kernel, cb, closeSet, failed, server>>

-----------------------------------------------------------------------------
(* Handling the first event of the batch: IN, then OUT, then HUP. *)

Head1 == batch[1]
Fd    == Head1.fd

(* part is the next condition of the event to be handled. *)
Handling(part) ==
  /\ ~failed
  /\ batch # <<>>
  /\ part \in Head1.events
  /\ part = "out" => "in" \notin Head1.events
  /\ part = "hup" => Head1.events = {"hup"}

Done(part) ==
  batch' = IF Head1.events = {part} THEN Tail(batch)
           ELSE [batch EXCEPT ![1].events = @ \ {part}]

(* A callback returned a negative value. *)
GiveUp ==
  /\ closeSet' = closeSet \cup {Fd}
  /\ doomed' = doomed \cup {cb[Fd]}

(* The listener's read callback accepts the waiting connection and         *)
(* registers it. Out of numbers, it leaves it waiting.                     *)
Accept ==
  /\ Handling("in")
  /\ Fd = Listener
  /\ Done("in")
  /\ \/ /\ FreeFds = {}
        /\ UNCHANGED <<file, interest, cond, cb, failed>>
     \/ \E fd \in Fds :
          /\ Lowest(fd)
          /\ "in" \in cond[Listener]
          /\ file' = [file EXCEPT ![fd] = opened]
          /\ cond' = [cond EXCEPT ![Listener] = @ \ {"in"}]
          /\ Register(fd, opened)
  /\ UNCHANGED <<opened, closeSet, server>>

(* The read callback of a connection reads the request, or some of it, may *)
(* queue a reply to a registered descriptor, and may give the connection   *)
(* up.                                                                     *)
ReadCB ==
  /\ Handling("in")
  /\ Fd # Listener
  /\ Done("in")
  /\ cond' \in {cond, [cond EXCEPT ![Fd] = IF "hup" \in @ THEN @ ELSE @ \ {"in"}]}
  /\ \/ UNCHANGED <<interest, pending, replies>>
     \/ \E to \in {fd \in Fds \ {Listener} : cb[fd] # NoFile} :
          /\ replies < Replies
          /\ replies' = replies + 1
          /\ pending' = [pending EXCEPT ![to] = @ + 1]
          /\ interest' = SetWrite(interest, to)
  /\ GiveUp \/ UNCHANGED <<closeSet, doomed>>
  /\ UNCHANGED <<file, opened, cb, failed, fired>>

(* Mutant: the write events are cleared after every call. *)
AfterWriteClears(left) == ClearWrite(interest, Fd)

(* What becomes of the write events: the callback returns 0 when nothing   *)
(* is left to write, and more than 0 otherwise.                            *)
AfterWrite(left) == IF left = 0 THEN ClearWrite(interest, Fd) ELSE interest

(* Mutant: a write callback that returned 0 is taken to have failed. *)
AfterReturnZeroFails(left) == IF left = 0 THEN closeSet \cup {Fd} ELSE closeSet

(* The close set after a write callback that did not fail. *)
AfterReturn(left) == closeSet

(* The write callback writes what the descriptor has room for, or fails.   *)
WriteCB ==
  /\ Handling("out")
  /\ Done("out")
  /\ \/ /\ GiveUp
        /\ UNCHANGED <<interest, pending, cond>>
     \/ \E left \in 0 .. pending[Fd] :
          /\ left < pending[Fd] \/ pending[Fd] = 0
          /\ pending' = [pending EXCEPT ![Fd] = left]
          /\ interest' = AfterWrite(left)
          /\ cond' \in {cond, [cond EXCEPT ![Fd] = @ \ {"out"}]}
          /\ closeSet' = AfterReturn(left)
          /\ UNCHANGED doomed
  /\ UNCHANGED <<file, opened, cb, failed, replies, fired>>

(* Mutant: the descriptor is closed and nothing remembers it. *)
AfterHangUpForgotten == closeSet

AfterHangUp == closeSet \cup {Fd}

(* A hang-up closes the descriptor at once; epoll drops it with the file. *)
HupStep ==
  /\ Handling("hup")
  /\ Done("hup")
  /\ closeSet' = AfterHangUp
  /\ doomed' = doomed \cup {cb[Fd]}
  /\ file' = [file EXCEPT ![Fd] = NoFile]
  /\ interest' = [interest EXCEPT ![Fd] = {}]
  /\ cond' = [cond EXCEPT ![Fd] = {}]
  /\ UNCHANGED <<opened, cb, failed, pending, replies, fired>>

-----------------------------------------------------------------------------
(* After the batch: the close callbacks, in ascending order. *)

(* Mutant: the callbacks stay behind when the descriptor is unregistered. *)
UnregisteredHalf(fd) == cb

(* Unregister: out of the epoll set, and the callbacks go. *)
Unregistered(fd) == [cb EXCEPT ![fd] = NoFile]

(* Mutant: the close set is not cleared. *)
StillToClose(fd) == closeSet

ToClose(fd) == closeSet \ {fd}

(* The close callback releases what the server keeps for the connection;   *)
(* it may close the descriptor, as the loop itself does on a hang-up only. *)
CloseCB ==
  /\ ~failed
  /\ batch = <<>>
  /\ \E fd \in closeSet :
       /\ \A other \in closeSet : fd <= other
       /\ closeSet' = ToClose(fd)
       /\ fired' = [fired EXCEPT ![cb[fd]] = @ + 1]
       /\ pending' = [pending EXCEPT ![fd] = 0]
       /\ cb' = Unregistered(fd)
       /\ interest' = [interest EXCEPT ![fd] = {}]
       /\ \/ UNCHANGED <<file, cond>>
          \/ /\ file' = [file EXCEPT ![fd] = NoFile]
             /\ cond' = [cond EXCEPT ![fd] = {}]
  /\ UNCHANGED <<opened, batch, failed, replies, doomed>>

-----------------------------------------------------------------------------
Init ==
  /\ file = [fd \in Fds |-> IF fd = Listener THEN 1 ELSE NoFile]
  /\ interest = [fd \in Fds |-> IF fd = Listener THEN {"in"} ELSE {}]
  /\ cond = [fd \in Fds |-> {}]
  /\ opened = 1
  /\ cb = file
  /\ batch = <<>>
  /\ closeSet = {}
  /\ failed = FALSE
  /\ pending = [fd \in Fds |-> 0]
  /\ replies = 0
  /\ doomed = {}
  /\ fired = [f \in Conn |-> 0]

Peers == Connect \/ \E fd \in Fds : Arrive(fd) \/ HangUp(fd) \/ MakeRoom(fd)

Step == Accept \/ ReadCB \/ WriteCB \/ HupStep \/ CloseCB

Next == Peers \/ Open \/ Wait \/ Step

(* The loop goes on calling Wait and never stops inside it; epoll keeps    *)
(* its ready descriptors in a list and moves those it reports to the end,  *)
(* so a descriptor that stays ready is reported again. Peers make room for *)
(* what they are sent; nothing else is expected of them.                   *)
Collects(fd) == Wait /\ \E i \in DOMAIN batch' : batch'[i].fd = fd

Fairness ==
  /\ WF_vars(Step)
  /\ \A fd \in Fds : SF_vars(Collects(fd))
  /\ \A fd \in Fds : WF_vars(MakeRoom(fd))

Spec == Init /\ [][Next]_vars /\ Fairness

-----------------------------------------------------------------------------
(* Properties. *)

TypeOK ==
  /\ file \in [Fds -> 0..Files]
  /\ interest \in [Fds -> {{}, {"in"}, {"in", "out"}}]
  /\ cond \in [Fds -> SUBSET Conditions]
  /\ opened \in 1..Files
  /\ cb \in [Fds -> 0..Files]
  /\ batch \in Seq([fd : Fds, events : SUBSET Conditions, of : Conn])
  /\ closeSet \subseteq Fds
  /\ failed \in BOOLEAN
  /\ pending \in [Fds -> 0..Replies]
  /\ replies \in 0..Replies
  /\ doomed \subseteq Conn
  /\ fired \in [Conn -> Nat]

(* A close callback is called for a connection only if a callback of that  *)
(* same connection failed or its own hang-up was reported, and then once:  *)
(* no event and no entry of the close set is ever charged to the           *)
(* connection that next gets the number.                                   *)
ClosedForCause ==
  \A f \in Conn : fired[f] <= IF f \in doomed THEN 1 ELSE 0

(* Every event of the batch, and every entry of the close set, finds the   *)
(* callbacks of the very file it was about, whatever the callbacks called  *)
(* before it did: assert(cb) holds at event_mgr.hpp:161 and 208.           *)
EventsReachTheirOwn ==
  /\ \A i \in DOMAIN batch : cb[batch[i].fd] = batch[i].of
  /\ \A fd \in closeSet : cb[fd] \in doomed

(* Between two calls of Wait the callback table and epoll's set agree, and *)
(* both speak of the file the number stands for: nothing is watched        *)
(* without callbacks, and no callbacks wait for events that cannot come.   *)
TablesAgree ==
  Idle => \A fd \in Fds : /\ cb[fd] # NoFile <=> interest[fd] # {}
                          /\ cb[fd] # NoFile => cb[fd] = file[fd]

(* A reply queued for a connection is not stranded: whatever order the     *)
(* batch sets and clears write events in, a connection that has output is  *)
(* watched for room, as long as it is open.                                *)
OutputWatched ==
  ~failed => \A fd \in Fds : pending[fd] > 0 => interest[fd] \in {{}, {"in", "out"}}

(* A connection that failed or hung up is closed and forgotten.            *)
DoomedGetsClosed ==
  \A f \in Conn : f \in doomed ~> (fired[f] = 1 \/ failed)

(* Replies reach the descriptor, however many others are ready, unless     *)
(* the connection is closed first.                                         *)
OutputGetsWritten ==
  \A fd \in Fds : pending[fd] > 0 ~> (pending[fd] = 0 \/ failed)

(* Register finds the slot of its number empty: the assertion at           *)
(* event_mgr.hpp:100 holds.                                                *)
SlotsFree == ~failed

=============================================================================
