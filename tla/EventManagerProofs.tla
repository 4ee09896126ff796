------------------------- MODULE EventManagerProofs -------------------------
(***************************************************************************)
(* Proofs about EventManager, for every set of descriptor numbers, batch   *)
(* size and number of files and replies, and about EventCBManager, the     *)
(* events that the program queues for such a loop.                         *)
(***************************************************************************)
EXTENDS EventManager, EventCBManager, SequenceTheorems, TLAPS

Event == [fd : Fds, events : SUBSET Conditions, of : Conn]

(* The files that have a number or had one: the last one opened may still  *)
(* wait in the backlog.                                                    *)
LastUsed == IF "in" \in cond[Listener] THEN opened - 1 ELSE opened

(* epoll watches a number on behalf of the callbacks of its present file.  *)
WatchedForCallbacks ==
  \A fd \in Fds : interest[fd] # {} => cb[fd] # NoFile /\ cb[fd] = file[fd]

(* Callbacks that are not watched are those of a hang-up: on their way out.*)
UnwatchedOnTheWayOut ==
  \A fd \in Fds : cb[fd] # NoFile /\ interest[fd] = {} => fd \in closeSet

(* No file has two sets of callbacks, and a registered one is still open   *)
(* to the manager: its close callback was not called.                      *)
OneSetOfCallbacks ==
  \A fd \in Fds : cb[fd] # NoFile =>
    /\ cb[fd] <= LastUsed
    /\ fired[cb[fd]] = 0
    /\ \A other \in Fds : cb[other] = cb[fd] => other = fd

(* A file without a number yet was never closed. *)
UnusedNotFired == \A f \in Conn : f > LastUsed => fired[f] = 0

(* Output is queued for registered descriptors only. *)
OutputHasCallbacks ==
  \A fd \in Fds : /\ cb[fd] = NoFile => pending[fd] = 0
                  /\ pending[fd] <= replies

IInv ==
  /\ TypeOK
  /\ EventsReachTheirOwn
  /\ WatchedForCallbacks
  /\ UnwatchedOnTheWayOut
  /\ OneSetOfCallbacks
  /\ UnusedNotFired
  /\ ClosedForCause
  /\ OutputHasCallbacks
  /\ OutputWatched

-----------------------------------------------------------------------------
(* The event being handled is one of a registered descriptor. *)
LEMMA HeadEvent ==
  ASSUME IInv, batch # <<>>
  PROVE  /\ batch[1] \in Event
         /\ Fd \in Fds
         /\ cb[Fd] \in Conn
<1>1. batch \in Seq(Event) /\ 1 \in 1..Len(batch) /\ DOMAIN batch = 1..Len(batch)
  <2>1. batch \in Seq(Event)
    BY DEF IInv, TypeOK, Event
  <2>2. Len(batch) \in Nat \ {0}
    BY <2>1, EmptySeq
  <2>3. QED
    BY <2>1, <2>2, LenProperties
<1>2. batch[1] \in Event
  BY <1>1, ElementOfSeq
<1>3. Fd \in Fds /\ batch[1].of \in Conn
  BY <1>2 DEF Event, Fd, Head1
<1>4. cb[Fd] = batch[1].of
  BY <1>1 DEF IInv, EventsReachTheirOwn, Fd, Head1
<1>5. QED
  BY <1>2, <1>3, <1>4

(* Handling a part of an event leaves events of the same descriptors. *)
LEMMA DoneKeeps ==
  ASSUME IInv, batch # <<>>, NEW part, Done(part)
  PROVE  /\ batch' \in Seq(Event)
         /\ \A j \in DOMAIN batch' : \E i \in DOMAIN batch :
              batch'[j].fd = batch[i].fd /\ batch'[j].of = batch[i].of
<1>1. batch \in Seq(Event) /\ DOMAIN batch = 1..Len(batch) /\ Len(batch) \in Nat
  BY LenProperties DEF IInv, TypeOK, Event
<1>2. batch[1] \in Event
  BY HeadEvent
<1>3. CASE Head1.events = {part}
  <2>1. batch' = Tail(batch)
    BY <1>3 DEF Done
  <2>2. /\ Tail(batch) \in Seq(Event)
        /\ Len(Tail(batch)) = Len(batch) - 1
        /\ \A i \in 1 .. Len(Tail(batch)) : Tail(batch)[i] = batch[i + 1]
    BY <1>1, HeadTailProperties
  <2>3. ASSUME NEW j \in DOMAIN batch'
        PROVE  \E i \in DOMAIN batch : batch'[j].fd = batch[i].fd /\ batch'[j].of = batch[i].of
    <3>1. j \in 1 .. Len(Tail(batch))
      BY <2>1, <2>2, <2>3, LenProperties
    <3>2. j + 1 \in DOMAIN batch /\ batch'[j] = batch[j + 1]
      BY <1>1, <2>1, <2>2, <3>1
    <3>3. QED
      BY <3>2
  <2>4. QED
    BY <2>1, <2>2, <2>3
<1>4. CASE Head1.events # {part}
  <2> DEFINE e == [batch[1] EXCEPT !.events = @ \ {part}]
  <2>1. e \in Event /\ e.fd = batch[1].fd /\ e.of = batch[1].of
    BY <1>2 DEF Event
  <2>2. batch' = [batch EXCEPT ![1] = e]
    BY <1>4 DEF Done
  <2> HIDE DEF e
  <2>3. DOMAIN batch' = 1..Len(batch) /\ \A i \in 1..Len(batch) : batch'[i] = IF i = 1 THEN e ELSE batch[i]
    BY <1>1, <2>2
  <2>4. \A i \in 1..Len(batch) : batch[i] \in Event
    BY <1>1, ElementOfSeq
  <2>5. batch' \in [1..Len(batch) -> Event]
    BY <2>1, <2>2, <2>3, <2>4
  <2>6. batch' \in Seq(Event)
    BY <1>1, <2>5, SeqDef
  <2>7. QED
    BY <1>1, <2>1, <2>3, <2>6
<1>5. QED
  BY <1>3, <1>4

(* What the events of a batch are about stays as it is while the callbacks *)
(* of registered descriptors stay and the doomed only become more.         *)
LEMMA ReachKept ==
  ASSUME IInv,
         \A j \in DOMAIN batch' : \E i \in DOMAIN batch :
            batch'[j].fd = batch[i].fd /\ batch'[j].of = batch[i].of,
         \A fd \in Fds : cb[fd] # NoFile => cb'[fd] = cb[fd],
         doomed \subseteq doomed',
         \A fd \in closeSet' : fd \in closeSet \/ (fd \in Fds /\ cb[fd] # NoFile /\ cb[fd] \in doomed')
  PROVE  EventsReachTheirOwn'
<1>1. ASSUME NEW j \in DOMAIN batch' PROVE cb'[batch'[j].fd] = batch'[j].of
  <2>1. PICK i \in DOMAIN batch : batch'[j].fd = batch[i].fd /\ batch'[j].of = batch[i].of
    OBVIOUS
  <2>2. batch[i].fd \in Fds /\ batch[i].of \in Conn
    <3>1. batch \in Seq(Event) /\ i \in 1..Len(batch)
      BY LenProperties DEF IInv, TypeOK, Event
    <3>2. batch[i] \in Event
      BY <3>1, ElementOfSeq
    <3>3. QED
      BY <3>2 DEF Event
  <2>3. cb[batch[i].fd] = batch[i].of /\ batch[i].of # NoFile
    BY <2>2 DEF IInv, EventsReachTheirOwn, Conn, NoFile
  <2>4. QED
    BY <2>1, <2>2, <2>3
<1>2. ASSUME NEW fd \in closeSet' PROVE cb'[fd] \in doomed'
  <2>1. CASE fd \in closeSet
    <3>1. fd \in Fds /\ cb[fd] \in doomed /\ cb[fd] # NoFile
      BY <2>1 DEF IInv, TypeOK, EventsReachTheirOwn, Conn, NoFile
    <3>2. QED
      BY <3>1
  <2>2. QED
    BY <1>2, <2>1
<1>3. QED
  BY <1>1, <1>2 DEF EventsReachTheirOwn

-----------------------------------------------------------------------------
(* The parts of the invariant that do not speak of the batch. *)
Tables ==
  /\ WatchedForCallbacks
  /\ UnwatchedOnTheWayOut
  /\ OneSetOfCallbacks
  /\ UnusedNotFired
  /\ ClosedForCause
  /\ OutputHasCallbacks
  /\ OutputWatched

(* A new file is registered for a number that no file has. *)
LEMMA RegisterKeeps ==
  ASSUME IInv, ~failed, NEW fd \in Fds, NEW f \in Conn,
         file[fd] = NoFile, f = LastUsed + 1, LastUsed' = f,
         Register(fd, f), file' = [file EXCEPT ![fd] = f],
         UNCHANGED <<closeSet, pending, replies, doomed, fired>>
  PROVE  /\ Tables'
         /\ cb' \in [Fds -> 0..Files]
         /\ interest' \in [Fds -> {{}, {"in"}, {"in", "out"}}]
         /\ file' \in [Fds -> 0..Files]
         /\ failed' \in BOOLEAN
         /\ \A other \in Fds : cb[other] # NoFile => cb'[other] = cb[other]
<1>1. /\ file \in [Fds -> 0..Files] /\ cb \in [Fds -> 0..Files]
      /\ interest \in [Fds -> {{}, {"in"}, {"in", "out"}}]
      /\ pending \in [Fds -> 0..Replies] /\ fired \in [Conn -> Nat]
      /\ f \in 1..Files /\ f \in Int /\ opened \in Int
  <2>1. opened \in 1..Files /\ f \in 1..Files /\ Files \in Nat
    BY BoundsAssumption DEF IInv, TypeOK, Conn
  <2>2. f \in Int /\ opened \in Int
    BY <2>1
  <2>3. QED
    BY <2>1, <2>2 DEF IInv, TypeOK
<1>2. LastUsed \in Int /\ f > LastUsed
  BY <1>1 DEF LastUsed
<1>3. interest[fd] = {}
  BY DEF IInv, WatchedForCallbacks
<1>4. CASE cb[fd] # NoFile
  <2>1. failed' /\ failed' \in BOOLEAN /\ UNCHANGED <<cb, interest>>
    BY <1>4 DEF Register
  <2>2. WatchedForCallbacks' /\ UnwatchedOnTheWayOut'
    BY <1>1, <1>3, <2>1 DEF IInv, WatchedForCallbacks, UnwatchedOnTheWayOut
  <2>3. OneSetOfCallbacks'
    BY <1>1, <1>2, <2>1 DEF IInv, OneSetOfCallbacks
  <2>4. UnusedNotFired' /\ ClosedForCause'
    BY <1>1, <1>2 DEF IInv, UnusedNotFired, ClosedForCause, Conn
  <2>5. OutputHasCallbacks' /\ OutputWatched'
    BY <1>1, <2>1 DEF IInv, OutputHasCallbacks, OutputWatched
  <2>6. QED
    BY <1>1, <2>1, <2>2, <2>3, <2>4, <2>5 DEF Tables
<1>5. CASE cb[fd] = NoFile
  <2>0. ~failed' /\ failed' \in BOOLEAN
    <3>1. failed' = failed
      BY <1>5 DEF Register
    <3>2. QED
      BY <3>1 DEF IInv, TypeOK
  <2>1. cb' = [cb EXCEPT ![fd] = f] /\ interest' = [interest EXCEPT ![fd] = {"in"}]
    BY <1>5 DEF Register
  <2>2. WatchedForCallbacks' /\ UnwatchedOnTheWayOut'
    BY <1>1, <2>1 DEF IInv, WatchedForCallbacks, UnwatchedOnTheWayOut, NoFile
  <2>3. OneSetOfCallbacks'
    <3> SUFFICES ASSUME NEW x \in Fds, cb'[x] # NoFile
                 PROVE  /\ cb'[x] <= LastUsed' /\ fired'[cb'[x]] = 0
                        /\ \A y \in Fds : cb'[y] = cb'[x] => y = x
      BY DEF OneSetOfCallbacks
    <3>1. \A y \in Fds : y # fd => cb'[y] = cb[y] /\ (cb[y] # NoFile => cb[y] < f)
      BY <1>1, <1>2, <2>1 DEF IInv, OneSetOfCallbacks
    <3>2. cb'[fd] = f /\ f # NoFile
      BY <1>1, <2>1 DEF NoFile
    <3>3. CASE x = fd
      <4>1. fired'[f] = 0
        BY <1>2 DEF IInv, UnusedNotFired
      <4>2. QED
        BY <1>1, <3>1, <3>2, <3>3, <4>1
    <3>4. CASE x # fd
      BY <1>1, <1>2, <3>1, <3>2, <3>4 DEF IInv, OneSetOfCallbacks
    <3>5. QED
      BY <3>3, <3>4
  <2>4. UnusedNotFired' /\ ClosedForCause'
    BY <1>1, <1>2 DEF IInv, UnusedNotFired, ClosedForCause, Conn
  <2>5. OutputHasCallbacks'
    BY <1>1, <2>1 DEF IInv, OutputHasCallbacks, NoFile
  <2>6. OutputWatched'
    BY <1>1, <1>5, <2>1 DEF IInv, OutputHasCallbacks, OutputWatched
  <2>7. QED
    <3>1. /\ cb' \in [Fds -> 0..Files]
          /\ interest' \in [Fds -> {{}, {"in"}, {"in", "out"}}]
          /\ \A other \in Fds : cb[other] # NoFile => cb'[other] = cb[other]
      BY <1>1, <1>5, <2>1
    <3>2. file' \in [Fds -> 0..Files]
      BY <1>1
    <3>3. QED
      BY <2>0, <2>2, <2>3, <2>4, <2>5, <2>6, <3>1, <3>2 DEF Tables
<1>6. QED
  BY <1>4, <1>5

LEMMA OpenKeeps == ASSUME IInv, Open PROVE IInv'
<1>1. PICK fd \in Fds : /\ Lowest(fd)
                        /\ file' = [file EXCEPT ![fd] = opened + 1]
                        /\ Register(fd, opened + 1)
  BY DEF Open
<1>2. /\ ~failed /\ opened < Files /\ "in" \notin cond[Listener] /\ opened' = opened + 1
      /\ UNCHANGED <<cond, batch, closeSet, pending, replies, doomed, fired>>
  BY DEF Open, Idle, server
<1>3. opened \in 1..Files /\ Files \in Nat
  BY BoundsAssumption DEF IInv, TypeOK
<1>4. /\ opened + 1 \in Conn /\ opened + 1 = LastUsed + 1 /\ LastUsed' = opened + 1
      /\ file[fd] = NoFile
  BY <1>1, <1>2, <1>3 DEF LastUsed, Conn, Lowest, FreeFds
<1>5. /\ Tables'
      /\ cb' \in [Fds -> 0..Files]
      /\ interest' \in [Fds -> {{}, {"in"}, {"in", "out"}}]
      /\ file' \in [Fds -> 0..Files]
      /\ failed' \in BOOLEAN
      /\ \A other \in Fds : cb[other] # NoFile => cb'[other] = cb[other]
  BY <1>1, <1>2, <1>4, RegisterKeeps
<1>6. TypeOK'
  <2>1. opened' \in 1..Files
    BY <1>2, <1>3
  <2>2. QED
    BY <1>2, <1>5, <2>1 DEF IInv, TypeOK
<1>7. EventsReachTheirOwn'
  BY <1>2, <1>5, ReachKept
<1>8. QED
  BY <1>5, <1>6, <1>7 DEF IInv, Tables

LEMMA AcceptKeeps == ASSUME IInv, Accept PROVE IInv'
<1>1. /\ ~failed /\ batch # <<>> /\ Done("in")
      /\ UNCHANGED <<opened, closeSet, pending, replies, doomed, fired>>
  BY DEF Accept, Handling, server
<1>2. /\ batch' \in Seq(Event)
      /\ \A j \in DOMAIN batch' : \E i \in DOMAIN batch :
           batch'[j].fd = batch[i].fd /\ batch'[j].of = batch[i].of
  BY <1>1, DoneKeeps
<1>3. CASE UNCHANGED <<file, interest, cond, cb, failed>>
  <2>1. TypeOK'
    BY <1>1, <1>2, <1>3 DEF IInv, TypeOK, Event
  <2>2. EventsReachTheirOwn'
    BY <1>1, <1>2, <1>3, ReachKept
  <2>3. Tables'
    BY <1>1, <1>3 DEF IInv, Tables, WatchedForCallbacks, UnwatchedOnTheWayOut,
         OneSetOfCallbacks, UnusedNotFired, ClosedForCause, OutputHasCallbacks,
         OutputWatched, LastUsed
  <2>4. QED
    BY <2>1, <2>2, <2>3 DEF IInv, Tables
<1>4. ASSUME NEW fd \in Fds, Lowest(fd), "in" \in cond[Listener],
             file' = [file EXCEPT ![fd] = opened],
             cond' = [cond EXCEPT ![Listener] = @ \ {"in"}],
             Register(fd, opened)
      PROVE  IInv'
  <2>1. opened \in 1..Files /\ cond \in [Fds -> SUBSET Conditions] /\ Listener \in Fds
    BY FdsAssumption DEF IInv, TypeOK
  <2>2. cond' \in [Fds -> SUBSET Conditions] /\ "in" \notin cond'[Listener]
    BY <1>4, <2>1
  <2>3. /\ opened \in Conn /\ opened = LastUsed + 1 /\ LastUsed' = opened
        /\ file[fd] = NoFile
    BY <1>1, <1>4, <2>1, <2>2 DEF LastUsed, Conn, Lowest, FreeFds
  <2>4. /\ Tables'
        /\ cb' \in [Fds -> 0..Files]
        /\ interest' \in [Fds -> {{}, {"in"}, {"in", "out"}}]
        /\ file' \in [Fds -> 0..Files]
        /\ failed' \in BOOLEAN
        /\ \A other \in Fds : cb[other] # NoFile => cb'[other] = cb[other]
    BY <1>1, <1>4, <2>3, RegisterKeeps
  <2>5. TypeOK'
    BY <1>1, <1>2, <2>1, <2>2, <2>4 DEF IInv, TypeOK, Event
  <2>6. EventsReachTheirOwn'
    BY <1>1, <1>2, <2>4, ReachKept
  <2>7. QED
    BY <2>4, <2>5, <2>6 DEF IInv, Tables
<1>5. QED
  BY <1>3, <1>4 DEF Accept

-----------------------------------------------------------------------------
(* The steps of callbacks: registrations stay, files close for cause only. *)
LEMMA CallbackKeepsTables ==
  ASSUME IInv,
         UNCHANGED <<cb, fired>>, LastUsed' \in Int, LastUsed <= LastUsed',
         closeSet \subseteq closeSet', doomed \subseteq doomed',
         \A fd \in Fds : interest'[fd] # {} => interest[fd] # {} /\ file'[fd] = file[fd],
         \A fd \in Fds : interest'[fd] = {} => interest[fd] = {} \/ fd \in closeSet',
         OutputHasCallbacks', OutputWatched'
  PROVE  Tables'
<1>1. /\ cb \in [Fds -> 0..Files] /\ fired \in [Conn -> Nat] /\ Files \in Nat
      /\ LastUsed \in Int
  BY BoundsAssumption DEF IInv, TypeOK, LastUsed
<1>2. WatchedForCallbacks' /\ UnwatchedOnTheWayOut'
  BY DEF IInv, WatchedForCallbacks, UnwatchedOnTheWayOut
<1>3. OneSetOfCallbacks'
  BY <1>1 DEF IInv, OneSetOfCallbacks
<1>4. UnusedNotFired'
  BY <1>1 DEF IInv, UnusedNotFired, Conn
<1>5. ClosedForCause'
  BY <1>1 DEF IInv, ClosedForCause
<1>6. QED
  BY <1>2, <1>3, <1>4, <1>5 DEF Tables

(* Changing the events asked for keeps what is watched watched. *)
LEMMA ModifiedWatches ==
  ASSUME IInv, NEW fd \in Fds, NEW e \in {{"in"}, {"in", "out"}},
         interest' = Modified(interest, fd, e)
  PROVE  /\ interest' \in [Fds -> {{}, {"in"}, {"in", "out"}}]
         /\ \A x \in Fds : interest'[x] = {} <=> interest[x] = {}
         /\ \A x \in Fds : x # fd => interest'[x] = interest[x]
         /\ interest'[fd] \in {{}, e}
BY DEF IInv, TypeOK, Modified

LEMMA ReadKeeps == ASSUME IInv, ReadCB PROVE IInv'
<1>1. /\ ~failed /\ batch # <<>> /\ Done("in") /\ Fd # Listener
      /\ UNCHANGED <<file, opened, cb, failed, fired>>
  BY DEF ReadCB, Handling
<1>2. /\ batch' \in Seq(Event)
      /\ \A j \in DOMAIN batch' : \E i \in DOMAIN batch :
           batch'[j].fd = batch[i].fd /\ batch'[j].of = batch[i].of
  BY <1>1, DoneKeeps
<1>3. Fd \in Fds /\ cb[Fd] \in Conn /\ Listener \in Fds
  BY <1>1, HeadEvent, FdsAssumption
<1>4. cond' \in [Fds -> SUBSET Conditions] /\ cond'[Listener] = cond[Listener]
  <2>1. cond \in [Fds -> SUBSET Conditions]
    BY DEF IInv, TypeOK
  <2>2. cond' \in {cond, [cond EXCEPT ![Fd] = IF "hup" \in @ THEN @ ELSE @ \ {"in"}]}
    BY DEF ReadCB
  <2>3. (IF "hup" \in cond[Fd] THEN cond[Fd] ELSE cond[Fd] \ {"in"}) \in SUBSET Conditions
    BY <1>3, <2>1
  <2>4. QED
    BY <1>1, <1>3, <2>1, <2>2, <2>3
<1>5. LastUsed' = LastUsed /\ LastUsed \in Int /\ LastUsed' \in Int
  BY <1>1, <1>4 DEF LastUsed, IInv, TypeOK
<1>6. /\ closeSet' \subseteq Fds /\ closeSet \subseteq closeSet'
      /\ doomed' \subseteq Conn /\ doomed \subseteq doomed'
      /\ \A fd \in closeSet' : fd \in closeSet \/ (fd \in Fds /\ cb[fd] # NoFile /\ cb[fd] \in doomed')
  <2>1. closeSet \subseteq Fds /\ doomed \subseteq Conn /\ cb[Fd] # NoFile
    BY <1>3 DEF IInv, TypeOK, Conn, NoFile
  <2>2. GiveUp \/ UNCHANGED <<closeSet, doomed>>
    BY DEF ReadCB
  <2>3. QED
    BY <1>3, <2>1, <2>2 DEF GiveUp
<1>7. EventsReachTheirOwn'
  BY <1>1, <1>2, <1>6, ReachKept
<1>8. /\ interest' \in [Fds -> {{}, {"in"}, {"in", "out"}}]
      /\ \A x \in Fds : interest'[x] = {} <=> interest[x] = {}
      /\ pending' \in [Fds -> 0..Replies] /\ replies' \in 0..Replies
      /\ OutputHasCallbacks' /\ OutputWatched'
  <2>1. CASE UNCHANGED <<interest, pending, replies>>
    BY <1>1, <2>1 DEF IInv, TypeOK, OutputHasCallbacks, OutputWatched
  <2>2. ASSUME NEW to \in {fd \in Fds \ {Listener} : cb[fd] # NoFile},
               replies < Replies, replies' = replies + 1,
               pending' = [pending EXCEPT ![to] = @ + 1],
               interest' = SetWrite(interest, to)
        PROVE  /\ interest' \in [Fds -> {{}, {"in"}, {"in", "out"}}]
               /\ \A x \in Fds : interest'[x] = {} <=> interest[x] = {}
               /\ pending' \in [Fds -> 0..Replies] /\ replies' \in 0..Replies
               /\ OutputHasCallbacks' /\ OutputWatched'
    <3>1. /\ interest' \in [Fds -> {{}, {"in"}, {"in", "out"}}]
          /\ \A x \in Fds : interest'[x] = {} <=> interest[x] = {}
          /\ \A x \in Fds : x # to => interest'[x] = interest[x]
          /\ interest'[to] \in {{}, {"in", "out"}}
      BY <2>2, ModifiedWatches DEF SetWrite
    <3>2. /\ pending \in [Fds -> 0..Replies] /\ replies \in 0..Replies /\ Replies \in Nat
          /\ \A fd \in Fds : pending[fd] <= replies
          /\ \A fd \in Fds : cb[fd] = NoFile => pending[fd] = 0
      BY BoundsAssumption DEF IInv, TypeOK, OutputHasCallbacks
    <3>3. pending' \in [Fds -> 0..Replies] /\ replies' \in 0..Replies
      BY <2>2, <3>2
    <3>4. OutputHasCallbacks'
      BY <1>1, <2>2, <3>2 DEF OutputHasCallbacks
    <3>5. OutputWatched'
      BY <1>1, <2>2, <3>1, <3>2 DEF IInv, OutputWatched
    <3>6. QED
      BY <3>1, <3>3, <3>4, <3>5
  <2>3. QED
    BY <2>1, <2>2 DEF ReadCB
<1>9. Tables'
  BY <1>1, <1>5, <1>6, <1>8, CallbackKeepsTables
<1>10. TypeOK'
  BY <1>1, <1>2, <1>4, <1>6, <1>8 DEF IInv, TypeOK, Event
<1>11. QED
  BY <1>7, <1>9, <1>10 DEF IInv, Tables

LEMMA WriteKeeps == ASSUME IInv, WriteCB PROVE IInv'
<1>1. /\ ~failed /\ batch # <<>> /\ Done("out")
      /\ UNCHANGED <<file, opened, cb, failed, replies, fired>>
  BY DEF WriteCB, Handling
<1>2. /\ batch' \in Seq(Event)
      /\ \A j \in DOMAIN batch' : \E i \in DOMAIN batch :
           batch'[j].fd = batch[i].fd /\ batch'[j].of = batch[i].of
  BY <1>1, DoneKeeps
<1>3. Fd \in Fds /\ cb[Fd] \in Conn /\ Listener \in Fds
  BY <1>1, HeadEvent, FdsAssumption
<1>4. /\ cond \in [Fds -> SUBSET Conditions] /\ interest \in [Fds -> {{}, {"in"}, {"in", "out"}}]
      /\ pending \in [Fds -> 0..Replies] /\ replies \in 0..Replies /\ Replies \in Nat
      /\ closeSet \subseteq Fds /\ doomed \subseteq Conn /\ cb[Fd] # NoFile
      /\ \A fd \in Fds : pending[fd] <= replies
      /\ \A fd \in Fds : cb[fd] = NoFile => pending[fd] = 0
  <2>1. /\ cond \in [Fds -> SUBSET Conditions] /\ interest \in [Fds -> {{}, {"in"}, {"in", "out"}}]
        /\ pending \in [Fds -> 0..Replies] /\ replies \in 0..Replies
        /\ closeSet \subseteq Fds /\ doomed \subseteq Conn
    BY DEF IInv, TypeOK
  <2>2. Replies \in Nat /\ cb[Fd] # NoFile
    BY <1>3, BoundsAssumption DEF Conn, NoFile
  <2>3. /\ \A fd \in Fds : pending[fd] <= replies
        /\ \A fd \in Fds : cb[fd] = NoFile => pending[fd] = 0
    BY DEF IInv, OutputHasCallbacks
  <2>4. QED
    BY <2>1, <2>2, <2>3
<1>5. CASE GiveUp /\ UNCHANGED <<interest, pending, cond>>
  <2>1. /\ closeSet' \subseteq Fds /\ closeSet \subseteq closeSet'
        /\ doomed' \subseteq Conn /\ doomed \subseteq doomed'
        /\ \A fd \in closeSet' : fd \in closeSet \/ (fd \in Fds /\ cb[fd] # NoFile /\ cb[fd] \in doomed')
    BY <1>3, <1>4, <1>5 DEF GiveUp
  <2>2. TypeOK'
    BY <1>1, <1>2, <1>5, <2>1 DEF IInv, TypeOK, Event
  <2>3. EventsReachTheirOwn'
    BY <1>1, <1>2, <2>1, ReachKept
  <2>4. LastUsed' = LastUsed /\ LastUsed \in Int /\ LastUsed' \in Int
    BY <1>1, <1>5 DEF LastUsed, IInv, TypeOK
  <2>5. OutputHasCallbacks' /\ OutputWatched'
    BY <1>1, <1>5 DEF IInv, OutputHasCallbacks, OutputWatched
  <2>6. Tables'
    BY <1>1, <1>5, <2>1, <2>4, <2>5, CallbackKeepsTables
  <2>7. QED
    BY <2>2, <2>3, <2>6 DEF IInv, Tables
<1>6. ASSUME NEW left \in 0 .. pending[Fd],
             pending' = [pending EXCEPT ![Fd] = left],
             interest' = AfterWrite(left),
             cond' \in {cond, [cond EXCEPT ![Fd] = @ \ {"out"}]},
             closeSet' = AfterReturn(left),
             UNCHANGED doomed
      PROVE  IInv'
  <2>1. UNCHANGED <<closeSet, doomed>>
    BY <1>6 DEF AfterReturn
  <2>2. /\ interest' \in [Fds -> {{}, {"in"}, {"in", "out"}}]
        /\ \A x \in Fds : interest'[x] = {} <=> interest[x] = {}
        /\ \A x \in Fds : x # Fd => interest'[x] = interest[x]
        /\ left # 0 => interest' = interest
    <3>1. CASE left = 0
      BY <1>3, <1>6, <3>1, ModifiedWatches DEF AfterWrite, ClearWrite
    <3>2. CASE left # 0
      BY <1>4, <1>6, <3>2 DEF AfterWrite
    <3>3. QED
      BY <3>1, <3>2
  <2>3. pending' \in [Fds -> 0..Replies] /\ left \in Nat /\ left <= pending[Fd]
    BY <1>3, <1>4, <1>6
  <2>4. cond' \in [Fds -> SUBSET Conditions] /\ ("in" \in cond'[Listener] <=> "in" \in cond[Listener])
    <3>1. cond[Fd] \ {"out"} \in SUBSET Conditions
      BY <1>3, <1>4
    <3>2. QED
      BY <1>3, <1>4, <1>6, <3>1
  <2>5. TypeOK'
    BY <1>1, <1>2, <2>1, <2>2, <2>3, <2>4 DEF IInv, TypeOK, Event
  <2>6. EventsReachTheirOwn'
    BY <1>1, <1>2, <2>1, ReachKept DEF IInv, TypeOK
  <2>7. LastUsed' = LastUsed /\ LastUsed \in Int /\ LastUsed' \in Int
    BY <1>1, <2>4 DEF LastUsed, IInv, TypeOK
  <2>8. OutputHasCallbacks'
    BY <1>1, <1>3, <1>4, <1>6, <2>3 DEF OutputHasCallbacks
  <2>9. OutputWatched'
    BY <1>1, <1>3, <1>4, <1>6, <2>2, <2>3 DEF IInv, OutputWatched
  <2>10. Tables'
    BY <1>1, <2>1, <2>2, <2>7, <2>8, <2>9, CallbackKeepsTables
  <2>11. QED
    BY <2>5, <2>6, <2>10 DEF IInv, Tables
<1>7. QED
  BY <1>5, <1>6 DEF WriteCB

LEMMA HupKeeps == ASSUME IInv, HupStep PROVE IInv'
<1>1. /\ ~failed /\ batch # <<>> /\ Done("hup")
      /\ closeSet' = closeSet \cup {Fd} /\ doomed' = doomed \cup {cb[Fd]}
      /\ file' = [file EXCEPT ![Fd] = NoFile]
      /\ interest' = [interest EXCEPT ![Fd] = {}]
      /\ cond' = [cond EXCEPT ![Fd] = {}]
      /\ UNCHANGED <<opened, cb, failed, pending, replies, fired>>
  BY DEF HupStep, Handling, AfterHangUp
<1>2. /\ batch' \in Seq(Event)
      /\ \A j \in DOMAIN batch' : \E i \in DOMAIN batch :
           batch'[j].fd = batch[i].fd /\ batch'[j].of = batch[i].of
  BY <1>1, DoneKeeps
<1>3. Fd \in Fds /\ cb[Fd] \in Conn /\ Listener \in Fds /\ cb[Fd] # NoFile
  <2>1. cb[Fd] \in Conn => cb[Fd] # NoFile
    BY DEF Conn, NoFile
  <2>2. QED
    BY <1>1, <2>1, HeadEvent, FdsAssumption
<1>4. /\ cond \in [Fds -> SUBSET Conditions] /\ interest \in [Fds -> {{}, {"in"}, {"in", "out"}}]
      /\ file \in [Fds -> 0..Files] /\ 0 \in 0..Files /\ closeSet \subseteq Fds /\ doomed \subseteq Conn
      /\ opened \in Int
  <2>1. 0 \in 0..Files
    BY BoundsAssumption
  <2>2. opened \in Int
    BY DEF IInv, TypeOK
  <2>3. /\ cond \in [Fds -> SUBSET Conditions] /\ interest \in [Fds -> {{}, {"in"}, {"in", "out"}}]
        /\ file \in [Fds -> 0..Files] /\ closeSet \subseteq Fds /\ doomed \subseteq Conn
    BY DEF IInv, TypeOK
  <2>4. QED
    BY <2>1, <2>2, <2>3
<1>5. /\ closeSet' \subseteq Fds /\ closeSet \subseteq closeSet'
      /\ doomed' \subseteq Conn /\ doomed \subseteq doomed'
      /\ \A fd \in closeSet' : fd \in closeSet \/ (fd \in Fds /\ cb[fd] # NoFile /\ cb[fd] \in doomed')
  BY <1>1, <1>3, <1>4
<1>6. TypeOK'
  <2>1. cond' \in [Fds -> SUBSET Conditions] /\ file' \in [Fds -> 0..Files]
        /\ interest' \in [Fds -> {{}, {"in"}, {"in", "out"}}]
    BY <1>1, <1>4 DEF NoFile
  <2>2. QED
    BY <1>1, <1>2, <1>5, <2>1 DEF IInv, TypeOK, Event
<1>7. EventsReachTheirOwn'
  BY <1>1, <1>2, <1>5, ReachKept
<1>8. LastUsed \in Int /\ LastUsed' \in Int /\ LastUsed <= LastUsed'
  <2>1. "in" \in cond'[Listener] => "in" \in cond[Listener]
    BY <1>1, <1>3, <1>4
  <2>2. QED
    BY <1>1, <1>4, <2>1 DEF LastUsed
<1>9. OutputHasCallbacks' /\ OutputWatched'
  BY <1>1, <1>3, <1>4 DEF IInv, OutputHasCallbacks, OutputWatched
<1>10. Tables'
  BY <1>1, <1>3, <1>4, <1>5, <1>8, <1>9, CallbackKeepsTables
<1>11. QED
  BY <1>6, <1>7, <1>10 DEF IInv, Tables

-----------------------------------------------------------------------------
(* A close callback: the registration of one doomed file goes. *)
LEMMA CloseKeeps == ASSUME IInv, CloseCB PROVE IInv'
<1>1. /\ ~failed /\ batch = <<>> /\ UNCHANGED <<opened, batch, failed, replies, doomed>>
  BY DEF CloseCB
<1>2. PICK fd \in closeSet :
        /\ closeSet' = closeSet \ {fd}
        /\ fired' = [fired EXCEPT ![cb[fd]] = @ + 1]
        /\ pending' = [pending EXCEPT ![fd] = 0]
        /\ cb' = [cb EXCEPT ![fd] = NoFile]
        /\ interest' = [interest EXCEPT ![fd] = {}]
        /\ \/ UNCHANGED <<file, cond>>
           \/ /\ file' = [file EXCEPT ![fd] = NoFile]
              /\ cond' = [cond EXCEPT ![fd] = {}]
  BY DEF CloseCB, ToClose, Unregistered
<1>3. /\ cond \in [Fds -> SUBSET Conditions] /\ interest \in [Fds -> {{}, {"in"}, {"in", "out"}}]
      /\ file \in [Fds -> 0..Files] /\ cb \in [Fds -> 0..Files] /\ closeSet \subseteq Fds
      /\ doomed \subseteq Conn /\ pending \in [Fds -> 0..Replies] /\ fired \in [Conn -> Nat]
  BY DEF IInv, TypeOK
<1>4. /\ 0 \in 0..Files /\ 0 \in 0..Replies /\ Files \in Nat /\ Listener \in Fds
      /\ opened \in Int /\ NoFile = 0
  <2>1. opened \in Int
    BY DEF IInv, TypeOK
  <2>2. QED
    BY <2>1, BoundsAssumption, FdsAssumption DEF NoFile
<1>5. fd \in Fds /\ cb[fd] \in doomed /\ cb[fd] \in Conn /\ cb[fd] # NoFile /\ fired[cb[fd]] = 0
  <2>1. fd \in Fds /\ cb[fd] \in doomed /\ cb[fd] \in Conn
    BY <1>3 DEF IInv, EventsReachTheirOwn
  <2>2. cb[fd] # NoFile
    BY <2>1 DEF Conn, NoFile
  <2>3. QED
    BY <2>1, <2>2 DEF IInv, OneSetOfCallbacks
<1>6. fired' \in [Conn -> Nat] /\ fired'[cb[fd]] = 1 /\ \A f \in Conn : f # cb[fd] => fired'[f] = fired[f]
  <2>1. fired[cb[fd]] + 1 = 1
    BY <1>5
  <2>2. QED
    BY <1>2, <1>3, <1>5, <2>1
<1>7. cond' \in [Fds -> SUBSET Conditions] /\ ("in" \in cond'[Listener] => "in" \in cond[Listener])
  BY <1>2, <1>3, <1>4, <1>5
<1>8. LastUsed \in Int /\ LastUsed' \in Int /\ LastUsed <= LastUsed'
  BY <1>1, <1>4, <1>7 DEF LastUsed
<1>9. TypeOK'
  <2>1. /\ file' \in [Fds -> 0..Files] /\ cb' \in [Fds -> 0..Files]
        /\ interest' \in [Fds -> {{}, {"in"}, {"in", "out"}}]
        /\ pending' \in [Fds -> 0..Replies] /\ closeSet' \subseteq Fds
    BY <1>2, <1>3, <1>4, <1>5
  <2>2. QED
    BY <1>1, <1>6, <1>7, <2>1 DEF IInv, TypeOK
<1>10. \A x \in Fds : x # fd => cb'[x] = cb[x] /\ interest'[x] = interest[x]
                                /\ file'[x] = file[x] /\ pending'[x] = pending[x]
  BY <1>2, <1>3
<1>11. cb'[fd] = NoFile /\ interest'[fd] = {} /\ pending'[fd] = 0
  BY <1>2, <1>3, <1>5
<1>12. EventsReachTheirOwn'
  <2>1. DOMAIN batch' = {}
    BY <1>1
  <2>2. QED
    BY <1>1, <1>2, <1>3, <1>10, <2>1 DEF IInv, EventsReachTheirOwn
<1>13. WatchedForCallbacks' /\ UnwatchedOnTheWayOut'
  BY <1>2, <1>10, <1>11 DEF IInv, WatchedForCallbacks, UnwatchedOnTheWayOut
<1>14. OneSetOfCallbacks'
  <2> SUFFICES ASSUME NEW x \in Fds, cb'[x] # NoFile
               PROVE  /\ cb'[x] <= LastUsed' /\ fired'[cb'[x]] = 0
                      /\ \A y \in Fds : cb'[y] = cb'[x] => y = x
    BY DEF OneSetOfCallbacks
  <2>1. x # fd /\ cb'[x] = cb[x] /\ cb[x] # NoFile
    BY <1>10, <1>11
  <2>2. /\ cb[x] <= LastUsed /\ fired[cb[x]] = 0 /\ cb[x] \in Conn
        /\ \A y \in Fds : cb[y] = cb[x] => y = x
    <3>1. cb[x] \in Conn
      BY <1>3, <1>4, <2>1 DEF Conn
    <3>2. QED
      BY <2>1, <3>1 DEF IInv, OneSetOfCallbacks
  <2>3. cb[x] # cb[fd] /\ cb[x] \in Int
    BY <1>4, <1>5, <2>1, <2>2 DEF Conn
  <2>4. cb'[x] <= LastUsed'
    BY <1>8, <2>1, <2>2, <2>3
  <2>5. fired'[cb'[x]] = 0
    BY <1>6, <2>1, <2>2, <2>3
  <2>6. \A y \in Fds : cb'[y] = cb'[x] => y = x
    BY <1>10, <1>11, <2>1, <2>2
  <2>7. QED
    BY <2>4, <2>5, <2>6
<1>15. UnusedNotFired'
  <2> SUFFICES ASSUME NEW f \in Conn, f > LastUsed' PROVE fired'[f] = 0
    BY DEF UnusedNotFired
  <2>1. f > LastUsed /\ f \in Int
    BY <1>4, <1>8 DEF Conn
  <2>2. cb[fd] <= LastUsed /\ cb[fd] \in Int
    BY <1>4, <1>5 DEF IInv, OneSetOfCallbacks, Conn
  <2>3. f # cb[fd]
    BY <1>8, <2>1, <2>2
  <2>4. QED
    BY <1>6, <2>1, <2>3 DEF IInv, UnusedNotFired
<1>16. ClosedForCause'
  BY <1>1, <1>5, <1>6 DEF IInv, ClosedForCause
<1>17. OutputHasCallbacks'
  <2>1. replies \in Nat /\ replies' = replies
    BY <1>1, BoundsAssumption DEF IInv, TypeOK
  <2>2. QED
    BY <1>10, <1>11, <2>1 DEF IInv, OutputHasCallbacks
<1>18. OutputWatched'
  BY <1>1, <1>10, <1>11 DEF IInv, OutputWatched
<1>19. QED
  BY <1>9, <1>12, <1>13, <1>14, <1>15, <1>16, <1>17, <1>18 DEF IInv

(* epoll_wait reports watched descriptors, whose callbacks are there. *)
LEMMA WaitKeeps == ASSUME IInv, Wait PROVE IInv'
<1>1. UNCHANGED <<file, interest, cond, opened, cb, closeSet, failed, pending, replies, doomed, fired>>
  BY DEF Wait, kernel, server
<1>0. PICK n \in 1..MaxEvents : \E order \in [1..n -> {fd \in Fds : Revents(fd) # {}}] :
        batch' = [i \in 1..n |-> [fd |-> order[i], events |-> Revents(order[i]),
                                  of |-> file[order[i]]]]
  BY DEF Wait
<1>2. PICK order \in [1..n -> {fd \in Fds : Revents(fd) # {}}] :
        batch' = [i \in 1..n |-> [fd |-> order[i], events |-> Revents(order[i]),
                                  of |-> file[order[i]]]]
  BY <1>0
<1>3. n \in Nat
  BY BoundsAssumption
<1>4. ASSUME NEW fd \in Fds, Revents(fd) # {}
      PROVE  /\ Revents(fd) \in SUBSET Conditions
             /\ cb[fd] = file[fd] /\ file[fd] \in Conn
  <2>1. cond[fd] \in SUBSET Conditions /\ file[fd] \in 0..Files
    BY DEF IInv, TypeOK
  <2>2. interest[fd] # {} /\ Revents(fd) \in SUBSET Conditions
    BY <1>4, <2>1 DEF Revents
  <2>3. cb[fd] # NoFile /\ cb[fd] = file[fd]
    BY <2>2 DEF IInv, WatchedForCallbacks
  <2>4. file[fd] \in Conn
    BY <2>1, <2>3, BoundsAssumption DEF Conn, NoFile
  <2>5. QED
    BY <2>2, <2>3, <2>4
<1>5. ASSUME NEW i \in 1..n
      PROVE  batch'[i] \in Event /\ cb[batch'[i].fd] = batch'[i].of
  <2>1. /\ order[i] \in Fds /\ Revents(order[i]) # {}
        /\ batch'[i] = [fd |-> order[i], events |-> Revents(order[i]), of |-> file[order[i]]]
    BY <1>2
  <2>2. QED
    BY <1>4, <2>1 DEF Event
<1>6. batch' \in Seq(Event) /\ DOMAIN batch' = 1..n
  <2>1. batch' \in [1..n -> Event]
    BY <1>2, <1>5
  <2>2. QED
    BY <1>3, <2>1, SeqDef
<1>7. TypeOK'
  BY <1>1, <1>6 DEF IInv, TypeOK, Event
<1>8. EventsReachTheirOwn'
  BY <1>1, <1>5, <1>6 DEF IInv, EventsReachTheirOwn
<1>9. Tables'
  BY <1>1 DEF IInv, Tables, WatchedForCallbacks, UnwatchedOnTheWayOut,
       OneSetOfCallbacks, UnusedNotFired, ClosedForCause, OutputHasCallbacks,
       OutputWatched, LastUsed
<1>10. QED
  BY <1>7, <1>8, <1>9 DEF IInv, Tables

-----------------------------------------------------------------------------
(* What the peers do changes conditions only, and the backlog. *)
LEMMA PeersKeep ==
  ASSUME IInv, UNCHANGED <<file, interest, manager, server>>,
         cond' \in [Fds -> SUBSET Conditions], opened' \in 1..Files,
         LastUsed' = LastUsed
  PROVE  IInv'
<1>1. UNCHANGED <<file, interest, cb, batch, closeSet, failed, pending, replies, doomed, fired>>
  BY DEF manager, server
<1>2. TypeOK'
  BY <1>1 DEF IInv, TypeOK
<1>3. EventsReachTheirOwn' /\ Tables'
  BY <1>1 DEF IInv, EventsReachTheirOwn, Tables, WatchedForCallbacks, UnwatchedOnTheWayOut,
       OneSetOfCallbacks, UnusedNotFired, ClosedForCause, OutputHasCallbacks, OutputWatched
<1>4. QED
  BY <1>2, <1>3 DEF IInv, Tables

LEMMA PeerStepKeeps == ASSUME IInv, Peers PROVE IInv'
<1>1. /\ cond \in [Fds -> SUBSET Conditions] /\ opened \in 1..Files /\ Listener \in Fds
      /\ Files \in Nat
  BY BoundsAssumption, FdsAssumption DEF IInv, TypeOK
<1>2. CASE Connect
  <2>1. /\ "in" \notin cond[Listener] /\ opened < Files /\ opened' = opened + 1
        /\ cond' = [cond EXCEPT ![Listener] = @ \cup {"in"}]
        /\ UNCHANGED <<file, interest, manager, server>>
    BY <1>2 DEF Connect
  <2>2. cond' \in [Fds -> SUBSET Conditions] /\ "in" \in cond'[Listener] /\ opened' \in 1..Files
    BY <1>1, <2>1 DEF Conditions
  <2>3. LastUsed' = LastUsed
    BY <1>1, <2>1, <2>2 DEF LastUsed
  <2>4. QED
    BY <2>1, <2>2, <2>3, PeersKeep
<1>3. ASSUME NEW fd \in Fds, NEW more \in SUBSET Conditions, fd # Listener,
             cond' = [cond EXCEPT ![fd] = @ \cup more],
             UNCHANGED <<file, interest, opened, manager, server>>
      PROVE  IInv'
  <2>1. cond' \in [Fds -> SUBSET Conditions] /\ cond'[Listener] = cond[Listener]
    BY <1>1, <1>3
  <2>2. LastUsed' = LastUsed
    BY <1>3, <2>1 DEF LastUsed
  <2>3. QED
    BY <1>1, <1>3, <2>1, <2>2, PeersKeep
<1>4. ASSUME NEW fd \in Fds, Arrive(fd) \/ HangUp(fd) \/ MakeRoom(fd) PROVE IInv'
  <2>1. PICK more \in SUBSET Conditions :
          /\ fd # Listener /\ cond' = [cond EXCEPT ![fd] = @ \cup more]
          /\ UNCHANGED <<file, interest, opened, manager, server>>
    <3>1. {"in"} \in SUBSET Conditions /\ {"in", "hup"} \in SUBSET Conditions /\ {"out"} \in SUBSET Conditions
      BY DEF Conditions
    <3>2. QED
      BY <1>4, <3>1 DEF Arrive, HangUp, MakeRoom
  <2>2. QED
    BY <1>3, <2>1
<1>5. QED
  BY <1>2, <1>4 DEF Peers

LEMMA IInvInitial == Init => IInv
<1> SUFFICES ASSUME Init PROVE IInv
  OBVIOUS
<1>1. /\ Files \in Nat \ {0} /\ Listener \in Fds /\ Replies \in Nat
      /\ 0 \in 0..Files /\ 1 \in 0..Files /\ 1 \in 1..Files /\ 0 \in 0..Replies
  BY BoundsAssumption, FdsAssumption
<1>2. /\ file \in [Fds -> 0..Files] /\ cb \in [Fds -> 0..Files]
      /\ interest \in [Fds -> {{}, {"in"}, {"in", "out"}}]
      /\ cond \in [Fds -> SUBSET Conditions]
      /\ pending \in [Fds -> 0..Replies] /\ fired \in [Conn -> Nat]
  BY <1>1 DEF Init, NoFile
<1>3. failed \in BOOLEAN /\ ~failed
  BY DEF Init
<1>4. /\ batch \in Seq([fd : Fds, events : SUBSET Conditions, of : Conn]) /\ DOMAIN batch = {}
      /\ closeSet = {} /\ doomed = {} /\ opened = 1 /\ replies = 0
  BY DEF Init
<1>5. TypeOK
  BY <1>1, <1>2, <1>3, <1>4 DEF TypeOK
<1>6. LastUsed = 1
  BY <1>1, <1>4 DEF Init, LastUsed
<1>7. /\ \A fd \in Fds : cb[fd] = IF fd = Listener THEN 1 ELSE 0
      /\ \A fd \in Fds : interest[fd] = IF fd = Listener THEN {"in"} ELSE {}
      /\ \A fd \in Fds : pending[fd] = 0
      /\ \A f \in Conn : fired[f] = 0
      /\ cb = file /\ 1 \in Conn
  BY <1>1 DEF Init, NoFile, Conn
<1>8. EventsReachTheirOwn
  BY <1>4 DEF EventsReachTheirOwn
<1>9. WatchedForCallbacks /\ UnwatchedOnTheWayOut /\ OneSetOfCallbacks
  BY <1>6, <1>7 DEF WatchedForCallbacks, UnwatchedOnTheWayOut, OneSetOfCallbacks, NoFile
<1>10. UnusedNotFired /\ ClosedForCause /\ OutputHasCallbacks /\ OutputWatched
  BY <1>4, <1>7 DEF UnusedNotFired, ClosedForCause, OutputHasCallbacks, OutputWatched
<1>11. QED
  BY <1>5, <1>8, <1>9, <1>10 DEF IInv

LEMMA IInvKept == IInv /\ [Next]_vars => IInv'
<1> SUFFICES ASSUME IInv, [Next]_vars PROVE IInv'
  OBVIOUS
<1>1. CASE UNCHANGED vars
  <2>1. UNCHANGED <<file, interest, cond, opened, cb, batch, closeSet, failed, pending, replies, doomed, fired>>
    BY <1>1 DEF vars, kernel, manager, server
  <2>2. TypeOK'
    BY <2>1 DEF IInv, TypeOK
  <2>3. EventsReachTheirOwn' /\ Tables'
    BY <2>1 DEF IInv, EventsReachTheirOwn, Tables, WatchedForCallbacks, UnwatchedOnTheWayOut,
         OneSetOfCallbacks, UnusedNotFired, ClosedForCause, OutputHasCallbacks, OutputWatched,
         LastUsed
  <2>4. QED
    BY <2>2, <2>3 DEF IInv, Tables
<1>2. QED
  BY <1>1, PeerStepKeeps, OpenKeeps, WaitKeeps, AcceptKeeps, ReadKeeps, WriteKeeps,
     HupKeeps, CloseKeeps DEF Next, Step

THEOREM IInvInvariant == Spec => []IInv
BY IInvInitial, IInvKept, PTL DEF Spec

(* The type invariant of the event loop and of what surrounds it. *)
THEOREM TypeCorrect == Spec => []TypeOK
<1>1. IInv => TypeOK
  BY DEF IInv
<1>2. QED
  BY <1>1, IInvInvariant, PTL

(* Close callbacks are called for the connections that failed, and once.   *)
THEOREM CloseOnce == Spec => []ClosedForCause
<1>1. IInv => ClosedForCause
  BY DEF IInv
<1>2. QED
  BY <1>1, IInvInvariant, PTL

(* Events and close set entries find the callbacks of their own file.      *)
THEOREM NoStaleEvent == Spec => []EventsReachTheirOwn
<1>1. IInv => EventsReachTheirOwn
  BY DEF IInv
<1>2. QED
  BY <1>1, IInvInvariant, PTL

(* Between two calls of Wait the callback table and epoll's set agree.     *)
THEOREM TablesInStep == Spec => []TablesAgree
<1>1. IInv => TablesAgree
  <2> SUFFICES ASSUME IInv, Idle, NEW fd \in Fds
               PROVE  /\ cb[fd] # NoFile <=> interest[fd] # {}
                      /\ cb[fd] # NoFile => cb[fd] = file[fd]
    BY DEF TablesAgree
  <2>1. cb[fd] # NoFile => interest[fd] # {}
    BY DEF IInv, UnwatchedOnTheWayOut, Idle
  <2>2. QED
    BY <2>1 DEF IInv, WatchedForCallbacks
<1>2. QED
  BY <1>1, IInvInvariant, PTL

(* A connection that has output is watched for room while it is open.      *)
THEOREM NoStrandedOutput == Spec => []OutputWatched
<1>1. IInv => OutputWatched
  BY DEF IInv
<1>2. QED
  BY <1>1, IInvInvariant, PTL

-----------------------------------------------------------------------------
(* The program's own events (EventCBManager), for every set of event types,*)
(* any number of events and both kinds of loop: no wake-up is lost, and    *)
(* events are called once and in order.                                    *)

(* The events not yet called are the ones in the deque. *)
Uncalled ==
  ~halted =>
    /\ Len(log) = done + Len(queue)
    /\ \A i \in 1..Len(queue) : queue[i] = log[done + i]

(* Where the loop is tells which of the collected events remain: without   *)
(* this, a read that completes could be taken for one being handled.       *)
Position ==
  /\ pc = "reading" => "in" \in events
  /\ pc = "writing" => events = {"out"}

QueueInv ==
  /\ QueueTypeOK
  /\ Position
  /\ WakeUpPending
  /\ Uncalled

-----------------------------------------------------------------------------
LEMMA QueueInvInitial == QueueInit => QueueInv
<1> SUFFICES ASSUME QueueInit PROVE QueueInv
  OBVIOUS
<1>1. QueueTypeOK
  <2>1. halted \in BOOLEAN /\ watched \in BOOLEAN
    BY DEF QueueInit
  <2>2. queue \in Seq(Types) /\ log \in Seq(Types)
    BY DEF QueueInit
  <2>3. QED
    BY <2>1, <2>2 DEF QueueInit, QueueTypeOK
<1>2. Position /\ WakeUpPending /\ Uncalled
  BY DEF QueueInit, Position, WakeUpPending, Uncalled
<1>3. QED
  BY <1>1, <1>2 DEF QueueInv

(* Pushing an event keeps the deque in step with the history. *)
LEMMA PushUncalled ==
  ASSUME NEW q \in Seq(Types), NEW l \in Seq(Types), NEW d \in Nat, NEW u \in Types,
         Len(l) = d + Len(q), \A i \in 1..Len(q) : q[i] = l[d + i]
  PROVE  /\ Append(q, u) \in Seq(Types)
         /\ Append(l, u) \in Seq(Types)
         /\ Len(Append(l, u)) = d + Len(Append(q, u))
         /\ \A i \in 1..Len(Append(q, u)) : Append(q, u)[i] = Append(l, u)[d + i]
<1>1. /\ Append(q, u) \in Seq(Types) /\ Len(Append(q, u)) = Len(q) + 1
      /\ \A i \in 1..Len(q) : Append(q, u)[i] = q[i]
      /\ Append(q, u)[Len(q) + 1] = u
  BY AppendProperties
<1>2. /\ Append(l, u) \in Seq(Types) /\ Len(Append(l, u)) = Len(l) + 1
      /\ \A i \in 1..Len(l) : Append(l, u)[i] = l[i]
      /\ Append(l, u)[Len(l) + 1] = u
  BY AppendProperties
<1>3. Len(q) \in Nat /\ Len(l) \in Nat
  OBVIOUS
<1>4. ASSUME NEW i \in 1..Len(Append(q, u))
      PROVE  Append(q, u)[i] = Append(l, u)[d + i]
  <2>1. CASE i = Len(q) + 1
    BY <1>1, <1>2, <1>3, <2>1
  <2>2. CASE i \in 1..Len(q)
    <3>1. d + i \in 1..Len(l)
      BY <1>3, <2>2
    <3>2. QED
      BY <1>1, <1>2, <2>2, <3>1
  <2>3. QED
    BY <1>1, <1>3, <2>1, <2>2
<1>5. Len(Append(l, u)) = d + Len(Append(q, u))
  BY ONLY <1>1, <1>2, <1>3, d \in Nat, Len(l) = d + Len(q)
<1>6. \A i \in 1..Len(Append(q, u)) : Append(q, u)[i] = Append(l, u)[d + i]
  BY ONLY <1>4
<1>7. QED
  BY ONLY <1>1, <1>2, <1>5, <1>6

(* So does popping the oldest one. *)
LEMMA PopUncalled ==
  ASSUME NEW q \in Seq(Types), NEW l \in Seq(Types), NEW d \in Nat, q # <<>>,
         Len(l) = d + Len(q), \A i \in 1..Len(q) : q[i] = l[d + i]
  PROVE  /\ Tail(q) \in Seq(Types)
         /\ Len(l) = (d + 1) + Len(Tail(q))
         /\ \A i \in 1..Len(Tail(q)) : Tail(q)[i] = l[(d + 1) + i]
<1>1. /\ Tail(q) \in Seq(Types) /\ Len(Tail(q)) = Len(q) - 1
      /\ \A i \in 1..Len(Tail(q)) : Tail(q)[i] = q[i + 1]
  BY HeadTailProperties
<1>2. Len(q) \in Nat /\ Len(q) # 0
  BY EmptySeq
<1>3. ASSUME NEW i \in 1..Len(Tail(q))
      PROVE  Tail(q)[i] = l[(d + 1) + i]
  <2>1. i + 1 \in 1..Len(q) /\ d + (i + 1) = (d + 1) + i
    BY <1>1, <1>2
  <2>2. QED
    BY <1>1, <2>1
<1>4. QED
  BY <1>1, <1>2, <1>3

-----------------------------------------------------------------------------
LEMMA QueueKeeps ==
  ASSUME QueueInv, NEW u \in Types, Queue(u)
  PROVE  QueueInv'
<1>1. ~halted /\ ~halted' /\ pc = "loop" /\ pc' = "loop"
  BY DEF Queue
<1>2. /\ queue' = Append(queue, u) /\ log' = Append(log, u)
      /\ UNCHANGED <<loop, cbMap, counter, events, pc, halted, done>>
  BY DEF Queue, PushBack
<1>3. /\ queue' \in Seq(Types) /\ log' \in Seq(Types)
      /\ Len(log') = done + Len(queue')
      /\ \A i \in 1..Len(queue') : queue'[i] = log'[done + i]
  BY <1>1, <1>2, PushUncalled DEF QueueInv, QueueTypeOK, Uncalled
<1>4. Uncalled'
  BY <1>2, <1>3 DEF Uncalled
<1>5. QueueTypeOK' /\ (watched' \/ writes' > 0)
  <2>1. watched' \in BOOLEAN /\ halted' \in BOOLEAN
    BY <1>2 DEF QueueInv, QueueTypeOK, Queue, Notify, AskToWrite
  <2>2. writes' \in Nat /\ (watched' \/ writes' > 0)
    BY DEF QueueInv, QueueTypeOK, Queue, Notify, AskToWrite
  <2>3. QED
    BY <1>2, <1>3, <2>1, <2>2 DEF QueueInv, QueueTypeOK
<1>6. Position' /\ WakeUpPending'
  BY <1>1, <1>2, <1>5 DEF QueueInv, Position, WakeUpPending
<1>7. QED
  BY <1>4, <1>5, <1>6 DEF QueueInv

LEMMA FireKeeps ==
  ASSUME QueueInv, Fire
  PROVE  QueueInv'
<1>1. /\ pc = "reading" /\ queue # <<>> /\ ~halted
      /\ UNCHANGED <<loop, cbMap, counter, events, pc>>
  BY DEF Fire
<1>2. /\ Tail(queue) \in Seq(Types)
      /\ Len(log) = (done + 1) + Len(Tail(queue))
      /\ \A i \in 1..Len(Tail(queue)) : Tail(queue)[i] = log[(done + 1) + i]
  BY <1>1, PopUncalled DEF QueueInv, QueueTypeOK, Uncalled
<1>3. Position' /\ WakeUpPending'
  BY <1>1 DEF QueueInv, Position, WakeUpPending
<1>4. CASE Head(queue) \notin cbMap
  <2>1. halted' /\ halted' \in BOOLEAN /\ queue' = Tail(queue) /\ UNCHANGED <<watched, writes, log, done>>
    BY <1>4 DEF Fire
  <2>2. QueueTypeOK'
    BY <1>1, <1>2, <2>1 DEF QueueInv, QueueTypeOK
  <2>3. QED
    BY <1>3, <2>1, <2>2 DEF QueueInv, Uncalled
<1>5. CASE Head(queue) \in cbMap /\ queue' = Tail(queue) /\ UNCHANGED <<watched, writes, log>>
  <2>1. done' = done + 1 /\ UNCHANGED halted
    BY <1>5 DEF Fire
  <2>2. QueueTypeOK'
    BY <1>1, <1>2, <1>5, <2>1 DEF QueueInv, QueueTypeOK
  <2>3. Uncalled'
    BY <1>2, <1>5, <2>1 DEF Uncalled
  <2>4. QED
    BY <1>3, <2>2, <2>3 DEF QueueInv
<1>6. ASSUME Head(queue) \in cbMap, NEW u \in Types,
             queue' = Append(Tail(queue), u), log' = Append(log, u), Notify
      PROVE  QueueInv'
  <2>1. done' = done + 1 /\ UNCHANGED halted /\ done + 1 \in Nat /\ log \in Seq(Types)
    BY <1>6 DEF Fire, QueueInv, QueueTypeOK
  <2>2. /\ queue' \in Seq(Types) /\ log' \in Seq(Types)
        /\ Len(log') = done' + Len(queue')
        /\ \A i \in 1..Len(queue') : queue'[i] = log'[done' + i]
    <3> DEFINE t == Tail(queue)
               d == done + 1
    <3>1. /\ t \in Seq(Types) /\ d \in Nat /\ Len(log) = d + Len(t)
          /\ \A i \in 1..Len(t) : t[i] = log[d + i]
      BY <1>2, <2>1
    <3>2. queue' = Append(t, u) /\ done' = d
      BY <1>6, <2>1
    <3>3. log' = Append(log, u) /\ log \in Seq(Types) /\ u \in Types
      BY <1>6, <2>1
    <3> HIDE DEF t, d
    <3>4. /\ Append(t, u) \in Seq(Types) /\ Append(log, u) \in Seq(Types)
          /\ Len(Append(log, u)) = d + Len(Append(t, u))
          /\ \A i \in 1..Len(Append(t, u)) : Append(t, u)[i] = Append(log, u)[d + i]
      BY <3>1, <3>3, PushUncalled
    <3>5. QED
      BY <3>2, <3>3, <3>4
  <2>3. QueueTypeOK'
    <3>1. watched' \in BOOLEAN /\ halted' \in BOOLEAN
      BY <1>6, <2>1 DEF QueueInv, QueueTypeOK, Notify, AskToWrite
    <3>2. writes' \in Nat
      BY <1>6 DEF QueueInv, QueueTypeOK, Notify, AskToWrite
    <3>3. QED
      BY <1>1, <2>1, <2>2, <3>1, <3>2 DEF QueueInv, QueueTypeOK
  <2>4. Uncalled'
    BY <2>2 DEF Uncalled
  <2>5. QED
    BY <1>3, <2>3, <2>4 DEF QueueInv
<1>7. QED
  BY <1>4, <1>5, <1>6 DEF Fire

(* The steps that touch neither the deque nor the history. *)
LEMMA QueueInvKept == QueueInv /\ [QueueNext]_queueVars => QueueInv'
<1> SUFFICES ASSUME QueueInv, [QueueNext]_queueVars PROVE QueueInv'
  OBVIOUS
<1> USE DEF QueueInv
<1>1. ASSUME NEW u \in Types, Queue(u) PROVE QueueInv'
  BY <1>1, QueueKeeps
<1>2. ASSUME NEW u \in Types, RegisterType(u) \/ UnregisterType(u) PROVE QueueInv'
  BY <1>2 DEF RegisterType, UnregisterType, QueueTypeOK, Position, WakeUpPending, Uncalled
<1>3. CASE CarryOut
  BY <1>3 DEF CarryOut, QueueTypeOK, Position, WakeUpPending, Uncalled
<1>4. CASE Collect
  BY <1>4 DEF Collect, QueueTypeOK, Position, WakeUpPending, Uncalled
<1>5. CASE Complete
  BY <1>5 DEF Complete, QueueTypeOK, Position, WakeUpPending, Uncalled
<1>6. CASE BeginRead
  BY <1>6 DEF BeginRead, AfterRead, QueueTypeOK, Position, WakeUpPending, Uncalled
<1>7. CASE Fire
  BY <1>7, FireKeeps
<1>8. CASE EndRead
  BY <1>8 DEF EndRead, Drained, QueueTypeOK, Position, WakeUpPending, Uncalled
<1>9. CASE Write
  <2>1. Len(queue) \in Nat /\ (queue # <<>> => Len(queue) > 0)
    BY EmptySeq DEF QueueTypeOK
  <2>2. /\ watched' = FALSE /\ watched' \in BOOLEAN /\ events' = {} /\ pc' = "loop"
        /\ counter' = counter + Len(queue) /\ ~halted
        /\ UNCHANGED <<loop, queue, cbMap, writes, halted, log, done>>
    BY <1>9 DEF Write
  <2>3. QueueTypeOK'
    BY <2>1, <2>2 DEF QueueTypeOK
  <2>4. Position' /\ WakeUpPending' /\ Uncalled'
    BY <2>1, <2>2 DEF QueueTypeOK, Position, WakeUpPending, Uncalled
  <2>5. QED
    BY <2>3, <2>4
<1>10. CASE UNCHANGED queueVars
  BY <1>10 DEF queueVars, QueueTypeOK, Position, WakeUpPending, Uncalled
<1>11. QED
  BY <1>1, <1>2, <1>3, <1>4, <1>5, <1>6, <1>7, <1>8, <1>9, <1>10
     DEF QueueNext, Program, LoopStep

THEOREM QueueInvInvariant == QueueSpec => []QueueInv
BY QueueInvInitial, QueueInvKept, PTL DEF QueueSpec

(* The type invariant of the event queue. *)
THEOREM QueueTypeCorrect == QueueSpec => []QueueTypeOK
<1>1. QueueInv => QueueTypeOK
  BY DEF QueueInv
<1>2. QED
  BY <1>1, QueueInvInvariant, PTL

(* Events that are queued always have a wake-up on its way. *)
THEOREM NoWakeUpLost == QueueSpec => []WakeUpPending
<1>1. QueueInv => WakeUpPending
  BY DEF QueueInv
<1>2. QED
  BY <1>1, QueueInvInvariant, PTL

(* Events are called in the order they were queued, each of them once. *)
THEOREM InOrder == QueueSpec => []CalledInOrder
<1>1. QueueInv => CalledInOrder
  <2> SUFFICES ASSUME QueueInv, ~halted
               PROVE  SubSeq(log, done + 1, Len(log)) = queue
    BY DEF CalledInOrder
  <2>1. /\ log \in Seq(Types) /\ queue \in Seq(Types) /\ done \in Nat
        /\ Len(log) = done + Len(queue) /\ Len(queue) \in Nat
        /\ \A i \in 1..Len(queue) : queue[i] = log[done + i]
    BY DEF QueueInv, QueueTypeOK, Uncalled
  <2> DEFINE s == SubSeq(log, done + 1, Len(log))
  <2>2. /\ s \in Seq(Types) /\ Len(s) = Len(queue)
        /\ \A i \in 1..Len(s) : s[i] = log[done + i]
    <3>1. done + 1 \in 1..Len(log) + 1 /\ Len(log) \in done .. Len(log)
      BY <2>1
    <3>2. /\ s \in Seq(Types)
          /\ Len(s) = IF done + 1 <= Len(log) THEN Len(log) - (done + 1) + 1 ELSE 0
          /\ \A i \in 1 .. Len(log) - (done + 1) + 1 : s[i] = log[(done + 1) + i - 1]
      <4>1. \A i \in done + 1 .. Len(log) : log[i] \in Types
        BY <2>1, ElementOfSeq
      <4>2. done + 1 \in Int /\ Len(log) \in Int
        BY <2>1
      <4>3. QED
        BY <4>1, <4>2, SubSeqProperties
    <3>3. QED
      BY <2>1, <3>2
  <2> HIDE DEF s
  <2>3. s = queue
    BY <2>1, <2>2, SeqEqual
  <2>4. QED
    BY <2>3 DEF s
<1>2. QED
  BY <1>1, QueueInvInvariant, PTL

=============================================================================
