------------------------------ MODULE WebSocket ------------------------------
(***************************************************************************)
(* coypu::http::websocket::WebSocketManager (include/echidna/              *)
(* websocket.hpp): the upgrade of an HTTP connection and the frames that   *)
(* follow it. The module composes a client's manager with a server's, each *)
(* with its one connection, over the two directions of a byte stream that  *)
(* deliver any prefix of what was sent, and with the event loop that calls *)
(* Read and Write.                                                         *)
(*                                                                         *)
(* The bytes are counted in units: a line of the handshake, the two bytes  *)
(* a frame begins with, an extended length, a mask, or a piece of payload. *)
(* The code acts on a unit only when it has all of it. Each round of       *)
(* ProcessState is one step, so that what its callbacks do may come in     *)
(* between; the keys of the handshake always match, and no frame reads as  *)
(* a line. The client checks the answer for a header that the server does  *)
(* not send: two ends of the library never open. So one of them may be     *)
(* another implementation, that is served by the same code but for the     *)
(* headers of its handshake.                                               *)
(***************************************************************************)
EXTENDS Integers, Sequences, SequencesExt, FiniteSetsExt

CONSTANTS
  Asked,         \* the headers of a request, as Stream sends them
  Answered,      \* the headers of the answer of a server
  Wanted,        \* the headers a side checks for: 4 of an answer, 5 of a request
  Capacity,      \* the size of _writeBuf, in units
  Lengths,       \* the payloads of published frames, in units
  Sends,         \* the frames the program of each side queues: ops and payloads
  Extended,      \* from this length on a frame has an extended length: 126
  MaxQueued,     \* bound on the frames the program of each side queues
  Partial,       \* the sides whose connection may take a part of _writeBuf
  MaxPublished   \* bound on the frames published by the server

ASSUME LengthsAssumption == Lengths \subseteq Nat /\ Extended \in Nat
ASSUME SendsAssumption ==
  Sends \in [{"client", "server"} -> SUBSET ({"text", "ping", "close"} \X Nat)]
ASSUME BoundsAssumption  == Capacity \in Nat /\ MaxQueued \in [{"client", "server"} -> Nat] /\ MaxPublished \in Nat

Headers == Asked \cup Answered \cup Wanted["client"] \cup Wanted["server"]

ASSUME HeadersAssumption ==
  /\ Headers \cap {"first", "blank", "start", "length", "mask", "payload"} = {}
  /\ IsFiniteSet(Headers) /\ \A names \in {Asked, Wanted["client"]} : Cardinality(names) + 2 <= Capacity
  /\ Wanted["server"] \subseteq Asked /\ Answered \subseteq Wanted["client"]

VARIABLES
  foreign,     \* the side that is another implementation, or "neither"
  state,       \* _state, or "NONE" when the connection is not registered
  first,       \* _method, _version and _responsecode are those of an upgrade
  headers,     \* the keys of _headers
  http,        \* _httpBuf
  stream,      \* what _stream holds from its CurrentOffset on
  frame,       \* _frame
  processing,  \* Read is in its loop over ProcessState
  writeBuf,    \* _writeBuf
  head,        \* _head of _writeBuf: where its next unit is stored
  publish,     \* what _publish holds from the position of the connection on
  asked,       \* Stream was called
  watched,     \* the descriptor is watched for room to write
  (* the connection *)
  wire,        \* the units on their way to a side
  (* history *)
  queued,      \* the frames queued, through _writeBuf
  published,   \* the frames published
  got,         \* the frames taken from _stream, with their payload, by the
               \* buffer they went out through
  mishaps,     \* what went wrong; see below
  failed       \* an assertion failed: a program is gone

parsing == <<foreign, first, headers, http>>
input   == <<state, parsing, stream, frame, processing, got>>
output  == <<asked, writeBuf, head, publish, watched, queued, published>>
vars    == <<input, output, wire, mishaps, failed>>

Sides == {"client", "server"}
Other(s) == IF s = "client" THEN "server" ELSE "client"

(* "cut": a Read ended inside the handshake. "swapped": a header had both  *)
(* an extended length and a mask. "mixed": a queued frame was written      *)
(* inside a published one. "truncated": a frame did not fit _writeBuf.     *)
(* "refused": Writev was called with the head of _writeBuf at slot 0.      *)
Mishaps == {"cut", "swapped", "mixed", "truncated", "refused"}

-----------------------------------------------------------------------------
(* Units. *)

Lesser(a, b) == IF a < b THEN a ELSE b

Ops == {"text", "ping", "pong", "close"}

(* via tells the way a frame went out, id which frame of that way it is.   *)
Ways   == {"writeBuf", "publish"}
Frames == [op : Ops \cup {"other"}, len : Nat, masked : BOOLEAN, via : Ways, id : Nat]

Frame(s, op, len, via, id) ==
  [op |-> op, len |-> len, masked |-> s = "client", via |-> via, id |-> id]

(* Bytes read as the beginning of a frame that were not sent as one. *)
NoFrame == Frame("server", "other", 0, "writeBuf", 0)

(* at is the place of a unit in its frame.                                 *)
Unit(kind, f, i) == [kind |-> kind, frame |-> f, at |-> i]
Line(name)       == Unit(name, NoFrame, 0)

Kinds == {"first", "blank", "start", "length", "mask", "payload"} \cup Headers

IsLine(u) == u.kind \in {"first", "blank"} \cup Headers

(* A request or an answer with headers of these names. *)
Handshake(names) == <<Line("first")>> \o SetToSeq({Line(h) : h \in names}) \o <<Line("blank")>>

LengthUnits(f) == IF f.len >= Extended THEN 1 ELSE 0
MaskUnits(f)   == IF f.masked THEN 1 ELSE 0

HeaderUnits(f) == 1 + LengthUnits(f) + MaskUnits(f)

KindAt(f, i) ==
  CASE i = 1                              -> "start"
    [] 1 < i /\ i <= 1 + LengthUnits(f)   -> "length"
    [] 1 + LengthUnits(f) < i /\ i <= HeaderUnits(f) -> "mask"
    [] OTHER                              -> "payload"

(* The units of a frame in the order they are pushed. *)
Units(f) == [i \in 1 .. HeaderUnits(f) + f.len |-> Unit(KindAt(f, i), f, i)]

(* The payload of a frame. *)
Payload(f) == [i \in 1 .. f.len |-> Unit("payload", f, HeaderUnits(f) + i)]

(* A call moves one unit or all that there are: with pieces of every size  *)
(* already on the wire, the reader is cut short everywhere.                *)
Pieces(u) == IF u = <<>> THEN {} ELSE {1, Len(u)}

Rest(u, n)   == SubSeq(u, n + 1, Len(u))
Prefix(u, n) == SubSeq(u, 1, n)

-----------------------------------------------------------------------------
(* Output. *)

Opened(s) == state[s] \in {"OPEN", "OPEN_DATA"}

Free(s) == Capacity - Len(writeBuf[s])

(* What WriteFrame asks for: room for the mask, but only without one. *)
Fits(s, f) == Free(s) >= 1 + LengthUnits(f) + f.len + 1 - MaskUnits(f)

(* Mutant: Queue without the check of the state. *)
AcceptsAlways(s, f) == Fits(s, f)

(* Queue returns true. *)
Accepts(s, f) == Opened(s) /\ Fits(s, f)

(* Mutant: the pushes of Queue overrun the buffer. *)
PushedWhole(s, f) == writeBuf[s] \o Units(f)

(* The units of a frame that is accepted are pushed as far as they fit:    *)
(* PushMask pushes its bytes one by one.                                   *)
Pushed(s, f) == writeBuf[s] \o Prefix(Units(f), Lesser(Free(s), Len(Units(f))))

(* The head after units were pushed. *)
Advance(s, n) == [head EXCEPT ![s] = (@ + n) % Capacity]

QueueFrame(s, f) ==
  /\ Accepts(s, f)
  /\ head' = Advance(s, Len(Pushed(s, f)) - Len(writeBuf[s]))
  /\ writeBuf' = [writeBuf EXCEPT ![s] = Pushed(s, f)]
  /\ queued' = [queued EXCEPT ![s] = Append(@, f)]
  /\ watched' = [watched EXCEPT ![s] = TRUE]
  /\ mishaps' = IF Len(Units(f)) > Free(s) THEN mishaps \cup {"truncated"} ELSE mishaps
  /\ UNCHANGED <<publish, published>>

NextFrame(s, op, len) == Frame(s, op, len, "writeBuf", Len(queued[s]) + 1)

(* The program queues a frame, from a callback or between them. *)
Queue(s, op, len) ==
  /\ Len(queued[s]) < MaxQueued[s]
  /\ QueueFrame(s, NextFrame(s, op, len))
  /\ UNCHANGED <<input, asked, wire, failed>>

(* The program publishes a frame to the connections that opened, and calls *)
(* SetWriteAll.                                                            *)
Publish(len) ==
  LET f == Frame("server", "text", len, "publish", Len(published) + 1) IN
  /\ Len(published) < MaxPublished
  /\ state["server"] \notin {"CONNECTING", "NONE"}
  /\ publish' = publish \o Units(f)
  /\ published' = Append(published, f)
  /\ watched' = [watched EXCEPT !["server"] = TRUE]
  /\ UNCHANGED <<input, asked, writeBuf, head, queued, wire, mishaps, failed>>

(* Stream: the client asks for the upgrade. *)
Stream ==
  /\ state["client"] = "CONNECTING" /\ ~asked
  /\ asked' = TRUE
  /\ writeBuf' = [writeBuf EXCEPT !["client"] = @ \o Handshake(Asked)]
  /\ head' = Advance("client", Len(Handshake(Asked)))
  /\ watched' = [watched EXCEPT !["client"] = TRUE]
  /\ UNCHANGED <<input, publish, queued, published, wire, mishaps, failed>>

MayWrite(s) == watched[s] /\ ~processing[s] /\ state[s] # "NONE"

(* Mutant: the write event is given up with output left. *)
StillWatched(u) == FALSE

(* What Write returns: 0 clears the watch for room. *)
Maintained(u) == u # <<>>

(* A published frame has been written in part. *)
MidPublished(s) == s = "server" /\ publish # <<>> /\ publish[1].kind # "start"

Sent(s, units) == wire' = [wire EXCEPT ![Other(s)] = @ \o units]

(* Writev of _writeBuf computes a negative length when its head is at slot *)
(* 0 and it is not empty.                                                  *)
Refused(s) == writeBuf[s] # <<>> /\ head[s] = 0

(* Write, when the connection takes n units of _writeBuf. *)
WriteBuffer(s, n) ==
  /\ MayWrite(s) /\ ~Refused(s)
  /\ n \in Pieces(writeBuf[s])
  /\ n < Len(writeBuf[s]) => s \in Partial
  /\ Sent(s, Prefix(writeBuf[s], n))
  /\ writeBuf' = [writeBuf EXCEPT ![s] = Rest(@, n)]
  /\ watched' = [watched EXCEPT ![s] = Maintained(Rest(writeBuf[s], n))]
  /\ mishaps' = IF MidPublished(s) THEN mishaps \cup {"mixed"} ELSE mishaps
  /\ UNCHANGED <<input, asked, head, publish, queued, published, failed>>

(* Write, when _writeBuf is empty. *)
WritePublished(s, n) ==
  LET ready == IF s = "server" THEN publish ELSE <<>> IN
  /\ MayWrite(s)
  /\ writeBuf[s] = <<>>
  /\ n \in IF ready = <<>> THEN {0} ELSE Pieces(ready)
  /\ Sent(s, Prefix(ready, n))
  /\ publish' = IF s = "server" THEN Rest(publish, n) ELSE publish
  /\ watched' = [watched EXCEPT ![s] = Maintained(Rest(ready, n))]
  /\ UNCHANGED <<input, asked, writeBuf, head, queued, published, mishaps, failed>>

(* The event loop closes the connection. *)
Close(s) ==
  /\ state' = [state EXCEPT ![s] = "NONE"]
  /\ watched' = [watched EXCEPT ![s] = FALSE]
  /\ http' = [http EXCEPT ![s] = <<>>]
  /\ stream' = [stream EXCEPT ![s] = <<>>]
  /\ writeBuf' = [writeBuf EXCEPT ![s] = <<>>]
  /\ publish' = IF s = "server" THEN <<>> ELSE publish
  /\ wire' = [wire EXCEPT ![s] = <<>>]
  /\ UNCHANGED <<foreign, first, headers, frame, processing, got, asked, head, queued, published, failed>>

(* Write, when it returns the error of Writev. *)
WriteFails(s) ==
  /\ MayWrite(s) /\ Refused(s)
  /\ Close(s)
  /\ mishaps' = mishaps \cup {"refused"}

(* The connection ends. *)
Unregister(s) ==
  /\ state[s] # "NONE" /\ ~processing[s]
  /\ Close(s)
  /\ UNCHANGED mishaps

-----------------------------------------------------------------------------
(* The handshake. *)

(* Mutant: the blank line is left in the buffer. *)
LinesBeforeBlank(u) == Max({i \in 0 .. Len(u) : \A j \in 1..i : IsLine(u[j]) /\ u[j].kind # "blank"})

(* The lines HandleHTTP takes: those there are, or up to the blank one. *)
Lines(u) ==
  Max({i \in 0 .. Len(u) : \A j \in 1..i : IsLine(u[j]) /\ (u[j].kind = "blank" => j = i)})

(* HandleHTTP: the first line of each call is taken for the request line. *)
HandleHTTP(s, u) ==
  LET k == Lines(u) IN
  /\ first' = [first EXCEPT ![s] = IF k = 0 \/ u[1].kind = "blank" THEN @ ELSE u[1].kind = "first"]
  /\ headers' = [headers EXCEPT ![s] = @ \cup ({u[j].kind : j \in 2..k} \cap Headers)]
  /\ http' = [http EXCEPT ![s] = Rest(u, k)]
  /\ mishaps' = IF k > 0 /\ Line("blank") \notin Range(u) THEN mishaps \cup {"cut"} ELSE mishaps
  /\ UNCHANGED foreign

(* Read of n units: into _stream once the connection is open. *)
Read(s, n) ==
  LET units == Prefix(wire[s], n) IN
  /\ ~processing[s] /\ state[s] # "NONE"
  /\ wire' = [wire EXCEPT ![s] = Rest(@, n)]
  /\ processing' = [processing EXCEPT ![s] = TRUE]
  /\ \/ /\ Opened(s)
        /\ stream' = [stream EXCEPT ![s] = @ \o units]
        /\ UNCHANGED <<parsing, mishaps>>
     \/ /\ state[s] = "CONNECTING"
        /\ HandleHTTP(s, http[s] \o units)
        /\ UNCHANGED stream
     \/ /\ state[s] \in {"CLOSING", "CLOSED"}
        /\ http' = [http EXCEPT ![s] = @ \o units]
        /\ UNCHANGED <<foreign, first, headers, stream, mishaps>>
  /\ UNCHANGED <<state, frame, got, output, failed>>

(* A round of ProcessState that ends the loop and changes nothing else. *)
Wait(s) ==
  /\ processing' = [processing EXCEPT ![s] = FALSE]
  /\ UNCHANGED <<state, parsing, stream, frame, got, output, wire, mishaps, failed>>

(* What the answer of the server has, and what a side checks for. *)
Answer     == IF foreign = "server" THEN Wanted["client"] ELSE Answered
Checked(s) == IF s = "client" /\ foreign = "client" THEN Answered ELSE Wanted[s]

UpgradeComplete(s) == first[s] /\ Checked(s) \subseteq headers[s]

KeepConnecting(s) ==
  /\ state[s] = "CONNECTING" /\ ~UpgradeComplete(s)
  /\ Wait(s)

(* The connection opens: the server answers, and what the handshake left   *)
(* in _httpBuf is copied to _stream, where the next Read looks at it.      *)
Open(s) ==
  /\ state[s] = "CONNECTING" /\ UpgradeComplete(s)
  /\ state' = [state EXCEPT ![s] = "OPEN"]
  /\ stream' = [stream EXCEPT ![s] = @ \o http[s]]
  /\ processing' = [processing EXCEPT ![s] = FALSE]
  /\ IF s = "server"
     THEN /\ writeBuf' = [writeBuf EXCEPT ![s] = @ \o Handshake(Answer)]
          /\ head' = Advance(s, Len(Handshake(Answer)))
          /\ watched' = [watched EXCEPT ![s] = TRUE]
     ELSE UNCHANGED <<writeBuf, head, watched>>
  /\ UNCHANGED <<parsing, frame, got, asked, publish, queued, published, wire, mishaps, failed>>

-----------------------------------------------------------------------------
(* Frames. *)

(* The frame a unit begins, as DoOpen takes its two bytes. *)
Begun(u) == IF u.kind = "start" THEN u.frame ELSE NoFrame

Needed(s) == HeaderUnits(Begun(stream[s][1]))

HeaderComplete(s) == stream[s] # <<>> /\ Needed(s) <= Len(stream[s])

(* Mutant: the length is read from the first byte alone. *)
LengthOfStart(s) == {Lesser(Begun(stream[s][1]).len, Extended - 1)}

(* The length DoOpen reads. It takes the mask before the extended length,  *)
(* which were pushed the other way round; other bytes make any length.     *)
LengthRead(s) ==
  LET f == Begun(stream[s][1]) IN
  IF stream[s][1].kind = "start" /\ (LengthUnits(f) = 0 \/ stream[s][2 + MaskUnits(f)].kind = "length")
  THEN {f.len}
  ELSE Lengths

KeepOpen(s) ==
  /\ state[s] = "OPEN" /\ ~HeaderComplete(s)
  /\ Wait(s)

DoOpen(s) ==
  LET f == Begun(stream[s][1]) IN
  /\ state[s] = "OPEN" /\ HeaderComplete(s)
  /\ \E len \in LengthRead(s) : frame' = [frame EXCEPT ![s] = [of |-> f, len |-> len]]
  /\ stream' = [stream EXCEPT ![s] = Rest(@, Needed(s))]
  /\ state' = [state EXCEPT ![s] = "OPEN_DATA"]
  /\ mishaps' = IF LengthUnits(f) + MaskUnits(f) = 2 THEN mishaps \cup {"swapped"} ELSE mishaps
  /\ UNCHANGED <<parsing, processing, got, output, wire, failed>>

PayloadComplete(s) == frame[s].len <= Len(stream[s])

KeepWaiting(s) ==
  /\ state[s] = "OPEN_DATA" /\ ~PayloadComplete(s)
  /\ Wait(s)

(* The loop goes on while the connection is open and there is input. *)
GoesOn(s, op) == op # "close" /\ frame[s].len < Len(stream[s])

AfterFrame(op) == IF op = "close" THEN "CLOSING" ELSE "OPEN"

(* DoOpenData takes a frame; a ping is answered through Queue, which is    *)
(* asserted to accept the answer.                                          *)
DoOpenData(s) ==
  LET f    == frame[s].of
      op   == f.op
      pong == NextFrame(s, "pong", frame[s].len)
  IN
  /\ state[s] = "OPEN_DATA" /\ PayloadComplete(s)
  /\ stream' = [stream EXCEPT ![s] = Rest(@, frame[s].len)]
  /\ got' = [got EXCEPT ![s][f.via] = Append(@, [frame |-> f, payload |-> Prefix(stream[s], frame[s].len)])]
  /\ state' = [state EXCEPT ![s] = AfterFrame(op)]
  /\ processing' = [processing EXCEPT ![s] = GoesOn(s, op)]
  /\ \/ op = "ping" /\ QueueFrame(s, pong) /\ UNCHANGED <<asked, failed>>
     \/ op = "ping" /\ ~Accepts(s, pong) /\ failed' = TRUE /\ UNCHANGED <<output, mishaps>>
     \/ op # "ping" /\ UNCHANGED <<output, mishaps, failed>>
  /\ UNCHANGED <<parsing, frame, wire>>

(* A connection that got a close frame is closed by the next Read, and     *)
(* stays registered.                                                       *)
EndClosing(s) ==
  /\ state[s] = "CLOSING"
  /\ state' = [state EXCEPT ![s] = "CLOSED"]
  /\ processing' = [processing EXCEPT ![s] = FALSE]
  /\ UNCHANGED <<parsing, stream, frame, got, output, wire, mishaps, failed>>

KeepClosed(s) == state[s] = "CLOSED" /\ Wait(s)

ProcessState(s) ==
  /\ processing[s]
  /\ \/ KeepConnecting(s) \/ Open(s)
     \/ KeepOpen(s) \/ DoOpen(s)
     \/ KeepWaiting(s) \/ DoOpenData(s)
     \/ EndClosing(s) \/ KeepClosed(s)

-----------------------------------------------------------------------------
Init ==
  /\ foreign \in Sides \cup {"neither"}
  /\ state = [s \in Sides |-> "CONNECTING"]
  /\ first = [s \in Sides |-> FALSE]
  /\ headers = [s \in Sides |-> {}]
  /\ http = [s \in Sides |-> <<>>]
  /\ stream = [s \in Sides |-> <<>>]
  /\ frame = [s \in Sides |-> [of |-> NoFrame, len |-> 0]]
  /\ processing = [s \in Sides |-> FALSE]
  /\ asked = FALSE
  /\ writeBuf = [s \in Sides |-> <<>>]
  /\ head = [s \in Sides |-> 0]
  /\ publish = <<>>
  /\ watched = [s \in Sides |-> FALSE]
  /\ wire = [s \in Sides |-> <<>>]
  /\ queued = [s \in Sides |-> <<>>]
  /\ published = <<>>
  /\ got = [s \in Sides |-> [via \in Ways |-> <<>>]]
  /\ mishaps = {}
  /\ failed = FALSE

Reads(s)  == ~failed /\ \E n \in Pieces(wire[s]) : Read(s, n)
Rounds(s) == ~failed /\ ProcessState(s)
Writes(s) == ~failed /\ \/ WriteFails(s)
                        \/ \E n \in 0 .. Len(writeBuf[s]) + Len(publish) :
                             WriteBuffer(s, n) \/ WritePublished(s, n)

(* Bound: the program does nothing more once something went wrong. *)
Program ==
  /\ ~failed /\ mishaps = {}
  /\ \/ Stream
     \/ \E s \in Sides : \E send \in Sends[s] : Queue(s, send[1], send[2])
     \/ \E len \in Lengths : Publish(len)
     \/ \E s \in Sides : Unregister(s)

Next == Program \/ \E s \in Sides : Reads(s) \/ Rounds(s) \/ Writes(s)

(* The event loop serves what is ready. *)
Fairness == \A s \in Sides : WF_vars(Reads(s)) /\ WF_vars(Rounds(s)) /\ WF_vars(Writes(s))

Spec == Init /\ [][Next]_vars /\ Fairness

-----------------------------------------------------------------------------
(* Properties. *)

(* The manager keeps its types, nothing is in _httpBuf before a byte came, *)
(* and _writeBuf, which the handshake is pushed to unchecked, never holds  *)
(* more than its capacity.                                                 *)
TypeOK ==
  /\ state \in [Sides -> {"CONNECTING", "OPEN", "OPEN_DATA", "CLOSING", "CLOSED", "NONE"}]
  /\ first \in [Sides -> BOOLEAN] /\ headers \in [Sides -> SUBSET Headers]
  /\ processing \in [Sides -> BOOLEAN] /\ watched \in [Sides -> BOOLEAN]
  /\ \A s \in Sides :
       /\ \A u \in Range(http[s] \o stream[s] \o writeBuf[s] \o wire[s]) : u.kind \in Kinds /\ u.frame \in Frames
       /\ frame[s].of \in Frames /\ frame[s].len \in Nat
       /\ Range(queued[s]) \subseteq Frames
       /\ Len(writeBuf[s]) <= Capacity /\ head[s] \in 0 .. Capacity - 1
  /\ Range(published) \subseteq Frames /\ foreign \in Sides \cup {"neither"}
  /\ asked \in BOOLEAN /\ failed \in BOOLEAN /\ mishaps \subseteq Mishaps

(* The frames that went out through a buffer to a side. *)
SentTo(s, via) == IF via = "writeBuf" THEN queued[Other(s)] ELSE IF s = "client" THEN published ELSE <<>>

(* Frames arrive as they were sent, with all of their payload and nothing  *)
(* else, in the order of the buffer they went through, whatever pieces the *)
(* connection cut them into: as long as none of the mishaps happened       *)
(* (Read, DoOpen, DoOpenData).                                             *)
ReceivedAsSent ==
  mishaps = {} =>
    \A s \in Sides, via \in Ways :
      /\ \A g \in Range(got[s][via]) : g.payload = Payload(g.frame)
      /\ IsPrefix([i \in DOMAIN got[s][via] |-> got[s][via][i].frame], SentTo(s, via))

(* When a side has opened, nothing of the handshake is left for it to take *)
(* for frames, unless a Read ended inside the handshake (HandleHTTP and    *)
(* the copy of _httpBuf to _stream).                                       *)
HandshakeTaken ==
  "cut" \notin mishaps =>
    \A s \in Sides : Opened(s) => \A u \in Range(stream[s] \o wire[s]) : ~IsLine(u)

(* After a close frame the connection delivers and queues nothing more,    *)
(* and never opens again (DoOpenData, ProcessState and Queue).             *)
ClosedForGood ==
  [][\A s \in Sides : state[s] \in {"CLOSING", "CLOSED"} =>
       /\ state'[s] \in {"CLOSING", "CLOSED", "NONE"}
       /\ got'[s] = got[s] /\ queued'[s] = queued[s]]_vars

(* What the client queues the server receives, while the connection lasts  *)
(* and no mishap happened: no write event is given up with output left and *)
(* no frame is left in the stream of the server (Queue, Write, Read and    *)
(* ProcessState). One of the sides is another implementation: between two  *)
(* of the library the client opens never, and queues nothing.              *)
ServerReceives ==
  \A i \in 1 .. MaxQueued["client"] :
    Len(queued["client"]) >= i
      ~> (Len(got["server"]["writeBuf"]) >= i \/ ~Opened("server") \/ state["client"] = "NONE" \/ mishaps # {} \/ failed)

=============================================================================
