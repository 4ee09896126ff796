-------------------------------- MODULE Http2 --------------------------------
(***************************************************************************)
(* coypu::http2::HTTP2GRPCManager (include/echidna/http2.hpp): unary gRPC  *)
(* calls over HTTP/2. Clients, the connections of one manager and the      *)
(* event loop that calls Read and Write are composed over byte streams     *)
(* that are cut anywhere.                                                  *)
(*                                                                         *)
(* What is read is kept in digits, so that the code reads whatever follows *)
(* when it takes one length for another: a frame header is the digits len, *)
(* type and id, the prefix of a gRPC message is the digit 0 and a length,  *)
(* a field of a message is a digit. A block of headers is one digit: a     *)
(* path, which both ends enter in their tables, or a place in the table.   *)
(* What is written is kept in units, the pieces SendFrame pushes. Flags of *)
(* frames and flow control, which the code ignores, are left out.          *)
(***************************************************************************)
EXTENDS Integers, Sequences, SequencesExt

CONSTANTS
  Connections,   \* the descriptors
  Paths,         \* the digits of the paths clients ask for
  Served,        \* those that agree with _path
  Fields,        \* the digits of the fields of a message
  Loads,         \* what the clients may do, and the bounds on it
  MaxBacklog,    \* bound on the digits on their way when a client sends more
  MaxDebug,      \* what GOAWAY pops of its debug data: 1024 bytes
  Capacity,      \* the size of _writeBuf, in units
  TopBit         \* the calls of streams that differ in the top bit of their
                 \* lowest byte: 64

HTTP2_HDR  == <<9, 9>>
HeaderSize == 3
PrefixSize == 2
PlaceBase  == 5     \* digits above it are places in the table

DATA == 0
HEADERS == 1
RST_STREAM == 3
SETTINGS == 4
PING == 6
GOAWAY == 7
WINDOW_UPDATE == 8

ASSUME DigitsAssumption ==
  Paths \subseteq 1..4 /\ Served \subseteq Paths /\ Fields \subseteq 1..9

(* What the protocol asks of a frame that is no part of a call, and the    *)
(* code asserts: two words in GOAWAY, one in WINDOW_UPDATE, pairs in       *)
(* SETTINGS.                                                               *)
Legal(type, len) ==
  /\ type \notin {DATA, HEADERS}
  /\ type = GOAWAY => len >= 2
  /\ type = WINDOW_UPDATE => len = 1
  /\ type = SETTINGS => len % 2 = 0

ASSUME LoadsAssumption ==
  \A load \in Loads : \A c \in Connections :
    /\ \A x \in {"calls", "controls", "published"} : load[c][x] \in Nat
    /\ \A x \in {"split", "cut", "partial"} : load[c][x] \in BOOLEAN
    /\ load[c].messages \subseteq Seq(Fields)
    /\ load[c].prefaces \subseteq {<<a, b>> : a, b \in 0..9}
    /\ load[c].frames \subseteq (0..9) \X Seq(0..9)
    /\ \A frame \in load[c].frames : Legal(frame[1], Len(frame[2]))
ASSUME BoundsAssumption ==
  MaxBacklog \in Nat /\ MaxDebug \in Nat /\ Capacity \in Nat \ {0} /\ TopBit \in Nat \ {0}

VARIABLES
  con,       \* _connections: the HTTP2Connection of each descriptor
  inflater,  \* _inflater: the paths in its table, the newest first
  request,   \* _request: the fields it has
  busy,      \* the connection whose Read is in its loop, or "none"
  failed,    \* an assertion failed: the program is gone
  (* the clients *)
  load,      \* of each client: how many calls, other frames and units
             \* published; the messages, prefaces and other frames; whether
             \* its messages are split, its stream cut, its output taken in part
  wire,      \* digits on their way to the manager
  back,      \* units the client received
  table,     \* the table of the client's deflater
  begun,     \* the calls: path, message and whether it was sent
  controls,  \* how many other frames were sent
  (* history *)
  asked,     \* the calls in the order of their DATA frames
  answers,   \* the answers the manager gave: call and status
  mishaps    \* what went wrong on a connection; see below

manager == <<con, inflater, request, busy, failed, answers, mishaps>>
client  == <<load, table, begun, controls, asked>>
clients == <<client, wire>>
vars    == <<manager, clients, back>>

(* "split": a DATA frame that was not one message. "interleaved": a DATA   *)
(* frame of another call than the last HEADERS. "table": a place looked up *)
(* in what other connections had entered. "residue": debug data left by    *)
(* GOAWAY. "torn": an answer did not fit. "mixed": an answer was written   *)
(* before the rest of something published. "renamed": a frame was of a     *)
(* stream whose id the manager changed. "refused": a write event found the *)
(* head of _writeBuf at slot 0.                                            *)
Mishaps == {"split", "interleaved", "table", "residue", "torn", "mixed", "renamed", "refused"}

States == {"none", "CONNECTING", "READ_FRAME_HEADER", "READ_FRAME", "closing", "CLOSED"}

-----------------------------------------------------------------------------
Lesser(a, b) == IF a < b THEN a ELSE b

Rest(s, n)   == SubSeq(s, n + 1, Len(s))
Prefix(s, n) == SubSeq(s, 1, Lesser(n, Len(s)))

Header(len, type, id) == <<len, type, id>>

(* A frame as a client sends it. *)
FrameOf(type, id, payload) == Header(Len(payload), type, id) \o payload

(* The manager sends a header and, but for SETTINGS and PING, a payload.   *)
Units(f) ==
  <<[frame |-> f, part |-> "header"]>>
    \o (IF f.type \in {HEADERS, DATA} THEN <<[frame |-> f, part |-> "payload"]>> ELSE <<>>)

Out(type, id, status) == [type |-> type, id |-> id, status |-> status]

-----------------------------------------------------------------------------
(* The clients. *)

Connect(c, preface) ==
  /\ con[c].state = "none"
  /\ con' = [con EXCEPT ![c].state = "CONNECTING"]
  /\ wire' = [wire EXCEPT ![c] = preface \o FrameOf(SETTINGS, 0, <<>>)]
  /\ UNCHANGED <<inflater, request, busy, failed, answers, mishaps, client, back>>

MaySend(c) == con[c].state # "none" /\ Len(wire[c]) <= MaxBacklog

Sent(c, digits) == wire' = [wire EXCEPT ![c] = @ \o digits]

(* The HEADERS of a call, with the path in full or as a place of the table.*)
Begin(c, path) ==
  LET id     == Len(begun[c]) + 1
      places == {i \in DOMAIN table[c] : table[c][i] = path} IN
  /\ MaySend(c) /\ id <= load[c].calls
  /\ begun' = [begun EXCEPT ![c] = Append(@, [path |-> path, complete |-> FALSE])]
  /\ \/ /\ Sent(c, FrameOf(HEADERS, id, <<path>>))
        /\ table' = [table EXCEPT ![c] = <<path>> \o @]
     \/ /\ \E i \in places : Sent(c, FrameOf(HEADERS, id, <<PlaceBase + i>>))
        /\ UNCHANGED table
  /\ UNCHANGED <<manager, load, controls, asked, back>>

(* The DATA of a call, in one frame or in two, the second of which may be  *)
(* empty and only end the stream.                                          *)
Complete(c, id, m) ==
  LET payload == <<0, Len(m)>> \o m IN
  /\ MaySend(c) /\ ~begun[c][id].complete
  /\ begun' = [begun EXCEPT ![c][id].complete = TRUE]
  /\ asked' = [asked EXCEPT ![c] = Append(@, [id |-> id, message |-> m])]
  /\ \/ Sent(c, FrameOf(DATA, id, payload))
     \/ /\ load[c].split
        /\ \E k \in PrefixSize .. Len(payload) :
             Sent(c, FrameOf(DATA, id, Prefix(payload, k)) \o FrameOf(DATA, id, Rest(payload, k)))
  /\ UNCHANGED <<manager, load, table, controls, back>>

Control(c, frame) ==
  /\ MaySend(c) /\ controls[c] < load[c].controls
  /\ controls' = [controls EXCEPT ![c] = @ + 1]
  /\ Sent(c, FrameOf(frame[1], 0, frame[2]))
  /\ UNCHANGED <<manager, load, table, begun, asked, back>>

-----------------------------------------------------------------------------
(* Output. *)

(* The frames of a handler one after the other, by SendFrame and           *)
(* SendGRPCFrame: pieces are pushed until one does not fit, and nobody     *)
(* asks what became of them. set_write is called for a frame that fits.    *)
Pushed(buf, units) == buf \o Prefix(units, Capacity - Len(buf))

FirstFits(buf, units) == units # <<>> /\ Len(buf) + Len(Units(units[1].frame)) <= Capacity

SendUnits(k, units) ==
  [k EXCEPT !.writeBuf = Pushed(@, units),
            !.head     = (@ + Len(Pushed(k.writeBuf, units)) - Len(k.writeBuf)) % Capacity,
            !.watched  = @ \/ FirstFits(k.writeBuf, units)]

Torn(k, units) == Len(k.writeBuf) + Len(units) > Capacity

(* The program appends to _publish and calls SetWriteAll. *)
Publish(c) ==
  LET f == Out(DATA, 0, "published") IN
  /\ con[c].state \notin {"none", "CLOSED"} /\ busy = "none"
  /\ con[c].published < load[c].published
  /\ con' = [d \in Connections |->
       IF d = c THEN [con[d] EXCEPT !.publish = @ \o Units(f), !.published = @ + 1, !.watched = TRUE]
       ELSE [con[d] EXCEPT !.watched = @ \/ con[d].state \notin {"none", "CLOSED"}]]
  /\ UNCHANGED <<inflater, request, busy, failed, answers, mishaps, clients, back>>

(* Mutant: the write event is given up whatever is left. *)
StillWatched(left) == FALSE

(* What Write returns: 0 clears the watch for room. *)
Maintained(left) == left # <<>>

Pieces(c, u) == {Len(u)} \cup (IF load[c].partial /\ u # <<>> THEN {1} ELSE {})

(* Mutant: what is published goes first. *)
PublishFirst(k) == k.publish = <<>>

(* _writeBuf goes before what is published. *)
FromWriteBuf(k) == k.writeBuf # <<>>

Writing(c) == con[c].watched /\ con[c].state \notin {"none", "CLOSED"} /\ busy = "none"

(* Writev of _writeBuf computes a negative length when the head is at slot *)
(* 0, and the call fails.                                                  *)
Refused(k) == FromWriteBuf(k) /\ k.head = 0

Write(c, n) ==
  LET k == con[c]
      source == IF FromWriteBuf(k) THEN k.writeBuf ELSE k.publish
      midway == FromWriteBuf(k) /\ k.publish # <<>> /\ k.publish[1].part = "payload" IN
  /\ Writing(c) /\ ~Refused(k)
  /\ n \in Pieces(c, source)
  /\ back' = [back EXCEPT ![c] = @ \o Prefix(source, n)]
  /\ con' = [con EXCEPT
       ![c].writeBuf = IF FromWriteBuf(k) THEN Rest(@, n) ELSE @,
       ![c].publish  = IF FromWriteBuf(k) THEN @ ELSE Rest(@, n),
       ![c].watched  = Maintained(Rest(source, n))]
  /\ mishaps' = [mishaps EXCEPT ![c] = @ \cup (IF midway THEN {"mixed"} ELSE {})]
  /\ UNCHANGED <<inflater, request, busy, failed, answers, clients>>

(* Write returns the error, on which the loop closes the connection.       *)
WriteFails(c) ==
  /\ Writing(c) /\ Refused(con[c])
  /\ con' = [con EXCEPT ![c].state = "closing"]
  /\ mishaps' = [mishaps EXCEPT ![c] = @ \cup {"refused"}]
  /\ UNCHANGED <<inflater, request, busy, failed, answers, clients, back>>

-----------------------------------------------------------------------------
(* Frames that were read. A handler returns what it does: to the           *)
(* connection, the inflater and the request, the units it sends, the       *)
(* answer it gives, whether its assertions hold, and mishaps.              *)

Nothing(k) ==
  [con |-> k, inflater |-> inflater, request |-> request,
   units |-> <<>>, answer |-> <<>>, holds |-> TRUE, mishaps |-> {}]

Skipped(k, n) == [k EXCEPT !.stream = Rest(@, n)]

(* One digit of a block. _lastPathMatch changes when a path comes out.     *)
Inflate(acc, d) ==
  LET path == IF d \in Paths THEN d
              ELSE IF d - PlaceBase \in DOMAIN acc.table THEN acc.table[d - PlaceBase]
              ELSE 0 IN
  [table |-> IF d \in Paths THEN <<d>> \o acc.table ELSE acc.table,
   path  |-> IF path = 0 THEN acc.path ELSE path]

(* inflate_header_block: one table for all connections. *)
OnHeaders(k, len) ==
  LET id    == k.hdr[3]
      block == FoldLeft(Inflate, [table |-> inflater, path |-> 0], Prefix(k.stream, len))
      meant == IF id \in DOMAIN begun[k.fd] THEN begun[k.fd][id].path ELSE 0 IN
  [Nothing(k) EXCEPT
     !.con = [Skipped(k, len) EXCEPT !.match = IF block.path = 0 THEN @ ELSE block.path \in Served,
                                     !.last = id],
     !.inflater = block.table,
     !.mishaps = IF block.path # meant THEN {"table"} ELSE {}]

(* MergeFromCodedStream: as far as the limit, or the end of the stream.    *)
Message(stream, n) == Prefix(stream, n)

Answered(k, status) == <<[id |-> k.hdr[3], status |-> status]>>

(* The message after a prefix is taken, or skipped when the path was not   *)
(* ours; both go by the length in the prefix.                              *)
OnData(k, len) ==
  LET id     == k.hdr[3]
      popped == Len(k.stream) >= PrefixSize
      prefix == IF popped THEN Prefix(k.stream, PrefixSize) ELSE <<0, 0>>
      rest   == IF popped THEN Rest(k.stream, PrefixSize) ELSE k.stream
      m      == Message(rest, prefix[2])
      wrong  == (IF ~popped \/ PrefixSize + prefix[2] # len THEN {"split"} ELSE {})
                  \cup (IF k.last # id THEN {"interleaved"} ELSE {}) IN
  IF k.match
  THEN [Nothing(k) EXCEPT
          !.con     = [k EXCEPT !.stream = Rest(rest, Len(m))],
          !.request = @ \cup Range(m),
          !.units   = Units(Out(HEADERS, id, "200")) \o Units(Out(DATA, id, "200"))
                        \o Units(Out(HEADERS, id, "end")),
          !.answer  = Answered(k, "200"),
          !.holds   = prefix[1] = 0 /\ Range(m) \subseteq Fields,
          !.mishaps = wrong]
  ELSE [Nothing(k) EXCEPT
          !.con     = [k EXCEPT !.stream = Rest(rest, Len(m))],
          !.units   = Units(Out(HEADERS, id, "404")),
          !.answer  = Answered(k, "404"),
          !.holds   = prefix[2] <= Len(rest),
          !.mishaps = wrong]

(* Two words, and the debug data as far as there is room for it. *)
OnGoAway(k, len) ==
  LET n == 2 + Lesser(MaxDebug, len - 2) IN
  [Nothing(k) EXCEPT
     !.con = Skipped(k, n), !.holds = Len(k.stream) >= 2,
     !.mishaps = IF n # len THEN {"residue"} ELSE {}]

OnWindowUpdate(k, len) == [Nothing(k) EXCEPT !.con = Skipped(k, 1), !.holds = len = 1]

(* An entry is two digits. SETTINGS as the first frame are answered.       *)
OnSettings(k, len) ==
  [Nothing(k) EXCEPT
     !.con = Skipped(k, len), !.holds = len % 2 = 0,
     !.units = IF k.frameCount = 1 THEN Units(Out(SETTINGS, 0, "")) ELSE <<>>]

OnPing(k, len) == [Nothing(k) EXCEPT !.con = Skipped(k, len), !.units = Units(Out(PING, 0, "ack"))]

(* RST_STREAM and the types that are not handled. *)
OnOther(k, len) == [Nothing(k) EXCEPT !.con = Skipped(k, len)]

OnFrame(k) ==
  LET len == k.hdr[1]  type == k.hdr[2] IN
  CASE type = HEADERS       -> OnHeaders(k, len)
    [] type = DATA          -> OnData(k, len)
    [] type = GOAWAY        -> OnGoAway(k, len)
    [] type = WINDOW_UPDATE -> OnWindowUpdate(k, len)
    [] type = SETTINGS      -> OnSettings(k, len)
    [] type = PING          -> OnPing(k, len)
    [] OTHER                -> OnOther(k, len)

-----------------------------------------------------------------------------
(* Input. *)

(* What clearing bit 31 of an id in network order comes to on a machine    *)
(* that keeps the lowest byte first: the top bit of the lowest byte goes.  *)
(* The n-th call is of stream 2n - 1, here n; stream 0 is of no call.      *)
Masked(id) == IF id > 0 /\ (id - 1) % (2 * TopBit) >= TopBit THEN id - TopBit ELSE id

HeaderThere(k) == k.state = "READ_FRAME_HEADER" /\ Len(k.stream) >= HeaderSize

(* The header of a frame, when all of it is there. *)
AfterHeader(k) ==
  IF HeaderThere(k)
  THEN [k EXCEPT !.hdr = [Prefix(k.stream, HeaderSize) EXCEPT ![3] = Masked(@)],
                 !.stream = Rest(@, HeaderSize), !.state = "READ_FRAME"]
  ELSE k

Renamed(k) == IF HeaderThere(k) /\ Masked(k.stream[3]) # k.stream[3] THEN {"renamed"} ELSE {}

(* Mutant: a frame is handled as soon as its header was read. *)
FrameBegun(k) == k.state = "READ_FRAME"

FrameComplete(k) == k.state = "READ_FRAME" /\ Len(k.stream) >= k.hdr[1]

(* A round of ProcessFrames that handles a frame; it goes on while there   *)
(* is anything more.                                                       *)
Frame(c, k, done) ==
  LET k2 == SendUnits([done.con EXCEPT !.state = "READ_FRAME_HEADER"], done.units) IN
  /\ con' = [con EXCEPT ![c] = k2]
  /\ busy' = IF k2.stream = <<>> THEN "none" ELSE c
  /\ failed' = ~done.holds
  /\ inflater' = done.inflater
  /\ request' = done.request
  /\ answers' = [answers EXCEPT ![c] = @ \o done.answer]
  /\ mishaps' = [mishaps EXCEPT ![c] =
       @ \cup Renamed(con[c]) \cup done.mishaps
         \cup (IF Torn(done.con, done.units) THEN {"torn"} ELSE {})]

(* ProcessFrames. *)
Process(c) ==
  /\ busy = c
  /\ \E k \in {AfterHeader(con[c])} :
       IF FrameComplete(k)
       THEN \E done \in {OnFrame([k EXCEPT !.frameCount = @ + 1])} : Frame(c, k, done)
       ELSE /\ con' = [con EXCEPT ![c] = k]
            /\ busy' = "none"
            /\ mishaps' = [mishaps EXCEPT ![c] = @ \cup Renamed(con[c])]
            /\ UNCHANGED <<inflater, request, failed, answers>>
  /\ UNCHANGED <<clients, back>>

(* ProcessConnecting: what follows the preface moves to the stream.        *)
Connecting(k) ==
  IF Len(k.httpBuf) < Len(HTTP2_HDR) THEN k
  ELSE IF Prefix(k.httpBuf, Len(HTTP2_HDR)) # HTTP2_HDR THEN [k EXCEPT !.state = "closing"]
  ELSE [k EXCEPT !.state = "READ_FRAME_HEADER", !.stream = Rest(k.httpBuf, Len(HTTP2_HDR)), !.httpBuf = <<>>]

(* Read, when readv takes n digits, up to its loop over ProcessFrames.     *)
Read(c, n) ==
  LET digits == Prefix(wire[c], n)
      k == IF con[c].state = "CONNECTING"
           THEN Connecting([con[c] EXCEPT !.httpBuf = @ \o digits])
           ELSE [con[c] EXCEPT !.stream = @ \o digits] IN
  /\ con[c].state \in {"CONNECTING", "READ_FRAME_HEADER", "READ_FRAME"} /\ busy = "none"
  /\ wire' = [wire EXCEPT ![c] = Rest(@, n)]
  /\ con' = [con EXCEPT ![c] = k]
  /\ busy' = IF k.state \in {"READ_FRAME_HEADER", "READ_FRAME"} THEN c ELSE "none"
  /\ UNCHANGED <<inflater, request, failed, answers, mishaps, client, back>>

(* The event loop closes a connection whose Read failed. *)
Unregister(c) ==
  /\ con[c].state = "closing" /\ busy = "none"
  /\ con' = [con EXCEPT ![c].state = "CLOSED"]
  /\ UNCHANGED <<inflater, request, busy, failed, answers, mishaps, clients, back>>

-----------------------------------------------------------------------------
NewConnection(c) ==
  [fd |-> c, state |-> "none", httpBuf |-> <<>>, stream |-> <<>>, hdr |-> Header(0, 0, 0),
   frameCount |-> 0, match |-> FALSE, last |-> 0,
   writeBuf |-> <<>>, head |-> 0, publish |-> <<>>, published |-> 0, watched |-> FALSE]

Init ==
  /\ load \in Loads
  /\ con = [c \in Connections |-> NewConnection(c)]
  /\ inflater = <<>> /\ request = {} /\ busy = "none" /\ failed = FALSE
  /\ wire = [c \in Connections |-> <<>>] /\ back = [c \in Connections |-> <<>>]
  /\ table = [c \in Connections |-> <<>>] /\ begun = [c \in Connections |-> <<>>]
  /\ asked = [c \in Connections |-> <<>>] /\ answers = [c \in Connections |-> <<>>]
  /\ controls = [c \in Connections |-> 0]
  /\ mishaps = [c \in Connections |-> {}]

ReadAll(c)   == wire[c] # <<>> /\ Read(c, Len(wire[c]))
WriteSome(c) ==
  \/ WriteFails(c)
  \/ \E n \in Pieces(c, con[c].writeBuf) \cup Pieces(c, con[c].publish) : Write(c, n)

Next ==
  /\ ~failed
  /\ \E c \in Connections :
       \/ \E preface \in load[c].prefaces : Connect(c, preface)
       \/ \E path \in Paths : Begin(c, path)
       \/ \E id \in DOMAIN begun[c], m \in load[c].messages : Complete(c, id, m)
       \/ \E frame \in load[c].frames : Control(c, frame)
       \/ Publish(c)
       \/ \E n \in 1 .. Len(wire[c]) : (n = Len(wire[c]) \/ load[c].cut) /\ Read(c, n)
       \/ Process(c)
       \/ WriteSome(c)
       \/ Unregister(c)

(* The loop over ProcessFrames goes on, and epoll reports a descriptor for *)
(* as long as it is ready, so that Read comes again until the stream is    *)
(* empty and Write until the watch is given up.                            *)
Fairness ==
  \A c \in Connections :
    WF_vars(~failed /\ ReadAll(c)) /\ WF_vars(~failed /\ Process(c)) /\ WF_vars(~failed /\ WriteSome(c))

Spec == Init /\ [][Next]_vars /\ Fairness

-----------------------------------------------------------------------------
(* The types of the variables; _writeBuf holds at most Capacity.           *)
TypeOK ==
  /\ busy \in Connections \cup {"none"} /\ failed \in BOOLEAN
  /\ inflater \in Seq(Paths)
  /\ \A c \in Connections :
       /\ con[c].state \in States /\ con[c].watched \in BOOLEAN /\ con[c].match \in BOOLEAN
       /\ con[c].stream \in Seq(0..9) /\ Len(con[c].writeBuf) <= Capacity
       /\ mishaps[c] \subseteq Mishaps

(* The status a call should have. *)
Expected(c, id) == IF begun[c][id].path \in Served THEN "200" ELSE "404"

Misread == {"split", "interleaved", "table", "residue", "renamed"}

(* The calls of a connection are answered once each, on their streams, in  *)
(* the order of their messages and by their paths, and no assertion fails, *)
(* however the stream is cut and whatever frames come between and whatever *)
(* other connections do, until a message is split over DATA frames or      *)
(* comes after the HEADERS of another call, a path is looked up in the     *)
(* table that all connections share, GOAWAY leaves data behind, or the id  *)
(* of a stream is changed.                                                 *)
AnsweredAsAsked ==
  /\ failed => \E c \in Connections : mishaps[c] \cap Misread # {}
  /\ \A c \in Connections :
       mishaps[c] \cap Misread = {} =>
         IsPrefix(answers[c],
                  [i \in DOMAIN asked[c] |-> [id |-> asked[c][i].id, status |-> Expected(c, asked[c][i].id)]])

(* What a client receives is whole frames, one after the other, until an   *)
(* answer does not fit or is written inside of something published.        *)
FramesWhole ==
  \A c \in Connections :
    mishaps[c] \cap {"torn", "mixed"} = {} =>
      \A i \in 1 .. Len(back[c]) - 1 :
        (back[c][i].part = "header" /\ Len(Units(back[c][i].frame)) = 2) =>
          back[c][i + 1] = Units(back[c][i].frame)[2]

(* The answers a client has received: whole frames that end a stream.      *)
Received(c) == Len(SelectSeq(back[c], LAMBDA u : u.part = "payload" /\ u.frame.status \in {"end", "404"}))

(* The calls whose messages were sent are answered, all of them again and  *)
(* again, on a connection that opened and met none of the mishaps.         *)
CallsAnswered ==
  \A c \in Connections :
    []<>(\/ Received(c) >= Len(asked[c])
         \/ mishaps[c] # {} \/ con[c].state \in {"closing", "CLOSED"} \/ failed)
=============================================================================
