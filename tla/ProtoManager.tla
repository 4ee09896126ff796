----------------------------- MODULE ProtoManager -----------------------------
(***************************************************************************)
(* coypu::protobuf::ProtoManager (include/echidna/protomgr.hpp): requests  *)
(* and responses in gRPC frames, a zero byte and a length of four bytes    *)
(* before each message, over byte streams that are cut anywhere. Clients,  *)
(* the connections of one manager and the event loop that calls Read and   *)
(* Write are composed here. The two BipBufs of a connection are the queues *)
(* of ByteQueue, with the places of their indices: Direct and Writev go    *)
(* wrong at some of them (BipBuf).                                         *)
(*                                                                         *)
(* A message is the sequence of its fields, one byte each; a byte that is  *)
(* no field does not parse. Lengths are written to the base Base.          *)
(***************************************************************************)
EXTENDS Integers, Sequences, SequencesExt

CONSTANTS
  Connections,   \* the descriptors
  Secure,        \* those whose _readv is that of OpenSSLManager
  Base,          \* the number of values of a byte: 256
  Fields,        \* the bytes a message is made of
  Requests,      \* the messages each client may send
  ResponseSizes, \* the sizes a response may have; a program answers in one
  Capacity,      \* the size of a buffer: 64 KiB
  MaxSent        \* bound on the requests of each client

ASSUME BytesAssumption ==
  /\ Base \in Nat \ {0, 1} /\ Fields \subseteq 1 .. Base - 1 /\ Fields # {}
  /\ \A c \in Connections : Requests[c] \subseteq Seq(Fields)
  /\ \A c \in Connections : \A m \in Requests[c] : Len(m) < Base * Base * Base * Base
ASSUME SizesAssumption ==
  ResponseSizes \subseteq Nat /\ Capacity \in Nat \ {0} /\ MaxSent \in [Connections -> Nat]
ASSUME SecureAssumption == Secure \subseteq Connections

VARIABLES
  state,     \* "new", "open", "closing" when the loop is to close it, "gone"
  readBuf,   \* what is in _readBuf
  head,      \* its _head
  tail,      \* its _tail
  gSize,     \* _gSize
  writeBuf,  \* _writeBuf, of bytes of responses
  watched,   \* the descriptor is watched for room to write
  request,   \* _request: the fields it has; the manager has only one
  failed,    \* an assertion failed: the program is gone
  (* the clients and the program *)
  wire,      \* bytes on their way to the manager
  held,      \* bytes an SSL has decrypted and not delivered
  back,      \* bytes the client received
  owed,      \* the calls the program has not answered
  size,      \* the size of its responses
  (* history *)
  sends,     \* how many requests were sent
  sent,      \* those of them that are not empty
  called,    \* what came in the frame, and what the callback was given
  accepted,  \* the responses WriteResponse returned 0 for
  mishaps    \* what went wrong on a connection; see below

input   == <<readBuf, head, tail, gSize, request, called, wire, held, failed>>
output  == <<writeBuf, accepted, back>>
history == <<sends, sent, size>>
vars    == <<state, input, output, watched, owed, history, mishaps>>

(* "short": a Read found all of a prefix but its last byte. "full": it     *)
(* found no room. "misread": a message was parsed with the head of the     *)
(* buffer below its tail. "torn": a response did not fit. "idle": a write  *)
(* event found nothing to write. "refused": it found the head of _writeBuf *)
(* at slot 0.                                                              *)
Mishaps == {"short", "full", "misread", "torn", "idle", "refused"}

-----------------------------------------------------------------------------
(* Frames. *)

PrefixSize == 5
MinBytes   == 4

Lesser(a, b) == IF a < b THEN a ELSE b

Rest(s, n)   == SubSeq(s, n + 1, Len(s))
Prefix(s, n) == SubSeq(s, 1, Lesser(n, Len(s)))

(* htonl and ntohl. *)
Digits(n) ==
  LET n1 == n \div Base  n2 == n1 \div Base  n3 == n2 \div Base IN
  <<n3 % Base, n2 % Base, n1 % Base, n % Base>>
Value(d)  == ((d[1] * Base + d[2]) * Base + d[3]) * Base + d[4]

Frame(m) == <<0>> \o Digits(Len(m)) \o m

(* A frame is in the buffer as a whole. *)
Whole(c) ==
  \/ gSize[c] > 0 /\ Len(readBuf[c]) >= gSize[c]
  \/ /\ gSize[c] = 0 /\ Len(readBuf[c]) >= PrefixSize
     /\ Len(readBuf[c]) >= PrefixSize + Value(SubSeq(readBuf[c], 2, 5))

-----------------------------------------------------------------------------
Register(c) ==
  /\ state[c] = "new"
  /\ state' = [state EXCEPT ![c] = "open"]
  /\ UNCHANGED <<input, output, watched, owed, history, mishaps>>

(* The close callback of the event loop. *)
Unregister(c) ==
  /\ state[c] = "closing"
  /\ state' = [state EXCEPT ![c] = "gone"]
  /\ UNCHANGED <<input, output, watched, owed, history, mishaps>>

Send(c, m) ==
  /\ state[c] # "new" /\ sends[c] < MaxSent[c]
  /\ wire' = [wire EXCEPT ![c] = @ \o Frame(m)]
  /\ sends' = [sends EXCEPT ![c] = @ + 1]
  /\ sent' = IF m = <<>> THEN sent ELSE [sent EXCEPT ![c] = Append(@, m)]
  /\ UNCHANGED <<size, state, readBuf, head, tail, gSize, request, called, held, failed, output,
                 watched, owed, mishaps>>

(* The prefix is popped in two pieces; the second Pop leaves what is short *)
(* of it in the buffer and _gSize as it was, and nobody looks.             *)
AfterPrefix(buf) ==
  IF Len(buf) < PrefixSize
  THEN [buf |-> Rest(buf, 1), size |-> 0]
  ELSE [buf |-> Rest(buf, PrefixSize), size |-> Value(SubSeq(buf, 2, 5))]

(* Mutant: the message is all that is in the buffer. *)
MessageUnlimited(buf, n) == buf

(* MergeFromCodedStream within PushLimit(_gSize). *)
Message(buf, n) == Prefix(buf, n)

PrefixDue(c, buf) == gSize[c] = 0 /\ Len(buf) >= MinBytes

(* tail once n elements were popped, or parsed and the rest given back. It *)
(* stays at the end of the array only where the head is there too.         *)
Past(h, t, n) ==
  IF t + n > Capacity \/ (t + n = Capacity /\ h < Capacity) THEN t + n - Capacity ELSE t + n

(* What one Read finds in its buffer, whose head is at h: a prefix, if     *)
(* none is awaiting its message, and the message behind it if all of that  *)
(* is there. The parser gets the buffer from Direct, which reports less    *)
(* than nothing when the head is below the tail; protobuf checks for that  *)
(* and ends the program.                                                   *)
Parsed(c, h, buf) ==
  LET prefix  == IF PrefixDue(c, buf) THEN AfterPrefix(buf) ELSE [buf |-> buf, size |-> gSize[c]]
      from    == Past(h, tail[c], Len(buf) - Len(prefix.buf))
      ready   == Len(buf) >= MinBytes /\ prefix.size > 0 /\ Len(prefix.buf) >= prefix.size
      m       == IF ready THEN Message(prefix.buf, prefix.size) ELSE <<>> IN
  [message |-> m,
   buf     |-> Rest(prefix.buf, Len(m)),
   tail    |-> Past(h, from, Len(m)),
   size    |-> IF ready THEN 0 ELSE prefix.size,
   misread |-> ready /\ h < from,
   failed  |-> (PrefixDue(c, buf) /\ buf[1] # 0) \/ ~(Range(m) \subseteq Fields)]

(* Read after readv. The message is merged into the request of the manager.*)
Parse(c, h, buf) ==
  \E p \in {Parsed(c, h, buf)} :
    /\ readBuf' = [readBuf EXCEPT ![c] = p.buf]
    /\ tail' = [tail EXCEPT ![c] = p.tail]
    /\ gSize' = [gSize EXCEPT ![c] = p.size]
    /\ failed' = (p.failed \/ p.misread)
    /\ IF p.message # <<>> /\ ~failed'
       THEN /\ request' = request \cup Range(p.message)
            /\ called' = [called EXCEPT ![c] =
                 Append(@, [message |-> p.message, given |-> request', stale |-> request])]
            /\ owed' = [owed EXCEPT ![c] = @ + 1]
       ELSE UNCHANGED <<request, called, owed>>
    /\ mishaps' = [mishaps EXCEPT ![c] =
         @ \cup (IF PrefixDue(c, buf) /\ Len(buf) < PrefixSize THEN {"short"} ELSE {})
           \cup (IF Len(readBuf[c]) = Capacity THEN {"full"} ELSE {})
           \cup (IF p.misread THEN {"misread"} ELSE {})]

Room(c) == Capacity - Len(readBuf[c])

(* The first segment of Readv, and _head after it took n bytes.            *)
Segment(c) == IF tail[c] > head[c] THEN tail[c] - head[c] ELSE Capacity - head[c]

HeadAfter(c, n) ==
  IF /\ n > 0 /\ tail[c] <= head[c] /\ ~(head[c] = 0 /\ tail[c] = 0)
     /\ n >= Capacity - head[c]
  THEN n - (Capacity - head[c])
  ELSE head[c] + n

(* ReadvNonBlock, of which readv is that of a plain descriptor: what is    *)
(* there, up to the room, of which SSL fills the first segment only. A     *)
(* record, here all that is on the wire, is decrypted as a whole, and not  *)
(* before all of it came; SSL delivers what it held back first. A record   *)
(* is smaller than the buffer.                                             *)
Source(c) == IF c \in Secure /\ held[c] # <<>> THEN held[c] ELSE wire[c]

Most(c) ==
  Lesser(Len(Source(c)), IF c \in Secure THEN Lesser(Room(c), Segment(c)) ELSE Room(c))

Cuts(c) ==
  (IF (c \in Secure /\ held[c] = <<>>) \/ Most(c) = 0 THEN {0} ELSE {}) \cup (1 .. Most(c))

ReadvNonBlock(c, n) ==
  /\ n \in Cuts(c)
  /\ IF c \in Secure /\ n > 0
     THEN /\ held' = [held EXCEPT ![c] = Rest(Source(c), n)]
          /\ wire' = IF held[c] = <<>> THEN [wire EXCEPT ![c] = <<>>] ELSE wire
     ELSE /\ wire' = [wire EXCEPT ![c] = Rest(@, n)]
          /\ UNCHANGED held

(* A full buffer makes Readv fail: Read parses all the same, and the loop  *)
(* closes the connection. A buffer filled at once from slot 0 to its end   *)
(* has no full flag: readv is given no room, and the loop comes again. SSL *)
(* may ask to write when it read nothing.                                  *)
Read(c, n) ==
  LET full == head[c] = tail[c] /\ readBuf[c] # <<>> IN
  /\ state[c] = "open" /\ wire[c] # <<>>
  /\ ReadvNonBlock(c, n)
  /\ head' = [head EXCEPT ![c] = HeadAfter(c, n)]
  /\ \E buf \in {readBuf[c] \o Prefix(Source(c), n)} : Parse(c, HeadAfter(c, n), buf)
  /\ state' = IF full THEN [state EXCEPT ![c] = "closing"] ELSE state
  /\ IF n = 0 /\ ~full THEN watched' \in {watched, [watched EXCEPT ![c] = TRUE]} ELSE UNCHANGED watched
  /\ UNCHANGED <<output, history>>

(* Mutant: the room is not asked for. *)
FitsAlways(c, k) == TRUE

(* Push and PushDirect: a piece of k bytes finds room. *)
Fits(c, k) == Len(writeBuf[c]) + k <= Capacity

Response == Frame([i \in 1 .. size |-> CHOOSE f \in Fields : TRUE])

(* WriteResponse: the result of the first Push is overwritten by that of   *)
(* the second; serializing fills the room there is.                        *)
WriteResponse(c) ==
  LET free == Capacity - Len(writeBuf[c]) IN
  /\ state[c] = "open" /\ owed[c] > 0
  /\ owed' = [owed EXCEPT ![c] = @ - 1]
  /\ IF Fits(c, Len(Response))
     THEN /\ writeBuf' = [writeBuf EXCEPT ![c] = Prefix(@ \o Response, Capacity)]
          /\ accepted' = [accepted EXCEPT ![c] = @ + 1]
          /\ watched' = [watched EXCEPT ![c] = TRUE]
          /\ UNCHANGED mishaps
     ELSE /\ writeBuf' = [writeBuf EXCEPT ![c] =
               @ \o Prefix(Response, IF free < PrefixSize /\ free > 0 THEN 1 ELSE free)]
          /\ mishaps' = [mishaps EXCEPT ![c] = @ \cup {"torn"}]
          /\ UNCHANGED <<accepted, watched>>
  /\ UNCHANGED <<state, input, back, history>>

(* Mutant: the write event is given up after one writev. *)
StillWatched(c, n) == FALSE

(* What Write returns: 0 clears the watch for room. *)
Maintained(c, n) == n < Len(writeBuf[c])

(* The indices of _writeBuf, which wrap at the end: every byte pushed was  *)
(* written or is waiting.                                                  *)
WriteHead(c) == (Len(back[c]) + Len(writeBuf[c])) % Capacity
WriteTail(c) == Len(back[c]) % Capacity

(* Writev computes a negative length when the head is at slot 0, and the   *)
(* call fails.                                                             *)
Refused(c) == writeBuf[c] # <<>> /\ WriteHead(c) = 0

(* The most a writev takes; SSL takes from the first segment only.         *)
Writable(c) ==
  IF c \in Secure THEN Lesser(Len(writeBuf[c]), Capacity - WriteTail(c)) ELSE Len(writeBuf[c])

(* Writev of an empty buffer is an error too; the loop closes on either.   *)
Write(c, n) ==
  /\ state[c] \in {"open", "closing"} /\ watched[c]
  /\ n \in IF writeBuf[c] = <<>> \/ Refused(c) THEN {0} ELSE {1, Writable(c)}
  /\ writeBuf' = [writeBuf EXCEPT ![c] = Rest(@, n)]
  /\ back' = [back EXCEPT ![c] = @ \o Prefix(writeBuf[c], n)]
  /\ IF n = 0
     THEN /\ state' = [state EXCEPT ![c] = "closing"]
          /\ mishaps' = [mishaps EXCEPT ![c] =
               @ \cup {IF Refused(c) THEN "refused" ELSE "idle"}]
          /\ UNCHANGED watched
     ELSE /\ watched' = [watched EXCEPT ![c] = Maintained(c, n)]
          /\ UNCHANGED <<state, mishaps>>
  /\ UNCHANGED <<input, accepted, owed, history>>

-----------------------------------------------------------------------------
Init ==
  /\ state    = [c \in Connections |-> "new"]
  /\ readBuf  = [c \in Connections |-> <<>>]
  /\ head     = [c \in Connections |-> 0]
  /\ tail     = [c \in Connections |-> 0]
  /\ gSize    = [c \in Connections |-> 0]
  /\ writeBuf = [c \in Connections |-> <<>>]
  /\ watched  = [c \in Connections |-> FALSE]
  /\ request  = {}
  /\ failed   = FALSE
  /\ wire     = [c \in Connections |-> <<>>]
  /\ held     = [c \in Connections |-> <<>>]
  /\ back     = [c \in Connections |-> <<>>]
  /\ owed     = [c \in Connections |-> 0]
  /\ size     \in ResponseSizes
  /\ sends    = [c \in Connections |-> 0]
  /\ sent     = [c \in Connections |-> <<>>]
  /\ called   = [c \in Connections |-> <<>>]
  /\ accepted = [c \in Connections |-> 0]
  /\ mishaps  = [c \in Connections |-> {}]

ReadSome(c)  == \E n \in 0 .. Len(Source(c)) : Read(c, n)
WriteSome(c) == \E n \in 0 .. Len(writeBuf[c]) : Write(c, n)

Next ==
  /\ ~failed
  /\ \E c \in Connections :
       \/ Register(c)
       \/ Unregister(c)
       \/ \E m \in Requests[c] : Send(c, m)
       \/ ReadSome(c)
       \/ WriteResponse(c)
       \/ WriteSome(c)

(* epoll reports a descriptor for as long as it is ready, so that Read     *)
(* comes again until the stream is empty. The program answers the calls.   *)
Fairness ==
  \A c \in Connections :
    /\ WF_vars(~failed /\ Unregister(c))
    /\ WF_vars(~failed /\ Read(c, Most(c)))
    /\ WF_vars(~failed /\ WriteSome(c))
    /\ WF_vars(~failed /\ WriteResponse(c))

Spec == Init /\ [][Next]_vars /\ Fairness

-----------------------------------------------------------------------------
(* How many elements lie between the indices of a ring.                    *)
Between(h, t, n) ==
  \/ t <= h /\ n = h - t
  \/ h <= t /\ h # 0 /\ n = Capacity - (t - h)
  \/ h = 0 /\ t < Capacity /\ n = Capacity - t /\ n > 0

(* The types of the variables; buffers hold bytes, at most Capacity, and   *)
(* what is read lies between the indices.                                  *)
TypeOK ==
  /\ state \in [Connections -> {"new", "open", "closing", "gone"}]
  /\ \A b \in {readBuf, writeBuf} :
       \A c \in Connections : b[c] \in Seq(0 .. Base - 1) /\ Len(b[c]) <= Capacity
  /\ head \in [Connections -> 0..Capacity] /\ tail \in [Connections -> 0..Capacity]
  /\ \A c \in Connections : Between(head[c], tail[c], Len(readBuf[c]))
  /\ gSize \in [Connections -> Nat] /\ owed \in [Connections -> Nat]
  /\ watched \in [Connections -> BOOLEAN] /\ failed \in BOOLEAN
  /\ request \subseteq Fields
  /\ accepted \in [Connections -> Nat] /\ size \in Nat
  /\ mishaps \in [Connections -> SUBSET Mishaps]

Calls(c) == [i \in DOMAIN called[c] |-> called[c][i].message]

Astray(c) == mishaps[c] \cap {"short", "misread"} # {}

(* Read takes the requests out of their frames in the order sent, however  *)
(* the stream is cut, but for the empty ones, which it passes over; no     *)
(* assertion fails, and the program is given just what was sent as long as *)
(* the request of the manager was still empty. A cut before the last byte  *)
(* of a prefix loses the framing of its own connection only; a message     *)
(* parsed with the head of its buffer below the tail ends the program.     *)
CalledAsSent ==
  /\ failed => \E c \in Connections : Astray(c)
  /\ \A c \in Connections :
       ~Astray(c) =>
         /\ IsPrefix(Calls(c), sent[c])
         /\ \A i \in DOMAIN called[c] :
              called[c][i].given = Range(called[c][i].message) \cup called[c][i].stale

(* What a client has received and what waits for it are whole responses,   *)
(* one for each WriteResponse that returned 0, unless one did not fit.     *)
AnswersWhole ==
  \A c \in Connections :
    "torn" \notin mishaps[c] =>
      LET bytes == back[c] \o writeBuf[c] IN
      /\ Len(bytes) = accepted[c] * Len(Response)
      /\ \A i \in DOMAIN bytes : bytes[i] = Response[((i - 1) % Len(Response)) + 1]

(* A request waits in the buffer although all of it came: Read takes one   *)
(* frame at a time, and none from fewer than four bytes; or some of it is  *)
(* held by SSL, where epoll does not see it.                               *)
Stalled(c) == wire[c] = <<>> /\ (Whole(c) \/ held[c] # <<>>)

(* Every request that is not empty is answered, unless the connection is   *)
(* left with a whole frame in its buffer or in its SSL, or met one of the  *)
(* mishaps.                                                                *)
RequestsAnswered ==
  \A c \in Connections : \A k \in 1 .. MaxSent[c] :
    Len(sent[c]) >= k ~>
      Len(back[c]) >= k * Len(Response) \/ Stalled(c) \/ mishaps[c] # {} \/ failed
=============================================================================
