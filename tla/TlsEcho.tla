------------------------------- MODULE TlsEcho -------------------------------
(***************************************************************************)
(* coypu::net::ssl::OpenSSLManager over memory BIOs                        *)
(* (include/echidna/openssl_mgr.hpp) with coypu::event::IOCallbackManager  *)
(* and IOBufManager (include/echidna/event_mgr.hpp) on a ring, composed as *)
(* tests/test-ssl.cpp does to echo what TLS clients send. A polling thread *)
(* of the kernel takes what is submitted and carries it out on its own.    *)
(*                                                                         *)
(* Both ways of a connection are streams of units numbered from 1: the     *)
(* client's hello and its finished, the server's flight and its tickets,   *)
(* then the records of data, RecordSize units each, which are echoed. The  *)
(* SSL library decrypts a record when all its units are there, and the     *)
(* program reads a part of it, of at most 1024 bytes, for each receive.    *)
(* Closing, which the callbacks pass over, and completions of              *)
(* PROVIDE_BUFFERS, whose callback only logs, are left out, and so is the  *)
(* alert of an SSL that met units out of order.                            *)
(***************************************************************************)
EXTENDS Integers, Sequences, FiniteSets, SequencesExt

CONSTANTS
  Connections,  \* the descriptors
  NumBufs,      \* _num_bufs, the buffers of the group
  BufSize,      \* _buf_size, in units
  CacheSize,    \* IOV_CACHE_BUF, in units
  RecordSize,   \* the units of a record of data
  Loads         \* what a run may do: the records each client sends, the units
                \* the program reads for a receive, how many multishot
                \* receives the kernel ends, how many short writes

ASSUME SizesAssumption == {NumBufs, BufSize, CacheSize, RecordSize} \subseteq Nat \ {0}
ASSUME LoadsAssumption ==
  \A l \in Loads :
    /\ \E clients \in SUBSET Connections : l.records \in [clients -> Nat]
    /\ {l.ends, l.shorts} \subseteq Nat /\ l.read \in Nat \ {0}

HELLO    == 1
FINISHED == 2

VARIABLES
  load,    \* the load of this run
  (* the clients *)
  wire,    \* units on their way to the server
  next,    \* the unit the client sends next
  back,    \* units the client received
  (* the program *)
  ssl,     \* _fdToCon: phase, rbio, wbio, what SSL holds of a record, and
           \* whether that is decrypted and the program has to read it
  cache,   \* _iov_cache and _iov_buf: the buffer and iov_len
  used,    \* _used_count
  called,  \* the completion whose onRecv has submitted but not pushed yet
  (* the rings *)
  sq,      \* submitted, not taken yet
  cq,      \* completions not drained yet
  (* the kernel *)
  bufs,    \* the contents of the buffers of the group
  free,    \* the buffers it may select, in order
  armed,   \* receives that wait
  writes,  \* vectored writes under way
  ends,    \* how many multishot receives it ended
  shorts,  \* how many writes it cut short
  mishaps  \* what went wrong on a connection; see below

client  == <<wire, next, back>>
programSide == <<ssl, cache, used, called>>
kernelSide  == <<bufs, free, armed, writes, ends, shorts>>
echoVars    == <<load, client, programSide, sq, cq, kernelSide, mishaps>>

(* "left": onRecv returned with units in the read BIO, or with a part of a *)
(* record that is decrypted and was not read. "overwritten": the write     *)
(* cache was filled while a write from it was outstanding. "short": a      *)
(* write took a part or none. "starved": the group was empty and no        *)
(* receive is left. "misdirected": units received went to onWritev.        *)
(* "refilled": a buffer was filled again before it was pushed.             *)
Mishaps == {"left", "overwritten", "short", "starved", "misdirected", "refilled"}

None == [fd |-> "none"]

-----------------------------------------------------------------------------
Lesser(a, b) == IF a < b THEN a ELSE b

Rest(s, n)   == SubSeq(s, n + 1, Len(s))
Prefix(s, n) == SubSeq(s, 1, Lesser(n, Len(s)))

Stream(c) == [i \in 1 .. 2 + load.records[c] * RecordSize |-> i]

Provide   == [op |-> "PROVIDE_BUFFERS"]
RecvMulti(c, cb) == [op |-> "RECV", fd |-> c, cb |-> cb]
Writev(c) == [op |-> "WRITEV", fd |-> c]

-----------------------------------------------------------------------------
(* The client sends its hello, its finished when it has the server's       *)
(* flight, and records of data from then on without waiting.               *)
Send(c) ==
  LET last == IF next[c] <= FINISHED THEN next[c] ELSE next[c] + RecordSize - 1 IN
  /\ ssl[c].phase # "none" /\ next[c] \in DOMAIN Stream(c)
  /\ next[c] >= FINISHED => back[c] # <<>>
  /\ next' = [next EXCEPT ![c] = last + 1]
  /\ wire' = [wire EXCEPT ![c] = @ \o SubSeq(Stream(c), next[c], last)]
  /\ UNCHANGED <<load, back, programSide, sq, cq, kernelSide, mishaps>>

-----------------------------------------------------------------------------
(* The SSL library. *)

(* SSL_do_handshake. *)
DoHandshake(s) ==
  IF s.rbio = <<>> THEN s
  ELSE CASE s.phase = "accept" /\ s.rbio[1] = HELLO ->
              [s EXCEPT !.phase = "flight", !.rbio = Tail(@), !.wbio = Append(@, HELLO)]
         [] s.phase = "flight" /\ s.rbio[1] = FINISHED ->
              [s EXCEPT !.phase = "open", !.rbio = Tail(@), !.wbio = Append(@, FINISHED)]
         [] OTHER -> [s EXCEPT !.phase = "broken"]

(* The units of a record follow one another. *)
Sound(s, record) ==
  \A i \in DOMAIN record : record[i] = record[1] + i - 1 /\ record[1] = s.expected

(* SSL_read of a decrypted record, and WritevNonBlock of what it returns.  *)
Echo(s, record, rbio) ==
  LET n == Lesser(load.read, Len(record)) IN
  [s EXCEPT !.held = Rest(record, n), !.clear = n < Len(record), !.rbio = rbio,
            !.wbio = @ \o Prefix(record, n), !.expected = @ + n]

(* ReadvNonBlock and, when it returns anything, WritevNonBlock: SSL_read   *)
(* goes on in the record it decrypted last, or decrypts the next when all  *)
(* of it is there, and keeps a part of it.                                 *)
ReadAndEcho(s) ==
  LET all    == s.held \o s.rbio
      record == Prefix(all, RecordSize) IN
  IF s.clear THEN Echo(s, s.held, s.rbio)
  ELSE IF Len(all) < RecordSize THEN [s EXCEPT !.held = all, !.rbio = <<>>]
  ELSE IF ~Sound(s, record) THEN [s EXCEPT !.phase = "broken"]
  ELSE Echo(s, record, Rest(all, RecordSize))

IsInitFinished(s) == s.phase = "open"
PendingRead(s)    == Len(s.rbio)
PendingWrite(s)   == Len(s.wbio)

-----------------------------------------------------------------------------
(* The callbacks. *)

(* The iovec and the buffer of a descriptor, as Register leaves them. *)
NewCache == [buf |-> [i \in 1 .. CacheSize |-> 0], len |-> CacheSize]

(* onAccept: RegisterWithMemBIO, Register, the first receive. *)
Accept(c) ==
  /\ ssl[c].phase = "none" /\ called = None /\ c \in DOMAIN load.records
  /\ ssl' = [ssl EXCEPT ![c].phase = "accept"]
  /\ sq' = Append(sq, RecvMulti(c, "RECV"))
  /\ UNCHANGED <<load, client, cache, used, called, cq, kernelSide, mishaps>>

WriteOutstanding(c) == (\E i \in DOMAIN sq : sq[i] = Writev(c)) \/ (\E i \in DOMAIN writes : writes[i].fd = c)

(* DrainWriteBIO into the write cache, over what is in it, and             *)
(* SubmitWritev, when there is anything to write.                          *)
DrainAndWrite(c, s, more) ==
  LET n == Lesser(PendingWrite(s), CacheSize) IN
  /\ ssl' = [ssl EXCEPT ![c] = [s EXCEPT !.wbio = Rest(@, n)]]
  /\ cache' = IF n = 0 THEN cache
              ELSE [cache EXCEPT ![c] = [buf |-> Prefix(s.wbio, n) \o Rest(@.buf, n), len |-> n]]
  /\ sq' = sq \o (IF n = 0 THEN <<>> ELSE <<Writev(c)>>) \o more

Overwrites(c, s) == IF PendingWrite(s) > 0 /\ WriteOutstanding(c) THEN {"overwritten"} ELSE {}

(* Mutant: the group counts as used up one buffer early. *)
IsFullEarly(n) == n + 1 = NumBufs

IsFull(n) == n = NumBufs

(* SubmitBuffers and SubmitRecvMulti. *)
Rearmed(c) == <<Provide, RecvMulti(c, "RECV")>>

(* Drain calls onRecv with units: up to the buffers.                       *)
OnRecv(k) ==
  /\ k.op = "RECV" /\ k.cb = "RECV" /\ k.units > 0
  /\ used' = IF IsFull(used + 1) THEN 0 ELSE used + 1
  /\ sq' = IF IsFull(used + 1) THEN sq \o Rearmed(k.fd) ELSE sq
  /\ called' = k
  /\ UNCHANGED <<ssl, cache, mishaps>>

(* Mutant: a buffer is pushed whole. *)
Entire(buf, res) == buf

(* What PushReadBIO is given: res from the start of the buffer. *)
Filled(buf, res) == Prefix(buf, res)

(* The rest of onRecv: PushReadBIO, the handshake or one read and its      *)
(* echo, one write. A receive that ended is started again, with            *)
(* IORING_RECV_MULTISHOT where the operation goes, which is that of WRITEV.*)
Push ==
  LET c    == called.fd
      s    == [ssl[c] EXCEPT !.rbio = @ \o Filled(bufs[called.buf], called.units)]
      done == CASE s.phase \in {"accept", "flight"} -> DoHandshake(s)
                [] IsInitFinished(s)                -> ReadAndEcho(s)
                [] OTHER                            -> s IN
  /\ called # None
  /\ DrainAndWrite(c, done, IF called.more THEN <<>> ELSE <<RecvMulti(c, "WRITEV")>>)
  /\ mishaps' = [mishaps EXCEPT ![c] =
       @ \cup Overwrites(c, done) \cup (IF PendingRead(done) > 0 \/ done.clear THEN {"left"} ELSE {})]
  /\ called' = None
  /\ UNCHANGED <<load, client, used, cq, kernelSide>>

(* onRecv without units: the group was empty. *)
OnNoBuffers(k) ==
  LET waiting == \/ \E i \in DOMAIN armed : armed[i].fd = k.fd
                 \/ \E i \in DOMAIN sq : sq[i].op = "RECV" /\ sq[i].fd = k.fd IN
  /\ k.op = "RECV" /\ k.cb = "RECV" /\ k.units = 0
  /\ mishaps' = IF waiting THEN mishaps ELSE [mishaps EXCEPT ![k.fd] = @ \cup {"starved"}]
  /\ UNCHANGED <<ssl, cache, used, called, sq>>

(* Mutant: one write is all there is. *)
NothingLeft(s) == FALSE

WriteMore(s) == PendingWrite(s) > 0

(* onWritev, which does not look at what was written. *)
OnWritev(k) ==
  LET s == ssl[k.fd] IN
  /\ k.op = "WRITEV" \/ k.cb = "WRITEV"
  /\ IF WriteMore(s) THEN DrainAndWrite(k.fd, s, <<>>) ELSE UNCHANGED <<ssl, cache, sq>>
  /\ mishaps' = [mishaps EXCEPT ![k.fd] =
       @ \cup Overwrites(k.fd, s) \cup (IF k.op = "RECV" THEN {"misdirected"} ELSE {})]
  /\ UNCHANGED <<used, called>>

(* IOURingHelper::Drain and Fire. *)
Fire ==
  /\ called = None /\ cq # <<>>
  /\ cq' = Tail(cq)
  /\ OnRecv(cq[1]) \/ OnNoBuffers(cq[1]) \/ OnWritev(cq[1])
  /\ UNCHANGED <<load, client, kernelSide>>

-----------------------------------------------------------------------------
(* The kernel. *)

(* The thread takes the oldest entry, and iov_len with it. *)
TakeEntry ==
  /\ sq # <<>>
  /\ sq' = Tail(sq)
  /\ free'   = IF sq[1].op = "PROVIDE_BUFFERS" THEN free \o [i \in 1 .. NumBufs |-> i] ELSE free
  /\ armed'  = IF sq[1].op = "RECV" THEN Append(armed, sq[1]) ELSE armed
  /\ writes' = IF sq[1].op = "WRITEV" THEN Append(writes, [fd |-> sq[1].fd, len |-> cache[sq[1].fd].len])
               ELSE writes
  /\ UNCHANGED <<load, client, programSide, cq, bufs, ends, shorts, mishaps>>

(* The connections that still have to be pushed what is in a buffer. *)
Owners(b) ==
  {k.fd : k \in {k \in ToSet(cq) : k.op = "RECV" /\ k.units > 0 /\ k.buf = b}
                  \cup (IF called # None /\ called.buf = b THEN {called} ELSE {})}

(* A receive takes n units into a buffer; it goes on unless it ends. *)
Receive(i, n, more) ==
  LET c == armed[i].fd  b == free[1] IN
  /\ free # <<>> /\ n \in 1 .. Lesser(BufSize, Len(wire[c]))
  /\ more \/ ends < load.ends
  /\ wire' = [wire EXCEPT ![c] = Rest(@, n)]
  /\ bufs' = [bufs EXCEPT ![b] = Prefix(wire[c], n) \o Rest(@, n)]
  /\ free' = Tail(free)
  /\ armed' = IF more THEN armed ELSE RemoveAt(armed, i)
  /\ ends' = IF more THEN ends ELSE ends + 1
  /\ cq' = Append(cq, [op |-> "RECV", fd |-> c, cb |-> armed[i].cb, buf |-> b, units |-> n, more |-> more])
  /\ mishaps' = [d \in Connections |-> mishaps[d] \cup (IF d \in Owners(b) THEN {"refilled"} ELSE {})]
  /\ UNCHANGED <<load, next, back, programSide, sq, writes, shorts>>

(* There is no buffer to receive into: the receive ends. *)
NoBuffers(i) ==
  LET c == armed[i].fd IN
  /\ free = <<>> /\ wire[c] # <<>>
  /\ armed' = RemoveAt(armed, i)
  /\ cq' = Append(cq, [op |-> "RECV", fd |-> c, cb |-> armed[i].cb, buf |-> 0, units |-> 0, more |-> FALSE])
  /\ UNCHANGED <<load, client, programSide, sq, bufs, free, writes, ends, shorts, mishaps>>

(* A write sends n units of what the write cache holds now. *)
Transfer(i, n) ==
  LET c == writes[i].fd IN
  /\ n = writes[i].len \/ (shorts < load.shorts /\ n \in 0 .. writes[i].len - 1)
  /\ back' = [back EXCEPT ![c] = @ \o Prefix(cache[c].buf, n)]
  /\ writes' = RemoveAt(writes, i)
  /\ shorts' = IF n = writes[i].len THEN shorts ELSE shorts + 1
  /\ cq' = Append(cq, [op |-> "WRITEV", fd |-> c, cb |-> "WRITEV"])
  /\ mishaps' = [mishaps EXCEPT ![c] = @ \cup (IF n = writes[i].len THEN {} ELSE {"short"})]
  /\ UNCHANGED <<load, wire, next, programSide, sq, bufs, free, armed, ends>>

-----------------------------------------------------------------------------
EchoInit ==
  /\ load \in Loads
  /\ wire = [c \in Connections |-> <<>>] /\ back = [c \in Connections |-> <<>>]
  /\ next = [c \in Connections |-> HELLO]
  /\ ssl = [c \in Connections |->
       [phase |-> "none", rbio |-> <<>>, wbio |-> <<>>, held |-> <<>>, clear |-> FALSE, expected |-> FINISHED + 1]]
  /\ cache = [c \in Connections |-> NewCache]
  /\ used = 0 /\ called = None
  /\ sq = <<Provide>> /\ cq = <<>>
  /\ bufs = [b \in 1 .. NumBufs |-> [i \in 1 .. BufSize |-> 0]]
  /\ free = <<>> /\ armed = <<>> /\ writes = <<>> /\ ends = 0 /\ shorts = 0
  /\ mishaps = [c \in Connections |-> {}]

ReceiveSome(i) ==
  \E more \in BOOLEAN : \E n \in 1 .. Len(wire[armed[i].fd]) : Receive(i, n, more)

TransferSome(i) == \E n \in 0 .. CacheSize : Transfer(i, n)

CarryOut == (\E i \in DOMAIN armed : ReceiveSome(i) \/ NoBuffers(i)) \/ (\E i \in DOMAIN writes : TransferSome(i))

EchoNext ==
  \/ \E c \in Connections : Send(c) \/ Accept(c)
  \/ Fire \/ Push
  \/ TakeEntry
  \/ CarryOut

(* The program drains for ever; the thread polls, and what it can complete *)
(* it completes.                                                           *)
EchoFairness == WF_echoVars(Fire) /\ WF_echoVars(Push) /\ WF_echoVars(TakeEntry) /\ WF_echoVars(CarryOut)

EchoSpec == EchoInit /\ [][EchoNext]_echoVars /\ EchoFairness

-----------------------------------------------------------------------------
(* What a client receives is the stream it should receive, in order and    *)
(* with nothing added, whatever pieces the kernel receives in and when it  *)
(* carries out what was submitted, until the write cache is filled while a *)
(* write from it is outstanding or a write takes only a part of it, units  *)
(* received are given to onWritev, or a buffer is filled again before what *)
(* was in it is pushed.                                                    *)
EchoedAsSent ==
  \A c \in DOMAIN load.records :
    mishaps[c] \cap {"overwritten", "short", "misdirected", "refilled"} = {} =>
      IsPrefix(back[c], Stream(c)) /\ ssl[c].phase # "broken"

Waiting == {i \in DOMAIN cq : cq[i].op = "RECV" /\ cq[i].units > 0}
Provided == {i \in DOMAIN sq : sq[i] = Provide}

(* _used_count agrees with the kernel: the buffers it may select or will   *)
(* be given, those in completions to come and those counted as used are    *)
(* the buffers of the group, each once, as long as all completions go to   *)
(* onRecv.                                                                 *)
BuffersCounted ==
  (\A c \in Connections : "misdirected" \notin mishaps[c]) /\ (\A i \in DOMAIN cq : cq[i].cb = cq[i].op) =>
    /\ Len(free) + NumBufs * Cardinality(Provided) + Cardinality(Waiting) + used = NumBufs
    /\ IsInjective(free)

(* All that a client sent comes back, again and again, on a connection     *)
(* that met none of the mishaps.                                           *)
EchoesArrive == \A c \in Connections : []<>(mishaps[c] # {} \/ Len(back[c]) >= next[c] - 1)
=============================================================================
