# A verification project for libechidna

libechidna is a C++ library for event-driven network programs on Linux: an
epoll loop and an io_uring loop, the byte buffers of their connections, a paged
append-only store, and protocol managers (WebSocket, protobuf, HTTP/2 with
gRPC, TLS) that are called by the loop and read and write through those
buffers. This directory holds TLA+ specifications of its core, the TLC
configurations that check them on small instances, and proofs checked by TLAPS
of properties of eight of them for all parameters.

Paths below are relative to the repository (`include/echidna/...`, `src/...`,
`tests/...`).

## 1. Inventory

| Component | State it keeps | Operations | Talks to |
| --- | --- | --- | --- |
| `BipBuf` (`buf.hpp`) | `_head`, `_tail`, `_full`, the array | `Push`, `PushDirect`, `BackupDirect`, `Pop`, `PopAll`, `Read`, `Write`, `Readv`, `Writev`, `Direct`, `Backup`, `Skip`, `Peak`, `Find` | `readv`/`writev` through callbacks; owned two by two by every connection |
| `EventManager` (`event_mgr.hpp`, `event_hlpr.*`) | table of callbacks by descriptor, the batch of `epoll_wait`, `_closeSet` | `Register`, `Unregister`, `SetWrite`, `ClearWrite`, `Wait` | the kernel, the callbacks of every other component |
| `EventCBManager` (`event_mgr.hpp`) | queue of program events, callbacks by type, an eventfd | `Register`, `Unregister`, `Queue`, `QueueSend`, `Read`, `ReadIO`, `Write` | either loop |
| `IOURingHelper` (`event_hlpr.*`) | the two rings, shared with the kernel | `Submit*`, `AddToSQE`, `Drain` | the kernel's polling thread |
| `IOCallbackManager`, `IOBufManager` (`event_mgr.hpp`) | callbacks and buffers by descriptor | `Register`, `SetCallback`, `Fire`, `GetWriteCache`, `SubmitBuffers`, `IncUsedCount`... | `IOURingHelper` |
| Store (`store.hpp`, `streams.hpp`, `storeutil.hpp`) | mapped page, write position, bytes available, page caches, positions of subscribers | `Push`, `Readv`, `ZeroCopy*`, `Pop`, `Peak`, `Find`, `Writev`, `Register`, `Mark`, reopening | files, anonymous memory, descriptors |
| `WebSocketManager` (`websocket.hpp`) | state, handshake headers, frame header, two rings, two streams per connection | `RegisterConnection`, `Unregister`, `Stream`, `Queue`, `Read`, `Write`, `SetWriteAll` | the loop, `BipBuf`, the store |
| `ProtoManager` (`protomgr.hpp`) | size of the message awaited and two rings per connection, one request object for all | `Register`, `Unregister`, `Read`, `WriteResponse`, `Write` | the loop, `BipBuf`, protobuf, the callback of the program |
| `HTTP2GRPCManager` (`http2.hpp`, `http2.cpp`) | state, frame header, stream and output of each connection; one inflater and one request for all | `RegisterConnection`, `Unregister`, `Read`, `Write`, `SetWriteAll`, `Send*` | the loop, `BipBuf`, the store, protobuf, nghttp2 |
| `OpenSSLManager` (`openssl_mgr.hpp`) | an `SSL` and two memory BIOs per connection | `Register*`, `DoHandshake`, `ReadvNonBlock`, `WritevNonBlock`, BIO pumps | the callbacks of either loop, OpenSSL |
| Configuration (`config.*`) | a tree built by a stack machine | `Parse`, `Add`, getters | libyaml |
| Wrappers and helpers (`tcp`, `udp`, `mem`, `file`, `timer`, `string-util`, `pipeline`, `logutil`) | none | one system call each, or pure | |

What makes each of them correct, and what is hard about it:

* `BipBuf` must be a bounded FIFO queue. Full and empty look alike without the
  flag, two operations leave an index one past the array, and the zero-copy
  calls hand out and take back elements.
* The epoll loop handles events one at a time while the kernel closes and
  reuses numbers, so an event of a batch may be about a descriptor that is not
  the same file any more. No callback may get an event of another connection,
  none may be closed without cause or twice, and output that is queued must be
  written.
* A wake-up of the event queue may be swallowed by the read that serves an
  earlier one, or by the loop that clears the write bit.
* The program and the kernel thread share the rings without locks, with
  nothing but compiler barriers.
* The store extends its file while readers map pages through caches that evict
  them; a call may fail half way; positions are offsets into a log whose last
  page is not full.
* A WebSocket connection gets its bytes cut anywhere, switches from one buffer
  to another in the middle of a read, and has two sources of output.
* A protobuf or HTTP/2 connection is cut anywhere too, takes lengths from what
  it reads, answers into a buffer that may be full, and shares a request object
  (and, in HTTP/2, a table of headers) with all other connections. The loop comes
  back only for what the kernel still holds: what a manager or an `SSL` left in
  its own buffers waits for the next bytes of the peer.
* With io_uring nothing is ready, it is done: receives fill buffers of a group
  that someone has to give back, a write reads its buffer some time after it was
  submitted, and the callbacks of one connection run while the other's
  operations are under way.
* The configuration parser turns nested events into a tree with one flag and one
  key per node.

`PROJECT.json` lists these and the other hazards with their lines.

## 2. Plan

Done, in this order: `ByteQueue` and `BipBuf`; `EventManager`;
`EventCBManager`; `Uring`; `LogStore`; `WebSocket`; proofs for the first three
and of one property of the last; `Config`; `ProtoManager`; `Http2`; `TlsEcho`,
which composes OpenSSL, the callbacks of the uring loop and the rings of the
kernel; `SetPosition` and `Unmask` in `LogStore` and failing system calls in
`Uring`; then the proofs of `Uring`, `Config`, `LogStore` and `ProtoManager`,
the refinement of `ByteQueue` by `BipBuf`, and all the safety of `WebSocket`,
`Http2` and `TlsEcho`.

To do: a composition of `EventManager` with the return values of the managers'
`Read` and `Write`, in place of the loop each manager's module has now.

## 3. Modules

Each variable is commented with the member it stands for, each action is named
after the method it models, and `PROJECT.json` maps definitions to lines. An
action is a whole call: the library runs in one thread, so other actors (the
kernel, peers, the polling thread) act between calls. Calls are split where
another actor or a callback can act in the middle: the callbacks of a batch of
`Wait`, the rounds of `ProcessState`, the reads of the event queue, and the
loads and stores of the rings.

Definitions called mutants are plausible mistakes in the definition they
precede. Nothing refers to them; replacing the definition by its mutant makes a
property fail, which shows that the property watches that piece of code.

### ByteQueue, BipBuf

`ByteQueue` is the abstract specification: a sequence that is appended to,
delivered from, lent from and given back to. `BipBuf` is the ring: `head`,
`tail`, `full`, `data` as in the code, `got` for what a call delivers and `loan`
for what `Direct` last reported. `IsQueue` states that the ring implements
`ByteQueue`, with the contents read off the indices. A `Lend` of the queue lends
at least one element and exactly those it takes out, so `Direct` with the head
below the tail is a step of no queue: it is `DirectMisreports`, which `IsQueue`
excepts by name.

The rings of the library are used in different ways, and not every combination
of calls is meant to work. The variable `use` names the owner: the input and
output rings of the web socket and HTTP/2 managers (`httpBuf`, `writeBuf`), of
the protobuf manager with its zero-copy streams (`protoIn`, `protoOut`), and
the rings of the tests (`pipe`, `reader`, `peeker`). The table `Calls` says
which operations each performs. `popPeeker` pops and peeks, which does not work
(section 6); no code in `src/` does it and the runs leave it out.

### EventManager

`Wait` collects a batch (`Collects`), then `Step` handles one callback at a
time: `ReadCB` or `Accept` for the listener, `WriteCB`, `HupStep` for
`EPOLLHUP`/`EPOLLERR`, and after the batch `CloseCB` for the close set. A file
has an identity apart from its number, so that a number which stands for
another file by now can be told. The kernel assigns the lowest free number. The server behind the callbacks
accepts, reads, queues replies to any connection and writes them. A failed
assertion sets `failed` and stops the program.

Abstracted: the growth of the callback table (and with it the reference `cb`
that `Wait` holds at line 160 while `Register` may reallocate the vector),
statistics, logging, timeouts of `epoll_wait` without events.

### EventCBManager

The queue, the eventfd's counter and the write bit, with a loop that is epoll
(`Queue` sets the write bit, the write event writes the eventfd, the read event
reads it and calls the events) or uring (`QueueSend` submits the write). Reading
has a beginning and an end, and callbacks in between queue more. Names that
`EventManager` has too are told apart here (`RegisterType` is `Register`,
`AskToWrite` is `_set_write`, `halted` a failed assertion), since one module proves
about both.

### Uring

The program (`Fill`, `Publish`, `Check` are the three parts of `AddToSQE`;
`BeginDrain`, `Report`, `EndDrain` of `Drain`), the kernel's polling thread
(`Take`, `Doze`, `LookAgain`) and completions. Indices are modulo `Width`. The
processor's store buffer is modelled (`buffer`, `Flush`), because the order of
a store and a later load is what the wake-up depends on; `delays` says whether
the processor delays stores. Where `EnterFails`, the call that wakes the thread
may fail, after which the entry is in the ring and `unwoken` says that nobody
was woken for it. `Window` and `FromCallbacks` are what the *program*
keeps to, since the library keeps to nothing: they bound the entries it has
outstanding. An entry of `Multishot` completes any number of times before its
last completion (`PostAnother`; bounded by `Mores`), as those of
`SubmitRecvMulti` and `SubmitAcceptNonBlockMulti` do, and nothing bounds what of
these is in the ring. A completion for which there is no `Room` is lost to the
program (`overflow`), and `NoOverflow` says that this takes `Crowding`: more
completions with more to come in the ring than the window leaves slots for.

### LogStore

Bytes are numbered, so that no two are alike. `page`, `pos`, `next` are the
mapped page, the position in it and `_offset`; `available` is what the stream
counts; `cache` the LRU cache or the one-shot cache, which differ in who owns
the mapping; `cursor` the positions of subscribers. `Push`, `Readv`,
`ZeroCopyWrite` write; `Popped` and `Find` read, as functions that also say which
pages they touch, since a read changes the cache: `Walk` goes through the pages
as the loops of the code do, one `Visit` for each. `PushFails` is a push whose
file cannot be extended, `Reopen` a restart, `SetPosition` what a program that
goes on with its file calls, at the end of its log. `Unmask` is what the web
socket does to a frame in its store; a byte has a bit above its number for each
byte of the mask that was applied.

Where the code goes wrong in a way after which a property cannot hold, the step
records a *mishap* and the properties say from which mishaps they are free.
Each mishap is a finding (section 6).

Abstracted: a store has one segment table of its own size, `uint32_t` page
offsets do not overflow, `mmap` succeeds. Left out:
iterators and streambuf adapters, which call `Peak` and `Push` and keep nothing
else, read-only buffers, which refuse what writes, and the search for a free file
name in `CreateRollingStore`.

### WebSocket

A client's manager and a server's, each with its connection, joined by a byte
stream (`wire`). A request has the headers `Asked`, the answer of the library
`Answered`, and each side checks what it gets for `Wanted`. Since the client
wants a header that the server does not send (section 6), two sides of the
library never open; so one side, chosen in `Init`, may be `foreign`: a server
whose answer has all that the client wants, or a client that opens on the answer
of the library. For the rest a foreign side is served by the code of the library
too, its mishaps included. With none foreign the client connects for ever, its
program can queue nothing, and `ServerReceives` says nothing of it. The variables are those of `WebSocketConnection`; `watched` is
the write bit of the event loop. `Read` takes a prefix of what is on the wire,
through `HandleHTTP` before the upgrade and into the stream after it. Each round
of `ProcessState` is a step (`Open`, `DoOpen`, `DoOpenData`, `EndClosing` and the
rounds that wait), so that callbacks may queue frames in between. `Queue`,
`Publish` with `SetWriteAll`, `Stream` and `Unregister` are the program's; it is taken
to subscribe a connection to the publish stream from `onOpen`.

Bytes are counted in units the code handles as one: a line, the first two bytes
of a frame, its extended length, its mask, a piece of payload. All are cut and
counted as if of the same size. A unit carries its frame and its place in it, so
that a frame taken with a unit missing, twice or of another frame shows; `got`
keeps the frames taken by the buffer they left through, since the two buffers of
a sender are in no order with each other. `head` is where `_writeBuf` is written
next, on which `Writev` depends (`Refused`, `WriteFails`). Abstracted: header
values (the keys match), lines of 8 KiB, headers neither side asks for, frames
whose bytes read as a line while the client connects, `_httpBuf` wrapping round before the
upgrade, and connections without a stream. Mishaps are used as in `LogStore`;
the program queues nothing more after one.

### ProtoManager

Clients, the connections of one manager and the loop. `readBuf`, `gSize` and
`writeBuf` are those of a connection; `head` and `tail` are the indices of the
ring that is read, on which `Readv` and `Direct` depend, and those of the ring
that is written follow from what has passed through it (`WriteHead`,
`WriteTail`); `request` is the one object of the
manager, as the set of fields it has. A message is a sequence of fields, and
lengths are written in four digits to a small base, so that what the code reads
as a length or as a field is what came. `sends` counts the requests of a client
and `sent` keeps those that are not empty, since `Read` passes over the others. `Read` takes any prefix of the wire that
fits and runs the parser to its end, `WriteResponse` is the callback's answer,
at once or later, `Write` the write event. A connection in `Secure` reads
through `ReadvNonBlock` of `OpenSSLManager`: `held` is what the `SSL` decrypted
and did not deliver, which `epoll` does not see. Mishaps are kept per
connection: *short* (a prefix cut before its last byte), *full*, *torn* (a
response that did not fit), *idle* (a write event without output), *misread* (a
message parsed with the head of its ring below the tail, where `Direct` reports
less than nothing and protobuf ends the process) and *refused* (a `Writev` with
the head at slot 0, which fails). The program answers with responses of one
size, chosen at the start.

### Http2

The same for HTTP/2. What is read is kept in digits: a frame header is length,
type and stream, the prefix of a gRPC message a zero and a length, a field a
digit, a block of headers one digit that is a path or a place in the table. So
the code reads whatever follows when it takes one length for another, as it
does. `Read` is a step, and each round of `ProcessFrames` another (`Process`),
because each handles one frame; no other callback runs in between (`busy`). The
handlers `OnHeaders`, `OnData`, ... give what they do to the connection, the
inflater and the request, the frames they send and whether their assertions
hold. The id of a frame is taken with the bit cleared that the code clears
(`Masked`), which is bit 7 of the stream number. What is written is kept in the
pieces `SendFrame` pushes, with the slot of the ring its head is at (`head`): a
`Writev` with the head at slot 0 fails and the loop closes the connection
(`WriteFails`). Mishaps are *split*, *interleaved*, *table*, *residue*, *torn*,
*mixed*, *renamed* (the id of a stream changed) and *refused*. Frames that are no part of a call are of the lengths the protocol asks for and the code asserts
(`Legal`: two words in `GOAWAY`, one in `WINDOW_UPDATE`, pairs in `SETTINGS`).
Left out: flags, padding, priorities and flow control, none of which the code
looks at, and header values but the path.

### TlsEcho

`tests/test-ssl.cpp` is the only composition of `OpenSSLManager`'s memory BIOs
with `IOCallbackManager`, `IOBufManager` and a ring, and the module models that
one: a server that echoes what TLS clients send. `sq` and `cq` are the rings,
whose own indices and wake-ups are `Uring`'s business; the kernel takes an entry
(`TakeEntry`), selects a buffer of the group for a receive (`Receive`, or
`NoBuffers`), and carries out a vectored write from the buffer as it is by then
(`Transfer`). `Fire` calls a callback; `OnRecv` is cut in two (`Push`), because
the kernel thread may fill a buffer that the callback gave back before it pushed
it. `ssl` has the two BIOs and what the `SSL` holds of a record (`held`); the
library decrypts a record when all of it came and breaks on one out of order.
`ReadAndEcho` reads at most `load.read` units of it for a receive, as the
program reads at most 1024 bytes, and echoes those; the rest stays decrypted in
the `SSL` (`clear`) until the next bytes come, which is a case of the mishap
*left*. Left out:
alerts, closing, failing submissions, and completions of `PROVIDE_BUFFERS`,
whose callback logs.

### Config

The parser as a machine over the events of libyaml, which is external: it may
deliver any well-formed stream and may fail anywhere. `nodes` are the objects in
the order they were made, `curConfig` and `configStack` those of `Parse`. `open`
and `value` are what the file says, built up from the same events without
looking at the parser, and `Shown` is what the getters return.

## 4. Runs

| Run | Shows | Bounds |
| --- | --- | --- |
| `bipbuf` | the ring implements the queue; indices, queries and offered segments are sound, for 7 owners | 4 slots, 2 values: every pair of indices, both wraps, full and empty |
| `event_loop` | events and closes reach the right file, tables agree, output is written, failed connections are closed | 3 descriptors, 4 files, batches of 2: numbers are reused within a batch and more are ready than a batch takes |
| `event_queue` | no lost wake-up, order, every event called | 2 types, 3 events, both loops |
| `uring` | order, overflow only by crowding, everything reported, also past a failed `io_uring_enter` | 2 and 4 entries, indices modulo 8, 4 submissions, one of them multishot with 2 completions before its last, where the window leaves 1 slot: both rings wrap, and the completion ring overflows |
| `store` | holds, delivers and sends the log, keeps pages, through failures, restarts, positioning and unmasking | pages and masks of 2 bytes, 3 pages, cache of 2, 4 bytes offered in calls of up to 3: pages fill exactly, are evicted, and calls span three |
| `websocket` | frames arrive whole and in order, handshake consumed, closed for good, the server receives | a request and an answer of 3 lines, of which the client wants 4, and each side or none foreign; 5 units of buffer, whose head comes back to slot 0 with some frames and not with others; 2 frames from the client, 1 from the server, 1 published, cut everywhere |
| `proto` | requests reach the program as sent, answers are whole, every request is answered | a plain client with 2 requests of 0, 1 or 2 fields, one behind SSL, lengths to the base 4, responses of 6 or of 7 bytes, buffers of 7: one prefix and message, and not two, with both rings wrapping and filled to the last slot |
| `http2` | calls are answered once, in order, on their streams, by their path; frames are whole | four loads: 2 calls, split and begun in any order and cut anywhere; a call among other frames, published frames and output taken in part; two clients; one whose third call has the bit set that the manager clears; a buffer of 8 units, which an answer and what was not written yet exceed and in which the head comes back to slot 0 |
| `tls_echo` | what is echoed is what was sent; buffers of the group are accounted for; everything comes back | 2 buffers of 2 units, a write cache of 1, records of 2; loads with 2 records, with 2 records of which one unit is read for a receive, with a receive that ends and a short write, and with two clients |
| `config` | a file is returned as its first document says; assertions fail only for the cause stated | 6 nodes, depth 3, 3 documents, 2 scalars |
| `event_loop_slots` (violation) | `Register` asserts on a reused number | 1 reply |
| `uring_wakeup` (violation) | lost wake-up with delayed stores | 2 submissions |

Why the bounds are enough: the interesting cases of the rings are relations of
two indices and a size, all of which occur with four slots; the loop's hazard
needs two events in a batch and one reuse; page arithmetic needs a page before,
at and after a border; a frame has at most four kinds of parts, and cuts are
tried between any two; what one connection does to another through what they
share takes two connections and one message of each; in `tls_echo` units are so
large that a record needs two of them and an answer more than one write.

Counters are bounded by guards, and those bounds are the constants described as
such. When they are used up the system has nothing to do, so the runs do not
look for deadlock; everyone waiting while there is work is covered by the
liveness properties instead.

### Fairness

* `EventManager`: weak fairness of the handling of a batch (a `for` loop);
  strong fairness of collecting each descriptor, because the kernel rotates its
  ready list when more is ready than a batch takes; weak fairness of a peer
  making room, without which output waits for ever in any server.
* `EventCBManager`: the loop runs, and the kernel carries out submitted writes.
* `Uring`: the program goes on with a call it is in and calls `Drain`, stores
  reach memory, the thread runs while awake, operations complete. Nothing has
  to arrive for a multishot operation, and it need not end.
* `WebSocket`: the loop serves descriptors that are readable or watched and have
  room, and a read runs to its end. Nothing is assumed of the program.

* `ProtoManager`, `Http2`: the loop reads what is on the wire, all that there is
  room for; a round of `ProcessFrames` is followed by the next; a watched
  descriptor is written to; the program answers what it was called with
  (`ProtoManager`).
* `TlsEcho`: the program drains, the thread polls (that it is awake is the
  subject of `Uring`), and operations that can complete do, in any order.

`CallsAnswered` of `Http2` and `EchoesArrive` of `TlsEcho` are of the form *again
and again*: since nothing received is taken back, they say that all that was
asked is answered. `BipBuf`, `LogStore` and `Config` state no liveness.

## 5. Proofs

Eight modules prove what the runs check on small instances, for all values of
the constants that satisfy the named assumptions. Each proof of an invariant has
the shape `Init => IInv`, `IInv /\ [Next]_vars => IInv'`, `IInv => property`,
with a lemma per action; `IInv` was checked by TLC before it was proved.

* `BipBufProofs`: `TypeCorrect`, `IndicesAreSound`, `QueriesAreSound`, and
  `Implements`: the ring is a `ByteQueue`, every operation of it a step of the
  queue, except the `Direct` that misreports what it takes. The inductive invariant adds to the types that an owner that
  pushes never has an index at the end of the array (such owners do not use
  `Readv`, the one that leaves it there), that a tail at the end never meets a
  head at 0, and that what is lent still has room to come back. The step lemmas
  say what the sequence from tail to head becomes when an index moves past a
  border. `Implements` is for owners other than `popPeeker`, whose peek is wrong
  (section 6) and which exists in no code of `src/`.
* `EventManagerProofs`: `TypeCorrect`, `CloseOnce`, `NoStaleEvent`,
  `TablesInStep`, `NoStrandedOutput`. The table, the batch, the close set and
  epoll's set have to be tied together in one invariant: an event is safe because
  registrations go only after the batch, and a number that was closed in the batch
  and reused makes `Register` fail its assertion, so a program that is still
  running never has two files under a number with callbacks. It holds for any
  number of descriptors, files and any batch size. The same module proves of
  `EventCBManager` `QueueTypeCorrect`, `NoWakeUpLost` and `InOrder`: the invariant
  says where the loop is by the events it still has, and that the deque is the end
  of the history.
* `UringProofs`: `NoneOverwritten` (`TakenInOrder`), `DrainInOrder`
  (`ReportedInOrder`), `RoomForAll` (`NoOverflow`), `TypeCorrect`. Indices are
  numbers modulo `Width`; the invariant says that there are counts they stand
  for, one for each index and each store in the buffer, and orders the counts:
  published, seen, taken, posted, reported, and what the kernel and the program
  know of each other's heads. The window bounds entries, and completions only so
  far as they are the last of their entries; `Done` counts those, and the
  invariant relates the counts of entries to it. `RingsAssumption` (the sizes
  divide the width) is what the masks of the code need. `OutstandingAssumption`
  is what the tests of the rings keep to and the library does not enforce; with
  a window larger than the ring `TakenInOrder` does not hold (section 6). The
  same module proves of `TlsEcho`, which stands on the rings, `EchoIsSent`
  (`EchoedAsSent`) and `GroupIsCounted` (`BuffersCounted`). For the first, on a
  connection that met none of the mishaps the property names, the streams are
  cut in pieces that follow one another, each a run of units. On the way in they
  are what the `SSL` holds of a record, decrypted or not, the read BIO, the
  buffer of the completion in hand, those of the completions to come and the
  wire, and a function from the completions to units says where each piece
  begins (`Inward`); on the way out, what the client has, the write cache while
  a write of it is outstanding, and the write BIO, and the last ends where the
  first way begins (`Outward`). There is at most one write at a time, of as much
  as the cache holds. Each mishap is where one step would break one of these: a
  write cache filled again, a short write, a buffer filled again, units given to
  `onWritev`. For the second, the number of `PROVIDE_BUFFERS` among the entries
  and of completions with units are counted with the buffers that are free and
  used; a step moves one from one count to another, and when the count is full
  `OnRecv` trades all of it for one entry. `SizesAssumption` says that there are
  buffers and that buffers, the write cache and records hold something;
  `LoadsAssumption` is the shape of a load.
* `LogStoreProofs`: `LogIsHeld` (`HoldsTheLog`), `NothingRewritten`
  (`AcceptedStays`), `Delivery` (`DeliversTheLog`), `NothingMissed` (`NoGap`),
  `PagesAreHeld` (`PagesInUseHeld`). The page mapped, the next page and the
  position determine where the next byte goes; no byte accepted is at or behind
  that place, and it is the number of bytes available unless a push was torn.
  For the readers a second invariant, `RInv`, adds that what is not written yet is
  blank (`Find` looks at whole pages, so it must not find a byte that is not in
  the log), what the caches hold, and that a subscriber has the bytes up to its
  position. The loops over pages of `Find`, `Pop` and `Writev` are functions
  defined from number to number (`Walk`): that they exist, and that what each
  page preserves holds of the last, follows from the least number that would be
  an exception, without the library's induction.
* `WebSocketProofs`: `ArrivesAsSent` (`ReceivedAsSent`), `StaysClosedForGood`
  (`ClosedForGood`), `TypeCorrect`, `HandshakeIsTaken` (`HandshakeTaken`). The
  invariant of the first, `DInv`, is about the road to a side: what it read and
  has not taken, what is on the wire, and what the sender has yet to write, in
  the order it will leave (the rest of a published frame first when one is
  midway). The road is a chain of units, each behind the one its frame has
  before it or at the joint of two frames, begins where the side left off, and
  begins each frame in its turn of its buffer; so what is read as a frame is the
  next frame of its buffer, and its payload is the one sent. While the sender is
  there the road is whole up to the last frame sent, so that a new frame joins
  between frames; a sender that is gone may leave it ending anywhere. All of it
  holds as long as no mishap happened, and each step that keeps it free of
  mishaps is where the premise is used. `HandshakeIsTaken` rests on where the lines of a
  handshake can be: only at the beginning of what is on its way to a side that
  connects and has taken none of them; frames that follow an answer on which the
  client does not open wait behind it. `HeadersAssumption` says that a handshake
  fits a buffer and that the library asks for and answers no less, and no more,
  than what it checks allows: the buffer is of 64 KiB (websocket.hpp:132) and a handshake is
  a few lines, none longer than the 1 KiB a line is built in (websocket.hpp:285).
* `ProtoManagerProofs`: `CallsAreSent` (`CalledAsSent`), `AnswersAreWhole`
  (`AnswersWhole`), `TypeCorrect`. The invariant for the first: what is in the
  buffer of a connection, in its `SSL` and on the wire, from the message `Read`
  awaits on, is in frames of the messages sent and not delivered. That a stream
  is in frames is said by a set of streams that is closed under taking the first
  frame off, so that no recursion is needed. The lengths of requests fit four
  bytes (`BytesAssumption`), as protobuf's do. What is read lies between the
  indices of its ring (`Between`, a part of `TypeOK`).
* `Http2Proofs`: `FramesAreWhole` (`FramesWhole`), `CallsAreAnswered`
  (`AnsweredAsAsked`). For the first, what a client received and each of the
  two buffers is a chain of units, each behind the one its frame has before
  it, the two buffers end with whole frames, and where the last unit taken
  needs another, one of the two buffers goes on with it (with both in use, the
  mishap *mixed* is what taking from the wrong one would be). For the second,
  what a connection read and has not handled, with what is on the wire, is in
  frames: the n-th `HEADERS` of it begins the n-th call, the n-th `DATA`
  carries the n-th message asked for, and the others are legal, up to the
  first message that is parted. That is said by a set of the places a reader
  of the digits comes to, as for `ProtoManager`. With it go that the answers
  given are those of the first messages, and that the remembered match is that
  of the path of the last call headed, which the mishaps are the exceptions
  to. `LoadsAssumption` says what the clients send: frames of legal lengths;
  `DigitsAssumption` that paths, lengths and fields are digits.
* `ConfigProofs`: `Written` (`ReturnedAsWritten`), `ForCause`
  (`AssertsForCause`). The stack of the parser and the open collections of the
  file correspond level by level; a node that is complete shows one value only,
  and a collection on the path holds what was read of it so far.

`TypeOK` of `Uring`, `LogStore`, `ProtoManager` and `Http2` is in no run; that of
`Uring` and of `ProtoManager` is proved, and `Http2Proofs` proves the types its
invariants need (`TypedInvariant`).

Only model-checked:

* Liveness, which the prover does not handle: `DoomedGetsClosed` and
  `OutputGetsWritten` of `EventManager`, `EventuallyCalled` of `EventCBManager`,
  `AllReported` of `Uring`, `ServerReceives` of `WebSocket`, `RequestsAnswered`
  of `ProtoManager`, `CallsAnswered` of `Http2`, `EchoesArrive` of `TlsEcho`.

## 6. Where the code differs from what it says

Found while modelling; `PROJECT.json` has the lines and the quotations. Two are
shown by a violation run, `Register` on a reused number and the lost wake-up.
The others are recorded without a run of their own: most are mishaps of a
module, and dropping the premise about the mishap from the property it excuses
shows them.

* `BipBuf`: `Writev` with the head at slot 0 and `Direct` with the head below the
  tail compute a negative length; `Read` with the head at the end of the array
  offers no room any more; a peeking `Pop` copies from the start of the array.
* `Uring`: the submission ring is not checked for room; `Drain` keeps the
  completion slots until its last callback; multishot entries fill the completion
  ring without bound; a failed wake-up is reported as a
  failure of a submission that was made, by a number callers do not look for.
* Store: a torn push, a page passed over, segments of a one-shot cache unmapped
  before `writev`, a search past the last page, `SetPosition` mapping its page
  again, `ZeroCopyWriteNext` reporting success.
* WebSocket: mask and extended length read in another order than they are
  documented, the room for the mask, published frames torn by queued ones or
  left unwatched, a handshake in two reads, frames that come with the upgrade, a
  pong that does not fit, an answer on which the client of the library does not
  open, and `Writev` of `BipBuf` as above.
* `ProtoManager`: a prefix cut before its last byte, one request per read event,
  a request object that is never cleared, torn responses, a write event without
  output, data left in the `SSL`, and `Direct` and `Writev` of `BipBuf` as above:
  the first ends the process, the second the connection.
* `HTTP2GRPCManager`: messages split over frames, calls that overlap, one table
  of headers for all connections, debug data of `GOAWAY`, answers that do not
  fit, published frames torn, the payload of `PING`, the id of a stream changed,
  and `Writev` as above.
* Uring callbacks and TLS: a write cache filled again while it is being written,
  buffers given back before they were pushed, connections not started again,
  receives started again under the wrong callback, data left in a read BIO or,
  decrypted, in an `SSL`.
* Configuration: what follows the first document.

## 7. Not modelled

* The wrappers of system calls (`tcp`, `udp`, `mem`, `file`, `timer`) make one
  call, or a fixed sequence, on their arguments and keep no state; the helpers
  are stateless text functions and compile-time composition.
* What protobuf, nghttp2, OpenSSL and libyaml do inside is not part of this code.
* `OpenSSLManager` on sockets (`Register`, `Connect`) hands the descriptor to the
  library; only what its `ReadvNonBlock` does to a reader is modelled, in
  `ProtoManager`.
* `IOCallbackManager::Unregister` has no caller in the repository.
* Callbacks that unregister their own descriptor while the manager or the loop
  is using its entry, and the growth of the callback table under a reference:
  what follows is the use of freed memory, which has no counterpart in the
  models.
* Of the store: iterators, read-only buffers, the streambuf adapters and the
  search for a free file name.
* In HTTP/2, flags, padding, priorities and flow control; in TLS, alerts and
  closing.
