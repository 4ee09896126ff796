------------------------------ MODULE LogStore ------------------------------
(***************************************************************************)
(* coypu::store (include/echidna/store.hpp): an append-only log in pages.  *)
(* LogWriteBuf writes the page it has mapped and maps the next one when it *)
(* is full; LogRWStream counts the bytes accepted and reads through a page *)
(* cache; MultiPositionedStreamLog keeps a position for each subscriber    *)
(* and sends it what follows. Two kinds of store are in use: a file read   *)
(* through an LRUCache, and anonymous memory read through a OneShotCache,  *)
(* which holds the only mapping of its pages and unmaps a page for good    *)
(* when a later one is asked for.                                          *)
(*                                                                         *)
(* A byte is the number of the byte its writer offered, so that no two     *)
(* bytes are alike, with a bit above it for each byte of a mask that was   *)
(* applied; offsets and pages count from 0.                                *)
(***************************************************************************)
EXTENDS Integers, Sequences, SequencesExt

CONSTANTS
  PageSize,   \* _pageSize
  CacheSize,  \* the CacheSize of the stream and the _maxSize of its LRUCache
  Kinds,      \* the kinds of store considered
  Readers,    \* the descriptors of the subscribers
  MaxPages,   \* bound on the pages of a store
  MaskLen,    \* the length of a mask
  MaxPush,    \* bound on the bytes of one call
  MaxSent     \* bound on the bytes offered in a run

ASSUME SizesAssumption ==
  /\ PageSize \in Nat \ {0} /\ CacheSize \in Nat \ {0}
  /\ MaskLen \in Nat \ {0} /\ MaxPages \in Nat /\ MaxPush \in Nat /\ MaxSent \in Nat
ASSUME KindsAssumption == Kinds \subseteq {"lru", "oneShot"}

NoByte == 0    \* a byte nothing was written to
Nowhere == -1  \* UINT64_MAX, or a null page

VARIABLES
  kind,       \* the kind of store
  mem,        \* the bytes of the file, or of the anonymous pages
  size,       \* how many pages the file has (or were mapped)
  (* LogWriteBuf *)
  page,       \* the page _dataPage.first maps, or Nowhere
  pos,        \* _dataPage.second
  next,       \* _offset, as a page
  (* LogRWStream *)
  available,  \* _available
  cache,      \* the pages in _lruReadCache, or in _pages of the OneShotCache
  (* MultiPositionedStreamLog, PositionedStream *)
  cursor,     \* _curOffsets: the position of each subscriber, or Nowhere
  (* history *)
  log,        \* the bytes the calls that succeeded were given, in order
  sent,       \* how many bytes were offered
  since,      \* where each subscriber last took or changed its position
  stream,     \* the bytes each subscriber was sent since
  mishaps     \* what went wrong; see below

writer  == <<mem, size, page, pos, next, available, log, sent>>
readers == <<cursor, since, stream>>
vars    == <<kind, writer, cache, readers, mishaps>>

(* "torn": a call failed with some of its bytes written. "unmapped":       *)
(* writev was handed a page that had been unmapped. "skipped": a page was  *)
(* gone and the bytes of the next were delivered in its place. "pastEnd":  *)
(* a page past the end of the file was read, which kills the process.      *)
(* "moved": the page that was positioned to was mapped a second time, to   *)
(* be written from its start in a file, or against an assertion of the     *)
(* OneShotCache. Bytes are then counted past the end of the file, and the  *)
(* model follows the store no further.                                     *)
Mishaps == {"torn", "unmapped", "skipped", "pastEnd", "moved"}

Alive == mishaps \cap {"pastEnd", "moved"} = {}

Lesser(a, b)  == IF a < b THEN a ELSE b
Greater(a, b) == IF a < b THEN b ELSE a

Offsets == 0 .. MaxPages * PageSize - 1
Pages   == 0 .. MaxPages - 1

(* b XOR the byte of the mask at place i. *)
Xor(b, i) ==
  LET bit == (MaxSent + 1) * 2 ^ i IN IF (b \div bit) % 2 = 0 THEN b + bit ELSE b - bit

-----------------------------------------------------------------------------
(* Writing. *)

Room == IF page = Nowhere THEN 0 ELSE PageSize - pos

(* How many pages n bytes need beyond the one that is mapped. *)
PagesFor(n) == IF n <= Room THEN 0 ELSE (n - Room + PageSize - 1) \div PageSize

(* The first n bytes offered, in what is left of the page and then in the  *)
(* k pages from next on. The first of these is the last of the file when   *)
(* it is made: Truncate drops what came after it.                          *)
Stored(n, k) ==
  LET here  == page * PageSize + pos
      there == next * PageSize
      fits  == Lesser(n, Room)
  IN [o \in Offsets |->
        IF o \in there .. there + (n - fits) - 1 THEN sent + fits + 1 + (o - there)
        ELSE IF o \in here .. here + fits - 1 THEN sent + 1 + (o - here)
        ELSE IF k > 0 /\ o >= there + PageSize THEN NoByte
        ELSE mem[o]]

(* Mutant: _offset is not moved. *)
NextStays(k) == next

(* _offset after AllocatePage was called k times. *)
NextAfter(k) == next + k

(* AllocatePage, k times: each extends the file, unmaps the page, maps the *)
(* next one and offers it to the cache, where OneShotCache keeps it.       *)
AllocatePages(k) ==
  /\ next + k <= MaxPages
  /\ page' = IF k = 0 THEN page ELSE next + k - 1
  /\ next' = NextAfter(k)
  /\ size' = IF k = 0 THEN size ELSE next + k
  /\ cache' = IF kind = "lru" THEN cache ELSE cache \o [i \in 1..k |-> next + i - 1]

(* The next page is the one that is mapped. *)
Again(k) == IF k > 0 /\ next = page THEN {"moved"} ELSE {}

(* The n bytes offered are written, in k more pages. *)
WriteBytes(n, k) ==
  /\ AllocatePages(k)
  /\ mem' = Stored(n, k)
  /\ pos' = IF k = 0 THEN pos + n ELSE n - Room - (k - 1) * PageSize

Offered(n) == [i \in 1..n |-> sent + i]

(* n bytes are accepted: the stream has that many more available. *)
Accept(n) ==
  /\ available' = available + n
  /\ log' = log \o Offered(n)

Push(n) ==
  /\ sent + n <= MaxSent
  /\ WriteBytes(n, PagesFor(n))
  /\ Accept(n)
  /\ sent' = sent + n
  /\ mishaps' = mishaps \cup Again(PagesFor(n))
  /\ UNCHANGED <<kind, readers>>

(* Push of n bytes when the file cannot be extended after j more pages:    *)
(* the bytes that fit have been written, and none is accepted.             *)
PushFails(n, j) ==
  LET fit == Room + j * PageSize IN
  /\ kind = "lru"
  /\ sent + n <= MaxSent
  /\ j < PagesFor(n)
  /\ WriteBytes(fit, j)
  /\ sent' = sent + n
  /\ mishaps' = mishaps \cup Again(j) \cup (IF fit > 0 THEN {"torn"} ELSE {})
  /\ UNCHANGED <<kind, readers, available, log>>

(* Readv when the descriptor returns n bytes, 0 or an error among them:    *)
(* at most what is left of the page, which may have to be a new one.       *)
SpaceLeft == IF Room = 0 THEN PageSize ELSE Room

Readv(n) ==
  /\ sent + n <= MaxSent
  /\ n <= SpaceLeft
  /\ WriteBytes(n, PagesFor(1))
  /\ Accept(n)
  /\ sent' = sent + n
  /\ mishaps' = mishaps \cup Again(PagesFor(1))
  /\ UNCHANGED <<kind, readers>>

(* Mutant: the bytes backed up stay available. *)
KeptWhole(n) == SpaceLeft

(* What stays available when n of the bytes lent were used. *)
Kept(n) == n

(* ZeroCopyWriteNext lends the rest of the page, and ZeroCopyWriteBackup   *)
(* takes back all but the first n bytes of it.                             *)
ZeroCopyWrite(n) ==
  /\ sent + n <= MaxSent
  /\ n <= SpaceLeft
  /\ WriteBytes(n, PagesFor(1))
  /\ available' = available + Kept(n)
  /\ log' = log \o Offered(n)
  /\ sent' = sent + n
  /\ mishaps' = mishaps \cup Again(PagesFor(1))
  /\ UNCHANGED <<kind, readers>>

-----------------------------------------------------------------------------
(* The caches. Each operator gives the cache after FindPage(p), and Found  *)
(* says whether it found the page.                                         *)

Without(c, p) ==
  LET held == {i \in DOMAIN c : c[i] = p} IN IF held = {} THEN c ELSE RemoveAt(c, Min(held))

(* Mutant: nothing is evicted from a full cache. *)
LruTouchKeepsAll(c, p) == <<p>> \o Without(c, p)

(* Most recently used first. A page not held is mapped; if the cache is    *)
(* full it takes the object of the last.                                   *)
LruTouch(c, p) ==
  LET others == Without(c, p)
  IN <<p>> \o (IF Len(others) < CacheSize THEN others ELSE Front(others))

(* The pages in front are unmapped, up to the first that is not before p. *)
OneShotTouch(c, p) ==
  LET kept == {i \in DOMAIN c : c[i] >= p} IN IF kept = {} THEN <<>> ELSE SubSeq(c, Min(kept), Len(c))

FindPage(c, p) == IF kind = "lru" THEN LruTouch(c, p) ELSE OneShotTouch(c, p)

Found(c, p) == kind = "lru" \/ \E i \in DOMAIN c : c[i] = p

(* PeakPage of the OneShotCache unmaps nothing. *)
PeakPage(c, p) == IF kind = "lru" THEN LruTouch(c, p) ELSE c

-----------------------------------------------------------------------------
(* Reading. LogRWStream walks the pages from that of start to the last.    *)

PageOf(offset) == offset \div PageSize

(* maxPage *)
MaxPage == PageOf(available)

LastFrom(start) == MaxPage - PageOf(start) + 1

(* The loop over these pages: what first becomes by a Visit of each.       *)
Walk(start, first, Visit(_, _)) ==
  LET walk[i \in 0 .. LastFrom(start)] ==
        IF i = 0 THEN first ELSE Visit(walk[i - 1], PageOf(start) + i - 1)
  IN walk[LastFrom(start)]

(* n bytes from offset on. *)
Bytes(offset, n) == [i \in 1..n |-> mem[offset + i - 1]]

(* Mutant: every page is read from its beginning. *)
PageStartOnly(start, p) == p * PageSize

StartPos(start, p) == Greater(start, p * PageSize)

(* Pop of n bytes from start on: a page that is not found is passed over,  *)
(* the others are copied from until n bytes are there.                     *)
PopPage(start, n, acc, p) ==
  LET from == StartPos(start, p)
      x    == Lesser(n - Len(acc.bytes), (p + 1) * PageSize - from)
  IN IF Len(acc.bytes) = n THEN acc
     ELSE IF Found(acc.cache, p)
     THEN [cache |-> FindPage(acc.cache, p), bytes |-> acc.bytes \o Bytes(from, x),
           skipped |-> acc.skipped]
     ELSE [acc EXCEPT !.cache = FindPage(@, p), !.skipped = TRUE]

Popped(start, n) ==
  Walk(start, [cache |-> cache, bytes |-> <<>>, skipped |-> FALSE],
       LAMBDA acc, p : PopPage(start, n, acc, p))

(* A subscriber is delivered bytes and its position moves on by n.         *)
Send(r, bytes, n) ==
  /\ cursor' = [cursor EXCEPT ![r] = @ + n]
  /\ stream' = [stream EXCEPT ![r] = @ \o bytes]

(* Pop delivers nothing unless it returns true.                            *)
PopOutcome(start, n) ==
  LET r == Popped(start, n) IN
  /\ start < available /\ start + n <= available
  /\ cache' = r.cache
  /\ mishaps' = IF r.skipped /\ Len(r.bytes) = n THEN mishaps \cup {"skipped"} ELSE mishaps

PopBytes(start, n) ==
  LET bytes == Popped(start, n).bytes IN IF Len(bytes) = n THEN bytes ELSE <<>>

Pop(start, n) ==
  /\ PopOutcome(start, n)
  /\ UNCHANGED <<kind, writer, readers>>

(* Pop of PositionedStream: from the position, which moves if it succeeds. *)
PopNext(r, n) ==
  /\ cursor[r] # Nowhere
  /\ PopOutcome(cursor[r], n)
  /\ Send(r, PopBytes(cursor[r], n), Len(PopBytes(cursor[r], n)))
  /\ UNCHANGED <<kind, writer, since>>

Peak(offset) ==
  /\ Found(cache, PageOf(offset))
  /\ cache' = PeakPage(cache, PageOf(offset))
  /\ UNCHANGED <<kind, writer, readers, mishaps>>

(* ZeroCopyReadNext as PositionedStream calls it: the rest of the page, or *)
(* what the reader has available if that is less.                          *)
ZeroCopyReadNext(r) ==
  LET at == cursor[r]
      x  == Lesser(available - at, (PageOf(at) + 1) * PageSize - at)
  IN
  /\ at # Nowhere /\ at < available
  /\ Found(cache, PageOf(at))
  /\ cache' = PeakPage(cache, PageOf(at))
  /\ Send(r, Bytes(at, x), x)
  /\ UNCHANGED <<kind, writer, since, mishaps>>

(* Find scans whole pages, the last one past the bytes available too. at   *)
(* is the offset of the first d found, past says that a page past the end  *)
(* of the file was read.                                                   *)
Places(start, d, p) ==
  {o \in StartPos(start, p) .. (p + 1) * PageSize - 1 : o \in Offsets /\ mem[o] = d}

FindIn(start, d, acc, p) ==
  IF acc.at # Nowhere THEN acc
  ELSE [cache |-> FindPage(acc.cache, p),
        at    |-> IF Found(acc.cache, p) /\ Places(start, d, p) # {}
                  THEN Min(Places(start, d, p)) ELSE Nowhere,
        past  |-> acc.past \/ (kind = "lru" /\ p >= size)]

Find(start, d) ==
  Walk(start, [cache |-> cache, at |-> Nowhere, past |-> FALSE],
       LAMBDA acc, p : FindIn(start, d, acc, p))

FindStep(start, d) ==
  LET found == Find(start, d) IN
  /\ cache' = found.cache
  /\ mishaps' = IF found.past THEN mishaps \cup {"pastEnd"} ELSE mishaps
  /\ UNCHANGED <<kind, writer, readers>>

(* Mutant: every page begins with the first byte of the mask. *)
MaskPosInPage(read, i) == i % MaskLen

(* maskPos at the i-th byte of a page, when read bytes came before it. *)
MaskPos(read, i) == (read + i) % MaskLen

(* The bytes after Unmask of n bytes from start on: page by page, as Pop,  *)
(* with the bytes of the frame in the pages before counted in maskPos.     *)
Unmasked(start, n) ==
  [o \in Offsets |->
     IF o \in start .. start + n - 1
     THEN LET from == StartPos(start, PageOf(o)) IN Xor(mem[o], MaskPos(from - start, o - from))
     ELSE mem[o]]

(* Unmask. The web socket calls it for a frame that has come and that it   *)
(* has not read yet, once, so that every page of it is still there; the    *)
(* pages of an LRUCache are mapped for reading only.                       *)
Unmask(start, n) ==
  LET frame == start .. start + n - 1 IN
  /\ kind = "oneShot" /\ start + n <= available
  /\ \A o \in frame : Found(cache, PageOf(o))
  /\ \A r \in Readers : cursor[r] # Nowhere => cursor[r] <= start
  /\ \A o \in frame : mem[o] <= MaxSent
  /\ mem' = Unmasked(start, n)
  /\ log' = [i \in DOMAIN log |-> IF i - 1 \in frame THEN Xor(log[i], (i - 1 - start) % MaskLen) ELSE log[i]]
  /\ UNCHANGED <<kind, size, page, pos, next, available, sent, cache, readers, mishaps>>

-----------------------------------------------------------------------------
(* Writev: the segments for n bytes from start on, a page each. iov has    *)
(* the pages they are in, and bytes what they hold.                        *)

MoreSegments(iov) == Len(iov) < CacheSize

AddSegment(start, n, acc, p) ==
  LET queued == Len(acc.bytes)
      total  == Lesser(n, CacheSize * PageSize)
      off    == (start + queued) % PageSize
      x      == Lesser(total - queued, PageSize - off)
  IN IF ~acc.ok \/ queued >= total \/ ~MoreSegments(acc.iov) THEN acc
     ELSE IF Found(acc.cache, p)
     THEN [cache |-> FindPage(acc.cache, p), iov |-> Append(acc.iov, p),
           bytes |-> acc.bytes \o Bytes(p * PageSize + off, x), ok |-> TRUE]
     ELSE [acc EXCEPT !.cache = FindPage(@, p), !.ok = FALSE]

Segments(start, n) ==
  Walk(start, [cache |-> cache, iov |-> <<>>, bytes |-> <<>>, ok |-> TRUE],
       LAMBDA acc, p : AddSegment(start, n, acc, p))

(* Every segment is in a page that is still mapped. *)
Mapped(r) == \A i \in DOMAIN r.iov : \E j \in DOMAIN r.cache : r.cache[j] = r.iov[i]

(* Mutant: the position moves by what was asked for. *)
AdvancedByAll(n, written) == n

Advanced(n, written) == written

(* A subscriber is sent what it has available, of which the descriptor     *)
(* takes written bytes. Without the page (-2), or if a segment is not      *)
(* mapped any more (EFAULT), it gets nothing.                              *)
Writev(r, written) ==
  LET n    == available - cursor[r]
      segs == Segments(cursor[r], n)
      sending == segs.ok /\ Mapped(segs)
  IN
  /\ cursor[r] # Nowhere /\ n > 0
  /\ cache' = segs.cache
  /\ IF sending
     THEN /\ written \in 0 .. Len(segs.bytes)
          /\ Send(r, SubSeq(segs.bytes, 1, written), Advanced(n, written))
     ELSE /\ written = 0
          /\ Send(r, <<>>, 0)
  /\ mishaps' = IF segs.ok /\ ~Mapped(segs) THEN mishaps \cup {"unmapped"} ELSE mishaps
  /\ UNCHANGED <<kind, writer, since>>

-----------------------------------------------------------------------------
(* The positions. *)

MoveTo(r, offset) ==
  /\ cursor' = [cursor EXCEPT ![r] = offset]
  /\ since' = [since EXCEPT ![r] = Greater(offset, 0)]
  /\ stream' = [stream EXCEPT ![r] = <<>>]
  /\ UNCHANGED <<kind, writer, cache, mishaps>>

Register(r, offset) == cursor[r] = Nowhere /\ MoveTo(r, offset)

(* Mark, MarkEnd, and ResetPosition, Skip and Backup of PositionedStream.  *)
Mark(r, offset) == cursor[r] # Nowhere /\ MoveTo(r, offset)

Unregister(r) == cursor[r] # Nowhere /\ MoveTo(r, Nowhere)

-----------------------------------------------------------------------------
(* SetPosition: the page of the offset is mapped, and the file extended if *)
(* it ends there; _offset stays at that page. A OneShotCache asserts that  *)
(* it comes after the pages it has. A program continues where its log ends.*)
SetPosition(offset) ==
  LET to == PageOf(offset) IN
  /\ to <= size /\ to < MaxPages
  /\ size' = Greater(size, to + 1)
  /\ page' = to /\ next' = to
  /\ pos' = offset % PageSize
  /\ cache' = IF kind = "lru" THEN cache ELSE Append(cache, to)
  /\ mishaps' = IF kind = "oneShot" /\ cache # <<>> /\ Last(cache) >= to
                THEN mishaps \cup {"moved"} ELSE mishaps
  /\ UNCHANGED <<kind, mem, available, log, sent, readers>>

-----------------------------------------------------------------------------
(* The program stops, or is killed, and opens its file again: CreateSimple *)
(* takes the size of the file for the bytes it holds.                      *)
Reopen ==
  /\ kind = "lru"
  /\ size > 0 /\ page # Nowhere
  /\ page' = Nowhere
  /\ pos' = 0
  /\ next' = size
  /\ available' = size * PageSize
  /\ cache' = <<>>
  /\ cursor' = [r \in Readers |-> Nowhere]
  /\ since' = [r \in Readers |-> 0]
  /\ stream' = [r \in Readers |-> <<>>]
  /\ log' = Bytes(0, size * PageSize)
  /\ mishaps' = {}
  /\ UNCHANGED <<kind, mem, size, sent>>

Init ==
  /\ kind \in Kinds
  /\ mem = [o \in Offsets |-> NoByte]
  /\ size = 0 /\ page = Nowhere /\ pos = 0 /\ next = 0
  /\ available = 0 /\ cache = <<>>
  /\ cursor = [r \in Readers |-> Nowhere]
  /\ log = <<>> /\ sent = 0
  /\ since = [r \in Readers |-> 0]
  /\ stream = [r \in Readers |-> <<>>]
  /\ mishaps = {}

Appends ==
  \/ \E n \in 1..MaxPush : Push(n) \/ \E j \in 0 .. MaxPages : PushFails(n, j)
  \/ \E n \in 0..MaxPush : Readv(n) \/ ZeroCopyWrite(n)
  \/ SetPosition(available)
  \/ \E start \in 0..available : \E n \in 1..MaxPush : Unmask(start, n)

Read ==
  \/ \E start \in 0..available : Peak(start) \/ \E n \in 1..MaxPush : Pop(start, n)
  \/ \E start \in 0..available : \E d \in 1..MaxSent : FindStep(start, d)
  \/ \E r \in Readers : \E n \in 0..available : Writev(r, n) \/ (n > 0 /\ PopNext(r, n))
  \/ \E r \in Readers : ZeroCopyReadNext(r)

Place == \E r \in Readers :
  \/ \E offset \in {0, available} : Register(r, offset) \/ Mark(r, offset)
  \/ Unregister(r)

Next == (Alive /\ (Appends \/ Read \/ Place)) \/ Reopen

Spec == Init /\ [][Next]_vars

-----------------------------------------------------------------------------
(* Properties. *)

TypeOK ==
  /\ kind \in Kinds
  /\ mem \in [Offsets -> Nat]
  /\ size \in 0..MaxPages
  /\ page \in Pages \cup {Nowhere}
  /\ pos \in 0..PageSize
  /\ next \in 0..MaxPages
  /\ available \in Nat
  /\ cache \in Seq(Nat)
  /\ cursor \in [Readers -> Offsets \cup {MaxPages * PageSize, Nowhere}]
  /\ log \in Seq(Nat) /\ sent \in 0..MaxSent
  /\ since \in [Readers -> Nat] /\ stream \in [Readers -> Seq(Nat)]
  /\ mishaps \subseteq Mishaps

(* The store holds exactly the bytes it accepted, at the offsets it counts *)
(* them at, unmasked where that was asked for: the write position of       *)
(* LogWriteBuf and _available of the stream are kept apart and never       *)
(* drift, unless a Push failed half way or a page that was positioned to   *)
(* was mapped again.                                                       *)
HoldsTheLog ==
  mishaps \cap {"torn", "moved"} = {} =>
    /\ available = Len(log)
    /\ \A i \in 1..available : mem[i - 1] = log[i]

(* A byte that was accepted is never written again, by the calls that      *)
(* start a page and by those that failed before them either, but by Unmask *)
(* for the bytes it is given, unless the page was mapped again.            *)
AcceptedStays ==
  []["moved" \notin mishaps \cup mishaps' =>
       \A o \in 0 .. available - 1 : mem'[o] = mem[o] \/ log'[o + 1] # log[o + 1]]_vars

(* Whatever Pop delivers is what the log has at that offset, and Find says *)
(* where a byte is, across pages, whatever the cache holds, as long as no  *)
(* page was passed over.                                                   *)
DeliversTheLog ==
  mishaps \cap {"torn", "moved"} = {} =>
    \A start \in 0 .. available - 1 :
      /\ \A n \in 1 .. available - start : LET r == Popped(start, n) IN
           ~r.skipped => r.bytes = SubSeq(log, start + 1, start + n)
      /\ \A d \in 1..MaxSent : LET r == Find(start, d) IN
           r.at # Nowhere => log[r.at + 1] = d

(* A subscriber is sent every byte from its position on, once and in       *)
(* order, whatever the descriptor takes of each call.                      *)
NoGap ==
  mishaps \cap {"torn", "skipped", "moved"} = {} =>
    \A r \in Readers : cursor[r] # Nowhere =>
      /\ since[r] + Len(stream[r]) = cursor[r]
      /\ \A i \in DOMAIN stream[r] : stream[r][i] = log[since[r] + i]

(* No page in use is unmapped: the OneShotCache, which owns the pages,     *)
(* keeps the one that is still written to; the LRUCache, bounded as it is, *)
(* unmaps no page between putting it in a segment and the call of writev,  *)
(* and Pop passes none over.                                               *)
PagesInUseHeld ==
  IF kind = "lru"
  THEN Len(cache) <= CacheSize /\ mishaps \cap {"unmapped", "skipped"} = {}
  ELSE page # Nowhere /\ pos < PageSize => \E i \in DOMAIN cache : cache[i] = page

=============================================================================
