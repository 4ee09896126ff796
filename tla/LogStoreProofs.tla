--------------------------- MODULE LogStoreProofs ---------------------------
(***************************************************************************)
(* Proofs about LogStore, for every page size, number of pages, size of    *)
(* the cache, mask, and every length of call: the store holds the bytes it *)
(* accepted where it counts them, and writes none of them again; what is   *)
(* read from it, walking its pages through either cache, is what was       *)
(* accepted; a subscriber misses nothing.                                  *)
(***************************************************************************)
EXTENDS LogStore, SequenceTheorems, WellFoundedInduction, TLAPS

-----------------------------------------------------------------------------
(* The offset at which page p begins. *)
At(p) == p * PageSize

LEMMA AtType ==
  ASSUME NEW p \in Int
  PROVE  At(p) \in Int /\ (p >= 0 => At(p) \in Nat)
BY SizesAssumption DEF At

LEMMA AtZero == At(0) = 0
BY SizesAssumption DEF At

LEMMA AtSum ==
  ASSUME NEW p \in Int, NEW k \in Int
  PROVE  At(p + k) = At(p) + At(k)
BY SizesAssumption DEF At

LEMMA AtNextPage ==
  ASSUME NEW p \in Int
  PROVE  At(p + 1) = At(p) + PageSize
BY SizesAssumption DEF At

LEMMA AtOrder ==
  ASSUME NEW p \in Int, NEW q \in Int, p <= q
  PROVE  At(p) <= At(q)
BY SizesAssumption DEF At

LEMMA PageAndPlace ==
  ASSUME NEW o \in Nat
  PROVE  /\ PageOf(o) \in Nat /\ o % PageSize \in 0 .. PageSize - 1
         /\ o = At(PageOf(o)) + (o % PageSize)
BY SizesAssumption DEF At, PageOf

(* How many pages n bytes take: all of the last one or less. *)
LEMMA PagesForCount ==
  ASSUME NEW r \in Nat, NEW n \in Nat, NEW k, n > r, k = (n - r + PageSize - 1) \div PageSize
  PROVE  /\ k \in Nat \ {0}
         /\ n - r - At(k - 1) \in 0..PageSize
<1>1. PageSize \in Nat \ {0}
  BY SizesAssumption
<1>2. PICK m \in Nat : m = n - r + PageSize - 1
  BY <1>1
<1>3. m >= PageSize /\ k = PageOf(m)
  BY <1>1, <1>2 DEF PageOf
<1>4. k \in Nat /\ m % PageSize \in 0 .. PageSize - 1 /\ m = At(k) + (m % PageSize)
  BY <1>3, PageAndPlace
<1>5. k # 0
  BY <1>1, <1>3, <1>4, AtZero
<1>6. At(k) = At(k - 1) + PageSize /\ At(k - 1) \in Int
  <2>1. k - 1 \in Int /\ (k - 1) + 1 = k
    BY <1>4
  <2> QED  BY <2>1, AtNextPage, AtType
<1>7. PICK q \in 0 .. PageSize - 1 : m = At(k) + q
  BY <1>4
<1>8. n - r - At(k - 1) = q + 1
  BY <1>1, <1>2, <1>6, <1>7
<1>9. n - r - At(k - 1) \in 0..PageSize
  BY <1>1, <1>7, <1>8
<1> QED  BY <1>4, <1>5, <1>9

-----------------------------------------------------------------------------
(* The inductive invariant. *)

(* The offset the next byte is written at: in the page that is mapped, or  *)
(* at the start of the next.                                               *)
WritePos == IF page = Nowhere THEN At(next) ELSE At(page) + pos

(* The next page is the one after the page that is mapped, or that page    *)
(* again after SetPosition. A store that maps no page writes its next one  *)
(* behind the file. Only a file fails to be extended.                      *)
Shape ==
  /\ size \in 0..MaxPages /\ next \in 0..MaxPages
  /\ page \in Pages \cup {Nowhere} /\ pos \in 0..PageSize
  /\ available \in Nat /\ sent \in Nat
  /\ page # Nowhere => next \in {page, page + 1}
  /\ page = Nowhere => next = size
  /\ kind = "oneShot" => "torn" \notin mishaps

(* Nothing is written below the bytes accepted. *)
Behind == "moved" \notin mishaps => available <= WritePos

(* The next byte is written right behind them, and they are the log. *)
IsLog(l) == \E S : l \in Seq(S)

Holds ==
  /\ available = WritePos /\ available = Len(log)
  /\ IsLog(log)
  /\ \A i \in 1..available : mem[i - 1] = log[i]

Recorded == mishaps \cap {"torn", "moved"} = {} => Holds

IInv == Shape /\ Behind /\ Recorded

LEMMA Numbers ==
  ASSUME Shape
  PROVE  /\ PageSize \in Nat \ {0} /\ MaxPages \in Nat
         /\ size \in Nat /\ next \in Nat /\ page \in Int /\ pos \in Nat
         /\ available \in Nat /\ sent \in Nat /\ Nowhere = -1 /\ Nowhere \in Int
         /\ page # Nowhere => page \in Nat /\ page < MaxPages
         /\ Room \in 0..PageSize
         /\ Room = IF page = Nowhere THEN 0 ELSE PageSize - pos
         /\ At(next) \in Nat /\ At(page) \in Int
         /\ page # Nowhere => At(page) \in Nat
<1>1. /\ PageSize \in Nat \ {0} /\ MaxPages \in Nat
      /\ size \in Nat /\ next \in Nat /\ page \in Int /\ pos \in 0..PageSize
      /\ available \in Nat /\ sent \in Nat /\ Nowhere = -1 /\ Nowhere \in Int
      /\ page # Nowhere => page \in Nat /\ page < MaxPages
  BY SizesAssumption DEF Shape, Pages, Nowhere
<1>2. At(next) \in Nat /\ At(page) \in Int /\ (page # Nowhere => At(page) \in Nat)
  BY <1>1, AtType
<1> QED  BY <1>1, <1>2 DEF Room

LEMMA WritePosType ==
  ASSUME Shape
  PROVE  WritePos \in Nat /\ WritePos <= At(MaxPages)
<1>1. CASE page = Nowhere
  <2>1. At(next) <= At(MaxPages)
    <3>1. next \in Int /\ MaxPages \in Int /\ next <= MaxPages
      BY Numbers DEF Shape
    <3> QED  BY <3>1, AtOrder
  <2> QED  BY <1>1, <2>1, Numbers DEF WritePos
<1>2. CASE page # Nowhere
  <2>1. page + 1 \in Int /\ MaxPages \in Int /\ page + 1 <= MaxPages /\ page \in Int
    BY <1>2, Numbers
  <2>2. At(page + 1) <= At(MaxPages) /\ At(page + 1) = At(page) + PageSize
    BY <2>1, AtOrder, AtNextPage
  <2>3. pos <= PageSize /\ At(MaxPages) \in Int
    BY <2>1, AtType, Numbers DEF Shape
  <2>4. WritePos = At(page) + pos
    BY <1>2 DEF WritePos
  <2>5. PageSize \in Int /\ pos \in Nat /\ At(page) \in Nat
    BY <1>2, Numbers
  <2> QED  BY <2>2, <2>3, <2>4, <2>5
<1> QED  BY <1>1, <1>2

(* What is written fits into the pages it is written to. *)
Fits(n, k) ==
  IF k = 0 THEN n <= Room ELSE n >= Room /\ n - Room - At(k - 1) \in 0..PageSize

LEMMA PushFits ==
  ASSUME Shape, NEW n \in Nat
  PROVE  PagesFor(n) \in Nat /\ Fits(n, PagesFor(n))
<1>1. Room \in Nat
  BY Numbers
<1>2. CASE n <= Room
  BY <1>2 DEF PagesFor, Fits
<1>3. CASE ~(n <= Room)
  <2>1. n > Room /\ n >= Room
    BY <1>1, <1>3
  <2>2. PagesFor(n) = (n - Room + PageSize - 1) \div PageSize
    BY <1>3 DEF PagesFor
  <2>3. PagesFor(n) \in Nat \ {0} /\ n - Room - At(PagesFor(n) - 1) \in 0..PageSize
    BY <1>1, <2>1, <2>2, PagesForCount
  <2> QED  BY <2>1, <2>3 DEF Fits
<1> QED  BY <1>2, <1>3

(* Readv and ZeroCopyWrite: no more than is left of one page. *)
LEMMA SpaceFits ==
  ASSUME Shape, NEW n \in Nat, n <= SpaceLeft
  PROVE  PagesFor(1) \in {0, 1} /\ Fits(n, PagesFor(1))
<1>1. Room \in 0..PageSize /\ PageSize \in Nat \ {0}
  BY Numbers
<1>2. CASE Room = 0
  <2>1. PagesFor(1) = (1 - 0 + PageSize - 1) \div PageSize
    BY <1>2 DEF PagesFor
  <2>2. PagesFor(1) = 1
    BY <1>1, <2>1
  <2>3. n <= PageSize /\ At(1 - 1) = 0
    BY <1>2, AtZero DEF SpaceLeft
  <2> QED  BY <1>1, <1>2, <2>2, <2>3 DEF Fits
<1>3. CASE Room # 0
  <2>1. PagesFor(1) = 0 /\ n <= Room
    BY <1>1, <1>3 DEF PagesFor, SpaceLeft
  <2> QED  BY <2>1 DEF Fits
<1> QED  BY <1>2, <1>3

(* As much as fits into the rest of the page and j pages. *)
LEMMA FullFits ==
  ASSUME Shape, NEW j \in Nat
  PROVE  Room + j * PageSize \in Nat /\ Fits(Room + j * PageSize, j)
<1>1. Room \in Nat /\ PageSize \in Nat /\ At(j) \in Nat /\ j * PageSize = At(j)
  BY Numbers, AtType DEF At
<1>2. CASE j = 0
  BY <1>1, <1>2, AtZero DEF Fits
<1>3. CASE j # 0
  <2>1. j - 1 \in Int /\ (j - 1) + 1 = j
    BY <1>3
  <2>2. At(j) = At(j - 1) + PageSize /\ At(j - 1) \in Int
    BY <2>1, AtNextPage, AtType
  <2>3. Room + At(j) >= Room /\ Room + At(j) - Room - At(j - 1) = PageSize
    BY <1>1, <2>2
  <2>4. Room + At(j) - Room - At(j - 1) \in 0..PageSize
    BY <1>1, <2>3
  <2>5. Fits(Room + At(j), j)
    <3>1. PICK x \in Nat : x = Room + At(j)
      BY <1>1
    <3>2. x >= Room /\ x - Room - At(j - 1) \in 0..PageSize
      BY <1>1, <2>2, <2>3, <2>4, <3>1
    <3>3. Fits(x, j)
      BY <1>3, <3>2 DEF Fits
    <3> QED  BY <3>1, <3>3
  <2>6. Room + At(j) \in Nat
    BY <1>1
  <2> QED  BY <1>1, <2>5, <2>6
<1> QED  BY <1>2, <1>3

-----------------------------------------------------------------------------
(* WriteBytes. *)

LEMMA WriteShape ==
  ASSUME Shape, NEW n \in Nat, NEW k \in Nat, Fits(n, k), WriteBytes(n, k)
  PROVE  /\ size' \in 0..MaxPages /\ next' \in 0..MaxPages
         /\ page' \in Pages \cup {Nowhere} /\ pos' \in 0..PageSize
         /\ page' # Nowhere => next' \in {page', page' + 1}
         /\ page' = Nowhere => next' = size'
<1>1. /\ next + k <= MaxPages
      /\ page' = IF k = 0 THEN page ELSE next + k - 1
      /\ next' = next + k
      /\ size' = IF k = 0 THEN size ELSE next + k
      /\ pos' = IF k = 0 THEN pos + n ELSE n - Room - (k - 1) * PageSize
  BY DEF WriteBytes, AllocatePages, NextAfter
<1>2. CASE k = 0
  <2>1. page' = page /\ next' = next /\ size' = size /\ pos' = pos + n /\ n <= Room
    BY <1>1, <1>2, Numbers DEF Fits
  <2>2. pos' \in 0..PageSize
    BY <2>1, Numbers DEF Shape
  <2> QED  BY <2>1, <2>2 DEF Shape
<1>3. CASE k # 0
  <2>1. page' = next + k - 1 /\ next' = next + k /\ size' = next + k /\ k >= 1
    BY <1>1, <1>3
  <2>2. pos' = n - Room - At(k - 1)
    BY <1>1, <1>3 DEF At
  <2>3. pos' \in 0..PageSize
    BY <1>3, <2>2 DEF Fits
  <2>4. page' \in Pages /\ page' \in Nat /\ next' = page' + 1 /\ next' \in 0..MaxPages /\ size' \in 0..MaxPages
    <3>1. PICK m \in Nat : m = next
      BY Numbers
    <3>2. m + k - 1 \in 0 .. MaxPages - 1 /\ m + k \in 0..MaxPages /\ m + k = (m + k - 1) + 1
      BY <1>1, <2>1, <3>1, Numbers
    <3> QED  BY <2>1, <3>1, <3>2 DEF Pages
  <2>5. page' # Nowhere
    BY <2>4 DEF Nowhere
  <2> QED  BY <2>3, <2>4, <2>5
<1> QED  BY <1>2, <1>3

(* The new pages follow the one that is mapped. *)
LEMMA PagesFollow ==
  ASSUME Shape, NEW k \in Nat, k = 0 \/ next # page, k # 0
  PROVE  At(next) = WritePos + Room
<1>1. CASE page = Nowhere
  BY <1>1, Numbers DEF WritePos
<1>2. CASE page # Nowhere
  <2>1. next = page + 1 /\ page \in Int
    BY <1>2, Numbers DEF Shape
  <2>2. At(next) = At(page) + PageSize
    BY <2>1, AtNextPage
  <2>3. WritePos = At(page) + pos /\ Room = PageSize - pos
    BY <1>2, Numbers DEF WritePos
  <2> QED  BY <2>2, <2>3, Numbers
<1> QED  BY <1>1, <1>2

LEMMA WriteMoves ==
  ASSUME Shape, NEW n \in Nat, NEW k \in Nat, Fits(n, k), WriteBytes(n, k), Again(k) = {}
  PROVE  WritePos' = WritePos + n
<1>1. /\ page' = IF k = 0 THEN page ELSE next + k - 1
      /\ next' = next + k
      /\ pos' = IF k = 0 THEN pos + n ELSE n - Room - (k - 1) * PageSize
  BY DEF WriteBytes, AllocatePages, NextAfter
<1>2. WritePos' = IF page' = Nowhere THEN At(next') ELSE At(page') + pos'
  BY DEF WritePos, At
<1>3. CASE k = 0
  <2>1. page' = page /\ next' = next /\ pos' = pos + n /\ n <= Room
    BY <1>1, <1>3, Numbers DEF Fits
  <2>2. CASE page = Nowhere
    <3>1. n = 0 /\ WritePos' = At(next) /\ WritePos = At(next)
      BY <1>2, <2>1, <2>2, Numbers DEF WritePos
    <3> QED  BY <3>1, Numbers
  <2>3. CASE page # Nowhere
    <3>1. WritePos' = At(page) + pos + n /\ WritePos = At(page) + pos
      BY <1>2, <2>1, <2>3, Numbers DEF WritePos
    <3> QED  BY <3>1, Numbers
  <2> QED  BY <2>2, <2>3
<1>4. CASE k # 0
  <2>1. page' = next + (k - 1) /\ page' # Nowhere
    BY <1>1, <1>4, Numbers
  <2>2. pos' = n - Room - At(k - 1)
    BY <1>1, <1>4 DEF At
  <2>3. At(page') = At(next) + At(k - 1)
    <3>1. next \in Int /\ k - 1 \in Int
      BY Numbers
    <3> QED  BY <2>1, <3>1, AtSum
  <2>4. next # page
    BY <1>4 DEF Again
  <2>5. At(next) = WritePos + Room
    BY <1>4, <2>4, PagesFollow
  <2>6. At(k - 1) \in Int /\ WritePos \in Nat /\ Room \in Nat
    BY AtType, WritePosType, Numbers
  <2>7. WritePos' = At(page') + pos'
    BY <1>2, <2>1
  <2> QED  BY <2>2, <2>3, <2>5, <2>6, <2>7
<1> QED  BY <1>3, <1>4

(* The bytes offered land at the write position, and those before it stay. *)
LEMMA WriteLands ==
  ASSUME Shape, NEW n \in Nat, NEW k \in Nat, Fits(n, k), WriteBytes(n, k), Again(k) = {},
         NEW o \in Offsets
  PROVE  /\ o < WritePos => mem'[o] = mem[o]
         /\ o \in WritePos .. WritePos + n - 1 => mem'[o] = sent + 1 + (o - WritePos)
<1> DEFINE here == page * PageSize + pos
           there == next * PageSize
           fits == Lesser(n, Room)
<1>1. mem'[o] =
        IF o \in there .. there + (n - fits) - 1 THEN sent + fits + 1 + (o - there)
        ELSE IF o \in here .. here + fits - 1 THEN sent + 1 + (o - here)
        ELSE IF k > 0 /\ o >= there + PageSize THEN NoByte
        ELSE mem[o]
  BY DEF WriteBytes, Stored
<1>2. there = At(next) /\ there \in Nat /\ here = At(page) + pos /\ here \in Int
  BY Numbers DEF At
<1> HIDE DEF here, there
<1>3. o \in Nat /\ WritePos \in Nat /\ Room \in 0..PageSize /\ PageSize \in Nat /\ sent \in Nat
  BY WritePosType, Numbers DEF Offsets
<1>4. fits \in 0..n /\ fits <= Room /\ (fits = n \/ fits = Room)
  BY <1>3 DEF Lesser
<1> HIDE DEF fits
<1>5. page # Nowhere => here = WritePos
  BY <1>2 DEF WritePos
<1>6. page = Nowhere => fits = 0
  BY <1>3, <1>4, Numbers
<1>7. CASE k = 0
  <2>1. n <= Room
    BY <1>7 DEF Fits
  <2>2. fits = n
    BY <1>3, <1>4, <2>1
  <2>3. mem'[o] = IF o \in here .. here + n - 1 THEN sent + 1 + (o - here) ELSE mem[o]
    BY <1>1, <1>2, <1>3, <1>7, <2>2
  <2>4. n > 0 => here = WritePos
    BY <1>5, <1>6, <2>2
  <2>5. o < WritePos => mem'[o] = mem[o]
    BY <1>2, <1>3, <2>3, <2>4
  <2>6. o \in WritePos .. WritePos + n - 1 => mem'[o] = sent + 1 + (o - WritePos)
    BY <1>3, <2>3, <2>4
  <2> QED  BY <2>5, <2>6
<1>8. CASE k # 0
  <2>1. next # page /\ n >= Room
    BY <1>8 DEF Again, Fits
  <2>2. there = WritePos + Room
    BY <1>2, <1>8, <2>1, PagesFollow
  <2>3. fits = Room
    BY <1>3, <1>4, <2>1
  <2>4. o < WritePos => mem'[o] = mem[o]
    <3> SUFFICES ASSUME o < WritePos
                 PROVE  mem'[o] = mem[o]
      OBVIOUS
    <3>1. ~(o \in there .. there + (n - fits) - 1) /\ ~(o >= there + PageSize)
      BY <1>2, <1>3, <2>2
    <3>2. ~(o \in here .. here + fits - 1)
      BY <1>2, <1>3, <1>4, <1>5, <1>6
    <3> QED  BY <1>1, <3>1, <3>2
  <2>5. o \in WritePos .. WritePos + n - 1 => mem'[o] = sent + 1 + (o - WritePos)
    <3> SUFFICES ASSUME o \in WritePos .. WritePos + n - 1
                 PROVE  mem'[o] = sent + 1 + (o - WritePos)
      OBVIOUS
    <3>1. CASE o >= there
      <4>1. o \in there .. there + (n - fits) - 1
        BY <1>2, <1>3, <2>2, <2>3, <3>1
      <4>2. sent + fits + 1 + (o - there) = sent + 1 + (o - WritePos)
        BY <1>2, <1>3, <2>2, <2>3
      <4> QED  BY <1>1, <4>1, <4>2
    <3>2. CASE ~(o >= there)
      <4>1. ~(o \in there .. there + (n - fits) - 1)
        BY <1>2, <1>3, <3>2
      <4>2. Room > 0 /\ page # Nowhere /\ here = WritePos
        BY <1>2, <1>3, <1>5, <1>6, <2>2, <2>3, <3>2
      <4>3. o \in here .. here + fits - 1
        BY <1>2, <1>3, <2>2, <2>3, <3>2, <4>2
      <4> QED  BY <1>1, <4>1, <4>2, <4>3
    <3> QED  BY <3>1, <3>2
  <2> QED  BY <2>4, <2>5
<1> QED  BY <1>7, <1>8

LEMMA PlaceBound ==
  ASSUME NEW p \in Pages, NEW x \in 0..PageSize
  PROVE  At(p) + x <= At(MaxPages)
<1>1. /\ p \in Int /\ p + 1 \in Int /\ MaxPages \in Int /\ p + 1 <= MaxPages
      /\ PageSize \in Nat /\ x \in Nat /\ x <= PageSize
  BY SizesAssumption DEF Pages
<1>2. At(p + 1) <= At(MaxPages) /\ At(p + 1) = At(p) + PageSize
  BY <1>1, AtOrder, AtNextPage
<1>3. At(p) \in Int /\ At(MaxPages) \in Int
  BY <1>1, AtType
<1> QED  BY <1>1, <1>2, <1>3

LEMMA WriteStays ==
  ASSUME Shape, NEW n \in Nat, NEW k \in Nat, Fits(n, k), WriteBytes(n, k), Again(k) = {}
  PROVE  WritePos + n <= At(MaxPages)
<1>1. WritePos' = IF page' = Nowhere THEN At(next') ELSE At(page') + pos'
  BY DEF WritePos, At
<1>2. /\ next' \in 0..MaxPages /\ page' \in Pages \cup {Nowhere} /\ pos' \in 0..PageSize
  BY WriteShape
<1>3. CASE page' = Nowhere
  <2>1. next' \in Int /\ MaxPages \in Int /\ next' <= MaxPages
    BY <1>2, SizesAssumption
  <2>2. At(next') <= At(MaxPages)
    BY <2>1, AtOrder
  <2> QED  BY <1>1, <1>3, <2>2, WriteMoves
<1>4. CASE page' # Nowhere
  <2>1. page' \in Pages
    BY <1>2, <1>4
  <2>2. At(page') + pos' <= At(MaxPages)
    BY <1>2, <2>1, PlaceBound
  <2> QED  BY <1>1, <1>4, <2>2, WriteMoves
<1> QED  BY <1>3, <1>4

LEMMA OffsetsAre ==
  ASSUME NEW o \in Nat, o < At(MaxPages)
  PROVE  o \in Offsets
BY SizesAssumption, AtType DEF Offsets, At

-----------------------------------------------------------------------------
(* Bytes behind the log. *)
LEMMA LogGrows ==
  ASSUME NEW l, IsLog(l), NEW n \in Nat, NEW x \in Nat
  PROVE  LET e == [i \in 1..n |-> x + i]
         IN  /\ IsLog(l \o e) /\ Len(l) \in Nat /\ Len(l \o e) = Len(l) + n
             /\ \A i \in 1..Len(l) : (l \o e)[i] = l[i]
             /\ \A i \in 1..n : (l \o e)[Len(l) + i] = x + i
<1> DEFINE e == [i \in 1..n |-> x + i]
           c == l \o e
<1>1. PICK S : l \in Seq(S)
  BY DEF IsLog
<1>2. e \in [1..n -> Nat] /\ e \in Seq(Nat)
  <2>1. e \in [1..n -> Nat]
    OBVIOUS
  <2> QED  BY <2>1, SeqDef
<1>3. Len(e) = n
  BY <1>2, LenProperties
<1>4. l \in Seq(S \cup Nat) /\ e \in Seq(S \cup Nat)
  BY <1>1, <1>2, SeqMonotonic
<1>5. /\ c \in Seq(S \cup Nat) /\ Len(c) = Len(l) + Len(e)
      /\ \A i \in 1 .. Len(l) + Len(e) : c[i] = IF i <= Len(l) THEN l[i] ELSE e[i - Len(l)]
  BY <1>4, ConcatProperties
<1>6. Len(l) \in Nat
  BY <1>1, LenProperties
<1>7. \A i \in 1..n : e[i] = x + i
  OBVIOUS
<1> HIDE DEF e, c
<1>8. \A i \in 1..Len(l) : c[i] = l[i]
  BY <1>3, <1>5, <1>6
<1>9. ASSUME NEW i \in 1..n
      PROVE  c[Len(l) + i] = x + i
  <2>1. Len(l) + i \in 1 .. Len(l) + Len(e) /\ ~(Len(l) + i <= Len(l)) /\ (Len(l) + i) - Len(l) = i
    BY <1>3, <1>6
  <2> QED  BY <1>5, <1>7, <2>1
<1>10. IsLog(c) /\ Len(c) = Len(l) + n
  BY <1>3, <1>5 DEF IsLog
<1> QED  BY <1>6, <1>8, <1>9, <1>10 DEF c, e

(* The calls that accept what they write. *)
LEMMA AcceptKeeps ==
  ASSUME IInv, NEW n \in Nat, NEW k \in Nat, Fits(n, k), WriteBytes(n, k),
         available' = available + n, log' = log \o Offered(n), sent' = sent + n,
         kind' = kind, mishaps' = mishaps \cup Again(k)
  PROVE  IInv'
<1>1. Shape /\ Behind /\ Recorded
  BY DEF IInv
<1>2. /\ available \in Nat /\ sent \in Nat /\ WritePos \in Nat /\ PageSize \in Nat
  BY <1>1, Numbers, WritePosType
<1>3. Again(k) \subseteq {"moved"}
  BY DEF Again
<1>4. Shape'
  <2>1. available' \in Nat /\ sent' \in Nat
    BY <1>2
  <2>2. kind' = "oneShot" => "torn" \notin mishaps'
    BY <1>1, <1>3 DEF Shape
  <2>3. /\ size' \in 0..MaxPages /\ next' \in 0..MaxPages
        /\ page' \in Pages \cup {Nowhere} /\ pos' \in 0..PageSize
        /\ page' # Nowhere => next' \in {page', page' + 1}
        /\ page' = Nowhere => next' = size'
    BY <1>1, WriteShape
  <2> QED  BY <2>1, <2>2, <2>3 DEF Shape, Pages, Nowhere
<1>5. "moved" \notin mishaps' => "moved" \notin mishaps /\ Again(k) = {}
  BY <1>3
<1>6. "moved" \notin mishaps' => WritePos' = WritePos + n
  BY <1>1, <1>5, WriteMoves
<1>7. Behind'
  <2> SUFFICES ASSUME "moved" \notin mishaps'
               PROVE  available' <= WritePos'
    BY DEF Behind
  <2>1. available <= WritePos
    BY <1>1, <1>5 DEF Behind
  <2> QED  BY <1>2, <1>6, <2>1
<1>8. Recorded'
  <2> SUFFICES ASSUME mishaps' \cap {"torn", "moved"} = {}
               PROVE  Holds'
    BY DEF Recorded
  <2>1. mishaps \cap {"torn", "moved"} = {} /\ "moved" \notin mishaps'
    OBVIOUS
  <2>2. Again(k) = {} /\ Holds
    BY <1>1, <1>5, <2>1 DEF Recorded
  <2>3. WritePos' = WritePos + n /\ WritePos = available /\ available = Len(log) /\ IsLog(log)
    BY <1>6, <2>1, <2>2 DEF Holds
  <2>4. /\ IsLog(log') /\ Len(log') = Len(log) + n
        /\ \A i \in 1..Len(log) : log'[i] = log[i]
        /\ \A i \in 1..n : log'[Len(log) + i] = sent + i
    BY <1>2, <2>3, LogGrows DEF Offered
  <2>5. available + n <= At(MaxPages)
    BY <1>1, <2>2, <2>3, WriteStays
  <2>6. \A o \in Offsets :
           /\ o < available => mem'[o] = mem[o]
           /\ o \in available .. available + n - 1 => mem'[o] = sent + 1 + (o - available)
    BY <1>1, <2>2, <2>3, WriteLands
  <2>7. At(MaxPages) \in Int
    BY AtType, SizesAssumption
  <2>8. ASSUME NEW i \in 1 .. available + n
        PROVE  mem'[i - 1] = log'[i]
    <3>1. i - 1 \in Offsets
      <4>1. i - 1 \in Nat /\ i - 1 < At(MaxPages)
        BY <1>2, <2>5, <2>7
      <4> QED  BY <4>1, OffsetsAre
    <3>2. CASE i <= available
      <4>1. i \in 1..available /\ i - 1 < available
        BY <1>2, <3>2
      <4>2. mem'[i - 1] = mem[i - 1] /\ log'[i] = log[i]
        BY <2>3, <2>4, <2>6, <3>1, <4>1
      <4>3. mem[i - 1] = log[i]
        BY <2>2, <4>1 DEF Holds
      <4> QED  BY <4>2, <4>3
    <3>3. CASE ~(i <= available)
      <4>1. PICK j \in 1..n : i = available + j
        <5>1. i - available \in 1..n /\ i = available + (i - available)
          BY <1>2, <3>3
        <5> QED  BY <5>1
      <4>2. i - 1 \in available .. available + n - 1 /\ sent + 1 + ((i - 1) - available) = sent + j
        BY <1>2, <4>1
      <4>3. mem'[i - 1] = sent + j
        BY <2>6, <3>1, <4>2
      <4>4. log'[i] = sent + j
        BY <2>3, <2>4, <4>1
      <4> QED  BY <4>3, <4>4
    <3> QED  BY <3>2, <3>3
  <2> QED  BY <2>3, <2>4, <2>8 DEF Holds
<1> QED  BY <1>4, <1>7, <1>8 DEF IInv

LEMMA PushKeeps ==
  ASSUME IInv, NEW n \in Nat, Push(n)
  PROVE  IInv'
<1>1. PagesFor(n) \in Nat /\ Fits(n, PagesFor(n))
  BY PushFits DEF IInv
<1>2. /\ WriteBytes(n, PagesFor(n)) /\ available' = available + n /\ log' = log \o Offered(n)
      /\ sent' = sent + n /\ mishaps' = mishaps \cup Again(PagesFor(n)) /\ kind' = kind
  BY DEF Push, Accept
<1> QED  BY <1>1, <1>2, AcceptKeeps

LEMMA ReadvKeeps ==
  ASSUME IInv, NEW n \in Nat, Readv(n)
  PROVE  IInv'
<1>1. /\ WriteBytes(n, PagesFor(1)) /\ available' = available + n /\ log' = log \o Offered(n)
      /\ sent' = sent + n /\ mishaps' = mishaps \cup Again(PagesFor(1)) /\ kind' = kind
      /\ n <= SpaceLeft
  BY DEF Readv, Accept
<1>2. PagesFor(1) \in Nat /\ Fits(n, PagesFor(1))
  BY <1>1, SpaceFits DEF IInv
<1> QED  BY <1>1, <1>2, AcceptKeeps

LEMMA ZeroCopyWriteKeeps ==
  ASSUME IInv, NEW n \in Nat, ZeroCopyWrite(n)
  PROVE  IInv'
<1>1. /\ WriteBytes(n, PagesFor(1)) /\ available' = available + n /\ log' = log \o Offered(n)
      /\ sent' = sent + n /\ mishaps' = mishaps \cup Again(PagesFor(1)) /\ kind' = kind
      /\ n <= SpaceLeft
  BY DEF ZeroCopyWrite, Kept
<1>2. PagesFor(1) \in Nat /\ Fits(n, PagesFor(1))
  BY <1>1, SpaceFits DEF IInv
<1> QED  BY <1>1, <1>2, AcceptKeeps

(* A Push that fails leaves the write position past what it wrote, and so  *)
(* past the bytes that are accepted; if it wrote nothing they still meet.  *)
LEMMA PushFailsKeeps ==
  ASSUME IInv, NEW n \in Nat, NEW j \in Nat, PushFails(n, j)
  PROVE  IInv'
<1> DEFINE fit == Room + j * PageSize
<1>1. /\ kind = "lru" /\ kind' = kind /\ WriteBytes(fit, j) /\ sent' = sent + n
      /\ mishaps' = mishaps \cup Again(j) \cup (IF fit > 0 THEN {"torn"} ELSE {})
      /\ available' = available /\ log' = log
  BY DEF PushFails
<1>2. Shape /\ Behind /\ Recorded
  BY DEF IInv
<1>3. fit \in Nat /\ Fits(fit, j)
  BY <1>2, FullFits
<1> HIDE DEF fit
<1>4. available \in Nat /\ sent \in Nat /\ WritePos \in Nat
  BY <1>2, Numbers, WritePosType
<1>5. Again(j) \subseteq {"moved"}
  BY DEF Again
<1>6. Shape'
  <2>1. available' \in Nat /\ sent' \in Nat /\ kind' # "oneShot"
    BY <1>1, <1>4
  <2>2. /\ size' \in 0..MaxPages /\ next' \in 0..MaxPages
        /\ page' \in Pages \cup {Nowhere} /\ pos' \in 0..PageSize
        /\ page' # Nowhere => next' \in {page', page' + 1}
        /\ page' = Nowhere => next' = size'
    BY <1>1, <1>2, <1>3, WriteShape
  <2> QED  BY <2>1, <2>2 DEF Shape, Pages, Nowhere
<1>7. "moved" \notin mishaps' => "moved" \notin mishaps /\ Again(j) = {}
  BY <1>1, <1>5
<1>8. "moved" \notin mishaps' => WritePos' = WritePos + fit
  BY <1>1, <1>2, <1>3, <1>7, WriteMoves
<1>9. Behind'
  <2> SUFFICES ASSUME "moved" \notin mishaps'
               PROVE  available' <= WritePos'
    BY DEF Behind
  <2>1. available <= WritePos
    BY <1>2, <1>7 DEF Behind
  <2> QED  BY <1>1, <1>3, <1>4, <1>8, <2>1
<1>10. Recorded'
  <2> SUFFICES ASSUME mishaps' \cap {"torn", "moved"} = {}
               PROVE  Holds'
    BY DEF Recorded
  <2>1. mishaps \cap {"torn", "moved"} = {} /\ Again(j) = {} /\ ~(fit > 0)
    BY <1>1, <1>7
  <2>2. fit = 0 /\ Holds
    BY <1>2, <1>3, <2>1 DEF Recorded
  <2>3. WritePos' = WritePos
    BY <1>4, <1>8, <2>1, <2>2
  <2>4. ASSUME NEW i \in 1..available
        PROVE  mem'[i - 1] = mem[i - 1]
    <3>1. available = WritePos /\ WritePos <= At(MaxPages) /\ At(MaxPages) \in Int
      BY <1>2, <2>2, WritePosType, AtType, SizesAssumption DEF Holds
    <3>2. i - 1 \in Nat /\ i - 1 < At(MaxPages) /\ i - 1 < WritePos
      BY <1>4, <3>1
    <3>3. i - 1 \in Offsets
      BY <3>2, OffsetsAre
    <3> QED  BY <1>1, <1>2, <1>3, <2>1, <3>2, <3>3, WriteLands
  <2> QED  BY <1>1, <2>2, <2>3, <2>4 DEF Holds
<1> QED  BY <1>6, <1>9, <1>10 DEF IInv

(* A step that writes nothing. *)
LEMMA QuietKeeps ==
  ASSUME IInv, UNCHANGED <<kind, writer>>,
         mishaps \subseteq mishaps', mishaps' \subseteq mishaps \cup {"unmapped", "skipped", "pastEnd"}
  PROVE  IInv'
<1>1. UNCHANGED <<kind, mem, size, page, pos, next, available, log, sent>>
  BY DEF writer
<1>2. "torn" \notin mishaps => "torn" \notin mishaps'
  OBVIOUS
<1>3. Shape'
  BY <1>1, <1>2 DEF IInv, Shape, Pages, Nowhere
<1>4. WritePos' = WritePos
  BY <1>1 DEF WritePos, At
<1>5. Behind'
  BY <1>1, <1>4 DEF IInv, Behind
<1>6. mishaps' \cap {"torn", "moved"} = {} => mishaps \cap {"torn", "moved"} = {}
  OBVIOUS
<1>7. Recorded'
  BY <1>1, <1>4, <1>6 DEF IInv, Recorded, Holds
<1> QED  BY <1>3, <1>5, <1>7 DEF IInv

LEMMA ReadKeeps == ASSUME IInv, Read PROVE IInv'
<1>1. UNCHANGED <<kind, writer>>
  BY DEF Read, Peak, Pop, FindStep, Writev, PopNext, ZeroCopyReadNext
<1>2. mishaps' \in {mishaps, mishaps \cup {"skipped"}, mishaps \cup {"pastEnd"}, mishaps \cup {"unmapped"}}
  BY DEF Read, Peak, Pop, FindStep, Writev, PopNext, ZeroCopyReadNext, PopOutcome
<1> QED  BY <1>1, <1>2, QuietKeeps

LEMMA PlaceKeeps == ASSUME IInv, Place PROVE IInv'
<1>1. UNCHANGED <<kind, writer, mishaps>>
  BY DEF Place, Register, Mark, Unregister, MoveTo
<1> QED  BY <1>1, QuietKeeps

LEMMA StutterKeeps == ASSUME IInv, UNCHANGED vars PROVE IInv'
<1>1. UNCHANGED <<kind, writer, mishaps>>
  BY DEF vars
<1> QED  BY <1>1, QuietKeeps

LEMMA SetPositionKeeps == ASSUME IInv, SetPosition(available) PROVE IInv'
<1> DEFINE to == PageOf(available)
<1>1. /\ to <= size /\ to < MaxPages
      /\ size' = Greater(size, to + 1) /\ page' = to /\ next' = to
      /\ pos' = available % PageSize
      /\ mishaps' = IF kind = "oneShot" /\ cache # <<>> /\ Last(cache) >= to
                    THEN mishaps \cup {"moved"} ELSE mishaps
      /\ UNCHANGED <<kind, mem, available, log, sent>>
  BY DEF SetPosition
<1>2. Shape /\ Recorded
  BY DEF IInv
<1>3. /\ available \in Nat /\ sent \in Nat /\ PageSize \in Nat \ {0} /\ MaxPages \in Nat
      /\ size \in 0..MaxPages
  BY <1>2, Numbers DEF Shape
<1>4. /\ to \in Nat /\ available % PageSize \in 0 .. PageSize - 1
      /\ available = At(to) + (available % PageSize)
  BY <1>3, PageAndPlace
<1> HIDE DEF to
<1>5. to # Nowhere /\ to \in Pages /\ to \in 0..MaxPages
  BY <1>1, <1>3, <1>4 DEF Nowhere, Pages
<1>6. pos' \in 0..PageSize
  BY <1>1, <1>3, <1>4
<1>7. size' \in 0..MaxPages
  BY <1>1, <1>3, <1>4 DEF Greater
<1>8. "torn" \in mishaps' => "torn" \in mishaps
  BY <1>1
<1>9. Shape'
  BY <1>1, <1>2, <1>5, <1>6, <1>7, <1>8 DEF Shape, Pages, Nowhere
<1>10. WritePos' = available
  BY <1>1, <1>4, <1>5 DEF WritePos, At
<1>11. Behind'
  BY <1>1, <1>3, <1>10 DEF Behind
<1>12. mishaps' \cap {"torn", "moved"} = {} => mishaps \cap {"torn", "moved"} = {}
  BY <1>1
<1>13. Recorded'
  BY <1>1, <1>2, <1>10, <1>12 DEF Recorded, Holds
<1> QED  BY <1>9, <1>11, <1>13 DEF IInv

LEMMA ReopenKeeps == ASSUME IInv, Reopen PROVE IInv'
<1>1. /\ page' = Nowhere /\ pos' = 0 /\ next' = size /\ size' = size
      /\ available' = At(size) /\ log' = Bytes(0, At(size)) /\ mishaps' = {}
      /\ mem' = mem /\ sent' = sent
  BY DEF Reopen, At
<1>2. /\ size \in 0..MaxPages /\ size \in Nat /\ sent \in Nat /\ PageSize \in Nat
  BY Numbers DEF IInv, Shape
<1>3. PICK m \in Nat : m = At(size)
  BY <1>2, AtType
<1>4. Shape'
  BY <1>1, <1>2, <1>3 DEF Shape, Pages, Nowhere
<1>5. WritePos' = available'
  BY <1>1 DEF WritePos, At
<1>6. Behind'
  BY <1>1, <1>3, <1>5 DEF Behind
<1>7. log' = [i \in 1..m |-> mem[0 + i - 1]]
  BY <1>1, <1>3 DEF Bytes
<1>8. log' \in Seq({mem[0 + i - 1] : i \in 1..m})
  <2>1. log' \in [1..m -> {mem[0 + i - 1] : i \in 1..m}]
    BY <1>7
  <2> QED  BY <2>1, SeqDef
<1>9. Len(log') = m
  BY <1>7, <1>8, LenProperties
<1>10. IsLog(log')
  BY <1>8 DEF IsLog
<1>11. \A i \in 1..m : mem'[i - 1] = log'[i]
  <2>1. \A i \in 1..m : 0 + i - 1 = i - 1
    OBVIOUS
  <2> QED  BY <1>1, <1>7, <2>1
<1>12. Holds'
  BY <1>1, <1>3, <1>5, <1>9, <1>10, <1>11 DEF Holds
<1> QED  BY <1>4, <1>6, <1>12 DEF IInv, Recorded

-----------------------------------------------------------------------------
(* Unmask applies the same byte of the mask to a byte and to its copy in   *)
(* the log, however the frame lies in its pages.                           *)
LEMMA UnmaskedIs ==
  ASSUME NEW start \in Nat, NEW n \in Nat, NEW o \in Offsets
  PROVE  Unmasked(start, n)[o] =
           IF o \in start .. start + n - 1 THEN Xor(mem[o], (o - start) % MaskLen) ELSE mem[o]
<1>1. o \in Nat
  BY DEF Offsets
<1> DEFINE from == StartPos(start, PageOf(o))
<1>2. from \in Int
  <2>1. PageOf(o) \in Int
    BY <1>1, PageAndPlace
  <2>2. At(PageOf(o)) \in Int
    BY <2>1, AtType
  <2> QED  BY <2>2 DEF StartPos, Greater, At
<1> HIDE DEF from
<1>3. (from - start) + (o - from) = o - start
  BY <1>1, <1>2
<1>4. MaskPos(from - start, o - from) = (o - start) % MaskLen
  BY <1>3 DEF MaskPos
<1>5. Unmasked(start, n)[o] =
        IF o \in start .. start + n - 1 THEN Xor(mem[o], MaskPos(from - start, o - from)) ELSE mem[o]
  BY DEF Unmasked, from
<1> QED  BY <1>4, <1>5

LEMMA UnmaskKeeps ==
  ASSUME IInv, NEW start \in Nat, NEW n \in Nat, Unmask(start, n)
  PROVE  IInv'
<1> DEFINE frame == start .. start + n - 1
           e(i) == IF i - 1 \in frame THEN Xor(log[i], (i - 1 - start) % MaskLen) ELSE log[i]
<1>1. /\ mem' = Unmasked(start, n)
      /\ log' = [i \in DOMAIN log |-> e(i)]
      /\ UNCHANGED <<kind, size, page, pos, next, available, sent, mishaps>>
  BY DEF Unmask
<1>2. Shape'
  BY <1>1 DEF IInv, Shape, Pages, Nowhere
<1>3. WritePos' = WritePos
  BY <1>1 DEF WritePos, At
<1>4. Behind'
  BY <1>1, <1>3 DEF IInv, Behind
<1>5. Recorded'
  <2> SUFFICES ASSUME mishaps \cap {"torn", "moved"} = {}
               PROVE  Holds'
    BY <1>1 DEF Recorded
  <2>1. Holds
    BY DEF IInv, Recorded
  <2>2. available \in Nat /\ available <= At(MaxPages) /\ At(MaxPages) \in Int
    BY <2>1, Numbers, WritePosType, AtType, SizesAssumption DEF IInv, Holds
  <2>3. PICK S : log \in Seq(S)
    BY <2>1 DEF Holds, IsLog
  <2>4. DOMAIN log = 1..available
    BY <2>1, <2>3, LenProperties DEF Holds
  <2>5. log' = [i \in 1..available |-> e(i)]
    BY <1>1, <2>4
  <2> HIDE DEF e
  <2>6. log' \in Seq({e(i) : i \in 1..available})
    <3>1. log' \in [1..available -> {e(i) : i \in 1..available}]
      BY <2>5
    <3> QED  BY <2>2, <3>1, SeqDef
  <2>7. Len(log') = available
    BY <2>2, <2>5, <2>6, LenProperties
  <2>8. ASSUME NEW i \in 1..available
        PROVE  mem'[i - 1] = log'[i]
    <3>1. i - 1 \in Offsets
      <4>1. i - 1 \in Nat /\ i - 1 < At(MaxPages)
        BY <2>2
      <4> QED  BY <4>1, OffsetsAre
    <3>2. mem'[i - 1] = IF i - 1 \in frame THEN Xor(mem[i - 1], (i - 1 - start) % MaskLen) ELSE mem[i - 1]
      BY <1>1, <3>1, UnmaskedIs
    <3>3. mem[i - 1] = log[i]
      BY <2>1 DEF Holds
    <3>4. log'[i] = e(i)
      BY <2>5
    <3> QED  BY <3>2, <3>3, <3>4 DEF e
  <2>9. IsLog(log')
    BY <2>6 DEF IsLog
  <2> QED  BY <1>1, <1>3, <2>1, <2>7, <2>8, <2>9 DEF Holds
<1> QED  BY <1>2, <1>4, <1>5 DEF IInv

-----------------------------------------------------------------------------
LEMMA IInvInitial == Init => IInv
<1> SUFFICES ASSUME Init
             PROVE  IInv
  OBVIOUS
<1>1. /\ size = 0 /\ page = Nowhere /\ pos = 0 /\ next = 0 /\ available = 0
      /\ log = <<>> /\ sent = 0 /\ mishaps = {}
  BY DEF Init
<1>2. Shape
  BY <1>1, SizesAssumption DEF Shape
<1>3. WritePos = 0
  BY <1>1, AtZero DEF WritePos
<1>4. Holds
  <2>1. log \in Seq({}) /\ Len(log) = 0
    BY <1>1
  <2>2. IsLog(log)
    BY <2>1 DEF IsLog
  <2> QED  BY <1>1, <1>3, <2>1, <2>2 DEF Holds
<1> QED  BY <1>1, <1>2, <1>3, <1>4 DEF IInv, Behind, Recorded

LEMMA AppendsKeep == ASSUME IInv, Appends PROVE IInv'
<1>1. /\ 1..MaxPush \subseteq Nat /\ 0..MaxPush \subseteq Nat /\ 0..MaxPages \subseteq Nat
      /\ 0..available \subseteq Nat
  BY SizesAssumption, Numbers DEF IInv
<1>2. CASE \E n \in 1..MaxPush : Push(n) \/ \E j \in 0..MaxPages : PushFails(n, j)
  BY <1>1, <1>2, PushKeeps, PushFailsKeeps
<1>3. CASE \E n \in 0..MaxPush : Readv(n) \/ ZeroCopyWrite(n)
  BY <1>1, <1>3, ReadvKeeps, ZeroCopyWriteKeeps
<1>4. CASE \E start \in 0..available : \E n \in 1..MaxPush : Unmask(start, n)
  BY <1>1, <1>4, UnmaskKeeps
<1> QED  BY <1>2, <1>3, <1>4, SetPositionKeeps DEF Appends

LEMMA IInvKept == IInv /\ [Next]_vars => IInv'
BY AppendsKeep, ReadKeeps, PlaceKeeps, ReopenKeeps, StutterKeeps DEF Next

THEOREM IInvInvariant == Spec => []IInv
BY IInvInitial, IInvKept, PTL DEF Spec

(* What a store accepted is what it holds, at the offsets at which it       *)
(* counts it: the position of LogWriteBuf, a place in a page, and           *)
(* _available of the stream, a sum of lengths, agree for every page size,   *)
(* through page changes, SetPosition, Unmask and restarts.                  *)
THEOREM LogIsHeld == Spec => []HoldsTheLog
<1>1. IInv => HoldsTheLog
  BY DEF IInv, Recorded, Holds, HoldsTheLog
<1> QED  BY <1>1, IInvInvariant, PTL

-----------------------------------------------------------------------------
(* What a step does to the bytes accepted before it. *)
Untouched ==
  "moved" \notin mishaps \cup mishaps' =>
    \A o \in 0 .. available - 1 : mem'[o] = mem[o] \/ log'[o + 1] # log[o + 1]

LEMMA BytesBelow ==
  ASSUME IInv, "moved" \notin mishaps, NEW o \in 0 .. available - 1
  PROVE  o \in Offsets /\ o < WritePos
<1>1. /\ WritePos \in Nat /\ WritePos <= At(MaxPages) /\ available <= WritePos
      /\ available \in Nat /\ At(MaxPages) \in Int
  BY WritePosType, Numbers, AtType, SizesAssumption DEF IInv, Behind
<1>2. o \in Nat /\ o < At(MaxPages) /\ o < WritePos
  BY <1>1
<1> QED  BY <1>2, OffsetsAre

LEMMA WriteTouches ==
  ASSUME IInv, NEW n \in Nat, NEW k \in Nat, Fits(n, k), WriteBytes(n, k), Again(k) \subseteq mishaps'
  PROVE  Untouched
<1> SUFFICES ASSUME "moved" \notin mishaps \cup mishaps', NEW o \in 0 .. available - 1
             PROVE  mem'[o] = mem[o]
  BY DEF Untouched
<1>1. Again(k) = {}
  BY DEF Again
<1>2. o \in Offsets /\ o < WritePos
  BY BytesBelow
<1> QED  BY <1>1, <1>2, WriteLands DEF IInv

LEMMA UnmaskTouches ==
  ASSUME IInv, NEW start \in Nat, NEW n \in Nat, Unmask(start, n)
  PROVE  Untouched
<1> SUFFICES ASSUME "moved" \notin mishaps \cup mishaps', NEW o \in 0 .. available - 1
             PROVE  mem'[o] = mem[o] \/ log'[o + 1] # log[o + 1]
  BY DEF Untouched
<1> DEFINE frame == start .. start + n - 1
           e(i) == IF i - 1 \in frame THEN Xor(log[i], (i - 1 - start) % MaskLen) ELSE log[i]
<1>1. /\ mem' = Unmasked(start, n) /\ log' = [i \in DOMAIN log |-> e(i)] /\ kind = "oneShot"
  BY DEF Unmask
<1>2. Holds
  BY <1>1 DEF IInv, Shape, Recorded
<1>3. o \in Offsets /\ available \in Nat
  BY BytesBelow, Numbers DEF IInv
<1>4. mem'[o] = IF o \in frame THEN Xor(mem[o], (o - start) % MaskLen) ELSE mem[o]
  BY <1>1, <1>3, UnmaskedIs
<1>5. o + 1 \in 1..available /\ (o + 1) - 1 = o
  BY <1>3
<1>6. mem[o] = log[o + 1]
  BY <1>2, <1>5 DEF Holds
<1>7. log'[o + 1] = IF o \in frame THEN Xor(log[o + 1], (o - start) % MaskLen) ELSE log[o + 1]
  <2>1. PICK S : log \in Seq(S)
    BY <1>2 DEF Holds, IsLog
  <2>2. o + 1 \in DOMAIN log
    BY <1>2, <1>5, <2>1, LenProperties DEF Holds
  <2>3. log'[o + 1] = e(o + 1)
    BY <1>1, <2>2
  <2> QED  BY <1>5, <2>3
<1> QED  BY <1>4, <1>6, <1>7

LEMMA StepTouches == ASSUME IInv, [Next]_vars PROVE Untouched
<1>1. CASE UNCHANGED mem
  BY <1>1 DEF Untouched
<1>2. /\ 1..MaxPush \subseteq Nat /\ 0..MaxPush \subseteq Nat /\ 0..MaxPages \subseteq Nat
      /\ 0..available \subseteq Nat
  BY SizesAssumption, Numbers DEF IInv
<1>3. ASSUME NEW n \in Nat, Push(n)
      PROVE  Untouched
  <2>1. WriteBytes(n, PagesFor(n)) /\ Again(PagesFor(n)) \subseteq mishaps'
    BY <1>3 DEF Push
  <2>2. PagesFor(n) \in Nat /\ Fits(n, PagesFor(n))
    BY PushFits DEF IInv
  <2> QED  BY <2>1, <2>2, WriteTouches
<1>4. ASSUME NEW n \in Nat, NEW j \in Nat, PushFails(n, j)
      PROVE  Untouched
  <2>1. WriteBytes(Room + j * PageSize, j) /\ Again(j) \subseteq mishaps'
    BY <1>4 DEF PushFails
  <2>2. Room + j * PageSize \in Nat /\ Fits(Room + j * PageSize, j)
    BY FullFits DEF IInv
  <2> QED  BY <2>1, <2>2, WriteTouches
<1>5. ASSUME NEW n \in Nat, Readv(n) \/ ZeroCopyWrite(n)
      PROVE  Untouched
  <2>1. WriteBytes(n, PagesFor(1)) /\ Again(PagesFor(1)) \subseteq mishaps' /\ n <= SpaceLeft
    BY <1>5 DEF Readv, ZeroCopyWrite
  <2>2. PagesFor(1) \in Nat /\ Fits(n, PagesFor(1))
    BY <2>1, SpaceFits DEF IInv
  <2> QED  BY <2>1, <2>2, WriteTouches
<1>6. CASE Appends
  <2>1. CASE \E n \in 1..MaxPush : Push(n) \/ \E j \in 0..MaxPages : PushFails(n, j)
    BY <1>2, <1>3, <1>4, <2>1
  <2>2. CASE \E n \in 0..MaxPush : Readv(n) \/ ZeroCopyWrite(n)
    BY <1>2, <1>5, <2>2
  <2>3. CASE \E start \in 0..available : \E n \in 1..MaxPush : Unmask(start, n)
    BY <1>2, <2>3, UnmaskTouches
  <2>4. CASE SetPosition(available)
    BY <1>1, <2>4 DEF SetPosition
  <2> QED  BY <1>6, <2>1, <2>2, <2>3, <2>4 DEF Appends
<1>7. CASE Read
  <2>1. UNCHANGED mem
    BY <1>7 DEF Read, Peak, Pop, FindStep, Writev, PopNext, ZeroCopyReadNext, writer
  <2> QED  BY <1>1, <2>1
<1>8. CASE Place
  <2>1. UNCHANGED mem
    BY <1>8 DEF Place, Register, Mark, Unregister, MoveTo, writer
  <2> QED  BY <1>1, <2>1
<1>9. CASE Reopen
  BY <1>1, <1>9 DEF Reopen
<1>10. CASE UNCHANGED vars
  BY <1>1, <1>10 DEF vars, writer
<1> QED  BY <1>6, <1>7, <1>8, <1>9, <1>10 DEF Next

(* No step writes a byte that was accepted before, but Unmask those of its  *)
(* frame: not even a Push that fails half way, nor those after it.          *)
THEOREM NothingRewritten == Spec => AcceptedStays
<1>1. IInv /\ [Next]_vars =>
        [("moved" \notin mishaps \cup mishaps' =>
            \A o \in 0 .. available - 1 : mem'[o] = mem[o] \/ log'[o + 1] # log[o + 1])]_vars
  BY StepTouches DEF Untouched
<1> QED  BY <1>1, IInvInvariant, PTL DEF Spec, AcceptedStays

-----------------------------------------------------------------------------
(* Functions that are defined from number to number, as a walk over the    *)
(* pages is from page to page, and what holds of all their values.         *)

LEMMA LeastNumber ==
  ASSUME NEW T, T \subseteq Nat, T # {}
  PROVE  \E x \in T : \A y \in T : x <= y
<1> DEFINE Before == {p \in Nat \X Nat : p[1] < p[2]}
<1>1. Before = OpToRel(<, Nat)
  BY Zenon DEF OpToRel
<1>2. IsWellFoundedOn(Before, Nat)
  BY <1>1, NatLessThanWellFounded, Zenon
<1>3. PICK x \in T : \A y \in T : ~(<<y, x>> \in Before)
  <2> HIDE DEF Before
  <2> QED  BY <1>2, WFMin
<1>4. ASSUME NEW y \in T
      PROVE  x <= y
  <2>1. x \in Nat /\ y \in Nat /\ ~(<<y, x>> \in Before)
    BY <1>3
  <2>2. <<y, x>> \in Nat \X Nat /\ <<y, x>>[1] = y /\ <<y, x>>[2] = x
    BY <2>1
  <2>3. ~(y < x)
    BY <2>1, <2>2, Zenon
  <2> QED  BY <2>1, <2>3
<1> QED  BY <1>4

LEMMA ByOne ==
  ASSUME NEW K \in Nat, NEW T, 0 \in T, \A k \in 1..K : k - 1 \in T => k \in T
  PROVE  \A k \in 0..K : k \in T
<1> DEFINE Lacking == {k \in 0..K : k \notin T}
<1>1. SUFFICES ASSUME Lacking # {}
               PROVE  FALSE
  OBVIOUS
<1>2. PICK k \in Lacking : \A j \in Lacking : k <= j
  <2>1. Lacking \subseteq Nat
    OBVIOUS
  <2> HIDE DEF Lacking
  <2> QED  BY <1>1, <2>1, LeastNumber
<1>3. k \in 1..K /\ k - 1 \in 0..K /\ ~(k <= k - 1)
  BY <1>2
<1>4. k - 1 \in T
  BY <1>2, <1>3
<1> QED  BY <1>2, <1>3, <1>4

(* A function that is defined from its value at the number before. *)
StepsBy(f, K, first, g) ==
  f = [k \in 0..K |-> IF k = 0 THEN first ELSE g[<<f[k - 1], k>>]]

LEMMA Stepwise ==
  ASSUME NEW K \in Nat, NEW first, NEW g, NEW J, first \in J[0],
         \A k \in 1..K : \A a \in J[k - 1] : g[<<a, k>>] \in J[k]
  PROVE  \E f : StepsBy(f, K, first, g) /\ \A k \in 0..K : f[k] \in J[k]
<1> DEFINE UpTo(m, f) == /\ f = [k \in 0..m |-> IF k = 0 THEN first ELSE g[<<f[k - 1], k>>]]
                         /\ \A k \in 0..m : f[k] \in J[k]
           T == {m \in 0..K : \E f : UpTo(m, f)}
<1>1. 0 \in T
  <2> DEFINE h == [k \in 0..0 |-> first]
  <2>1. \A k \in 0..0 : h[k] \in J[k]
    OBVIOUS
  <2>2. h = [k \in 0..0 |-> IF k = 0 THEN first ELSE g[<<h[k - 1], k>>]]
    OBVIOUS
  <2>3. \E f : UpTo(0, f)
    <3> HIDE DEF h
    <3> QED  BY <2>1, <2>2
  <2> HIDE DEF UpTo
  <2> QED  BY <2>3
<1>2. ASSUME NEW m \in 1..K, m - 1 \in T
      PROVE  m \in T
  <2>1. PICK f : UpTo(m - 1, f)
    BY <1>2
  <2> DEFINE h == [k \in 0..m |-> IF k = m THEN g[<<f[m - 1], m>>] ELSE f[k]]
  <2>2. m - 1 \in 0 .. m - 1 /\ m \in 0..m /\ m # 0
    OBVIOUS
  <2>3. f[m - 1] \in J[m - 1]
    BY <2>1, <2>2
  <2>4. \A k \in 0..m : k # m => k \in 0 .. m - 1
    OBVIOUS
  <2>5. \A k \in 0..m : h[k] \in J[k]
    BY <1>2, <2>1, <2>3, <2>4
  <2>6. ASSUME NEW k \in 0..m
        PROVE  h[k] = IF k = 0 THEN first ELSE g[<<h[k - 1], k>>]
    <3>1. CASE k = m
      <4>1. k - 1 \in 0..m /\ k - 1 # m
        BY <2>2, <3>1
      <4>2. h[k - 1] = f[m - 1]
        BY <3>1, <4>1
      <4> QED  BY <2>2, <3>1, <4>2
    <3>2. CASE k # m
      <4>1. k \in 0 .. m - 1 /\ h[k] = f[k]
        BY <2>4, <3>2
      <4>2. f[k] = IF k = 0 THEN first ELSE g[<<f[k - 1], k>>]
        BY <2>1, <4>1
      <4>3. k # 0 => h[k - 1] = f[k - 1]
        <5>1. k # 0 => k - 1 \in 0..m /\ k - 1 # m
          BY <3>2
        <5> QED  BY <5>1
      <4> QED  BY <4>1, <4>2, <4>3
    <3> QED  BY <3>1, <3>2
  <2>7. h = [k \in 0..m |-> h[k]]
    OBVIOUS
  <2> HIDE DEF h
  <2>8. h = [k \in 0..m |-> IF k = 0 THEN first ELSE g[<<h[k - 1], k>>]]
    BY <2>6, <2>7
  <2>9. UpTo(m, h)
    BY <2>5, <2>8
  <2>10. m \in 0..K
    OBVIOUS
  <2> HIDE DEF UpTo
  <2> QED  BY <2>9, <2>10
<1> HIDE DEF T
<1>3. K \in T
  <2>1. \A k \in 0..K : k \in T
    BY <1>1, <1>2, ByOne
  <2> QED  BY <2>1
<1> QED  BY <1>3 DEF T, StepsBy

-----------------------------------------------------------------------------
(* The caches. *)

LEMMA MinIs ==
  ASSUME NEW T, T \subseteq Nat, T # {}
  PROVE  Min(T) \in T /\ \A y \in T : Min(T) <= y
<1>1. \E x \in T : \A y \in T : x =< y
  BY LeastNumber
<1> QED  BY <1>1, Zenon DEF Min

Has(c, q) == \E i \in DOMAIN c : c[i] = q

(* The pages that a walk, which ends at MaxPage, leaves in the cache. *)
Keeps(c) ==
  /\ c \in Seq(Nat)
  /\ kind = "lru" => Len(c) <= CacheSize
  /\ kind = "oneShot" => \A q \in Nat : q >= MaxPage /\ Has(cache, q) => Has(c, q)

LEMMA WithoutIs ==
  ASSUME NEW c \in Seq(Nat), NEW p \in Nat
  PROVE  /\ Without(c, p) \in Seq(Nat) /\ Len(Without(c, p)) <= Len(c)
         /\ \A m \in 0..Len(c) : (\A i \in 1..m : c[i] # p) =>
              m <= Len(Without(c, p)) /\ \A i \in 1..m : Without(c, p)[i] = c[i]
<1> DEFINE held == {i \in DOMAIN c : c[i] = p}
           w == Without(c, p)
<1>1. w = IF held = {} THEN c ELSE RemoveAt(c, Min(held))
  BY DEF Without
<1>2. DOMAIN c = 1..Len(c) /\ Len(c) \in Nat
  BY LenProperties
<1>3. held \subseteq Nat /\ held \subseteq 1..Len(c)
  BY <1>2
<1>4. CASE held = {}
  BY <1>1, <1>2, <1>4
<1>5. CASE held # {}
  <2>1. PICK k \in held : k = Min(held)
    <3> HIDE DEF held
    <3> QED  BY <1>3, <1>5, MinIs
  <2>2. k \in 1..Len(c) /\ c[k] = p
    BY <1>2, <2>1
  <2> DEFINE a == SubSeq(c, 1, k - 1)
             b == SubSeq(c, k + 1, Len(c))
  <2>3. w = a \o b
    BY <1>1, <1>5, <2>1 DEF RemoveAt
  <2>4. a \in Seq(Nat) /\ Len(a) = k - 1 /\ \A i \in 1 .. k - 1 : a[i] = c[i]
    <3>1. \A i \in 1 .. k - 1 : c[i] \in Nat
      BY <1>2, <2>2
    <3>2. k - 1 \in Int /\ 1 \in Int
      BY <2>2
    <3>3. /\ a \in Seq(Nat) /\ Len(a) = IF 1 <= k - 1 THEN k - 1 - 1 + 1 ELSE 0
          /\ \A i \in 1 .. k - 1 - 1 + 1 : a[i] = c[1 + i - 1]
      BY <3>1, <3>2, SubSeqProperties
    <3> HIDE DEF a
    <3>4. \A i \in 1 .. k - 1 : a[i] = c[i]
      <4>1. \A i \in 1 .. k - 1 : i \in 1 .. k - 1 - 1 + 1 /\ 1 + i - 1 = i
        BY <2>2
      <4> QED  BY <3>3, <4>1
    <3> QED  BY <2>2, <3>3, <3>4
  <2>5. b \in Seq(Nat) /\ Len(b) = Len(c) - k
    <3>1. \A i \in k + 1 .. Len(c) : c[i] \in Nat
      BY <1>2, <2>2
    <3>2. k + 1 \in Int /\ Len(c) \in Int
      BY <1>2, <2>2
    <3>3. b \in Seq(Nat) /\ Len(b) = IF k + 1 <= Len(c) THEN Len(c) - (k + 1) + 1 ELSE 0
      BY <3>1, <3>2, SubSeqProperties
    <3> HIDE DEF b
    <3> QED  BY <1>2, <2>2, <3>3
  <2> HIDE DEF a, b, w
  <2>6. /\ w \in Seq(Nat) /\ Len(w) = Len(a) + Len(b)
        /\ \A i \in 1 .. Len(a) + Len(b) : w[i] = IF i <= Len(a) THEN a[i] ELSE b[i - Len(a)]
    BY <2>3, <2>4, <2>5, ConcatProperties
  <2>7. Len(w) = Len(c) - 1
    BY <1>2, <2>2, <2>4, <2>5, <2>6
  <2>8. ASSUME NEW m \in 0..Len(c), \A i \in 1..m : c[i] # p
        PROVE  m <= Len(w) /\ \A i \in 1..m : w[i] = c[i]
    <3>1. m < k
      BY <2>2, <2>8
    <3>2. m <= Len(w)
      BY <1>2, <2>2, <2>7, <3>1
    <3>3. ASSUME NEW i \in 1..m
          PROVE  w[i] = c[i]
      <4>1. i \in 1 .. k - 1 /\ i \in 1 .. Len(a) + Len(b) /\ i <= Len(a)
        BY <1>2, <2>2, <2>4, <2>5, <3>1
      <4> QED  BY <2>4, <2>6, <4>1
    <3> QED  BY <3>2, <3>3
  <2>9. Len(w) <= Len(c)
    BY <1>2, <2>7
  <2> QED  BY <2>6, <2>8, <2>9 DEF w
<1> QED  BY <1>4, <1>5

(* The page is now first, and the pages before the last that differ from   *)
(* it have moved back by one place.                                        *)
LEMMA LruTouchIs ==
  ASSUME NEW c \in Seq(Nat), Len(c) <= CacheSize, NEW p \in Nat
  PROVE  LET t == LruTouch(c, p)
         IN  /\ t \in Seq(Nat) /\ Len(t) <= CacheSize
             /\ \A m \in 0..Len(c) : m < CacheSize /\ (\A i \in 1..m : c[i] # p) =>
                  m + 1 <= Len(t) /\ t[1] = p /\ \A i \in 1..m : t[i + 1] = c[i]
<1> DEFINE w == Without(c, p)
           rest == IF Len(w) < CacheSize THEN w ELSE Front(w)
           t == LruTouch(c, p)
<1>1. /\ w \in Seq(Nat) /\ Len(w) <= Len(c) /\ Len(w) \in Nat
      /\ \A m \in 0..Len(c) : (\A i \in 1..m : c[i] # p) =>
           m <= Len(w) /\ \A i \in 1..m : w[i] = c[i]
  BY WithoutIs, LenProperties
<1>2. CacheSize \in Nat \ {0} /\ Len(c) \in Nat
  BY SizesAssumption, LenProperties
<1>3. t = <<p>> \o rest
  BY DEF LruTouch
<1> HIDE DEF w, t
<1>4. /\ rest \in Seq(Nat) /\ Len(rest) < CacheSize /\ Len(rest) \in Nat
      /\ Len(rest) = Len(w) \/ Len(rest) = CacheSize - 1
      /\ \A i \in 1..Len(rest) : rest[i] = w[i]
  <2>1. CASE Len(w) < CacheSize
    BY <1>1, <2>1
  <2>2. CASE ~(Len(w) < CacheSize)
    <3>1. rest = SubSeq(w, 1, Len(w) - 1) /\ Len(w) = CacheSize /\ Len(w) - 1 \in Nat
      BY <1>1, <1>2, <2>2 DEF Front
    <3>2. \A i \in 1 .. Len(w) - 1 : w[i] \in Nat
      BY <1>1, LenProperties
    <3>3. 1 \in Int /\ Len(w) - 1 \in Int
      BY <3>1
    <3>4. /\ SubSeq(w, 1, Len(w) - 1) \in Seq(Nat)
          /\ Len(SubSeq(w, 1, Len(w) - 1)) = IF 1 <= Len(w) - 1 THEN Len(w) - 1 - 1 + 1 ELSE 0
          /\ \A i \in 1 .. Len(w) - 1 - 1 + 1 : SubSeq(w, 1, Len(w) - 1)[i] = w[1 + i - 1]
      BY <3>2, <3>3, SubSeqProperties
    <3> HIDE DEF rest
    <3>5. rest \in Seq(Nat) /\ Len(rest) = CacheSize - 1
      BY <1>2, <3>1, <3>4
    <3>6. \A i \in 1..Len(rest) : i \in 1 .. Len(w) - 1 - 1 + 1 /\ 1 + i - 1 = i
      BY <1>2, <3>1, <3>5
    <3> QED  BY <1>2, <3>1, <3>4, <3>5, <3>6
  <2> QED  BY <2>1, <2>2
<1> HIDE DEF rest
<1>5. <<p>> \in Seq(Nat) /\ Len(<<p>>) = 1 /\ <<p>>[1] = p
  OBVIOUS
<1>6. /\ t \in Seq(Nat) /\ Len(t) = 1 + Len(rest)
      /\ \A i \in 1 .. 1 + Len(rest) : t[i] = IF i <= 1 THEN <<p>>[i] ELSE rest[i - 1]
  BY <1>3, <1>4, <1>5, ConcatProperties
<1>7. ASSUME NEW m \in 0..Len(c), m < CacheSize, \A i \in 1..m : c[i] # p
      PROVE  m + 1 <= Len(t) /\ t[1] = p /\ \A i \in 1..m : t[i + 1] = c[i]
  <2>1. m <= Len(w) /\ \A i \in 1..m : w[i] = c[i]
    BY <1>1, <1>7
  <2>2. m <= Len(rest) /\ m \in Nat
    BY <1>1, <1>2, <1>4, <1>7, <2>1
  <2>3. t[1] = p
    <3>1. 1 \in 1 .. 1 + Len(rest)
      BY <1>4
    <3> QED  BY <1>5, <1>6, <3>1
  <2>4. ASSUME NEW i \in 1..m
        PROVE  t[i + 1] = c[i]
    <3>1. i + 1 \in 1 .. 1 + Len(rest) /\ ~(i + 1 <= 1) /\ (i + 1) - 1 = i /\ i \in 1..Len(rest)
      BY <1>4, <2>2
    <3> QED  BY <1>4, <1>6, <2>1, <3>1
  <2> QED  BY <1>4, <1>6, <2>2, <2>3, <2>4
<1>8. Len(t) <= CacheSize
  BY <1>2, <1>4, <1>6
<1> QED  BY <1>6, <1>7, <1>8 DEF t

(* No page from p on is unmapped. *)
LEMMA OneShotTouchIs ==
  ASSUME NEW c \in Seq(Nat), NEW p \in Nat
  PROVE  /\ OneShotTouch(c, p) \in Seq(Nat)
         /\ \A q \in Nat : q >= p /\ Has(c, q) => Has(OneShotTouch(c, p), q)
<1> DEFINE kept == {i \in DOMAIN c : c[i] >= p}
           t == OneShotTouch(c, p)
<1>1. t = IF kept = {} THEN <<>> ELSE SubSeq(c, Min(kept), Len(c))
  BY DEF OneShotTouch
<1>2. DOMAIN c = 1..Len(c) /\ Len(c) \in Nat
  BY LenProperties
<1>3. kept \subseteq Nat /\ kept \subseteq 1..Len(c)
  BY <1>2
<1>4. CASE kept = {}
  <2>1. \A q \in Nat : q >= p => ~Has(c, q)
    BY <1>4 DEF Has
  <2> QED  BY <1>1, <1>4, <2>1
<1>5. CASE kept # {}
  <2>1. PICK k \in kept : k = Min(kept) /\ \A j \in kept : k <= j
    <3> HIDE DEF kept
    <3> QED  BY <1>3, <1>5, MinIs
  <2>2. k \in 1..Len(c)
    BY <1>2, <2>1
  <2>3. t = SubSeq(c, k, Len(c))
    BY <1>1, <1>5, <2>1
  <2>4. /\ t \in Seq(Nat) /\ Len(t) = Len(c) - k + 1
        /\ \A i \in 1 .. Len(c) - k + 1 : t[i] = c[k + i - 1]
    <3>1. \A i \in k..Len(c) : c[i] \in Nat
      BY <1>2, <2>2
    <3>2. k \in Int /\ Len(c) \in Int /\ k <= Len(c)
      BY <1>2, <2>2
    <3> QED  BY <2>3, <3>1, <3>2, SubSeqProperties
  <2> HIDE DEF t
  <2>5. ASSUME NEW q \in Nat, q >= p, Has(c, q)
        PROVE  Has(t, q)
    <3>1. PICK i \in DOMAIN c : c[i] = q
      BY <2>5 DEF Has
    <3>2. i \in 1..Len(c) /\ k <= i
      BY <1>2, <2>1, <2>5, <3>1
    <3>3. /\ i - k + 1 \in 1 .. Len(c) - k + 1 /\ k + (i - k + 1) - 1 = i
      BY <1>2, <2>2, <3>2
    <3>4. t[i - k + 1] = q /\ i - k + 1 \in DOMAIN t
      BY <2>4, <3>1, <3>3, LenProperties
    <3> QED  BY <3>4 DEF Has
  <2> QED  BY <2>4, <2>5 DEF t
<1> QED  BY <1>4, <1>5

LEMMA FindPageKeeps ==
  ASSUME KindsAssumption, kind \in Kinds, NEW c, Keeps(c), NEW p \in Nat, MaxPage \in Nat, p <= MaxPage
  PROVE  Keeps(FindPage(c, p))
<1>1. c \in Seq(Nat)
  BY DEF Keeps
<1>2. CASE kind = "lru"
  <2>1. LruTouch(c, p) \in Seq(Nat) /\ Len(LruTouch(c, p)) <= CacheSize
    BY <1>1, <1>2, LruTouchIs DEF Keeps
  <2> QED  BY <1>2, <2>1 DEF Keeps, FindPage
<1>3. CASE kind = "oneShot"
  <2>1. /\ OneShotTouch(c, p) \in Seq(Nat)
        /\ \A q \in Nat : q >= p /\ Has(c, q) => Has(OneShotTouch(c, p), q)
    BY <1>1, OneShotTouchIs
  <2>2. FindPage(c, p) = OneShotTouch(c, p)
    BY <1>3 DEF FindPage
  <2>3. ASSUME NEW q \in Nat, q >= MaxPage, Has(cache, q)
        PROVE  Has(OneShotTouch(c, p), q)
    <3>1. Has(c, q) /\ q >= p
      BY <1>3, <2>3 DEF Keeps
    <3> QED  BY <2>1, <3>1
  <2> QED  BY <1>3, <2>1, <2>2, <2>3 DEF Keeps
<1> QED  BY <1>2, <1>3, KindsAssumption

-----------------------------------------------------------------------------
(* Bytes that follow each other. *)

(* What a byte that is read can be. *)
Cells == {mem[o] : o \in Int}

LEMMA BytesAre ==
  ASSUME NEW o \in Int, NEW n \in Nat
  PROVE  /\ Bytes(o, n) \in Seq(Cells) /\ Len(Bytes(o, n)) = n
         /\ \A i \in 1..n : Bytes(o, n)[i] = mem[o + i - 1]
<1>1. Bytes(o, n) = [i \in 1..n |-> mem[o + i - 1]]
  BY DEF Bytes
<1>2. \A i \in 1..n : o + i - 1 \in Int
  OBVIOUS
<1>3. Bytes(o, n) \in [1..n -> Cells]
  BY <1>1, <1>2 DEF Cells
<1>4. Bytes(o, n) \in Seq(Cells)
  BY <1>3, SeqDef
<1>5. Len(Bytes(o, n)) = n
  BY <1>3, <1>4, LenProperties
<1> QED  BY <1>1, <1>4, <1>5

LEMMA BytesJoin ==
  ASSUME NEW o \in Int, NEW m \in Nat, NEW x \in Nat
  PROVE  Bytes(o, m) \o Bytes(o + m, x) = Bytes(o, m + x)
<1> DEFINE a == Bytes(o, m)
           b == Bytes(o + m, x)
           c == Bytes(o, m + x)
<1>1. a \in Seq(Cells) /\ Len(a) = m /\ \A i \in 1..m : a[i] = mem[o + i - 1]
  BY BytesAre
<1>2. b \in Seq(Cells) /\ Len(b) = x /\ \A i \in 1..x : b[i] = mem[(o + m) + i - 1]
  <2>1. o + m \in Int
    OBVIOUS
  <2> QED  BY <2>1, BytesAre
<1>3. c \in Seq(Cells) /\ Len(c) = m + x /\ \A i \in 1 .. m + x : c[i] = mem[o + i - 1]
  <2>1. m + x \in Nat
    OBVIOUS
  <2> QED  BY <2>1, BytesAre
<1> HIDE DEF a, b, c
<1>4. /\ a \o b \in Seq(Cells) /\ Len(a \o b) = m + x
      /\ \A i \in 1 .. m + x : (a \o b)[i] = IF i <= m THEN a[i] ELSE b[i - m]
  BY <1>1, <1>2, ConcatProperties
<1>5. ASSUME NEW i \in 1 .. m + x
      PROVE  (a \o b)[i] = c[i]
  <2>1. CASE i <= m
    <3>1. i \in 1..m
      BY <2>1
    <3>2. (a \o b)[i] = a[i] /\ a[i] = mem[o + i - 1] /\ c[i] = mem[o + i - 1]
      BY <1>1, <1>3, <1>4, <2>1, <3>1
    <3> QED  BY <3>2
  <2>2. CASE ~(i <= m)
    <3>1. PICK j \in 1..x : j = i - m /\ i - m = j /\ (o + m) + j - 1 = o + i - 1
      BY <2>2
    <3>2. (a \o b)[i] = b[j]
      BY <1>4, <2>2, <3>1
    <3>3. b[j] = mem[o + i - 1]
      BY <1>2, <3>1
    <3> QED  BY <1>3, <3>2, <3>3
  <2> QED  BY <2>1, <2>2
<1>6. a \o b = c
  <2>1. a \o b \in [1 .. m + x -> Cells] /\ c \in [1 .. m + x -> Cells]
    BY <1>3, <1>4, LenProperties
  <2> HIDE DEF Cells
  <2> QED  BY <1>5, <2>1
<1> QED  BY <1>6 DEF a, b, c

-----------------------------------------------------------------------------
(* The pages of a walk, from that of start to the last. *)

LEMMA InPage ==
  ASSUME NEW o \in Nat, NEW p \in Int, At(p) <= o, o < At(p + 1)
  PROVE  PageOf(o) = p /\ At(p) + (o % PageSize) = o
<1>1. /\ PageOf(o) \in Nat /\ o % PageSize \in 0 .. PageSize - 1
      /\ o = At(PageOf(o)) + (o % PageSize)
  BY PageAndPlace
<1>2. PICK q \in Nat : q = PageOf(o)
  BY <1>1
<1>3. /\ PageSize \in Nat /\ At(q) \in Int /\ At(p) \in Int /\ At(q + 1) \in Int /\ At(p + 1) \in Int
      /\ At(q + 1) = At(q) + PageSize
  BY SizesAssumption, AtType, AtNextPage
<1>4. At(q) <= o /\ o < At(q + 1)
  BY <1>1, <1>2, <1>3
<1>5. ~(q + 1 <= p)
  <2> SUFFICES ASSUME q + 1 <= p
               PROVE  FALSE
    OBVIOUS
  <2>1. At(q + 1) <= At(p)
    BY AtOrder
  <2> QED  BY <1>3, <1>4, <2>1
<1>6. ~(p + 1 <= q)
  <2> SUFFICES ASSUME p + 1 <= q
               PROVE  FALSE
    OBVIOUS
  <2>1. At(p + 1) <= At(q)
    BY AtOrder
  <2> QED  BY <1>3, <1>4, <2>1
<1>7. q = p
  BY <1>5, <1>6
<1> QED  BY <1>1, <1>2, <1>7

LEMMA PageSpan ==
  ASSUME NEW o \in Nat
  PROVE  PageOf(o) \in Nat /\ At(PageOf(o)) <= o /\ o < At(PageOf(o) + 1)
<1>1. /\ PageOf(o) \in Nat /\ o % PageSize \in 0 .. PageSize - 1
      /\ o = At(PageOf(o)) + (o % PageSize)
  BY PageAndPlace
<1>2. /\ PageSize \in Nat /\ At(PageOf(o)) \in Int
      /\ At(PageOf(o) + 1) = At(PageOf(o)) + PageSize
  BY <1>1, SizesAssumption, AtType, AtNextPage
<1> QED  BY <1>1, <1>2

LEMMA WalkSpan ==
  ASSUME available \in Nat, NEW start \in Nat, start <= available
  PROVE  /\ PageOf(start) \in Nat /\ MaxPage \in Nat /\ LastFrom(start) \in Nat \ {0}
         /\ \A k \in 1..LastFrom(start) : PageOf(start) + k - 1 \in Nat /\ PageOf(start) + k - 1 <= MaxPage
         /\ PageOf(start) + LastFrom(start) = MaxPage + 1
         /\ available < At(MaxPage + 1)
<1>1. PageOf(start) \in Nat /\ At(PageOf(start)) <= start
  BY PageSpan
<1>2. MaxPage \in Nat /\ available < At(MaxPage + 1)
  BY PageSpan DEF MaxPage
<1>3. PICK q \in Nat : q = PageOf(start)
  BY <1>1
<1>4. PICK l \in Nat : l = MaxPage
  BY <1>2
<1>5. ~(l + 1 <= q)
  <2> SUFFICES ASSUME l + 1 <= q
               PROVE  FALSE
    OBVIOUS
  <2>1. At(l + 1) <= At(q) /\ At(l + 1) \in Int /\ At(q) \in Int
    BY AtOrder, AtType
  <2> QED  BY <1>1, <1>2, <1>3, <1>4, <2>1
<1>6. LastFrom(start) = l - q + 1
  BY <1>3, <1>4 DEF LastFrom
<1>7. l - q + 1 \in Nat \ {0} /\ q + (l - q + 1) = l + 1
  BY <1>5
<1>8. ASSUME NEW k \in 1 .. l - q + 1
      PROVE  q + k - 1 \in Nat /\ q + k - 1 <= l
  BY <1>7
<1> QED  BY <1>2, <1>3, <1>4, <1>6, <1>7, <1>8

(* Where a walk from start goes on in page p. *)
LEMMA StartPosIs ==
  ASSUME NEW start \in Nat, NEW p \in Nat, PageOf(start) <= p
  PROVE  /\ StartPos(start, p) \in Nat /\ StartPos(start, p) >= start
         /\ StartPos(start, p) >= At(p) /\ StartPos(start, p) < At(p + 1)
         /\ start < At(p + 1) /\ At(p + 1) \in Nat /\ StartPos(start, p + 1) = At(p + 1)
<1>1. PageOf(start) \in Nat /\ start < At(PageOf(start) + 1)
  BY PageSpan
<1>2. PageOf(start) + 1 \in Int /\ p + 1 \in Int /\ PageOf(start) + 1 <= p + 1
  BY <1>1
<1>3. At(PageOf(start) + 1) <= At(p + 1) /\ At(p + 1) = At(p) + PageSize
  BY <1>2, AtOrder, AtNextPage
<1>4. At(p) \in Nat /\ At(p + 1) \in Nat /\ PageSize \in Nat \ {0} /\ At(PageOf(start) + 1) \in Int
  BY <1>2, AtType, SizesAssumption
<1>5. StartPos(start, p) = Greater(start, At(p)) /\ StartPos(start, p + 1) = Greater(start, At(p + 1))
  BY DEF StartPos, At
<1>6. start < At(p + 1)
  BY <1>1, <1>3, <1>4
<1> QED  BY <1>3, <1>4, <1>5, <1>6 DEF Greater

-----------------------------------------------------------------------------
(* Pop. *)

(* What Pop has when it comes to page p: unless it passed a page over,     *)
(* all of the n bytes, or those from start up to the page.                 *)
Taken(start, n, a, p) ==
  \E m \in 0..n : a.bytes = Bytes(start, m) /\ (m = n \/ start + m = StartPos(start, p))

PopsTo(start, n, p) ==
  {a \in [cache : Seq(Nat), bytes : Seq(Cells), skipped : BOOLEAN] :
     /\ Keeps(a.cache) /\ Len(a.bytes) <= n
     /\ kind = "lru" => ~a.skipped
     /\ a.skipped \/ Taken(start, n, a, p)}

LEMMA PopPageTakes ==
  ASSUME kind \in Kinds, MaxPage \in Nat, NEW start \in Nat, NEW n \in Nat,
         NEW p \in Nat, PageOf(start) <= p, p <= MaxPage, NEW a \in PopsTo(start, n, p)
  PROVE  PopPage(start, n, a, p) \in PopsTo(start, n, p + 1)
<1> DEFINE from == StartPos(start, p)
           x    == Lesser(n - Len(a.bytes), (p + 1) * PageSize - from)
           r    == PopPage(start, n, a, p)
<1>1. /\ a \in [cache : Seq(Nat), bytes : Seq(Cells), skipped : BOOLEAN]
      /\ Keeps(a.cache) /\ Len(a.bytes) <= n
      /\ kind = "lru" => ~a.skipped
      /\ a.skipped \/ Taken(start, n, a, p)
  BY DEF PopsTo
<1>2. r = IF Len(a.bytes) = n THEN a
          ELSE IF Found(a.cache, p)
          THEN [cache |-> FindPage(a.cache, p), bytes |-> a.bytes \o Bytes(from, x),
                skipped |-> a.skipped]
          ELSE [a EXCEPT !.cache = FindPage(@, p), !.skipped = TRUE]
  BY DEF PopPage
<1>3. /\ from \in Nat /\ from < At(p + 1) /\ At(p + 1) \in Nat
      /\ start < At(p + 1) /\ StartPos(start, p + 1) = At(p + 1)
  BY StartPosIs
<1>4. Len(a.bytes) \in Nat /\ a.bytes \in Seq(Cells)
  BY <1>1, LenProperties
<1>5. /\ x = Lesser(n - Len(a.bytes), At(p + 1) - from) /\ x \in Nat
      /\ Len(a.bytes) + x <= n
      /\ x = n - Len(a.bytes) \/ x = At(p + 1) - from
  <2>1. x = Lesser(n - Len(a.bytes), At(p + 1) - from)
    BY DEF At
  <2> HIDE DEF x, from
  <2> QED  BY <1>1, <1>3, <1>4, <2>1 DEF Lesser
<1>6. Keeps(FindPage(a.cache, p)) /\ FindPage(a.cache, p) \in Seq(Nat)
  <2>1. Keeps(FindPage(a.cache, p))
    BY <1>1, KindsAssumption, FindPageKeeps
  <2> QED  BY <2>1 DEF Keeps
<1> HIDE DEF from, x, r
<1>7. CASE Len(a.bytes) = n
  <2>1. r = a
    BY <1>2, <1>7
  <2>2. Taken(start, n, a, p) => Taken(start, n, a, p + 1)
    <3> SUFFICES ASSUME Taken(start, n, a, p)
                 PROVE  Taken(start, n, a, p + 1)
      OBVIOUS
    <3>1. PICK m \in 0..n : a.bytes = Bytes(start, m)
      BY DEF Taken
    <3>2. Len(a.bytes) = m
      BY <3>1, BytesAre
    <3> QED  BY <1>7, <3>1, <3>2 DEF Taken
  <2> QED  BY <1>1, <2>1, <2>2 DEF PopsTo, r
<1>8. CASE Len(a.bytes) # n /\ Found(a.cache, p)
  <2>1. /\ r = [cache |-> FindPage(a.cache, p), bytes |-> a.bytes \o Bytes(from, x),
                skipped |-> a.skipped]
    BY <1>2, <1>8
  <2>2. a.skipped \in BOOLEAN
    BY <1>1
  <2>3. a.bytes \o Bytes(from, x) \in Seq(Cells) /\ Len(a.bytes \o Bytes(from, x)) <= n
    <3>1. Bytes(from, x) \in Seq(Cells) /\ Len(Bytes(from, x)) = x
      BY <1>3, <1>5, BytesAre
    <3>2. /\ a.bytes \o Bytes(from, x) \in Seq(Cells)
          /\ Len(a.bytes \o Bytes(from, x)) = Len(a.bytes) + x
      BY <1>4, <3>1, ConcatProperties
    <3> QED  BY <1>5, <3>2
  <2>4. r \in [cache : Seq(Nat), bytes : Seq(Cells), skipped : BOOLEAN]
    BY <1>6, <2>1, <2>2, <2>3
  <2>5. r.cache = FindPage(a.cache, p) /\ r.bytes = a.bytes \o Bytes(from, x)
    BY <2>1
  <2>6. r.skipped = a.skipped
    BY <2>1
  <2>7. Taken(start, n, a, p) => Taken(start, n, r, p + 1)
    <3> SUFFICES ASSUME Taken(start, n, a, p)
                 PROVE  Taken(start, n, r, p + 1)
      OBVIOUS
    <3>1. PICK m \in 0..n : a.bytes = Bytes(start, m) /\ (m = n \/ start + m = StartPos(start, p))
      BY DEF Taken
    <3>2. Len(a.bytes) = m
      BY <3>1, BytesAre
    <3>3. start + m = from
      BY <1>8, <3>1, <3>2 DEF from
    <3>4. r.bytes = Bytes(start, m + x)
      <4>1. start \in Int /\ m \in Nat
        OBVIOUS
      <4>2. Bytes(start, m) \o Bytes(start + m, x) = Bytes(start, m + x)
        BY <1>5, <4>1, BytesJoin
      <4> QED  BY <2>5, <3>1, <3>3, <4>2
    <3>5. m + x \in 0..n /\ (m + x = n \/ start + (m + x) = At(p + 1))
      BY <1>3, <1>5, <3>2, <3>3
    <3> QED  BY <1>3, <3>4, <3>5 DEF Taken
  <2>8. kind = "lru" => ~r.skipped
    BY <1>1, <2>6
  <2>9. r.skipped \/ Taken(start, n, r, p + 1)
    BY <1>1, <2>6, <2>7
  <2>10. Keeps(r.cache) /\ Len(r.bytes) <= n
    BY <1>6, <2>3, <2>5
  <2> QED  BY <2>4, <2>8, <2>9, <2>10 DEF PopsTo, r
<1>9. CASE Len(a.bytes) # n /\ ~Found(a.cache, p)
  <2>1. r = [a EXCEPT !.cache = FindPage(a.cache, p), !.skipped = TRUE]
    BY <1>2, <1>9
  <2>2. r \in [cache : Seq(Nat), bytes : Seq(Cells), skipped : BOOLEAN]
    BY <1>1, <1>6, <2>1
  <2>3. r.cache = FindPage(a.cache, p) /\ r.bytes = a.bytes
    BY <1>1, <2>1
  <2>4. r.skipped
    BY <1>1, <2>1
  <2>5. kind # "lru"
    BY <1>9 DEF Found
  <2>6. Keeps(r.cache) /\ Len(r.bytes) <= n
    BY <1>1, <1>6, <2>3
  <2> QED  BY <2>2, <2>4, <2>5, <2>6 DEF PopsTo, r
<1> QED  BY <1>7, <1>8, <1>9

LEMMA PoppedIs ==
  ASSUME kind \in Kinds, Keeps(cache), available \in Nat,
         NEW start \in Nat, start <= available, NEW n \in Nat
  PROVE  Popped(start, n) \in PopsTo(start, n, MaxPage + 1)
<1> DEFINE K == LastFrom(start)
           first == [cache |-> cache, bytes |-> <<>>, skipped |-> FALSE]
           upTo(k) == PageOf(start) + k
           S == [cache : Seq(Nat), bytes : Seq(Cells), skipped : BOOLEAN]
           J == [k \in 0..K |-> PopsTo(start, n, upTo(k))]
           g == [z \in S \X (1..K) |-> PopPage(start, n, z[1], PageOf(start) + z[2] - 1)]
           W == CHOOSE f : f = [k \in 0..K |-> IF k = 0 THEN first
                                               ELSE PopPage(start, n, f[k - 1], PageOf(start) + k - 1)]
<1>1. Popped(start, n) = W[K]
  BY Zenon DEF Popped, Walk
<1>2. /\ PageOf(start) \in Nat /\ MaxPage \in Nat /\ K \in Nat \ {0}
      /\ \A k \in 1..K : PageOf(start) + k - 1 \in Nat /\ PageOf(start) + k - 1 <= MaxPage
      /\ PageOf(start) + K = MaxPage + 1
  BY WalkSpan
<1> HIDE DEF K
<1>3. ASSUME NEW k \in 1..K, NEW a \in J[k - 1]
      PROVE  a \in S /\ PopPage(start, n, a, PageOf(start) + k - 1) \in J[k]
  <2>1. k - 1 \in 0..K /\ k \in 0..K /\ upTo(k - 1) = PageOf(start) + k - 1 /\ upTo(k) = (PageOf(start) + k - 1) + 1
    BY <1>2
  <2>2. a \in PopsTo(start, n, PageOf(start) + k - 1) /\ J[k] = PopsTo(start, n, (PageOf(start) + k - 1) + 1)
    BY <2>1
  <2>3. PageOf(start) + k - 1 \in Nat /\ PageOf(start) <= PageOf(start) + k - 1 /\ PageOf(start) + k - 1 <= MaxPage
    BY <1>2
  <2> HIDE DEF J
  <2>4. PopPage(start, n, a, PageOf(start) + k - 1) \in J[k]
    BY <1>2, <2>2, <2>3, PopPageTakes
  <2>5. a \in S
    BY <2>2 DEF PopsTo
  <2> QED  BY <2>4, <2>5
<1>4. first \in J[0]
  <2>1. first \in S /\ first.bytes = <<>> /\ Len(first.bytes) = 0 /\ first.cache = cache
    BY DEF Keeps
  <2>2. ~first.skipped
    OBVIOUS
  <2>3. StartPos(start, PageOf(start)) = start
    <3>1. At(PageOf(start)) <= start /\ At(PageOf(start)) \in Int
      BY <1>2, PageSpan, AtType
    <3>2. StartPos(start, PageOf(start)) = Greater(start, At(PageOf(start)))
      BY DEF StartPos, At
    <3> QED  BY <3>1, <3>2 DEF Greater
  <2>4. Bytes(start, 0) = <<>>
    <3>1. start \in Int /\ 0 \in Nat
      OBVIOUS
    <3>2. Bytes(start, 0) \in Seq(Cells) /\ Len(Bytes(start, 0)) = 0
      BY <3>1, BytesAre
    <3> QED  BY <3>2, EmptySeq
  <2>5. Taken(start, n, first, PageOf(start))
    <3>1. 0 \in 0..n /\ start + 0 = start
      OBVIOUS
    <3> HIDE DEF first
    <3> QED  BY <2>1, <2>3, <2>4, <3>1 DEF Taken
  <2>6. J[0] = PopsTo(start, n, PageOf(start))
    <3>1. 0 \in 0..K /\ PageOf(start) + 0 = PageOf(start)
      BY <1>2
    <3> QED  BY <3>1
  <2> HIDE DEF first, J
  <2>7. first \in PopsTo(start, n, PageOf(start))
    BY <2>1, <2>2, <2>5 DEF PopsTo
  <2> QED  BY <2>6, <2>7
<1>5. \A k \in 1..K : \A a \in J[k - 1] :
        g[<<a, k>>] = PopPage(start, n, a, PageOf(start) + k - 1) /\ g[<<a, k>>] \in J[k]
  <2> SUFFICES ASSUME NEW k \in 1..K, NEW a \in J[k - 1]
               PROVE  g[<<a, k>>] = PopPage(start, n, a, PageOf(start) + k - 1) /\ g[<<a, k>>] \in J[k]
    OBVIOUS
  <2>1. <<a, k>> \in S \X (1..K)
    BY <1>3
  <2>2. g[<<a, k>>] = PopPage(start, n, a, PageOf(start) + k - 1)
    <3> HIDE DEF S
    <3> QED  BY <2>1
  <2> QED  BY <1>3, <2>2
<1> HIDE DEF g, J, first, S
<1>6. PICK f : /\ f = [k \in 0..K |-> IF k = 0 THEN first ELSE g[<<f[k - 1], k>>]]
               /\ \A k \in 0..K : f[k] \in J[k]
  <2>1. \A k \in 1..K : \A a \in J[k - 1] : g[<<a, k>>] \in J[k]
    BY <1>5
  <2>2. K \in Nat
    BY <1>2
  <2>3. \E f : StepsBy(f, K, first, g) /\ \A k \in 0..K : f[k] \in J[k]
    BY <1>4, <2>1, <2>2, Stepwise
  <2> QED  BY <2>3 DEF StepsBy
<1>7. f = [k \in 0..K |-> IF k = 0 THEN first ELSE PopPage(start, n, f[k - 1], PageOf(start) + k - 1)]
  <2>1. \A k \in 0..K : k # 0 => k \in 1..K /\ k - 1 \in 0..K
    BY <1>2
  <2>2. \A k \in 0..K : (IF k = 0 THEN first ELSE g[<<f[k - 1], k>>])
                        = (IF k = 0 THEN first ELSE PopPage(start, n, f[k - 1], PageOf(start) + k - 1))
    BY <1>5, <1>6, <2>1
  <2> QED  BY <1>6, <2>2
<1>8. W = [k \in 0..K |-> IF k = 0 THEN first ELSE PopPage(start, n, W[k - 1], PageOf(start) + k - 1)]
  BY <1>7
<1> HIDE DEF W
<1>9. \A k \in 0..K : W[k] \in J[k]
  <2> DEFINE T == {k \in 0..K : W[k] \in J[k]}
  <2>1. 0 \in T
    <3>1. 0 \in 0..K
      BY <1>2
    <3>2. W[0] = first
      BY <1>8, <3>1
    <3> QED  BY <1>4, <3>1, <3>2
  <2>2. ASSUME NEW k \in 1..K, k - 1 \in T
        PROVE  k \in T
    <3>1. k \in 0..K /\ k # 0
      BY <1>2
    <3>2. W[k] = PopPage(start, n, W[k - 1], PageOf(start) + k - 1)
      BY <1>8, <3>1
    <3>3. W[k - 1] \in J[k - 1]
      BY <2>2
    <3> QED  BY <1>3, <3>1, <3>2, <3>3
  <2> HIDE DEF T
  <2>3. \A k \in 0..K : k \in T
    BY <1>2, <2>1, <2>2, ByOne
  <2> QED  BY <2>3 DEF T
<1>10. W[K] \in J[K] /\ J[K] = PopsTo(start, n, MaxPage + 1)
  <2>1. K \in 0..K
    BY <1>2
  <2>2. J[K] = PopsTo(start, n, PageOf(start) + K)
    BY <2>1 DEF J
  <2> QED  BY <1>2, <1>9, <2>1, <2>2
<1> QED  BY <1>1, <1>10

(* Pop has exactly the bytes asked for, unless it passed a page over. *)
LEMMA PoppedBytes ==
  ASSUME kind \in Kinds, Keeps(cache), available \in Nat,
         NEW start \in Nat, NEW n \in Nat, start + n <= available
  PROVE  LET r == Popped(start, n)
         IN  /\ Keeps(r.cache) /\ r.bytes \in Seq(Cells)
             /\ kind = "lru" => ~r.skipped
             /\ ~r.skipped => r.bytes = Bytes(start, n)
<1> DEFINE r == Popped(start, n)
<1>1. start <= available
  OBVIOUS
<1>2. r \in PopsTo(start, n, MaxPage + 1)
  BY <1>1, PoppedIs
<1> HIDE DEF r
<1>3. /\ Keeps(r.cache) /\ r.bytes \in Seq(Cells)
      /\ kind = "lru" => ~r.skipped
      /\ r.skipped \/ Taken(start, n, r, MaxPage + 1)
  BY <1>2 DEF PopsTo
<1>4. ASSUME Taken(start, n, r, MaxPage + 1)
      PROVE  r.bytes = Bytes(start, n)
  <2>1. PICK m \in 0..n : r.bytes = Bytes(start, m) /\ (m = n \/ start + m = StartPos(start, MaxPage + 1))
    BY <1>4 DEF Taken
  <2>2. PageOf(start) \in Nat /\ MaxPage \in Nat /\ PageOf(start) <= MaxPage /\ available < At(MaxPage + 1)
    <3>1. /\ PageOf(start) \in Nat /\ MaxPage \in Nat /\ LastFrom(start) \in Nat \ {0}
          /\ PageOf(start) + LastFrom(start) = MaxPage + 1
          /\ available < At(MaxPage + 1)
      BY <1>1, WalkSpan
    <3> QED  BY <3>1
  <2>3. StartPos(start, MaxPage + 1) = At(MaxPage + 1) /\ At(MaxPage + 1) \in Nat
    BY <2>2, StartPosIs
  <2>4. m = n
    BY <2>1, <2>2, <2>3
  <2> QED  BY <2>1, <2>4
<1> QED  BY <1>3, <1>4 DEF r

-----------------------------------------------------------------------------
(* Find. *)

FindsIn(d) ==
  [cache : {c \in Seq(Nat) : Keeps(c)}, at : {Nowhere} \cup {o \in Offsets : mem[o] = d}, past : BOOLEAN]

LEMMA FindInFinds ==
  ASSUME kind \in Kinds, MaxPage \in Nat, NEW start \in Nat, NEW d,
         NEW p \in Nat, p <= MaxPage, NEW a \in FindsIn(d)
  PROVE  FindIn(start, d, a, p) \in FindsIn(d)
<1> DEFINE there == Places(start, d, p)
           at    == IF Found(a.cache, p) /\ there # {} THEN Min(there) ELSE Nowhere
           past  == a.past \/ (kind = "lru" /\ p >= size)
<1>1. FindIn(start, d, a, p) =
        IF a.at # Nowhere THEN a
        ELSE [cache |-> FindPage(a.cache, p), at |-> at, past |-> past]
  BY DEF FindIn
<1>2. Keeps(FindPage(a.cache, p)) /\ FindPage(a.cache, p) \in Seq(Nat)
  <2>1. Keeps(a.cache)
    BY DEF FindsIn
  <2>2. Keeps(FindPage(a.cache, p))
    BY <2>1, KindsAssumption, FindPageKeeps
  <2> QED  BY <2>2 DEF Keeps
<1>3. at \in {Nowhere} \cup {o \in Offsets : mem[o] = d}
  <2>1. there \subseteq {o \in Offsets : mem[o] = d} /\ there \subseteq Nat
    BY DEF Places, Offsets
  <2>2. there # {} => Min(there) \in there
    <3> HIDE DEF there
    <3> QED  BY <2>1, MinIs
  <2> QED  BY <2>1, <2>2
<1>4. past \in BOOLEAN
  BY DEF FindsIn
<1> HIDE DEF at, past
<1> QED  BY <1>1, <1>2, <1>3, <1>4 DEF FindsIn

LEMMA FoundIs ==
  ASSUME kind \in Kinds, Keeps(cache), available \in Nat,
         NEW start \in Nat, start <= available, NEW d
  PROVE  Find(start, d) \in FindsIn(d)
<1> DEFINE K == LastFrom(start)
           first == [cache |-> cache, at |-> Nowhere, past |-> FALSE]
           S == FindsIn(d)
           J == [k \in 0..K |-> S]
           g == [z \in S \X (1..K) |-> FindIn(start, d, z[1], PageOf(start) + z[2] - 1)]
           W == CHOOSE f : f = [k \in 0..K |-> IF k = 0 THEN first
                                               ELSE FindIn(start, d, f[k - 1], PageOf(start) + k - 1)]
<1>1. Find(start, d) = W[K]
  BY Zenon DEF Find, Walk
<1>2. /\ MaxPage \in Nat /\ K \in Nat \ {0}
      /\ \A k \in 1..K : PageOf(start) + k - 1 \in Nat /\ PageOf(start) + k - 1 <= MaxPage
  BY WalkSpan
<1> HIDE DEF K
<1>3. ASSUME NEW k \in 1..K, NEW a \in J[k - 1]
      PROVE  a \in S /\ FindIn(start, d, a, PageOf(start) + k - 1) \in J[k]
  <2>1. k - 1 \in 0..K /\ k \in 0..K
    BY <1>2
  <2>2. J[k - 1] = S /\ J[k] = S
    BY <2>1
  <2> HIDE DEF J
  <2> QED  BY <1>2, <2>2, FindInFinds
<1>4. first \in J[0]
  <2>1. 0 \in 0..K
    BY <1>2
  <2>2. J[0] = S
    BY <2>1
  <2>3. cache \in {c \in Seq(Nat) : Keeps(c)}
    BY DEF Keeps
  <2> HIDE DEF J
  <2> QED  BY <2>2, <2>3 DEF FindsIn
<1>5. \A k \in 1..K : \A a \in J[k - 1] :
        g[<<a, k>>] = FindIn(start, d, a, PageOf(start) + k - 1) /\ g[<<a, k>>] \in J[k]
  <2> SUFFICES ASSUME NEW k \in 1..K, NEW a \in J[k - 1]
               PROVE  g[<<a, k>>] = FindIn(start, d, a, PageOf(start) + k - 1) /\ g[<<a, k>>] \in J[k]
    OBVIOUS
  <2>1. <<a, k>> \in S \X (1..K)
    BY <1>3
  <2>2. g[<<a, k>>] = FindIn(start, d, a, PageOf(start) + k - 1)
    <3> HIDE DEF S
    <3> QED  BY <2>1
  <2> QED  BY <1>3, <2>2
<1> HIDE DEF g, J, first, S
<1>6. PICK f : /\ f = [k \in 0..K |-> IF k = 0 THEN first ELSE g[<<f[k - 1], k>>]]
               /\ \A k \in 0..K : f[k] \in J[k]
  <2>1. \A k \in 1..K : \A a \in J[k - 1] : g[<<a, k>>] \in J[k]
    BY <1>5
  <2>2. K \in Nat
    BY <1>2
  <2>3. \E f : StepsBy(f, K, first, g) /\ \A k \in 0..K : f[k] \in J[k]
    BY <1>4, <2>1, <2>2, Stepwise
  <2> QED  BY <2>3 DEF StepsBy
<1>7. f = [k \in 0..K |-> IF k = 0 THEN first ELSE FindIn(start, d, f[k - 1], PageOf(start) + k - 1)]
  <2>1. \A k \in 0..K : k # 0 => k \in 1..K /\ k - 1 \in 0..K
    BY <1>2
  <2>2. \A k \in 0..K : (IF k = 0 THEN first ELSE g[<<f[k - 1], k>>])
                        = (IF k = 0 THEN first ELSE FindIn(start, d, f[k - 1], PageOf(start) + k - 1))
    BY <1>5, <1>6, <2>1
  <2> QED  BY <1>6, <2>2
<1>8. W = [k \in 0..K |-> IF k = 0 THEN first ELSE FindIn(start, d, W[k - 1], PageOf(start) + k - 1)]
  BY <1>7
<1> HIDE DEF W
<1>9. \A k \in 0..K : W[k] \in J[k]
  <2> DEFINE T == {k \in 0..K : W[k] \in J[k]}
  <2>1. 0 \in T
    <3>1. 0 \in 0..K
      BY <1>2
    <3>2. W[0] = first
      BY <1>8, <3>1
    <3> QED  BY <1>4, <3>1, <3>2
  <2>2. ASSUME NEW k \in 1..K, k - 1 \in T
        PROVE  k \in T
    <3>1. k \in 0..K /\ k # 0
      BY <1>2
    <3>2. W[k] = FindIn(start, d, W[k - 1], PageOf(start) + k - 1)
      BY <1>8, <3>1
    <3>3. W[k - 1] \in J[k - 1]
      BY <2>2
    <3> QED  BY <1>3, <3>1, <3>2, <3>3
  <2> HIDE DEF T
  <2>3. \A k \in 0..K : k \in T
    BY <1>2, <2>1, <2>2, ByOne
  <2> QED  BY <2>3 DEF T
<1>10. W[K] \in J[K] /\ J[K] = FindsIn(d)
  <2>1. K \in 0..K
    BY <1>2
  <2>2. J[K] = FindsIn(d)
    BY <2>1 DEF J, S
  <2> QED  BY <1>9, <2>1, <2>2
<1> QED  BY <1>1, <1>10

-----------------------------------------------------------------------------
(* Segments. *)

(* The pages that have a segment are the first of the cache, the last of   *)
(* them in front.                                                          *)
InFront(iov, c, p) ==
  /\ Len(iov) <= Len(c) /\ Len(iov) <= CacheSize
  /\ \A i \in 1..Len(iov) : iov[i] < p /\ c[i] = iov[Len(iov) + 1 - i]

LEMMA InFrontGrows ==
  ASSUME NEW c \in Seq(Nat), Len(c) <= CacheSize, NEW iov \in Seq(Nat), NEW p \in Nat,
         InFront(iov, c, p), Len(iov) < CacheSize
  PROVE  InFront(Append(iov, p), LruTouch(c, p), p + 1)
<1> DEFINE m == Len(iov)
           t == LruTouch(c, p)
           v == Append(iov, p)
<1>1. m \in Nat /\ Len(c) \in Nat /\ CacheSize \in Nat
  BY LenProperties, SizesAssumption
<1>2. m <= Len(c) /\ \A i \in 1..m : iov[i] < p /\ c[i] = iov[m + 1 - i] /\ iov[i] \in Nat
  BY LenProperties DEF InFront
<1>3. Len(v) = m + 1 /\ v[m + 1] = p /\ \A i \in 1..m : v[i] = iov[i]
  BY AppendProperties
<1>4. m + 1 <= Len(t) /\ t[1] = p /\ \A i \in 1..m : t[i + 1] = c[i]
  <2>1. ASSUME NEW i \in 1..m
        PROVE  c[i] # p
    <3>1. PICK j \in 1..m : j = m + 1 - i
      <4> HIDE DEF m
      <4>1. m + 1 - i \in 1..m
        BY <1>1
      <4> QED  BY <4>1
    <3>2. c[i] = iov[j] /\ iov[j] < p /\ iov[j] \in Nat
      BY <1>2, <3>1
    <3> QED  BY <3>2
  <2>2. m \in 0..Len(c) /\ m < CacheSize
    BY <1>1, <1>2
  <2> HIDE DEF m
  <2> QED  BY <2>1, <2>2, LruTouchIs
<1> HIDE DEF m, t, v
<1>5. ASSUME NEW i \in 1 .. m + 1
      PROVE  v[i] < p + 1 /\ t[i] = v[(m + 1) + 1 - i]
  <2>1. v[i] < p + 1
    <3>1. CASE i = m + 1
      BY <1>3, <3>1
    <3>2. CASE i # m + 1
      <4>1. i \in 1..m
        BY <1>1, <3>2
      <4>2. v[i] = iov[i] /\ iov[i] < p /\ iov[i] \in Nat
        BY <1>2, <1>3, <4>1
      <4> QED  BY <4>2
    <3> QED  BY <3>1, <3>2
  <2>2. t[i] = v[(m + 1) + 1 - i]
    <3>1. CASE i = 1
      <4>1. (m + 1) + 1 - i = m + 1
        BY <1>1, <3>1
      <4> QED  BY <1>3, <1>4, <3>1, <4>1
    <3>2. CASE i # 1
      <4>1. PICK j \in 1..m : i = j + 1
        <5>1. i - 1 \in 1..m /\ i = (i - 1) + 1
          BY <1>1, <3>2
        <5> QED  BY <5>1
      <4>2. (m + 1) + 1 - i = m + 1 - j /\ m + 1 - j \in 1..m
        BY <1>1, <4>1
      <4>3. t[i] = c[j] /\ c[j] = iov[m + 1 - j]
        BY <1>2, <1>4, <4>1
      <4>4. v[m + 1 - j] = iov[m + 1 - j]
        BY <1>3, <4>2
      <4> QED  BY <4>2, <4>3, <4>4
    <3> QED  BY <3>1, <3>2
  <2> QED  BY <2>1, <2>2
<1>6. m + 1 <= CacheSize
  BY <1>1 DEF m
<1> QED  BY <1>3, <1>4, <1>5, <1>6 DEF InFront, t, v

(* What Writev has when it comes to page p: no more to collect, or the     *)
(* bytes from start up to the page.                                        *)
Total(n) == Lesser(n, CacheSize * PageSize)

Ended(n, a) == ~a.ok \/ Len(a.bytes) >= Total(n) \/ ~MoreSegments(a.iov)

SegmentsTo(start, n, p) ==
  {a \in [cache : Seq(Nat), iov : Seq(Nat), bytes : Seq(Cells), ok : BOOLEAN] :
     /\ Keeps(a.cache) /\ Len(a.bytes) <= n
     /\ a.bytes = Bytes(start, Len(a.bytes))
     /\ kind = "lru" => a.ok /\ InFront(a.iov, a.cache, p)
     /\ Ended(n, a) \/ start + Len(a.bytes) = StartPos(start, p)}

LEMMA AddSegmentAdds ==
  ASSUME kind \in Kinds, MaxPage \in Nat, NEW start \in Nat, NEW n \in Nat,
         NEW p \in Nat, PageOf(start) <= p, p <= MaxPage, NEW a \in SegmentsTo(start, n, p)
  PROVE  AddSegment(start, n, a, p) \in SegmentsTo(start, n, p + 1)
<1> DEFINE queued == Len(a.bytes)
           total  == Total(n)
           off    == (start + queued) % PageSize
           x      == Lesser(total - queued, PageSize - off)
           r      == AddSegment(start, n, a, p)
<1>1. /\ a \in [cache : Seq(Nat), iov : Seq(Nat), bytes : Seq(Cells), ok : BOOLEAN]
      /\ Keeps(a.cache) /\ queued <= n
      /\ a.bytes = Bytes(start, queued)
      /\ kind = "lru" => a.ok /\ InFront(a.iov, a.cache, p)
      /\ Ended(n, a) \/ start + queued = StartPos(start, p)
  BY DEF SegmentsTo
<1>2. r = IF ~a.ok \/ queued >= total \/ ~MoreSegments(a.iov) THEN a
          ELSE IF Found(a.cache, p)
          THEN [cache |-> FindPage(a.cache, p), iov |-> Append(a.iov, p),
                bytes |-> a.bytes \o Bytes(p * PageSize + off, x), ok |-> TRUE]
          ELSE [a EXCEPT !.cache = FindPage(@, p), !.ok = FALSE]
  BY DEF AddSegment, Total
<1>3. /\ StartPos(start, p) \in Nat /\ StartPos(start, p) < At(p + 1) /\ At(p + 1) \in Nat
      /\ StartPos(start, p) >= At(p) /\ StartPos(start, p + 1) = At(p + 1)
  BY StartPosIs
<1>4. queued \in Nat /\ a.bytes \in Seq(Cells)
  BY <1>1, LenProperties
<1>5. total \in Nat /\ total <= n
  <2>1. CacheSize * PageSize \in Nat
    BY SizesAssumption
  <2> QED  BY <2>1 DEF Total, Lesser
<1>6. Keeps(FindPage(a.cache, p)) /\ FindPage(a.cache, p) \in Seq(Nat)
  <2>1. Keeps(FindPage(a.cache, p))
    BY <1>1, KindsAssumption, FindPageKeeps
  <2> QED  BY <2>1 DEF Keeps
<1>7. At(p) \in Nat /\ At(p + 1) = At(p) + PageSize /\ PageSize \in Nat \ {0}
  BY AtType, AtNextPage, SizesAssumption
<1> HIDE DEF queued, total, off, x, r
<1>8. CASE Ended(n, a)
  <2>1. r = a
    BY <1>2, <1>8 DEF Ended, total, queued
  <2>2. InFront(a.iov, a.cache, p) => InFront(a.iov, a.cache, p + 1)
    <3>1. \A i \in 1..Len(a.iov) : a.iov[i] \in Nat
      BY <1>1, LenProperties
    <3>2. \A i \in 1..Len(a.iov) : a.iov[i] < p => a.iov[i] < p + 1
      BY <3>1
    <3> QED  BY <3>2 DEF InFront
  <2> QED  BY <1>1, <1>8, <2>1, <2>2 DEF SegmentsTo, r, queued
<1>9. CASE ~Ended(n, a) /\ Found(a.cache, p)
  <2>1. a.ok /\ queued < total /\ Len(a.iov) < CacheSize
    <3>1. a.ok /\ ~(queued >= total) /\ Len(a.iov) < CacheSize
      BY <1>9 DEF Ended, MoreSegments, queued, total
    <3> QED  BY <1>4, <1>5, <3>1
  <2>2. start + queued = StartPos(start, p)
    BY <1>1, <1>9
  <2>3. off \in Nat /\ p * PageSize + off = start + queued
    <3>1. start + queued \in Nat /\ At(p) <= start + queued /\ start + queued < At(p + 1)
      BY <1>3, <1>4, <1>7, <2>2
    <3>2. At(p) + off = start + queued
      BY <3>1, InPage DEF off
    <3>3. off \in 0 .. PageSize - 1
      BY <3>1, PageAndPlace DEF off
    <3> QED  BY <3>2, <3>3 DEF At
  <2>4. /\ x \in Nat /\ queued + x <= total
        /\ queued + x = total \/ start + (queued + x) = At(p + 1)
    <3>1. At(p) + off = start + queued
      BY <2>3 DEF At
    <3>2. off < PageSize
      <4>1. start + queued \in Nat
        BY <1>4
      <4> QED  BY <1>7, <4>1, PageAndPlace DEF off
    <3>3. At(p + 1) = start + queued + (PageSize - off)
      BY <1>4, <1>7, <2>3, <3>1
    <3>4. x = IF total - queued < PageSize - off THEN total - queued ELSE PageSize - off
      BY DEF x, Lesser
    <3>5. CASE x = total - queued
      <4>1. total - queued <= PageSize - off \/ total - queued \in Nat
        BY <1>4, <1>5, <2>1
      <4> QED  BY <1>4, <1>5, <2>1, <3>5
    <3>6. CASE x = PageSize - off /\ PageSize - off <= total - queued
      BY <1>4, <1>5, <1>7, <2>3, <3>2, <3>3, <3>6
    <3> QED  BY <1>4, <1>5, <1>7, <2>3, <3>4, <3>5, <3>6
  <2>5. r = [cache |-> FindPage(a.cache, p), iov |-> Append(a.iov, p),
             bytes |-> a.bytes \o Bytes(start + queued, x), ok |-> TRUE]
    <3>1. ~(~a.ok \/ queued >= total \/ ~MoreSegments(a.iov))
      BY <1>9 DEF Ended, queued, total
    <3> QED  BY <1>2, <1>9, <2>3, <3>1
  <2>6. a.bytes \o Bytes(start + queued, x) = Bytes(start, queued + x)
    <3>1. start \in Int
      OBVIOUS
    <3>2. Bytes(start, queued) \o Bytes(start + queued, x) = Bytes(start, queued + x)
      BY <1>4, <2>4, <3>1, BytesJoin
    <3> QED  BY <1>1, <3>2
  <2>7. Bytes(start, queued + x) \in Seq(Cells) /\ Len(Bytes(start, queued + x)) = queued + x
    <3>1. start \in Int /\ queued + x \in Nat
      BY <1>4, <2>4
    <3> QED  BY <3>1, BytesAre
  <2>8. Append(a.iov, p) \in Seq(Nat)
    BY <1>1
  <2>9. /\ r \in [cache : Seq(Nat), iov : Seq(Nat), bytes : Seq(Cells), ok : BOOLEAN]
        /\ r.cache = FindPage(a.cache, p) /\ r.iov = Append(a.iov, p)
        /\ r.bytes = Bytes(start, queued + x)
    BY <1>6, <2>5, <2>6, <2>7, <2>8
  <2>10. r.ok
    BY <2>5
  <2>11. kind = "lru" => InFront(r.iov, r.cache, p + 1)
    <3> SUFFICES ASSUME kind = "lru"
                 PROVE  InFront(Append(a.iov, p), LruTouch(a.cache, p), p + 1)
      BY <2>9 DEF FindPage
    <3>1. a.cache \in Seq(Nat) /\ Len(a.cache) <= CacheSize /\ a.iov \in Seq(Nat)
      BY <1>1 DEF Keeps
    <3>2. InFront(a.iov, a.cache, p)
      BY <1>1
    <3> QED  BY <2>1, <3>1, <3>2, InFrontGrows
  <2>12. Len(r.bytes) = queued + x /\ Len(r.bytes) <= n
    BY <1>4, <1>5, <2>4, <2>7, <2>9
  <2>13. Ended(n, r) \/ start + Len(r.bytes) = StartPos(start, p + 1)
    <3>1. CASE queued + x = total
      <4>1. Len(r.bytes) >= total
        BY <1>5, <2>12, <3>1
      <4> QED  BY <4>1 DEF Ended, total
    <3>2. CASE start + (queued + x) = At(p + 1)
      BY <1>3, <2>12, <3>2
    <3> QED  BY <2>4, <3>1, <3>2
  <2>14. r.bytes = Bytes(start, Len(r.bytes))
    BY <2>9, <2>12
  <2>15. Keeps(r.cache)
    BY <1>6, <2>9
  <2> HIDE DEF r
  <2>16. r \in SegmentsTo(start, n, p + 1)
    BY <2>9, <2>10, <2>11, <2>12, <2>13, <2>14, <2>15 DEF SegmentsTo
  <2> QED  BY <2>16 DEF r
<1>10. CASE ~Ended(n, a) /\ ~Found(a.cache, p)
  <2>1. r = [a EXCEPT !.cache = FindPage(a.cache, p), !.ok = FALSE]
    <3>1. ~(~a.ok \/ queued >= total \/ ~MoreSegments(a.iov))
      BY <1>10 DEF Ended, queued, total
    <3> QED  BY <1>2, <1>10, <3>1
  <2>2. /\ r \in [cache : Seq(Nat), iov : Seq(Nat), bytes : Seq(Cells), ok : BOOLEAN]
        /\ r.cache = FindPage(a.cache, p) /\ r.bytes = a.bytes
    BY <1>1, <1>6, <2>1
  <2>3. ~r.ok
    BY <1>1, <2>1
  <2>4. kind # "lru"
    BY <1>10 DEF Found
  <2>5. Keeps(r.cache) /\ Len(r.bytes) <= n /\ r.bytes = Bytes(start, Len(r.bytes))
    BY <1>1, <1>6, <2>2 DEF queued
  <2>6. Ended(n, r)
    BY <2>3 DEF Ended
  <2> QED  BY <2>2, <2>4, <2>5, <2>6 DEF SegmentsTo, r
<1> QED  BY <1>8, <1>9, <1>10 DEF r

LEMMA SegmentsAre ==
  ASSUME kind \in Kinds, Keeps(cache), available \in Nat,
         NEW start \in Nat, start <= available, NEW n \in Nat
  PROVE  Segments(start, n) \in SegmentsTo(start, n, MaxPage + 1)
<1> DEFINE K == LastFrom(start)
           first == [cache |-> cache, iov |-> <<>>, bytes |-> <<>>, ok |-> TRUE]
           upTo(k) == PageOf(start) + k
           S == [cache : Seq(Nat), iov : Seq(Nat), bytes : Seq(Cells), ok : BOOLEAN]
           J == [k \in 0..K |-> SegmentsTo(start, n, upTo(k))]
           g == [z \in S \X (1..K) |-> AddSegment(start, n, z[1], PageOf(start) + z[2] - 1)]
           W == CHOOSE f : f = [k \in 0..K |-> IF k = 0 THEN first
                                               ELSE AddSegment(start, n, f[k - 1], PageOf(start) + k - 1)]
<1>1. Segments(start, n) = W[K]
  BY Zenon DEF Segments, Walk
<1>2. /\ PageOf(start) \in Nat /\ MaxPage \in Nat /\ K \in Nat \ {0}
      /\ \A k \in 1..K : PageOf(start) + k - 1 \in Nat /\ PageOf(start) + k - 1 <= MaxPage
      /\ PageOf(start) + K = MaxPage + 1
  BY WalkSpan
<1> HIDE DEF K
<1>3. ASSUME NEW k \in 1..K, NEW a \in J[k - 1]
      PROVE  a \in S /\ AddSegment(start, n, a, PageOf(start) + k - 1) \in J[k]
  <2>1. k - 1 \in 0..K /\ k \in 0..K /\ upTo(k - 1) = PageOf(start) + k - 1 /\ upTo(k) = (PageOf(start) + k - 1) + 1
    BY <1>2
  <2>2. a \in SegmentsTo(start, n, PageOf(start) + k - 1) /\ J[k] = SegmentsTo(start, n, (PageOf(start) + k - 1) + 1)
    BY <2>1
  <2>3. PageOf(start) + k - 1 \in Nat /\ PageOf(start) <= PageOf(start) + k - 1 /\ PageOf(start) + k - 1 <= MaxPage
    BY <1>2
  <2> HIDE DEF J
  <2>4. AddSegment(start, n, a, PageOf(start) + k - 1) \in J[k]
    BY <1>2, <2>2, <2>3, AddSegmentAdds
  <2>5. a \in S
    BY <2>2 DEF SegmentsTo
  <2> QED  BY <2>4, <2>5
<1>4. first \in J[0]
  <2>1. /\ first \in S /\ first.bytes = <<>> /\ Len(first.bytes) = 0 /\ first.cache = cache
        /\ first.iov = <<>>
    BY DEF Keeps
  <2>2. first.ok
    OBVIOUS
  <2>3. StartPos(start, PageOf(start)) = start
    <3>1. At(PageOf(start)) <= start /\ At(PageOf(start)) \in Int
      BY <1>2, PageSpan, AtType
    <3>2. StartPos(start, PageOf(start)) = Greater(start, At(PageOf(start)))
      BY DEF StartPos, At
    <3> QED  BY <3>1, <3>2 DEF Greater
  <2>4. Bytes(start, 0) = <<>>
    <3>1. start \in Int /\ 0 \in Nat
      OBVIOUS
    <3>2. Bytes(start, 0) \in Seq(Cells) /\ Len(Bytes(start, 0)) = 0
      BY <3>1, BytesAre
    <3> QED  BY <3>2, EmptySeq
  <2>5. InFront(<<>>, cache, PageOf(start))
    <3>1. Len(cache) \in Nat /\ CacheSize \in Nat
      BY LenProperties, SizesAssumption DEF Keeps
    <3>2. Len(<<>>) = 0 /\ 1..0 = {}
      OBVIOUS
    <3> QED  BY <3>1, <3>2 DEF InFront
  <2>6. J[0] = SegmentsTo(start, n, PageOf(start))
    <3>1. 0 \in 0..K /\ PageOf(start) + 0 = PageOf(start)
      BY <1>2
    <3> QED  BY <3>1
  <2>7. 0 <= n /\ start + 0 = start
    OBVIOUS
  <2> HIDE DEF first, J
  <2>8. first \in SegmentsTo(start, n, PageOf(start))
    BY <2>1, <2>2, <2>3, <2>4, <2>5, <2>7 DEF SegmentsTo
  <2> QED  BY <2>6, <2>8
<1>5. \A k \in 1..K : \A a \in J[k - 1] :
        g[<<a, k>>] = AddSegment(start, n, a, PageOf(start) + k - 1) /\ g[<<a, k>>] \in J[k]
  <2> SUFFICES ASSUME NEW k \in 1..K, NEW a \in J[k - 1]
               PROVE  g[<<a, k>>] = AddSegment(start, n, a, PageOf(start) + k - 1) /\ g[<<a, k>>] \in J[k]
    OBVIOUS
  <2>1. <<a, k>> \in S \X (1..K)
    BY <1>3
  <2>2. g[<<a, k>>] = AddSegment(start, n, a, PageOf(start) + k - 1)
    <3> HIDE DEF S
    <3> QED  BY <2>1
  <2> QED  BY <1>3, <2>2
<1> HIDE DEF g, J, first, S
<1>6. PICK f : /\ f = [k \in 0..K |-> IF k = 0 THEN first ELSE g[<<f[k - 1], k>>]]
               /\ \A k \in 0..K : f[k] \in J[k]
  <2>1. \A k \in 1..K : \A a \in J[k - 1] : g[<<a, k>>] \in J[k]
    BY <1>5
  <2>2. K \in Nat
    BY <1>2
  <2>3. \E f : StepsBy(f, K, first, g) /\ \A k \in 0..K : f[k] \in J[k]
    BY <1>4, <2>1, <2>2, Stepwise
  <2> QED  BY <2>3 DEF StepsBy
<1>7. f = [k \in 0..K |-> IF k = 0 THEN first ELSE AddSegment(start, n, f[k - 1], PageOf(start) + k - 1)]
  <2>1. \A k \in 0..K : k # 0 => k \in 1..K /\ k - 1 \in 0..K
    BY <1>2
  <2>2. \A k \in 0..K : (IF k = 0 THEN first ELSE g[<<f[k - 1], k>>])
                        = (IF k = 0 THEN first ELSE AddSegment(start, n, f[k - 1], PageOf(start) + k - 1))
    BY <1>5, <1>6, <2>1
  <2> QED  BY <1>6, <2>2
<1>8. W = [k \in 0..K |-> IF k = 0 THEN first ELSE AddSegment(start, n, W[k - 1], PageOf(start) + k - 1)]
  BY <1>7
<1> HIDE DEF W
<1>9. \A k \in 0..K : W[k] \in J[k]
  <2> DEFINE T == {k \in 0..K : W[k] \in J[k]}
  <2>1. 0 \in T
    <3>1. 0 \in 0..K
      BY <1>2
    <3>2. W[0] = first
      BY <1>8, <3>1
    <3> QED  BY <1>4, <3>1, <3>2
  <2>2. ASSUME NEW k \in 1..K, k - 1 \in T
        PROVE  k \in T
    <3>1. k \in 0..K /\ k # 0
      BY <1>2
    <3>2. W[k] = AddSegment(start, n, W[k - 1], PageOf(start) + k - 1)
      BY <1>8, <3>1
    <3>3. W[k - 1] \in J[k - 1]
      BY <2>2
    <3> QED  BY <1>3, <3>1, <3>2, <3>3
  <2> HIDE DEF T
  <2>3. \A k \in 0..K : k \in T
    BY <1>2, <2>1, <2>2, ByOne
  <2> QED  BY <2>3 DEF T
<1>10. W[K] \in J[K] /\ J[K] = SegmentsTo(start, n, MaxPage + 1)
  <2>1. K \in 0..K
    BY <1>2
  <2>2. J[K] = SegmentsTo(start, n, PageOf(start) + K)
    BY <2>1 DEF J
  <2> QED  BY <1>2, <1>9, <2>1, <2>2
<1> QED  BY <1>1, <1>10


(* The segments hold the bytes from start on, in order, and an LRUCache    *)
(* unmaps none of their pages while they are collected.                    *)
LEMMA SegmentsHold ==
  ASSUME kind \in Kinds, Keeps(cache), available \in Nat,
         NEW start \in Nat, start <= available, NEW n \in Nat
  PROVE  LET r == Segments(start, n)
         IN  /\ Keeps(r.cache) /\ Len(r.bytes) \in 0..n
             /\ r.bytes = Bytes(start, Len(r.bytes))
             /\ kind = "lru" => r.ok /\ Mapped(r)
<1> DEFINE r == Segments(start, n)
<1>1. r \in SegmentsTo(start, n, MaxPage + 1)
  BY SegmentsAre
<1> HIDE DEF r
<1>2. /\ r \in [cache : Seq(Nat), iov : Seq(Nat), bytes : Seq(Cells), ok : BOOLEAN]
      /\ Keeps(r.cache) /\ Len(r.bytes) <= n
      /\ r.bytes = Bytes(start, Len(r.bytes))
      /\ kind = "lru" => r.ok /\ InFront(r.iov, r.cache, MaxPage + 1)
  BY <1>1 DEF SegmentsTo
<1>3. Len(r.bytes) \in 0..n
  BY <1>2, LenProperties
<1>4. ASSUME kind = "lru"
      PROVE  Mapped(r)
  <2>1. InFront(r.iov, r.cache, MaxPage + 1)
    BY <1>2, <1>4
  <2>2. /\ DOMAIN r.iov = 1..Len(r.iov) /\ DOMAIN r.cache = 1..Len(r.cache)
        /\ Len(r.iov) \in Nat /\ Len(r.cache) \in Nat
    BY <1>2, LenProperties
  <2>3. ASSUME NEW i \in DOMAIN r.iov
        PROVE  \E j \in DOMAIN r.cache : r.cache[j] = r.iov[i]
    <3>1. PICK j \in 1..Len(r.iov) : j = Len(r.iov) + 1 - i
      BY <2>2
    <3>2. Len(r.iov) + 1 - j = i /\ j \in DOMAIN r.cache
      BY <2>1, <2>2, <3>1 DEF InFront
    <3>3. r.cache[j] = r.iov[Len(r.iov) + 1 - j]
      BY <2>1 DEF InFront
    <3> QED  BY <3>2, <3>3
  <2> QED  BY <2>3 DEF Mapped
<1> QED  BY <1>2, <1>3, <1>4 DEF r

-----------------------------------------------------------------------------
(* The inductive invariant of the readers, above IInv. *)

(* Nothing is written behind the file, nor behind the write position       *)
(* unless a Push failed half way.                                          *)
Blank ==
  /\ page # Nowhere => page < size
  /\ \A o \in Offsets : At(size) <= o => mem[o] = NoByte
  /\ mishaps \cap {"torn", "moved"} = {} => \A o \in Offsets : WritePos <= o => mem[o] = NoByte

(* The LRUCache has its limit and lacks no page; the OneShotCache has the  *)
(* page that is written to.                                                *)
CacheHolds ==
  /\ kind \in Kinds /\ cache \in Seq(Nat)
  /\ kind = "lru" => Len(cache) <= CacheSize /\ mishaps \cap {"unmapped", "skipped"} = {}
  /\ kind = "oneShot" /\ page # Nowhere /\ pos < PageSize => Has(cache, page)

(* A subscriber has the bytes from since up to its position. *)
Received(r) ==
  /\ Len(stream[r]) \in Nat
  /\ stream[r] = Bytes(since[r], Len(stream[r]))
  /\ since[r] + Len(stream[r]) = cursor[r]

Positions ==
  /\ cursor \in [Readers -> Nat \cup {Nowhere}] /\ since \in [Readers -> Nat]
  /\ DOMAIN stream = Readers
  /\ \A r \in Readers : cursor[r] <= available
  /\ mishaps \cap {"torn", "skipped", "moved"} = {} =>
       \A r \in Readers : cursor[r] # Nowhere => Received(r)

RInv == Blank /\ CacheHolds /\ Positions

-----------------------------------------------------------------------------
(* Writing. *)

LEMMA WriteBlank ==
  ASSUME Shape, Blank, NEW n \in Nat, NEW k \in Nat, Fits(n, k), WriteBytes(n, k),
         mishaps \subseteq mishaps', Again(k) \subseteq mishaps'
  PROVE  Blank'
<1> DEFINE here == page * PageSize + pos
           there == next * PageSize
           fits == Lesser(n, Room)
<1>1. /\ page' = IF k = 0 THEN page ELSE next + k - 1
      /\ size' = IF k = 0 THEN size ELSE next + k
  BY DEF WriteBytes, AllocatePages
<1>2. \A o \in Offsets : mem'[o] =
        IF o \in there .. there + (n - fits) - 1 THEN sent + fits + 1 + (o - there)
        ELSE IF o \in here .. here + fits - 1 THEN sent + 1 + (o - here)
        ELSE IF k > 0 /\ o >= there + PageSize THEN NoByte
        ELSE mem[o]
  BY DEF WriteBytes, Stored
<1>3. there = At(next) /\ there \in Nat /\ here = At(page) + pos /\ here \in Int
  BY Numbers DEF At
<1> HIDE DEF here, there
<1>4. /\ WritePos \in Nat /\ Room \in 0..PageSize /\ PageSize \in Nat \ {0} /\ next \in Nat /\ page \in Int
      /\ size \in Nat /\ pos \in Nat
      /\ Room = IF page = Nowhere THEN 0 ELSE PageSize - pos
      /\ \A o \in Offsets : o \in Nat
  BY WritePosType, Numbers DEF Offsets
<1>5. fits \in 0..n /\ fits <= Room /\ (fits = n \/ fits = Room) /\ (n <= Room => fits = n) /\ (n >= Room => fits = Room)
  BY <1>4 DEF Lesser
<1> HIDE DEF fits
<1>6. /\ page # Nowhere => here = WritePos /\ here + Room = At(page + 1)
      /\ page = Nowhere => fits = 0
  <2>1. At(page + 1) = At(page) + PageSize /\ At(page) \in Int
    BY <1>4, AtNextPage, AtType
  <2> QED  BY <1>3, <1>4, <1>5, <2>1 DEF WritePos
<1>7. page' # Nowhere => page' < size'
  BY <1>1, <1>4 DEF Blank
<1>8. ASSUME NEW o \in Offsets, At(size') <= o
      PROVE  mem'[o] = NoByte
  <2>1. CASE k = 0
    <3>1. fits = n
      BY <1>4, <1>5, <2>1 DEF Fits
    <3>2. ~(o \in there .. there + (n - fits) - 1)
      BY <1>3, <1>4, <3>1
    <3>3. size' = size /\ mem[o] = NoByte
      BY <1>1, <1>8, <2>1 DEF Blank
    <3>4. ~(o \in here .. here + fits - 1)
      <4>1. page # Nowhere => At(page + 1) <= At(size) /\ At(page + 1) \in Int /\ At(size) \in Int
        <5>1. page # Nowhere => page + 1 <= size
          BY <1>4 DEF Blank
        <5>2. page + 1 \in Int /\ size \in Int
          BY <1>4
        <5> QED  BY <5>1, <5>2, AtOrder, AtType
      <4> QED  BY <1>3, <1>4, <1>5, <1>6, <1>8, <3>3, <4>1
    <3> QED  BY <1>2, <2>1, <3>2, <3>3, <3>4
  <2>2. CASE k # 0
    <3>1. fits = Room /\ n - Room - At(k - 1) \in 0..PageSize
      BY <1>4, <1>5, <2>2 DEF Fits
    <3>2. size' = next + k
      BY <1>1, <2>2
    <3>3. /\ At(next + k) = At(next) + At(k - 1) + PageSize /\ At(k - 1) \in Nat
      <4>1. next \in Int /\ k - 1 \in Int /\ k - 1 >= 0 /\ (k - 1) + 1 = k /\ k \in Int
        BY <1>4, <2>2
      <4>2. At(next + k) = At(next) + At(k) /\ At(k) = At(k - 1) + PageSize /\ At(k - 1) \in Nat
        BY <4>1, AtSum, AtNextPage, AtType
      <4>3. At(next) \in Int
        BY <4>1, AtType
      <4> QED  BY <1>4, <4>2, <4>3
    <3>4. o >= there + At(k - 1) + PageSize /\ o \in Nat
      BY <1>3, <1>4, <1>8, <3>2, <3>3
    <3>5. ~(o \in there .. there + (n - fits) - 1)
      BY <1>3, <1>4, <3>1, <3>3, <3>4
    <3>6. k > 0 /\ o >= there + PageSize
      BY <1>3, <1>4, <2>2, <3>3, <3>4
    <3>7. ~(o \in here .. here + fits - 1)
      <4>1. page # Nowhere => At(page + 1) <= At(next + k) /\ At(page + 1) \in Int /\ At(next + k) \in Int
        <5>1. page # Nowhere => page + 1 <= next + k
          BY <1>4, <2>2 DEF Shape
        <5>2. page + 1 \in Int /\ next + k \in Int
          BY <1>4
        <5> QED  BY <5>1, <5>2, AtOrder, AtType
      <4> QED  BY <1>3, <1>4, <1>5, <1>6, <1>8, <3>1, <3>2, <4>1
    <3> QED  BY <1>2, <3>5, <3>6, <3>7
  <2> QED  BY <2>1, <2>2
<1>9. ASSUME mishaps' \cap {"torn", "moved"} = {}, NEW o \in Offsets, WritePos' <= o
      PROVE  mem'[o] = NoByte
  <2>1. Again(k) = {} /\ mishaps \cap {"torn", "moved"} = {}
    BY <1>9 DEF Again
  <2>2. WritePos' = WritePos + n
    BY <2>1, WriteMoves
  <2>3. mem[o] = NoByte /\ WritePos + n <= o /\ o \in Nat
    BY <1>4, <1>9, <2>1, <2>2 DEF Blank
  <2>4. ~(o \in here .. here + fits - 1)
    BY <1>3, <1>4, <1>5, <1>6, <2>3
  <2>5. ~(o \in there .. there + (n - fits) - 1)
    <3>1. CASE k = 0
      <4>1. fits = n
        BY <1>4, <1>5, <3>1 DEF Fits
      <4> QED  BY <1>3, <1>4, <4>1
    <3>2. CASE k # 0
      <4>1. fits = Room /\ next # page
        BY <1>4, <1>5, <2>1, <3>2 DEF Fits, Again
      <4>2. there = WritePos + Room
        BY <1>3, <3>2, <4>1, PagesFollow
      <4> QED  BY <1>3, <1>4, <2>3, <4>1, <4>2
    <3> QED  BY <3>1, <3>2
  <2> QED  BY <1>2, <2>3, <2>4, <2>5
<1> QED  BY <1>7, <1>8, <1>9 DEF Blank, At, Offsets, WritePos

LEMMA WriteCache ==
  ASSUME Shape, CacheHolds, NEW n \in Nat, NEW k \in Nat, Fits(n, k), WriteBytes(n, k), kind' = kind,
         mishaps' \subseteq mishaps \cup {"torn", "moved"}
  PROVE  CacheHolds'
<1>1. /\ page' = IF k = 0 THEN page ELSE next + k - 1
      /\ pos' = IF k = 0 THEN pos + n ELSE n - Room - (k - 1) * PageSize
      /\ cache' = IF kind = "lru" THEN cache ELSE cache \o [i \in 1..k |-> next + i - 1]
  BY DEF WriteBytes, AllocatePages
<1>2. next \in Nat /\ pos \in Nat /\ PageSize \in Nat
  BY Numbers
<1>3. CASE kind = "lru"
  BY <1>1, <1>3 DEF CacheHolds
<1>4. CASE kind = "oneShot"
  <2> DEFINE new == [i \in 1..k |-> next + i - 1]
  <2>1. new \in Seq(Nat) /\ Len(new) = k /\ \A i \in 1..k : new[i] = next + i - 1
    <3>1. \A i \in 1..k : next + i - 1 \in Nat
      BY <1>2
    <3>2. new \in [1..k -> Nat]
      BY <3>1
    <3>3. new \in Seq(Nat)
      BY <3>2, SeqDef
    <3> QED  BY <3>2, <3>3, LenProperties
  <2> HIDE DEF new
  <2>2. cache' = cache \o new /\ cache \in Seq(Nat)
    BY <1>1, <1>4 DEF CacheHolds, new
  <2>3. /\ cache' \in Seq(Nat) /\ Len(cache') = Len(cache) + k /\ Len(cache) \in Nat
        /\ \A i \in 1 .. Len(cache) + k : cache'[i] = IF i <= Len(cache) THEN cache[i] ELSE new[i - Len(cache)]
    BY <2>1, <2>2, ConcatProperties, LenProperties
  <2>4. DOMAIN cache' = 1 .. Len(cache) + k /\ DOMAIN cache = 1..Len(cache)
    BY <2>2, <2>3, LenProperties
  <2>5. ASSUME page' # Nowhere, pos' < PageSize
        PROVE  Has(cache', page')
    <3>1. CASE k = 0
      <4>1. page' = page /\ pos < PageSize
        BY <1>1, <1>2, <2>5, <3>1
      <4>2. PICK i \in DOMAIN cache : cache[i] = page
        BY <1>4, <2>5, <4>1 DEF CacheHolds, Has
      <4>3. i \in DOMAIN cache' /\ cache'[i] = page
        BY <2>3, <2>4, <4>2
      <4> QED  BY <4>1, <4>3 DEF Has
    <3>2. CASE k # 0
      <4>1. page' = next + k - 1
        BY <1>1, <3>2
      <4>2. PICK i \in 1 .. Len(cache) + k : i = Len(cache) + k
        BY <2>3, <3>2
      <4>3. ~(i <= Len(cache)) /\ i - Len(cache) = k /\ k \in 1..k
        BY <2>3, <3>2, <4>2
      <4>4. cache'[i] = new[k]
        BY <2>3, <4>3
      <4> QED  BY <2>1, <2>4, <4>1, <4>3, <4>4 DEF Has
    <3> QED  BY <3>1, <3>2
  <2>6. kind' = "oneShot" /\ kind' \in Kinds
    BY <1>4 DEF CacheHolds
  <2> QED  BY <2>3, <2>5, <2>6 DEF CacheHolds, Has
<1> QED  BY <1>3, <1>4, KindsAssumption DEF CacheHolds

(* The bytes that a subscriber has stay as they are. *)
LEMMA PositionsStay ==
  ASSUME IInv, Positions, "moved" \notin mishaps, UNCHANGED readers,
         available' \in Nat, available <= available', mishaps \subseteq mishaps',
         \A r \in Readers : cursor[r] # Nowhere =>
           \A o \in 0 .. available - 1 : o < cursor[r] => mem'[o] = mem[o]
  PROVE  Positions'
<1>1. UNCHANGED <<cursor, since, stream>>
  BY DEF readers
<1>2. available \in Nat /\ Nowhere = -1
  BY Numbers DEF IInv
<1>3. ASSUME NEW r \in Readers
      PROVE  cursor'[r] <= available'
  <2>1. cursor[r] \in Nat \cup {Nowhere} /\ cursor[r] <= available
    BY DEF Positions
  <2> QED  BY <1>1, <1>2, <2>1
<1>4. ASSUME mishaps' \cap {"torn", "skipped", "moved"} = {}, NEW r \in Readers, cursor'[r] # Nowhere
      PROVE  Received(r)'
  <2>1. Received(r) /\ cursor[r] \in Nat /\ since[r] \in Nat /\ cursor[r] <= available
    BY <1>1, <1>4 DEF Positions
  <2> DEFINE l == Len(stream[r])
             s == since[r]
  <2>2. l \in Nat /\ stream[r] = Bytes(s, l) /\ s + l = cursor[r] /\ s \in Nat
    BY <2>1 DEF Received
  <2>3. Bytes(s, l) = [i \in 1..l |-> mem[s + i - 1]]
    BY DEF Bytes
  <2>4. (Bytes(s, l))' = [i \in 1..l |-> mem'[s + i - 1]]
    BY <1>1 DEF Bytes
  <2> HIDE DEF l, s
  <2>5. ASSUME NEW i \in 1..l
        PROVE  mem'[s + i - 1] = mem[s + i - 1]
    <3>1. s + i - 1 \in 0 .. available - 1 /\ s + i - 1 < cursor[r]
      BY <1>2, <2>1, <2>2
    <3> QED  BY <1>1, <1>4, <3>1
  <2>6. (Bytes(s, l))' = Bytes(s, l)
    BY <2>3, <2>4, <2>5
  <2>7. s' = s /\ l' = l
    BY <1>1 DEF s, l
  <2>8. (stream[r] = Bytes(s, l))'
    BY <1>1, <2>2, <2>6
  <2> QED  BY <1>1, <2>2, <2>8 DEF Received, s, l
<1> QED  BY <1>1, <1>3, <1>4 DEF Positions

LEMMA WritePositions ==
  ASSUME IInv, Positions, "moved" \notin mishaps, NEW n \in Nat, NEW k \in Nat, Fits(n, k), WriteBytes(n, k),
         UNCHANGED readers, available' \in {available, available + n},
         mishaps \subseteq mishaps', Again(k) \subseteq mishaps'
  PROVE  Positions'
<1>1. available \in Nat
  BY Numbers DEF IInv
<1>2. available' \in Nat /\ available <= available'
  BY <1>1
<1>3. CASE Again(k) = {}
  <2>1. ASSUME NEW o \in 0 .. available - 1
        PROVE  mem'[o] = mem[o]
    <3>1. o \in Offsets /\ o < WritePos
      BY BytesBelow
    <3> QED  BY <1>3, <3>1, WriteLands DEF IInv
  <2> QED  BY <1>2, <2>1, PositionsStay
<1>4. CASE Again(k) # {}
  <2>1. "moved" \in mishaps'
    BY <1>4 DEF Again
  <2>2. UNCHANGED <<cursor, since, stream>>
    BY DEF readers
  <2>3. ASSUME NEW r \in Readers
        PROVE  cursor'[r] <= available'
    <3>1. cursor[r] \in Nat \cup {Nowhere} /\ cursor[r] <= available /\ Nowhere = -1
      BY DEF Positions, Nowhere
    <3> QED  BY <1>1, <1>2, <2>2, <3>1
  <2> QED  BY <2>1, <2>2, <2>3 DEF Positions
<1> QED  BY <1>3, <1>4

LEMMA WriteReads ==
  ASSUME IInv, RInv, "moved" \notin mishaps, NEW n \in Nat, NEW k \in Nat, Fits(n, k), WriteBytes(n, k),
         kind' = kind, UNCHANGED readers, available' \in {available, available + n},
         mishaps \subseteq mishaps', Again(k) \subseteq mishaps', mishaps' \subseteq mishaps \cup {"torn", "moved"}
  PROVE  RInv'
<1>1. Blank'
  BY WriteBlank DEF IInv, RInv
<1>2. CacheHolds'
  BY WriteCache DEF IInv, RInv
<1>3. Positions'
  BY WritePositions DEF RInv
<1> QED  BY <1>1, <1>2, <1>3 DEF RInv

LEMMA PushReads ==
  ASSUME IInv, RInv, "moved" \notin mishaps, NEW n \in Nat,
         Push(n) \/ \E j \in Nat : PushFails(n, j)
  PROVE  RInv'
<1>1. Shape
  BY DEF IInv
<1>2. CASE Push(n)
  <2>1. PagesFor(n) \in Nat /\ Fits(n, PagesFor(n))
    BY <1>1, PushFits
  <2>2. /\ WriteBytes(n, PagesFor(n)) /\ available' = available + n
        /\ mishaps' = mishaps \cup Again(PagesFor(n)) /\ kind' = kind /\ UNCHANGED readers
    BY <1>2 DEF Push, Accept
  <2>3. mishaps' \subseteq mishaps \cup {"torn", "moved"}
    BY <2>2 DEF Again
  <2> QED  BY <2>1, <2>2, <2>3, WriteReads
<1>3. ASSUME NEW j \in Nat, PushFails(n, j)
      PROVE  RInv'
  <2> DEFINE fit == Room + j * PageSize
  <2>1. fit \in Nat /\ Fits(fit, j)
    BY <1>1, FullFits
  <2>2. /\ WriteBytes(fit, j) /\ available' = available /\ kind' = kind /\ UNCHANGED readers
        /\ mishaps' = mishaps \cup Again(j) \cup (IF fit > 0 THEN {"torn"} ELSE {})
    BY <1>3 DEF PushFails
  <2> HIDE DEF fit
  <2>3. mishaps \subseteq mishaps' /\ Again(j) \subseteq mishaps' /\ mishaps' \subseteq mishaps \cup {"torn", "moved"}
    BY <2>2 DEF Again
  <2> QED  BY <2>1, <2>2, <2>3, WriteReads
<1> QED  BY <1>2, <1>3

LEMMA ReadvReads ==
  ASSUME IInv, RInv, "moved" \notin mishaps, NEW n \in Nat, Readv(n) \/ ZeroCopyWrite(n)
  PROVE  RInv'
<1>1. /\ n <= SpaceLeft /\ WriteBytes(n, PagesFor(1)) /\ available' = available + n
      /\ mishaps' = mishaps \cup Again(PagesFor(1)) /\ kind' = kind /\ UNCHANGED readers
  BY DEF Readv, Accept, ZeroCopyWrite, Kept
<1>2. PagesFor(1) \in Nat /\ Fits(n, PagesFor(1))
  BY <1>1, SpaceFits DEF IInv
<1>3. mishaps' \subseteq mishaps \cup {"torn", "moved"}
  BY <1>1 DEF Again
<1> QED  BY <1>1, <1>2, <1>3, WriteReads

(* A store that counts no byte twice has its write position in the file. *)
LEMMA WriteInFile ==
  ASSUME Shape, Blank
  PROVE  WritePos <= At(size)
<1>1. CASE page = Nowhere
  <2>1. next = size /\ At(size) \in Int
    BY <1>1, Numbers, AtType DEF Shape
  <2> QED  BY <1>1, <2>1 DEF WritePos
<1>2. CASE page # Nowhere
  <2>1. page \in Nat /\ size \in Nat /\ page + 1 <= size /\ pos \in 0..PageSize /\ PageSize \in Nat
    BY <1>2, Numbers DEF Blank, Shape
  <2>2. At(page + 1) <= At(size) /\ At(page + 1) = At(page) + PageSize /\ At(page) \in Int /\ At(size) \in Int
    <3>1. page \in Int /\ page + 1 \in Int /\ size \in Int
      BY <2>1
    <3> QED  BY <2>1, <3>1, AtOrder, AtNextPage, AtType
  <2>3. WritePos = At(page) + pos
    BY <1>2 DEF WritePos
  <2> QED  BY <2>1, <2>2, <2>3
<1> QED  BY <1>1, <1>2

LEMMA UnmaskReads ==
  ASSUME IInv, RInv, "moved" \notin mishaps, NEW start \in Nat, NEW n \in Nat, Unmask(start, n)
  PROVE  RInv'
<1>1. /\ mem' = Unmasked(start, n) /\ kind = "oneShot" /\ start + n <= available
      /\ \A r \in Readers : cursor[r] # Nowhere => cursor[r] <= start
      /\ UNCHANGED <<kind, size, page, pos, next, available, cache, readers, mishaps>>
  BY DEF Unmask
<1>2. Shape /\ Blank /\ CacheHolds /\ Positions /\ available <= WritePos
  BY DEF IInv, RInv, Behind
<1>3. /\ available \in Nat /\ WritePos \in Nat /\ WritePos <= At(size) /\ At(size) \in Int
  BY <1>2, Numbers, WritePosType, WriteInFile, AtType
<1>4. ASSUME NEW o \in Offsets, ~(o \in start .. start + n - 1)
      PROVE  mem'[o] = mem[o]
  BY <1>1, <1>4, UnmaskedIs
<1>5. WritePos' = WritePos /\ At(size)' = At(size)
  BY <1>1 DEF WritePos, At
<1>6. Blank'
  <2>1. \A o \in Offsets : WritePos <= o => mem'[o] = mem[o]
    <3> SUFFICES ASSUME NEW o \in Offsets, WritePos <= o
                 PROVE  mem'[o] = mem[o]
      OBVIOUS
    <3>1. o \in Nat
      BY DEF Offsets
    <3>2. ~(o \in start .. start + n - 1)
      BY <1>1, <1>2, <1>3, <3>1
    <3> QED  BY <1>4, <3>2
  <2>2. \A o \in Offsets : At(size) <= o => mem'[o] = mem[o]
    <3> SUFFICES ASSUME NEW o \in Offsets, At(size) <= o
                 PROVE  mem'[o] = mem[o]
      OBVIOUS
    <3>1. o \in Nat
      BY DEF Offsets
    <3>2. WritePos <= o
      BY <1>3, <3>1
    <3> QED  BY <2>1, <3>2
  <2>3. /\ page' # Nowhere => page' < size'
        /\ \A o \in Offsets : At(size) <= o => mem'[o] = NoByte
        /\ mishaps \cap {"torn", "moved"} = {} => \A o \in Offsets : WritePos <= o => mem'[o] = NoByte
    BY <1>1, <1>2, <2>1, <2>2 DEF Blank
  <2>4. Offsets' = Offsets
    BY DEF Offsets
  <2> QED  BY <1>1, <1>5, <2>3, <2>4 DEF Blank
<1>7. CacheHolds'
  BY <1>1, <1>2 DEF CacheHolds, Has
<1>8. Positions'
  <2>1. ASSUME NEW r \in Readers, cursor[r] # Nowhere, NEW o \in 0 .. available - 1, o < cursor[r]
        PROVE  mem'[o] = mem[o]
    <3>1. cursor[r] <= start /\ cursor[r] \in Nat
      BY <1>1, <1>2, <2>1 DEF Positions
    <3>2. ~(o \in start .. start + n - 1)
      BY <1>3, <2>1, <3>1
    <3>3. o \in Offsets
      BY BytesBelow
    <3> QED  BY <1>4, <3>2, <3>3
  <2>2. available' \in Nat /\ available <= available' /\ mishaps \subseteq mishaps' /\ UNCHANGED readers
    BY <1>1, <1>3
  <2> QED  BY <1>2, <2>1, <2>2, PositionsStay
<1> QED  BY <1>6, <1>7, <1>8 DEF RInv

LEMMA SetPositionReads ==
  ASSUME IInv, RInv, "moved" \notin mishaps, SetPosition(available)
  PROVE  RInv'
<1> DEFINE to == PageOf(available)
<1>1. /\ size' = Greater(size, to + 1) /\ page' = to
      /\ pos' = available % PageSize
      /\ cache' = IF kind = "lru" THEN cache ELSE Append(cache, to)
      /\ mishaps' = IF kind = "oneShot" /\ cache # <<>> /\ Last(cache) >= to
                    THEN mishaps \cup {"moved"} ELSE mishaps
      /\ UNCHANGED <<kind, mem, available, readers>>
  BY DEF SetPosition
<1>2. Shape /\ Recorded /\ Blank /\ CacheHolds /\ Positions
  BY DEF IInv, RInv
<1>3. available \in Nat /\ size \in Nat
  BY <1>2, Numbers
<1>4. to \in Nat /\ available = At(to) + (available % PageSize)
  BY <1>3, PageAndPlace
<1> HIDE DEF to
<1>5. mishaps \subseteq mishaps' /\ mishaps' \subseteq mishaps \cup {"moved"}
  BY <1>1
<1>6. Blank'
  <2>1. page' < size' /\ size' \in Nat /\ size <= size'
    BY <1>1, <1>3, <1>4 DEF Greater
  <2>2. At(size) <= At(size') /\ At(size) \in Int /\ At(size') \in Int
    BY <1>3, <2>1, AtOrder, AtType
  <2>3. \A o \in Offsets : At(size') <= o => mem'[o] = NoByte
    <3>1. \A o \in Offsets : At(size') <= o => At(size) <= o
      BY <2>2 DEF Offsets
    <3> QED  BY <1>1, <1>2, <3>1 DEF Blank
  <2>4. mishaps' \cap {"torn", "moved"} = {} => WritePos' = WritePos
    <3>1. page' # Nowhere
      BY <1>1, <1>4 DEF Nowhere
    <3>2. WritePos' = At(to) + (available % PageSize)
      BY <1>1, <3>1 DEF WritePos, At
    <3>3. mishaps' \cap {"torn", "moved"} = {} => available = WritePos
      BY <1>2, <1>5 DEF Recorded, Holds
    <3> QED  BY <1>4, <3>2, <3>3
  <2>5. mishaps' \cap {"torn", "moved"} = {} => \A o \in Offsets : WritePos' <= o => mem'[o] = NoByte
    BY <1>1, <1>2, <1>5, <2>4 DEF Blank
  <2> QED  BY <2>1, <2>3, <2>5 DEF Blank, At, Offsets, WritePos
<1>7. CacheHolds'
  <2>1. CASE kind = "lru"
    BY <1>1, <1>2, <1>5, <2>1 DEF CacheHolds
  <2>2. CASE kind = "oneShot"
    <3>1. cache' = Append(cache, to) /\ cache \in Seq(Nat)
      BY <1>1, <1>2, <2>2 DEF CacheHolds
    <3>2. cache' \in Seq(Nat) /\ Len(cache') = Len(cache) + 1 /\ cache'[Len(cache) + 1] = to
      BY <1>4, <3>1, AppendProperties
    <3>3. Len(cache) + 1 \in DOMAIN cache'
      BY <3>1, <3>2, LenProperties
    <3>4. Has(cache', page')
      BY <1>1, <3>2, <3>3 DEF Has
    <3> QED  BY <1>1, <1>2, <2>2, <3>2, <3>4 DEF CacheHolds, Has
  <2> QED  BY <1>2, <2>1, <2>2, KindsAssumption DEF CacheHolds
<1>8. Positions'
  BY <1>1, <1>2, <1>3, <1>5, PositionsStay
<1> QED  BY <1>6, <1>7, <1>8 DEF RInv

LEMMA ReopenReads ==
  ASSUME IInv, RInv, Reopen
  PROVE  RInv'
<1>1. /\ kind = "lru" /\ page' = Nowhere /\ next' = size /\ size' = size /\ mem' = mem /\ kind' = kind
      /\ available' = At(size) /\ cache' = <<>> /\ mishaps' = {}
      /\ cursor' = [r \in Readers |-> Nowhere]
      /\ since' = [r \in Readers |-> 0]
      /\ stream' = [r \in Readers |-> <<>>]
  BY DEF Reopen, At
<1>2. Blank'
  <2>1. WritePos' = At(size)
    BY <1>1 DEF WritePos, At
  <2> QED  BY <1>1, <2>1 DEF RInv, Blank, At, Offsets
<1>3. CacheHolds'
  <2>1. cache' \in Seq(Nat) /\ Len(cache') = 0 /\ 0 <= CacheSize
    BY <1>1, SizesAssumption
  <2> QED  BY <1>1, <2>1 DEF RInv, CacheHolds
<1>4. Positions'
  <2>1. available' \in Nat
    <3>1. size \in Int /\ size >= 0
      BY Numbers DEF IInv
    <3> QED  BY <1>1, <3>1, AtType
  <2>2. \A r \in Readers : cursor'[r] = Nowhere /\ Nowhere <= available'
    BY <1>1, <2>1 DEF Nowhere
  <2> QED  BY <1>1, <2>2 DEF Positions
<1> QED  BY <1>2, <1>3, <1>4 DEF RInv

LEMMA PlaceReads ==
  ASSUME IInv, RInv, Place
  PROVE  RInv'
<1>1. PICK r \in Readers, offset \in {0, available, Nowhere} : MoveTo(r, offset)
  BY DEF Place, Register, Mark, Unregister
<1>2. /\ cursor' = [cursor EXCEPT ![r] = offset]
      /\ since' = [since EXCEPT ![r] = Greater(offset, 0)]
      /\ stream' = [stream EXCEPT ![r] = <<>>]
      /\ UNCHANGED <<kind, writer, cache, mishaps>>
  BY <1>1 DEF MoveTo
<1>3. UNCHANGED <<kind, mem, size, page, pos, next, available, cache, mishaps>>
  BY <1>2 DEF writer
<1>4. Blank'
  BY <1>3 DEF RInv, Blank, WritePos, At, Offsets
<1>5. CacheHolds'
  BY <1>3 DEF RInv, CacheHolds, Has
<1>6. Positions'
  <2>1. Positions /\ available \in Nat /\ Nowhere = -1
    BY Numbers DEF IInv, RInv
  <2>2. /\ cursor'[r] = offset /\ since'[r] = Greater(offset, 0) /\ stream'[r] = <<>>
        /\ \A q \in Readers : q # r =>
             cursor'[q] = cursor[q] /\ since'[q] = since[q] /\ stream'[q] = stream[q]
    BY <1>2, <2>1 DEF Positions
  <2>3. offset \in Nat \cup {Nowhere} /\ offset <= available
    BY <1>1, <2>1
  <2>4. Greater(offset, 0) \in Nat /\ (offset # Nowhere => Greater(offset, 0) = offset)
    BY <2>1, <2>3 DEF Greater
  <2>5. cursor' \in [Readers -> Nat \cup {Nowhere}] /\ since' \in [Readers -> Nat] /\ DOMAIN stream' = Readers
    BY <1>2, <2>1, <2>3, <2>4 DEF Positions
  <2>6. \A q \in Readers : cursor'[q] <= available'
    BY <1>3, <2>1, <2>2, <2>3 DEF Positions
  <2>7. ASSUME mishaps' \cap {"torn", "skipped", "moved"} = {}, NEW q \in Readers, cursor'[q] # Nowhere
        PROVE  Received(q)'
    <3>1. CASE q = r
      <4> DEFINE s == Greater(offset, 0)
      <4>1. s \in Int /\ Bytes(s, 0) = <<>>
        <5>1. s \in Int /\ 0 \in Nat
          BY <2>4
        <5> HIDE DEF s
        <5>2. Bytes(s, 0) \in Seq(Cells) /\ Len(Bytes(s, 0)) = 0
          BY <5>1, BytesAre
        <5> QED  BY <5>1, <5>2, EmptySeq
      <4>2. (Bytes(since[r], 0))' = <<>>
        BY DEF Bytes
      <4>3. Len(stream'[q]) = 0 /\ since'[q] + 0 = cursor'[q]
        BY <2>2, <2>3, <2>4, <2>7, <3>1
      <4> QED  BY <2>2, <3>1, <4>2, <4>3 DEF Received
    <3>2. CASE q # r
      <4>1. Received(q)
        BY <1>3, <2>1, <2>2, <2>7, <3>2 DEF Positions
      <4>2. (Bytes(since[q], Len(stream[q])))' = Bytes(since[q], Len(stream[q]))
        BY <1>3, <2>2, <3>2 DEF Bytes
      <4> QED  BY <2>2, <3>2, <4>1, <4>2 DEF Received
    <3> QED  BY <3>1, <3>2
  <2> QED  BY <2>5, <2>6, <2>7 DEF Positions
<1> QED  BY <1>4, <1>5, <1>6 DEF RInv

LEMMA StutterReads ==
  ASSUME RInv, UNCHANGED vars
  PROVE  RInv'
<1>1. /\ UNCHANGED <<kind, mem, size, page, pos, next, available, cache, mishaps>>
      /\ UNCHANGED <<cursor, since, stream>>
  BY DEF vars, writer, readers
<1>2. Blank'
  BY <1>1 DEF RInv, Blank, WritePos, At, Offsets
<1>3. CacheHolds'
  BY <1>1 DEF RInv, CacheHolds, Has
<1>4. Positions'
  BY <1>1 DEF RInv, Positions, Received, Bytes
<1> QED  BY <1>2, <1>3, <1>4 DEF RInv

LEMMA RInvInitial == Init => RInv
<1> SUFFICES ASSUME Init
             PROVE  RInv
  OBVIOUS
<1>1. /\ kind \in Kinds /\ mem = [o \in Offsets |-> NoByte]
      /\ page = Nowhere /\ available = 0 /\ cache = <<>> /\ mishaps = {}
      /\ cursor = [r \in Readers |-> Nowhere]
      /\ since = [r \in Readers |-> 0]
      /\ stream = [r \in Readers |-> <<>>]
  BY DEF Init
<1>2. Blank
  BY <1>1 DEF Blank
<1>3. CacheHolds
  BY <1>1, SizesAssumption DEF CacheHolds
<1>4. Positions
  <2>1. Nowhere <= 0
    BY DEF Nowhere
  <2> QED  BY <1>1, <2>1 DEF Positions
<1> QED  BY <1>2, <1>3, <1>4 DEF RInv

-----------------------------------------------------------------------------
(* Reading. *)

LEMMA KeepsItself == ASSUME CacheHolds PROVE Keeps(cache)
BY DEF CacheHolds, Keeps

LEMMA PeakPageKeeps ==
  ASSUME CacheHolds, NEW p \in Nat
  PROVE  Keeps(PeakPage(cache, p))
<1>1. CASE kind = "lru"
  <2>1. LruTouch(cache, p) \in Seq(Nat) /\ Len(LruTouch(cache, p)) <= CacheSize
    BY <1>1, LruTouchIs DEF CacheHolds
  <2> QED  BY <1>1, <2>1 DEF Keeps, PeakPage
<1>2. CASE kind # "lru"
  BY <1>2, KeepsItself DEF PeakPage
<1> QED  BY <1>1, <1>2

(* A walk does not unmap the page that is written to: it is the last.      *)
LEMMA ReadCache ==
  ASSUME IInv, RInv, "moved" \notin mishaps, UNCHANGED <<kind, writer>>, Keeps(cache'),
         mishaps \subseteq mishaps', kind = "lru" => mishaps' \cap {"unmapped", "skipped"} = {}
  PROVE  Blank' /\ CacheHolds'
<1>1. UNCHANGED <<kind, mem, size, page, pos, next, available>>
  BY DEF writer
<1>2. Blank'
  <2>1. mishaps' \cap {"torn", "moved"} = {} => mishaps \cap {"torn", "moved"} = {}
    OBVIOUS
  <2> QED  BY <1>1, <2>1 DEF RInv, Blank, WritePos, At, Offsets
<1>3. CacheHolds'
  <2>1. CacheHolds /\ cache' \in Seq(Nat) /\ (kind = "lru" => Len(cache') <= CacheSize)
    BY DEF RInv, Keeps
  <2>2. ASSUME kind = "oneShot", page # Nowhere, pos < PageSize
        PROVE  Has(cache', page)
    <3>1. Shape /\ Recorded
      BY DEF IInv
    <3>2. available = WritePos /\ WritePos = At(page) + pos
      BY <2>2, <3>1 DEF Recorded, Holds, Shape, WritePos
    <3>3. /\ page \in Nat /\ available \in Nat /\ pos \in Nat /\ PageSize \in Nat
          /\ At(page) \in Int /\ At(page + 1) = At(page) + PageSize
      BY <2>2, <3>1, Numbers, AtNextPage
    <3>4. At(page) <= available /\ available < At(page + 1) /\ page \in Int
      BY <2>2, <3>2, <3>3
    <3>5. MaxPage = page
      BY <3>3, <3>4, InPage DEF MaxPage
    <3>6. Has(cache, page) /\ page >= MaxPage
      BY <2>1, <2>2, <3>3, <3>5 DEF CacheHolds
    <3> QED  BY <2>2, <3>3, <3>6 DEF Keeps
  <2> QED  BY <1>1, <2>1, <2>2 DEF CacheHolds, Has
<1> QED  BY <1>2, <1>3

LEMMA PositionsHeld ==
  ASSUME Positions, UNCHANGED <<mem, available, cursor, since, stream>>, mishaps \subseteq mishaps'
  PROVE  Positions'
BY DEF Positions, Received, Bytes

(* A subscriber that is sent what comes next. *)
LEMMA SendPositions ==
  ASSUME IInv, Positions, UNCHANGED <<mem, available, since>>, mishaps \subseteq mishaps',
         NEW r \in Readers, NEW bytes, NEW n \in Nat, Send(r, bytes, n),
         cursor[r] # Nowhere, cursor[r] + n <= available,
         mishaps' \cap {"torn", "skipped", "moved"} = {} => bytes = Bytes(cursor[r], n)
  PROVE  Positions'
<1>1. /\ cursor' = [cursor EXCEPT ![r] = cursor[r] + n]
      /\ stream' = [stream EXCEPT ![r] = stream[r] \o bytes]
  BY DEF Send
<1>2. cursor[r] \in Nat /\ available \in Nat /\ Nowhere = -1 /\ since[r] \in Nat
  BY Numbers DEF Positions, IInv
<1>3. /\ cursor'[r] = cursor[r] + n /\ stream'[r] = stream[r] \o bytes
      /\ \A q \in Readers : q # r => cursor'[q] = cursor[q] /\ stream'[q] = stream[q]
  BY <1>1 DEF Positions
<1>4. cursor' \in [Readers -> Nat \cup {Nowhere}] /\ since' \in [Readers -> Nat] /\ DOMAIN stream' = Readers
  BY <1>1, <1>2 DEF Positions
<1>5. \A q \in Readers : cursor'[q] <= available'
  BY <1>2, <1>3 DEF Positions
<1>6. ASSUME mishaps' \cap {"torn", "skipped", "moved"} = {}, NEW q \in Readers, cursor'[q] # Nowhere
      PROVE  Received(q)'
  <2>1. CASE q = r
    <3> DEFINE s == since[r]
               l == Len(stream[r])
    <3>1. Received(r)
      BY <1>6 DEF Positions
    <3>2. l \in Nat /\ stream[r] = Bytes(s, l) /\ s + l = cursor[r] /\ s \in Int
      BY <1>2, <3>1 DEF Received
    <3> HIDE DEF s, l
    <3>3. stream'[r] = Bytes(s, l) \o Bytes(s + l, n)
      BY <1>3, <1>6, <3>2
    <3>4. stream'[r] = Bytes(s, l + n)
      BY <3>2, <3>3, BytesJoin
    <3>5. l + n \in Nat
      BY <3>2
    <3>6. Len(stream'[r]) = l + n
      BY <3>2, <3>4, <3>5, BytesAre
    <3>7. (Bytes(since[r], Len(stream[r])))' = Bytes(s, l + n)
      BY <3>6 DEF Bytes, s
    <3>8. since'[r] + Len(stream'[r]) = cursor'[r]
      BY <1>2, <1>3, <3>2, <3>6 DEF s
    <3> QED  BY <2>1, <3>4, <3>5, <3>6, <3>7, <3>8 DEF Received
  <2>2. CASE q # r
    <3>1. Received(q)
      BY <1>3, <1>6, <2>2 DEF Positions
    <3>2. (Bytes(since[q], Len(stream[q])))' = Bytes(since[q], Len(stream[q]))
      BY <1>3, <2>2 DEF Bytes
    <3> QED  BY <1>3, <2>2, <3>1, <3>2 DEF Received
  <2> QED  BY <2>1, <2>2
<1> QED  BY <1>4, <1>5, <1>6 DEF Positions

LEMMA NoBytes ==
  ASSUME NEW o \in Int
  PROVE  Bytes(o, 0) = <<>>
<1>1. 0 \in Nat
  OBVIOUS
<1>2. Bytes(o, 0) \in Seq(Cells) /\ Len(Bytes(o, 0)) = 0
  BY <1>1, BytesAre
<1> QED  BY <1>2, EmptySeq

LEMMA BytesPrefix ==
  ASSUME NEW o \in Int, NEW n \in Nat, NEW w \in 0..n
  PROVE  SubSeq(Bytes(o, n), 1, w) = Bytes(o, w)
<1> DEFINE b == Bytes(o, n)
           t == SubSeq(b, 1, w)
           c == Bytes(o, w)
<1>1. b \in Seq(Cells) /\ Len(b) = n /\ \A i \in 1..n : b[i] = mem[o + i - 1]
  BY BytesAre
<1>2. c \in Seq(Cells) /\ Len(c) = w /\ \A i \in 1..w : c[i] = mem[o + i - 1]
  BY BytesAre
<1> HIDE DEF b, c
<1>3. \A i \in 1..w : b[i] \in Cells
  BY <1>1, LenProperties
<1>4. /\ t \in Seq(Cells) /\ Len(t) = IF 1 <= w THEN w - 1 + 1 ELSE 0
      /\ \A i \in 1 .. w - 1 + 1 : t[i] = b[1 + i - 1]
  <2>1. 1 \in Int /\ w \in Int
    OBVIOUS
  <2> QED  BY <1>3, <2>1, SubSeqProperties
<1> HIDE DEF t
<1>5. Len(t) = w
  BY <1>4
<1>6. ASSUME NEW i \in 1..w
      PROVE  t[i] = c[i]
  <2>1. i \in 1 .. w - 1 + 1 /\ 1 + i - 1 = i /\ i \in 1..n
    OBVIOUS
  <2>2. t[i] = b[i]
    BY <1>4, <2>1
  <2> QED  BY <1>1, <1>2, <2>1, <2>2
<1>7. t \in [1..w -> Cells] /\ c \in [1..w -> Cells]
  BY <1>2, <1>4, <1>5, LenProperties
<1>8. t = c
  <2> HIDE DEF Cells
  <2> QED  BY <1>6, <1>7
<1> QED  BY <1>8 DEF t, b, c

(* What Pop gives, and the mishap it may be. *)
LEMMA PopGives ==
  ASSUME IInv, RInv, NEW start \in Nat, NEW n \in Nat, PopOutcome(start, n)
  PROVE  /\ Keeps(cache') /\ mishaps \subseteq mishaps' /\ mishaps' \subseteq mishaps \cup {"skipped"}
         /\ kind = "lru" => mishaps' = mishaps
         /\ Len(PopBytes(start, n)) \in {0, n}
         /\ "skipped" \notin mishaps' => PopBytes(start, n) = Bytes(start, Len(PopBytes(start, n)))
<1> DEFINE r == Popped(start, n)
           b == PopBytes(start, n)
<1>1. /\ start + n <= available /\ cache' = r.cache
      /\ mishaps' = IF r.skipped /\ Len(r.bytes) = n THEN mishaps \cup {"skipped"} ELSE mishaps
  BY DEF PopOutcome
<1>2. kind \in Kinds /\ Keeps(cache) /\ available \in Nat
  BY KeepsItself, Numbers DEF IInv, RInv, CacheHolds
<1>3. /\ Keeps(r.cache) /\ r.bytes \in Seq(Cells)
      /\ kind = "lru" => ~r.skipped
      /\ ~r.skipped => r.bytes = Bytes(start, n)
  BY <1>1, <1>2, PoppedBytes
<1>4. b = IF Len(r.bytes) = n THEN r.bytes ELSE <<>>
  BY DEF PopBytes
<1> HIDE DEF r, b
<1>5. start \in Int /\ Bytes(start, 0) = <<>> /\ Len(Bytes(start, n)) = n
  <2>1. start \in Int
    OBVIOUS
  <2> QED  BY <2>1, NoBytes, BytesAre
<1>6. Len(b) \in {0, n}
  BY <1>4
<1>7. "skipped" \notin mishaps' => b = Bytes(start, Len(b))
  <2>1. CASE Len(r.bytes) = n
    BY <1>1, <1>3, <1>4, <2>1
  <2>2. CASE Len(r.bytes) # n
    <3>1. b = <<>> /\ Len(b) = 0
      BY <1>4, <2>2
    <3> QED  BY <1>5, <3>1
  <2> QED  BY <2>1, <2>2
<1> QED  BY <1>1, <1>3, <1>6, <1>7 DEF r, b

LEMMA PopReads ==
  ASSUME IInv, RInv, "moved" \notin mishaps, NEW start \in Nat, NEW n \in Nat, Pop(start, n)
  PROVE  RInv'
<1>1. PopOutcome(start, n) /\ UNCHANGED <<kind, writer>> /\ UNCHANGED <<mem, available, cursor, since, stream>>
  BY DEF Pop, writer, readers
<1>2. Keeps(cache') /\ mishaps \subseteq mishaps' /\ (kind = "lru" => mishaps' = mishaps)
  BY <1>1, PopGives
<1>3. kind = "lru" => mishaps' \cap {"unmapped", "skipped"} = {}
  BY <1>2 DEF RInv, CacheHolds
<1>4. Blank' /\ CacheHolds'
  BY <1>1, <1>2, <1>3, ReadCache
<1>5. Positions'
  BY <1>1, <1>2, PositionsHeld DEF RInv
<1> QED  BY <1>4, <1>5 DEF RInv

LEMMA PopNextReads ==
  ASSUME IInv, RInv, "moved" \notin mishaps, NEW r \in Readers, NEW n \in Nat, PopNext(r, n)
  PROVE  RInv'
<1> DEFINE at == cursor[r]
           b  == PopBytes(at, n)
<1>1. /\ at # Nowhere /\ PopOutcome(at, n) /\ Send(r, b, Len(b))
      /\ UNCHANGED <<kind, writer>> /\ UNCHANGED <<mem, available, since>>
  BY DEF PopNext, writer
<1>2. Positions /\ available \in Nat /\ at \in Nat
  BY <1>1, Numbers DEF IInv, RInv, Positions
<1>3. at + n <= available
  BY <1>1 DEF PopOutcome
<1> HIDE DEF at
<1>4. /\ Keeps(cache') /\ mishaps \subseteq mishaps' /\ (kind = "lru" => mishaps' = mishaps)
      /\ Len(b) \in {0, n}
      /\ "skipped" \notin mishaps' => b = Bytes(at, Len(b))
  BY <1>1, <1>2, PopGives
<1> HIDE DEF b
<1>5. kind = "lru" => mishaps' \cap {"unmapped", "skipped"} = {}
  BY <1>4 DEF RInv, CacheHolds
<1>6. Blank' /\ CacheHolds'
  BY <1>1, <1>4, <1>5, ReadCache
<1>7. Len(b) \in Nat /\ at + Len(b) <= available
  BY <1>2, <1>3, <1>4
<1>8. mishaps' \cap {"torn", "skipped", "moved"} = {} => b = Bytes(at, Len(b))
  BY <1>4
<1>9. Positions'
  BY <1>1, <1>2, <1>4, <1>7, <1>8, SendPositions DEF at
<1> QED  BY <1>6, <1>9 DEF RInv

LEMMA PeakReads ==
  ASSUME IInv, RInv, "moved" \notin mishaps, NEW start \in Nat, Peak(start)
  PROVE  RInv'
<1>1. /\ cache' = PeakPage(cache, PageOf(start)) /\ mishaps' = mishaps
      /\ UNCHANGED <<kind, writer>> /\ UNCHANGED <<mem, available, cursor, since, stream>>
  BY DEF Peak, writer, readers
<1>2. PageOf(start) \in Nat
  BY PageAndPlace
<1>3. Keeps(cache')
  BY <1>1, <1>2, PeakPageKeeps DEF RInv
<1>4. Blank' /\ CacheHolds'
  BY <1>1, <1>3, ReadCache DEF RInv, CacheHolds
<1>5. Positions'
  BY <1>1, PositionsHeld DEF RInv
<1> QED  BY <1>4, <1>5 DEF RInv

LEMMA ZeroCopyReadNextReads ==
  ASSUME IInv, RInv, "moved" \notin mishaps, NEW r \in Readers, ZeroCopyReadNext(r)
  PROVE  RInv'
<1> DEFINE at == cursor[r]
           x  == Lesser(available - at, (PageOf(at) + 1) * PageSize - at)
<1>1. /\ at # Nowhere /\ at < available /\ cache' = PeakPage(cache, PageOf(at))
      /\ Send(r, Bytes(at, x), x) /\ mishaps' = mishaps
      /\ UNCHANGED <<kind, writer>> /\ UNCHANGED <<mem, available, since>>
  BY DEF ZeroCopyReadNext, writer
<1>2. Positions /\ available \in Nat /\ at \in Nat
  BY <1>1, Numbers DEF IInv, RInv, Positions
<1> HIDE DEF at
<1>3. PageOf(at) \in Nat /\ at < At(PageOf(at) + 1) /\ At(PageOf(at) + 1) \in Int
  <2>1. PageOf(at) \in Nat /\ at < At(PageOf(at) + 1)
    BY <1>2, PageSpan
  <2>2. PageOf(at) + 1 \in Int
    BY <2>1
  <2> QED  BY <2>1, <2>2, AtType
<1>4. x = Lesser(available - at, At(PageOf(at) + 1) - at)
  BY DEF At
<1> HIDE DEF x
<1>5. x \in Nat /\ at + x <= available
  BY <1>1, <1>2, <1>3, <1>4 DEF Lesser
<1>6. Keeps(cache')
  BY <1>1, <1>3, PeakPageKeeps DEF RInv
<1>7. Blank' /\ CacheHolds'
  BY <1>1, <1>6, ReadCache DEF RInv, CacheHolds
<1>8. Positions'
  BY <1>1, <1>2, <1>5, SendPositions DEF at
<1> QED  BY <1>7, <1>8 DEF RInv

LEMMA FindReads ==
  ASSUME IInv, RInv, "moved" \notin mishaps, NEW start \in Nat, start <= available, NEW d, FindStep(start, d)
  PROVE  RInv'
<1>1. /\ cache' = Find(start, d).cache
      /\ mishaps' \in {mishaps, mishaps \cup {"pastEnd"}}
      /\ UNCHANGED <<kind, writer>> /\ UNCHANGED <<mem, available, cursor, since, stream>>
  BY DEF FindStep, writer, readers
<1>2. kind \in Kinds /\ Keeps(cache) /\ available \in Nat
  BY KeepsItself, Numbers DEF IInv, RInv, CacheHolds
<1>3. Find(start, d) \in FindsIn(d)
  BY <1>2, FoundIs
<1>4. Keeps(cache')
  BY <1>1, <1>3 DEF FindsIn
<1>5. mishaps \subseteq mishaps' /\ (kind = "lru" => mishaps' \cap {"unmapped", "skipped"} = {})
  BY <1>1 DEF RInv, CacheHolds
<1>6. Blank' /\ CacheHolds'
  BY <1>1, <1>4, <1>5, ReadCache
<1>7. Positions'
  BY <1>1, <1>5, PositionsHeld DEF RInv
<1> QED  BY <1>6, <1>7 DEF RInv

LEMMA WritevReads ==
  ASSUME IInv, RInv, "moved" \notin mishaps, NEW r \in Readers, NEW written \in Nat, Writev(r, written)
  PROVE  RInv'
<1> DEFINE at == cursor[r]
           n  == available - at
           segs == Segments(at, n)
<1>1. /\ at # Nowhere /\ n > 0 /\ cache' = segs.cache
      /\ \/ segs.ok /\ Mapped(segs) /\ written \in 0 .. Len(segs.bytes)
            /\ Send(r, SubSeq(segs.bytes, 1, written), written)
         \/ Send(r, <<>>, 0)
      /\ mishaps' = IF segs.ok /\ ~Mapped(segs) THEN mishaps \cup {"unmapped"} ELSE mishaps
      /\ UNCHANGED <<kind, writer>> /\ UNCHANGED <<mem, available, since>>
  BY DEF Writev, writer, Advanced
<1>2. /\ Positions /\ available \in Nat /\ at \in Nat
      /\ kind \in Kinds /\ Keeps(cache)
  BY <1>1, KeepsItself, Numbers DEF IInv, RInv, Positions, CacheHolds
<1> HIDE DEF at
<1>3. n \in Nat /\ at <= available
  BY <1>1, <1>2
<1>4. /\ Keeps(segs.cache) /\ Len(segs.bytes) \in 0..n
      /\ segs.bytes = Bytes(at, Len(segs.bytes))
      /\ kind = "lru" => segs.ok /\ Mapped(segs)
  BY <1>2, <1>3, SegmentsHold
<1> HIDE DEF segs
<1>5. mishaps \subseteq mishaps' /\ (kind = "lru" => mishaps' \cap {"unmapped", "skipped"} = {})
  BY <1>1, <1>4 DEF RInv, CacheHolds
<1>6. Blank' /\ CacheHolds'
  BY <1>1, <1>4, <1>5, ReadCache
<1>7. CASE written \in 0 .. Len(segs.bytes) /\ Send(r, SubSeq(segs.bytes, 1, written), written)
  <2>1. Len(segs.bytes) \in Nat /\ at \in Int
    BY <1>2, <1>4
  <2>2. SubSeq(segs.bytes, 1, written) = Bytes(at, written)
    BY <1>4, <1>7, <2>1, BytesPrefix
  <2>3. at + written <= available
    BY <1>2, <1>3, <1>4, <1>7
  <2> QED  BY <1>1, <1>2, <1>5, <1>6, <1>7, <2>2, <2>3, SendPositions DEF at, RInv
<1>8. CASE Send(r, <<>>, 0)
  <2>1. 0 \in Nat /\ at + 0 <= available /\ at \in Int
    BY <1>2, <1>3
  <2>2. <<>> = Bytes(at, 0)
    BY <2>1, NoBytes
  <2> QED  BY <1>1, <1>2, <1>5, <1>6, <1>8, <2>1, <2>2, SendPositions DEF at, RInv
<1> QED  BY <1>1, <1>7, <1>8

LEMMA ReadReads ==
  ASSUME IInv, RInv, "moved" \notin mishaps, Read
  PROVE  RInv'
<1>1. available \in Nat /\ 0..available \subseteq Nat /\ 1..MaxPush \subseteq Nat
  BY Numbers DEF IInv
<1>2. CASE \E start \in 0..available : Peak(start) \/ \E n \in 1..MaxPush : Pop(start, n)
  BY <1>1, <1>2, PeakReads, PopReads
<1>3. CASE \E start \in 0..available : \E d \in 1..MaxSent : FindStep(start, d)
  BY <1>1, <1>3, FindReads
<1>4. CASE \E r \in Readers : \E n \in 0..available : Writev(r, n) \/ (n > 0 /\ PopNext(r, n))
  BY <1>1, <1>4, WritevReads, PopNextReads
<1>5. CASE \E r \in Readers : ZeroCopyReadNext(r)
  BY <1>5, ZeroCopyReadNextReads
<1> QED  BY <1>2, <1>3, <1>4, <1>5 DEF Read

LEMMA AppendsReads ==
  ASSUME IInv, RInv, "moved" \notin mishaps, Appends
  PROVE  RInv'
<1>1. /\ 1..MaxPush \subseteq Nat /\ 0..MaxPush \subseteq Nat /\ 0..MaxPages \subseteq Nat
      /\ 0..available \subseteq Nat
  BY SizesAssumption, Numbers DEF IInv
<1>2. CASE \E n \in 1..MaxPush : Push(n) \/ \E j \in 0..MaxPages : PushFails(n, j)
  BY <1>1, <1>2, PushReads
<1>3. CASE \E n \in 0..MaxPush : Readv(n) \/ ZeroCopyWrite(n)
  BY <1>1, <1>3, ReadvReads
<1>4. CASE \E start \in 0..available : \E n \in 1..MaxPush : Unmask(start, n)
  BY <1>1, <1>4, UnmaskReads
<1> QED  BY <1>2, <1>3, <1>4, SetPositionReads DEF Appends

LEMMA RInvKept == IInv /\ RInv /\ [Next]_vars => RInv'
<1> SUFFICES ASSUME IInv, RInv, [Next]_vars
             PROVE  RInv'
  OBVIOUS
<1>1. Alive => "moved" \notin mishaps
  BY DEF Alive
<1>2. CASE Alive /\ Appends
  BY <1>1, <1>2, AppendsReads
<1>3. CASE Alive /\ Read
  BY <1>1, <1>3, ReadReads
<1>4. CASE Place
  BY <1>4, PlaceReads
<1>5. CASE Reopen
  BY <1>5, ReopenReads
<1>6. CASE UNCHANGED vars
  BY <1>6, StutterReads
<1> QED  BY <1>2, <1>3, <1>4, <1>5, <1>6 DEF Next

(* The bytes that are not written yet, the cache and the positions of the  *)
(* subscribers stay in order in every step of the store.                   *)
THEOREM RInvInvariant == Spec => []RInv
BY IInvInvariant, RInvInitial, RInvKept, PTL DEF Spec

(* What Pop delivers, walking the pages through an LRUCache of any size or *)
(* a OneShotCache, is the log from the offset asked for, unless it passed  *)
(* a page over; and where Find says that a byte is, the log has that byte, *)
(* though Find looks at whole pages.                                       *)
THEOREM Delivery == Spec => []DeliversTheLog
<1>1. ASSUME IInv, RInv
      PROVE  DeliversTheLog
  <2> SUFFICES ASSUME mishaps \cap {"torn", "moved"} = {}, NEW start \in 0 .. available - 1
               PROVE  /\ \A n \in 1 .. available - start : LET r == Popped(start, n) IN
                           ~r.skipped => r.bytes = SubSeq(log, start + 1, start + n)
                      /\ \A d \in 1..MaxSent : LET r == Find(start, d) IN
                           r.at # Nowhere => log[r.at + 1] = d
    BY DEF DeliversTheLog
  <2>1. Holds
    BY <1>1 DEF IInv, Recorded
  <2>2. kind \in Kinds /\ Keeps(cache) /\ available \in Nat
    BY <1>1, KeepsItself, Numbers DEF IInv, RInv, CacheHolds
  <2>3. start \in Nat /\ start <= available /\ start \in Int
    BY <2>2
  <2>4. ASSUME NEW n \in 1 .. available - start, ~Popped(start, n).skipped
        PROVE  Popped(start, n).bytes = SubSeq(log, start + 1, start + n)
    <3>1. n \in Nat /\ start + n <= available
      BY <2>2
    <3>2. Popped(start, n).bytes = Bytes(start, n)
      BY <2>2, <2>3, <2>4, <3>1, PoppedBytes
    <3>3. Bytes(start, n) = [i \in 1..n |-> mem[start + i - 1]]
      BY DEF Bytes
    <3>4. SubSeq(log, start + 1, start + n) = [i \in 1..n |-> log[start + i]]
      <4>1. PICK S : log \in Seq(S)
        BY <2>1 DEF Holds, IsLog
      <4>2. \A i \in start + 1 .. start + n : log[i] \in S
        <5>1. \A i \in start + 1 .. start + n : i \in 1..Len(log)
          BY <2>1, <2>2, <3>1 DEF Holds
        <5> QED  BY <4>1, <5>1, LenProperties
      <4> DEFINE t == SubSeq(log, start + 1, start + n)
      <4>3. /\ t \in Seq(S) /\ Len(t) = IF start + 1 <= start + n THEN start + n - (start + 1) + 1 ELSE 0
            /\ \A i \in 1 .. start + n - (start + 1) + 1 : t[i] = log[start + 1 + i - 1]
        <5>1. start + 1 \in Int /\ start + n \in Int
          BY <3>1
        <5> QED  BY <4>2, <5>1, SubSeqProperties
      <4> HIDE DEF t
      <4>4. Len(t) = n
        BY <3>1, <4>3
      <4>5. \A i \in 1..n : t[i] = log[start + i]
        <5>1. \A i \in 1..n : i \in 1 .. start + n - (start + 1) + 1 /\ start + 1 + i - 1 = start + i
          BY <3>1
        <5> QED  BY <4>3, <5>1
      <4>6. t = [i \in 1..n |-> t[i]]
        BY <4>3, <4>4, LenProperties
      <4>7. t = [i \in 1..n |-> log[start + i]]
        BY <4>5, <4>6
      <4> QED  BY <4>7 DEF t
    <3>5. \A i \in 1..n : mem[start + i - 1] = log[start + i]
      <4>1. \A i \in 1..n : start + i \in 1..available /\ (start + i) - 1 = start + i - 1
        BY <2>2, <3>1
      <4> QED  BY <2>1, <4>1 DEF Holds
    <3> QED  BY <3>2, <3>3, <3>4, <3>5
  <2>5. ASSUME NEW d \in 1..MaxSent, Find(start, d).at # Nowhere
        PROVE  log[Find(start, d).at + 1] = d
    <3> DEFINE o == Find(start, d).at
    <3>1. Find(start, d) \in FindsIn(d)
      BY <2>2, <2>3, FoundIs
    <3>2. o \in Offsets /\ mem[o] = d
      BY <2>5, <3>1 DEF FindsIn
    <3> HIDE DEF o
    <3>3. d # NoByte
      BY DEF NoByte
    <3>4. ~(WritePos <= o)
      BY <1>1, <3>2, <3>3 DEF RInv, Blank
    <3>5. o + 1 \in 1..available /\ (o + 1) - 1 = o
      BY <2>1, <2>2, <3>2, <3>4 DEF Holds, Offsets
    <3>6. log[o + 1] = d
      BY <2>1, <3>2, <3>5 DEF Holds
    <3> QED  BY <3>6 DEF o
  <2> QED  BY <2>4, <2>5
<1> QED  BY <1>1, IInvInvariant, RInvInvariant, PTL

(* A subscriber gets every byte of the log from its position on, once and  *)
(* in order, by Pop, ZeroCopyReadNext and Writev in any order, whatever    *)
(* the descriptor takes of each call.                                      *)
THEOREM NothingMissed == Spec => []NoGap
<1>1. ASSUME IInv, RInv
      PROVE  NoGap
  <2> SUFFICES ASSUME mishaps \cap {"torn", "skipped", "moved"} = {}, NEW r \in Readers, cursor[r] # Nowhere
               PROVE  /\ since[r] + Len(stream[r]) = cursor[r]
                      /\ \A i \in DOMAIN stream[r] : stream[r][i] = log[since[r] + i]
    BY DEF NoGap
  <2>1. Holds /\ available \in Nat
    BY <1>1, Numbers DEF IInv, Recorded
  <2>2. Received(r) /\ cursor[r] \in Nat /\ since[r] \in Nat /\ cursor[r] <= available
    BY <1>1 DEF RInv, Positions
  <2> DEFINE l == Len(stream[r])
             s == since[r]
  <2>3. l \in Nat /\ stream[r] = Bytes(s, l) /\ s + l = cursor[r] /\ s \in Nat
    BY <2>2 DEF Received
  <2> HIDE DEF l, s
  <2>4. DOMAIN stream[r] = 1..l /\ \A i \in 1..l : stream[r][i] = mem[s + i - 1]
    BY <2>3 DEF Bytes
  <2>5. \A i \in 1..l : s + i \in 1..available /\ (s + i) - 1 = s + i - 1
    BY <2>1, <2>2, <2>3
  <2>6. \A i \in 1..l : mem[s + i - 1] = log[s + i]
    BY <2>1, <2>5 DEF Holds
  <2> QED  BY <2>3, <2>4, <2>6 DEF l, s
<1> QED  BY <1>1, IInvInvariant, RInvInvariant, PTL

(* FindPage of the OneShotCache never unmaps the page that is written to,  *)
(* and the LRUCache keeps the pages of the segments of a Writev until they *)
(* are written, because it has room for as many as there can be segments.  *)
THEOREM PagesAreHeld == Spec => []PagesInUseHeld
<1>1. RInv => PagesInUseHeld
  BY KindsAssumption DEF RInv, CacheHolds, Has, PagesInUseHeld
<1> QED  BY <1>1, RInvInvariant, PTL
=============================================================================
