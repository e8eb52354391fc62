---------------------------- MODULE MemoryProofs ----------------------------
(***************************************************************************)
(* That no RAM page serves two purposes, that a range a caller owns stays  *)
(* backed by the same pages, that frames are only lost once memory has run *)
(* out and that the TLB is coherent, for every memory map, page size and   *)
(* request size; at the end, that the search of a bitmap finds the lowest  *)
(* free range.                                                             *)
(***************************************************************************)
EXTENDS Memory, FreeRangeSearch, TLAPS, FiniteSetTheorems, SequenceTheorems, WellFoundedInduction

(* The inductive invariant *)

VmmPages == VMM_BASE .. (VMM_BASE + count - 1)
MmioPages == MMIO_BASE .. (MMIO_BASE + MAX_PAGES - 1)

\* The pages a call works on, those it has done and those it has not come to.
CallPages == call.base .. (call.base + call.n - 1)
DonePages == call.base .. (Page(call) - 1)
NextPages == (Page(call) + 1) .. (call.base + call.n - 1)

OwnedPages(b) == b .. (b + owned[b] - 1)

\* memory_init: before it is through, nothing is mapped or owned; from then on every
\* page outside Limine's usable regions is marked, and so are the bitmap's pages.
BootInv ==
  /\ memmap \in MemoryMaps
  /\ stage \in {"reset", "bitmap", "vmm", "up", "novmm", "fault"}
  /\ count = IF stage = "reset" THEN 0 ELSE highestPage
  /\ pmm \subseteq 0 .. (count - 1)
  /\ vmm \subseteq 0 .. (count - 1)
  /\ stage \in {"reset", "fault"} => pmm = {} /\ bitmap = {}
  /\ stage \notin {"reset", "fault"} => (0 .. (count - 1)) \ Usable \subseteq pmm
  /\ stage \in {"reset", "fault", "bitmap"} =>
       /\ DOMAIN tables = {} /\ DOMAIN pte = {} /\ DOMAIN owned = {} /\ DOMAIN dma = {}
       /\ tlb = {} /\ stale = {} /\ stray = {} /\ call = NoCall

CallRecords ==
  [op : {"none", "malloc", "map", "free"}, base : Nat, n : Nat, i : Nat, page : Nat,
   frame : Nat, table : Nat,
   pc : {"none", "frame", "walk", "link", "address", "invlpg", "release"}, ok : BOOLEAN]

\* The call in progress: what it works on and where in its loop it can be.
CallInv ==
  /\ call \in CallRecords
  /\ call.op = "none" => call = NoCall
  /\ call.op # "none" => call.i < call.n
  /\ call.op = "malloc" =>
       /\ call.pc \in {"frame", "walk", "link", "address", "invlpg"}
       /\ stage \in {"vmm", "up"}
       /\ CallPages \subseteq VmmPages
  /\ call.op = "free" =>
       /\ call.pc \in {"walk", "link", "invlpg", "release"}
       /\ stage = "up"
       /\ CallPages \subseteq VmmPages
       /\ call.page \in call.base .. Page(call)
  /\ call.op = "map" =>
       /\ call.pc \in {"walk", "link", "address", "invlpg"}
       /\ call.base = MMIO_BASE /\ call.n <= MAX_PAGES
       /\ call.frame = MMIO_FRAME + call.i

\* An entry is in a table that exists; where it leads: vmm_malloc_pages maps usable
\* pages, map_pages registers.
PteInv ==
  \A v \in DOMAIN pte :
    /\ pte[v] \in Nat
    /\ pte[v] < count => pte[v] \in pmm
    /\ Missing(v) = {}
    /\ \/ v \in VmmPages /\ (v \notin HalfWritten => pte[v] \in Usable)
       \/ v \in MmioPages /\ (v \notin HalfWritten => pte[v] = MMIO_FRAME + (v - MMIO_BASE))

\* What the other users hold is usable memory.
FrameInv ==
  /\ bitmap \subseteq Usable
  /\ \A k \in DOMAIN tables : tables[k] \in Usable
  /\ \A b \in DOMAIN dma : b \in Nat /\ dma[b] \in Nat \ {0} /\ b .. (b + dma[b] - 1) \subseteq Usable
  /\ InFlight => call.frame \in Usable
  /\ Linking => call.table \in Usable

\* A usable page has one user at most, and one that has a user is marked.
OneUser ==
  \A f \in Usable :
    /\ \A u, w \in Users(f) : u = w
    /\ Users(f) # {} => f \in pmm

\* The ranges callers own: apart from each other, backed and reserved.
OwnedInv ==
  \A b \in DOMAIN owned :
    /\ b \in Nat /\ owned[b] \in Nat \ {0}
    /\ OwnedPages(b) \subseteq VmmPages
    /\ \A v \in OwnedPages(b) : v \in DOMAIN pte /\ pte[v] \in pmm /\ (v - VMM_BASE) \in vmm
    /\ \A c \in DOMAIN owned \ {b} : OwnedPages(b) \cap OwnedPages(c) = {}

\* A call keeps out of the owned ranges.  vmm_malloc_pages has reserved its range and,
\* if all went well, backed what it has done; what vmm_free_pages has done is unmapped.
CallPagesInv ==
  /\ call.op \in {"malloc", "free"} =>
       \A b \in DOMAIN owned : OwnedPages(b) \cap CallPages = {}
  /\ call.pc = "address" => Page(call) \in DOMAIN pte
  /\ call.op = "malloc" =>
       /\ \A v \in CallPages : (v - VMM_BASE) \in vmm
       /\ call.ok = TRUE => \A v \in DonePages : v \in DOMAIN pte /\ pte[v] \in pmm
       /\ call.pc = "invlpg" => Page(call) \in DOMAIN pte /\ pte[Page(call)] \in pmm
  /\ call.op = "free" =>
       /\ \A v \in DonePages : v \notin DOMAIN pte
       /\ call.pc \in {"invlpg", "release"} => Page(call) \notin DOMAIN pte

\* Until a pmm_malloc fails: a marked page is used, a mapped page is reserved, and
\* vmm_malloc_pages finds none of the pages ahead of it mapped.
NoLeakInv ==
  refused = FALSE /\ stage \notin {"reset", "fault"} =>
    /\ \A f \in pmm \cap Usable : Users(f) # {}
    /\ \A v \in DOMAIN pte \cap VmmPages : (v - VMM_BASE) \in vmm
    /\ call.op = "malloc" =>
         /\ \A v \in NextPages : v \notin DOMAIN pte
         /\ call.pc \in {"frame", "walk", "link"} => Page(call) \notin DOMAIN pte

\* A table entry the processor may remember as half written has no mapped page below it,
\* but for the one map_page is at work on, and no mapped page was reached through one.
StrayInv ==
  \A v \in DOMAIN pte : BeingChanged(v) \/ (~ Astray(v) /\ \A e \in stray : e[1] # v)

TlbInv ==
  /\ tlb \subseteq Nat \X Nat /\ stray \subseteq Nat \X Nat
  /\ StrayInv /\ TlbCoherent

IInv ==
  /\ refused \in BOOLEAN
  /\ BootInv /\ CallInv /\ PteInv /\ FrameInv /\ OneUser
  /\ OwnedInv /\ CallPagesInv /\ NoLeakInv /\ TlbInv
-----------------------------------------------------------------------------
(* Free ranges *)

\* find_free_range answers a range that exists and is all zero.
LEMMA FreeRangeIs ==
  ASSUME NEW marked, NEW c \in Nat, NEW n \in Nat, NEW s \in find_free_range(marked, c, n)
  PROVE  /\ s \in Nat /\ n > 0 /\ s + n <= c
         /\ \A k \in s .. (s + n - 1) : k \notin marked /\ k \in 0 .. (c - 1)
BY SMT DEF find_free_range, FreeRuns, IsFreeRun
-----------------------------------------------------------------------------
(* The memory map *)

\* A nonempty set of naturals has a least element.
LEMMA LeastOf ==
  ASSUME NEW T, T \subseteq Nat, T # {}
  PROVE  \E x \in T : \A y \in T : x <= y
<1>1. PICK x \in T : \A y \in T : ~ (<<y, x>> \in OpToRel(<, Nat))
  BY WFMin, NatLessThanWellFounded
<1>2. \A y \in T : ~ (y < x)
  BY <1>1 DEF OpToRel
<1> QED  BY <1>2

\* What Limine reports of region r.
LEMMA RegionIs ==
  ASSUME memmap \in MemoryMaps, NEW r \in DOMAIN memmap
  PROVE  /\ DOMAIN memmap = 1 .. Len(memmap) /\ Len(memmap) \in Nat
         /\ memmap[r].base \in Nat /\ memmap[r].length \in Nat
         /\ memmap[r].usable => /\ memmap[r].base > 0
                               /\ Registers \cap Pages(memmap[r]) = {}
<1>1. memmap \in Seq([base : Nat, length : Nat, usable : BOOLEAN])
  BY MemoryAssumption
<1>2. DOMAIN memmap = 1 .. Len(memmap) /\ Len(memmap) \in Nat
  BY <1>1
<1>3. memmap[r] \in [base : Nat, length : Nat, usable : BOOLEAN]
  BY <1>1, <1>2, ElementOfSeq
<1> QED  BY <1>2, <1>3, MemoryAssumption DEF Pages

\* Some page number is beyond every region.
LEMMA MapIsBounded ==
  ASSUME memmap \in MemoryMaps
  PROVE  \E z \in Nat : \A r \in DOMAIN memmap : memmap[r].base + memmap[r].length <= z
<1> DEFINE End(r) == memmap[r].base + memmap[r].length
           Bounded(n) == \E z \in Nat : \A r \in 1 .. n : End(r) <= z
           T == {n \in 0 .. Len(memmap) : ~ Bounded(n)}
<1>0. CASE DOMAIN memmap = {}
  BY <1>0
<1>1. CASE DOMAIN memmap # {}
  <2>1. DOMAIN memmap = 1 .. Len(memmap) /\ Len(memmap) \in Nat
    BY <1>1, RegionIs
  <2>2. \A r \in 1 .. Len(memmap) : End(r) \in Nat
    BY <2>1, RegionIs
  <2>3. Bounded(0)
    BY SMT
  <2>4. ASSUME NEW n \in 1 .. Len(memmap), Bounded(n - 1)
        PROVE  Bounded(n)
    <3> HIDE DEF End
    <3>1. PICK z \in Nat : \A r \in 1 .. (n - 1) : End(r) <= z
      BY <2>4
    <3>2. z + End(n) \in Nat /\ \A r \in 1 .. n : End(r) <= z + End(n)
      <4>1. \A r \in 1 .. n : r = n \/ r \in 1 .. (n - 1)
        BY <2>1
      <4> QED  BY <4>1, <3>1, <2>1, <2>2
    <3> QED  BY <3>2
  <2> HIDE DEF Bounded
  <2>5. T = {}
    <3>1. SUFFICES ASSUME T # {} PROVE FALSE
      OBVIOUS
    <3>2. PICK n \in T : \A m \in T : n <= m
      <4>1. T \subseteq Nat  BY <2>1
      <4> QED  BY <3>1, <4>1, LeastOf
    <3>3. n \in 1 .. Len(memmap)
      BY <3>2, <2>3, <2>1
    <3>4. n - 1 \in 0 .. Len(memmap) /\ n - 1 \notin T
      BY <3>2, <3>3, <2>1
    <3> QED  BY <3>2, <3>3, <3>4, <2>4
  <2>6. Bounded(Len(memmap))
    BY <2>5, <2>1
  <2> QED  BY <2>6, <2>1 DEF Bounded
<1> QED  BY <1>0, <1>1

\* get_memory_regions: every usable page is below highestPage; page 0 and the device
\* registers are not usable.
LEMMA UsableIs ==
  ASSUME memmap \in MemoryMaps
  PROVE  /\ highestPage \in Nat
         /\ Usable \subseteq 1 .. (highestPage - 1)
         /\ Usable \cap Registers = {}
<1>1. \A p \in Usable : \E r \in UsableRegions : p \in Pages(memmap[r])
  BY DEF Usable
<1>2. Usable \subseteq Nat \ {0} /\ Usable \cap Registers = {}
  BY <1>1, RegionIs DEF UsableRegions, Pages
<1>3. CASE Usable = {}
  BY <1>3 DEF highestPage
<1>4. CASE Usable # {}
  <2> DEFINE B == {z \in Nat : \A q \in Usable : q <= z}
  <2>1. PICK z \in Nat : \A r \in DOMAIN memmap : memmap[r].base + memmap[r].length <= z
    BY MapIsBounded
  <2>2. z \in B
    BY <1>1, <2>1, RegionIs DEF UsableRegions, Pages
  <2>3. PICK m \in B : \A y \in B : m <= y
    BY <2>2, LeastOf
  <2>4. m \in Usable
    <3>1. SUFFICES ASSUME m \notin Usable PROVE FALSE
      OBVIOUS
    <3>2. m \in Nat /\ \A q \in Usable : q <= m /\ q # m /\ q \in Nat /\ q > 0
      BY <3>1, <1>2
    <3>3. m - 1 \in Nat /\ \A q \in Usable : q <= m - 1
      BY <3>2, <1>4
    <3>4. m - 1 \in B
      BY <3>3
    <3> QED  BY <3>2, <3>4, <2>3
  <2>5. \E p \in Usable : \A q \in Usable : q <= p
    BY <2>3, <2>4
  <2>6. PICK p \in Usable : highestPage = 1 + p /\ \A q \in Usable : q <= p
    BY <1>4, <2>5 DEF highestPage
  <2> QED  BY <1>2, <2>6
<1> QED  BY <1>3, <1>4

\* Rounding up: as many pages as are needed, not one more.
LEMMA RoundUpIs ==
  ASSUME NEW a \in Nat, NEW b \in Nat \ {0}
  PROVE  /\ divide_round_up(a, b) \in Nat
         /\ \A l \in Nat : l * b >= a => divide_round_up(a, b) <= l
<1> DEFINE q == (a + b - 1) \div b
           m == (a + b - 1) % b
<1>1. q \in Int /\ m \in 0 .. (b - 1) /\ a + b - 1 = b * q + m
  BY SMT
<1> HIDE DEF q, m
<1>2. q >= 0
  <2>1. SUFFICES ASSUME q <= -1 PROVE FALSE
    BY <1>1
  <2>2. b * q <= b * (-1)
    BY <2>1, <1>1, SMT
  <2> QED  BY <2>2, <1>1
<1>3. ASSUME NEW l \in Nat, l * b >= a
      PROVE  q <= l
  <2>1. SUFFICES ASSUME q >= l + 1 PROVE FALSE
    BY <1>1
  <2>2. b * q >= b * (l + 1)
    BY <2>1, <1>1, SMT
  <2>3. b * (l + 1) = l * b + b
    BY SMT
  <2> QED  BY <2>2, <2>3, <1>1, <1>3
<1> QED  BY <1>1, <1>2, <1>3 DEF divide_round_up, q

\* get_free_location_for_bitmap takes a region the bitmap fits in.
LEMMA BitmapFits ==
  ASSUME memmap \in MemoryMaps, BitmapRegions # {}
  PROVE  /\ BitmapPages(highestPage) \in Nat
         /\ bitmapPhysBase \in Nat
         /\ bitmapPhysBase .. (bitmapPhysBase + BitmapPages(highestPage) - 1) \subseteq Usable
<1> DEFINE r == CHOOSE r \in BitmapRegions : \A q \in BitmapRegions : r <= q
<1>1. BitmapRegions \subseteq Nat
  BY RegionIs DEF BitmapRegions, UsableRegions
<1>2. r \in BitmapRegions
  <2>1. \E x \in BitmapRegions : \A q \in BitmapRegions : x <= q
    BY <1>1, LeastOf
  <2> QED  BY <2>1
<1> HIDE DEF r
<1>3. /\ r \in UsableRegions /\ memmap[r].base \in Nat /\ memmap[r].length \in Nat
      /\ memmap[r].length * PAGE_SIZE >= reqSize(highestPage)
  BY <1>2, RegionIs DEF BitmapRegions, UsableRegions
<1>4. reqSize(highestPage) \in Nat
  BY UsableIs, RoundUpIs DEF reqSize
<1>5. BitmapPages(highestPage) \in Nat /\ BitmapPages(highestPage) <= memmap[r].length
  BY <1>3, <1>4, RoundUpIs, MemoryAssumption DEF BitmapPages
<1>6. bitmapPhysBase = memmap[r].base
  BY DEF bitmapPhysBase, r
<1>7. bitmapPhysBase .. (bitmapPhysBase + BitmapPages(highestPage) - 1) \subseteq Pages(memmap[r])
  BY <1>3, <1>5, <1>6 DEF Pages
<1>8. Pages(memmap[r]) \subseteq Usable
  BY <1>3 DEF Usable
<1> QED  BY <1>3, <1>5, <1>6, <1>7, <1>8
-----------------------------------------------------------------------------
(* Users of a page *)

\* What uses page f, before a step and after it.
LEMMA UserIs ==
  ASSUME NEW f, NEW u
  PROVE  u \in Users(f) <=>
           \/ \E k \in DOMAIN tables : tables[k] = f /\ u = <<"table", k>>
           \/ \E v \in DOMAIN pte : v \notin HalfWritten /\ pte[v] = f /\ u = <<"page", v>>
           \/ \E b \in DOMAIN dma : f \in b .. (b + dma[b] - 1) /\ u = <<"range", b>>
           \/ f \in bitmap /\ u = <<"bitmap", 0>>
           \/ InFlight /\ call.frame = f /\ u = <<"call", 0>>
           \/ Linking /\ call.table = f /\ u = <<"link", 0>>
<1> HIDE DEF InFlight, Linking, HalfWritten
<1> QED  BY DEF Users

LEMMA UserIsNext ==
  ASSUME NEW f, NEW u
  PROVE  u \in Users(f)' <=>
           \/ \E k \in DOMAIN tables' : tables'[k] = f /\ u = <<"table", k>>
           \/ \E v \in DOMAIN pte' : v \notin HalfWritten' /\ pte'[v] = f /\ u = <<"page", v>>
           \/ \E b \in DOMAIN dma' : f \in b .. (b + dma'[b] - 1) /\ u = <<"range", b>>
           \/ f \in bitmap' /\ u = <<"bitmap", 0>>
           \/ InFlight' /\ call'.frame = f /\ u = <<"call", 0>>
           \/ Linking' /\ call'.table = f /\ u = <<"link", 0>>
BY DEF Users

\* A step keeps OneUser when it gives each page no user it did not have, or a single
\* one and its mark, or takes all of them away.
LEMMA OneUserStep ==
  ASSUME OneUser, memmap' = memmap,
         \A f \in Usable :
           \/ Users(f)' = {}
           \/ Users(f)' \subseteq Users(f) /\ (f \in pmm => f \in pmm')
           \/ f \in pmm' /\ \E u : Users(f)' \subseteq {u}
  PROVE  OneUser'
<1>1. Usable' = Usable
  BY DEF Usable, UsableRegions
<1>2. SUFFICES ASSUME NEW f \in Usable
               PROVE  /\ \A u, w \in Users(f)' : u = w
                      /\ Users(f)' # {} => f \in pmm'
  BY <1>1 DEF OneUser
<1>3. /\ \A u, w \in Users(f) : u = w
      /\ Users(f) # {} => f \in pmm
  BY DEF OneUser
<1> QED  BY <1>3, Zenon
-----------------------------------------------------------------------------
(* What the invariant says of the state *)

\* Usable pages have a bit; page 0 has a bit but is not usable.
LEMMA CountIs ==
  ASSUME BootInv
  PROVE  /\ count \in Nat /\ highestPage \in Nat
         /\ Usable \subseteq Nat \ {0} /\ Usable \cap Registers = {}
         /\ stage # "reset" => count = highestPage /\ Usable \subseteq 1 .. (count - 1)
<1>1. highestPage \in Nat /\ Usable \subseteq 1 .. (highestPage - 1) /\ Usable \cap Registers = {}
  BY UsableIs DEF BootInv
<1>2. count = IF stage = "reset" THEN 0 ELSE highestPage
  BY DEF BootInv
<1>3. 1 .. (highestPage - 1) \subseteq Nat \ {0}
  BY <1>1
<1> QED  BY <1>1, <1>2, <1>3

\* The memory map is fixed, and with it what is usable.
LEMMA MapKept ==
  ASSUME memmap' = memmap
  PROVE  Usable' = Usable /\ highestPage' = highestPage
BY DEF Usable, UsableRegions, highestPage

\* pmm_malloc answers usable pages that are not marked and have no user.
LEMMA FreeFramesAre ==
  ASSUME IInv, stage \notin {"reset", "fault"}, NEW n \in Nat, NEW b \in pmm_malloc(n)
  PROVE  /\ b \in Nat /\ n > 0
         /\ b .. (b + n - 1) \subseteq Usable
         /\ b .. (b + n - 1) \subseteq 0 .. (count - 1)
         /\ \A f \in b .. (b + n - 1) : f \notin pmm /\ Users(f) = {}
<1>1. BootInv /\ OneUser
  BY DEF IInv
<1>2. count \in Nat
  BY <1>1, CountIs
<1>3. /\ b \in Nat /\ n > 0
      /\ \A k \in b .. (b + n - 1) : k \notin pmm /\ k \in 0 .. (count - 1)
  BY <1>2, FreeRangeIs DEF pmm_malloc
<1>4. (0 .. (count - 1)) \ Usable \subseteq pmm
  BY <1>1 DEF BootInv
<1>5. ASSUME NEW f \in b .. (b + n - 1)
      PROVE  f \in Usable /\ f \in 0 .. (count - 1) /\ f \notin pmm /\ Users(f) = {}
  BY <1>1, <1>3, <1>4 DEF OneUser
<1> QED  BY <1>3, <1>5

\* The same for a single page.
LEMMA FreeFrameIs ==
  ASSUME IInv, stage \notin {"reset", "fault"}, NEW g \in pmm_malloc(1)
  PROVE  g \in Usable /\ g \in 0 .. (count - 1) /\ g \notin pmm /\ Users(g) = {}
<1>1. g \in Nat /\ 1 \in Nat
  BY FreeFramesAre
<1>2. g \in g .. (g + 1 - 1)
  BY <1>1
<1> QED  BY <1>1, <1>2, FreeFramesAre

\* Between calls nothing is in flight and no entry is half written.
LEMMA NoCallIs ==
  /\ NoCall.op = "none" /\ NoCall.pc = "none" /\ NoCall.ok = TRUE
  /\ call = NoCall => CallInv /\ CallPagesInv /\ ~ InFlight /\ ~ Linking /\ HalfWritten = {}
<1>1. /\ NoCall.op = "none" /\ NoCall.pc = "none" /\ NoCall.ok = TRUE
      /\ NoCall \in CallRecords
  BY DEF NoCall, CallRecords
<1> HIDE DEF NoCall
<1>2. call = NoCall => CallInv
  BY <1>1 DEF CallInv
<1>3. call = NoCall => CallPagesInv
  BY <1>1 DEF CallPagesInv
<1>4. call = NoCall => ~ InFlight /\ ~ Linking /\ HalfWritten = {}
  BY <1>1 DEF HalfWritten, InFlight, Linking, Working
<1> QED  BY <1>1, <1>2, <1>3, <1>4

LEMMA NoCallIsNext ==
  call' = NoCall => CallInv' /\ CallPagesInv' /\ ~ InFlight' /\ ~ Linking' /\ HalfWritten' = {}
<1>1. /\ NoCall.op = "none" /\ NoCall.pc = "none"
      /\ NoCall \in CallRecords
  BY DEF NoCall, CallRecords
<1> HIDE DEF NoCall
<1>2. call' = NoCall => CallInv'
  BY <1>1 DEF CallInv
<1>3. call' = NoCall => CallPagesInv'
  BY <1>1 DEF CallPagesInv
<1>4. call' = NoCall => ~ InFlight' /\ ~ Linking' /\ HalfWritten' = {}
  BY <1>1 DEF HalfWritten, InFlight, Linking, Working
<1> QED  BY <1>2, <1>3, <1>4

\* While a call works the memory is up.
LEMMA CallNeedsMemory ==
  ASSUME IInv, call.op # "none"
  PROVE  stage \notin {"reset", "fault", "bitmap"} /\ call \in CallRecords
BY NoCallIs DEF IInv, BootInv, CallInv
-----------------------------------------------------------------------------
(* The call record *)

\* A call starts at its first page.
LEMMA StartIs ==
  ASSUME NEW o \in {"malloc", "map", "free"}, NEW b, NEW n, NEW g
  PROVE  Start(o, b, n, g) =
           [op |-> o, base |-> b, n |-> n, i |-> 0, page |-> b, frame |-> g,
            table |-> 0, pc |-> IF o = "malloc" THEN "frame" ELSE "walk", ok |-> TRUE]
BY DEF Start, FirstPc

\* A step inside an iteration changes the frame and the place in the loop.
LEMMA CallMoves ==
  ASSUME CallInv, call.op # "none", NEW g \in Nat,
         NEW p \in {"frame", "walk", "address", "invlpg", "release"},
         \/ call' = [call EXCEPT !.frame = g, !.pc = p]
         \/ g = call.frame /\ call' = [call EXCEPT !.pc = p],
         UNCHANGED <<count, stage>>,
         call.op = "malloc" => p \in {"frame", "walk", "address", "invlpg"},
         call.op = "free" => p \in {"walk", "invlpg", "release"},
         call.op = "map" => p \in {"walk", "address", "invlpg"} /\ g = call.frame
  PROVE  /\ CallInv'
         /\ call'.op = call.op /\ call'.ok = call.ok /\ call'.frame = g /\ call'.pc = p
         /\ Page(call') = Page(call) /\ CallPages' = CallPages /\ DonePages' = DonePages
         /\ NextPages' = NextPages
<1>1. call \in CallRecords
  BY DEF CallInv
<1>2. /\ call' \in CallRecords
      /\ call'.op = call.op /\ call'.base = call.base /\ call'.n = call.n
      /\ call'.i = call.i /\ call'.page = call.page /\ call'.ok = call.ok
      /\ call'.frame = g /\ call'.pc = p
  BY <1>1 DEF CallRecords
<1>3. /\ Page(call') = Page(call) /\ CallPages' = CallPages /\ DonePages' = DonePages
      /\ NextPages' = NextPages /\ VmmPages' = VmmPages
  BY <1>2 DEF Page, CallPages, DonePages, NextPages, VmmPages
<1>4. CallInv'
  BY <1>2, <1>3 DEF CallInv
<1> QED  BY <1>2, <1>3, <1>4

\* The two stores that make a table change the table and the place in the loop.
LEMMA CallLinks ==
  ASSUME CallInv, call.op # "none", NEW t \in Nat, NEW p \in {"walk", "link"},
         call' = [call EXCEPT !.table = t, !.pc = p], UNCHANGED <<count, stage>>
  PROVE  /\ CallInv'
         /\ call'.op = call.op /\ call'.ok = call.ok /\ call'.frame = call.frame
         /\ call'.table = t /\ call'.pc = p
         /\ Page(call') = Page(call) /\ CallPages' = CallPages /\ DonePages' = DonePages
         /\ NextPages' = NextPages
<1>1. call \in CallRecords
  BY DEF CallInv
<1>2. /\ call' \in CallRecords
      /\ call'.op = call.op /\ call'.base = call.base /\ call'.n = call.n
      /\ call'.i = call.i /\ call'.page = call.page /\ call'.ok = call.ok
      /\ call'.frame = call.frame /\ call'.table = t /\ call'.pc = p
  BY <1>1 DEF CallRecords
<1>3. /\ Page(call') = Page(call) /\ CallPages' = CallPages /\ DonePages' = DonePages
      /\ NextPages' = NextPages /\ VmmPages' = VmmPages
  BY <1>2 DEF Page, CallPages, DonePages, NextPages, VmmPages
<1>4. CallInv'
  BY <1>2, <1>3 DEF CallInv
<1> QED  BY <1>2, <1>3, <1>4

\* At the end of an iteration the call is over or at the start of its next page.
LEMMA NextCallIs ==
  ASSUME CallInv, call.op # "none", NEW ok \in BOOLEAN, NEW step \in {0, 1},
         call' = NextCall(ok, step)
  PROVE  \/ call.i + 1 = call.n /\ call' = NoCall
         \/ /\ call.i + 1 < call.n
            /\ call' = [op |-> call.op, base |-> call.base, n |-> call.n, i |-> call.i + 1,
                        page |-> call.page + step,
                        frame |-> IF call.op = "map" THEN call.frame + 1 ELSE 0,
                        table |-> call.table,
                        pc |-> IF call.op = "malloc" THEN "frame" ELSE "walk",
                        ok |-> call.ok /\ ok]
<1>1. call \in CallRecords
      /\ call.i < call.n
  BY DEF CallInv
<1>2. CASE call.i + 1 = call.n
  BY <1>2 DEF NextCall
<1>3. CASE call.i + 1 # call.n
  <2>1. call.i + 1 < call.n
    BY <1>1, <1>3 DEF CallRecords
  <2> QED  BY <1>1, <1>3, <2>1 DEF NextCall, FirstPc, CallRecords
<1> QED  BY <1>2, <1>3
-----------------------------------------------------------------------------
(* memory_init *)

\* The pmm bitmap finds its place: its pages are the first that are used.
LEMMA BitmapKeeps ==
  ASSUME IInv, get_free_location_for_bitmap
  PROVE  IInv'
<1>1. /\ stage = "reset" /\ memmap \in MemoryMaps /\ refused \in BOOLEAN
      /\ memmap' = memmap /\ call' = NoCall /\ count' = highestPage
      /\ pmm = {} /\ vmm' = {} /\ bitmap = {} /\ tlb' = {} /\ stale' = {} /\ stray' = {}
      /\ DOMAIN tables' = {} /\ DOMAIN pte' = {} /\ DOMAIN owned' = {} /\ DOMAIN dma' = {}
      /\ refused' = refused
  BY DEF IInv, BootInv, get_free_location_for_bitmap
<1>2. highestPage \in Nat /\ Usable \subseteq 1 .. (highestPage - 1)
      /\ Usable' = Usable /\ highestPage' = highestPage
  BY <1>1, UsableIs, MapKept
<1>3. CallInv' /\ CallPagesInv' /\ ~ InFlight' /\ ~ Linking' /\ HalfWritten' = {}
  BY <1>1, NoCallIsNext
<1>4. \/ stage' = "fault" /\ pmm' = {} /\ bitmap' = {}
      \/ /\ stage' = "bitmap" /\ bitmap' \subseteq Usable
         /\ pmm' = ((0 .. (highestPage - 1)) \ Usable) \cup bitmap'
  BY <1>1, <1>2, BitmapFits
  DEF get_free_location_for_bitmap, MarkedAtBoot, init_bitmap_data
<1>5. bitmap' \subseteq Usable /\ pmm' \subseteq 0 .. (highestPage - 1)
  <2>1. Usable \subseteq 0 .. (highestPage - 1)
    BY <1>2
  <2> QED  BY <2>1, <1>4, Zenon
<1>6. BootInv'
  BY <1>1, <1>2, <1>4, <1>5 DEF BootInv
<1>7. PteInv' /\ OwnedInv' /\ TlbInv'
  BY <1>1 DEF PteInv, OwnedInv, TlbInv, StrayInv, TlbCoherent
<1>8. FrameInv'
  BY <1>1, <1>2, <1>3, <1>5 DEF FrameInv
<1>9. ASSUME NEW f, NEW u
      PROVE  u \in Users(f)' <=> f \in bitmap' /\ u = <<"bitmap", 0>>
  BY <1>1, <1>3, UserIsNext
<1>10. OneUser'
  <2>1. \A f \in Usable : f \in bitmap' => f \in pmm'
    BY <1>4
  <2> QED  BY <1>2, <1>9, <2>1 DEF OneUser
<1>11. NoLeakInv'
  <2>1. stage' # "fault" => \A f \in pmm' \cap Usable : f \in bitmap'
    BY <1>4
  <2>2. stage' # "fault" => \A f \in pmm' \cap Usable : Users(f)' # {}
    BY <1>9, <2>1
  <2> QED  BY <1>1, <1>2, <2>2, NoCallIs DEF NoLeakInv
<1> QED  BY <1>1, <1>3, <1>6, <1>7, <1>8, <1>10, <1>11 DEF IInv

\* The vmm bitmap takes pages that nothing uses.
LEMMA InitVmmKeeps ==
  ASSUME IInv, init_vmm
  PROVE  IInv'
<1>1. /\ stage = "bitmap" /\ memmap' = memmap /\ refused \in BOOLEAN /\ refused' \in BOOLEAN
      /\ call' = NoCall /\ call = NoCall /\ count' = count /\ bitmap' = bitmap
      /\ tlb' = {} /\ stale' = {} /\ stray' = {}
      /\ DOMAIN tables' = {} /\ DOMAIN pte' = {} /\ DOMAIN owned' = {} /\ DOMAIN dma = {}
      /\ UNCHANGED tables
      /\ BootInv /\ OneUser /\ FrameInv /\ NoLeakInv
  BY DEF IInv, BootInv, init_vmm
<1>2. /\ count \in Nat /\ count = highestPage /\ Usable \subseteq 1 .. (count - 1)
      /\ Usable' = Usable /\ highestPage' = highestPage
  BY <1>1, CountIs, MapKept
<1>3. CallInv' /\ CallPagesInv' /\ ~ InFlight' /\ ~ Linking' /\ HalfWritten' = {}
      /\ ~ InFlight /\ ~ Linking /\ HalfWritten = {}
  BY <1>1, NoCallIsNext, NoCallIs
<1>4. PteInv' /\ OwnedInv' /\ TlbInv'
  BY <1>1 DEF PteInv, OwnedInv, TlbInv, StrayInv, TlbCoherent
<1>5. PICK n \in Nat : n = BitmapPages(count)
  <2>1. BitmapPages(count) \in Nat
    <3>1. count \in Nat /\ PAGE_SIZE \in Nat \ {0}
      BY <1>2, MemoryAssumption
    <3>2. reqSize(count) \in Nat
      BY <3>1, RoundUpIs DEF reqSize
    <3> QED  BY <3>1, <3>2, RoundUpIs DEF BitmapPages
  <2> QED  BY <2>1
<1>6. CASE pmm_malloc(n) = {}
  <2>1. pmm' = pmm /\ vmm' = vmm /\ dma' = dma /\ stage' = "novmm" /\ refused' = TRUE
    BY <1>5, <1>6 DEF init_vmm
  <2>2. BootInv'
    BY <1>1, <1>2, <2>1 DEF BootInv
  <2>3. FrameInv'
    BY <1>1, <1>2, <1>3, <2>1 DEF FrameInv
  <2>4. \A f : Users(f)' \subseteq Users(f)
    BY <1>1, <1>3, <2>1, UserIs, UserIsNext
  <2>5. OneUser'
    BY <1>1, <2>1, <2>4, OneUserStep
  <2>6. NoLeakInv'
    BY <2>1 DEF NoLeakInv
  <2> QED  BY <1>1, <1>3, <1>4, <2>2, <2>3, <2>5, <2>6 DEF IInv
<1>7. CASE pmm_malloc(n) # {}
  <2>1. PICK b \in Nat :
          /\ b \in pmm_malloc(n)
          /\ pmm' = pmm \cup b .. (b + n - 1) /\ vmm' = {} /\ stage' = "vmm"
          /\ dma' = With(dma, b, n) /\ refused' = refused
    <3>1. \A b \in pmm_malloc(n) : b \in Nat
      BY <1>1, <1>5, FreeFramesAre
    <3> QED  BY <1>5, <1>7, <3>1 DEF init_vmm, write_bits_in_range_from, clear
  <2>2. /\ n > 0
        /\ b .. (b + n - 1) \subseteq Usable /\ b .. (b + n - 1) \subseteq 0 .. (count - 1)
        /\ \A f \in b .. (b + n - 1) : f \notin pmm /\ Users(f) = {}
    BY <1>1, <1>5, <2>1, FreeFramesAre
  <2>3. DOMAIN dma' = {b} /\ dma'[b] = n
    <3>1. DOMAIN With(dma, b, n) = (DOMAIN dma) \cup {b} /\ With(dma, b, n)[b] = n
      BY DEF With
    <3> QED  BY <1>1, <2>1, <3>1
  <2>4. BootInv'
    BY <1>1, <1>2, <2>1, <2>2 DEF BootInv
  <2>5. FrameInv'
    BY <1>1, <1>2, <1>3, <1>5, <2>2, <2>3 DEF FrameInv
  <2>6. ASSUME NEW f, NEW u
        PROVE  u \in Users(f)' <=> \/ u \in Users(f)
                                   \/ f \in b .. (b + n - 1) /\ u = <<"range", b>>
    <3>1. u \in Users(f) <=> f \in bitmap /\ u = <<"bitmap", 0>>
      <4>1. DOMAIN tables = {} /\ DOMAIN pte = {} /\ DOMAIN dma = {} /\ ~ InFlight /\ ~ Linking
        BY <1>1, <1>3 DEF BootInv
      <4> QED  BY <4>1, UserIs
    <3>2. u \in Users(f)' <=> \/ f \in bitmap /\ u = <<"bitmap", 0>>
                              \/ f \in b .. (b + n - 1) /\ u = <<"range", b>>
      <4>1. u \in Users(f)' <=> \/ f \in bitmap /\ u = <<"bitmap", 0>>
                                \/ \E c \in DOMAIN dma' :
                                    f \in c .. (c + dma'[c] - 1) /\ u = <<"range", c>>
        BY <1>1, <1>3, UserIsNext
      <4> QED  BY <4>1, <2>3, <2>2, <1>5
    <3> QED  BY <3>1, <3>2
  <2>7. OneUser'
    <3>1. ASSUME NEW f \in Usable, f \in b .. (b + n - 1)
          PROVE  f \in pmm' /\ Users(f)' \subseteq {<<"range", b>>}
      BY <3>1, <2>1, <2>2, <2>6
    <3>2. ASSUME NEW f \in Usable, f \notin b .. (b + n - 1)
          PROVE  Users(f)' \subseteq Users(f) /\ (f \in pmm => f \in pmm')
      BY <3>2, <2>1, <2>6
    <3> QED  BY <1>1, <3>1, <3>2, OneUserStep
  <2>8. NoLeakInv'
    <3>1. SUFFICES ASSUME refused = FALSE
                   PROVE  \A f \in pmm' \cap Usable : Users(f)' # {}
      BY <1>1, <1>2, <2>1, NoCallIs DEF NoLeakInv
    <3>2. \A f \in pmm \cap Usable : Users(f) # {}
      BY <1>1, <3>1 DEF NoLeakInv
    <3>3. ASSUME NEW f \in pmm' \cap Usable
          PROVE  \E u : u \in Users(f)'
      BY <3>2, <2>1, <2>2, <2>6
    <3> QED  BY <3>3
  <2> QED  BY <1>1, <1>3, <1>4, <2>4, <2>5, <2>7, <2>8 DEF IInv
<1> QED  BY <1>6, <1>7
-----------------------------------------------------------------------------
(* Steps that only move the call on *)

\* Entries stay right while marks and tables are only added.
LEMMA PteQuiet ==
  ASSUME PteInv, UNCHANGED <<memmap, count, pte>>, pmm \subseteq pmm',
         DOMAIN tables \subseteq DOMAIN tables', HalfWritten \subseteq HalfWritten'
  PROVE  PteInv'
<1>1. Usable' = Usable /\ VmmPages' = VmmPages
  BY MapKept DEF VmmPages
<1>2. \A v : Missing(v)' \subseteq Missing(v)
  BY DEF Missing
<1> QED  BY <1>1, <1>2 DEF PteInv

\* A step that leaves the frames alone, after which nothing is in flight or half
\* written, takes at most the call's own frame away from the users.
LEMMA QuietStep ==
  ASSUME IInv, UNCHANGED <<memmap, count, bitmap, pmm, tables, pte, dma>>,
         HalfWritten = {}, HalfWritten' = {}, ~ InFlight', ~ Linking, ~ Linking'
  PROVE  /\ Usable' = Usable /\ highestPage' = highestPage
         /\ PteInv' /\ FrameInv' /\ OneUser'
         /\ ~ InFlight => \A f : Users(f)' = Users(f)
<1>1. Usable' = Usable /\ highestPage' = highestPage
  BY MapKept
<1>2. PteInv'
  BY PteQuiet DEF IInv
<1>3. FrameInv'
  BY <1>1 DEF IInv, FrameInv
<1>4. ASSUME NEW f, NEW u
      PROVE  /\ u \in Users(f)' => u \in Users(f)
             /\ ~ InFlight /\ u \in Users(f) => u \in Users(f)'
  BY UserIs, UserIsNext
<1>5. OneUser'
  <2>1. \A f \in Usable : Users(f)' \subseteq Users(f) /\ (f \in pmm => f \in pmm')
    BY <1>4
  <2> QED  BY <2>1, OneUserStep DEF IInv
<1>6. ASSUME ~ InFlight, NEW f
      PROVE  Users(f)' = Users(f)
  BY <1>4, <1>6
<1> QED  BY <1>1, <1>2, <1>3, <1>5, <1>6

\* No more is remembered of half-written entries, and invlpg drops what there was of the
\* page whose entry has been changed.
LEMMA StrayQuiet ==
  ASSUME IInv, DOMAIN pte' \subseteq DOMAIN pte,
         \/ UNCHANGED <<stale, stray>> /\ call.pc \notin {"address", "invlpg"}
         \/ Invlpg(Page(call))
  PROVE  StrayInv' /\ stray' \subseteq Nat \X Nat
<1>1. StrayInv /\ stray \subseteq Nat \X Nat
  BY DEF IInv, TlbInv
<1>2. stray' \subseteq stray /\ stale' \subseteq stale
  BY DEF Invlpg
<1>3. ASSUME NEW v \in DOMAIN pte'
      PROVE  ~ Astray(v)' /\ \A e \in stray' : e[1] # v
  <2>1. CASE BeingChanged(v)
    <3>1. Invlpg(Page(call)) /\ v = Page(call)
      BY <2>1 DEF BeingChanged
    <3> QED  BY <3>1 DEF Invlpg, Astray
  <2>2. CASE ~ BeingChanged(v)
    <3>1. ~ Astray(v) /\ \A e \in stray : e[1] # v
      BY <1>1, <1>3, <2>2 DEF StrayInv
    <3> QED  BY <1>2, <3>1 DEF Astray
  <2> QED  BY <2>1, <2>2
<1> QED  BY <1>1, <1>2, <1>3 DEF StrayInv

\* The same while map_page is at work on the entry of a page.
LEMMA StrayChanged ==
  ASSUME IInv, NEW p, p = Page(call), BeingChanged(p)',
         DOMAIN pte' \subseteq (DOMAIN pte) \cup {p}, UNCHANGED <<stale, stray>>
  PROVE  /\ StrayInv' /\ stray' \subseteq Nat \X Nat
         /\ \A e \in stray' : e[1] \in DOMAIN pte' => BeingChanged(e[1])'
<1>1. StrayInv /\ stray \subseteq Nat \X Nat
  BY DEF IInv, TlbInv
<1>2. ASSUME NEW v \in DOMAIN pte'
      PROVE  BeingChanged(v)' \/ (~ Astray(v)' /\ \A e \in stray' : e[1] # v)
  <2>1. CASE v = p
    BY <2>1
  <2>2. CASE v # p
    BY <1>1, <1>2, <2>2 DEF StrayInv, BeingChanged, Astray
  <2> QED  BY <2>1, <2>2
<1>3. StrayInv'
  BY <1>2 DEF StrayInv
<1>4. \A e \in stray' : e[1] \in DOMAIN pte' => BeingChanged(e[1])'
  BY <1>2
<1> QED  BY <1>1, <1>3, <1>4

\* The TLB stays coherent when the entry in the making is finished and dropped.
LEMMA TlbQuiet ==
  ASSUME IInv, UNCHANGED <<count, pte>>, pmm \subseteq pmm',
         \/ UNCHANGED <<tlb, stale, stray>> /\ call.pc \notin {"address", "invlpg"}
         \/ Invlpg(Page(call))
  PROVE  TlbInv'
<1>1. TlbCoherent /\ tlb \subseteq Nat \X Nat
  BY DEF IInv, TlbInv
<1>2. ASSUME NEW e \in tlb'
      PROVE  /\ e[1] \in DOMAIN pte /\ pte[e[1]] = e[2]
             /\ e[2] < count => e[2] \in pmm'
  BY <1>1 DEF TlbCoherent, BeingChanged, Invlpg
<1>3. tlb' \subseteq Nat \X Nat
  BY <1>1 DEF Invlpg
<1>4. StrayInv' /\ stray' \subseteq Nat \X Nat
  BY StrayQuiet
<1>5. \A e \in stray' : e[1] \in DOMAIN pte' => BeingChanged(e[1])'
  BY <1>4 DEF StrayInv
<1> QED  BY <1>2, <1>3, <1>4, <1>5 DEF TlbInv, TlbCoherent

\* What a caller owns stays its own while entries and marks are left alone.
LEMMA OwnedQuiet ==
  ASSUME IInv, UNCHANGED <<count, pte, owned>>, pmm \subseteq pmm', vmm \subseteq vmm'
  PROVE  OwnedInv'
<1>1. \A b : OwnedPages(b)' = OwnedPages(b)
  BY DEF OwnedPages
<1>2. VmmPages' = VmmPages
  BY DEF VmmPages
<1> QED  BY <1>1, <1>2 DEF IInv, OwnedInv
-----------------------------------------------------------------------------
(* New calls *)

\* vmm_malloc_pages reserves a range nobody has.
LEMMA VmmMallocKeeps ==
  ASSUME IInv, NEW n \in Nat, vmm_malloc_pages(n)
  PROVE  IInv'
<1>1. /\ call = NoCall /\ stage \in {"vmm", "up"} /\ BootInv /\ NoLeakInv /\ OwnedInv
      /\ UNCHANGED <<memmap, count, bitmap, pmm, tables, pte, tlb, stale, stray, owned, heap,
                     dma, refused>>
  BY DEF IInv, vmm_malloc_pages
<1>2. count \in Nat /\ count = highestPage /\ VMM_BASE \in Nat
  BY <1>1, CountIs, MemoryAssumption
<1>3. ~ InFlight /\ ~ Linking /\ HalfWritten = {} /\ call.pc = "none" /\ call.op = "none"
  BY <1>1, NoCallIs
<1>4. TlbInv'
  BY <1>1, <1>3, TlbQuiet
<1>5. CASE find_free_range(vmm, count, n) = {}
  <2>1. stage' = "up" /\ vmm' = vmm /\ call' = NoCall
    BY <1>1, <1>5 DEF vmm_malloc_pages
  <2>2. CallInv' /\ CallPagesInv' /\ ~ InFlight' /\ ~ Linking' /\ HalfWritten' = {}
    BY <2>1, NoCallIsNext
  <2>3. /\ Usable' = Usable /\ highestPage' = highestPage /\ PteInv' /\ FrameInv' /\ OneUser'
        /\ \A f : Users(f)' = Users(f)
    BY <1>1, <1>3, <2>2, QuietStep
  <2>4. OwnedInv'
    BY <1>1, <2>1, OwnedQuiet
  <2>5. BootInv'
    BY <1>1, <1>2, <2>1, <2>3 DEF BootInv
  <2>6. NoLeakInv'
    BY <1>1, <2>1, <2>3, NoCallIs DEF NoLeakInv, VmmPages
  <2> QED  BY <1>1, <1>4, <2>2, <2>3, <2>4, <2>5, <2>6 DEF IInv
<1>6. CASE find_free_range(vmm, count, n) # {}
  <2>1. PICK b \in Nat :
          /\ b \in find_free_range(vmm, count, n)
          /\ vmm' = vmm \cup b .. (b + n - 1) /\ stage' = stage
          /\ call' = Start("malloc", VMM_BASE + b, n, 0)
    <3>1. \A b \in find_free_range(vmm, count, n) : b \in Nat
      BY <1>2, FreeRangeIs
    <3> QED  BY <1>6, <3>1 DEF vmm_malloc_pages, write_bits_in_range_from
  <2>2. /\ n > 0 /\ b + n <= count
        /\ \A k \in b .. (b + n - 1) : k \notin vmm /\ k \in 0 .. (count - 1)
    BY <1>2, <2>1, FreeRangeIs
  <2>3. call' = [op |-> "malloc", base |-> VMM_BASE + b, n |-> n, i |-> 0,
                 page |-> VMM_BASE + b, frame |-> 0, table |-> 0, pc |-> "frame", ok |-> TRUE]
    BY <2>1, StartIs
  <2>4. /\ CallPages' = (VMM_BASE + b) .. (VMM_BASE + b + n - 1)
        /\ DonePages' = {} /\ Page(call') = VMM_BASE + b
        /\ NextPages' \subseteq CallPages' /\ Page(call') \in CallPages'
    BY <1>2, <2>2, <2>3 DEF CallPages, DonePages, NextPages, Page
  <2>5. \A v \in CallPages' : v \in VmmPages /\ v - VMM_BASE \in b .. (b + n - 1)
    BY <1>2, <2>2, <2>4 DEF VmmPages
  <2>6. ~ InFlight' /\ ~ Linking' /\ HalfWritten' = {}
    BY <2>3 DEF HalfWritten, InFlight, Linking, Working
  <2>7. /\ Usable' = Usable /\ highestPage' = highestPage /\ PteInv' /\ FrameInv' /\ OneUser'
        /\ \A f : Users(f)' = Users(f)
    BY <1>1, <1>3, <2>6, QuietStep
  <2>8. VmmPages' = VmmPages
    BY <1>1 DEF VmmPages
  <2>9. OwnedInv'
    BY <1>1, <2>1, OwnedQuiet
  <2>10. BootInv'
    BY <1>1, <1>2, <2>1, <2>2, <2>7 DEF BootInv
  <2>11. CallInv'
    <3>1. VMM_BASE + b \in Nat
      BY <1>2
    <3>2. call' \in CallRecords
      BY <2>3, <3>1 DEF CallRecords
    <3>3. call'.op = "malloc" /\ call'.pc = "frame" /\ call'.i < call'.n
      BY <2>2, <2>3
    <3>4. CallPages' \subseteq VmmPages'
      BY <2>5, <2>8
    <3> QED  BY <1>1, <2>1, <3>2, <3>3, <3>4 DEF CallInv
  <2>12. CallPagesInv'
    <3>1. \A o \in DOMAIN owned : OwnedPages(o)' \cap CallPages' = {}
      BY <1>1, <2>2, <2>5 DEF OwnedInv, OwnedPages
    <3>2. \A v \in CallPages' : (v - VMM_BASE) \in vmm'
      BY <2>1, <2>5
    <3> QED  BY <1>1, <2>3, <2>4, <3>1, <3>2 DEF CallPagesInv
  <2>13. NoLeakInv'
    <3>1. SUFFICES ASSUME refused = FALSE
                   PROVE  /\ \A f \in pmm' \cap Usable' : Users(f)' # {}
                          /\ \A v \in DOMAIN pte \cap VmmPages : (v - VMM_BASE) \in vmm'
                          /\ \A v \in CallPages' : v \notin DOMAIN pte
      BY <1>1, <2>4, <2>8 DEF NoLeakInv
    <3>2. /\ \A f \in pmm \cap Usable : Users(f) # {}
          /\ \A v \in DOMAIN pte \cap VmmPages : (v - VMM_BASE) \in vmm
      BY <1>1, <3>1 DEF NoLeakInv
    <3>3. \A v \in CallPages' : v \notin DOMAIN pte
      BY <2>2, <2>5, <3>2
    <3> QED  BY <1>1, <2>1, <2>7, <3>2, <3>3
  <2> QED  BY <1>1, <1>4, <2>7, <2>9, <2>10, <2>11, <2>12, <2>13 DEF IInv
<1> QED  BY <1>5, <1>6

\* map_pages works on the register window, away from everything owned.
LEMMA MapPagesKeeps ==
  ASSUME IInv, NEW n \in Nat, map_pages(n)
  PROVE  IInv'
<1>1. /\ call = NoCall /\ stage \in {"up", "novmm"} /\ n \in 1 .. MAX_PAGES
      /\ BootInv /\ NoLeakInv
      /\ call' = Start("map", MMIO_BASE, n, MMIO_FRAME)
      /\ UNCHANGED <<memmap, count, bitmap, stage, pmm, vmm, tables, pte, tlb, stale, stray,
                     owned, heap, dma, refused>>
  BY DEF IInv, map_pages, Ready
<1>2. MMIO_BASE \in Nat /\ MMIO_FRAME \in Nat /\ MAX_PAGES \in Nat
  BY MemoryAssumption
<1>3. ~ InFlight /\ ~ Linking /\ HalfWritten = {} /\ call.pc = "none"
  BY <1>1, NoCallIs
<1>4. TlbInv'
  BY <1>1, <1>3, TlbQuiet
<1>5. call' = [op |-> "map", base |-> MMIO_BASE, n |-> n, i |-> 0, page |-> MMIO_BASE,
               frame |-> MMIO_FRAME, table |-> 0, pc |-> "walk", ok |-> TRUE]
  BY <1>1, StartIs
<1>6. ~ InFlight' /\ ~ Linking' /\ HalfWritten' = {}
  BY <1>5 DEF HalfWritten, InFlight, Linking, Working
<1>7. /\ Usable' = Usable /\ highestPage' = highestPage /\ PteInv' /\ FrameInv' /\ OneUser'
      /\ \A f : Users(f)' = Users(f)
  BY <1>1, <1>3, <1>6, QuietStep
<1>8. VmmPages' = VmmPages
  BY <1>1 DEF VmmPages
<1>9. OwnedInv'
  BY <1>1, OwnedQuiet
<1>10. BootInv'
  BY <1>1, <1>7 DEF BootInv
<1>11. CallInv'
  <2>1. call' \in CallRecords
    BY <1>2, <1>5 DEF CallRecords
  <2>2. /\ call'.op = "map" /\ call'.pc = "walk" /\ call'.i = 0 /\ call'.n = n
        /\ call'.base = MMIO_BASE /\ call'.frame = MMIO_FRAME
    BY <1>5
  <2>3. 0 < n /\ n <= MAX_PAGES /\ MMIO_FRAME + 0 = MMIO_FRAME
    BY <1>1, <1>2
  <2> QED  BY <2>1, <2>2, <2>3 DEF CallInv
<1>12. CallPagesInv'
  BY <1>5 DEF CallPagesInv
<1>13. NoLeakInv'
  BY <1>1, <1>5, <1>7, <1>8 DEF NoLeakInv
<1> QED  BY <1>1, <1>4, <1>7, <1>9, <1>10, <1>11, <1>12, <1>13 DEF IInv

\* vmm_free_pages takes whole ranges from their owners, or pages that are nobody's.
LEMMA VmmFreeKeeps ==
  ASSUME IInv, NEW b \in VMM_BASE .. (VMM_BASE + count - 1), NEW n \in 1 .. MAX_PAGES,
         vmm_free_pages(b, n)
  PROVE  IInv'
<1> DEFINE wanted == b .. (b + n - 1)
<1>1. /\ call = NoCall /\ stage = "up" /\ b + n <= VMM_BASE + count
      /\ BootInv /\ NoLeakInv /\ OwnedInv
      /\ \A o \in DOMAIN owned : OwnedPages(o) \cap wanted # {} => OwnedPages(o) \subseteq wanted
      /\ owned' = Without(owned, wanted)
      /\ call' = Start("free", b, n, 0)
      /\ UNCHANGED <<memmap, count, bitmap, stage, pmm, vmm, tables, pte, tlb, stale, stray,
                     heap, dma, refused>>
  BY DEF IInv, vmm_free_pages, Ready, OwnedPages
<1>2. count \in Nat /\ VMM_BASE \in Nat /\ MAX_PAGES \in Nat /\ b \in Nat /\ n \in Nat
  BY <1>1, CountIs, MemoryAssumption
<1>3. ~ InFlight /\ ~ Linking /\ HalfWritten = {} /\ call.pc = "none"
  BY <1>1, NoCallIs
<1>4. TlbInv'
  BY <1>1, <1>3, TlbQuiet
<1>5. call' = [op |-> "free", base |-> b, n |-> n, i |-> 0, page |-> b, frame |-> 0,
               table |-> 0, pc |-> "walk", ok |-> TRUE]
  BY <1>1, StartIs
<1>6. ~ InFlight' /\ ~ Linking' /\ HalfWritten' = {}
  BY <1>5 DEF HalfWritten, InFlight, Linking, Working
<1>7. /\ Usable' = Usable /\ highestPage' = highestPage /\ PteInv' /\ FrameInv' /\ OneUser'
      /\ \A f : Users(f)' = Users(f)
  BY <1>1, <1>3, <1>6, QuietStep
<1>8. VmmPages' = VmmPages /\ CallPages' = wanted /\ wanted \subseteq VmmPages
      /\ DonePages' = {} /\ Page(call') = b
  BY <1>1, <1>2, <1>5 DEF VmmPages, CallPages, DonePages, Page
<1>9. /\ DOMAIN owned' \subseteq DOMAIN owned
      /\ \A o \in DOMAIN owned' : o \notin wanted /\ OwnedPages(o)' = OwnedPages(o)
                                /\ owned'[o] = owned[o]
  <2>1. /\ DOMAIN owned' = (DOMAIN owned) \ wanted
        /\ \A o \in (DOMAIN owned) \ wanted : owned'[o] = owned[o]
    BY <1>1 DEF Without
  <2> QED  BY <2>1 DEF OwnedPages
<1>10. OwnedInv'
  BY <1>1, <1>8, <1>9 DEF OwnedInv
<1>11. BootInv'
  BY <1>1, <1>7 DEF BootInv
<1>12. CallInv'
  <2>1. call' \in CallRecords
    BY <1>2, <1>5 DEF CallRecords
  <2>2. /\ call'.op = "free" /\ call'.pc = "walk" /\ call'.i = 0 /\ call'.n = n
        /\ call'.base = b /\ call'.page = b
    BY <1>5
  <2>3. 0 < n /\ b \in b .. b
    BY <1>1, <1>2
  <2> QED  BY <1>1, <1>8, <2>1, <2>2, <2>3 DEF CallInv
<1>13. CallPagesInv'
  <2>1. ASSUME NEW o \in DOMAIN owned'
        PROVE  OwnedPages(o)' \cap CallPages' = {}
    <3>1. o \in DOMAIN owned /\ o \notin wanted /\ OwnedPages(o)' = OwnedPages(o)
      BY <1>9
    <3>2. o \in OwnedPages(o)
      <4>1. o \in Nat /\ owned[o] \in Nat \ {0}
        BY <1>1, <3>1 DEF OwnedInv
      <4> QED  BY <4>1, <3>1 DEF OwnedPages
    <3> QED  BY <1>1, <1>8, <3>1, <3>2
  <2> QED  BY <1>5, <1>8, <2>1 DEF CallPagesInv
<1>14. NoLeakInv'
  BY <1>1, <1>5, <1>7, <1>8 DEF NoLeakInv
<1> QED  BY <1>1, <1>4, <1>7, <1>10, <1>11, <1>12, <1>13, <1>14 DEF IInv

\* pmm_malloc_pages: a device's pages were nobody's.
LEMMA PmmMallocKeeps ==
  ASSUME IInv, NEW n \in Nat, pmm_malloc_pages(n)
  PROVE  IInv'
<1>1. /\ call = NoCall /\ call' = NoCall /\ stage \in {"up", "novmm"}
      /\ BootInv /\ NoLeakInv /\ FrameInv /\ OneUser /\ PteInv /\ refused' \in BOOLEAN
      /\ UNCHANGED <<memmap, count, bitmap, stage, vmm, tables, pte, tlb, stale, stray, call,
                     owned, heap>>
  BY DEF IInv, pmm_malloc_pages, Ready
<1>2. count \in Nat /\ Usable' = Usable /\ highestPage' = highestPage /\ VmmPages' = VmmPages
  BY <1>1, CountIs, MapKept DEF VmmPages
<1>3. /\ ~ InFlight /\ ~ Linking /\ HalfWritten = {} /\ call.pc = "none" /\ call.op = "none"
      /\ CallInv' /\ CallPagesInv' /\ ~ InFlight' /\ ~ Linking' /\ HalfWritten' = {} /\ call'.op = "none"
  BY <1>1, NoCallIs, NoCallIsNext
<1>4. pmm \subseteq pmm'
  BY DEF pmm_malloc_pages, write_bits_in_range_from
<1>5. TlbInv'
  BY <1>1, <1>3, <1>4, TlbQuiet
<1>6. OwnedInv' /\ PteInv'
  BY <1>1, <1>3, <1>4, OwnedQuiet, PteQuiet
<1>7. CASE pmm_malloc(n) = {}
  <2>1. pmm' = pmm /\ dma' = dma /\ refused' = TRUE
    BY <1>7 DEF pmm_malloc_pages
  <2>2. FrameInv' /\ OneUser'
    BY <1>1, <1>3, <2>1, QuietStep
  <2>3. BootInv'
    BY <1>1, <1>2, <2>1 DEF BootInv
  <2>4. NoLeakInv'
    BY <2>1 DEF NoLeakInv
  <2> QED  BY <1>1, <1>3, <1>5, <1>6, <2>2, <2>3, <2>4 DEF IInv
<1>8. CASE pmm_malloc(n) # {}
  <2>1. PICK b \in Nat :
          /\ b \in pmm_malloc(n)
          /\ pmm' = pmm \cup b .. (b + n - 1)
          /\ dma' = With(dma, b, n) /\ refused' = refused
    <3>1. \A b \in pmm_malloc(n) : b \in Nat
      BY <1>1, FreeFramesAre
    <3> QED  BY <1>8, <3>1 DEF pmm_malloc_pages, write_bits_in_range_from
  <2>2. /\ n > 0 /\ b \in b .. (b + n - 1)
        /\ b .. (b + n - 1) \subseteq Usable /\ b .. (b + n - 1) \subseteq 0 .. (count - 1)
        /\ \A f \in b .. (b + n - 1) : f \notin pmm /\ Users(f) = {}
    <3>1. n > 0 /\ b .. (b + n - 1) \subseteq Usable /\ b .. (b + n - 1) \subseteq 0 .. (count - 1)
          /\ \A f \in b .. (b + n - 1) : f \notin pmm /\ Users(f) = {}
      BY <1>1, <2>1, FreeFramesAre
    <3> QED  BY <3>1
  <2>3. b \notin DOMAIN dma
    <3>1. SUFFICES ASSUME b \in DOMAIN dma PROVE FALSE
      OBVIOUS
    <3>2. dma[b] \in Nat \ {0}
      BY <1>1, <3>1 DEF FrameInv
    <3>3. b \in b .. (b + dma[b] - 1)
      BY <3>2
    <3>4. <<"range", b>> \in Users(b)
      BY <3>1, <3>3, UserIs
    <3> QED  BY <2>2, <3>4
  <2>4. /\ DOMAIN dma' = (DOMAIN dma) \cup {b} /\ dma'[b] = n
        /\ \A c \in DOMAIN dma : dma'[c] = dma[c]
    BY <2>1, <2>3 DEF With
  <2>5. BootInv'
    BY <1>1, <1>2, <2>1, <2>2 DEF BootInv
  <2>6. FrameInv'
    BY <1>1, <1>2, <1>3, <2>2, <2>4 DEF FrameInv
  <2>7. ASSUME NEW f, NEW u
        PROVE  u \in Users(f)' <=>
                 \/ u \in Users(f)
                 \/ f \in b .. (b + n - 1) /\ u = <<"range", b>>
    <3>1. (\E c \in DOMAIN dma' : f \in c .. (c + dma'[c] - 1) /\ u = <<"range", c>>) <=>
            \/ \E c \in DOMAIN dma : f \in c .. (c + dma[c] - 1) /\ u = <<"range", c>>
            \/ f \in b .. (b + n - 1) /\ u = <<"range", b>>
      BY <2>4
    <3> QED  BY <1>1, <1>3, <3>1, UserIs, UserIsNext
  <2>8. OneUser'
    <3>1. ASSUME NEW f \in Usable, f \in b .. (b + n - 1)
          PROVE  f \in pmm' /\ Users(f)' \subseteq {<<"range", b>>}
      BY <3>1, <2>1, <2>2, <2>7
    <3>2. ASSUME NEW f \in Usable, f \notin b .. (b + n - 1)
          PROVE  Users(f)' \subseteq Users(f) /\ (f \in pmm => f \in pmm')
      BY <3>2, <2>1, <2>7
    <3> QED  BY <1>1, <3>1, <3>2, OneUserStep
  <2>9. NoLeakInv'
    <3>1. SUFFICES ASSUME refused = FALSE
                   PROVE  /\ \A f \in pmm' \cap Usable : Users(f)' # {}
                          /\ \A v \in DOMAIN pte \cap VmmPages : (v - VMM_BASE) \in vmm
      BY <1>1, <1>2, <1>3, <2>1 DEF NoLeakInv
    <3>2. /\ \A f \in pmm \cap Usable : Users(f) # {}
          /\ \A v \in DOMAIN pte \cap VmmPages : (v - VMM_BASE) \in vmm
      BY <1>1, <3>1 DEF NoLeakInv
    <3>3. ASSUME NEW f \in pmm' \cap Usable
          PROVE  \E u : u \in Users(f)'
      BY <3>2, <2>1, <2>2, <2>7
    <3> QED  BY <3>2, <3>3
  <2> QED  BY <1>1, <1>3, <1>5, <1>6, <2>5, <2>6, <2>8, <2>9 DEF IInv
<1> QED  BY <1>7, <1>8
-----------------------------------------------------------------------------
(* The end of an iteration *)

\* The page of the iteration, and the one after it.
LEMMA IterationIs ==
  ASSUME CallInv, call.op # "none"
  PROVE  /\ Page(call) \in CallPages /\ Page(call) \in Nat /\ Page(call) \notin NextPages
         /\ CallPages \subseteq Nat /\ NextPages \subseteq CallPages /\ DonePages \subseteq CallPages
         /\ CallPages = DonePages \cup {Page(call)} \cup NextPages
         /\ Page(call) \notin DonePages
         /\ call.op \in {"malloc", "free"} => Page(call) \in VmmPages
         /\ call.op = "map" => /\ Page(call) \in MmioPages
                               /\ call.frame = MMIO_FRAME + (Page(call) - MMIO_BASE)
<1>1. call.base \in Nat /\ call.n \in Nat /\ call.i \in Nat /\ call.i < call.n
  BY DEF CallInv, CallRecords
<1>2. /\ Page(call) \in CallPages /\ Page(call) \in Nat /\ Page(call) \notin NextPages
      /\ CallPages \subseteq Nat /\ NextPages \subseteq CallPages /\ DonePages \subseteq CallPages
      /\ CallPages = DonePages \cup {Page(call)} \cup NextPages /\ Page(call) \notin DonePages
  BY <1>1 DEF Page, CallPages, NextPages, DonePages
<1>3. ASSUME call.op \in {"malloc", "free"}
      PROVE  Page(call) \in VmmPages
  BY <1>2, <1>3 DEF CallInv
<1>4. ASSUME call.op = "map"
      PROVE  /\ Page(call) \in MmioPages
             /\ call.frame = MMIO_FRAME + (Page(call) - MMIO_BASE)
  <2>1. call.base = MMIO_BASE /\ call.n <= MAX_PAGES /\ call.frame = MMIO_FRAME + call.i
    BY <1>4 DEF CallInv
  <2>2. MMIO_BASE \in Nat /\ MAX_PAGES \in Nat /\ MMIO_FRAME \in Nat
    BY MemoryAssumption
  <2> QED  BY <1>1, <2>1, <2>2 DEF Page, MmioPages
<1> QED  BY <1>2, <1>3, <1>4

\* A call that goes on has one page more behind it.
LEMMA NextPageIs ==
  ASSUME CallInv, call.op # "none", NEW ok \in BOOLEAN, NEW step \in {0, 1},
         call' = NextCall(ok, step), call' # NoCall
  PROVE  /\ call'.op = call.op /\ call'.op # "none" /\ CallPages' = CallPages
         /\ DonePages' = DonePages \cup {Page(call)}
         /\ Page(call') \in NextPages /\ NextPages' \subseteq NextPages
         /\ call'.ok = TRUE => call.ok = TRUE /\ ok = TRUE
         /\ call'.pc \in {"frame", "walk"}
<1>1. call.base \in Nat /\ call.n \in Nat /\ call.i \in Nat /\ call.ok \in BOOLEAN
  BY DEF CallInv, CallRecords
<1>2. /\ call.i + 1 < call.n
      /\ call'.op = call.op /\ call'.base = call.base /\ call'.n = call.n
      /\ call'.i = call.i + 1 /\ (call'.ok = TRUE => call.ok = TRUE /\ ok = TRUE)
      /\ call'.pc \in {"frame", "walk"}
  BY <1>1, NextCallIs
<1>3. Page(call') \in NextPages /\ NextPages' \subseteq NextPages
  BY <1>1, <1>2 DEF Page, NextPages
<1>4. CallPages' = CallPages /\ DonePages' = DonePages \cup {Page(call)}
  BY <1>1, <1>2 DEF Page, CallPages, DonePages
<1> QED  BY <1>2, <1>3, <1>4

\* What the call's own invariants need of the step that ends an iteration.
LEMMA IterationEnds ==
  ASSUME IInv, call.op # "none", NEW ok \in BOOLEAN, NEW step \in {0, 1},
         call' = NextCall(ok, step), UNCHANGED <<memmap, count, vmm, pte>>,
         call' # NoCall => owned' = owned /\ stage' = stage,
         call.op = "malloc" => pmm' = pmm /\ (ok = TRUE => call.pc = "invlpg"),
         call.op = "free" => Page(call) \notin DOMAIN pte
  PROVE  /\ CallInv' /\ CallPagesInv' /\ ~ InFlight' /\ ~ Linking' /\ HalfWritten' = {}
         /\ call'.op = "malloc" => call.op = "malloc" /\ Page(call') \in NextPages
                                    /\ NextPages' \subseteq NextPages
<1>1. CallInv /\ CallPagesInv
  BY DEF IInv
<1>2. CASE call' = NoCall
  BY <1>2, NoCallIs, NoCallIsNext
<1>3. CASE call' # NoCall
  <2>1. /\ call'.op = call.op /\ call'.op # "none" /\ CallPages' = CallPages
        /\ DonePages' = DonePages \cup {Page(call)}
        /\ Page(call') \in NextPages /\ NextPages' \subseteq NextPages
        /\ call'.ok = TRUE => call.ok = TRUE /\ ok = TRUE
        /\ call'.pc \in {"frame", "walk"}
    BY <1>1, <1>3, NextPageIs
  <2>2. /\ call.i + 1 < call.n
        /\ call' = [op |-> call.op, base |-> call.base, n |-> call.n, i |-> call.i + 1,
                    page |-> call.page + step,
                    frame |-> IF call.op = "map" THEN call.frame + 1 ELSE 0,
                    table |-> call.table,
                    pc |-> IF call.op = "malloc" THEN "frame" ELSE "walk",
                    ok |-> call.ok /\ ok]
    BY <1>1, <1>3, NextCallIs
  <2>3. call \in CallRecords /\ VmmPages' = VmmPages /\ owned' = owned /\ stage' = stage
    BY <1>1, <1>3 DEF CallInv, VmmPages
  <2>4. CallInv'
    <3>1. call' \in CallRecords
      BY <2>2, <2>3 DEF CallRecords
    <3>2. /\ call'.base = call.base /\ call'.n = call.n /\ call'.i = call.i + 1
          /\ call'.page = call.page + step /\ call'.i < call'.n
          /\ call'.pc = IF call.op = "malloc" THEN "frame" ELSE "walk"
          /\ call.op = "map" => call'.frame = call.frame + 1
      BY <2>2
    <3>3. call'.op = "malloc" => stage' \in {"vmm", "up"} /\ CallPages' \subseteq VmmPages'
      BY <1>1, <2>1, <2>3 DEF CallInv
    <3>4. call'.op = "free" => /\ stage' = "up" /\ CallPages' \subseteq VmmPages'
                             /\ call'.page \in call'.base .. Page(call')
      <4>1. call.op = "free" => stage = "up" /\ CallPages \subseteq VmmPages
                                /\ call.page \in call.base .. Page(call)
        BY <1>1 DEF CallInv
      <4>2. call.base \in Nat /\ call.i \in Nat /\ call.page \in Nat
        BY <2>3 DEF CallRecords
      <4> QED  BY <2>1, <2>3, <3>2, <4>1, <4>2 DEF Page
    <3>5. call'.op = "map" => /\ call'.base = MMIO_BASE /\ call'.n <= MAX_PAGES
                            /\ call'.frame = MMIO_FRAME + call'.i
      <4>1. call.op = "map" => /\ call.base = MMIO_BASE /\ call.n <= MAX_PAGES
                               /\ call.frame = MMIO_FRAME + call.i
        BY <1>1 DEF CallInv
      <4>2. call.i \in Nat /\ MMIO_FRAME \in Nat
        BY <2>3, MemoryAssumption DEF CallRecords
      <4> QED  BY <2>1, <3>2, <4>1, <4>2
    <3> QED  BY <2>1, <3>1, <3>2, <3>3, <3>4, <3>5 DEF CallInv
  <2>5. ~ InFlight' /\ ~ Linking' /\ HalfWritten' = {}
    <3>1. call'.pc = IF call.op = "malloc" THEN "frame" ELSE "walk"
      BY <2>2
    <3> QED  BY <2>1, <3>1 DEF HalfWritten, InFlight, Linking, Working
  <2>6. CallPagesInv'
    <3>1. call'.op \in {"malloc", "free"} =>
            \A b \in DOMAIN owned' : OwnedPages(b)' \cap CallPages' = {}
      BY <1>1, <2>1, <2>3 DEF CallPagesInv, OwnedPages
    <3>2. ASSUME call.op = "malloc"
          PROVE  /\ \A v \in CallPages' : (v - VMM_BASE) \in vmm'
                 /\ call'.ok = TRUE =>
                      \A v \in DonePages' : v \in DOMAIN pte' /\ pte'[v] \in pmm'
      BY <1>1, <2>1, <3>2 DEF CallPagesInv
    <3>3. ASSUME call.op = "free"
          PROVE  \A v \in DonePages' : v \notin DOMAIN pte'
      BY <1>1, <2>1, <3>3 DEF CallPagesInv
    <3> QED  BY <2>1, <3>1, <3>2, <3>3 DEF CallPagesInv
  <2> QED  BY <2>1, <2>4, <2>5, <2>6
<1> QED  BY <1>2, <1>3

\* Return hands the range to the caller at the end of a vmm_malloc_pages that went well.
LEMMA ReturnIs ==
  ASSUME NEW ok \in BOOLEAN, Return(ok)
  PROVE  \/ /\ call.op = "malloc" /\ call.i + 1 = call.n /\ stage' = "up"
            /\ \/ call.ok = TRUE /\ ok = TRUE /\ owned' = With(owned, call.base, call.n)
               \/ owned' = owned
         \/ ~ (call.op = "malloc" /\ call.i + 1 = call.n) /\ owned' = owned /\ stage' = stage
BY DEF Return

\* The frame a call carries is marked and is the call's alone.
LEMMA InFlightAlone ==
  ASSUME IInv, InFlight
  PROVE  /\ call.frame \in Usable /\ call.frame \in pmm
         /\ Users(call.frame) = {<<"call", 0>>}
         /\ \A v \in DOMAIN pte : v \notin HalfWritten => pte[v] # call.frame
<1>1. call.frame \in Usable /\ OneUser
  BY DEF IInv, FrameInv
<1>2. <<"call", 0>> \in Users(call.frame)
  BY UserIs
<1>3. call.frame \in pmm /\ \A u \in Users(call.frame) : u = <<"call", 0>>
  BY <1>1, <1>2 DEF OneUser
<1>4. ASSUME NEW v \in DOMAIN pte, v \notin HalfWritten, pte[v] = call.frame
      PROVE  FALSE
  <2>1. <<"page", v>> \in Users(call.frame)
    BY <1>4, UserIs
  <2>2. <<"page", v>> # <<"call", 0>>
    OBVIOUS
  <2> QED  BY <1>3, <2>1, <2>2
<1> QED  BY <1>1, <1>2, <1>3, <1>4
-----------------------------------------------------------------------------
(* Steps that end an iteration *)

\* page_walk found no page for a table: the iteration is given up.
LEMMA WalkFailsKeeps ==
  ASSUME IInv, WalkFails
  PROVE  IInv'
<1>1. /\ call.pc = "walk" /\ Missing(Page(call)) # {} /\ refused' = TRUE
      /\ call' = NextCall(FALSE, 0) /\ Return(FALSE)
      /\ UNCHANGED <<memmap, count, bitmap, pmm, vmm, tables, pte, tlb, stale, stray, dma>>
      /\ BootInv /\ CallInv /\ PteInv
  BY DEF IInv, WalkFails
<1>2. call.op # "none" /\ stage \notin {"reset", "fault", "bitmap"}
  BY <1>1, NoCallIs, CallNeedsMemory DEF CallInv
<1>3. owned' = owned /\ stage' \in {stage, "up"} /\ (call' # NoCall => stage' = stage)
  <2>1. call' # NoCall => call.i + 1 # call.n
    BY <1>1 DEF NextCall
  <2> QED  BY <1>1, <2>1, ReturnIs
<1>4. Page(call) \notin DOMAIN pte
  BY <1>1 DEF PteInv
<1>5. CallInv' /\ CallPagesInv' /\ ~ InFlight' /\ ~ Linking' /\ HalfWritten' = {}
  BY <1>1, <1>2, <1>3, <1>4, IterationEnds
<1>6. HalfWritten = {} /\ ~ Linking
  BY <1>1 DEF HalfWritten, Linking, Working
<1>7. Usable' = Usable /\ highestPage' = highestPage /\ PteInv' /\ FrameInv' /\ OneUser'
  BY <1>1, <1>5, <1>6, QuietStep
<1>8. TlbInv'
  BY <1>1, TlbQuiet
<1>9. OwnedInv'
  BY <1>1, <1>3, OwnedQuiet
<1>10. BootInv'
  BY <1>1, <1>2, <1>3, <1>7 DEF BootInv
<1>11. NoLeakInv'
  BY <1>1 DEF NoLeakInv
<1> QED  BY <1>1, <1>5, <1>7, <1>8, <1>9, <1>10, <1>11 DEF IInv

\* map_page is done with its page: the last page of vmm_malloc_pages completes the range.
LEMMA InvlpgKeeps ==
  ASSUME IInv, map_page_invlpg
  PROVE  IInv'
<1>1. /\ call.op \in {"malloc", "map"} /\ call.pc = "invlpg" /\ Invlpg(Page(call))
      /\ call' = NextCall(TRUE, 1) /\ Return(TRUE)
      /\ UNCHANGED <<memmap, count, bitmap, pmm, vmm, tables, pte, dma, refused>>
      /\ BootInv /\ CallInv /\ PteInv /\ OwnedInv /\ CallPagesInv /\ NoLeakInv
  BY DEF IInv, map_page_invlpg, Working
<1>2. call.op # "none" /\ stage \notin {"reset", "fault", "bitmap"}
  BY <1>1, CallNeedsMemory
<1>3. /\ stage' \in {stage, "up"}
      /\ call' # NoCall => owned' = owned /\ stage' = stage
      /\ \/ owned' = owned
         \/ /\ call.op = "malloc" /\ call.i + 1 = call.n /\ call.ok = TRUE
            /\ owned' = With(owned, call.base, call.n)
  <2>1. call' # NoCall => call.i + 1 # call.n
    BY <1>1 DEF NextCall
  <2> QED  BY <1>1, <2>1, ReturnIs
<1>4. /\ CallInv' /\ CallPagesInv' /\ ~ InFlight' /\ ~ Linking' /\ HalfWritten' = {}
      /\ call'.op = "malloc" => call.op = "malloc" /\ Page(call') \in NextPages
                                 /\ NextPages' \subseteq NextPages
  BY <1>1, <1>2, <1>3, IterationEnds
<1>5. HalfWritten = {} /\ ~ InFlight /\ ~ Linking
  BY <1>1 DEF HalfWritten, InFlight, Linking, Working
<1>6. /\ Usable' = Usable /\ highestPage' = highestPage /\ PteInv' /\ FrameInv' /\ OneUser'
      /\ \A f : Users(f)' = Users(f)
  BY <1>1, <1>4, <1>5, QuietStep
<1>7. TlbInv'
  BY <1>1, TlbQuiet
<1>8. VmmPages' = VmmPages
  BY <1>1 DEF VmmPages
<1>9. OwnedInv'
  <2>1. CASE owned' = owned
    BY <1>1, <2>1, OwnedQuiet
  <2>2. CASE /\ call.op = "malloc" /\ call.i + 1 = call.n /\ call.ok = TRUE
             /\ owned' = With(owned, call.base, call.n)
    <3>1. call.base \in Nat /\ call.n \in Nat \ {0} /\ call.i \in Nat
      BY <1>1, <1>2 DEF CallInv, CallRecords
    <3>2. /\ NextPages = {} /\ CallPages = DonePages \cup {Page(call)} /\ call.base \in CallPages
      <4>1. NextPages = {} /\ call.base \in CallPages
        BY <2>2, <3>1 DEF NextPages, CallPages, Page
      <4> QED  BY <1>1, <1>2, <4>1, IterationIs
    <3>3. \A v \in CallPages : /\ v \in VmmPages /\ v \in DOMAIN pte /\ pte[v] \in pmm
                               /\ (v - VMM_BASE) \in vmm
      BY <1>1, <2>2, <3>2 DEF CallInv, CallPagesInv
    <3>4. \A o \in DOMAIN owned : OwnedPages(o) \cap CallPages = {}
      BY <1>1, <2>2 DEF CallPagesInv
    <3>5. call.base \notin DOMAIN owned
      <4>1. SUFFICES ASSUME call.base \in DOMAIN owned PROVE FALSE
        OBVIOUS
      <4>2. call.base \in OwnedPages(call.base)
        BY <1>1, <3>1, <4>1 DEF OwnedInv, OwnedPages
      <4> QED  BY <3>2, <3>4, <4>1, <4>2
    <3>6. PICK b \in Nat : b = call.base
      BY <3>1
    <3>7. /\ DOMAIN owned' = (DOMAIN owned) \cup {b} /\ owned'[b] = call.n
          /\ \A o \in DOMAIN owned : o # b /\ owned'[o] = owned[o]
      BY <2>2, <3>5, <3>6 DEF With
    <3>8. OwnedPages(b)' = CallPages
      BY <3>6, <3>7 DEF OwnedPages, CallPages
    <3>9. \A o \in DOMAIN owned : OwnedPages(o)' = OwnedPages(o)
      BY <3>7 DEF OwnedPages
    <3>10. ASSUME NEW o \in DOMAIN owned'
           PROVE  /\ o \in Nat /\ owned'[o] \in Nat \ {0}
                  /\ OwnedPages(o)' \subseteq VmmPages'
                  /\ \A v \in OwnedPages(o)' :
                       v \in DOMAIN pte' /\ pte'[v] \in pmm' /\ (v - VMM_BASE) \in vmm'
                  /\ \A c \in (DOMAIN owned') \ {o} : OwnedPages(o)' \cap OwnedPages(c)' = {}
      <4>1. CASE o = b
        BY <1>1, <1>8, <3>1, <3>3, <3>4, <3>7, <3>8, <3>9, <4>1
      <4>2. CASE o \in DOMAIN owned
        <5>1. /\ o \in Nat /\ owned[o] \in Nat \ {0} /\ OwnedPages(o) \subseteq VmmPages
              /\ \A v \in OwnedPages(o) :
                   v \in DOMAIN pte /\ pte[v] \in pmm /\ (v - VMM_BASE) \in vmm
              /\ \A c \in (DOMAIN owned) \ {o} : OwnedPages(o) \cap OwnedPages(c) = {}
          BY <1>1, <4>2 DEF OwnedInv
        <5>2. \A c \in (DOMAIN owned') \ {o} : OwnedPages(o)' \cap OwnedPages(c)' = {}
          BY <3>4, <3>7, <3>8, <3>9, <4>2, <5>1
        <5> QED  BY <1>1, <1>8, <3>7, <3>9, <4>2, <5>1, <5>2
      <4> QED  BY <3>7, <4>1, <4>2
    <3> QED  BY <3>10 DEF OwnedInv
  <2> QED  BY <1>3, <2>1, <2>2
<1>10. BootInv'
  BY <1>1, <1>2, <1>3, <1>6 DEF BootInv
<1>11. NoLeakInv'
  BY <1>1, <1>2, <1>4, <1>6, <1>8 DEF NoLeakInv
<1> QED  BY <1>1, <1>4, <1>6, <1>7, <1>9, <1>10, <1>11 DEF IInv

\* vmm_free_pages skips a page that is not present.
LEMMA FreeAbsentKeeps ==
  ASSUME IInv, vmm_free_absent
  PROVE  IInv'
<1>1. /\ call.op = "free" /\ call.pc = "walk" /\ Page(call) \notin DOMAIN pte
      /\ call' = NextCall(FALSE, 0)
      /\ UNCHANGED <<memmap, count, bitmap, stage, pmm, vmm, tables, pte, tlb, stale, stray,
                     owned, heap, dma, refused>>
      /\ BootInv /\ NoLeakInv
  BY DEF IInv, vmm_free_absent, Working
<1>2. stage \notin {"reset", "fault", "bitmap"}
  BY <1>1, CallNeedsMemory
<1>3. CallInv' /\ CallPagesInv' /\ ~ InFlight' /\ ~ Linking' /\ HalfWritten' = {} /\ call'.op # "malloc"
  BY <1>1, IterationEnds
<1>4. HalfWritten = {} /\ ~ InFlight /\ ~ Linking
  BY <1>1 DEF HalfWritten, InFlight, Linking, Working
<1>5. /\ Usable' = Usable /\ highestPage' = highestPage /\ PteInv' /\ FrameInv' /\ OneUser'
      /\ \A f : Users(f)' = Users(f)
  BY <1>1, <1>3, <1>4, QuietStep
<1>6. TlbInv'
  BY <1>1, TlbQuiet
<1>7. OwnedInv'
  BY <1>1, OwnedQuiet
<1>8. BootInv'
  BY <1>1, <1>2, <1>5 DEF BootInv
<1>9. NoLeakInv'
  BY <1>1, <1>3, <1>5 DEF NoLeakInv, VmmPages
<1> QED  BY <1>1, <1>3, <1>5, <1>6, <1>7, <1>8, <1>9 DEF IInv

\* pmm_free of the frame: nothing maps it and no translation leads to it any more.
LEMMA FreeReleaseKeeps ==
  ASSUME IInv, vmm_free_release
  PROVE  IInv'
<1>1. /\ call.op = "free" /\ call.pc = "release" /\ pmm' = pmm \ {call.frame}
      /\ call' = NextCall(TRUE, 1)
      /\ UNCHANGED <<memmap, count, bitmap, stage, vmm, tables, pte, tlb, stale, stray, owned,
                     heap, dma, refused>>
      /\ BootInv /\ CallInv /\ CallPagesInv /\ FrameInv /\ PteInv /\ OneUser /\ NoLeakInv /\ OwnedInv
      /\ TlbInv
  BY DEF IInv, vmm_free_release, Working
<1>2. stage \notin {"reset", "fault", "bitmap"} /\ count \in Nat
      /\ Usable' = Usable /\ highestPage' = highestPage
  BY <1>1, CallNeedsMemory, CountIs, MapKept
<1>3. Page(call) \notin DOMAIN pte
  BY <1>1 DEF CallPagesInv
<1>4. CallInv' /\ CallPagesInv' /\ ~ InFlight' /\ ~ Linking' /\ HalfWritten' = {} /\ call'.op # "malloc"
  BY <1>1, <1>3, IterationEnds
<1>5. HalfWritten = {} /\ InFlight /\ ~ Linking
  BY <1>1 DEF HalfWritten, InFlight, Linking, Working
<1>6. PICK g \in Usable : /\ g = call.frame /\ Users(g) = {<<"call", 0>>}
                          /\ \A v \in DOMAIN pte : pte[v] # g
  BY <1>5, InFlightAlone
<1>7. VmmPages' = VmmPages
  BY <1>1 DEF VmmPages
<1>8. \A f, u : u \in Users(f)' <=> u \in Users(f) /\ ~ (f = g /\ u = <<"call", 0>>)
  <2>1. ASSUME NEW f, NEW u
        PROVE  u \in Users(f)' <=> u \in Users(f) /\ ~ (f = g /\ u = <<"call", 0>>)
    <3> DEFINE Rest ==
          \/ \E k \in DOMAIN tables : tables[k] = f /\ u = <<"table", k>>
          \/ \E v \in DOMAIN pte : pte[v] = f /\ u = <<"page", v>>
          \/ \E b \in DOMAIN dma : f \in b .. (b + dma[b] - 1) /\ u = <<"range", b>>
          \/ f \in bitmap /\ u = <<"bitmap", 0>>
    <3>1. u \in Users(f) <=> Rest \/ (f = g /\ u = <<"call", 0>>)
      BY <1>5, <1>6, UserIs
    <3>2. u \in Users(f)' <=> Rest
      <4>1. tables' = tables /\ pte' = pte /\ dma' = dma /\ bitmap' = bitmap
        BY <1>1
      <4>2. ~ InFlight' /\ ~ Linking' /\ HalfWritten' = {}
        BY <1>4
      <4> QED  BY <4>1, <4>2, UserIsNext
    <3>3. Rest => u # <<"call", 0>>
      OBVIOUS
    <3> HIDE DEF Rest
    <3> QED  BY <3>1, <3>2, <3>3
  <2> QED  BY <2>1
<1>9. OneUser'
  <2>1. Users(g)' = {}
    BY <1>6, <1>8
  <2>2. ASSUME NEW f \in Usable, f # g
        PROVE  Users(f)' \subseteq Users(f) /\ (f \in pmm => f \in pmm')
    BY <1>1, <1>6, <1>8, <2>2
  <2> QED  BY <1>1, <2>1, <2>2, OneUserStep
<1>10. BootInv'
  <2>1. pmm' \subseteq pmm /\ (0 .. (count - 1)) \ Usable \subseteq pmm'
    BY <1>1, <1>2, <1>6 DEF BootInv
  <2> QED  BY <1>1, <1>2, <2>1 DEF BootInv
<1>11. PteInv'
  <2>1. \A v : Missing(v)' = Missing(v)
    BY <1>1 DEF Missing
  <2> QED  BY <1>1, <1>2, <1>4, <1>5, <1>6, <1>7, <2>1 DEF PteInv
<1>12. FrameInv'
  BY <1>1, <1>2, <1>4 DEF FrameInv
<1>13. OwnedInv'
  <2>1. \A b : OwnedPages(b)' = OwnedPages(b)
    BY <1>1 DEF OwnedPages
  <2>2. \A v \in DOMAIN pte : pte[v] \in pmm => pte[v] \in pmm'
    BY <1>1, <1>6
  <2> QED  BY <1>1, <1>7, <2>1, <2>2 DEF OwnedInv
<1>14. TlbInv'
  <2>1. ASSUME NEW e \in tlb
        PROVE  /\ e[1] \in DOMAIN pte /\ pte[e[1]] = e[2]
               /\ e[2] < count => e[2] \in pmm'
    BY <1>1, <1>6 DEF TlbInv, TlbCoherent, BeingChanged
  <2>2. StrayInv' /\ stray' \subseteq Nat \X Nat
    BY <1>1, StrayQuiet
  <2>3. \A e \in stray' : e[1] \in DOMAIN pte' => BeingChanged(e[1])'
    BY <2>2 DEF StrayInv
  <2> QED  BY <1>1, <2>1, <2>2, <2>3 DEF TlbInv, TlbCoherent
<1>15. NoLeakInv'
  <2>1. SUFFICES ASSUME refused = FALSE
                 PROVE  /\ \A f \in pmm' \cap Usable : Users(f)' # {}
                        /\ \A v \in DOMAIN pte \cap VmmPages : (v - VMM_BASE) \in vmm
    BY <1>1, <1>2, <1>4, <1>7 DEF NoLeakInv
  <2>2. /\ \A f \in pmm \cap Usable : Users(f) # {}
        /\ \A v \in DOMAIN pte \cap VmmPages : (v - VMM_BASE) \in vmm
    BY <1>1, <1>2, <2>1 DEF NoLeakInv
  <2>3. ASSUME NEW f \in pmm' \cap Usable
        PROVE  Users(f)' # {}
    <3>1. f # g /\ f \in pmm \cap Usable
      BY <1>1, <1>6
    <3>2. PICK u : u \in Users(f)
      BY <2>2, <3>1
    <3>3. u \in Users(f)'
      BY <1>8, <3>1, <3>2
    <3> QED  BY <3>3
  <2> QED  BY <2>2, <2>3
<1> QED  BY <1>1, <1>4, <1>9, <1>10, <1>11, <1>12, <1>13, <1>14, <1>15 DEF IInv
-----------------------------------------------------------------------------
(* Steps that take a page *)

\* A free page g gets one user; the others keep theirs.
LEMMA ClaimStep ==
  ASSUME IInv, stage \notin {"reset", "fault"}, memmap' = memmap,
         NEW g \in pmm_malloc(1), pmm' = pmm \cup {g}, NEW w,
         \A f, u : u \in Users(f)' <=> u \in Users(f) \/ (f = g /\ u = w)
  PROVE  /\ OneUser'
         /\ \A f \in pmm \cap Usable : Users(f) # {} => Users(f)' # {}
         /\ Users(g)' # {}
<1>1. g \in Usable /\ Users(g) = {}
  BY FreeFrameIs
<1>2. Users(g)' \subseteq {w} /\ w \in Users(g)'
  BY <1>1
<1>3. ASSUME NEW f \in Usable, f # g
      PROVE  Users(f)' \subseteq Users(f) /\ (f \in pmm => f \in pmm')
  BY <1>3
<1>4. OneUser'
  BY <1>2, <1>3, OneUserStep DEF IInv
<1>5. \A f : Users(f) # {} => Users(f)' # {}
  BY Zenon
<1> QED  BY <1>2, <1>4, <1>5

\* vmm_malloc_pages takes the frame of its next page, or gives the range up.
LEMMA MallocFrameKeeps ==
  ASSUME IInv, vmm_malloc_frame
  PROVE  IInv'
<1>1. /\ call.op = "malloc" /\ call.pc = "frame"
      /\ UNCHANGED <<memmap, count, bitmap, tables, pte, tlb, stale, stray, owned, heap, dma>>
      /\ BootInv /\ CallInv /\ CallPagesInv /\ FrameInv /\ PteInv /\ NoLeakInv /\ OwnedInv
      /\ refused \in BOOLEAN
  BY DEF IInv, vmm_malloc_frame, Working
<1>2. stage \notin {"reset", "fault", "bitmap"} /\ count \in Nat
      /\ Usable \subseteq 1 .. (count - 1)
      /\ Usable' = Usable /\ highestPage' = highestPage /\ VmmPages' = VmmPages
  BY <1>1, CallNeedsMemory, CountIs, MapKept DEF VmmPages
<1>3. HalfWritten = {} /\ ~ InFlight /\ ~ Linking
  BY <1>1 DEF HalfWritten, InFlight, Linking, Working
<1>4. CASE pmm_malloc(1) # {}
  <2>1. PICK g \in Nat : /\ g \in pmm_malloc(1) /\ pmm' = pmm \cup {g}
                         /\ call' = [call EXCEPT !.frame = g, !.pc = "walk"]
                         /\ vmm' = vmm /\ stage' = stage /\ refused' = refused
    <3>1. \A g \in pmm_malloc(1) : g \in Nat
      BY <1>2, FreeFrameIs
    <3> QED  BY <1>4, <3>1 DEF vmm_malloc_frame
  <2>2. g \in Usable /\ g \in 0 .. (count - 1) /\ g \notin pmm
    BY <1>2, <2>1, FreeFrameIs
  <2>3. /\ CallInv'
        /\ call'.op = "malloc" /\ call'.ok = call.ok /\ call'.frame = g /\ call'.pc = "walk"
        /\ Page(call') = Page(call) /\ CallPages' = CallPages /\ DonePages' = DonePages
        /\ NextPages' = NextPages
    BY <1>1, <2>1, CallMoves
  <2>4. HalfWritten' = {} /\ InFlight' /\ ~ Linking'
    BY <2>3 DEF HalfWritten, InFlight, Linking, Working
  <2>5. \A f, u : u \in Users(f)' <=> u \in Users(f) \/ (f = g /\ u = <<"call", 0>>)
    <3>1. ASSUME NEW f, NEW u
          PROVE  u \in Users(f)' <=> u \in Users(f) \/ (f = g /\ u = <<"call", 0>>)
      <4>1. tables' = tables /\ pte' = pte /\ dma' = dma /\ bitmap' = bitmap
        BY <1>1
      <4> QED  BY <4>1, <1>3, <2>3, <2>4, UserIs, UserIsNext
    <3> QED  BY <3>1
  <2>6. /\ OneUser' /\ \A f \in pmm \cap Usable : Users(f) # {} => Users(f)' # {}
        /\ Users(g)' # {}
    <3>1. PICK w : w = <<"call", 0>>
      OBVIOUS
    <3>2. \A f, u : u \in Users(f)' <=> u \in Users(f) \/ (f = g /\ u = w)
      BY <2>5, <3>1
    <3>3. memmap' = memmap /\ pmm' = pmm \cup {g} /\ g \in pmm_malloc(1)
          /\ stage \notin {"reset", "fault"}
      BY <1>1, <1>2, <2>1
    <3> QED  BY <3>2, <3>3, ClaimStep
  <2>7. PteInv' /\ OwnedInv' /\ TlbInv'
    BY <1>1, <1>3, <2>1, PteQuiet, OwnedQuiet, TlbQuiet
  <2>8. BootInv'
    BY <1>1, <1>2, <2>1, <2>2 DEF BootInv
  <2>9. FrameInv'
    BY <1>1, <1>2, <2>2, <2>3, <2>4 DEF FrameInv
  <2>10. CallPagesInv'
    BY <1>1, <2>1, <2>3 DEF CallPagesInv, OwnedPages
  <2>11. NoLeakInv'
    <3>1. SUFFICES ASSUME refused = FALSE
                   PROVE  /\ \A f \in pmm' \cap Usable : Users(f)' # {}
                          /\ \A v \in DOMAIN pte \cap VmmPages : (v - VMM_BASE) \in vmm
                          /\ \A v \in NextPages : v \notin DOMAIN pte
                          /\ Page(call) \notin DOMAIN pte
      BY <1>1, <1>2, <2>1, <2>3 DEF NoLeakInv
    <3>2. /\ \A f \in pmm \cap Usable : Users(f) # {}
          /\ \A v \in DOMAIN pte \cap VmmPages : (v - VMM_BASE) \in vmm
          /\ \A v \in NextPages : v \notin DOMAIN pte
          /\ Page(call) \notin DOMAIN pte
      BY <1>1, <1>2, <3>1 DEF NoLeakInv
    <3> QED  BY <2>1, <2>6, <3>2
  <2> QED  BY <1>1, <2>1, <2>3, <2>6, <2>7, <2>8, <2>9, <2>10, <2>11 DEF IInv
<1>5. CASE pmm_malloc(1) = {}
  <2>1. /\ vmm' = vmm \ ((call.base - VMM_BASE) .. (call.base - VMM_BASE + call.n - 1))
        /\ call' = NoCall /\ stage' = "up" /\ refused' = TRUE /\ pmm' = pmm
    BY <1>5 DEF vmm_malloc_frame, write_bits_in_range_from
  <2>2. CallInv' /\ CallPagesInv' /\ ~ InFlight' /\ ~ Linking' /\ HalfWritten' = {}
    BY <2>1, NoCallIsNext
  <2>3. PteInv' /\ FrameInv' /\ OneUser'
    BY <1>1, <1>3, <2>1, <2>2, QuietStep
  <2>4. TlbInv'
    BY <1>1, <2>1, TlbQuiet
  <2>5. OwnedInv'
    <3>1. call.base \in Nat /\ call.n \in Nat /\ VMM_BASE \in Nat
      BY <1>1, MemoryAssumption DEF CallInv, CallRecords
    <3>2. \A b \in DOMAIN owned : \A v \in OwnedPages(b) : v \in VmmPages /\ v \notin CallPages
      BY <1>1 DEF CallPagesInv, OwnedInv
    <3>3. \A v \in VmmPages : v \notin CallPages /\ (v - VMM_BASE) \in vmm => (v - VMM_BASE) \in vmm'
      BY <1>2, <2>1, <3>1 DEF VmmPages, CallPages
    <3>4. \A b : OwnedPages(b)' = OwnedPages(b)
      BY <1>1 DEF OwnedPages
    <3> QED  BY <1>1, <1>2, <2>1, <3>2, <3>3, <3>4 DEF OwnedInv
  <2>6. BootInv'
    BY <1>1, <1>2, <2>1 DEF BootInv
  <2>7. NoLeakInv'
    BY <2>1 DEF NoLeakInv
  <2> QED  BY <2>1, <2>2, <2>3, <2>4, <2>5, <2>6, <2>7 DEF IInv
<1> QED  BY <1>4, <1>5

\* page_walk takes a free page for a missing table and makes its entry present.
LEMMA NextTableKeeps ==
  ASSUME IInv, get_or_create_next_table
  PROVE  IInv'
<1>1. /\ call.pc = "walk"
      /\ UNCHANGED <<memmap, count, bitmap, stage, vmm, tables, pte, tlb, stray, owned, heap, dma,
                     refused>>
      /\ BootInv /\ CallInv /\ CallPagesInv /\ FrameInv /\ PteInv /\ NoLeakInv /\ OwnedInv
      /\ TlbInv /\ refused \in BOOLEAN
  BY DEF IInv, get_or_create_next_table
<1>2. call.op # "none"
  BY <1>1, NoCallIs DEF CallInv
<1>3. stage \notin {"reset", "fault", "bitmap"} /\ count \in Nat
      /\ Usable \subseteq 1 .. (count - 1)
      /\ Usable' = Usable /\ highestPage' = highestPage /\ VmmPages' = VmmPages
  BY <1>1, <1>2, CallNeedsMemory, CountIs, MapKept DEF VmmPages
<1>4. PICK g, x : /\ g \in Nat /\ g \in pmm_malloc(1) /\ pmm' = pmm \cup {g}
                  /\ x \notin DOMAIN tables /\ stale' = stale \cup {x}
                  /\ call' = [call EXCEPT !.table = g, !.pc = "link"]
  <2>1. \A g \in pmm_malloc(1) : g \in Nat
    BY <1>3, FreeFrameIs
  <2>2. \A k \in Missing(Page(call)) : Path(Page(call))[k] \notin DOMAIN tables
    BY DEF Missing
  <2> QED  BY <2>1, <2>2 DEF get_or_create_next_table
<1>5. g \in Usable /\ g \in 0 .. (count - 1) /\ g \notin pmm
  BY <1>3, <1>4, FreeFrameIs
<1>6. /\ CallInv'
      /\ call'.op = call.op /\ call'.ok = call.ok /\ call'.frame = call.frame
      /\ call'.table = g /\ call'.pc = "link"
      /\ Page(call') = Page(call) /\ CallPages' = CallPages /\ DonePages' = DonePages
      /\ NextPages' = NextPages
  BY <1>1, <1>2, <1>4, CallLinks
<1>7. HalfWritten = {} /\ HalfWritten' = {} /\ InFlight' = InFlight /\ ~ Linking /\ Linking'
  BY <1>1, <1>6 DEF HalfWritten, InFlight, Linking, Working
<1>8. \A f, u : u \in Users(f)' <=> u \in Users(f) \/ (f = g /\ u = <<"link", 0>>)
  <2>1. ASSUME NEW f, NEW u
        PROVE  u \in Users(f)' <=> u \in Users(f) \/ (f = g /\ u = <<"link", 0>>)
    <3>1. tables' = tables /\ pte' = pte /\ dma' = dma /\ bitmap' = bitmap
      BY <1>1
    <3> QED  BY <3>1, <1>6, <1>7, UserIs, UserIsNext
  <2> QED  BY <2>1
<1>9. /\ OneUser' /\ \A f \in pmm \cap Usable : Users(f) # {} => Users(f)' # {}
      /\ Users(g)' # {}
  <2>1. PICK w : w = <<"link", 0>>
    OBVIOUS
  <2>2. \A f, u : u \in Users(f)' <=> u \in Users(f) \/ (f = g /\ u = w)
    BY <1>8, <2>1
  <2>3. memmap' = memmap /\ pmm' = pmm \cup {g} /\ g \in pmm_malloc(1)
        /\ stage \notin {"reset", "fault"}
    BY <1>1, <1>3, <1>4
  <2> QED  BY <2>2, <2>3, ClaimStep
<1>10. PteInv' /\ OwnedInv'
  BY <1>1, <1>4, <1>7, PteQuiet, OwnedQuiet
<1>11. TlbInv'
  <2>1. ASSUME NEW e \in tlb
        PROVE  e[1] \in DOMAIN pte /\ pte[e[1]] = e[2] /\ (e[2] < count => e[2] \in pmm')
    BY <1>1, <1>4 DEF TlbInv, TlbCoherent, BeingChanged
  <2>2. ASSUME NEW v \in DOMAIN pte
        PROVE  ~ Astray(v)' /\ \A e \in stray : e[1] # v
    <3>1. ~ Astray(v) /\ \A e \in stray : e[1] # v
      BY <1>1 DEF TlbInv, StrayInv, BeingChanged
    <3>2. \A k \in 1 .. 3 : Path(v)[k] # x
      BY <1>1, <1>4 DEF PteInv, Missing
    <3> QED  BY <1>4, <3>1, <3>2 DEF Astray
  <2>3. StrayInv'
    BY <1>1, <2>2 DEF StrayInv
  <2>4. \A e \in stray' : e[1] \notin DOMAIN pte'
    BY <1>1, <2>2
  <2> QED  BY <1>1, <2>1, <2>3, <2>4 DEF TlbInv, TlbCoherent
<1>12. BootInv'
  BY <1>1, <1>3, <1>4, <1>5 DEF BootInv
<1>13. FrameInv'
  BY <1>1, <1>3, <1>5, <1>6, <1>7 DEF FrameInv
<1>14. CallPagesInv'
  BY <1>1, <1>4, <1>6 DEF CallPagesInv, OwnedPages
<1>15. NoLeakInv'
  <2>1. SUFFICES ASSUME refused = FALSE
                 PROVE  \A f \in pmm' \cap Usable : Users(f)' # {}
    BY <1>1, <1>3, <1>6 DEF NoLeakInv
  <2>2. \A f \in pmm \cap Usable : Users(f) # {}
    BY <1>1, <1>3, <2>1 DEF NoLeakInv
  <2> QED  BY <1>4, <1>9, <2>2
<1> QED  BY <1>1, <1>6, <1>9, <1>10, <1>11, <1>12, <1>13, <1>14, <1>15 DEF IInv

\* The page a call carries for a table is marked and is the call's alone.
LEMMA LinkAlone ==
  ASSUME IInv, Linking
  PROVE  call.table \in Usable /\ call.table \in pmm /\ Users(call.table) = {<<"link", 0>>}
<1>1. call.table \in Usable /\ OneUser
  BY DEF IInv, FrameInv
<1>2. <<"link", 0>> \in Users(call.table)
  BY UserIs
<1> QED  BY <1>1, <1>2 DEF OneUser

\* The entry gets its address: the page the call carried is now a table.
LEMMA LinkKeeps ==
  ASSUME IInv, set_next_table_address
  PROVE  IInv'
<1>1. /\ call.pc = "link" /\ call' = [call EXCEPT !.table = 0, !.pc = "walk"]
      /\ UNCHANGED <<memmap, count, bitmap, stage, pmm, vmm, pte, tlb, stale, stray, owned, heap, dma,
                     refused>>
      /\ BootInv /\ CallInv /\ CallPagesInv /\ FrameInv /\ PteInv /\ NoLeakInv /\ OwnedInv
      /\ OneUser /\ refused \in BOOLEAN
  BY DEF IInv, set_next_table_address
<1>2. call.op # "none"
  BY <1>1, NoCallIs DEF CallInv
<1>3. stage \notin {"reset", "fault", "bitmap"} /\ count \in Nat
      /\ Usable' = Usable /\ highestPage' = highestPage /\ VmmPages' = VmmPages
  BY <1>1, <1>2, CallNeedsMemory, CountIs, MapKept DEF VmmPages
<1>4. PICK g \in Usable : g = call.table /\ g \in pmm /\ Users(g) = {<<"link", 0>>}
  BY <1>1, LinkAlone DEF Linking
<1>5. PICK x : x \notin DOMAIN tables /\ tables' = With(tables, x, g)
  <2>1. \A k \in Missing(Page(call)) : Path(Page(call))[k] \notin DOMAIN tables
    BY DEF Missing
  <2> QED  BY <1>4, <2>1 DEF set_next_table_address
<1>6. /\ DOMAIN tables' = (DOMAIN tables) \cup {x} /\ tables'[x] = g
      /\ \A k \in DOMAIN tables : tables'[k] = tables[k]
  BY <1>5 DEF With
<1>7. /\ CallInv'
      /\ call'.op = call.op /\ call'.ok = call.ok /\ call'.frame = call.frame /\ call'.pc = "walk"
      /\ Page(call') = Page(call) /\ CallPages' = CallPages /\ DonePages' = DonePages
      /\ NextPages' = NextPages
  BY <1>1, <1>2, CallLinks
<1>8. HalfWritten = {} /\ HalfWritten' = {} /\ InFlight' = InFlight /\ Linking /\ ~ Linking'
  BY <1>1, <1>7 DEF HalfWritten, InFlight, Linking, Working
<1>9. \A f, u : u \in Users(f)' <=> (u \in Users(f) /\ f # g) \/ (f = g /\ u = <<"table", x>>)
  <2>1. ASSUME NEW f, NEW u
        PROVE  u \in Users(f)' <=> (u \in Users(f) /\ f # g) \/ (f = g /\ u = <<"table", x>>)
    <3> DEFINE Rest ==
          \/ \E k \in DOMAIN tables : tables[k] = f /\ u = <<"table", k>>
          \/ \E v \in DOMAIN pte : v \notin HalfWritten /\ pte[v] = f /\ u = <<"page", v>>
          \/ \E b \in DOMAIN dma : f \in b .. (b + dma[b] - 1) /\ u = <<"range", b>>
          \/ f \in bitmap /\ u = <<"bitmap", 0>>
          \/ InFlight /\ call.frame = f /\ u = <<"call", 0>>
    <3>1. (\E k \in DOMAIN tables' : tables'[k] = f /\ u = <<"table", k>>) <=>
            \/ \E k \in DOMAIN tables : tables[k] = f /\ u = <<"table", k>>
            \/ f = g /\ u = <<"table", x>>
      BY <1>6
    <3>2. pte' = pte /\ dma' = dma /\ bitmap' = bitmap /\ call'.frame = call.frame
      BY <1>1, <1>7
    <3>3. u \in Users(f)' <=> Rest \/ (f = g /\ u = <<"table", x>>)
      BY <3>1, <3>2, <1>8, UserIsNext
    <3>4. u \in Users(f) <=> Rest \/ (f = g /\ u = <<"link", 0>>)
      BY <1>4, <1>8, UserIs
    <3>5. Rest => u # <<"link", 0>>
      OBVIOUS
    <3> HIDE DEF Rest
    <3>6. CASE f = g
      BY <1>4, <3>3, <3>4, <3>5, <3>6
    <3>7. CASE f # g
      BY <3>3, <3>4, <3>7
    <3> QED  BY <3>6, <3>7
  <2> QED  BY <2>1
<1>10. OneUser'
  <2>1. ASSUME NEW f \in Usable
        PROVE  \/ Users(f)' \subseteq Users(f) /\ (f \in pmm => f \in pmm')
               \/ f \in pmm' /\ \E u : Users(f)' \subseteq {u}
    <3>1. CASE f # g
      BY <1>1, <1>9, <3>1
    <3>2. CASE f = g
      <4>1. Users(f)' \subseteq {<<"table", x>>} /\ f \in pmm'
        BY <1>1, <1>4, <1>9, <3>2
      <4> QED  BY <4>1
    <3> QED  BY <3>1, <3>2
  <2> QED  BY <1>1, <2>1, OneUserStep
<1>11. PteInv' /\ OwnedInv' /\ TlbInv'
  BY <1>1, <1>6, <1>8, PteQuiet, OwnedQuiet, TlbQuiet
<1>12. BootInv'
  BY <1>1, <1>3 DEF BootInv
<1>13. FrameInv'
  BY <1>1, <1>3, <1>4, <1>6, <1>7, <1>8 DEF FrameInv
<1>14. CallPagesInv'
  BY <1>1, <1>7 DEF CallPagesInv, OwnedPages
<1>15. NoLeakInv'
  <2>1. SUFFICES ASSUME refused = FALSE
                 PROVE  \A f \in pmm \cap Usable : Users(f)' # {}
    BY <1>1, <1>3, <1>7 DEF NoLeakInv
  <2>2. \A f \in pmm \cap Usable : Users(f) # {}
    BY <1>1, <1>3, <2>1 DEF NoLeakInv
  <2>3. ASSUME NEW f \in pmm \cap Usable
        PROVE  \E u : u \in Users(f)'
    BY <1>9, <2>2
  <2> QED  BY <2>3
<1> QED  BY <1>1, <1>7, <1>10, <1>11, <1>12, <1>13, <1>14, <1>15 DEF IInv
-----------------------------------------------------------------------------
(* Steps that change an entry *)

\* map_page makes the entry present: until it has its address it uses no frame.
LEMMA PresentKeeps ==
  ASSUME IInv, map_page_present
  PROVE  IInv'
<1>1. /\ call.op \in {"malloc", "map"} /\ call.pc = "walk" /\ Missing(Page(call)) = {}
      /\ pte' = (IF Page(call) \in DOMAIN pte THEN pte ELSE With(pte, Page(call), 0))
      /\ call' = [call EXCEPT !.pc = "address"]
      /\ UNCHANGED <<memmap, count, bitmap, stage, pmm, vmm, tables, tlb, stale, stray, owned,
                     heap, dma, refused>>
      /\ BootInv /\ CallInv /\ CallPagesInv /\ FrameInv /\ PteInv /\ NoLeakInv /\ OwnedInv
      /\ OneUser /\ TlbInv /\ refused \in BOOLEAN
  BY DEF IInv, map_page_present, Working
<1>2. call.op # "none" /\ call.frame \in Nat
  BY <1>1 DEF CallInv, CallRecords
<1>3. stage \notin {"reset", "fault", "bitmap"} /\ count \in Nat
      /\ Usable \subseteq 1 .. (count - 1)
      /\ Usable' = Usable /\ highestPage' = highestPage /\ VmmPages' = VmmPages
  BY <1>1, <1>2, CallNeedsMemory, CountIs, MapKept DEF VmmPages
<1>4. /\ CallInv'
      /\ call'.op = call.op /\ call'.ok = call.ok /\ call'.frame = call.frame
      /\ call'.pc = "address"
      /\ Page(call') = Page(call) /\ CallPages' = CallPages /\ DonePages' = DonePages
      /\ NextPages' = NextPages
  BY <1>1, <1>2, CallMoves
<1>5. PICK p \in Nat : /\ p = Page(call) /\ p \notin DonePages /\ p \notin NextPages /\ p \in CallPages
                       /\ call.op = "malloc" => p \in VmmPages
                       /\ call.op = "map" => p \in MmioPages
  BY <1>1, <1>2, IterationIs
<1>6. HalfWritten = {} /\ HalfWritten' = {p} /\ InFlight' = InFlight /\ ~ Linking /\ ~ Linking'
  <2>1. p \in DOMAIN pte'
    BY <1>1, <1>5 DEF With
  <2> QED  BY <1>1, <1>4, <1>5, <2>1 DEF HalfWritten, InFlight, Linking, Working
<1>7. /\ DOMAIN pte' = (DOMAIN pte) \cup {p}
      /\ \A v \in DOMAIN pte : pte'[v] = pte[v]
      /\ p \notin DOMAIN pte => pte'[p] = 0
  BY <1>1, <1>5 DEF With
<1>8. \A f, u : /\ u \in Users(f)' => u \in Users(f)
                /\ u \in Users(f) => u \in Users(f)' \/ (p \in DOMAIN pte /\ pte[p] = f)
  <2>1. ASSUME NEW f, NEW u
        PROVE  /\ u \in Users(f)' => u \in Users(f)
               /\ u \in Users(f) => u \in Users(f)' \/ (p \in DOMAIN pte /\ pte[p] = f)
    <3>1. /\ (\E v \in DOMAIN pte' : v \notin HalfWritten' /\ pte'[v] = f /\ u = <<"page", v>>) =>
               \E v \in DOMAIN pte : v \notin HalfWritten /\ pte[v] = f /\ u = <<"page", v>>
          /\ (\E v \in DOMAIN pte : v \notin HalfWritten /\ pte[v] = f /\ u = <<"page", v>>) =>
               \/ \E v \in DOMAIN pte' : v \notin HalfWritten' /\ pte'[v] = f /\ u = <<"page", v>>
               \/ p \in DOMAIN pte /\ pte[p] = f
      BY <1>6, <1>7
    <3>2. tables' = tables /\ dma' = dma /\ bitmap' = bitmap /\ call'.frame = call.frame
      BY <1>1, <1>4
    <3> QED  BY <3>1, <3>2, <1>6, UserIs, UserIsNext
  <2> QED  BY <2>1
<1>9. OneUser'
  <2>1. \A f \in Usable : Users(f)' \subseteq Users(f) /\ (f \in pmm => f \in pmm')
    BY <1>1, <1>8
  <2> QED  BY <1>1, <2>1, OneUserStep
<1>10. BootInv'
  BY <1>1, <1>3 DEF BootInv
<1>11. PteInv'
  <2>1. \A v : Missing(v)' = Missing(v)
    BY <1>1 DEF Missing
  <2>2. 0 < count => 0 \in pmm
    BY <1>1, <1>3 DEF BootInv
  <2>3. ASSUME NEW v \in DOMAIN pte'
        PROVE  /\ pte'[v] \in Nat /\ (pte'[v] < count => pte'[v] \in pmm)
               /\ Missing(v) = {}
               /\ \/ v \in VmmPages /\ (v # p => pte'[v] \in Usable)
                  \/ v \in MmioPages /\ (v # p => pte'[v] = MMIO_FRAME + (v - MMIO_BASE))
    <3>1. CASE v \in DOMAIN pte
      BY <1>1, <1>6, <1>7, <3>1 DEF PteInv
    <3>2. CASE v \notin DOMAIN pte
      BY <1>1, <1>5, <1>7, <2>2, <3>2
    <3> QED  BY <3>1, <3>2
  <2> QED  BY <1>1, <1>3, <1>6, <2>1, <2>3 DEF PteInv
<1>12. FrameInv'
  BY <1>1, <1>3, <1>4, <1>6 DEF FrameInv
<1>13. OwnedInv'
  BY <1>1, <1>3, <1>7 DEF OwnedInv, OwnedPages
<1>14. CallPagesInv'
  <2>1. Page(call') \in DOMAIN pte'
    BY <1>4, <1>5, <1>7
  <2> QED  BY <1>1, <1>4, <1>7, <2>1 DEF CallPagesInv, OwnedPages
<1>15. TlbInv'
  <2>1. ASSUME NEW e \in tlb
        PROVE  /\ e[1] \in DOMAIN pte' /\ pte'[e[1]] = e[2]
               /\ e[2] < count => e[2] \in pmm
    BY <1>1, <1>7 DEF TlbInv, TlbCoherent, BeingChanged
  <2>2. DOMAIN pte' \subseteq (DOMAIN pte) \cup {p} /\ BeingChanged(p)' /\ p = Page(call)
    BY <1>1, <1>4, <1>5, <1>7 DEF BeingChanged
  <2>3. StrayInv' /\ stray' \subseteq Nat \X Nat
        /\ \A e \in stray' : e[1] \in DOMAIN pte' => BeingChanged(e[1])'
    BY <1>1, <2>2, StrayChanged
  <2> QED  BY <1>1, <2>1, <2>3 DEF TlbInv, TlbCoherent
<1>16. NoLeakInv'
  <2>1. SUFFICES ASSUME refused = FALSE
                 PROVE  /\ \A f \in pmm \cap Usable : Users(f)' # {}
                        /\ \A v \in DOMAIN pte' \cap VmmPages : (v - VMM_BASE) \in vmm
                        /\ call.op = "malloc" => \A v \in NextPages : v \notin DOMAIN pte'
    BY <1>1, <1>3, <1>4 DEF NoLeakInv
  <2>2. /\ \A f \in pmm \cap Usable : Users(f) # {}
        /\ \A v \in DOMAIN pte \cap VmmPages : (v - VMM_BASE) \in vmm
        /\ call.op = "malloc" => /\ \A v \in NextPages : v \notin DOMAIN pte
                                 /\ p \notin DOMAIN pte
    BY <1>1, <1>3, <1>5, <2>1 DEF NoLeakInv
  <2>3. ASSUME NEW f \in pmm \cap Usable
        PROVE  Users(f)' # {}
    <3>1. ~ (p \in DOMAIN pte /\ pte[p] = f)
      <4>1. CASE call.op = "malloc"
        BY <2>2, <4>1
      <4>2. CASE call.op = "map"
        <5>1. p \in DOMAIN pte => pte[p] = MMIO_FRAME + (p - MMIO_BASE)
          <6>1. p \notin VmmPages
            BY <1>3, <1>5, <4>2, MemoryAssumption DEF VmmPages, MmioPages
          <6> QED  BY <1>1, <1>6, <6>1 DEF PteInv
        <5>2. MMIO_FRAME + (p - MMIO_BASE) \in Registers
          BY <1>5, <4>2, MemoryAssumption DEF MmioPages, Registers
        <5>3. Usable \cap Registers = {}
          BY <1>1, CountIs
        <5> QED  BY <5>1, <5>2, <5>3
      <4> QED  BY <1>1, <4>1, <4>2
    <3>2. PICK u : u \in Users(f)
      BY <2>2
    <3>3. u \in Users(f)'
      BY <1>8, <3>1, <3>2
    <3> QED  BY <3>3
  <2>4. \A v \in DOMAIN pte' \cap VmmPages : (v - VMM_BASE) \in vmm
    <3>1. p \in VmmPages => call.op = "malloc"
      BY <1>1, <1>3, <1>5, MemoryAssumption DEF VmmPages, MmioPages
    <3>2. call.op = "malloc" => (p - VMM_BASE) \in vmm
      BY <1>1, <1>5 DEF CallPagesInv
    <3> QED  BY <1>7, <2>2, <3>1, <3>2
  <2>5. call.op = "malloc" => \A v \in NextPages : v \notin DOMAIN pte'
    BY <1>5, <1>7, <2>2
  <2> QED  BY <2>3, <2>4, <2>5
<1> QED  BY <1>1, <1>4, <1>9, <1>10, <1>11, <1>12, <1>13, <1>14, <1>15, <1>16 DEF IInv

\* map_page gives the entry its address: the frame the call carried is now the page's.
LEMMA AddressKeeps ==
  ASSUME IInv, map_page_address
  PROVE  IInv'
<1>1. /\ call.op \in {"malloc", "map"} /\ call.pc = "address"
      /\ pte' = With(pte, Page(call), call.frame)
      /\ call' = [call EXCEPT !.pc = "invlpg"]
      /\ UNCHANGED <<memmap, count, bitmap, stage, pmm, vmm, tables, tlb, stale, stray, owned,
                     heap, dma, refused>>
      /\ BootInv /\ CallInv /\ CallPagesInv /\ FrameInv /\ PteInv /\ NoLeakInv /\ OwnedInv
      /\ OneUser /\ TlbInv /\ refused \in BOOLEAN
  BY DEF IInv, map_page_address, Working
<1>2. PICK g \in Nat : g = call.frame
  BY <1>1 DEF CallInv, CallRecords
<1>3. stage \notin {"reset", "fault", "bitmap"} /\ count \in Nat
      /\ Usable \subseteq 1 .. (count - 1) /\ Usable \cap Registers = {}
      /\ Usable' = Usable /\ highestPage' = highestPage /\ VmmPages' = VmmPages
  BY <1>1, CallNeedsMemory, CountIs, MapKept DEF VmmPages
<1>4. /\ CallInv'
      /\ call'.op = call.op /\ call'.ok = call.ok /\ call'.frame = g
      /\ call'.pc = "invlpg"
      /\ Page(call') = Page(call) /\ CallPages' = CallPages /\ DonePages' = DonePages
      /\ NextPages' = NextPages
  BY <1>1, <1>2, CallMoves
<1>5. PICK p \in Nat : /\ p = Page(call) /\ p \notin DonePages /\ p \in CallPages
                       /\ call.op = "malloc" => p \in VmmPages
                       /\ call.op = "map" => /\ p \in MmioPages
                                             /\ g = MMIO_FRAME + (p - MMIO_BASE)
  BY <1>1, <1>2, IterationIs
<1>6. HalfWritten = {p} /\ HalfWritten' = {} /\ ~ InFlight' /\ (InFlight <=> call.op = "malloc")
      /\ ~ Linking /\ ~ Linking' /\ p \in DOMAIN pte
  <2>1. p \in DOMAIN pte
    BY <1>1, <1>5 DEF CallPagesInv
  <2> QED  BY <1>1, <1>4, <1>5, <2>1 DEF HalfWritten, InFlight, Linking, Working
<1>7. /\ DOMAIN pte' = DOMAIN pte /\ pte'[p] = g
      /\ \A v \in DOMAIN pte : v # p => pte'[v] = pte[v]
  BY <1>1, <1>2, <1>5, <1>6 DEF With
<1>8. g < count => g \in pmm
  <2>1. CASE call.op = "malloc"
    BY <1>2, <1>6, <2>1, InFlightAlone
  <2>2. CASE call.op = "map"
    <3>1. g \in Registers
      BY <1>5, <2>2, MemoryAssumption DEF MmioPages, Registers
    <3> QED  BY <1>1, <1>3, <3>1 DEF BootInv
  <2> QED  BY <1>1, <2>1, <2>2
<1>9. /\ call.op = "malloc" => /\ g \in Usable /\ Users(g) = {<<"call", 0>>}
      /\ call.op = "map" => g \notin Usable
  <2>1. call.op = "map" => g \in Registers
    BY <1>5, MemoryAssumption DEF MmioPages, Registers
  <2> QED  BY <1>2, <1>3, <1>6, <2>1, InFlightAlone
<1>10. \A f, u : f # g => (u \in Users(f)' <=> u \in Users(f))
  <2>1. ASSUME NEW f, NEW u, f # g
        PROVE  u \in Users(f)' <=> u \in Users(f)
    <3>1. (\E v \in DOMAIN pte' : v \notin HalfWritten' /\ pte'[v] = f /\ u = <<"page", v>>) <=>
             \E v \in DOMAIN pte : v \notin HalfWritten /\ pte[v] = f /\ u = <<"page", v>>
      BY <1>6, <1>7, <2>1
    <3>2. tables' = tables /\ dma' = dma /\ bitmap' = bitmap
      BY <1>1
    <3> QED  BY <3>1, <3>2, <1>2, <1>6, <2>1, UserIs, UserIsNext
  <2> QED  BY <2>1
<1>11. ASSUME call.op = "malloc"
       PROVE  Users(g)' = {<<"page", p>>}
  <2>1. <<"page", p>> \in Users(g)'
    BY <1>6, <1>7, UserIsNext
  <2>2. ASSUME NEW u \in Users(g)'
        PROVE  u = <<"page", p>>
    <3> DEFINE Rest ==
          \/ \E k \in DOMAIN tables : tables[k] = g /\ u = <<"table", k>>
          \/ \E v \in DOMAIN pte : v \notin HalfWritten /\ pte[v] = g /\ u = <<"page", v>>
          \/ \E b \in DOMAIN dma : g \in b .. (b + dma[b] - 1) /\ u = <<"range", b>>
          \/ g \in bitmap /\ u = <<"bitmap", 0>>
    <3>1. (\E v \in DOMAIN pte' : v \notin HalfWritten' /\ pte'[v] = g /\ u = <<"page", v>>) =>
            \/ \E v \in DOMAIN pte : v \notin HalfWritten /\ pte[v] = g /\ u = <<"page", v>>
            \/ u = <<"page", p>>
      BY <1>6, <1>7
    <3>2. tables' = tables /\ dma' = dma /\ bitmap' = bitmap
      BY <1>1
    <3>3. Rest \/ u = <<"page", p>>
      BY <1>6, <2>2, <3>1, <3>2, UserIsNext
    <3>4. Rest => u \in Users(g) /\ u # <<"call", 0>>
      BY UserIs
    <3> QED  BY <1>9, <1>11, <3>3, <3>4
  <2> QED  BY <2>1, <2>2
<1>12. OneUser'
  <2>1. ASSUME NEW f \in Usable
        PROVE  \/ Users(f)' = {}
               \/ Users(f)' \subseteq Users(f) /\ (f \in pmm => f \in pmm')
               \/ f \in pmm' /\ \E u : Users(f)' \subseteq {u}
    <3>1. CASE f # g
      BY <1>1, <1>10, <3>1
    <3>2. CASE f = g
      <4>1. call.op = "malloc" /\ g \in pmm
        BY <1>1, <1>2, <1>6, <1>9, <3>2, InFlightAlone
      <4> QED  BY <1>1, <1>11, <3>2, <4>1
    <3> QED  BY <3>1, <3>2
  <2> QED  BY <1>1, <2>1, OneUserStep
<1>13. BootInv'
  BY <1>1, <1>3 DEF BootInv
<1>14. PteInv'
  <2>1. \A v : Missing(v)' = Missing(v)
    BY <1>1 DEF Missing
  <2>2. ASSUME NEW v \in DOMAIN pte'
        PROVE  /\ pte'[v] \in Nat /\ (pte'[v] < count => pte'[v] \in pmm)
               /\ Missing(v) = {}
               /\ \/ v \in VmmPages /\ pte'[v] \in Usable
                  \/ v \in MmioPages /\ pte'[v] = MMIO_FRAME + (v - MMIO_BASE)
    <3>1. CASE v = p
      BY <1>1, <1>5, <1>6, <1>7, <1>8, <1>9, <3>1 DEF PteInv
    <3>2. CASE v # p
      BY <1>1, <1>6, <1>7, <3>2 DEF PteInv
    <3> QED  BY <3>1, <3>2
  <2> QED  BY <1>1, <1>3, <2>1, <2>2 DEF PteInv
<1>15. FrameInv'
  BY <1>1, <1>3, <1>6 DEF FrameInv
<1>16. OwnedInv'
  <2>1. \A b \in DOMAIN owned : p \notin OwnedPages(b)
    <3>1. CASE call.op = "malloc"
      BY <1>1, <1>5, <3>1 DEF CallPagesInv
    <3>2. CASE call.op = "map"
      <4>1. p \notin VmmPages
        BY <1>3, <1>5, <3>2, MemoryAssumption DEF VmmPages, MmioPages
      <4> QED  BY <1>1, <4>1 DEF OwnedInv
    <3> QED  BY <1>1, <3>1, <3>2
  <2> QED  BY <1>1, <1>3, <1>7, <2>1 DEF OwnedInv, OwnedPages
<1>17. CallPagesInv'
  <2>1. call.op = "malloc" => g \in pmm
    BY <1>2, <1>6, InFlightAlone
  <2>2. call'.op \in {"malloc", "free"} =>
          \A b \in DOMAIN owned' : OwnedPages(b)' \cap CallPages' = {}
    BY <1>1, <1>4 DEF CallPagesInv, OwnedPages
  <2>3. call.op = "malloc" =>
          /\ \A v \in CallPages : (v - VMM_BASE) \in vmm
          /\ call.ok = TRUE => \A v \in DonePages : v \in DOMAIN pte' /\ pte'[v] \in pmm
    BY <1>1, <1>5, <1>7 DEF CallPagesInv
  <2> QED  BY <1>1, <1>4, <1>5, <1>6, <1>7, <2>1, <2>2, <2>3 DEF CallPagesInv
<1>18. TlbInv'
  <2>1. ASSUME NEW e \in tlb
        PROVE  /\ \/ e[1] \in DOMAIN pte' /\ pte'[e[1]] = e[2]
                  \/ e[1] = p
               /\ e[2] < count => e[2] \in pmm
    BY <1>1, <1>5, <1>7 DEF TlbInv, TlbCoherent, BeingChanged
  <2>2. DOMAIN pte' \subseteq (DOMAIN pte) \cup {p} /\ BeingChanged(p)' /\ p = Page(call)
    BY <1>1, <1>4, <1>5, <1>7 DEF BeingChanged
  <2>3. StrayInv' /\ stray' \subseteq Nat \X Nat
        /\ \A e \in stray' : e[1] \in DOMAIN pte' => BeingChanged(e[1])'
    BY <1>1, <2>2, StrayChanged
  <2> QED  BY <1>1, <2>1, <2>2, <2>3 DEF TlbInv, TlbCoherent
<1>19. NoLeakInv'
  <2>1. SUFFICES ASSUME refused = FALSE
                 PROVE  /\ \A f \in pmm \cap Usable : Users(f)' # {}
                        /\ \A v \in DOMAIN pte \cap VmmPages : (v - VMM_BASE) \in vmm
                        /\ call.op = "malloc" => \A v \in NextPages : v \notin DOMAIN pte
    BY <1>1, <1>3, <1>4, <1>7 DEF NoLeakInv
  <2>2. /\ \A f \in pmm \cap Usable : Users(f) # {}
        /\ \A v \in DOMAIN pte \cap VmmPages : (v - VMM_BASE) \in vmm
        /\ call.op = "malloc" => \A v \in NextPages : v \notin DOMAIN pte
    BY <1>1, <1>3, <2>1 DEF NoLeakInv
  <2>3. ASSUME NEW f \in pmm \cap Usable
        PROVE  Users(f)' # {}
    <3>1. CASE f = g
      BY <1>1, <1>9, <1>11, <3>1
    <3>2. CASE f # g
      BY <1>10, <2>2, <3>2
    <3> QED  BY <3>1, <3>2
  <2> QED  BY <2>2, <2>3
<1> QED  BY <1>1, <1>4, <1>12, <1>13, <1>14, <1>15, <1>16, <1>17, <1>18, <1>19 DEF IInv

\* vmm_free_pages clears the entry: the frame of the page is now the call's.
LEMMA FreeClearKeeps ==
  ASSUME IInv, vmm_free_clear
  PROVE  IInv'
<1>1. /\ call.op = "free" /\ call.pc = "walk" /\ Page(call) \in DOMAIN pte
      /\ vmm' = vmm \ {call.page - VMM_BASE}
      /\ pte' = Without(pte, {Page(call)})
      /\ call' = [call EXCEPT !.frame = pte[Page(call)], !.pc = "invlpg"]
      /\ UNCHANGED <<memmap, count, bitmap, stage, pmm, tables, tlb, stale, stray, owned,
                     heap, dma, refused>>
      /\ BootInv /\ CallInv /\ CallPagesInv /\ FrameInv /\ PteInv /\ NoLeakInv /\ OwnedInv
      /\ OneUser /\ TlbInv /\ refused \in BOOLEAN
  BY DEF IInv, vmm_free_clear, Working
<1>2. stage \notin {"reset", "fault", "bitmap"} /\ count \in Nat
      /\ Usable' = Usable /\ highestPage' = highestPage /\ VmmPages' = VmmPages
      /\ VMM_BASE \in Nat
  BY <1>1, CallNeedsMemory, CountIs, MapKept, MemoryAssumption DEF VmmPages
<1>3. PICK p \in Nat : /\ p = Page(call) /\ p \notin DonePages /\ p \in CallPages
                       /\ p \in VmmPages /\ p \in DOMAIN pte /\ CallPages \subseteq Nat
                       /\ DonePages \subseteq CallPages
  BY <1>1, IterationIs
<1>4. HalfWritten = {} /\ ~ InFlight /\ ~ Linking
  BY <1>1 DEF HalfWritten, InFlight, Linking, Working
<1>5. PICK g \in Nat : g = pte[p] /\ g \in Usable
  <2>1. p \notin MmioPages
    BY <1>2, <1>3, MemoryAssumption DEF VmmPages, MmioPages
  <2> QED  BY <1>1, <1>3, <1>4, <2>1 DEF PteInv
<1>6. /\ CallInv'
      /\ call'.op = call.op /\ call'.frame = g /\ call'.pc = "invlpg"
      /\ Page(call') = Page(call) /\ CallPages' = CallPages /\ DonePages' = DonePages
  BY <1>1, <1>3, <1>5, CallMoves
<1>7. HalfWritten' = {} /\ InFlight' /\ ~ Linking'
  BY <1>1, <1>6 DEF HalfWritten, InFlight, Linking, Working
<1>8. /\ DOMAIN pte' = (DOMAIN pte) \ {p}
      /\ \A v \in DOMAIN pte' : v \in DOMAIN pte /\ pte'[v] = pte[v]
  BY <1>1, <1>3 DEF Without
<1>9. Users(g) = {<<"page", p>>} /\ g \in pmm
  <2>1. <<"page", p>> \in Users(g)
    BY <1>3, <1>4, <1>5, UserIs
  <2> QED  BY <1>1, <1>5, <2>1 DEF OneUser
<1>10. \A f, u : f # g => (u \in Users(f)' <=> u \in Users(f))
  <2>1. ASSUME NEW f, NEW u, f # g
        PROVE  u \in Users(f)' <=> u \in Users(f)
    <3>1. (\E v \in DOMAIN pte' : v \notin HalfWritten' /\ pte'[v] = f /\ u = <<"page", v>>) <=>
             \E v \in DOMAIN pte : v \notin HalfWritten /\ pte[v] = f /\ u = <<"page", v>>
      BY <1>4, <1>5, <1>7, <1>8, <2>1
    <3>2. tables' = tables /\ dma' = dma /\ bitmap' = bitmap
      BY <1>1
    <3> QED  BY <3>1, <3>2, <1>4, <1>6, <1>7, <2>1, UserIs, UserIsNext
  <2> QED  BY <2>1
<1>11. Users(g)' = {<<"call", 0>>}
  <2>1. <<"call", 0>> \in Users(g)'
    BY <1>6, <1>7, UserIsNext
  <2>2. ASSUME NEW u \in Users(g)'
        PROVE  u = <<"call", 0>>
    <3> DEFINE Others ==
          \/ \E k \in DOMAIN tables : tables[k] = g /\ u = <<"table", k>>
          \/ \E b \in DOMAIN dma : g \in b .. (b + dma[b] - 1) /\ u = <<"range", b>>
          \/ g \in bitmap /\ u = <<"bitmap", 0>>
        Mapped == \E v \in DOMAIN pte : v # p /\ pte[v] = g /\ u = <<"page", v>>
    <3>1. (\E v \in DOMAIN pte' : v \notin HalfWritten' /\ pte'[v] = g /\ u = <<"page", v>>) => Mapped
      BY <1>7, <1>8
    <3>2. tables' = tables /\ dma' = dma /\ bitmap' = bitmap
      BY <1>1
    <3>3. Others \/ Mapped \/ u = <<"call", 0>>
      BY <1>7, <2>2, <3>1, <3>2, UserIsNext
    <3>4. Others => u \in Users(g) /\ u # <<"page", p>>
      BY UserIs
    <3>5. Mapped => u \in Users(g) /\ u # <<"page", p>>
      BY <1>4, UserIs
    <3> QED  BY <1>9, <3>3, <3>4, <3>5
  <2> QED  BY <2>1, <2>2
<1>12. OneUser'
  <2>1. ASSUME NEW f \in Usable
        PROVE  \/ Users(f)' = {}
               \/ Users(f)' \subseteq Users(f) /\ (f \in pmm => f \in pmm')
               \/ f \in pmm' /\ \E u : Users(f)' \subseteq {u}
    <3>1. CASE f # g
      BY <1>1, <1>10, <3>1
    <3>2. CASE f = g
      BY <1>1, <1>9, <1>11, <3>2
    <3> QED  BY <3>1, <3>2
  <2> QED  BY <1>1, <2>1, OneUserStep
<1>13. BootInv'
  BY <1>1, <1>2 DEF BootInv
<1>14. PteInv'
  <2>1. \A v : Missing(v)' = Missing(v)
    BY <1>1 DEF Missing
  <2> QED  BY <1>1, <1>2, <1>4, <1>7, <1>8, <2>1 DEF PteInv
<1>15. FrameInv'
  BY <1>1, <1>2, <1>5, <1>6, <1>7 DEF FrameInv
<1>16. PICK q \in Nat : q = call.page /\ q \in CallPages /\ (q = p \/ q \in DonePages)
  <2>1. call.page \in call.base .. Page(call) /\ call \in CallRecords /\ call.i < call.n
    BY <1>1 DEF CallInv
  <2> QED  BY <1>3, <2>1 DEF CallRecords, Page, CallPages, DonePages
<1>17. OwnedInv'
  <2>1. \A b \in DOMAIN owned : \A v \in OwnedPages(b) : v \notin CallPages /\ v \in VmmPages
    BY <1>1 DEF CallPagesInv, OwnedInv
  <2>2. \A v \in VmmPages : v \notin CallPages /\ (v - VMM_BASE) \in vmm => (v - VMM_BASE) \in vmm'
    BY <1>1, <1>2, <1>16 DEF VmmPages
  <2>3. \A v \in DOMAIN pte : v \notin CallPages => v \in DOMAIN pte' /\ pte'[v] = pte[v]
    BY <1>3, <1>8
  <2>4. \A b : OwnedPages(b)' = OwnedPages(b)
    BY <1>1 DEF OwnedPages
  <2> QED  BY <1>1, <1>2, <2>1, <2>2, <2>3, <2>4 DEF OwnedInv
<1>18. CallPagesInv'
  BY <1>1, <1>3, <1>6, <1>8 DEF CallPagesInv, OwnedPages
<1>19. TlbInv'
  <2>1. ASSUME NEW e \in tlb
        PROVE  /\ \/ e[1] \in DOMAIN pte' /\ pte'[e[1]] = e[2]
                  \/ e[1] = p
               /\ e[2] < count => e[2] \in pmm
    BY <1>1, <1>8 DEF TlbInv, TlbCoherent, BeingChanged
  <2>2. BeingChanged(p)' /\ p = Page(call)
    BY <1>1, <1>3, <1>6 DEF BeingChanged
  <2>3. StrayInv' /\ stray' \subseteq Nat \X Nat
    BY <1>1, <1>8, StrayQuiet
  <2>4. \A e \in stray' : e[1] \in DOMAIN pte' => BeingChanged(e[1])'
    BY <2>3 DEF StrayInv
  <2> QED  BY <1>1, <2>1, <2>2, <2>3, <2>4 DEF TlbInv, TlbCoherent
<1>20. NoLeakInv'
  <2>1. SUFFICES ASSUME refused = FALSE
                 PROVE  /\ \A f \in pmm \cap Usable : Users(f)' # {}
                        /\ \A v \in DOMAIN pte' \cap VmmPages : (v - VMM_BASE) \in vmm'
    BY <1>1, <1>2, <1>6 DEF NoLeakInv
  <2>2. /\ \A f \in pmm \cap Usable : Users(f) # {}
        /\ \A v \in DOMAIN pte \cap VmmPages : (v - VMM_BASE) \in vmm
    BY <1>1, <1>2, <2>1 DEF NoLeakInv
  <2>3. ASSUME NEW f \in pmm \cap Usable
        PROVE  Users(f)' # {}
    BY <1>10, <1>11, <2>2
  <2>4. q \notin DOMAIN pte'
    BY <1>1, <1>8, <1>16 DEF CallPagesInv
  <2>5. ASSUME NEW v \in DOMAIN pte' \cap VmmPages
        PROVE  (v - VMM_BASE) \in vmm'
    <3>1. v # q /\ (v - VMM_BASE) \in vmm /\ v \in Nat
      BY <1>2, <1>8, <2>2, <2>4, <2>5 DEF VmmPages
    <3> QED  BY <1>1, <1>2, <1>16, <3>1
  <2> QED  BY <2>3, <2>5
<1> QED  BY <1>1, <1>6, <1>12, <1>13, <1>14, <1>15, <1>17, <1>18, <1>19, <1>20 DEF IInv
-----------------------------------------------------------------------------
(* Steps of the translation cache *)

\* free_page drops the translation before the frame goes back.
LEMMA FreeInvlpgKeeps ==
  ASSUME IInv, free_page_invlpg
  PROVE  IInv'
<1>1. /\ call.op = "free" /\ call.pc = "invlpg" /\ Invlpg(Page(call))
      /\ call' = [call EXCEPT !.pc = "release"]
      /\ UNCHANGED <<memmap, count, bitmap, stage, pmm, vmm, tables, pte, owned, heap, dma,
                     refused>>
      /\ BootInv /\ CallInv /\ CallPagesInv /\ FrameInv /\ PteInv /\ NoLeakInv /\ OwnedInv
      /\ OneUser /\ refused \in BOOLEAN
  BY DEF IInv, free_page_invlpg, Working
<1>2. stage \notin {"reset", "fault", "bitmap"}
      /\ Usable' = Usable /\ highestPage' = highestPage /\ VmmPages' = VmmPages
  BY <1>1, CallNeedsMemory, MapKept DEF VmmPages
<1>3. /\ CallInv'
      /\ call'.op = call.op /\ call'.frame = call.frame /\ call'.pc = "release"
      /\ Page(call') = Page(call) /\ CallPages' = CallPages /\ DonePages' = DonePages
  <2>1. call.frame \in Nat
    BY <1>1 DEF CallInv, CallRecords
  <2> QED  BY <1>1, <2>1, CallMoves
<1>4. HalfWritten = {} /\ HalfWritten' = {} /\ InFlight /\ InFlight' /\ ~ Linking /\ ~ Linking'
  BY <1>1, <1>3 DEF HalfWritten, InFlight, Linking, Working
<1>5. \A f, u : u \in Users(f)' <=> u \in Users(f)
  <2>1. ASSUME NEW f, NEW u
        PROVE  u \in Users(f)' <=> u \in Users(f)
    <3>1. tables' = tables /\ pte' = pte /\ dma' = dma /\ bitmap' = bitmap
      BY <1>1
    <3> QED  BY <3>1, <1>3, <1>4, UserIs, UserIsNext
  <2> QED  BY <2>1
<1>6. OneUser'
  <2>1. \A f \in Usable : Users(f)' \subseteq Users(f) /\ (f \in pmm => f \in pmm')
    BY <1>1, <1>5
  <2> QED  BY <1>1, <2>1, OneUserStep
<1>7. TlbInv'
  BY <1>1, TlbQuiet
<1>8. PteInv' /\ OwnedInv'
  BY <1>1, <1>4, PteQuiet, OwnedQuiet
<1>9. BootInv'
  BY <1>1, <1>2 DEF BootInv
<1>10. FrameInv'
  BY <1>1, <1>2, <1>3, <1>4 DEF FrameInv
<1>11. CallPagesInv'
  BY <1>1, <1>3 DEF CallPagesInv, OwnedPages
<1>12. NoLeakInv'
  <2>1. SUFFICES ASSUME refused = FALSE
                 PROVE  \A f \in pmm \cap Usable : Users(f)' # {}
    BY <1>1, <1>2, <1>3 DEF NoLeakInv
  <2>2. \A f \in pmm \cap Usable : Users(f) # {}
    BY <1>1, <1>2, <2>1 DEF NoLeakInv
  <2> QED  BY <1>5, <2>2
<1> QED  BY <1>1, <1>3, <1>6, <1>7, <1>8, <1>9, <1>10, <1>11, <1>12 DEF IInv

\* The pages the kernel maps.
LEMMA KernelPagesAre ==
  ASSUME count \in Nat
  PROVE  KernelPages \subseteq Nat
BY MemoryAssumption DEF KernelPages

\* The processor fills its TLB from an entry or by way of a half-written one, or forgets a
\* translation, or nothing happens.
LEMMA TlbKeeps ==
  ASSUME IInv, \/ \E v \in DOMAIN pte : TlbFill(v)
               \/ \E v \in KernelPages : TlbFillAstray(v)
               \/ TlbEvict
               \/ UNCHANGED vars
  PROVE  IInv'
<1>1. UNCHANGED <<memmap, count, bitmap, stage, pmm, vmm, tables, pte, stale, call, owned, heap,
                  dma, refused>>
  BY DEF TlbFill, TlbFillAstray, TlbEvict, vars
<1>2. /\ \A e \in tlb' : e \in tlb \/ \E v \in DOMAIN pte : e = <<v, pte[v]>>
      /\ \A e \in stray' : e \in stray \/ \E v \in KernelPages, f \in StrayFrames :
                                           Astray(v) /\ e = <<v, f>>
  BY DEF TlbFill, TlbFillAstray, TlbEvict, vars
<1>3. ASSUME NEW v \in DOMAIN pte
      PROVE  v \in Nat /\ pte[v] \in Nat /\ (pte[v] < count => pte[v] \in pmm)
  <2>1. VmmPages \subseteq Nat /\ MmioPages \subseteq Nat
    BY CountIs, MemoryAssumption DEF IInv, VmmPages, MmioPages
  <2> QED  BY <2>1 DEF IInv, PteInv
<1>4. TlbInv'
  <2>1. /\ tlb \subseteq Nat \X Nat /\ stray \subseteq Nat \X Nat
        /\ TlbCoherent /\ StrayInv
    BY DEF IInv, TlbInv
  <2>2. tlb' \subseteq Nat \X Nat
    BY <1>2, <1>3, <2>1
  <2>3. stray' \subseteq Nat \X Nat
    <3>1. KernelPages \subseteq Nat /\ StrayFrames \subseteq Nat
      BY KernelPagesAre, CountIs, MemoryAssumption DEF IInv
    <3> QED  BY <1>2, <2>1, <3>1
  <2>4. \A v : /\ BeingChanged(v)' <=> BeingChanged(v)
               /\ Astray(v)' <=> Astray(v)
    BY <1>1 DEF BeingChanged, Astray, Page
  <2>5. StrayInv'
    BY <1>1, <1>2, <2>1, <2>4 DEF StrayInv
  <2>6. \A e \in stray' : e[1] \in DOMAIN pte' => BeingChanged(e[1])'
    BY <2>5 DEF StrayInv
  <2>7. ASSUME NEW e \in tlb'
        PROVE  /\ \/ e[1] \in DOMAIN pte' /\ pte'[e[1]] = e[2]
                  \/ BeingChanged(e[1])'
               /\ e[2] < count' => e[2] \in pmm'
    BY <1>1, <1>2, <1>3, <2>1, <2>4 DEF TlbCoherent
  <2> QED  BY <2>2, <2>3, <2>5, <2>6, <2>7 DEF TlbInv, TlbCoherent
<1>5. BootInv'
  <2>1. /\ tlb' # {} => DOMAIN pte # {} \/ tlb # {}
        /\ stray' # {} => stale # {} \/ stray # {}
    BY <1>2 DEF Astray
  <2> QED  BY <1>1, <2>1, MapKept DEF IInv, BootInv
<1>6. /\ HalfWritten' = HalfWritten /\ InFlight' = InFlight /\ Linking' = Linking
      /\ Usable' = Usable /\ VmmPages' = VmmPages
  BY <1>1, MapKept DEF HalfWritten, InFlight, Linking, Working, VmmPages
<1>7. \A f : Users(f)' = Users(f)
  <2>1. ASSUME NEW f, NEW u
        PROVE  u \in Users(f)' <=> u \in Users(f)
    BY <1>1, <1>6, UserIs, UserIsNext
  <2> QED  BY <2>1
<1>8. CallInv' /\ CallPagesInv'
  BY <1>1, <1>6
  DEF IInv, CallInv, CallPagesInv, CallPages, DonePages, OwnedPages, Page
<1>9. PteInv' /\ OwnedInv'
  BY <1>1, <1>6, PteQuiet, OwnedQuiet DEF IInv
<1>10. FrameInv' /\ OneUser'
  BY <1>1, <1>6, <1>7 DEF IInv, FrameInv, OneUser
<1>11. NoLeakInv'
  BY <1>1, <1>6, <1>7 DEF IInv, NoLeakInv, NextPages, Page
<1>12. refused' \in BOOLEAN
  BY <1>1 DEF IInv
<1> QED  BY <1>4, <1>5, <1>8, <1>9, <1>10, <1>11, <1>12 DEF IInv
-----------------------------------------------------------------------------
(* The invariant *)

\* At reset nothing is mapped, owned or remembered.
LEMMA IInvInit == Init => IInv
<1> SUFFICES ASSUME Init PROVE IInv
  OBVIOUS
<1>1. /\ memmap \in MemoryMaps /\ stage = "reset" /\ count = 0 /\ bitmap = {}
      /\ pmm = {} /\ vmm = {} /\ tlb = {} /\ stale = {} /\ stray = {}
      /\ call = NoCall /\ refused = FALSE
      /\ DOMAIN tables = {} /\ DOMAIN pte = {} /\ DOMAIN owned = {} /\ DOMAIN dma = {}
  BY DEF Init, Empty
<1>2. CallInv /\ CallPagesInv /\ ~ InFlight /\ ~ Linking
  BY <1>1, NoCallIs
<1>3. BootInv
  BY <1>1 DEF BootInv
<1>4. PteInv /\ FrameInv /\ OwnedInv /\ NoLeakInv /\ TlbInv
  BY <1>1, <1>2 DEF PteInv, FrameInv, OwnedInv, NoLeakInv, TlbInv, StrayInv, TlbCoherent
<1>5. OneUser
  <2>1. ASSUME NEW f, NEW u
        PROVE  u \notin Users(f)
    BY <1>1, <1>2, UserIs
  <2> QED  BY <2>1 DEF OneUser
<1> QED  BY <1>1, <1>2, <1>3, <1>4, <1>5 DEF IInv

\* Every step keeps the invariant.
LEMMA IInvNext == IInv /\ [Next]_vars => IInv'
<1> SUFFICES ASSUME IInv, [Next]_vars PROVE IInv'
  OBVIOUS
<1>1. CASE BootStep
  <2>1. CASE get_free_location_for_bitmap
    BY <2>1, BitmapKeeps
  <2>2. CASE init_vmm
    BY <2>2, InitVmmKeeps
  <2>3. CASE vmm_malloc_pages(HEAP_PAGES)
    BY <2>3, VmmMallocKeeps, MemoryAssumption
  <2> QED  BY <1>1, <2>1, <2>2, <2>3 DEF BootStep
<1>2. CASE CallStep
  BY <1>2, MallocFrameKeeps, NextTableKeeps, LinkKeeps, WalkFailsKeeps, PresentKeeps, AddressKeeps,
     InvlpgKeeps, FreeAbsentKeeps, FreeClearKeeps, FreeInvlpgKeeps, FreeReleaseKeeps
  DEF CallStep
<1>3. CASE NewCall
  <2>1. PICK n \in 1 .. MAX_PAGES :
          \/ vmm_malloc_pages(n)
          \/ map_pages(n)
          \/ pmm_malloc_pages(n)
          \/ \E b \in VMM_BASE .. (VMM_BASE + count - 1) : vmm_free_pages(b, n)
    BY <1>3 DEF NewCall
  <2>2. n \in Nat
    BY MemoryAssumption
  <2> QED  BY <2>1, <2>2, VmmMallocKeeps, MapPagesKeeps, PmmMallocKeeps, VmmFreeKeeps
<1>4. CASE \/ (\E v \in DOMAIN pte : TlbFill(v)) \/ (\E v \in KernelPages : TlbFillAstray(v))
           \/ TlbEvict \/ UNCHANGED vars
  BY <1>4, TlbKeeps
<1> QED  BY <1>1, <1>2, <1>3, <1>4 DEF Next

LEMMA IInvAlways == Spec => []IInv
BY IInvInit, IInvNext, PTL DEF Spec

\* The memory state is well typed in every reachable state: in particular no bit is ever set
\* beyond the end of a bitmap, and a call stays inside its range.
THEOREM MemoryTypeOK == Spec => []TypeOK
<1>1. IInv => TypeOK
  <2> SUFFICES ASSUME IInv PROVE TypeOK
    OBVIOUS
  <2>1. Usable \subseteq Nat
    BY CountIs DEF IInv
  <2>2. \A e \in tlb \cup stray : e[1] \in Nat /\ e[2] \in Nat
    BY DEF IInv, TlbInv
  <2>3. \A k \in DOMAIN tables : tables[k] \in Nat
    BY <2>1 DEF IInv, FrameInv
  <2>4. \A v \in DOMAIN pte : pte[v] \in Nat
    BY DEF IInv, PteInv
  <2>5. /\ call.op \in {"none", "malloc", "map", "free"}
        /\ call.pc \in {"none", "frame", "walk", "link", "address", "invlpg", "release"}
        /\ call.op # "none" => call.i < call.n
    BY DEF IInv, CallInv, CallRecords
  <2> QED  BY <2>2, <2>3, <2>4, <2>5 DEF IInv, BootInv, TypeOK
<1> QED  BY <1>1, IInvAlways, PTL

\* A set with no two different members has at most one.
LEMMA AtMostOne ==
  ASSUME NEW S, \A u, w \in S : u = w
  PROVE  Cardinality(S) <= 1
<1>1. CASE S = {}
  BY <1>1, FS_EmptySet
<1>2. CASE S # {}
  <2>1. PICK u : S = {u}
    BY <1>2
  <2>2. Cardinality(S) = 1
    BY <2>1, FS_Singleton, Zenon
  <2> QED  BY <2>2
<1> QED  BY <1>1, <1>2

\* No physical page serves two purposes, through every failure path of pmm_malloc,
\* vmm_malloc_pages, map_pages and vmm_free_pages: a usable page has one user and its bit
\* is set; what is not usable is used by nobody but the page that maps that register.
THEOREM FramesAreExclusive == Spec => []FrameExclusive
<1>1. IInv => FrameExclusive
  <2> SUFFICES ASSUME IInv, NEW f \in 0 .. (count - 1)
               PROVE  /\ Cardinality(Users(f)) <= 1
                      /\ Users(f) # {} => f \in pmm \cap (Usable \cup Registers)
    BY DEF FrameExclusive
  <2>0. BootInv /\ PteInv /\ FrameInv /\ OneUser
    BY DEF IInv
  <2>1. CASE f \in Usable
    BY <2>0, <2>1, AtMostOne DEF OneUser
  <2>2. CASE f \notin Usable
    <3>1. ASSUME NEW u \in Users(f)
          PROVE  \E v \in DOMAIN pte : v \notin HalfWritten /\ pte[v] = f /\ u = <<"page", v>>
      <4>1. f \notin bitmap /\ ~ (InFlight /\ call.frame = f) /\ ~ (Linking /\ call.table = f)
        BY <2>0, <2>2 DEF FrameInv
      <4>2. ~ \E k \in DOMAIN tables : tables[k] = f
        BY <2>0, <2>2 DEF FrameInv
      <4>3. ~ \E b \in DOMAIN dma : f \in b .. (b + dma[b] - 1)
        BY <2>0, <2>2 DEF FrameInv
      <4> QED  BY <4>1, <4>2, <4>3, UserIs
    <3>2. ASSUME NEW v \in DOMAIN pte, v \notin HalfWritten, pte[v] = f
          PROVE  v \in MmioPages /\ f = MMIO_FRAME + (v - MMIO_BASE) /\ f \in pmm
      <4>1. count \in Nat /\ f < count
        BY <2>0, CountIs
      <4> QED  BY <2>0, <2>2, <3>2, <4>1 DEF PteInv
    <3>3. MMIO_BASE \in Nat /\ MMIO_FRAME \in Nat /\ MAX_PAGES \in Nat
      BY MemoryAssumption
    <3>4. \A u, w \in Users(f) : u = w
      <4>1. SUFFICES ASSUME NEW u \in Users(f), NEW w \in Users(f) PROVE u = w
        OBVIOUS
      <4>2. PICK v \in DOMAIN pte : v \notin HalfWritten /\ pte[v] = f /\ u = <<"page", v>>
        BY <3>1
      <4>3. PICK x \in DOMAIN pte : x \notin HalfWritten /\ pte[x] = f /\ w = <<"page", x>>
        BY <3>1
      <4>4. /\ v \in MmioPages /\ f = MMIO_FRAME + (v - MMIO_BASE)
            /\ x \in MmioPages /\ f = MMIO_FRAME + (x - MMIO_BASE)
        BY <4>2, <4>3, <3>2
      <4>5. v = x
        BY <4>4, <3>3 DEF MmioPages
      <4> QED  BY <4>2, <4>3, <4>5
    <3>5. Users(f) # {} => f \in pmm /\ f \in Registers
      <4>1. ASSUME NEW u \in Users(f) PROVE f \in pmm /\ f \in Registers
        <5>1. PICK v \in DOMAIN pte : v \notin HalfWritten /\ pte[v] = f
          BY <3>1
        <5>2. v \in MmioPages /\ f = MMIO_FRAME + (v - MMIO_BASE) /\ f \in pmm
          BY <5>1, <3>2
        <5> QED  BY <5>2, <3>3 DEF MmioPages, Registers
      <4> QED  BY <4>1
    <3> QED  BY <3>4, <3>5, AtMostOne
  <2> QED  BY <2>1, <2>2
<1> QED  BY <1>1, IInvAlways, PTL

\* Until a pmm_malloc has failed no frame is lost: vmm_malloc_pages and vmm_free_pages hand
\* every page they mark to an entry, a table or a device, and every page they take back to
\* the pmm.
THEOREM LeaksFollowRefusal == Spec => []LeakOnlyAfterRefusal
<1>1. IInv => LeakOnlyAfterRefusal
  BY DEF IInv, NoLeakInv, LeakOnlyAfterRefusal
<1> QED  BY <1>1, IInvAlways, PTL

\* What vmm_malloc_pages returned is mapped page by page to frames that are marked, its
\* addresses are reserved, and it shares none with another range, until vmm_free_pages is
\* called for it.
THEOREM OwnedRangesAreBacked == Spec => []OwnedIsBacked
<1>1. IInv => OwnedIsBacked
  BY DEF IInv, OwnedInv, OwnedPages, OwnedIsBacked
<1> QED  BY <1>1, IInvAlways, PTL

\* The processor uses no outdated translation of a mapped page: map_page and free_page
\* invalidate before they are done, free_page does so before the frame can be given out
\* again, and what a walk through a half-written table entry has left (Present is stored
\* before Address there too) is of pages that are not mapped, each dropped when it is.
THEOREM TlbIsCoherent == Spec => []TlbCoherent
<1>1. IInv => TlbCoherent
  BY DEF IInv, TlbInv
<1> QED  BY <1>1, IInvAlways, PTL

\* The page a call works on belongs to no range a caller owns.
LEMMA CallPageIsNotOwned ==
  ASSUME IInv, call.op # "none", NEW b \in DOMAIN owned
  PROVE  Page(call) \notin OwnedPages(b)
<1>1. /\ call.base \in Nat /\ call.n \in Nat /\ call.i \in Nat /\ call.i < call.n
      /\ call.op \in {"malloc", "free", "map"}
  BY DEF IInv, CallInv, CallRecords
<1>2. Page(call) \in CallPages
  BY <1>1 DEF CallPages, Page
<1>3. CASE call.op \in {"malloc", "free"}
  BY <1>2, <1>3 DEF IInv, CallPagesInv
<1>4. CASE call.op = "map"
  <2>1. Page(call) \in MmioPages
    BY <1>1, <1>4, MemoryAssumption DEF IInv, CallInv, MmioPages, Page
  <2>2. OwnedPages(b) \subseteq VmmPages
    BY DEF IInv, OwnedInv
  <2>3. count \in Nat
    BY CountIs DEF IInv
  <2> QED  BY <2>1, <2>2, <2>3, MemoryAssumption DEF MmioPages, VmmPages
<1> QED  BY <1>1, <1>3, <1>4

\* While a caller holds a range no step, be it of another vmm_malloc_pages that fails half
\* way, of map_pages or of a vmm_free_pages for somebody else, changes what is behind one of
\* its pages.
THEOREM OwnedPagesStay == Spec => OwnedStaysMapped
<1> DEFINE Kept == \A b \in DOMAIN owned \cap DOMAIN owned' :
                     \A v \in b .. (b + owned[b] - 1) : v \in DOMAIN pte' /\ pte'[v] = pte[v]
<1>1. IInv /\ [Next]_vars => [Kept]_vars
  <2> SUFFICES ASSUME IInv, Next, NEW b \in DOMAIN owned, NEW v \in OwnedPages(b)
               PROVE  v \in DOMAIN pte' /\ pte'[v] = pte[v]
    BY DEF OwnedPages
  <2>1. v \in DOMAIN pte
    BY DEF IInv, OwnedInv
  <2>2. CASE UNCHANGED pte
    BY <2>1, <2>2
  <2>3. CASE map_page_present
    BY <2>1, <2>3 DEF map_page_present, With
  <2>4. CASE map_page_address \/ vmm_free_clear
    <3>1. \/ pte' = With(pte, Page(call), call.frame)
          \/ pte' = Without(pte, {Page(call)})
      BY <2>4 DEF map_page_address, vmm_free_clear
    <3>2. v # Page(call)
      BY <2>4, CallPageIsNotOwned DEF map_page_address, vmm_free_clear, Working
    <3> QED  BY <2>1, <3>1, <3>2 DEF With, Without
  <2>5. UNCHANGED pte \/ map_page_present \/ map_page_address \/ vmm_free_clear
    <3>1. CASE BootStep
      BY <3>1 DEF BootStep, get_free_location_for_bitmap, init_vmm, vmm_malloc_pages
    <3>2. CASE CallStep
      BY <3>2 DEF CallStep, vmm_malloc_frame, get_or_create_next_table,
         set_next_table_address, WalkFails, map_page_invlpg, vmm_free_absent, free_page_invlpg,
         vmm_free_release
    <3>3. CASE NewCall
      BY <3>3 DEF NewCall, vmm_malloc_pages, map_pages, pmm_malloc_pages, vmm_free_pages
    <3>4. CASE \/ (\E x \in DOMAIN pte : TlbFill(x)) \/ (\E x \in KernelPages : TlbFillAstray(x))
               \/ TlbEvict
      BY <3>4 DEF TlbFill, TlbFillAstray, TlbEvict
    <3> QED  BY <3>1, <3>2, <3>3, <3>4 DEF Next
  <2> QED  BY <2>2, <2>3, <2>4, <2>5
<1>2. Spec => [][Kept]_vars
  BY <1>1, IInvAlways, PTL DEF Spec
<1> QED  BY <1>2 DEF OwnedStaysMapped
-----------------------------------------------------------------------------
(* The report *)

\* The pages of some regions.
PagesOf(T) == UNION {Pages(memmap[r]) : r \in T}

\* Regions have their pages for themselves.
LEMMA RegionAlone ==
  ASSUME memmap \in MemoryMaps, NEW T \in SUBSET UsableRegions, NEW x \in T
  PROVE  /\ Pages(memmap[x]) \cap PagesOf(T \ {x}) = {}
         /\ PagesOf(T) = Pages(memmap[x]) \cup PagesOf(T \ {x})
<1>1. ASSUME NEW r \in T \ {x}
      PROVE  Pages(memmap[x]) \cap Pages(memmap[r]) = {}
  <2>1. /\ x \in DOMAIN memmap /\ r \in DOMAIN memmap /\ memmap[x].usable /\ memmap[r].usable /\ r # x
    BY DEF UsableRegions
  <2>2. \/ memmap[r].base + memmap[r].length <= memmap[x].base
        \/ memmap[x].base + memmap[x].length <= memmap[r].base
    BY <2>1, ReportAssumption
  <2>3. /\ memmap[x].base \in Nat /\ memmap[x].length \in Nat
        /\ memmap[r].base \in Nat /\ memmap[r].length \in Nat
    BY <2>1, RegionIs
  <2> QED  BY <2>2, <2>3 DEF Pages
<1>2. Pages(memmap[x]) \cap PagesOf(T \ {x}) = {}
  BY <1>1 DEF PagesOf
<1>3. PagesOf(T) = Pages(memmap[x]) \cup PagesOf(T \ {x})
  BY DEF PagesOf
<1> QED  BY <1>2, <1>3

\* They are finitely many.
LEMMA PagesAreFinite ==
  ASSUME memmap \in MemoryMaps, NEW T \in SUBSET UsableRegions
  PROVE  IsFiniteSet(T) /\ IsFiniteSet(PagesOf(T)) /\ Cardinality(PagesOf(T)) \in Nat
<1>1. IsFiniteSet(T)
  <2>1. CASE T = {}
    BY <2>1, FS_EmptySet
  <2>2. CASE T # {}
    <3>1. PICK r : r \in T
      BY <2>2
    <3>2. r \in DOMAIN memmap
      BY <3>1 DEF UsableRegions
    <3>3. DOMAIN memmap = 1 .. Len(memmap) /\ Len(memmap) \in Nat
      BY <3>2, RegionIs
    <3>4. IsFiniteSet(DOMAIN memmap)
      BY <3>3, FS_Interval
    <3>5. T \in SUBSET DOMAIN memmap
      BY DEF UsableRegions
    <3> QED  BY <3>4, <3>5, FS_Subset
  <2> QED  BY <2>1, <2>2
<1>2. PagesOf(T) \in SUBSET (1 .. (highestPage - 1))
  <2>1. PagesOf(T) \subseteq Usable
    BY DEF PagesOf, Usable
  <2> QED  BY <2>1, UsableIs
<1>3. IsFiniteSet(1 .. (highestPage - 1))
  <2>1. 1 \in Int /\ highestPage - 1 \in Int
    BY UsableIs
  <2> QED  BY <2>1, FS_Interval
<1>4. IsFiniteSet(PagesOf(T))
  BY <1>2, <1>3, FS_Subset
<1> QED  BY <1>1, <1>4, FS_CardinalityType

\* A region more counts for its length.
LEMMA OneRegionMore ==
  ASSUME memmap \in MemoryMaps, NEW T \in SUBSET UsableRegions, NEW x \in T
  PROVE  /\ memmap[x].length \in Nat
         /\ Cardinality(PagesOf(T)) = memmap[x].length + Cardinality(PagesOf(T \ {x}))
<1>1. x \in DOMAIN memmap
  BY DEF UsableRegions
<1>2. memmap[x].base \in Nat /\ memmap[x].length \in Nat
  BY <1>1, RegionIs
<1>3. IsFiniteSet(Pages(memmap[x])) /\ Cardinality(Pages(memmap[x])) = memmap[x].length
  <2>1. PICK b \in Nat, l \in Nat : b = memmap[x].base /\ l = memmap[x].length
    BY <1>2
  <2>2. Pages(memmap[x]) = b .. (b + l - 1)
    BY <2>1 DEF Pages
  <2>3. /\ IsFiniteSet(b .. (b + l - 1))
        /\ Cardinality(b .. (b + l - 1)) = IF b > b + l - 1 THEN 0 ELSE (b + l - 1) - b + 1
    BY FS_Interval
  <2>4. (IF b > b + l - 1 THEN 0 ELSE (b + l - 1) - b + 1) = l
    OBVIOUS
  <2> QED  BY <2>1, <2>2, <2>3, <2>4
<1>4. T \ {x} \in SUBSET UsableRegions
  OBVIOUS
<1>5. IsFiniteSet(PagesOf(T \ {x})) /\ Cardinality(PagesOf(T \ {x})) \in Nat
  BY <1>4, PagesAreFinite
<1>6. Cardinality(Pages(memmap[x]) \cup PagesOf(T \ {x})) =
        Cardinality(Pages(memmap[x])) + Cardinality(PagesOf(T \ {x}))
          - Cardinality(Pages(memmap[x]) \cap PagesOf(T \ {x}))
  BY <1>3, <1>5, FS_Union
<1>7. Cardinality(Pages(memmap[x]) \cap PagesOf(T \ {x})) = 0
  BY RegionAlone, FS_EmptySet
<1>8. PagesOf(T) = Pages(memmap[x]) \cup PagesOf(T \ {x})
  BY RegionAlone
<1> QED  BY <1>2, <1>3, <1>5, <1>6, <1>7, <1>8

\* What the sum over some regions is asked to be, whatever the order of the regions.
Sums(g) ==
  g = [T \in SUBSET UsableRegions |->
         IF T = {} THEN 0
         ELSE memmap[CHOOSE x \in T : TRUE].length * PAGE_SIZE + g[T \ {CHOOSE x \in T : TRUE}]]

\* The numbers of pages are such a sum,
LEMMA PagesAreSums ==
  ASSUME memmap \in MemoryMaps
  PROVE  Sums([T \in SUBSET UsableRegions |-> Cardinality(PagesOf(T)) * PAGE_SIZE])
<1> DEFINE h == [T \in SUBSET UsableRegions |-> Cardinality(PagesOf(T)) * PAGE_SIZE]
<1>1. ASSUME NEW T \in SUBSET UsableRegions
      PROVE  h[T] = IF T = {} THEN 0
                    ELSE memmap[CHOOSE x \in T : TRUE].length * PAGE_SIZE
                           + h[T \ {CHOOSE x \in T : TRUE}]
  <2>1. CASE T = {}
    <3>1. PagesOf({}) = {}
      BY DEF PagesOf
    <3>2. Cardinality(PagesOf(T)) = 0
      BY <2>1, <3>1, FS_EmptySet
    <3>3. 0 * PAGE_SIZE = 0
      BY MemoryAssumption
    <3> QED  BY <2>1, <3>2, <3>3
  <2>2. CASE T # {}
    <3>1. PICK x \in T : x = CHOOSE y \in T : TRUE
      BY <2>2
    <3>2. PICK l \in Nat, c \in Nat, P \in Nat :
            l = memmap[x].length /\ c = Cardinality(PagesOf(T \ {x})) /\ P = PAGE_SIZE
      <4>1. T \ {x} \in SUBSET UsableRegions
        OBVIOUS
      <4>2. Cardinality(PagesOf(T \ {x})) \in Nat
        BY <4>1, PagesAreFinite
      <4> QED  BY <4>2, OneRegionMore, MemoryAssumption
    <3>3. Cardinality(PagesOf(T)) = l + c
      BY <3>2, OneRegionMore
    <3>4. (l + c) * P = l * P + c * P
      BY SMT
    <3>5. h[T] = (l + c) * P /\ h[T \ {x}] = c * P
      BY <3>2, <3>3
    <3> HIDE DEF h
    <3> QED  BY <2>2, <3>1, <3>2, <3>4, <3>5
  <2> QED  BY <2>1, <2>2
<1>2. h = [T \in SUBSET UsableRegions |-> h[T]]
  OBVIOUS
<1> HIDE DEF h
<1>3. Sums(h)
  BY <1>1, <1>2 DEF Sums
<1> QED  BY <1>3 DEF h

\* and there is no other.
LEMMA SumsAreOne ==
  ASSUME memmap \in MemoryMaps, NEW g, Sums(g), NEW h, Sums(h), NEW T \in SUBSET UsableRegions
  PROVE  g[T] = h[T]
<1> DEFINE Bad == {k \in Nat : \E S \in SUBSET UsableRegions : Cardinality(S) = k /\ g[S] # h[S]}
<1>1. SUFFICES ASSUME g[T] # h[T] PROVE FALSE
  OBVIOUS
<1>2. \A S \in SUBSET UsableRegions : IsFiniteSet(S)
  BY PagesAreFinite
<1>3. Cardinality(T) \in Nat
  BY <1>2, FS_CardinalityType
<1>4. Bad # {} /\ Bad \subseteq Nat
  BY <1>1, <1>3
<1>5. PICK k \in Bad : \A l \in Bad : k <= l
  <2> HIDE DEF Bad
  <2> QED  BY <1>4, LeastOf
<1>6. PICK S \in SUBSET UsableRegions : Cardinality(S) = k /\ g[S] # h[S]
  BY <1>5
<1>7. /\ g[S] = IF S = {} THEN 0 ELSE memmap[CHOOSE x \in S : TRUE].length * PAGE_SIZE
                                      + g[S \ {CHOOSE x \in S : TRUE}]
      /\ h[S] = IF S = {} THEN 0 ELSE memmap[CHOOSE x \in S : TRUE].length * PAGE_SIZE
                                      + h[S \ {CHOOSE x \in S : TRUE}]
  BY DEF Sums
<1>8. S # {}
  BY <1>6, <1>7
<1>9. PICK x \in S : x = CHOOSE y \in S : TRUE
  BY <1>8
<1>10. PICK R : R = S \ {x}
  OBVIOUS
<1>11. R \in SUBSET UsableRegions /\ IsFiniteSet(S)
  BY <1>2, <1>10
<1>12. Cardinality(R) = k - 1 /\ Cardinality(R) \in Nat
  <2>1. Cardinality(S \ {x}) = Cardinality(S) - 1
    BY <1>9, <1>11, FS_RemoveElement
  <2>2. Cardinality(R) \in Nat
    BY <1>2, <1>11, FS_CardinalityType
  <2> QED  BY <1>6, <1>10, <2>1, <2>2
<1>13. g[R] # h[R]
  BY <1>6, <1>7, <1>8, <1>9, <1>10
<1>14. k - 1 \in Bad
  BY <1>11, <1>12, <1>13
<1>15. k \in Nat
  BY <1>5
<1> HIDE DEF Bad
<1> QED  BY <1>5, <1>14, <1>15

\* memory_info counts the bytes of the regions, get_pmm_page_counts the bits: both
\* count the usable pages.
LEMMA TotalIs ==
  ASSUME memmap \in MemoryMaps
  PROVE  totalUsableBytes = Cardinality(Usable) * PAGE_SIZE
<1> DEFINE chosen == CHOOSE g : g = [T \in SUBSET UsableRegions |->
                       IF T = {} THEN 0
                       ELSE memmap[CHOOSE x \in T : TRUE].length * PAGE_SIZE
                              + g[T \ {CHOOSE x \in T : TRUE}]]
           h == [T \in SUBSET UsableRegions |-> Cardinality(PagesOf(T)) * PAGE_SIZE]
<1>1. Sums(h)
  BY PagesAreSums
<1>2. Sums(chosen)
  <2>1. \E g : g = [T \in SUBSET UsableRegions |->
                      IF T = {} THEN 0
                      ELSE memmap[CHOOSE x \in T : TRUE].length * PAGE_SIZE
                             + g[T \ {CHOOSE x \in T : TRUE}]]
    <3> HIDE DEF h
    <3> QED  BY <1>1 DEF Sums
  <2>2. chosen = [T \in SUBSET UsableRegions |->
                    IF T = {} THEN 0
                    ELSE memmap[CHOOSE x \in T : TRUE].length * PAGE_SIZE
                           + chosen[T \ {CHOOSE x \in T : TRUE}]]
    BY <2>1
  <2> HIDE DEF chosen
  <2> QED  BY <2>2 DEF Sums
<1>3. totalUsableBytes = chosen[UsableRegions]
  BY DEF totalUsableBytes, MapThenSumSet, MapThenFoldSet
<1>4. PICK c : c = chosen
  OBVIOUS
<1> HIDE DEF chosen
<1>5. c[UsableRegions] = h[UsableRegions]
  <2> HIDE DEF h
  <2>1. UsableRegions \in SUBSET UsableRegions /\ Sums(c)
    BY <1>2, <1>4
  <2> QED  BY <1>1, <2>1, SumsAreOne
<1>6. h[UsableRegions] = Cardinality(PagesOf(UsableRegions)) * PAGE_SIZE
  OBVIOUS
<1>7. PagesOf(UsableRegions) = Usable
  BY DEF PagesOf, Usable
<1> HIDE DEF h
<1> QED  BY <1>3, <1>4, <1>5, <1>6, <1>7

\* After get_free_location_for_bitmap there is a usable region.
HasRegion == stage \notin {"reset", "fault"} => UsableRegions # {}

LEMMA RegionFound == Spec => []HasRegion
<1>1. Init => HasRegion
  BY DEF Init, HasRegion
<1>2. ASSUME IInv, HasRegion, [Next]_vars
      PROVE  HasRegion'
  <2>1. CASE UNCHANGED vars
    BY <1>2, <2>1 DEF vars, HasRegion, UsableRegions
  <2>2. CASE get_free_location_for_bitmap
    <3>1. CASE BitmapRegions = {}
      BY <2>2, <3>1 DEF get_free_location_for_bitmap, HasRegion
    <3>2. CASE BitmapRegions # {}
      <4>1. UsableRegions # {} /\ memmap' = memmap
        BY <2>2, <3>2 DEF BitmapRegions, get_free_location_for_bitmap
      <4> QED  BY <4>1 DEF HasRegion, UsableRegions
    <3> QED  BY <3>1, <3>2
  <2>3. CASE memmap' = memmap /\ (stage' = stage \/ stage \notin {"reset", "fault"})
    BY <1>2, <2>3 DEF HasRegion, UsableRegions
  <2>4. \/ get_free_location_for_bitmap \/ UNCHANGED vars
        \/ memmap' = memmap /\ (stage' = stage \/ stage \notin {"reset", "fault"})
    <3>1. CASE BootStep
      BY <3>1 DEF BootStep, init_vmm, vmm_malloc_pages
    <3>2. CASE CallStep
      <4>1. call.op = "malloc" => stage \in {"vmm", "up"}
        BY <1>2 DEF IInv, CallInv
      <4>2. ASSUME NEW ok, Return(ok)
            PROVE  stage' = stage \/ stage \notin {"reset", "fault"}
        BY <4>1, <4>2 DEF Return
      <4>3. CASE WalkFails \/ map_page_invlpg
        <5>1. memmap' = memmap
          BY <4>3 DEF WalkFails, map_page_invlpg
        <5>2. Return(TRUE) \/ Return(FALSE)
          BY <4>3, Zenon DEF WalkFails, map_page_invlpg
        <5>3. stage' = stage \/ stage \notin {"reset", "fault"}
          BY <4>2, <5>2, Zenon
        <5> QED  BY <5>1, <5>3, Zenon
      <4>4. CASE vmm_malloc_frame
        <5>1. memmap' = memmap /\ call.op = "malloc"
          BY <4>4 DEF vmm_malloc_frame, Working
        <5> QED  BY <4>1, <5>1
      <4>5. CASE get_or_create_next_table \/ set_next_table_address
        BY <4>5 DEF get_or_create_next_table, set_next_table_address
      <4>6. CASE map_page_present \/ map_page_address
        BY <4>6 DEF map_page_present, map_page_address
      <4>7. CASE vmm_free_absent \/ vmm_free_clear
        BY <4>7 DEF vmm_free_absent, vmm_free_clear
      <4>8. CASE free_page_invlpg \/ vmm_free_release
        BY <4>8 DEF free_page_invlpg, vmm_free_release
      <4> QED  BY <3>2, <4>3, <4>4, <4>5, <4>6, <4>7, <4>8 DEF CallStep
    <3>3. CASE NewCall
      BY <3>3 DEF NewCall, vmm_malloc_pages, map_pages, pmm_malloc_pages, vmm_free_pages
    <3>4. CASE \/ (\E x \in DOMAIN pte : TlbFill(x)) \/ (\E x \in KernelPages : TlbFillAstray(x))
               \/ TlbEvict
      BY <3>4 DEF TlbFill, TlbFillAstray, TlbEvict
    <3> QED  BY <1>2, <3>1, <3>2, <3>3, <3>4 DEF Next
  <2> QED  BY <2>1, <2>2, <2>3, <2>4
<1> QED  BY <1>1, <1>2, IInvAlways, PTL DEF Spec

\* The bar is not longer than its elements when the part is not larger than the whole.
LEMMA BarIs ==
  ASSUME NEW b \in Nat, NEW t \in Nat, 0 < t, b <= t, NEW n \in Nat
  PROVE  getPercentBar(b, t, n) \in 0 .. n
<1> DEFINE q == (b * 100) \div t
           m == (b * 100) % t
<1>1. q \in Int /\ m \in 0 .. (t - 1) /\ b * 100 = t * q + m
  BY SMT
<1> HIDE DEF q, m
<1>2. 0 <= q
  <2>1. SUFFICES ASSUME q <= -1 PROVE FALSE
    BY <1>1
  <2>2. t * q <= t * (-1)
    BY <1>1, <2>1, SMT
  <2> QED  BY <1>1, <2>2
<1>3. q <= 100
  <2>1. SUFFICES ASSUME 101 <= q PROVE FALSE
    BY <1>1
  <2>2. t * 101 <= t * q
    BY <1>1, <2>1, SMT
  <2> QED  BY <1>1, <2>2
<1>4. PICK p \in Int : p = q * n /\ 0 <= p /\ p <= 100 * n
  <2>1. 0 * n <= q * n /\ q * n <= 100 * n /\ q * n \in Int
    BY <1>1, <1>2, <1>3, SMT
  <2> QED  BY <2>1
<1>5. p \div 100 \in 0 .. n
  BY <1>4
<1> QED  BY <1>4, <1>5 DEF getPercentBar, q

\* The memory command's numbers add up, for every memory map and after every call, also in
\* the middle of one (print_memory_info takes the total from the map, the free pages from
\* the bitmap, and draws the quotient).
THEOREM TheReportAddsUp == Spec => []ReportAddsUp
<1>1. ASSUME IInv, HasRegion
      PROVE  ReportAddsUp
  <2>1. SUFFICES ASSUME stage \notin {"reset", "fault"}
                 PROVE  /\ ramUsedBytes = Cardinality(pmm \cap Usable) * PAGE_SIZE
                        /\ getPercentBar(ramUsedBytes, totalUsableBytes, BAR_LENGTH) \in 0 .. BAR_LENGTH
    BY DEF ReportAddsUp
  <2>2. /\ memmap \in MemoryMaps /\ count \in Nat /\ Usable \subseteq 1 .. (count - 1)
        /\ pmm \subseteq 0 .. (count - 1) /\ (0 .. (count - 1)) \ Usable \subseteq pmm
    BY <1>1, <2>1, CountIs DEF IInv, BootInv
  <2>3. (0 .. (count - 1)) \ pmm = Usable \ pmm
    <3>1. Usable \subseteq 0 .. (count - 1)
      BY <2>2
    <3> QED  BY <2>2, <3>1, Zenon
  <2>4. IsFiniteSet(Usable)
    <3>1. PagesOf(UsableRegions) = Usable
      BY DEF PagesOf, Usable
    <3> QED  BY <2>2, <3>1, PagesAreFinite
  <2>5. Cardinality(Usable \ pmm) = Cardinality(Usable) - Cardinality(Usable \cap pmm)
    BY <2>4, FS_Difference
  <2>6. IsFiniteSet(Usable \cap pmm) /\ Cardinality(Usable \cap pmm) <= Cardinality(Usable)
    BY <2>4, FS_Intersection
  <2>7. PICK u \in Nat, U \in Nat, P \in Nat :
          u = Cardinality(Usable \cap pmm) /\ U = Cardinality(Usable) /\ P = PAGE_SIZE /\ P > 0
    BY <2>4, <2>6, FS_CardinalityType, MemoryAssumption
  <2>8. u <= U /\ Cardinality(Usable \ pmm) = U - u
    BY <2>5, <2>6, <2>7
  <2>9. totalUsableBytes = U * P
    BY <2>2, <2>7, TotalIs
  <2>10. get_pmm_page_counts.free = U - u
    BY <2>3, <2>8 DEF get_pmm_page_counts
  <2>11. U * P - (U - u) * P = u * P
    BY SMT
  <2>12. ramUsedBytes = u * P
    BY <2>7, <2>9, <2>10, <2>11 DEF ramUsedBytes
  <2>13. U # 0
    <3>1. PICK r \in UsableRegions : TRUE
      BY <1>1, <2>1 DEF HasRegion
    <3>2. r \in DOMAIN memmap /\ memmap[r].usable
      BY DEF UsableRegions
    <3>3. memmap[r].base \in Nat /\ memmap[r].length \in Nat /\ memmap[r].length > 0
      BY <2>2, <3>2, RegionIs, ReportAssumption
    <3>4. memmap[r].base \in Pages(memmap[r])
      BY <3>3 DEF Pages
    <3>5. Usable # {}
      BY <3>4 DEF Usable
    <3> QED  BY <2>4, <2>7, <3>5, FS_EmptySet
  <2>14. u * P \in Nat /\ U * P \in Nat /\ 0 < U * P /\ u * P <= U * P
    BY <2>7, <2>8, <2>13, SMT
  <2>15. getPercentBar(u * P, U * P, BAR_LENGTH) \in 0 .. BAR_LENGTH
    BY <2>14, BarIs, ReportAssumption
  <2>16. Usable \cap pmm = pmm \cap Usable
    OBVIOUS
  <2> QED  BY <2>7, <2>9, <2>12, <2>15, <2>16
<1> QED  BY <1>1, IInvAlways, RegionFound, PTL

-----------------------------------------------------------------------------
(* find_free_range, which pmm and vmm call, gives the answer Bitmap.tla       *)
(* states, for every bitmap and every range.                                  *)

\* The inductive invariant: the loop invariant and what the two exits establish.
LoopInv == SearchTypeOK /\ SeriesInvariant /\ FoundIsLowest /\ FailedMeansNone

\* A run is a start inside the bitmap and range zero bits after it.
LEMMA RunFacts ==
  ASSUME SearchTypeOK, NEW s \in FreeRuns(used, Count, range)
  PROVE  /\ s \in Nat /\ range > 0 /\ s + range <= Count
         /\ \A k \in Int : s <= k /\ k < s + range => k \notin used
BY CountAssumption DEF SearchTypeOK, FreeRuns, IsFreeRun

\* Before the first iteration nothing has been counted.
LEMMA InitLoopInv == SearchInit => LoopInv
<1> SUFFICES ASSUME SearchInit PROVE LoopInv
  OBVIOUS
<1>1. SearchTypeOK
  BY CountAssumption DEF SearchInit, SearchTypeOK
<1>2. \A s \in FreeRuns(used, Count, range) : s + range > i
  BY <1>1, RunFacts DEF SearchInit
<1>3. SeriesInvariant
  BY <1>1, <1>2 DEF SearchInit, SearchTypeOK, SeriesInvariant
<1>4. FoundIsLowest /\ FailedMeansNone
  BY DEF SearchInit, FoundIsLowest, FailedMeansNone
<1> QED BY <1>1, <1>3, <1>4 DEF LoopInv

\* A used bit ends the series and every run that would contain it.
LEMMA SkipUsedKeeps ==
  ASSUME LoopInv, SkipUsed
  PROVE  LoopInv'
<1>1. SearchTypeOK /\ SearchTypeOK'
  BY CountAssumption DEF LoopInv, SearchTypeOK, SkipUsed
<1>2. i \in Nat /\ i \in used /\ used' = used /\ range' = range /\ i' = i + 1
      /\ foundFreeCounter' = 0 /\ range \in Nat /\ result' = "scanning"
  BY <1>1, CountAssumption DEF SearchTypeOK, SkipUsed
<1>3. ASSUME NEW s \in FreeRuns(used, Count, range) PROVE s + range > i + 1
  <2>1. s + range > i
    BY DEF LoopInv, SeriesInvariant, SkipUsed
  <2>2. /\ s \in Nat /\ range > 0
        /\ \A k \in Int : s <= k /\ k < s + range => k \notin used
    BY <1>1, RunFacts
  <2>3. ~(s <= i)
    BY <1>2, <2>1, <2>2
  <2> QED BY <1>2, <2>2, <2>3
<1>4. SeriesInvariant'
  <2>1. \A s \in FreeRuns(used', Count, range') : s + range' > i'
    BY <1>2, <1>3
  <2> QED BY <1>2, <2>1 DEF SeriesInvariant
<1>5. FoundIsLowest' /\ FailedMeansNone'
  BY <1>2 DEF FoundIsLowest, FailedMeansNone
<1> QED BY <1>1, <1>4, <1>5 DEF LoopInv

\* A free bit extends the series; when that completes it, it is the lowest run.
LEMMA CountFreeKeeps ==
  ASSUME LoopInv, CountFree
  PROVE  LoopInv'
<1> DEFINE c == foundFreeCounter
<1>1. SearchTypeOK /\ SearchTypeOK'
  BY CountAssumption DEF LoopInv, SearchTypeOK, CountFree
<1>2. /\ i \in Nat /\ c \in Nat /\ range \in Nat /\ Count \in Nat /\ i < Count
      /\ used' = used /\ range' = range /\ c' = c + 1 /\ i \notin used
      /\ firstFreeOfSeries \in Nat
      /\ firstFreeOfSeries' = IF c = 0 THEN i ELSE firstFreeOfSeries
  BY <1>1, CountAssumption DEF SearchTypeOK, CountFree
<1>3. /\ c <= i
      /\ c > 0 => firstFreeOfSeries = i - c
      /\ \A k \in (i - c) .. (i - 1) : k \notin used
      /\ c < i => (i - c - 1) \in used
      /\ range > 0 => c < range
      /\ \A s \in FreeRuns(used, Count, range) : s + range > i
  BY DEF LoopInv, SeriesInvariant, CountFree
<1>4. firstFreeOfSeries' = i - c
  BY <1>2, <1>3
<1>5. \A k \in (i - c) .. i : k \notin used
  BY <1>2, <1>3
<1>6. CASE c + 1 = range
  <2>1. result' = "found"
    BY <1>6, <1>2 DEF CountFree
  <2>2. i - c \in FreeRuns(used, Count, range)
    BY <1>6, <1>2, <1>3, <1>5 DEF FreeRuns, IsFreeRun
  <2>3. ASSUME NEW t \in FreeRuns(used, Count, range) PROVE t \in Nat /\ i - c <= t
    <3>1. t \in Nat /\ t + range > i
      BY <1>1, <1>3, RunFacts
    <3> QED BY <3>1, <1>6, <1>2
  <2>4. find_free_range(used, Count, range) = {i - c}
    <3>1. ASSUME NEW s \in find_free_range(used, Count, range) PROVE s = i - c
      <4>1. s \in FreeRuns(used, Count, range) /\ s <= i - c
        BY <2>2 DEF find_free_range
      <4> QED BY <4>1, <2>3, <1>2
    <3>2. i - c \in find_free_range(used, Count, range)
      BY <2>2, <2>3 DEF find_free_range
    <3> QED BY <3>1, <3>2
  <2>5. FoundIsLowest' /\ FailedMeansNone' /\ SeriesInvariant'
    BY <2>1, <2>4, <1>2, <1>4 DEF FoundIsLowest, FailedMeansNone, SeriesInvariant
  <2> QED BY <1>1, <2>5 DEF LoopInv
<1>7. CASE c + 1 # range
  <2>1. result' = "scanning" /\ i' = i + 1
    BY <1>7, <1>2 DEF CountFree
  <2>2. range > 0 => c + 1 < range
    BY <1>7, <1>2, <1>3
  <2>3. ASSUME NEW s \in FreeRuns(used, Count, range) PROVE s + range > i + 1
    <3>1. /\ s \in Nat /\ range > 0 /\ s + range > i
          /\ \A k \in Int : s <= k /\ k < s + range => k \notin used
      BY <1>1, <1>3, RunFacts
    <3>2. CASE s + range = i + 1
      <4>1. s < i - c
        BY <3>1, <3>2, <2>2, <1>2
      <4>2. c < i /\ (i - c - 1) \in used
        BY <4>1, <3>1, <1>2, <1>3
      <4>3. (i - c - 1) \in Int /\ s <= i - c - 1 /\ i - c - 1 < s + range
        BY <4>1, <3>1, <3>2, <1>2
      <4> QED BY <4>2, <4>3, <3>1
    <3> QED BY <3>1, <3>2, <1>2
  <2>4. SeriesInvariant'
    <3>1. c + 1 <= i + 1
      BY <1>2, <1>3
    <3>2. i - c = (i + 1) - (c + 1) /\ (i + 1) - 1 = i
      BY <1>2
    <3>3. c + 1 < i + 1 => ((i + 1) - (c + 1) - 1) \in used
      BY <1>2, <1>3
    <3>4. \A s \in FreeRuns(used', Count, range') : s + range' > i'
      BY <2>1, <2>3, <1>2
    <3>5. \A k \in ((i + 1) - (c + 1)) .. ((i + 1) - 1) : k \notin used
      BY <1>5, <3>2
    <3> QED BY <3>1, <3>2, <3>3, <3>4, <3>5, <2>1, <2>2, <1>2, <1>4 DEF SeriesInvariant
  <2>5. FoundIsLowest' /\ FailedMeansNone'
    BY <2>1 DEF FoundIsLowest, FailedMeansNone
  <2> QED BY <1>1, <2>4, <2>5 DEF LoopInv
<1> QED BY <1>6, <1>7

\* Running out means every run would have to end beyond the bitmap.
LEMMA RunOutKeeps ==
  ASSUME LoopInv, RunOut
  PROVE  LoopInv'
<1>1. SearchTypeOK /\ SearchTypeOK'
  BY CountAssumption DEF LoopInv, SearchTypeOK, RunOut
<1>2. used' = used /\ range' = range /\ result' = "failed" /\ i >= Count
  BY DEF RunOut
<1>3. ASSUME NEW s \in FreeRuns(used, Count, range) PROVE FALSE
  <2>1. s \in Nat /\ range \in Nat /\ s + range <= Count /\ i \in Nat /\ Count \in Nat
    BY <1>1, RunFacts, CountAssumption DEF SearchTypeOK
  <2>2. s + range > i
    BY DEF LoopInv, SeriesInvariant, RunOut
  <2> QED BY <2>1, <2>2, <1>2
<1>4. FailedMeansNone' /\ FoundIsLowest' /\ SeriesInvariant'
  BY <1>2, <1>3 DEF FailedMeansNone, FoundIsLowest, SeriesInvariant
<1> QED BY <1>1, <1>4 DEF LoopInv

\* The loop invariant holds before every iteration.
THEOREM SearchInvariant == SearchSpec => []LoopInv
<1>1. LoopInv /\ [SearchNext]_searchVars => LoopInv'
  <2> SUFFICES ASSUME LoopInv, [SearchNext]_searchVars PROVE LoopInv'
    OBVIOUS
  <2>1. CASE SkipUsed
    BY <2>1, SkipUsedKeeps
  <2>2. CASE CountFree
    BY <2>2, CountFreeKeeps
  <2>3. CASE RunOut
    BY <2>3, RunOutKeeps
  <2>4. CASE UNCHANGED searchVars
    BY <2>4 DEF searchVars, LoopInv, SearchTypeOK, SeriesInvariant, FoundIsLowest, FailedMeansNone
  <2> QED BY <2>1, <2>2, <2>3, <2>4 DEF SearchNext
<1> QED BY <1>1, InitLoopInv, PTL DEF SearchSpec

\* The range find_free_range returns is the lowest free one.
THEOREM SearchFindsLowest == SearchSpec => []FoundIsLowest
<1>1. LoopInv => FoundIsLowest
  BY DEF LoopInv
<1> QED BY <1>1, SearchInvariant, PTL

\* find_free_range fails only when no free range of that length exists.
THEOREM SearchFailsHonestly == SearchSpec => []FailedMeansNone
<1>1. LoopInv => FailedMeansNone
  BY DEF LoopInv
<1> QED BY <1>1, SearchInvariant, PTL
=============================================================================
