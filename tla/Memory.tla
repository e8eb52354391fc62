------------------------------- MODULE Memory -------------------------------
(***************************************************************************)
(* Physical pages (pmm), page tables (paging), the virtual range allocator *)
(* (vmm) and memory_init, with the TLB of the processor.                   *)
(*                                                                         *)
(* Physical pages and virtual pages are numbers.  The kernel runs one call *)
(* at a time with interrupts off; call is that call, and the loops of      *)
(* vmm_malloc_pages, map_pages and vmm_free_pages take several steps so    *)
(* that the processor can fill its TLB in between, which it may do from    *)
(* any present entry at any time, also between the stores to Present and   *)
(* Address: with the entry of a table it then takes physical page 0 for    *)
(* the table, and may remember that until invlpg.  The fourth-level table  *)
(* (CR3) is Limine's; the other three levels are made here.  A page table  *)
(* is keyed <<k, x>>: x is what is left of a page number when the last k   *)
(* indexes are dropped.  Entry flags (ReadWrite, CacheDisabled) are left   *)
(* out.                                                                    *)
(***************************************************************************)
EXTENDS Bitmap, FiniteSetsExt, Sequences

CONSTANTS
  MemoryMaps,    \* sequences of [base, length, usable], in pages: what Limine may report
  PAGE_SIZE,     \* bytes of a page (config.h)
  ENTRIES,       \* entries of a page table (512)
  BAR_LENGTH,    \* RAM_UTILISATION_BAR_LENGTH (config.h)
  HEAP_PAGES,    \* INIT_HEAP_SIZE / PAGE_SIZE (config.h)
  VMM_BASE,      \* page number of VIRTUAL_OFFSET_VMM (config.h)
  MMIO_BASE,     \* page number of the device registers above VIRTUAL_OFFSET_MMIO
  MMIO_FRAME,    \* their first physical page (BAR 5)
  MAX_PAGES,     \* bound: pages of one request
  TLB_SLOTS,     \* bound: translations the processor remembers
  StrayFrames    \* what physical page 0, taken for a table, may lead to

VARIABLES
  memmap,   \* the memory map of this boot
  stage,    \* how far memory_init has come
  count,    \* bits of both bitmaps: one past the highest usable page
  bitmap,   \* the pages that hold the pmm bitmap
  pmm,      \* physical pages whose bit is one
  vmm,      \* virtual pages whose bit is one
  tables,   \* physical page of every page table made here
  pte,      \* virtual page -> physical page of the present lowest-level entries
  tlb,      \* translations the processor remembers, <<virtual, physical>>
  stale,    \* tables whose entry is, or may be remembered as, present with no address
  stray,    \* translations the processor has got by way of such an entry
  call,     \* the call in progress
  owned,    \* first page -> length of the ranges vmm_malloc_pages returned, not freed
  heap,     \* first page of the heap's range, as a set of at most one
  dma,      \* first page -> length of the ranges pmm_malloc_pages returned (never freed)
  refused   \* a pmm_malloc has failed since boot

vars == <<memmap, stage, count, bitmap, pmm, vmm, tables, pte, tlb, stale, stray, call, owned,
          heap, dma, refused>>

\* The physical pages of the device registers, as many as map_pages may be asked for.
Registers == MMIO_FRAME .. (MMIO_FRAME + MAX_PAGES - 1)

\* Limine never reports page 0 or device registers as usable, and the register window
\* lies below VIRTUAL_OFFSET_VMM (config.h; the BAR adds less than 4 GiB).
ASSUME MemoryAssumption ==
  /\ PAGE_SIZE \in Nat \ {0} /\ ENTRIES \in Nat \ {0} /\ HEAP_PAGES \in Nat \ {0}
  /\ VMM_BASE \in Nat /\ MMIO_BASE \in Nat /\ MMIO_FRAME \in Nat
  /\ MAX_PAGES \in Nat /\ TLB_SLOTS \in Nat /\ StrayFrames \subseteq Nat
  /\ MMIO_BASE + MAX_PAGES <= VMM_BASE
  /\ \A m \in MemoryMaps :
       /\ m \in Seq([base : Nat, length : Nat, usable : BOOLEAN])
       /\ \A r \in DOMAIN m : m[r].usable =>
            /\ m[r].base > 0
            /\ Registers \cap (m[r].base .. (m[r].base + m[r].length - 1)) = {}

\* Limine's usable regions are not empty and have no page in common.
ASSUME ReportAssumption ==
  /\ BAR_LENGTH \in Nat
  /\ \A m \in MemoryMaps : \A r, q \in DOMAIN m :
       m[r].usable =>
         /\ m[r].length > 0
         /\ m[q].usable /\ q # r =>
              m[q].base + m[q].length <= m[r].base \/ m[r].base + m[r].length <= m[q].base
-----------------------------------------------------------------------------
divide_round_up(a, b) == (a + b - 1) \div b

Pages(r) == r.base .. (r.base + r.length - 1)

UsableRegions == {r \in DOMAIN memmap : memmap[r].usable}

Usable == UNION {Pages(memmap[r]) : r \in UsableRegions}

\* get_memory_regions: the end of the highest usable region.
highestPage == IF Usable = {} THEN 0 ELSE 1 + CHOOSE p \in Usable : \A q \in Usable : q <= p

\* Bytes and pages of a bitmap with c bits.
reqSize(c) == divide_round_up(c, 8)
BitmapPages(c) == divide_round_up(reqSize(c), PAGE_SIZE)

\* The regions that can hold the bitmap; the first of them is taken.
BitmapRegions == {r \in UsableRegions : memmap[r].length * PAGE_SIZE >= reqSize(highestPage)}
bitmapPhysBase == memmap[CHOOSE r \in BitmapRegions : \A q \in BitmapRegions : r <= q].base

\* pmm_malloc: the lowest free range of n pages, as a set of at most one.
pmm_malloc(n) == find_free_range(pmm, count, n)

Without(f, D) == [x \in (DOMAIN f) \ D |-> f[x]]
With(f, x, y) == [z \in (DOMAIN f) \cup {x} |-> IF z = x THEN y ELSE f[z]]
Empty == [x \in {} |-> 0]

NoCall == [op |-> "none", base |-> 0, n |-> 0, i |-> 0, page |-> 0, frame |-> 0,
           table |-> 0, pc |-> "none", ok |-> TRUE]

Init ==
  /\ memmap \in MemoryMaps
  /\ stage = "reset"
  /\ count = 0 /\ bitmap = {}
  /\ pmm = {} /\ vmm = {}
  /\ tables = Empty /\ pte = Empty
  /\ tlb = {} /\ stale = {} /\ stray = {}
  /\ call = NoCall
  /\ owned = Empty /\ heap = {} /\ dma = Empty
  /\ refused = FALSE
-----------------------------------------------------------------------------
(* memory_init *)

\* Mutant: the bitmap is not filled with ones first.
init_bitmap_data_unfilled == {}

\* Everything is marked, then the usable regions are cleared (init_bitmap_data).
init_bitmap_data == (0 .. (highestPage - 1)) \ Usable

\* Then the pages of the bitmap itself are marked again.
MarkedAtBoot(own) == init_bitmap_data \cup own

\* get_memory_regions and get_free_location_for_bitmap.  Without a region for it the
\* bitmap stays at nullptr and filling it faults.
get_free_location_for_bitmap ==
  /\ stage = "reset"
  /\ count' = highestPage
  /\ \/ BitmapRegions = {} /\ stage' = "fault" /\ UNCHANGED <<pmm, bitmap>>
     \/ /\ BitmapRegions # {}
        /\ bitmap' = bitmapPhysBase .. (bitmapPhysBase + BitmapPages(count') - 1)
        /\ pmm' = MarkedAtBoot(bitmap')
        /\ stage' = "bitmap"
  /\ UNCHANGED <<memmap, vmm, tables, pte, tlb, stale, stray, call, owned, heap, dma, refused>>

\* The vmm bitmap has as many bits as the pmm's and lives in pages of its own.  When
\* there are none memory_init fails and the boot goes on without a vmm.
init_vmm ==
  /\ stage = "bitmap"
  /\ \/ /\ pmm_malloc(BitmapPages(count)) = {}
        /\ stage' = "novmm" /\ refused' = TRUE
        /\ UNCHANGED <<pmm, vmm, dma>>
     \/ \E b \in pmm_malloc(BitmapPages(count)) :
          /\ pmm' = write_bits_in_range_from(pmm, BitmapPages(count), b, TRUE)
          /\ vmm' = clear
          /\ dma' = With(dma, b, BitmapPages(count))
          /\ stage' = "vmm" /\ UNCHANGED refused
  /\ UNCHANGED <<memmap, count, bitmap, tables, pte, tlb, stale, stray, call, owned, heap>>
-----------------------------------------------------------------------------
(* Calls.  A loop iteration of call works on virtual page Page(call). *)

Page(c) == c.base + c.i

Working(op, pc) == call.op \in op /\ call.pc = pc

FirstPc(op) == CASE op = "malloc" -> "frame" [] OTHER -> "walk"

Start(op, base, n, frame) ==
  [op |-> op, base |-> base, n |-> n, i |-> 0, page |-> base, frame |-> frame,
   table |-> 0, pc |-> FirstPc(op), ok |-> TRUE]

Ready == call = NoCall /\ stage \in {"up", "novmm"}

\* The end of an iteration with outcome ok; page counts the iterations that reached
\* the currPage++ of vmm_free_pages.
NextCall(ok, step) ==
  IF call.i + 1 = call.n THEN NoCall
  ELSE [call EXCEPT !.i = @ + 1, !.page = @ + step, !.ok = @ /\ ok, !.pc = FirstPc(call.op),
                    !.frame = IF call.op = "map" THEN @ + 1 ELSE 0]

\* The call returns after its last iteration: a successful vmm_malloc_pages hands the
\* range to its caller; the first one is init_heap_alloc's.
Return(ok) ==
  IF call.op = "malloc" /\ call.i + 1 = call.n
  THEN /\ owned' = IF call.ok /\ ok THEN With(owned, call.base, call.n) ELSE owned
       /\ heap' = IF stage = "vmm" /\ call.ok /\ ok THEN {call.base} ELSE heap
       /\ stage' = "up"
  ELSE UNCHANGED <<owned, heap, stage>>

\* vmm_malloc_pages up to its loop.  The heap's call (stage "vmm") comes first.
vmm_malloc_pages(n) ==
  /\ call = NoCall
  /\ \/ stage = "up" /\ n <= MAX_PAGES
     \/ stage = "vmm" /\ n = HEAP_PAGES
  /\ \/ /\ find_free_range(vmm, count, n) = {}
        /\ stage' = "up"
        /\ UNCHANGED <<vmm, call>>
     \/ \E b \in find_free_range(vmm, count, n) :
          /\ vmm' = write_bits_in_range_from(vmm, n, b, TRUE)
          /\ call' = Start("malloc", VMM_BASE + b, n, 0)
          /\ UNCHANGED stage
  /\ UNCHANGED <<memmap, count, bitmap, pmm, tables, pte, tlb, stale, stray, owned, heap, dma, refused>>

\* The iteration's pmm_malloc_page.  On failure the bits are cleared and 0 returned;
\* pages already mapped stay mapped and their frames stay allocated.
vmm_malloc_frame ==
  /\ Working({"malloc"}, "frame")
  /\ \/ \E f \in pmm_malloc(1) :
          /\ pmm' = pmm \cup {f}
          /\ call' = [call EXCEPT !.frame = f, !.pc = "walk"]
          /\ UNCHANGED <<vmm, stage, refused>>
     \/ /\ pmm_malloc(1) = {}
        /\ vmm' = write_bits_in_range_from(vmm, call.n, call.base - VMM_BASE, FALSE)
        /\ call' = NoCall
        /\ stage' = "up"
        /\ refused' = TRUE
        /\ UNCHANGED pmm
  /\ UNCHANGED <<memmap, count, bitmap, tables, pte, tlb, stale, stray, owned, heap, dma>>

\* map_pages for the device registers.  find_ready_ports calls it.
map_pages(n) ==
  /\ Ready /\ n \in 1 .. MAX_PAGES
  /\ call' = Start("map", MMIO_BASE, n, MMIO_FRAME)
  /\ UNCHANGED <<memmap, count, bitmap, stage, pmm, vmm, tables, pte, tlb, stale, stray, owned, heap,
                 dma, refused>>

\* vmm_free_pages up to its loop.  Callers free whole ranges of theirs, and may free
\* pages that are nobody's (again); the heap is never freed.
vmm_free_pages(b, n) ==
  /\ Ready /\ stage = "up"
  /\ b + n <= VMM_BASE + count
  /\ LET range == b .. (b + n - 1)
     IN  /\ heap \cap range = {}
         /\ \A o \in DOMAIN owned :
              (o .. (o + owned[o] - 1)) \cap range # {} => (o .. (o + owned[o] - 1)) \subseteq range
         /\ owned' = Without(owned, range)
  /\ call' = Start("free", b, n, 0)
  /\ UNCHANGED <<memmap, count, bitmap, stage, pmm, vmm, tables, pte, tlb, stale, stray, heap, dma,
                 refused>>

\* AHCI's pmm_malloc_page(s): pages for a device, never given back.
pmm_malloc_pages(n) ==
  /\ Ready /\ n \in 1 .. MAX_PAGES
  /\ \/ /\ pmm_malloc(n) = {}
        /\ refused' = TRUE
        /\ UNCHANGED <<pmm, dma>>
     \/ \E b \in pmm_malloc(n) :
          /\ pmm' = write_bits_in_range_from(pmm, n, b, TRUE)
          /\ dma' = With(dma, b, n)
          /\ UNCHANGED refused
  /\ UNCHANGED <<memmap, count, bitmap, stage, vmm, tables, pte, tlb, stale, stray, call, owned, heap>>
-----------------------------------------------------------------------------
(* page_walk and the lowest-level entry *)

\* The tables on the way to virtual page v, from the root down.
Path(v) == << <<3, v \div (ENTRIES * ENTRIES * ENTRIES)>>,
              <<2, v \div (ENTRIES * ENTRIES)>>,
              <<1, v \div ENTRIES>> >>

\* The tables page_walk has to make before it reaches the entry of page v; it makes
\* the first.
Missing(v) == {k \in 1 .. 3 : Path(v)[k] \notin DOMAIN tables}
FirstMissing(k) == k \in Missing(Page(call)) /\ \A j \in Missing(Page(call)) : k <= j

\* Mutant: the page taken for the new table is not marked in the bitmap.
get_or_create_next_table_unmarked ==
  /\ call.pc = "walk"
  /\ \E k \in Missing(Page(call)), f \in pmm_malloc(1) :
       /\ FirstMissing(k)
       /\ stale' = stale \cup {Path(Page(call))[k]}
       /\ call' = [call EXCEPT !.table = f, !.pc = "link"]
  /\ UNCHANGED <<memmap, count, bitmap, stage, pmm, vmm, tables, pte, tlb, stray, owned, heap, dma,
                 refused>>

\* get_or_create_next_table, first store: a page is taken and cleared, and Present set,
\* with the Address the entry had (0).
get_or_create_next_table ==
  /\ call.pc = "walk"
  /\ \E k \in Missing(Page(call)), f \in pmm_malloc(1) :
       /\ FirstMissing(k)
       /\ pmm' = pmm \cup {f}
       /\ stale' = stale \cup {Path(Page(call))[k]}
       /\ call' = [call EXCEPT !.table = f, !.pc = "link"]
  /\ UNCHANGED <<memmap, count, bitmap, stage, vmm, tables, pte, tlb, stray, owned, heap, dma, refused>>

\* get_or_create_next_table, second store: Address.
set_next_table_address ==
  /\ call.pc = "link"
  /\ \E k \in Missing(Page(call)) :
       /\ FirstMissing(k)
       /\ tables' = With(tables, Path(Page(call))[k], call.table)
  /\ call' = [call EXCEPT !.table = 0, !.pc = "walk"]
  /\ UNCHANGED <<memmap, count, bitmap, stage, pmm, vmm, pte, tlb, stale, stray, owned, heap, dma,
                 refused>>

\* page_walk returns nullptr: map_page answers false and the loop goes on (the frame
\* of a vmm_malloc_pages iteration is lost); vmm_free_pages continues.
WalkFails ==
  /\ call.pc = "walk"
  /\ Missing(Page(call)) # {} /\ pmm_malloc(1) = {}
  /\ refused' = TRUE
  /\ call' = NextCall(FALSE, 0)
  /\ Return(FALSE)
  /\ UNCHANGED <<memmap, count, bitmap, pmm, vmm, tables, pte, tlb, stale, stray, dma>>

\* map_page, first store: Present, with the Address the entry had (a cleared entry
\* has 0).
map_page_present ==
  /\ Working({"malloc", "map"}, "walk") /\ Missing(Page(call)) = {}
  /\ pte' = IF Page(call) \in DOMAIN pte THEN pte ELSE With(pte, Page(call), 0)
  /\ call' = [call EXCEPT !.pc = "address"]
  /\ UNCHANGED <<memmap, count, bitmap, stage, pmm, vmm, tables, tlb, stale, stray, owned, heap, dma,
                 refused>>

\* map_page, second store: Address.
map_page_address ==
  /\ Working({"malloc", "map"}, "address")
  /\ pte' = With(pte, Page(call), call.frame)
  /\ call' = [call EXCEPT !.pc = "invlpg"]
  /\ UNCHANGED <<memmap, count, bitmap, stage, pmm, vmm, tables, tlb, stale, stray, owned, heap, dma,
                 refused>>

\* invlpg: the translations of page v, and the table entries on the way to it.
Invlpg(v) ==
  /\ tlb' = {e \in tlb : e[1] # v}
  /\ stray' = {e \in stray : e[1] # v}
  /\ stale' = {t \in stale : \A k \in 1 .. 3 : Path(v)[k] # t}

\* map_page, invlpg, and the end of the iteration.
map_page_invlpg ==
  /\ Working({"malloc", "map"}, "invlpg")
  /\ Invlpg(Page(call))
  /\ call' = NextCall(TRUE, 1)
  /\ Return(TRUE)
  /\ UNCHANGED <<memmap, count, bitmap, pmm, vmm, tables, pte, dma, refused>>

\* Mutant: the iteration is retried.
vmm_free_absent_retries ==
  /\ Working({"free"}, "walk") /\ Missing(Page(call)) = {}
  /\ Page(call) \notin DOMAIN pte
  /\ UNCHANGED vars

\* vmm_free_pages, page not present: continue, without currPage++.
vmm_free_absent ==
  /\ Working({"free"}, "walk") /\ Missing(Page(call)) = {}
  /\ Page(call) \notin DOMAIN pte
  /\ call' = NextCall(FALSE, 0)
  /\ UNCHANGED <<memmap, count, bitmap, stage, pmm, vmm, tables, pte, tlb, stale, stray, owned, heap,
                 dma, refused>>

\* Mutant: the bit of the page after currPage is cleared.
vmm_free_clear_next_bit ==
  /\ Working({"free"}, "walk") /\ Missing(Page(call)) = {}
  /\ Page(call) \in DOMAIN pte
  /\ vmm' = vmm \ {call.page + 1 - VMM_BASE}
  /\ pte' = Without(pte, {Page(call)})
  /\ call' = [call EXCEPT !.frame = pte[Page(call)], !.pc = "invlpg"]
  /\ UNCHANGED <<memmap, count, bitmap, stage, pmm, tables, tlb, stale, stray, owned, heap, dma,
                 refused>>

\* vmm_free_pages, page present: the bit of currPage is cleared, then free_page
\* clears the entry.
vmm_free_clear ==
  /\ Working({"free"}, "walk") /\ Missing(Page(call)) = {}
  /\ Page(call) \in DOMAIN pte
  /\ vmm' = vmm \ {call.page - VMM_BASE}
  /\ pte' = Without(pte, {Page(call)})
  /\ call' = [call EXCEPT !.frame = pte[Page(call)], !.pc = "invlpg"]
  /\ UNCHANGED <<memmap, count, bitmap, stage, pmm, tables, tlb, stale, stray, owned, heap, dma,
                 refused>>

\* Mutant: the frame is given back before the translation is dropped.
free_page_released_early ==
  /\ Working({"free"}, "invlpg")
  /\ pmm' = pmm \ {call.frame}
  /\ call' = [call EXCEPT !.pc = "release"]
  /\ UNCHANGED <<memmap, count, bitmap, stage, vmm, tables, pte, tlb, stale, stray, owned, heap, dma,
                 refused>>

\* free_page, invlpg.
free_page_invlpg ==
  /\ Working({"free"}, "invlpg")
  /\ Invlpg(Page(call))
  /\ call' = [call EXCEPT !.pc = "release"]
  /\ UNCHANGED <<memmap, count, bitmap, stage, pmm, vmm, tables, pte, owned, heap, dma, refused>>

\* Mutant: the frame is never given back.
vmm_free_no_release ==
  /\ Working({"free"}, "release")
  /\ call' = NextCall(TRUE, 1)
  /\ UNCHANGED <<memmap, count, bitmap, stage, pmm, vmm, tables, pte, tlb, stale, stray, owned, heap,
                 dma, refused>>

\* pmm_free of the frame, and the end of the iteration.
vmm_free_release ==
  /\ Working({"free"}, "release")
  /\ pmm' = pmm \ {call.frame}
  /\ call' = NextCall(TRUE, 1)
  /\ UNCHANGED <<memmap, count, bitmap, stage, vmm, tables, pte, tlb, stale, stray, owned, heap, dma,
                 refused>>
-----------------------------------------------------------------------------
(* The processor *)

\* There is room for a translation of page v, which the processor does not have.
TlbMiss(v) ==
  /\ Cardinality(tlb) + Cardinality(stray) < TLB_SLOTS
  /\ \A e \in tlb \cup stray : e[1] # v

TlbFill(v) ==
  /\ TlbMiss(v)
  /\ tlb' = tlb \cup {<<v, pte[v]>>}
  /\ UNCHANGED <<memmap, count, bitmap, stage, pmm, vmm, tables, pte, stale, stray, call, owned, heap,
                 dma, refused>>

\* Physical page 0 is taken for a table on the way to page v.
Astray(v) == \E k \in 1 .. 3 : Path(v)[k] \in stale

TlbFillAstray(v) ==
  /\ TlbMiss(v) /\ Astray(v)
  /\ \E f \in StrayFrames : stray' = stray \cup {<<v, f>>}
  /\ UNCHANGED <<memmap, count, bitmap, stage, pmm, vmm, tables, pte, tlb, stale, call, owned, heap,
                 dma, refused>>

TlbEvict ==
  /\ \E e \in tlb \cup stray : tlb' = tlb \ {e} /\ stray' = stray \ {e}
  /\ UNCHANGED <<memmap, count, bitmap, stage, pmm, vmm, tables, pte, stale, call, owned, heap, dma,
                 refused>>

\* The pages the kernel ever maps; what the processor remembers of others is left out.
KernelPages == VMM_BASE .. (VMM_BASE + count - 1) \cup MMIO_BASE .. (MMIO_BASE + MAX_PAGES - 1)

\* The steps a call in progress takes by itself.
CallStep ==
  \/ vmm_malloc_frame
  \/ get_or_create_next_table \/ set_next_table_address \/ WalkFails
  \/ map_page_present \/ map_page_address \/ map_page_invlpg
  \/ vmm_free_absent \/ vmm_free_clear \/ free_page_invlpg \/ vmm_free_release

BootStep ==
  \/ get_free_location_for_bitmap
  \/ init_vmm
  \/ stage = "vmm" /\ vmm_malloc_pages(HEAP_PAGES)

NewCall ==
  \/ \E n \in 1 .. MAX_PAGES :
       \/ stage = "up" /\ vmm_malloc_pages(n)
       \/ map_pages(n)
       \/ pmm_malloc_pages(n)
       \/ \E b \in VMM_BASE .. (VMM_BASE + count - 1) : vmm_free_pages(b, n)

Next ==
  \/ BootStep \/ CallStep \/ NewCall
  \/ \E v \in DOMAIN pte : TlbFill(v)
  \/ \E v \in KernelPages : TlbFillAstray(v)
  \/ TlbEvict

Spec == Init /\ [][Next]_vars

\* The kernel's own code keeps running; callers and the TLB owe nothing.
FairSpec == Spec /\ WF_vars(BootStep) /\ WF_vars(CallStep)
-----------------------------------------------------------------------------
\* Type invariant.
TypeOK ==
  /\ stage \in {"reset", "bitmap", "vmm", "up", "novmm", "fault"}
  /\ pmm \subseteq 0 .. (count - 1)
  /\ vmm \subseteq 0 .. (count - 1)
  /\ \A k \in DOMAIN tables : tables[k] \in Nat
  /\ \A v \in DOMAIN pte : pte[v] \in Nat
  /\ \A e \in tlb \cup stray : e[1] \in Nat /\ e[2] \in Nat
  /\ call.op \in {"none", "malloc", "map", "free"}
  /\ call.pc \in {"none", "frame", "walk", "link", "address", "invlpg", "release"}
  /\ call.op # "none" => call.i < call.n

\* The call holds a frame that is in no entry (yet, or any more).
InFlight ==
  \/ Working({"malloc"}, "walk") \/ Working({"malloc"}, "link") \/ Working({"malloc"}, "address")
  \/ Working({"free"}, "invlpg") \/ Working({"free"}, "release")

\* The call holds a page that is to be a table.
Linking == call.pc = "link"

\* The entry map_page has made present and not yet given its address.
HalfWritten == {v \in DOMAIN pte : Working({"malloc", "map"}, "address") /\ v = Page(call)}

\* Everything that uses physical page f.
Users(f) ==
  {<<"table", k>> : k \in {k \in DOMAIN tables : tables[k] = f}}
  \cup {<<"page", v>> : v \in {v \in DOMAIN pte \ HalfWritten : pte[v] = f}}
  \cup {<<"range", b>> : b \in {b \in DOMAIN dma : f \in b .. (b + dma[b] - 1)}}
  \cup {<<"bitmap", 0>> : x \in {x \in {f} : f \in bitmap}}
  \cup {<<"call", 0>> : x \in {x \in {f} : InFlight /\ call.frame = f}}
  \cup {<<"link", 0>> : x \in {x \in {f} : Linking /\ call.table = f}}

\* No RAM page serves two purposes: a page table, a mapped page, a device's buffer,
\* a bitmap and the frame a call is about to map never share one; each is usable by
\* Limine's map, or holds device registers, and is marked used in the pmm bitmap, through
\* every failure path.  (Between its two stores map_page has an entry that leads to page 0
\* or to the page before.)
FrameExclusive ==
  \A f \in 0 .. (count - 1) :
    /\ Cardinality(Users(f)) <= 1
    /\ Users(f) # {} => f \in pmm \cap (Usable \cup Registers)

\* Frames are only lost on the failure paths: until a pmm_malloc has failed, every
\* usable page marked used is used by something.
LeakOnlyAfterRefusal ==
  stage \notin {"reset", "fault"} /\ ~refused =>
    \A f \in pmm \cap Usable : Users(f) # {}

\* A range vmm_malloc_pages returned is backed page by page, reserved in the vmm
\* bitmap and shared with no other range, until its owner frees it.
OwnedIsBacked ==
  \A b \in DOMAIN owned :
    LET range == b .. (b + owned[b] - 1)
    IN  /\ \A v \in range : v \in DOMAIN pte /\ pte[v] \in pmm /\ (v - VMM_BASE) \in vmm
        /\ \A c \in DOMAIN owned \ {b} : range \cap (c .. (c + owned[c] - 1)) = {}

\* Nobody else's call, failed or successful, changes the page behind an address the
\* owner still holds.
OwnedStaysMapped ==
  [][\A b \in DOMAIN owned \cap DOMAIN owned' :
       \A v \in b .. (b + owned[b] - 1) : v \in DOMAIN pte' /\ pte'[v] = pte[v]]_vars

\* map_page or free_page is changing the entry of page v this moment.
BeingChanged(v) == call.op # "none" /\ call.pc \in {"address", "invlpg"} /\ v = Page(call)

\* The processor never uses an outdated translation: apart from the page whose entry
\* is being changed this moment, what the TLB remembers of a mapped page is what the tables
\* say, and what it has got through a half-written table entry it remembers only of pages
\* that are not mapped, although map_page invalidates one page and not the others below
\* the tables it has made; and a translation is dropped before its frame goes back to the pmm.
TlbCoherent ==
  /\ \A e \in tlb :
       /\ \/ e[1] \in DOMAIN pte /\ pte[e[1]] = e[2]
          \/ BeingChanged(e[1])
       /\ e[2] < count => e[2] \in pmm
  /\ \A e \in stray : e[1] \in DOMAIN pte => BeingChanged(e[1])

(* memory_info.cpp: what the memory command reports *)

totalUsableBytes == MapThenSumSet(LAMBDA r : memmap[r].length * PAGE_SIZE, UsableRegions)

get_pmm_page_counts ==
  [free |-> Cardinality((0 .. count - 1) \ pmm), used |-> Cardinality((0 .. count - 1) \cap pmm)]

ramUsedBytes == totalUsableBytes - get_pmm_page_counts.free * PAGE_SIZE

\* The filled elements of the bar, in a buffer made for all of them.
getPercentBar(bytes, outOf, elements) == (((bytes * 100) \div outOf) * elements) \div 100

\* The report adds up at any moment, also in the middle of a call: what it calls used is
\* the usable pages that are marked, so the subtraction never wraps and the bar never
\* leaves its buffer, although total and free come from two different countings.
ReportAddsUp ==
  stage \notin {"reset", "fault"} =>
    /\ ramUsedBytes = Cardinality(pmm \cap Usable) * PAGE_SIZE
    /\ getPercentBar(ramUsedBytes, totalUsableBytes, BAR_LENGTH) \in 0 .. BAR_LENGTH

\* Every call returns, out of memory or not.
EveryCallReturns == call.op # "none" ~> call.op = "none"
=============================================================================
