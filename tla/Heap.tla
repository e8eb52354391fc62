-------------------------------- MODULE Heap --------------------------------
(***************************************************************************)
(* The kernel heap of kernel/memory/heap/heap.cpp: one arena that is tiled *)
(* by blocks, each a header (Length, Used) followed by Length payload      *)
(* bytes.  malloc takes the first free block that is long enough and       *)
(* splits it, free merges the block with a free right and left neighbour.  *)
(*                                                                         *)
(* Addresses are byte offsets from heapStartPtr.  headers maps the address *)
(* of every header the list walk reaches to its contents; a header that a  *)
(* merge has swallowed is payload again and leaves the domain.  live is    *)
(* the caller's side: the pointers handed out and not yet freed, with the  *)
(* size asked for.  Every call runs inside an interrupt gate or at boot    *)
(* with interrupts off, so malloc and free are one step each.              *)
(***************************************************************************)
EXTENDS Integers, FiniteSets

CONSTANTS
  INIT_HEAP_SIZE,   \* bytes of the arena (config.h)
  HEADER,           \* sizeof(MemoryBlockHeader) (memory.h)
  Sizes             \* the sizes callers ask for

ASSUME SizesAssumption ==
  /\ INIT_HEAP_SIZE \in Nat
  /\ HEADER \in Nat \ {0}
  /\ HEADER <= INIT_HEAP_SIZE
  /\ Sizes \subseteq Nat

VARIABLES headers, live

vars == <<headers, live>>

heapStartPtr == 0
heapEndPtr == INIT_HEAP_SIZE

Header == [Length : Nat, Used : BOOLEAN]

get_next_heap_block(hs, b) == b + HEADER + hs[b].Length

\* The blocks whose successor is b: what the walk of get_prev_heap_block meets.
get_prev_heap_block(hs, b) ==
  {l \in DOMAIN hs : l < b /\ get_next_heap_block(hs, l) = b}

\* Block b absorbs its right neighbour r, whose header becomes payload.
Absorb(hs, b, r) ==
  [a \in DOMAIN hs \ {r} |->
     IF a = b THEN [Length |-> hs[b].Length + hs[r].Length + HEADER,
                    Used |-> hs[b].Used]
              ELSE hs[a]]

MergeRight(hs, b) ==
  LET r == get_next_heap_block(hs, b)
  IN  IF r < heapEndPtr /\ r \in DOMAIN hs /\ ~hs[r].Used THEN Absorb(hs, b, r) ELSE hs

MergeLeft(hs, b) ==
  IF \E l \in get_prev_heap_block(hs, b) : ~hs[l].Used
  THEN Absorb(hs, CHOOSE l \in get_prev_heap_block(hs, b) : ~hs[l].Used, b)
  ELSE hs

\* Mutant: the merge with the left neighbour is missing.
MergeRightOnly(hs, b) == MergeRight(hs, b)

try_defragment_page(hs, b) == MergeLeft(MergeRight(hs, b), b)
-----------------------------------------------------------------------------
\* Mutant: the length test is off by one.
FitsOffByOne(size) ==
  {b \in DOMAIN headers : ~headers[b].Used /\ headers[b].Length + 1 >= size}

\* Mutant: the Used test of the walk is missing.
FitsUsedToo(size) == {b \in DOMAIN headers : headers[b].Length >= size}

\* The free blocks that can hold size bytes.
Fits(size) == {b \in DOMAIN headers : ~headers[b].Used /\ headers[b].Length >= size}

\* Take the whole block.
Whole(b) == [headers EXCEPT ![b].Used = TRUE]

\* Mutant: the new header is not counted in the remainder.
SplitForgetsHeader(b, size) ==
  LET rest == b + HEADER + size
  IN  [a \in DOMAIN headers \cup {rest} |->
         IF a = b THEN [Length |-> size, Used |-> TRUE]
         ELSE IF a = rest
              THEN [Length |-> headers[b].Length - size, Used |-> FALSE]
              ELSE headers[a]]

\* Cut size bytes off block b; the rest becomes a free block of its own.
Split(b, size) ==
  LET rest == b + HEADER + size
  IN  [a \in DOMAIN headers \cup {rest} |->
         IF a = b THEN [Length |-> size, Used |-> TRUE]
         ELSE IF a = rest
              THEN [Length |-> headers[b].Length - size - HEADER, Used |-> FALSE]
              ELSE headers[a]]

\* A block is only split when the remainder is worth a block: more than a header.
Splits(b, size) == headers[b].Length > size + HEADER + HEADER

Take(b, size) == IF Splits(b, size) THEN Split(b, size) ELSE Whole(b)

Granted(p, size) == [q \in DOMAIN live \cup {p} |-> IF q = p THEN size ELSE live[q]]

Init ==
  /\ headers = [b \in {heapStartPtr} |->
                  [Length |-> INIT_HEAP_SIZE - HEADER, Used |-> FALSE]]
  /\ live = [p \in {} |-> 0]

\* The walk ends at the first block that fits.
MallocGrants(size) ==
  \E b \in Fits(size) :
    /\ \A c \in Fits(size) : b <= c
    /\ headers' = Take(b, size)
    /\ live' = Granted(b + HEADER, size)

\* The walk runs off the end: nullptr, nothing is written.
MallocFails(size) ==
  /\ Fits(size) = {}
  /\ UNCHANGED vars

malloc(size) == MallocGrants(size) \/ MallocFails(size)

\* Mutant: the Used flag is not cleared.
FreeKeepsUsed(p) ==
  /\ headers' = try_defragment_page(headers, p - HEADER)
  /\ live' = [q \in DOMAIN live \ {p} |-> live[q]]

\* Callers free what malloc gave them, once.
free(p) ==
  /\ headers' = try_defragment_page([headers EXCEPT ![p - HEADER].Used = FALSE], p - HEADER)
  /\ live' = [q \in DOMAIN live \ {p} |-> live[q]]

Next ==
  \/ \E size \in Sizes : malloc(size)
  \/ \E p \in DOMAIN live : free(p)

Spec == Init /\ [][Next]_vars
-----------------------------------------------------------------------------
End(b) == get_next_heap_block(headers, b)

\* Type invariant: headers are Length/Used pairs inside the arena, live sizes are
\* sizes somebody asked for.
TypeOK ==
  /\ DOMAIN headers \subseteq 0 .. (INIT_HEAP_SIZE - 1)
  /\ headers \in [DOMAIN headers -> Header]
  /\ DOMAIN live \subseteq 0 .. INIT_HEAP_SIZE
  /\ live \in [DOMAIN live -> Sizes]

\* The list walk of malloc and get_prev_heap_block is sound: it starts at a header,
\* every step lands on a header or exactly on heapEndPtr, and no block reaches into
\* the next one, whatever splits and merges came before.
Tiling ==
  /\ heapStartPtr \in DOMAIN headers
  /\ \A b \in DOMAIN headers : End(b) \in DOMAIN headers \cup {heapEndPtr}
  /\ \A b, c \in DOMAIN headers : b < c => End(b) <= c

\* No byte of the arena is lost: every byte belongs to a block of the list.
Covering ==
  \A x \in 0 .. (INIT_HEAP_SIZE - 1) :
    \E b \in DOMAIN headers : b <= x /\ x < End(b)

\* try_defragment_page leaves no two neighbouring free blocks, so merging with one
\* neighbour on each side is enough.
NoAdjacentFree ==
  \A b, c \in DOMAIN headers : End(b) = c => headers[b].Used \/ headers[c].Used

\* The used blocks are exactly the blocks of the live pointers and each is at least
\* as long as its caller asked for; with Tiling, two callers never share a byte.
LiveIsUsed ==
  /\ \A p \in DOMAIN live :
       /\ p - HEADER \in DOMAIN headers
       /\ headers[p - HEADER].Used
       /\ live[p] <= headers[p - HEADER].Length
  /\ \A b \in DOMAIN headers : headers[b].Used => b + HEADER \in DOMAIN live

\* Freeing everything, in any order, gives back the one block init_heap_alloc made.
AllFreedRestores ==
  DOMAIN live = {} =>
    headers = [b \in {heapStartPtr} |->
                 [Length |-> INIT_HEAP_SIZE - HEADER, Used |-> FALSE]]

\* malloc answers nullptr only when it must: if no block fits, every window of the
\* arena that could hold a header and the payload touches a block in use.
FailureIsHonest ==
  \A size \in Sizes :
    Fits(size) = {} =>
      \A w \in 0 .. (INIT_HEAP_SIZE - HEADER - size) :
        \E b \in DOMAIN headers :
          headers[b].Used /\ b < w + HEADER + size /\ w < End(b)

\* After free(p) a request of the size p had cannot fail: what screen buffers that
\* are freed and allocated again (cmd_clear) rely on.
FreedFitsAgain ==
  [][\A p \in DOMAIN live :
       p \notin DOMAIN live' =>
         \E b \in DOMAIN headers' : ~headers'[b].Used /\ headers'[b].Length >= live[p]]_vars

\* What callers see is the allocator of AbstractAllocator: live ranges inside the
\* arena that never share a byte.
Abstract == INSTANCE AbstractAllocator WITH ArenaSize <- INIT_HEAP_SIZE

ImplementsAllocator == Abstract!Spec
=============================================================================
