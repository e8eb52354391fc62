------------------------- MODULE AbstractAllocator -------------------------
(***************************************************************************)
(* What malloc and free of kernel/memory/heap/heap.h promise their caller, *)
(* with nothing said about headers, lists or fit policy: every pointer     *)
(* handed out owns a byte range of the arena that no other live pointer    *)
(* touches.  Heap.tla is shown to implement this specification.            *)
(***************************************************************************)
EXTENDS Integers

CONSTANTS
  ArenaSize,   \* bytes the allocator manages
  Sizes        \* the sizes a caller may ask for

VARIABLE live  \* live[p] is the size asked for when pointer p was handed out

Ptr == 0 .. ArenaSize

\* Bytes [p, p + n) and [q, q + m) have no byte in common.
Apart(p, n, q, m) == p + n <= q \/ q + m <= p

\* The range of n bytes at p is inside the arena and clear of every live range.
Grantable(p, n) ==
  /\ p \notin DOMAIN live
  /\ p + n <= ArenaSize
  /\ \A q \in DOMAIN live : Apart(p, n, q, live[q])

Init == live = [p \in {} |-> 0]

Grant(n) ==
  \E p \in Ptr :
    /\ Grantable(p, n)
    /\ live' = [q \in DOMAIN live \cup {p} |-> IF q = p THEN n ELSE live[q]]

Release ==
  \E p \in DOMAIN live : live' = [q \in DOMAIN live \ {p} |-> live[q]]

\* A refused malloc (nullptr) leaves live alone: a stuttering step.
Next == Release \/ \E n \in Sizes : Grant(n)

Spec == Init /\ [][Next]_live
=============================================================================
