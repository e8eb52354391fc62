----------------------------- MODULE HeapProofs -----------------------------
(***************************************************************************)
(* Proofs about Heap and HeapGraph for every arena size, header size and   *)
(* set of sizes.                                                           *)
(* The layout facts are stated about any map hs of headers, so that the    *)
(* intermediate states of free (flag cleared, merged right, merged left)   *)
(* can be talked about.                                                    *)
(***************************************************************************)
EXTENDS HeapGraph, TLAPS

\* TypeOK, Tiling and Covering of an arbitrary map of headers.
WellFormed(hs) ==
  /\ DOMAIN hs \subseteq 0 .. (INIT_HEAP_SIZE - 1)
  /\ hs \in [DOMAIN hs -> Header]
  /\ 0 \in DOMAIN hs
  /\ \A b \in DOMAIN hs : b + HEADER + hs[b].Length \in DOMAIN hs \cup {INIT_HEAP_SIZE}
  /\ \A b, c \in DOMAIN hs : b < c => b + HEADER + hs[b].Length <= c
  /\ \A x \in 0 .. (INIT_HEAP_SIZE - 1) :
       \E b \in DOMAIN hs : b <= x /\ x < b + HEADER + hs[b].Length

\* No two neighbouring free blocks, the pairs with block b aside.
ApartExcept(hs, b) ==
  \A a, c \in DOMAIN hs :
    a + HEADER + hs[a].Length = c => hs[a].Used \/ hs[c].Used \/ a = b \/ c = b

\* The inductive invariant.
IInv == TypeOK /\ Tiling /\ Covering /\ NoAdjacentFree /\ LiveIsUsed

\* The layout part of the invariant is WellFormed of the current headers.
LEMMA LayoutIsWellFormed ==
  ASSUME TypeOK, Tiling, Covering
  PROVE  WellFormed(headers)
BY DEF TypeOK, Tiling, Covering, WellFormed, End, get_next_heap_block, heapStartPtr, heapEndPtr

\* Absorbing the right neighbour keeps the layout and moves only the end of b.
LEMMA AbsorbKeepsLayout ==
  ASSUME NEW hs, WellFormed(hs),
         NEW b \in DOMAIN hs, NEW r \in DOMAIN hs,
         r = b + HEADER + hs[b].Length
  PROVE  LET m == Absorb(hs, b, r)
         IN  /\ DOMAIN m = DOMAIN hs \ {r}
             /\ b \in DOMAIN m
             /\ m[b].Length = hs[b].Length + hs[r].Length + HEADER
             /\ m[b].Used = hs[b].Used
             /\ \A a \in DOMAIN m : a # b => m[a] = hs[a]
             /\ WellFormed(m)
<1> DEFINE m == Absorb(hs, b, r)
<1>1. /\ b \in Nat /\ r \in Nat /\ b < r
      /\ hs[b].Length \in Nat /\ hs[r].Length \in Nat
      /\ INIT_HEAP_SIZE \in Nat /\ HEADER \in Nat /\ HEADER > 0
  <2>1. INIT_HEAP_SIZE \in Nat /\ HEADER \in Nat /\ HEADER > 0
    BY SizesAssumption
  <2>2. DOMAIN hs \subseteq 0 .. (INIT_HEAP_SIZE - 1) /\ hs \in [DOMAIN hs -> Header]
    BY DEF WellFormed
  <2>3. hs[b] \in Header /\ hs[r] \in Header
    BY <2>2
  <2>4. hs[b].Length \in Nat /\ hs[r].Length \in Nat
    BY <2>3 DEF Header
  <2>5. b \in Nat /\ r \in Nat
    BY <2>1, <2>2
  <2> QED BY <2>1, <2>4, <2>5
<1>2. /\ DOMAIN m = DOMAIN hs \ {r}
      /\ b \in DOMAIN m
      /\ m[b] = [Length |-> hs[b].Length + hs[r].Length + HEADER, Used |-> hs[b].Used]
      /\ \A a \in DOMAIN m : a # b => m[a] = hs[a]
  BY <1>1 DEF Absorb
<1>3. m[b].Length = hs[b].Length + hs[r].Length + HEADER /\ m[b].Used = hs[b].Used
  BY <1>2
<1> HIDE DEF m
<1>4. m[b] \in Header
  BY <1>1, <1>2 DEF WellFormed, Header
<1>5. DOMAIN m \subseteq 0 .. (INIT_HEAP_SIZE - 1) /\ m \in [DOMAIN m -> Header]
  <2>1. \A a \in DOMAIN m : m[a] \in Header
    BY <1>2, <1>4 DEF WellFormed
  <2>2. m = [a \in DOMAIN m |-> m[a]]
    BY DEF m, Absorb
  <2> QED
    BY <1>2, <2>1, <2>2 DEF WellFormed
<1>6. 0 \in DOMAIN m
  BY <1>1, <1>2 DEF WellFormed
<1>7. b + HEADER + m[b].Length = r + HEADER + hs[r].Length
  BY <1>1, <1>3
<1>8. \A a \in DOMAIN hs : a \in Nat /\ hs[a].Length \in Nat
  BY DEF WellFormed, Header
<1>9. \A a \in DOMAIN m : a + HEADER + m[a].Length \in DOMAIN m \cup {INIT_HEAP_SIZE}
  <2> TAKE a \in DOMAIN m
  <2>1. CASE a = b
    BY <2>1, <1>1, <1>2, <1>7 DEF WellFormed
  <2>2. CASE a # b
    <3>1. a + HEADER + hs[a].Length \in DOMAIN hs \cup {INIT_HEAP_SIZE}
      BY <1>2 DEF WellFormed
    <3>2. a + HEADER + hs[a].Length # r
      <4>1. CASE a < b
        <5>1. a + HEADER + hs[a].Length <= b
          BY <4>1, <1>2 DEF WellFormed
        <5> QED BY <5>1, <1>1, <1>2, <1>8
      <4>2. CASE b < a
        <5>1. b + HEADER + hs[b].Length <= a
          BY <4>2, <1>2 DEF WellFormed
        <5> QED BY <5>1, <1>1, <1>2, <1>8
      <4> QED BY <4>1, <4>2, <2>2, <1>1, <1>2, <1>8
    <3> QED BY <3>1, <3>2, <2>2, <1>2
  <2> QED BY <2>1, <2>2
<1>10. \A a, c \in DOMAIN m : a < c => a + HEADER + m[a].Length <= c
  <2> SUFFICES ASSUME NEW a \in DOMAIN m, NEW c \in DOMAIN m, a < c
               PROVE  a + HEADER + m[a].Length <= c
    OBVIOUS
  <2>1. CASE a = b
    <3>1. r <= c /\ r # c
      BY <2>1, <1>2 DEF WellFormed
    <3>2. c \in DOMAIN hs /\ r < c
      BY <3>1, <1>2, <1>1, <1>8
    <3>3. r + HEADER + hs[r].Length <= c
      BY <3>2 DEF WellFormed
    <3> QED BY <3>3, <2>1, <1>7
  <2>2. CASE a # b
    BY <2>2, <1>2 DEF WellFormed
  <2> QED BY <2>1, <2>2
<1>11. \A x \in 0 .. (INIT_HEAP_SIZE - 1) :
         \E a \in DOMAIN m : a <= x /\ x < a + HEADER + m[a].Length
  <2> TAKE x \in 0 .. (INIT_HEAP_SIZE - 1)
  <2>1. PICK a \in DOMAIN hs : a <= x /\ x < a + HEADER + hs[a].Length
    BY DEF WellFormed
  <2>2. CASE a = b \/ a = r
    <3>1. b <= x /\ x < b + HEADER + m[b].Length
      BY <2>1, <2>2, <1>1, <1>3, <1>7, <1>8
    <3> QED BY <3>1, <1>2
  <2>3. CASE a # b /\ a # r
    BY <2>1, <2>3, <1>2
  <2> QED BY <2>2, <2>3
<1>12. WellFormed(m)
  BY <1>5, <1>6, <1>9, <1>10, <1>11 DEF WellFormed
<1> QED BY <1>2, <1>3, <1>12 DEF m

\* Cutting a free block in two keeps the layout: the remainder ends where the block did.
LEMMA SplitKeepsLayout ==
  ASSUME WellFormed(headers), NEW b \in DOMAIN headers, NEW size \in Nat,
         Splits(b, size)
  PROVE  LET m == Split(b, size)
             rest == b + HEADER + size
         IN  /\ rest \notin DOMAIN headers
             /\ DOMAIN m = DOMAIN headers \cup {rest}
             /\ m[b] = [Length |-> size, Used |-> TRUE]
             /\ m[rest] = [Length |-> headers[b].Length - size - HEADER, Used |-> FALSE]
             /\ rest + HEADER + m[rest].Length = b + HEADER + headers[b].Length
             /\ \A a \in DOMAIN headers : a # b => m[a] = headers[a]
             /\ WellFormed(m)
<1> DEFINE m == Split(b, size)
           rest == b + HEADER + size
           L == headers[b].Length
<1>1. INIT_HEAP_SIZE \in Nat /\ HEADER \in Nat /\ HEADER > 0
  BY SizesAssumption
<1>2. /\ DOMAIN headers \subseteq 0 .. (INIT_HEAP_SIZE - 1)
      /\ headers \in [DOMAIN headers -> Header]
  BY DEF WellFormed
<1>3. \A a \in DOMAIN headers : a \in Nat /\ headers[a].Length \in Nat
  BY <1>1, <1>2 DEF Header
<1>4. L > size + HEADER + HEADER
  BY DEF Splits
<1>5. b \in Nat /\ L \in Nat /\ rest \in Nat /\ b < rest /\ rest + HEADER < b + HEADER + L
  BY <1>1, <1>3, <1>4
<1>6. rest \notin DOMAIN headers
  <2> SUFFICES ASSUME rest \in DOMAIN headers PROVE FALSE
    OBVIOUS
  <2>1. b + HEADER + L <= rest
    BY <1>5 DEF WellFormed
  <2> QED BY <2>1, <1>1, <1>5
<1>7. /\ DOMAIN m = DOMAIN headers \cup {rest}
      /\ m[b] = [Length |-> size, Used |-> TRUE]
      /\ m[rest] = [Length |-> L - size - HEADER, Used |-> FALSE]
      /\ \A a \in DOMAIN headers : a # b => m[a] = headers[a]
      /\ m = [a \in DOMAIN m |-> m[a]]
  BY <1>5, <1>6 DEF Split
<1> HIDE DEF m
<1>8. /\ m[b].Length = size
      /\ m[rest].Length = L - size - HEADER
      /\ m[rest].Length \in Nat
      /\ b + HEADER + m[b].Length = rest
      /\ rest + HEADER + m[rest].Length = b + HEADER + L
  BY <1>1, <1>4, <1>5, <1>7
<1>9. b + HEADER + L <= INIT_HEAP_SIZE
  <2>1. b + HEADER + L \in DOMAIN headers \cup {INIT_HEAP_SIZE}
    BY DEF WellFormed
  <2> QED BY <2>1, <1>1, <1>2, <1>5
<1>10. DOMAIN m \subseteq 0 .. (INIT_HEAP_SIZE - 1)
  BY <1>1, <1>2, <1>5, <1>7, <1>9
<1>11. m \in [DOMAIN m -> Header]
  <2>1. m[b] \in Header /\ m[rest] \in Header
    BY <1>7, <1>8 DEF Header
  <2>2. \A a \in DOMAIN m : m[a] \in Header
    BY <1>2, <1>7, <2>1
  <2> QED BY <2>2, <1>7
<1>12. 0 \in DOMAIN m
  BY <1>7 DEF WellFormed
<1>13. \A a \in DOMAIN m : a + HEADER + m[a].Length \in DOMAIN m \cup {INIT_HEAP_SIZE}
  <2> TAKE a \in DOMAIN m
  <2>1. CASE a = b
    BY <2>1, <1>7, <1>8
  <2>2. CASE a = rest
    <3>1. b + HEADER + L \in DOMAIN headers \cup {INIT_HEAP_SIZE}
      BY DEF WellFormed
    <3> QED BY <2>2, <3>1, <1>7, <1>8
  <2>3. CASE a # b /\ a # rest
    <3>1. a + HEADER + headers[a].Length \in DOMAIN headers \cup {INIT_HEAP_SIZE}
      BY <2>3, <1>7 DEF WellFormed
    <3> QED BY <2>3, <3>1, <1>7
  <2> QED BY <2>1, <2>2, <2>3
<1>14. \A a, c \in DOMAIN m : a < c => a + HEADER + m[a].Length <= c
  <2> SUFFICES ASSUME NEW a \in DOMAIN m, NEW c \in DOMAIN m, a < c
               PROVE  a + HEADER + m[a].Length <= c
    OBVIOUS
  <2>0. a \in Nat /\ c \in Nat
    BY <1>1, <1>10
  <2>1. CASE a \in DOMAIN headers /\ c \in DOMAIN headers
    <3>1. a + HEADER + headers[a].Length <= c
      BY <2>1 DEF WellFormed
    <3> QED BY <2>0, <2>1, <3>1, <1>1, <1>3, <1>4, <1>5, <1>7, <1>8
  <2>2. CASE a = rest /\ c \in DOMAIN headers
    <3>1. b < c
      BY <2>0, <2>2, <1>5
    <3>2. b + HEADER + L <= c
      BY <2>2, <3>1 DEF WellFormed
    <3> QED BY <2>2, <3>2, <1>8
  <2>3. CASE a \in DOMAIN headers /\ c = rest
    <3>1. a <= b
      <4> SUFFICES ASSUME b < a PROVE FALSE
        BY <2>0, <1>5
      <4>1. b + HEADER + L <= a
        BY <2>3 DEF WellFormed
      <4> QED BY <4>1, <2>0, <2>3, <1>1, <1>5
    <3>2. CASE a = b
      BY <3>2, <2>3, <1>8, <1>5
    <3>3. CASE a < b
      <4>1. a + HEADER + headers[a].Length <= b
        BY <2>3, <3>3 DEF WellFormed
      <4> QED BY <4>1, <3>3, <2>0, <2>3, <1>1, <1>3, <1>5, <1>7
    <3> QED BY <3>1, <3>2, <3>3, <2>0, <1>5
  <2>4. ~(a = rest /\ c = rest)
    BY <2>0
  <2> QED BY <2>1, <2>2, <2>3, <2>4, <1>7
<1>15. \A x \in 0 .. (INIT_HEAP_SIZE - 1) :
         \E a \in DOMAIN m : a <= x /\ x < a + HEADER + m[a].Length
  <2> TAKE x \in 0 .. (INIT_HEAP_SIZE - 1)
  <2>1. PICK a \in DOMAIN headers : a <= x /\ x < a + HEADER + headers[a].Length
    BY DEF WellFormed
  <2>2. CASE a # b
    BY <2>1, <2>2, <1>7
  <2>3. CASE a = b
    <3>1. \/ b <= x /\ x < b + HEADER + m[b].Length
          \/ rest <= x /\ x < rest + HEADER + m[rest].Length
      BY <2>1, <2>3, <1>1, <1>5, <1>8
    <3> QED BY <3>1, <1>7
  <2> QED BY <2>2, <2>3
<1>16. WellFormed(m)
  BY <1>10, <1>11, <1>12, <1>13, <1>14, <1>15 DEF WellFormed
<1> QED BY <1>6, <1>7, <1>8, <1>16 DEF m

\* Changing only a Used flag keeps the layout.
LEMMA FlagKeepsLayout ==
  ASSUME NEW hs, WellFormed(hs), NEW b \in DOMAIN hs, NEW u \in BOOLEAN
  PROVE  LET m == [hs EXCEPT ![b].Used = u]
         IN  /\ DOMAIN m = DOMAIN hs
             /\ m[b].Used = u
             /\ \A a \in DOMAIN hs : m[a].Length = hs[a].Length
             /\ \A a \in DOMAIN hs : a # b => m[a] = hs[a]
             /\ WellFormed(m)
<1> DEFINE m == [hs EXCEPT ![b].Used = u]
<1>1. hs \in [DOMAIN hs -> Header]
  BY DEF WellFormed
<1>2. hs[b] \in Header
  BY <1>1
<1>3. /\ DOMAIN m = DOMAIN hs
      /\ m[b] = [hs[b] EXCEPT !.Used = u]
      /\ \A a \in DOMAIN hs : a # b => m[a] = hs[a]
      /\ m = [a \in DOMAIN m |-> m[a]]
  BY <1>1
<1> HIDE DEF m
<1>4. m[b].Used = u /\ m[b].Length = hs[b].Length /\ m[b] \in Header
  BY <1>2, <1>3 DEF Header
<1>5. \A a \in DOMAIN hs : m[a].Length = hs[a].Length
  BY <1>3, <1>4
<1>6. m \in [DOMAIN m -> Header]
  <2>1. \A a \in DOMAIN m : m[a] \in Header
    BY <1>1, <1>3, <1>4
  <2> QED BY <2>1, <1>3
<1>7. WellFormed(m)
  BY <1>3, <1>5, <1>6 DEF WellFormed
<1> QED BY <1>3, <1>4, <1>5, <1>7 DEF m

\* No two neighbouring free blocks in hs.
NoFreePair(hs) ==
  \A a, c \in DOMAIN hs : a + HEADER + hs[a].Length = c => hs[a].Used \/ hs[c].Used

\* From hs to m only free blocks changed: used headers stay, none is added, and a
\* free block of m is at least as long as block b of hs was.
OnlyFreeMerged(hs, m, b) ==
  /\ DOMAIN m \subseteq DOMAIN hs
  /\ \A a \in DOMAIN hs : hs[a].Used => a \in DOMAIN m /\ m[a] = hs[a]
  /\ \A a \in DOMAIN m : m[a].Used => hs[a].Used
  /\ \E a \in DOMAIN m : ~m[a].Used /\ m[a].Length >= hs[b].Length

\* After the merge to the right, block b is free and its right neighbour is used.
LEMMA MergeRightResult ==
  ASSUME NEW hs, WellFormed(hs), NEW b \in DOMAIN hs, ~hs[b].Used, ApartExcept(hs, b)
  PROVE  LET m == MergeRight(hs, b)
         IN  /\ WellFormed(m)
             /\ ApartExcept(m, b)
             /\ b \in DOMAIN m /\ ~m[b].Used
             /\ m[b].Length >= hs[b].Length
             /\ \A c \in DOMAIN m : b + HEADER + m[b].Length = c => m[c].Used
             /\ OnlyFreeMerged(hs, m, b)
<1> DEFINE m == MergeRight(hs, b)
           r == b + HEADER + hs[b].Length
<1>1. /\ INIT_HEAP_SIZE \in Nat /\ HEADER \in Nat /\ HEADER > 0
      /\ \A a \in DOMAIN hs : a \in Nat /\ hs[a].Length \in Nat
  BY SizesAssumption DEF WellFormed, Header
<1>2. CASE r < INIT_HEAP_SIZE /\ r \in DOMAIN hs /\ ~hs[r].Used
  <2>1. m = Absorb(hs, b, r)
    BY <1>2 DEF MergeRight, get_next_heap_block, heapEndPtr
  <2> HIDE DEF m
  <2>2. /\ DOMAIN m = DOMAIN hs \ {r}
        /\ b \in DOMAIN m
        /\ m[b].Length = hs[b].Length + hs[r].Length + HEADER
        /\ m[b].Used = hs[b].Used
        /\ \A a \in DOMAIN m : a # b => m[a] = hs[a]
        /\ WellFormed(m)
    BY <1>2, <2>1, AbsorbKeepsLayout
  <2>3. m[b].Length >= hs[b].Length
    BY <1>1, <1>2, <2>2
  <2>4. ~m[b].Used
    BY <2>2
  <2>5. \A c \in DOMAIN m : b + HEADER + m[b].Length = c => m[c].Used
    <3> SUFFICES ASSUME NEW c \in DOMAIN m, b + HEADER + m[b].Length = c
                 PROVE  m[c].Used
      OBVIOUS
    <3>1. r + HEADER + hs[r].Length = c /\ c \in DOMAIN hs /\ c # b /\ r # b
      BY <1>1, <1>2, <2>2
    <3>2. hs[c].Used
      BY <3>1, <1>2 DEF ApartExcept
    <3> QED BY <3>1, <3>2, <2>2
  <2>6. ApartExcept(m, b)
    BY <2>2 DEF ApartExcept
  <2>7. OnlyFreeMerged(hs, m, b)
    BY <1>2, <2>2, <2>3, <2>4 DEF OnlyFreeMerged
  <2> QED BY <2>2, <2>3, <2>4, <2>5, <2>6, <2>7 DEF m
<1>3. CASE ~(r < INIT_HEAP_SIZE /\ r \in DOMAIN hs /\ ~hs[r].Used)
  <2>1. m = hs
    BY <1>3 DEF MergeRight, get_next_heap_block, heapEndPtr
  <2>2. \A c \in DOMAIN hs : r = c => hs[c].Used
    BY <1>3, <1>1 DEF WellFormed
  <2>3. OnlyFreeMerged(hs, hs, b)
    BY <1>1 DEF OnlyFreeMerged
  <2>4. hs[b].Length >= hs[b].Length
    BY <1>1
  <2> QED BY <2>1, <2>2, <2>3, <2>4
<1> QED BY <1>2, <1>3

\* The merge to the left then leaves no two neighbouring free blocks anywhere.
LEMMA MergeLeftResult ==
  ASSUME NEW hs, WellFormed(hs), NEW b \in DOMAIN hs, ~hs[b].Used, ApartExcept(hs, b),
         \A c \in DOMAIN hs : b + HEADER + hs[b].Length = c => hs[c].Used
  PROVE  LET m == MergeLeft(hs, b)
         IN  WellFormed(m) /\ NoFreePair(m) /\ OnlyFreeMerged(hs, m, b)
<1> DEFINE m == MergeLeft(hs, b)
           P == {l \in DOMAIN hs : l < b /\ l + HEADER + hs[l].Length = b}
<1>1. /\ INIT_HEAP_SIZE \in Nat /\ HEADER \in Nat /\ HEADER > 0
      /\ \A a \in DOMAIN hs : a \in Nat /\ hs[a].Length \in Nat
  BY SizesAssumption DEF WellFormed, Header
<1>0. P = get_prev_heap_block(hs, b)
  BY DEF get_prev_heap_block, get_next_heap_block
<1>2. CASE \E l \in P : ~hs[l].Used
  <2> DEFINE l == CHOOSE l \in get_prev_heap_block(hs, b) : ~hs[l].Used
  <2>1. l \in P /\ ~hs[l].Used
    BY <1>2, <1>0
  <2>2. m = Absorb(hs, l, b)
    BY <1>2, <1>0 DEF MergeLeft
  <2> HIDE DEF l, m
  <2>3. l \in DOMAIN hs /\ l < b /\ b = l + HEADER + hs[l].Length
    BY <2>1
  <2>4. /\ DOMAIN m = DOMAIN hs \ {b}
        /\ l \in DOMAIN m
        /\ m[l].Length = hs[l].Length + hs[b].Length + HEADER
        /\ m[l].Used = hs[l].Used
        /\ \A a \in DOMAIN m : a # l => m[a] = hs[a]
        /\ WellFormed(m)
    BY <2>2, <2>3, AbsorbKeepsLayout
  <2>5. l + HEADER + m[l].Length = b + HEADER + hs[b].Length /\ m[l].Length >= hs[b].Length
    BY <1>1, <2>3, <2>4
  <2>6. NoFreePair(m)
    <3> SUFFICES ASSUME NEW a \in DOMAIN m, NEW c \in DOMAIN m,
                        a + HEADER + m[a].Length = c
                 PROVE  m[a].Used \/ m[c].Used
      BY DEF NoFreePair
    <3>0. a \in Nat /\ c \in Nat /\ a < c
      <4>1. a \in DOMAIN hs /\ c \in DOMAIN hs /\ m[a].Length \in Nat
        BY <2>4 DEF WellFormed, Header
      <4> QED BY <4>1, <1>1
    <3>1. CASE a = l
      <4>1. c \in DOMAIN hs /\ hs[c].Used
        BY <3>1, <2>4, <2>5
      <4>2. c # l
        BY <3>0, <3>1
      <4> QED BY <4>1, <4>2, <2>4
    <3>2. CASE a # l
      <4>1. a + HEADER + hs[a].Length = c /\ a # b /\ c # b /\ a \in DOMAIN hs /\ c \in DOMAIN hs
        BY <3>2, <2>4
      <4>2. hs[a].Used \/ hs[c].Used
        BY <4>1 DEF ApartExcept
      <4> QED BY <3>2, <4>2, <2>1, <2>4
    <3> QED BY <3>1, <3>2
  <2>7. OnlyFreeMerged(hs, m, b)
    BY <2>1, <2>4, <2>5 DEF OnlyFreeMerged
  <2> QED BY <2>4, <2>6, <2>7 DEF m
<1>3. CASE ~ \E l \in P : ~hs[l].Used
  <2>1. m = hs
    BY <1>3, <1>0 DEF MergeLeft
  <2>2. NoFreePair(hs)
    <3> SUFFICES ASSUME NEW a \in DOMAIN hs, NEW c \in DOMAIN hs,
                        a + HEADER + hs[a].Length = c
                 PROVE  hs[a].Used \/ hs[c].Used
      BY DEF NoFreePair
    <3>1. a < c
      BY <1>1
    <3> QED BY <3>1, <1>3 DEF ApartExcept
  <2>3. OnlyFreeMerged(hs, hs, b)
    BY <1>1 DEF OnlyFreeMerged
  <2> QED BY <2>1, <2>2, <2>3
<1> QED BY <1>2, <1>3

\* What free does to the block list, both merges together.
LEMMA DefragmentResult ==
  ASSUME NEW hs, WellFormed(hs), NEW b \in DOMAIN hs, ~hs[b].Used, ApartExcept(hs, b)
  PROVE  LET m == try_defragment_page(hs, b)
         IN  WellFormed(m) /\ NoFreePair(m) /\ OnlyFreeMerged(hs, m, b)
<1> DEFINE r == MergeRight(hs, b)
           m == MergeLeft(r, b)
<1>1. /\ WellFormed(r)
      /\ ApartExcept(r, b)
      /\ b \in DOMAIN r /\ ~r[b].Used
      /\ r[b].Length >= hs[b].Length
      /\ \A c \in DOMAIN r : b + HEADER + r[b].Length = c => r[c].Used
      /\ OnlyFreeMerged(hs, r, b)
  BY MergeRightResult
<1> HIDE DEF r
<1>2. WellFormed(m) /\ NoFreePair(m) /\ OnlyFreeMerged(r, m, b)
  BY <1>1, MergeLeftResult
<1> HIDE DEF m
<1>3. OnlyFreeMerged(hs, m, b)
  <2>1. \E a \in DOMAIN m : ~m[a].Used /\ m[a].Length >= hs[b].Length
    <3>1. PICK a \in DOMAIN m : ~m[a].Used /\ m[a].Length >= r[b].Length
      BY <1>2 DEF OnlyFreeMerged
    <3>2. m[a].Length \in Nat /\ r[b].Length \in Nat /\ hs[b].Length \in Nat
      BY <1>1, <1>2 DEF WellFormed, Header
    <3> QED BY <3>1, <3>2, <1>1
  <2> QED BY <1>1, <1>2, <2>1 DEF OnlyFreeMerged
<1> QED BY <1>2, <1>3 DEF try_defragment_page, m, r

\* The facts about a map of headers, read back as the invariants of the variable.
LEMMA ReadBack ==
  ASSUME WellFormed(headers'), NoFreePair(headers'), live' \in [DOMAIN live' -> Sizes],
         DOMAIN live' \subseteq 0 .. INIT_HEAP_SIZE
  PROVE  TypeOK' /\ Tiling' /\ Covering' /\ NoAdjacentFree'
<1>1. TypeOK'
  BY DEF WellFormed, TypeOK
<1>2. Tiling'
  BY DEF WellFormed, Tiling, End, get_next_heap_block, heapStartPtr, heapEndPtr
<1>3. Covering'
  BY DEF WellFormed, Covering, End, get_next_heap_block
<1>4. NoAdjacentFree'
  BY DEF NoFreePair, NoAdjacentFree, End, get_next_heap_block
<1> QED BY <1>1, <1>2, <1>3, <1>4

\* The state init_heap_alloc leaves satisfies the invariant.
LEMMA InitIInv == Init => IInv
<1> SUFFICES ASSUME Init PROVE IInv
  OBVIOUS
<1>1. INIT_HEAP_SIZE \in Nat /\ HEADER \in Nat /\ HEADER > 0 /\ HEADER <= INIT_HEAP_SIZE
  BY SizesAssumption
<1>2. /\ DOMAIN headers = {0}
      /\ headers[0] = [Length |-> INIT_HEAP_SIZE - HEADER, Used |-> FALSE]
      /\ headers = [a \in {0} |-> headers[a]]
      /\ DOMAIN live = {}
      /\ live \in [{} -> Sizes]
  BY DEF Init, heapStartPtr
<1>3. headers[0] \in Header /\ headers[0].Length = INIT_HEAP_SIZE - HEADER /\ ~headers[0].Used
  BY <1>1, <1>2 DEF Header
<1>4. TypeOK
  <2>1. headers \in [DOMAIN headers -> Header] /\ live \in [DOMAIN live -> Sizes]
    BY <1>2, <1>3
  <2> QED BY <1>1, <1>2, <2>1 DEF TypeOK
<1>5. Tiling /\ NoAdjacentFree
  BY <1>1, <1>2, <1>3 DEF Tiling, NoAdjacentFree, End, get_next_heap_block, heapStartPtr, heapEndPtr
<1>6. Covering
  BY <1>1, <1>2, <1>3 DEF Covering, End, get_next_heap_block
<1>7. LiveIsUsed
  BY <1>2, <1>3 DEF LiveIsUsed
<1> QED BY <1>4, <1>5, <1>6, <1>7 DEF IInv

\* A successful malloc, split or not, preserves the invariant.
LEMMA MallocKeepsIInv ==
  ASSUME IInv, NEW size \in Sizes, MallocGrants(size)
  PROVE  IInv'
<1>1. PICK b \in Fits(size) : headers' = Take(b, size) /\ live' = Granted(b + HEADER, size)
  BY DEF MallocGrants
<1>2. /\ INIT_HEAP_SIZE \in Nat /\ HEADER \in Nat /\ HEADER > 0 /\ size \in Nat
      /\ \A n \in Sizes : n \in Nat
  BY SizesAssumption
<1>3. WellFormed(headers) /\ live \in [DOMAIN live -> Sizes]
  BY LayoutIsWellFormed DEF IInv, TypeOK
<1>4. b \in DOMAIN headers /\ ~headers[b].Used /\ headers[b].Length >= size
  BY DEF Fits
<1>5. NoFreePair(headers)
  BY DEF IInv, NoAdjacentFree, NoFreePair, End, get_next_heap_block
<1>6. \A a \in DOMAIN headers : a \in Nat /\ headers[a].Length \in Nat
  BY <1>3 DEF WellFormed, Header
<1>7. b + HEADER \notin DOMAIN live
  <2>1. b \in Nat /\ (b + HEADER) - HEADER = b
    BY <1>2, <1>4, <1>6
  <2> QED BY <1>4, <2>1 DEF IInv, LiveIsUsed
<1>8. /\ DOMAIN live' = DOMAIN live \cup {b + HEADER}
      /\ live'[b + HEADER] = size
      /\ \A q \in DOMAIN live : live'[q] = live[q]
      /\ live' \in [DOMAIN live' -> Sizes]
  BY <1>1, <1>3, <1>7 DEF Granted
<1>9. /\ WellFormed(headers') /\ NoFreePair(headers')
      /\ DOMAIN headers \subseteq DOMAIN headers'
      /\ headers'[b].Used /\ headers'[b].Length >= size
      /\ \A a \in DOMAIN headers : a # b => headers'[a] = headers[a]
      /\ \A a \in DOMAIN headers' : headers'[a].Used => a \in DOMAIN headers
  <2>1. CASE Splits(b, size)
    <3> DEFINE rest == b + HEADER + size
    <3>1. headers' = Split(b, size)
      BY <1>1, <2>1 DEF Take
    <3>2. /\ rest \notin DOMAIN headers
          /\ DOMAIN headers' = DOMAIN headers \cup {rest}
          /\ headers'[b] = [Length |-> size, Used |-> TRUE]
          /\ headers'[rest] = [Length |-> headers[b].Length - size - HEADER, Used |-> FALSE]
          /\ rest + HEADER + headers'[rest].Length = b + HEADER + headers[b].Length
          /\ \A a \in DOMAIN headers : a # b => headers'[a] = headers[a]
          /\ WellFormed(headers')
      BY <3>1, <2>1, <1>2, <1>3, <1>4, SplitKeepsLayout
    <3>3. headers'[b].Used /\ headers'[b].Length = size /\ ~headers'[rest].Used
      BY <3>2
    <3>4. NoFreePair(headers')
      <4> SUFFICES ASSUME NEW a \in DOMAIN headers', NEW c \in DOMAIN headers',
                          a + HEADER + headers'[a].Length = c
                   PROVE  headers'[a].Used \/ headers'[c].Used
        BY DEF NoFreePair
      <4>1. CASE a = b \/ c = b
        BY <4>1, <3>3
      <4>2. CASE a = rest /\ c # b
        <5>1. c = b + HEADER + headers[b].Length
          BY <4>2, <3>2
        <5>2. c # rest
          <6>1. headers[b].Length > size
            BY <2>1, <1>2, <1>4, <1>6 DEF Splits
          <6> QED BY <5>1, <6>1, <1>2, <1>4, <1>6
        <5>3. c \in DOMAIN headers
          BY <3>2, <5>2
        <5>4. headers[c].Used
          BY <5>1, <5>3, <1>4, <1>5 DEF NoFreePair
        <5> QED BY <5>3, <5>4, <3>2, <4>2
      <4>3. CASE a # b /\ a # rest /\ c = rest
        <5>1. a \in DOMAIN headers /\ headers'[a] = headers[a]
          BY <4>3, <3>2
        <5>2. a + HEADER + headers[a].Length \in DOMAIN headers \cup {INIT_HEAP_SIZE}
          BY <5>1, <1>3 DEF WellFormed
        <5>3. rest # INIT_HEAP_SIZE
          BY <3>2, <1>2 DEF WellFormed
        <5> QED BY <5>1, <5>2, <5>3, <4>3, <3>2
      <4>4. CASE a # b /\ a # rest /\ c # b /\ c # rest
        <5>1. /\ a \in DOMAIN headers /\ headers'[a] = headers[a]
              /\ c \in DOMAIN headers /\ headers'[c] = headers[c]
          BY <4>4, <3>2
        <5> QED BY <5>1, <1>5 DEF NoFreePair
      <4> QED BY <4>1, <4>2, <4>3, <4>4
    <3> QED BY <3>2, <3>3, <3>4, <1>2
  <2>2. CASE ~Splits(b, size)
    <3>1. headers' = [headers EXCEPT ![b].Used = TRUE]
      BY <1>1, <2>2 DEF Take, Whole
    <3>2. /\ DOMAIN headers' = DOMAIN headers
          /\ headers'[b].Used = TRUE
          /\ \A a \in DOMAIN headers : headers'[a].Length = headers[a].Length
          /\ \A a \in DOMAIN headers : a # b => headers'[a] = headers[a]
          /\ WellFormed(headers')
      BY <3>1, <1>3, <1>4, FlagKeepsLayout
    <3>3. NoFreePair(headers')
      BY <3>2, <1>5 DEF NoFreePair
    <3> QED BY <3>2, <3>3, <1>4
  <2> QED BY <2>1, <2>2
<1>10. TypeOK' /\ Tiling' /\ Covering' /\ NoAdjacentFree'
  <2>1. b + HEADER + headers[b].Length <= INIT_HEAP_SIZE
    BY <1>2, <1>3, <1>4, <1>6 DEF WellFormed
  <2>2. b + HEADER \in 0 .. INIT_HEAP_SIZE
    BY <2>1, <1>2, <1>4, <1>6
  <2>3. DOMAIN live' \subseteq 0 .. INIT_HEAP_SIZE
    BY <2>2, <1>8 DEF IInv, TypeOK
  <2> QED BY <2>3, <1>8, <1>9, ReadBack
<1>11. LiveIsUsed'
  <2>1. ASSUME NEW p \in DOMAIN live'
        PROVE  /\ p - HEADER \in DOMAIN headers'
               /\ headers'[p - HEADER].Used
               /\ live'[p] <= headers'[p - HEADER].Length
    <3>1. CASE p = b + HEADER
      <4>1. p - HEADER = b
        BY <3>1, <1>2, <1>4, <1>6
      <4>2. headers'[b].Length \in Nat
        BY <1>4, <1>9 DEF WellFormed, Header
      <4> QED BY <3>1, <4>1, <4>2, <1>2, <1>4, <1>8, <1>9
    <3>2. CASE p # b + HEADER
      <4>1. p \in DOMAIN live /\ live'[p] = live[p]
        BY <3>2, <1>8
      <4>2. /\ p - HEADER \in DOMAIN headers
            /\ headers[p - HEADER].Used
            /\ live[p] <= headers[p - HEADER].Length
        BY <4>1 DEF IInv, LiveIsUsed
      <4>3. p - HEADER # b
        BY <4>2, <1>4
      <4> QED BY <4>1, <4>2, <4>3, <1>9
    <3> QED BY <3>1, <3>2
  <2>2. ASSUME NEW a \in DOMAIN headers', headers'[a].Used
        PROVE  a + HEADER \in DOMAIN live'
    <3>1. CASE a = b
      BY <3>1, <1>8
    <3>2. CASE a # b
      <4>1. a \in DOMAIN headers /\ headers[a].Used
        BY <2>2, <3>2, <1>9
      <4>2. a + HEADER \in DOMAIN live
        BY <4>1 DEF IInv, LiveIsUsed
      <4> QED BY <4>2, <1>8
    <3> QED BY <3>1, <3>2
  <2> QED BY <2>1, <2>2 DEF LiveIsUsed
<1> QED BY <1>10, <1>11 DEF IInv

\* What free(p) does: used blocks other than p's stay as they are, and some free
\* block is at least as long as p's block was.
LEMMA FreeResult ==
  ASSUME IInv, NEW p \in DOMAIN live, free(p)
  PROVE  /\ IInv'
         /\ DOMAIN live' = DOMAIN live \ {p}
         /\ \A q \in DOMAIN live' : live'[q] = live[q]
         /\ \E a \in DOMAIN headers' : ~headers'[a].Used /\ headers'[a].Length >= live[p]
         /\ \A a \in DOMAIN headers :
              headers[a].Used /\ a # p - HEADER => a \in DOMAIN headers' /\ headers'[a] = headers[a]
         /\ \A a \in DOMAIN headers' :
              headers'[a].Used => a \in DOMAIN headers /\ headers[a].Used /\ a # p - HEADER
<1> DEFINE b == p - HEADER
           hs == [headers EXCEPT ![b].Used = FALSE]
<1>1. /\ INIT_HEAP_SIZE \in Nat /\ HEADER \in Nat /\ HEADER > 0
      /\ \A n \in Sizes : n \in Nat
  BY SizesAssumption
<1>2. WellFormed(headers) /\ live \in [DOMAIN live -> Sizes]
  BY LayoutIsWellFormed DEF IInv, TypeOK
<1>3. b \in DOMAIN headers /\ headers[b].Used /\ live[p] <= headers[b].Length
  BY DEF IInv, LiveIsUsed
<1>4. /\ DOMAIN hs = DOMAIN headers
      /\ hs[b].Used = FALSE
      /\ \A a \in DOMAIN headers : hs[a].Length = headers[a].Length
      /\ \A a \in DOMAIN headers : a # b => hs[a] = headers[a]
      /\ WellFormed(hs)
  BY <1>2, <1>3, FlagKeepsLayout
<1>5. headers' = try_defragment_page(hs, b)
  BY DEF free
<1> HIDE DEF hs
<1>6. ApartExcept(hs, b)
  <2>1. NoFreePair(headers)
    BY DEF IInv, NoAdjacentFree, NoFreePair, End, get_next_heap_block
  <2> QED BY <2>1, <1>4 DEF NoFreePair, ApartExcept
<1>7. WellFormed(headers') /\ NoFreePair(headers') /\ OnlyFreeMerged(hs, headers', b)
  BY <1>3, <1>4, <1>5, <1>6, DefragmentResult
<1>8. /\ DOMAIN live' = DOMAIN live \ {p}
      /\ \A q \in DOMAIN live' : live'[q] = live[q]
      /\ live' \in [DOMAIN live' -> Sizes]
  BY <1>2 DEF free
<1>9. DOMAIN live' \subseteq 0 .. INIT_HEAP_SIZE
  BY <1>8 DEF IInv, TypeOK
<1>10. \A q \in DOMAIN live : q \in Int
  BY <1>1 DEF IInv, TypeOK
<1>11. LiveIsUsed'
  <2>1. ASSUME NEW q \in DOMAIN live'
        PROVE  /\ q - HEADER \in DOMAIN headers'
               /\ headers'[q - HEADER].Used
               /\ live'[q] <= headers'[q - HEADER].Length
    <3>1. q \in DOMAIN live /\ q # p /\ live'[q] = live[q]
      BY <1>8
    <3>2. /\ q - HEADER \in DOMAIN headers
          /\ headers[q - HEADER].Used
          /\ live[q] <= headers[q - HEADER].Length
      BY <3>1 DEF IInv, LiveIsUsed
    <3>3. q - HEADER # b
      BY <3>1, <1>1, <1>10
    <3>4. hs[q - HEADER] = headers[q - HEADER]
      BY <3>2, <3>3, <1>4
    <3>5. q - HEADER \in DOMAIN headers' /\ headers'[q - HEADER] = hs[q - HEADER]
      BY <3>2, <3>4, <1>4, <1>7 DEF OnlyFreeMerged
    <3> QED BY <3>1, <3>2, <3>4, <3>5
  <2>2. ASSUME NEW a \in DOMAIN headers', headers'[a].Used
        PROVE  a + HEADER \in DOMAIN live'
    <3>1. a \in DOMAIN hs /\ hs[a].Used
      BY <2>2, <1>7 DEF OnlyFreeMerged
    <3>2. a # b /\ a \in DOMAIN headers /\ headers[a].Used
      BY <3>1, <1>4
    <3>3. a + HEADER \in DOMAIN live
      BY <3>2 DEF IInv, LiveIsUsed
    <3>4. a \in Int
      BY <3>2, <1>1, <1>2 DEF WellFormed
    <3>5. a + HEADER # p
      BY <3>2, <3>4, <1>1, <1>10
    <3> QED BY <3>3, <3>5, <1>8
  <2> QED BY <2>1, <2>2 DEF LiveIsUsed
<1>12. \E a \in DOMAIN headers' : ~headers'[a].Used /\ headers'[a].Length >= live[p]
  <2>1. PICK a \in DOMAIN headers' : ~headers'[a].Used /\ headers'[a].Length >= hs[b].Length
    BY <1>7 DEF OnlyFreeMerged
  <2>2. headers'[a].Length \in Nat /\ headers[b].Length \in Nat /\ live[p] \in Nat
    BY <1>1, <1>2, <1>3, <1>7 DEF WellFormed, Header
  <2> QED BY <2>1, <2>2, <1>3, <1>4
<1>13. IInv'
  BY <1>7, <1>8, <1>9, <1>11, ReadBack DEF IInv
<1>14. \A a \in DOMAIN headers :
         headers[a].Used /\ a # b => a \in DOMAIN headers' /\ headers'[a] = headers[a]
  BY <1>4, <1>7 DEF OnlyFreeMerged
<1>15. \A a \in DOMAIN headers' :
         headers'[a].Used => a \in DOMAIN headers /\ headers[a].Used /\ a # b
  BY <1>4, <1>7 DEF OnlyFreeMerged
<1> QED BY <1>8, <1>12, <1>13, <1>14, <1>15

\* Every step preserves the invariant.
LEMMA NextIInv == IInv /\ [Next]_vars => IInv'
<1> SUFFICES ASSUME IInv, [Next]_vars PROVE IInv'
  OBVIOUS
<1>1. ASSUME NEW size \in Sizes, malloc(size) PROVE IInv'
  <2>1. CASE MallocGrants(size)
    BY <2>1, MallocKeepsIInv
  <2>2. CASE MallocFails(size)
    BY <2>2 DEF MallocFails, vars, IInv, TypeOK, Tiling, Covering, NoAdjacentFree, LiveIsUsed,
                End, get_next_heap_block
  <2> QED BY <1>1, <2>1, <2>2 DEF malloc
<1>2. ASSUME NEW p \in DOMAIN live, free(p) PROVE IInv'
  BY <1>2, FreeResult
<1>3. CASE UNCHANGED vars
  BY <1>3 DEF vars, IInv, TypeOK, Tiling, Covering, NoAdjacentFree, LiveIsUsed,
              End, get_next_heap_block
<1> QED BY <1>1, <1>2, <1>3 DEF Next

\* The invariant holds in every reachable state of the heap.
THEOREM HeapInvariant == Spec => []IInv
BY InitIInv, NextIInv, PTL DEF Spec

\* The heap never leaves its types: header words and live sizes stay naturals
\* inside the arena, so no Length ever wraps below zero.
THEOREM HeapTypes == Spec => []TypeOK
<1>1. IInv => TypeOK
  BY DEF IInv
<1> QED BY <1>1, HeapInvariant, PTL

\* The block list of heap.cpp tiles the arena exactly, whatever the history of
\* mallocs and frees: the walks of malloc and get_prev_heap_block never leave it.
THEOREM HeapIsTiled == Spec => [](Tiling /\ Covering)
<1>1. IInv => Tiling /\ Covering
  BY DEF IInv
<1> QED BY <1>1, HeapInvariant, PTL

\* try_defragment_page keeps the heap fully merged.
THEOREM HeapIsMerged == Spec => []NoAdjacentFree
<1>1. IInv => NoAdjacentFree
  BY DEF IInv
<1> QED BY <1>1, HeapInvariant, PTL

\* The blocks marked used are exactly those of the live pointers.
THEOREM HeapOwnership == Spec => []LiveIsUsed
<1>1. IInv => LiveIsUsed
  BY DEF IInv
<1> QED BY <1>1, HeapInvariant, PTL

\* Freeing everything restores the single block of init_heap_alloc.
THEOREM HeapRestored == Spec => []AllFreedRestores
<1>1. ASSUME IInv, DOMAIN live = {}
      PROVE  headers = [b \in {heapStartPtr} |->
                          [Length |-> INIT_HEAP_SIZE - HEADER, Used |-> FALSE]]
  <2>1. WellFormed(headers)
    BY <1>1, LayoutIsWellFormed DEF IInv
  <2>2. \A b \in DOMAIN headers : ~headers[b].Used
    BY <1>1 DEF IInv, LiveIsUsed
  <2>3. /\ INIT_HEAP_SIZE \in Nat /\ HEADER \in Nat /\ HEADER > 0
        /\ \A a \in DOMAIN headers : a \in 0 .. (INIT_HEAP_SIZE - 1) /\ headers[a] \in Header
    BY <2>1, SizesAssumption DEF WellFormed
  <2>4. 0 \in DOMAIN headers /\ headers[0].Length \in Nat
    BY <2>1, <2>3 DEF WellFormed, Header
  <2>5. HEADER + headers[0].Length = INIT_HEAP_SIZE
    <3>1. 0 + HEADER + headers[0].Length \in DOMAIN headers \cup {INIT_HEAP_SIZE}
      BY <2>1, <2>4 DEF WellFormed
    <3>2. 0 + HEADER + headers[0].Length \notin DOMAIN headers
      BY <1>1, <2>2, <2>4 DEF IInv, NoAdjacentFree, End, get_next_heap_block
    <3> QED BY <3>1, <3>2, <2>3, <2>4
  <2>6. DOMAIN headers = {0}
    <3>1. ASSUME NEW c \in DOMAIN headers, c # 0 PROVE FALSE
      <4>1. 0 < c
        BY <3>1, <2>3
      <4>2. 0 + HEADER + headers[0].Length <= c
        BY <4>1, <2>1, <2>4 DEF WellFormed
      <4> QED BY <4>2, <2>3, <2>4, <2>5
    <3> QED BY <3>1, <2>4
  <2>7. headers[0] = [Length |-> INIT_HEAP_SIZE - HEADER, Used |-> FALSE]
    <3>1. headers[0].Length = INIT_HEAP_SIZE - HEADER
      BY <2>3, <2>4, <2>5
    <3>2. headers[0].Used = FALSE
      BY <2>2, <2>3, <2>4 DEF Header
    <3> QED BY <3>1, <3>2, <2>3, <2>4 DEF Header
  <2>8. headers = [b \in DOMAIN headers |-> headers[b]]
    BY <2>1 DEF WellFormed
  <2> QED BY <2>6, <2>7, <2>8 DEF heapStartPtr
<1>2. IInv => AllFreedRestores
  BY <1>1 DEF AllFreedRestores
<1> QED BY <1>2, HeapInvariant, PTL

\* malloc returns nullptr only when no gap between the live blocks could hold the
\* header and the payload.
THEOREM HeapFailsHonestly == Spec => []FailureIsHonest
<1>1. ASSUME IInv, NEW size \in Sizes, Fits(size) = {},
             NEW w \in 0 .. (INIT_HEAP_SIZE - HEADER - size)
      PROVE  \E b \in DOMAIN headers :
               headers[b].Used /\ b < w + HEADER + size /\ w < End(b)
  <2>1. WellFormed(headers)
    BY <1>1, LayoutIsWellFormed DEF IInv
  <2>2. /\ INIT_HEAP_SIZE \in Nat /\ HEADER \in Nat /\ HEADER > 0 /\ size \in Nat
        /\ \A a \in DOMAIN headers : a \in Nat /\ headers[a].Length \in Nat
    BY <2>1, SizesAssumption DEF WellFormed, Header
  <2>3. w \in 0 .. (INIT_HEAP_SIZE - 1) /\ w + HEADER + size <= INIT_HEAP_SIZE
    BY <1>1, <2>2
  <2>4. PICK b \in DOMAIN headers : b <= w /\ w < b + HEADER + headers[b].Length
    BY <2>1, <2>3 DEF WellFormed
  <2>5. CASE headers[b].Used
    <3>1. b < w + HEADER + size
      BY <2>2, <2>3, <2>4
    <3> QED BY <3>1, <2>4, <2>5 DEF End, get_next_heap_block
  <2>6. CASE ~headers[b].Used
    <3> DEFINE c == b + HEADER + headers[b].Length
    <3>1. headers[b].Length < size
      BY <1>1, <2>2, <2>6 DEF Fits
    <3>2. c < w + HEADER + size /\ w < c /\ c < INIT_HEAP_SIZE
      BY <3>1, <2>2, <2>3, <2>4
    <3>3. c \in DOMAIN headers
      <4>1. c \in DOMAIN headers \cup {INIT_HEAP_SIZE}
        BY <2>1 DEF WellFormed
      <4> QED BY <4>1, <3>2, <2>2
    <3>4. headers[c].Used
      BY <1>1, <2>6, <3>3 DEF IInv, NoAdjacentFree, End, get_next_heap_block
    <3>5. w < c + HEADER + headers[c].Length
      BY <3>2, <3>3, <2>2, <2>3
    <3> QED BY <3>2, <3>3, <3>4, <3>5 DEF End, get_next_heap_block
  <2> QED BY <2>5, <2>6
<1>2. IInv => FailureIsHonest
  BY <1>1 DEF FailureIsHonest
<1> QED BY <1>2, HeapInvariant, PTL

\* Freeing a block and asking for its size again cannot fail.
THEOREM HeapFreedFitsAgain == Spec => FreedFitsAgain
<1> DEFINE Step ==
      \A p \in DOMAIN live :
        p \notin DOMAIN live' =>
          \E b \in DOMAIN headers' : ~headers'[b].Used /\ headers'[b].Length >= live[p]
<1>1. IInv /\ [Next]_vars => [Step]_vars
  <2> SUFFICES ASSUME IInv, [Next]_vars PROVE Step
    OBVIOUS
  <2>1. ASSUME NEW size \in Sizes, malloc(size) PROVE Step
    <3>1. DOMAIN live \subseteq DOMAIN live'
      BY <2>1 DEF malloc, MallocGrants, MallocFails, Granted, vars
    <3> QED BY <3>1
  <2>2. ASSUME NEW p \in DOMAIN live, free(p) PROVE Step
    BY <2>2, FreeResult
  <2>3. CASE UNCHANGED vars
    BY <2>3 DEF vars
  <2> QED BY <2>1, <2>2, <2>3 DEF Next
<1> QED BY <1>1, HeapInvariant, PTL DEF Spec, FreedFitsAgain

\* A successful malloc is a Grant of the abstract allocator: the new range is inside
\* the arena and shares no byte with a live one.
LEMMA MallocGrantsAbstractly ==
  ASSUME IInv, NEW size \in Sizes, MallocGrants(size)
  PROVE  Abstract!Grant(size)
<1>1. PICK b \in Fits(size) : live' = Granted(b + HEADER, size)
  BY DEF MallocGrants
<1> DEFINE p == b + HEADER
<1>2. b \in DOMAIN headers /\ ~headers[b].Used /\ headers[b].Length >= size
  BY DEF Fits
<1>3. WellFormed(headers)
  BY LayoutIsWellFormed DEF IInv
<1>4. /\ INIT_HEAP_SIZE \in Nat /\ HEADER \in Nat /\ HEADER > 0 /\ size \in Nat
      /\ \A n \in Sizes : n \in Nat
      /\ \A a \in DOMAIN headers : a \in Nat /\ headers[a].Length \in Nat
  BY <1>3, SizesAssumption DEF WellFormed, Header
<1>5. b + HEADER + headers[b].Length <= INIT_HEAP_SIZE
  BY <1>2, <1>3, <1>4 DEF WellFormed
<1>6. p \in 0 .. INIT_HEAP_SIZE /\ p + size <= INIT_HEAP_SIZE
  BY <1>2, <1>4, <1>5
<1>7. \A q \in DOMAIN live :
        /\ q \in Int /\ live[q] \in Nat
        /\ q - HEADER \in DOMAIN headers
        /\ headers[q - HEADER].Used
        /\ live[q] <= headers[q - HEADER].Length
  BY <1>4 DEF IInv, TypeOK, LiveIsUsed
<1>8. p \notin DOMAIN live
  <2>1. p - HEADER = b
    BY <1>2, <1>4
  <2> QED BY <2>1, <1>2, <1>7
<1>9. \A q \in DOMAIN live : p + size <= q \/ q + live[q] <= p
  <2> TAKE q \in DOMAIN live
  <2> DEFINE c == q - HEADER
  <2>1. c \in DOMAIN headers /\ c \in Nat /\ c # b /\ c + HEADER = q
    BY <1>2, <1>4, <1>7
  <2>2. CASE c < b
    <3>1. c + HEADER + headers[c].Length <= b
      BY <2>1, <2>2, <1>2, <1>3 DEF WellFormed
    <3> QED BY <3>1, <2>1, <1>2, <1>4, <1>7
  <2>3. CASE b < c
    <3>1. b + HEADER + headers[b].Length <= c
      BY <2>1, <2>3, <1>2, <1>3 DEF WellFormed
    <3> QED BY <3>1, <2>1, <1>2, <1>4
  <2> QED BY <2>1, <2>2, <2>3, <1>2, <1>4
<1>10. Abstract!Grantable(p, size)
  BY <1>6, <1>8, <1>9 DEF Abstract!Grantable, Abstract!Apart
<1>11. live' = [q \in DOMAIN live \cup {p} |-> IF q = p THEN size ELSE live[q]]
  BY <1>1 DEF Granted
<1>12. p \in Abstract!Ptr
  BY <1>6 DEF Abstract!Ptr
<1> QED BY <1>10, <1>11, <1>12 DEF Abstract!Grant

\* heap.cpp implements the abstract allocator: whatever is done with headers, two
\* live pointers never share a byte and none leaves the arena.
THEOREM HeapImplementsAllocator == Spec => ImplementsAllocator
<1>1. Init => Abstract!Init
  BY DEF Init, Abstract!Init
<1>2. IInv /\ [Next]_vars => [Abstract!Next]_live
  <2> SUFFICES ASSUME IInv, [Next]_vars PROVE [Abstract!Next]_live
    OBVIOUS
  <2>1. ASSUME NEW size \in Sizes, malloc(size) PROVE [Abstract!Next]_live
    <3>1. CASE MallocGrants(size)
      BY <3>1, MallocGrantsAbstractly DEF Abstract!Next
    <3>2. CASE MallocFails(size)
      BY <3>2 DEF MallocFails, vars
    <3> QED BY <2>1, <3>1, <3>2 DEF malloc
  <2>2. ASSUME NEW p \in DOMAIN live, free(p) PROVE Abstract!Next
    BY <2>2 DEF free, Abstract!Next, Abstract!Release
  <2>3. CASE UNCHANGED vars
    BY <2>3 DEF vars
  <2> QED BY <2>1, <2>2, <2>3 DEF Next
<1> QED BY <1>1, <1>2, HeapInvariant, PTL DEF Spec, Abstract!Spec, ImplementsAllocator
-----------------------------------------------------------------------------
(* HeapGraph: the walk of print_memory_fragmentation_graph. *)

\* The used blocks of hs are used blocks of ks, too.
UsedIn(hs, ks) == \A b \in DOMAIN hs : hs[b].Used => b \in DOMAIN ks /\ ks[b] = hs[b]

\* A free block lies between two used ones (or the ends of the arena), so the used blocks
\* say where it is and how long.
LEMMA FreeBlocksAgree ==
  ASSUME NEW hs, NEW ks, WellFormed(hs), WellFormed(ks), NoFreePair(hs), NoFreePair(ks),
         UsedIn(hs, ks), UsedIn(ks, hs), NEW b \in DOMAIN hs, ~hs[b].Used
  PROVE  b \in DOMAIN ks /\ ks[b] = hs[b]
<1>1. /\ INIT_HEAP_SIZE \in Nat /\ HEADER \in Nat /\ HEADER > 0
      /\ \A a \in DOMAIN hs : a \in Nat /\ a < INIT_HEAP_SIZE /\ hs[a] \in Header /\ hs[a].Length \in Nat
      /\ \A a \in DOMAIN ks : a \in Nat /\ a < INIT_HEAP_SIZE /\ ks[a] \in Header /\ ks[a].Length \in Nat
  BY SizesAssumption DEF WellFormed, Header
<1>2. b \in DOMAIN ks
  <2>1. CASE b = 0
    BY <2>1 DEF WellFormed
  <2>2. CASE b # 0
    <3>1. b - 1 \in 0 .. (INIT_HEAP_SIZE - 1)
      BY <1>1, <2>2
    <3>2. PICK a \in DOMAIN hs : a <= b - 1 /\ b - 1 < a + HEADER + hs[a].Length
      BY <3>1 DEF WellFormed
    <3>3. a < b
      BY <1>1, <3>2
    <3>4. a + HEADER + hs[a].Length <= b
      BY <3>3 DEF WellFormed
    <3>5. a + HEADER + hs[a].Length = b
      BY <1>1, <3>2, <3>4
    <3>6. a \in DOMAIN ks /\ ks[a] = hs[a]
      BY <3>5 DEF NoFreePair, UsedIn
    <3>7. b \in DOMAIN ks \cup {INIT_HEAP_SIZE}
      BY <3>5, <3>6 DEF WellFormed
    <3> QED  BY <1>1, <3>7
  <2> QED  BY <2>1, <2>2
<1>3. ~ks[b].Used
  BY <1>2 DEF UsedIn
<1>4. PICK e \in Nat, f \in Nat : e = b + HEADER + hs[b].Length /\ f = b + HEADER + ks[b].Length
  BY <1>1, <1>2
<1>5. b < e /\ b < f /\ e \in DOMAIN hs \cup {INIT_HEAP_SIZE} /\ f \in DOMAIN ks \cup {INIT_HEAP_SIZE}
  BY <1>1, <1>2, <1>4 DEF WellFormed
<1>6. ~ (e < f)
  <2> SUFFICES ASSUME e < f
               PROVE  FALSE
    OBVIOUS
  <2>1. e \in DOMAIN hs
    BY <1>1, <1>4, <1>5
  <2>2. e \in DOMAIN ks
    BY <1>4, <2>1 DEF NoFreePair, UsedIn
  <2>3. f <= e
    BY <1>2, <1>4, <1>5, <2>2 DEF WellFormed
  <2> QED  BY <1>4, <2>3
<1>7. ~ (f < e)
  <2> SUFFICES ASSUME f < e
               PROVE  FALSE
    OBVIOUS
  <2>1. f \in DOMAIN ks
    BY <1>1, <1>4, <1>5
  <2>2. f \in DOMAIN hs
    BY <1>2, <1>3, <1>4, <2>1 DEF NoFreePair, UsedIn
  <2>3. e <= f
    BY <1>4, <1>5, <2>2 DEF WellFormed
  <2> QED  BY <1>4, <2>3
<1>8. hs[b].Length = ks[b].Length
  BY <1>1, <1>2, <1>4, <1>6, <1>7
<1>9. hs[b].Used = FALSE /\ ks[b].Used = FALSE
  BY <1>1, <1>2, <1>3 DEF Header
<1> QED  BY <1>1, <1>2, <1>8, <1>9 DEF Header

\* Two merged block lists with the same used blocks are the same.
LEMMA SameUsedSameList ==
  ASSUME NEW hs, NEW ks, WellFormed(hs), WellFormed(ks), NoFreePair(hs), NoFreePair(ks),
         UsedIn(hs, ks), UsedIn(ks, hs)
  PROVE  hs = ks
<1>1. ASSUME NEW b \in DOMAIN hs
      PROVE  b \in DOMAIN ks /\ ks[b] = hs[b]
  BY FreeBlocksAgree DEF UsedIn
<1>2. ASSUME NEW b \in DOMAIN ks
      PROVE  b \in DOMAIN hs
  BY FreeBlocksAgree DEF UsedIn
<1>3. hs = [b \in DOMAIN hs |-> hs[b]] /\ ks = [b \in DOMAIN ks |-> ks[b]]
  BY DEF WellFormed
<1>4. DOMAIN hs = DOMAIN ks
  BY <1>1, <1>2
<1> QED  BY <1>1, <1>3, <1>4

\* The used blocks are those of the list as it was and those of the pieces.
UsedBut(hs, ks, temps) ==
  /\ \A b \in DOMAIN ks : ks[b].Used => b \in DOMAIN hs /\ hs[b] = ks[b] /\ b + HEADER \notin temps
  /\ \A b \in DOMAIN hs : hs[b].Used /\ b + HEADER \notin temps => b \in DOMAIN ks /\ ks[b].Used

\* What has been shown are blocks of the list, in order and none left out.
InOrder(shown, ks) ==
  /\ shown \in Seq([at : Nat, block : Header])
  /\ \A i \in 1 .. Len(shown) :
       /\ shown[i].at \in DOMAIN ks /\ shown[i].block = ks[shown[i].at]
       /\ \A a \in DOMAIN ks :
            a < shown[i].at <=> \E j \in 1 .. i - 1 : shown[j].at = a

\* The blocks of the list below c are those that have been shown.
ShownBelow(shown, ks, c) ==
  \A a \in DOMAIN ks : a < c <=> \E j \in 1 .. Len(shown) : shown[j].at = a

\* The inductive invariant of the walk.
GraphIInv ==
  /\ graph = [pc |-> graph.pc, curr |-> graph.curr, temps |-> graph.temps,
              shown |-> graph.shown, layout |-> graph.layout]
  /\ graph.pc \in {"idle", "show", "string", "done", "fault"}
  /\ graph.temps \subseteq DOMAIN live
  /\ graph.pc \in {"idle", "show", "done"} => graph.temps = {}
  /\ graph.pc = "idle" => graph.shown = <<>>
  /\ graph.pc # "idle" =>
       /\ WellFormed(graph.layout) /\ NoFreePair(graph.layout)
       /\ UsedBut(headers, graph.layout, graph.temps)
       /\ InOrder(graph.shown, graph.layout)
  /\ graph.pc = "show" =>
       /\ graph.curr \in DOMAIN graph.layout
       /\ ShownBelow(graph.shown, graph.layout, graph.curr)
       /\ Len(graph.shown) < MAX_FRAGMENTATION_VIEW_BLOCKS
  /\ graph.pc = "string" =>
       /\ graph.curr \in DOMAIN graph.layout
       /\ ShownBelow(graph.shown, graph.layout, graph.curr + 1)
       /\ Len(graph.shown) <= MAX_FRAGMENTATION_VIEW_BLOCKS
  /\ graph.pc = "done" =>
       \/ Len(graph.shown) = MAX_FRAGMENTATION_VIEW_BLOCKS
       \/ ShownBelow(graph.shown, graph.layout, INIT_HEAP_SIZE)

\* Without a piece in use the list is again what it was.
LEMMA ListIsBack ==
  ASSUME IInv, NEW ks, WellFormed(ks), NoFreePair(ks), UsedBut(headers, ks, {})
  PROVE  headers = ks
<1>1. WellFormed(headers) /\ NoFreePair(headers)
  BY LayoutIsWellFormed DEF IInv, NoAdjacentFree, NoFreePair, End, get_next_heap_block
<1>2. UsedIn(headers, ks) /\ UsedIn(ks, headers)
  BY DEF UsedBut, UsedIn
<1> QED  BY <1>1, <1>2, SameUsedSameList

\* malloc takes a free block: the used ones stay and one comes in.
LEMMA MallocTakesOne ==
  ASSUME IInv, NEW size \in Sizes, MallocGrants(size)
  PROVE  \E p :
           /\ p \notin DOMAIN live /\ DOMAIN live' = DOMAIN live \cup {p}
           /\ \A a \in DOMAIN headers :
                headers[a].Used => a \in DOMAIN headers' /\ headers'[a] = headers[a] /\ a + HEADER # p
           /\ \A a \in DOMAIN headers' :
                headers'[a].Used /\ a + HEADER # p => a \in DOMAIN headers /\ headers[a].Used
<1>1. PICK b \in Fits(size) : headers' = Take(b, size) /\ live' = Granted(b + HEADER, size)
  BY DEF MallocGrants
<1>2. /\ INIT_HEAP_SIZE \in Nat /\ HEADER \in Nat /\ HEADER > 0 /\ size \in Nat
  BY SizesAssumption
<1>3. WellFormed(headers)
  BY LayoutIsWellFormed DEF IInv
<1>4. b \in DOMAIN headers /\ ~headers[b].Used /\ headers[b].Length >= size
  BY DEF Fits
<1>5. \A a \in DOMAIN headers : a \in Nat /\ headers[a] \in Header
  BY <1>2, <1>3 DEF WellFormed
<1>6. PICK p : p = b + HEADER
  OBVIOUS
<1>7. p \notin DOMAIN live
  <2>1. p - HEADER = b
    BY <1>2, <1>4, <1>5, <1>6
  <2> QED  BY <1>4, <2>1 DEF IInv, LiveIsUsed
<1>8. DOMAIN live' = DOMAIN live \cup {p}
  BY <1>1, <1>6 DEF Granted
<1>9. \A a \in DOMAIN headers : headers[a].Used => a # b /\ a + HEADER # p
  BY <1>2, <1>4, <1>5, <1>6
<1>10. CASE Splits(b, size)
  <2>1. PICK rest : rest = b + HEADER + size
    OBVIOUS
  <2>2. headers' = Split(b, size)
    BY <1>1, <1>10 DEF Take
  <2>3. /\ DOMAIN headers' = DOMAIN headers \cup {b + HEADER + size}
        /\ headers'[b + HEADER + size]
             = [Length |-> headers[b].Length - size - HEADER, Used |-> FALSE]
        /\ \A a \in DOMAIN headers : a # b => headers'[a] = headers[a]
    BY <1>2, <1>3, <1>4, <1>10, <2>2, SplitKeepsLayout
  <2> QED  BY <1>6, <1>7, <1>8, <1>9, <2>1, <2>3
<1>11. CASE ~Splits(b, size)
  <2>1. headers' = [headers EXCEPT ![b].Used = TRUE]
    BY <1>1, <1>11 DEF Take, Whole
  <2>2. DOMAIN headers' = DOMAIN headers /\ \A a \in DOMAIN headers : a # b => headers'[a] = headers[a]
    BY <2>1
  <2> QED  BY <1>6, <1>7, <1>8, <1>9, <2>2
<1> QED  BY <1>10, <1>11

\* The command enters with nothing shown and the list as it is.
LEMMA EnterKeeps ==
  ASSUME IInv, GraphIInv, print_memory_fragmentation_graph
  PROVE  GraphIInv'
<1>1. headers' = headers /\ live' = live /\ graph.pc = "idle" /\ MAX_FRAGMENTATION_VIEW_BLOCKS # 0
  BY DEF print_memory_fragmentation_graph, vars
<1>2. graph' = [pc |-> "show", curr |-> 0, temps |-> {}, shown |-> <<>>, layout |-> headers]
  BY DEF print_memory_fragmentation_graph, Idle, heapStartPtr
<1>3. WellFormed(headers) /\ NoFreePair(headers)
  BY LayoutIsWellFormed DEF IInv, NoAdjacentFree, NoFreePair, End, get_next_heap_block
<1>4. UsedBut(headers, headers, {})
  BY DEF UsedBut
<1>5. PICK sh : sh = graph'.shown
  OBVIOUS
<1>6. sh = <<>> /\ Len(sh) = 0 /\ sh \in Seq([at : Nat, block : Header])
  BY <1>2, <1>5
<1>7. InOrder(sh, headers)
  BY <1>6 DEF InOrder
<1>8. ShownBelow(sh, headers, 0)
  <2>1. \A a \in DOMAIN headers : a \in Nat
    BY <1>3, SizesAssumption DEF WellFormed
  <2> QED  BY <1>6, <2>1 DEF ShownBelow
<1>9. Len(sh) < MAX_FRAGMENTATION_VIEW_BLOCKS
  BY <1>1, <1>6, GraphAssumption
<1>10. 0 \in DOMAIN headers
  BY <1>3 DEF WellFormed
<1>11. /\ graph'.pc = "show" /\ graph'.curr = 0 /\ graph'.temps = {} /\ graph'.shown = sh
       /\ graph'.layout = headers
  BY <1>2, <1>5
<1>12. graph' = [pc |-> graph'.pc, curr |-> graph'.curr, temps |-> graph'.temps,
                 shown |-> graph'.shown, layout |-> graph'.layout]
  BY <1>2
<1> HIDE DEF print_memory_fragmentation_graph
<1> QED  BY <1>1, <1>3, <1>4, <1>7, <1>8, <1>9, <1>10, <1>11, <1>12 DEF GraphIInv

\* One more block of the list, the next one, is shown.
LEMMA ShownOneMore ==
  ASSUME NEW shown, NEW ks, WellFormed(ks), InOrder(shown, ks), NEW c \in DOMAIN ks,
         ShownBelow(shown, ks, c), NEW more,
         more = Append(shown, [at |-> c, block |-> ks[c]])
  PROVE  /\ Len(more) = Len(shown) + 1
         /\ InOrder(more, ks)
         /\ ShownBelow(more, ks, c + 1)
<1>1. \A a \in DOMAIN ks : a \in Nat /\ ks[a] \in Header
  BY SizesAssumption DEF WellFormed
<1>2. shown \in Seq([at : Nat, block : Header])
  BY DEF InOrder
<1>3. PICK n \in Nat : n = Len(shown)
  BY <1>2
<1>4. PICK e \in [at : Nat, block : Header] : e = [at |-> c, block |-> ks[c]]
  BY <1>1
<1>5. e.at = c /\ e.block = ks[c]
  BY <1>4
<1>6. more \in Seq([at : Nat, block : Header]) /\ Len(more) = n + 1
  BY <1>2, <1>3, <1>4
<1>7. (\A i \in 1 .. n : more[i] = shown[i]) /\ more[n + 1] = e
  BY <1>2, <1>3, <1>4
<1>8. \A a \in DOMAIN ks : a < c <=> \E j \in 1 .. n : more[j].at = a
  BY <1>3, <1>7 DEF ShownBelow
<1>9. ASSUME NEW i \in 1 .. (n + 1)
      PROVE  /\ more[i].at \in DOMAIN ks /\ more[i].block = ks[more[i].at]
             /\ \A a \in DOMAIN ks :
                  a < more[i].at <=> \E j \in 1 .. i - 1 : more[j].at = a
  <2>1. CASE i \in 1 .. n
    <3>1. \A j \in 1 .. i - 1 : j \in 1 .. n
      BY <1>3, <2>1
    <3>2. (\A j \in 1 .. i - 1 : more[j] = shown[j]) /\ more[i] = shown[i]
      BY <1>7, <2>1, <3>1
    <3>3. /\ shown[i].at \in DOMAIN ks /\ shown[i].block = ks[shown[i].at]
          /\ \A a \in DOMAIN ks :
               a < shown[i].at <=> \E j \in 1 .. i - 1 : shown[j].at = a
      BY <1>3, <2>1, Zenon DEF InOrder
    <3> QED  BY <3>2, <3>3
  <2>2. CASE i = n + 1
    <3>1. more[i].at = c /\ more[i].block = ks[c]
      BY <1>5, <1>7, <2>2
    <3>2. i - 1 = n
      BY <2>2
    <3> QED  BY <1>8, <3>1, <3>2
  <2>3. i \in 1 .. n \/ i = n + 1
    BY <1>3
  <2> QED  BY <2>1, <2>2, <2>3
<1>10. InOrder(more, ks)
  BY <1>6, <1>9 DEF InOrder
<1>11. ASSUME NEW a \in DOMAIN ks
       PROVE  a < c + 1 <=> \E j \in 1 .. n + 1 : more[j].at = a
  <2>1. a < c + 1 <=> (a < c \/ a = c)
    BY <1>1
  <2>2. (\E j \in 1 .. n + 1 : more[j].at = a) <=> ((\E j \in 1 .. n : more[j].at = a) \/ more[n + 1].at = a)
    <3>1. \A j : j \in 1 .. n + 1 <=> (j \in 1 .. n \/ j = n + 1)
      BY <1>3
    <3> QED  BY <3>1, Zenon
  <2> QED  BY <1>5, <1>7, <1>8, <2>1, <2>2
<1> QED  BY <1>3, <1>6, <1>10, <1>11 DEF ShownBelow

\* A block is shown: with no piece in use it is the block the list had there.
LEMMA ShowKeeps ==
  ASSUME IInv, GraphIInv, ShowBlock
  PROVE  GraphIInv'
<1>1. headers' = headers /\ live' = live /\ graph.pc = "show"
  BY DEF ShowBlock, vars
<1>2. PICK c, sh, ks : c = graph.curr /\ sh = graph.shown /\ ks = graph.layout
  OBVIOUS
<1>3. /\ WellFormed(ks) /\ NoFreePair(ks) /\ UsedBut(headers, ks, {}) /\ InOrder(sh, ks)
      /\ c \in DOMAIN ks /\ ShownBelow(sh, ks, c) /\ Len(sh) < MAX_FRAGMENTATION_VIEW_BLOCKS
      /\ graph.temps = {}
  BY <1>1, <1>2 DEF GraphIInv
<1>4. headers = ks
  BY <1>3, ListIsBack
<1>5. PICK more : more = Append(sh, [at |-> c, block |-> ks[c]])
  OBVIOUS
<1>6. graph' = [pc |-> "string", curr |-> c, temps |-> {}, shown |-> more, layout |-> ks]
  BY <1>2, <1>3, <1>4, <1>5 DEF ShowBlock, GraphIInv
<1>7. Len(more) = Len(sh) + 1 /\ InOrder(more, ks) /\ ShownBelow(more, ks, c + 1)
  BY <1>3, <1>5, ShownOneMore
<1>8. Len(more) <= MAX_FRAGMENTATION_VIEW_BLOCKS
  <2>1. Len(sh) \in Nat
    BY <1>3 DEF InOrder
  <2> QED  BY <1>3, <1>7, <2>1, GraphAssumption
<1>9. /\ graph'.pc = "string" /\ graph'.curr = c /\ graph'.temps = {} /\ graph'.shown = more
      /\ graph'.layout = ks
  BY <1>6
<1>10. graph' = [pc |-> graph'.pc, curr |-> graph'.curr, temps |-> graph'.temps,
                 shown |-> graph'.shown, layout |-> graph'.layout]
  BY <1>6
<1> QED  BY <1>1, <1>3, <1>7, <1>8, <1>9, <1>10 DEF GraphIInv

\* A piece is allocated, or malloc fails and the walk faults.
LEMMA NewPieceKeeps ==
  ASSUME IInv, GraphIInv, NEW size \in TempSizes, NewPiece(size)
  PROVE  IInv' /\ GraphIInv'
<1>0. size \in Sizes /\ graph.pc = "string"
  BY GraphAssumption DEF NewPiece
<1>1. PICK c, temps, sh, ks : c = graph.curr /\ temps = graph.temps /\ sh = graph.shown /\ ks = graph.layout
  OBVIOUS
<1>2. /\ WellFormed(ks) /\ NoFreePair(ks) /\ UsedBut(headers, ks, temps) /\ InOrder(sh, ks)
      /\ c \in DOMAIN ks /\ ShownBelow(sh, ks, c + 1) /\ Len(sh) <= MAX_FRAGMENTATION_VIEW_BLOCKS
      /\ temps \subseteq DOMAIN live
      /\ graph = [pc |-> "string", curr |-> c, temps |-> temps, shown |-> sh, layout |-> ks]
  BY <1>0, <1>1 DEF GraphIInv
<1>3. CASE MallocGrants(size) /\ graph' = [graph EXCEPT !.temps = DOMAIN live' \ (DOMAIN live \ @)]
  <2>1. IInv'
    BY <1>0, <1>3, MallocKeepsIInv
  <2>2. PICK p :
          /\ p \notin DOMAIN live /\ DOMAIN live' = DOMAIN live \cup {p}
          /\ \A a \in DOMAIN headers :
               headers[a].Used => a \in DOMAIN headers' /\ headers'[a] = headers[a] /\ a + HEADER # p
          /\ \A a \in DOMAIN headers' :
               headers'[a].Used /\ a + HEADER # p => a \in DOMAIN headers /\ headers[a].Used
    BY <1>0, <1>3, MallocTakesOne
  <2>3. DOMAIN live' \ (DOMAIN live \ temps) = temps \cup {p}
    BY <1>2, <2>2
  <2>4. graph' = [pc |-> "string", curr |-> c, temps |-> temps \cup {p}, shown |-> sh, layout |-> ks]
    BY <1>2, <1>3, <2>3
  <2>5. UsedBut(headers', ks, temps \cup {p})
    <3>1. ASSUME NEW b \in DOMAIN ks, ks[b].Used
          PROVE  b \in DOMAIN headers' /\ headers'[b] = ks[b] /\ b + HEADER \notin temps \cup {p}
      BY <1>2, <2>2, <3>1 DEF UsedBut
    <3>2. ASSUME NEW b \in DOMAIN headers', headers'[b].Used, b + HEADER \notin temps \cup {p}
          PROVE  b \in DOMAIN ks /\ ks[b].Used
      <4>1. b \in DOMAIN headers /\ headers[b].Used
        BY <2>2, <3>2
      <4> QED  BY <1>2, <3>2, <4>1 DEF UsedBut
    <3> QED  BY <3>1, <3>2 DEF UsedBut
  <2>6. /\ graph'.pc = "string" /\ graph'.curr = c /\ graph'.temps = temps \cup {p}
        /\ graph'.shown = sh /\ graph'.layout = ks
    BY <2>4
  <2>7. graph' = [pc |-> graph'.pc, curr |-> graph'.curr, temps |-> graph'.temps,
                  shown |-> graph'.shown, layout |-> graph'.layout]
    BY <2>4
  <2>8. temps \cup {p} \subseteq DOMAIN live'
    BY <1>2, <2>2
  <2> QED  BY <1>2, <2>1, <2>5, <2>6, <2>7, <2>8 DEF GraphIInv
<1>4. CASE MallocFails(size) /\ graph' = [graph EXCEPT !.pc = "fault"]
  <2>1. headers' = headers /\ live' = live
    BY <1>4 DEF MallocFails, vars
  <2>2. IInv'
    BY <2>1, NextIInv DEF vars
  <2>3. graph' = [pc |-> "fault", curr |-> c, temps |-> temps, shown |-> sh, layout |-> ks]
    BY <1>2, <1>4
  <2>4. /\ graph'.pc = "fault" /\ graph'.temps = temps /\ graph'.shown = sh /\ graph'.layout = ks
    BY <2>3
  <2>5. graph' = [pc |-> graph'.pc, curr |-> graph'.curr, temps |-> graph'.temps,
                  shown |-> graph'.shown, layout |-> graph'.layout]
    BY <2>3
  <2> QED  BY <1>2, <2>1, <2>2, <2>4, <2>5 DEF GraphIInv
<1> QED  BY <1>3, <1>4 DEF NewPiece

\* A piece is returned.
LEMMA FreePieceKeeps ==
  ASSUME IInv, GraphIInv, NEW p \in graph.temps, FreePiece(p)
  PROVE  IInv' /\ GraphIInv'
<1>0. graph.pc = "string" /\ free(p) /\ p \in DOMAIN live
  BY DEF FreePiece, GraphIInv
<1>1. PICK c, temps, sh, ks : c = graph.curr /\ temps = graph.temps /\ sh = graph.shown /\ ks = graph.layout
  OBVIOUS
<1>2. /\ WellFormed(ks) /\ NoFreePair(ks) /\ UsedBut(headers, ks, temps) /\ InOrder(sh, ks)
      /\ c \in DOMAIN ks /\ ShownBelow(sh, ks, c + 1) /\ Len(sh) <= MAX_FRAGMENTATION_VIEW_BLOCKS
      /\ temps \subseteq DOMAIN live
      /\ graph = [pc |-> "string", curr |-> c, temps |-> temps, shown |-> sh, layout |-> ks]
  BY <1>0, <1>1 DEF GraphIInv
<1>3. /\ IInv'
      /\ DOMAIN live' = DOMAIN live \ {p}
      /\ \A a \in DOMAIN headers :
           headers[a].Used /\ a # p - HEADER => a \in DOMAIN headers' /\ headers'[a] = headers[a]
      /\ \A a \in DOMAIN headers' :
           headers'[a].Used => a \in DOMAIN headers /\ headers[a].Used /\ a # p - HEADER
  BY <1>0, FreeResult
<1>4. graph' = [pc |-> "string", curr |-> c, temps |-> temps \ {p}, shown |-> sh, layout |-> ks]
  BY <1>1, <1>2 DEF FreePiece
<1>5. p \in Int /\ HEADER \in Nat /\ \A b \in DOMAIN headers : b \in Int
  BY <1>0, SizesAssumption DEF IInv, TypeOK
<1>6. UsedBut(headers', ks, temps \ {p})
  <2>1. ASSUME NEW b \in DOMAIN ks, ks[b].Used
        PROVE  b \in DOMAIN headers' /\ headers'[b] = ks[b] /\ b + HEADER \notin temps \ {p}
    <3>1. b \in DOMAIN headers /\ headers[b] = ks[b] /\ b + HEADER \notin temps
      BY <1>2, <2>1 DEF UsedBut
    <3>2. b # p - HEADER
      <4>1. p \in temps
        BY <1>1
      <4> QED  BY <1>5, <3>1, <4>1
    <3> QED  BY <1>3, <2>1, <3>1, <3>2
  <2>2. ASSUME NEW b \in DOMAIN headers', headers'[b].Used, b + HEADER \notin temps \ {p}
        PROVE  b \in DOMAIN ks /\ ks[b].Used
    <3>1. b \in DOMAIN headers /\ headers[b].Used /\ b # p - HEADER
      BY <1>3, <2>2
    <3>2. b + HEADER # p
      BY <1>5, <3>1
    <3> QED  BY <1>2, <2>2, <3>1, <3>2 DEF UsedBut
  <2> QED  BY <2>1, <2>2 DEF UsedBut
<1>7. /\ graph'.pc = "string" /\ graph'.curr = c /\ graph'.temps = temps \ {p}
      /\ graph'.shown = sh /\ graph'.layout = ks
  BY <1>4
<1>8. graph' = [pc |-> graph'.pc, curr |-> graph'.curr, temps |-> graph'.temps,
                shown |-> graph'.shown, layout |-> graph'.layout]
  BY <1>4
<1>9. temps \ {p} \subseteq DOMAIN live'
  BY <1>2, <1>3
<1> QED  BY <1>2, <1>3, <1>6, <1>7, <1>8, <1>9 DEF GraphIInv

\* The blocks up to c are those before the next one.
LEMMA NextIsNext ==
  ASSUME NEW ks, WellFormed(ks), NEW c \in DOMAIN ks, NEW n, n = c + HEADER + ks[c].Length
  PROVE  /\ n \in Nat /\ n \in DOMAIN ks \cup {INIT_HEAP_SIZE}
         /\ \A a \in DOMAIN ks : a < c + 1 <=> a < n
<1>1. /\ INIT_HEAP_SIZE \in Nat /\ HEADER \in Nat /\ HEADER > 0
      /\ \A a \in DOMAIN ks : a \in Nat /\ ks[a] \in Header /\ ks[a].Length \in Nat
  BY SizesAssumption DEF WellFormed, Header
<1>2. n \in Nat /\ c < n
  BY <1>1
<1>3. n \in DOMAIN ks \cup {INIT_HEAP_SIZE}
  BY DEF WellFormed
<1>4. \A a \in DOMAIN ks : c < a => n <= a
  BY DEF WellFormed
<1> QED  BY <1>1, <1>2, <1>3, <1>4

\* On to the next block, which is the next of the list as it was.
LEMMA NextBlockKeeps ==
  ASSUME IInv, GraphIInv, NextBlock
  PROVE  GraphIInv'
<1>0. graph.pc = "string" /\ graph.temps = {} /\ headers' = headers /\ live' = live
  BY DEF NextBlock, vars
<1>1. PICK c, sh, ks : c = graph.curr /\ sh = graph.shown /\ ks = graph.layout
  OBVIOUS
<1>2. /\ WellFormed(ks) /\ NoFreePair(ks) /\ UsedBut(headers, ks, {}) /\ InOrder(sh, ks)
      /\ c \in DOMAIN ks /\ ShownBelow(sh, ks, c + 1) /\ Len(sh) <= MAX_FRAGMENTATION_VIEW_BLOCKS
      /\ graph = [pc |-> "string", curr |-> c, temps |-> {}, shown |-> sh, layout |-> ks]
  BY <1>0, <1>1 DEF GraphIInv
<1>3. headers = ks
  BY <1>2, ListIsBack
<1>4. PICK n : n = c + HEADER + ks[c].Length
  OBVIOUS
<1>5. /\ n \in Nat /\ n \in DOMAIN ks \cup {INIT_HEAP_SIZE}
      /\ \A a \in DOMAIN ks : a < c + 1 <=> a < n
  BY <1>2, <1>4, NextIsNext
<1>6. ShownBelow(sh, ks, n)
  BY <1>2, <1>5 DEF ShownBelow
<1>7. INIT_HEAP_SIZE \in Nat /\ (\A a \in DOMAIN ks : a \in Nat /\ a < INIT_HEAP_SIZE)
  BY <1>2, SizesAssumption DEF WellFormed
<1>8. Len(sh) \in Nat /\ MAX_FRAGMENTATION_VIEW_BLOCKS \in Nat
  BY <1>2, GraphAssumption DEF InOrder
<1>9. graph' = IF Len(sh) >= MAX_FRAGMENTATION_VIEW_BLOCKS \/ n >= INIT_HEAP_SIZE
               THEN [graph EXCEPT !.pc = "done"]
               ELSE [graph EXCEPT !.pc = "show", !.curr = n]
  BY <1>1, <1>3, <1>4 DEF NextBlock, get_next_heap_block, heapEndPtr
<1>10. CASE Len(sh) >= MAX_FRAGMENTATION_VIEW_BLOCKS \/ n >= INIT_HEAP_SIZE
  <2>1. graph' = [pc |-> "done", curr |-> c, temps |-> {}, shown |-> sh, layout |-> ks]
    BY <1>2, <1>9, <1>10
  <2>2. Len(sh) = MAX_FRAGMENTATION_VIEW_BLOCKS \/ n = INIT_HEAP_SIZE
    BY <1>2, <1>5, <1>7, <1>8, <1>10
  <2>3. Len(sh) = MAX_FRAGMENTATION_VIEW_BLOCKS \/ ShownBelow(sh, ks, INIT_HEAP_SIZE)
    BY <1>6, <2>2
  <2>4. /\ graph'.pc = "done" /\ graph'.temps = {} /\ graph'.shown = sh /\ graph'.layout = ks
    BY <2>1
  <2>5. graph' = [pc |-> graph'.pc, curr |-> graph'.curr, temps |-> graph'.temps,
                  shown |-> graph'.shown, layout |-> graph'.layout]
    BY <2>1
  <2> QED  BY <1>0, <1>2, <2>3, <2>4, <2>5 DEF GraphIInv
<1>11. CASE ~(Len(sh) >= MAX_FRAGMENTATION_VIEW_BLOCKS \/ n >= INIT_HEAP_SIZE)
  <2>1. graph' = [pc |-> "show", curr |-> n, temps |-> {}, shown |-> sh, layout |-> ks]
    BY <1>2, <1>9, <1>11
  <2>2. Len(sh) < MAX_FRAGMENTATION_VIEW_BLOCKS /\ n \in DOMAIN ks
    BY <1>5, <1>7, <1>8, <1>11
  <2>4. /\ graph'.pc = "show" /\ graph'.curr = n /\ graph'.temps = {} /\ graph'.shown = sh
        /\ graph'.layout = ks
    BY <2>1
  <2>5. graph' = [pc |-> graph'.pc, curr |-> graph'.curr, temps |-> graph'.temps,
                  shown |-> graph'.shown, layout |-> graph'.layout]
    BY <2>1
  <2> QED  BY <1>0, <1>2, <1>6, <2>2, <2>4, <2>5 DEF GraphIInv
<1> QED  BY <1>10, <1>11

\* Outside the command there is nothing to keep but the pieces being none.
LEMMA IdleKeeps ==
  ASSUME graph' = Idle
  PROVE  GraphIInv'
<1>1. graph' = [pc |-> "idle", curr |-> 0, temps |-> {}, shown |-> <<>>, layout |-> <<>>]
  BY DEF Idle, heapStartPtr
<1>2. graph'.pc = "idle" /\ graph'.temps = {} /\ graph'.shown = <<>>
  BY <1>1
<1>3. graph' = [pc |-> graph'.pc, curr |-> graph'.curr, temps |-> graph'.temps,
                shown |-> graph'.shown, layout |-> graph'.layout]
  BY <1>1
<1> QED  BY <1>2, <1>3 DEF GraphIInv

\* Every step of the heap, of the walk or of both preserves both invariants.
LEMMA GraphNextIInv == IInv /\ GraphIInv /\ [GraphNext]_allVars => IInv' /\ GraphIInv'
<1> SUFFICES ASSUME IInv, GraphIInv, [GraphNext]_allVars
             PROVE  IInv' /\ GraphIInv'
  OBVIOUS
<1>0. ASSUME UNCHANGED vars PROVE IInv'
  BY <1>0, NextIInv
<1>1. CASE Caller
  <2>1. IInv' /\ graph' = graph /\ graph.pc = "idle"
    BY <1>1, NextIInv DEF Caller
  <2> QED  BY <2>1 DEF GraphIInv
<1>2. CASE print_memory_fragmentation_graph
  BY <1>0, <1>2, EnterKeeps DEF print_memory_fragmentation_graph
<1>3. CASE ShowBlock
  BY <1>0, <1>3, ShowKeeps DEF ShowBlock
<1>4. CASE NextBlock
  BY <1>0, <1>4, NextBlockKeeps DEF NextBlock
<1>5. CASE GraphReturn
  BY <1>0, <1>5, IdleKeeps DEF GraphReturn
<1>6. ASSUME NEW size \in TempSizes, NewPiece(size) PROVE IInv' /\ GraphIInv'
  BY <1>6, NewPieceKeeps
<1>7. ASSUME NEW p \in graph.temps, FreePiece(p) PROVE IInv' /\ GraphIInv'
  BY <1>7, FreePieceKeeps
<1>8. CASE UNCHANGED allVars
  <2>1. UNCHANGED vars /\ headers' = headers /\ live' = live /\ graph' = graph
    BY <1>8 DEF allVars, vars
  <2>2. GraphIInv'
    BY <2>1 DEF GraphIInv
  <2> QED  BY <1>0, <2>1, <2>2
<1> QED  BY <1>1, <1>2, <1>3, <1>4, <1>5, <1>6, <1>7, <1>8 DEF GraphNext

\* The invariants say what GraphShowsHeap says.
LEMMA GraphIInvShows == IInv /\ GraphIInv => GraphShowsHeap
<1> SUFFICES ASSUME IInv, GraphIInv PROVE GraphShowsHeap
  OBVIOUS
<1>1. ASSUME NEW i \in DOMAIN graph.shown
      PROVE  /\ graph.shown[i].at \in DOMAIN graph.layout
             /\ graph.shown[i].block = graph.layout[graph.shown[i].at]
             /\ \A a \in DOMAIN graph.layout :
                  a < graph.shown[i].at <=> \E j \in 1 .. i - 1 : graph.shown[j].at = a
  <2>1. graph.pc # "idle"
    BY <1>1 DEF GraphIInv
  <2>2. InOrder(graph.shown, graph.layout)
    BY <2>1 DEF GraphIInv
  <2>3. DOMAIN graph.shown = 1 .. Len(graph.shown)
    BY <2>2 DEF InOrder
  <2> QED  BY <1>1, <2>2, <2>3 DEF InOrder
<1>2. graph.pc = "show" => graph.curr \in DOMAIN headers
  BY ListIsBack DEF GraphIInv
<1>3. ASSUME graph.pc = "done", Len(graph.shown) # MAX_FRAGMENTATION_VIEW_BLOCKS
      PROVE  \A a \in DOMAIN graph.layout : \E i \in DOMAIN graph.shown : graph.shown[i].at = a
  <2>1. /\ ShownBelow(graph.shown, graph.layout, INIT_HEAP_SIZE)
        /\ InOrder(graph.shown, graph.layout) /\ WellFormed(graph.layout)
    BY <1>3 DEF GraphIInv
  <2>2. \A a \in DOMAIN graph.layout : a < INIT_HEAP_SIZE
    BY <2>1, SizesAssumption DEF WellFormed
  <2>3. DOMAIN graph.shown = 1 .. Len(graph.shown)
    BY <2>1 DEF InOrder
  <2> QED  BY <2>1, <2>2, <2>3 DEF ShownBelow
<1> QED  BY <1>1, <1>2, <1>3 DEF GraphShowsHeap

\* print_memory_fragmentation_graph shows the heap as it was when the command was
\* entered, for every arena, every size of the pieces and every number of blocks shown:
\* the Strings it makes on the way leave the list as they found it.
THEOREM GraphIsTheHeap == GraphSpec => []GraphShowsHeap
<1>1. GraphInit => IInv /\ GraphIInv
  <2> SUFFICES ASSUME GraphInit PROVE IInv /\ GraphIInv
    OBVIOUS
  <2>1. IInv
    BY InitIInv DEF GraphInit
  <2>2. graph = [pc |-> "idle", curr |-> 0, temps |-> {}, shown |-> <<>>, layout |-> <<>>]
    BY DEF GraphInit, Idle, heapStartPtr
  <2>3. /\ graph.pc = "idle" /\ graph.temps = {} /\ graph.shown = <<>>
        /\ graph = [pc |-> graph.pc, curr |-> graph.curr, temps |-> graph.temps,
                    shown |-> graph.shown, layout |-> graph.layout]
    BY <2>2
  <2> QED  BY <2>1, <2>3 DEF GraphIInv
<1> QED  BY <1>1, GraphNextIInv, GraphIInvShows, PTL DEF GraphSpec
=============================================================================
