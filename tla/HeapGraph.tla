----------------------------- MODULE HeapGraph -----------------------------
(***************************************************************************)
(* The heap with the one client that walks its block list from outside:    *)
(* print_memory_fragmentation_graph of memory_info.cpp.  To show a block   *)
(* it makes a String, whose parts are allocated from and returned to the   *)
(* very heap it is walking, so the list changes under the walk.  The       *)
(* command runs in the keyboard's interrupt gate: no other caller gets in  *)
(* between.                                                                *)
(***************************************************************************)
EXTENDS Heap, Sequences

CONSTANTS
  MAX_FRAGMENTATION_VIEW_BLOCKS,   \* blocks shown at most (config.h)
  TempSizes,                       \* sizes of the pieces a String is made of
  MAX_TEMPS                        \* bound: pieces at one time

ASSUME GraphAssumption ==
  /\ MAX_FRAGMENTATION_VIEW_BLOCKS \in Nat
  /\ TempSizes \subseteq Sizes
  /\ MAX_TEMPS \in Nat

VARIABLE graph   \* the walk: pc, currBlockPtr, the pieces in use, what has been shown

allVars == <<headers, live, graph>>

\* shown is the blocks shown so far and where they were.  layout is a ghost: the list
\* as it was when the command was entered.
Idle == [pc |-> "idle", curr |-> heapStartPtr, temps |-> {}, shown |-> <<>>, layout |-> <<>>]

GraphInit == Init /\ graph = Idle

\* Any other caller of the heap.
Caller == graph.pc = "idle" /\ Next /\ UNCHANGED graph

print_memory_fragmentation_graph ==
  /\ graph.pc = "idle" /\ MAX_FRAGMENTATION_VIEW_BLOCKS # 0
  /\ graph' = [Idle EXCEPT !.pc = "show", !.layout = headers]
  /\ UNCHANGED vars

\* Used and Length are read before the first piece is allocated.
ShowBlock ==
  /\ graph.pc = "show" /\ graph.curr \in DOMAIN headers
  /\ graph' = [graph EXCEPT !.pc = "string",
                             !.shown = Append(@, [at |-> graph.curr, block |-> headers[graph.curr]])]
  /\ UNCHANGED vars

\* A piece is allocated; malloc_str clears what malloc returned, nullptr or not.
NewPiece(size) ==
  /\ graph.pc = "string" /\ Cardinality(graph.temps) < MAX_TEMPS
  /\ \/ /\ MallocGrants(size)
        /\ graph' = [graph EXCEPT !.temps = DOMAIN live' \ (DOMAIN live \ @)]
     \/ /\ MallocFails(size)
        /\ graph' = [graph EXCEPT !.pc = "fault"]

FreePiece(p) ==
  /\ graph.pc = "string"
  /\ free(p)
  /\ graph' = [graph EXCEPT !.temps = @ \ {p}]

\* The String is gone; on to the next block.
NextBlock ==
  /\ graph.pc = "string" /\ graph.temps = {}
  /\ LET next == get_next_heap_block(headers, graph.curr)
     IN  graph' = IF \/ Len(graph.shown) >= MAX_FRAGMENTATION_VIEW_BLOCKS
                     \/ next >= heapEndPtr
                  THEN [graph EXCEPT !.pc = "done"]
                  ELSE [graph EXCEPT !.pc = "show", !.curr = next]
  /\ UNCHANGED vars

GraphReturn ==
  /\ graph.pc = "done"
  /\ graph' = Idle
  /\ UNCHANGED vars

GraphNext ==
  \/ Caller
  \/ print_memory_fragmentation_graph \/ ShowBlock \/ NextBlock \/ GraphReturn
  \/ \E size \in TempSizes : NewPiece(size)
  \/ \E p \in graph.temps : FreePiece(p)

GraphSpec == GraphInit /\ [][GraphNext]_allVars
-----------------------------------------------------------------------------
\* The graph shows the blocks as they were when the command was entered, each once, in
\* order and none left out, although every String it makes splits and merges blocks under
\* the walk; and it never leaves the list.
GraphShowsHeap ==
  /\ \A i \in DOMAIN graph.shown :
       LET b == graph.shown[i].at
       IN  /\ b \in DOMAIN graph.layout /\ graph.shown[i].block = graph.layout[b]
           /\ \A a \in DOMAIN graph.layout : a < b <=> \E j \in 1 .. i - 1 : graph.shown[j].at = a
  /\ graph.pc = "show" => graph.curr \in DOMAIN headers
  /\ graph.pc = "done" =>
       \/ Len(graph.shown) = MAX_FRAGMENTATION_VIEW_BLOCKS
       \/ \A a \in DOMAIN graph.layout : \E i \in DOMAIN graph.shown : graph.shown[i].at = a
=============================================================================
