------------------------------ MODULE MCMemory ------------------------------
(* Machines of a dozen pages: one with a hole, one whose first region is too *)
(* small for the bitmap, one with no region for it, one whose free pages are *)
(* all apart, so that the vmm bitmap finds no place.  The device registers   *)
(* are in a hole of every map, below its last page.                          *)
EXTENDS Memory

Region(b, l, u) == [base |-> b, length |-> l, usable |-> u]

Holed == <<Region(0, 1, FALSE), Region(1, 4, TRUE), Region(5, 2, FALSE), Region(7, 6, TRUE)>>
SmallFirst == <<Region(1, 1, TRUE), Region(7, 7, TRUE)>>
Scattered == <<Region(1, 1, TRUE), Region(15, 1, TRUE)>>
Singles == <<Region(1, 2, TRUE), Region(9, 1, TRUE), Region(11, 1, TRUE), Region(13, 1, TRUE)>>

MCMemoryMaps == {Holed, SmallFirst, Scattered, Singles}
=============================================================================
