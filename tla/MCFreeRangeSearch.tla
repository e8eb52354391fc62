------------------------- MODULE MCFreeRangeSearch --------------------------
(* Every bitmap of Count bits and every range up to one more than its length. *)
EXTENDS FreeRangeSearch
=============================================================================
