------------------------------- MODULE MCHeap -------------------------------
(* A heap of a few bytes, with a header of two: small enough for every order *)
(* of mallocs and frees, large enough for refused splits and failed mallocs. *)
EXTENDS HeapGraph

MCSizes == {0, 1, 2, 3, 5}
MCTempSizes == {1, 3}
=============================================================================
