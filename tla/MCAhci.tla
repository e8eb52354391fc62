------------------------------- MODULE MCAhci -------------------------------
(* One port, poll loops of two rounds, pages for three commands and a bit.   *)
EXTENDS Ahci
=============================================================================
