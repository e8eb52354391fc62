------------------------------ MODULE MCScreen ------------------------------
EXTENDS Screen, TLC

\* What is written only matters where it is compared.
Symmetry == Permutations(Chars)
=============================================================================
