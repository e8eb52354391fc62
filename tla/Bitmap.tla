------------------------------- MODULE Bitmap -------------------------------
(***************************************************************************)
(* The Bitmap of kernel/helper/bitmap: count bits, of which used is the    *)
(* set of those that are one.  find_free_range is given here by what it    *)
(* answers; FreeRangeSearch models its loop and shows it gives that answer.*)
(***************************************************************************)
EXTENDS Integers

\* Bits s .. s+n-1 exist and are all zero.
IsFreeRun(used, count, s, n) ==
  /\ s + n <= count
  /\ \A k \in s .. (s + n - 1) : k \notin used

\* Where a run of n zero bits starts.  A range of 0 is never found: the loop tests
\* its counter only after counting a bit.
FreeRuns(used, count, n) ==
  {s \in 0 .. (count - 1) : n > 0 /\ IsFreeRun(used, count, s, n)}

\* The answer of find_free_range: at most one element, empty when success is false.
find_free_range(used, count, n) ==
  LET runs == FreeRuns(used, count, n)
  IN  {s \in runs : \A t \in runs : s <= t}

\* Mutant: the last bit is not written.
write_bits_short(used, n, s, state) ==
  IF state THEN used \cup s .. (s + n - 2) ELSE used \ (s .. (s + n - 2))

write_bits_in_range_from(used, n, s, state) ==
  IF state THEN used \cup s .. (s + n - 1) ELSE used \ (s .. (s + n - 1))

clear == {}
=============================================================================
