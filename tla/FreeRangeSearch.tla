-------------------------- MODULE FreeRangeSearch ---------------------------
(***************************************************************************)
(* The loop of Bitmap::find_free_range, one iteration per step, on a       *)
(* bitmap that does not change while it runs (interrupts are off).         *)
(***************************************************************************)
EXTENDS Bitmap

CONSTANTS
  Count,      \* bits of the bitmap
  MaxRange    \* largest range asked for

ASSUME CountAssumption == Count \in Nat /\ MaxRange \in Nat

VARIABLES
  used,                \* the bits that are one
  range,               \* the argument
  i,                   \* loop variable
  foundFreeCounter,
  firstFreeOfSeries,
  result               \* "scanning", then "found" (success = true) or "failed"

searchVars == <<used, range, i, foundFreeCounter, firstFreeOfSeries, result>>

SearchInit ==
  /\ used \in SUBSET (0 .. (Count - 1))
  /\ range \in 0 .. MaxRange
  /\ i = 0
  /\ foundFreeCounter = 0
  /\ firstFreeOfSeries = 0
  /\ result = "scanning"

\* Mutant: the counter is not reset at a used bit.
SkipUsedKeepsCounter ==
  /\ result = "scanning" /\ i < Count /\ i \in used
  /\ i' = i + 1
  /\ UNCHANGED <<used, range, foundFreeCounter, firstFreeOfSeries, result>>

\* Bit i is one: the series ends.
SkipUsed ==
  /\ result = "scanning" /\ i < Count /\ i \in used
  /\ foundFreeCounter' = 0
  /\ i' = i + 1
  /\ UNCHANGED <<used, range, firstFreeOfSeries, result>>

\* Mutant: the series is complete one bit too late.
CountFreeLate ==
  /\ result = "scanning" /\ i < Count /\ i \notin used
  /\ firstFreeOfSeries' = IF foundFreeCounter = 0 THEN i ELSE firstFreeOfSeries
  /\ foundFreeCounter' = foundFreeCounter + 1
  /\ result' = IF foundFreeCounter = range THEN "found" ELSE "scanning"
  /\ i' = IF result' = "found" THEN i ELSE i + 1
  /\ UNCHANGED <<used, range>>

\* Bit i is zero: it starts or extends the series, and may complete it.
CountFree ==
  /\ result = "scanning" /\ i < Count /\ i \notin used
  /\ firstFreeOfSeries' = IF foundFreeCounter = 0 THEN i ELSE firstFreeOfSeries
  /\ foundFreeCounter' = foundFreeCounter + 1
  /\ result' = IF foundFreeCounter' = range THEN "found" ELSE "scanning"
  /\ i' = IF result' = "found" THEN i ELSE i + 1
  /\ UNCHANGED <<used, range>>

\* The loop runs out: success stays false.
RunOut ==
  /\ result = "scanning" /\ i >= Count
  /\ result' = "failed"
  /\ UNCHANGED <<used, range, i, foundFreeCounter, firstFreeOfSeries>>

SearchNext == SkipUsed \/ CountFree \/ RunOut

SearchSpec == SearchInit /\ [][SearchNext]_searchVars
-----------------------------------------------------------------------------
\* Type invariant.
SearchTypeOK ==
  /\ used \in SUBSET (0 .. (Count - 1))
  /\ range \in Nat
  /\ i \in 0 .. Count
  /\ foundFreeCounter \in Nat
  /\ firstFreeOfSeries \in Nat
  /\ result \in {"scanning", "found", "failed"}

\* The loop invariant: while scanning, the counted series is the free run that ends
\* just before i and cannot be extended to the left; it is shorter than range, and
\* so is every run that ends before i.
SeriesInvariant ==
  result = "scanning" =>
    /\ foundFreeCounter <= i
    /\ foundFreeCounter > 0 => firstFreeOfSeries = i - foundFreeCounter
    /\ \A k \in (i - foundFreeCounter) .. (i - 1) : k \notin used
    /\ foundFreeCounter < i => (i - foundFreeCounter - 1) \in used
    /\ range > 0 => foundFreeCounter < range
    /\ \A s \in FreeRuns(used, Count, range) : s + range > i

\* A found range is free, inside the bitmap, and the lowest such range: what
\* pmm_malloc and vmm_malloc_pages take without looking again.
FoundIsLowest ==
  result = "found" => find_free_range(used, Count, range) = {firstFreeOfSeries}

\* success stays false only when there is no such range; a range of 0 always fails.
FailedMeansNone ==
  result = "failed" => FreeRuns(used, Count, range) = {}
=============================================================================
