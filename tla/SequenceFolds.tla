--------------------------- MODULE SequenceFolds ----------------------------
(***************************************************************************)
(* What folding an operator over a sequence yields (FoldLeft), for any     *)
(* operator and any first value, and what joining sequences does           *)
(* (FlattenSeq).                                                           *)
(*                                                                         *)
(* The prover cannot instantiate a theorem that takes an operator.  So     *)
(* the operator is a constant here, and a module that needs these facts    *)
(* about one of its own instantiates this module with it.                  *)
(***************************************************************************)
EXTENDS Integers, SequencesExt, SequenceTheorems, FiniteSetTheorems, WellFoundedInduction, TLAPS

CONSTANT
  step(_, _)     \* (value so far, element) -> next value

\* Induction up to n: there is no least number outside of T.
LEMMA UpTo ==
  ASSUME NEW n \in Nat, NEW T, 0 \in T, \A i \in 0 .. n - 1 : i \in T => i + 1 \in T
  PROVE  \A i \in 0 .. n : i \in T
<1> DEFINE Less == {ss \in Nat \X Nat : ss[1] < ss[2]}
           Missing == {i \in 0 .. n : i \notin T}
<1>1. IsWellFoundedOn(Less, Nat)
  BY NatLessThanWellFounded DEF OpToRel
<1> SUFFICES ASSUME Missing # {} PROVE FALSE
  OBVIOUS
<1>2. Missing \subseteq Nat
  OBVIOUS
<1>3. PICK m \in Missing : \A y \in Missing : <<y, m>> \notin Less
  <2> HIDE DEF Less, Missing
  <2> QED  BY <1>1, <1>2, WFMin
<1>4. m \in Nat /\ m # 0
  OBVIOUS
<1>5. PICK l \in Nat : m = l + 1
  <2>1. m - 1 \in Nat /\ m = (m - 1) + 1
    BY <1>4
  <2> QED  BY <2>1
<1>6. <<l, m>> \in Less
  BY <1>4, <1>5
<1>7. l \in 0 .. n - 1 /\ l \in T
  BY <1>3, <1>5, <1>6
<1> QED  BY <1>5, <1>7

\* The greatest element of a set that has one.
LEMMA MaxIs ==
  ASSUME NEW S, NEW m \in S, m \in Int, \A x \in S : x \in Int /\ x <= m
  PROVE  Max(S) = m
<1>1. \E x \in S : \A y \in S : x >= y
  BY DEF Max
<1> DEFINE g == CHOOSE x \in S : \A y \in S : x >= y
<1>2. g \in S /\ \A y \in S : g >= y
  BY <1>1
<1>3. g = m
  <2> HIDE DEF g
  <2> QED  BY <1>2
<1> QED  BY <1>3 DEF Max

\* Every set of rounds but the empty one has a last round.
LEMMA SomeMax ==
  ASSUME NEW n \in Nat, NEW s \in SUBSET (1 .. n), s # {}
  PROVE  /\ Max(s) \in 1 .. n /\ s \ {Max(s)} \in SUBSET (1 .. n)
         /\ Max(s) \in s /\ \A x \in s : x <= Max(s)
<1> DEFINE Above == {k \in 0 .. n : \E m \in s : n - m = k}
           Less == {ss \in Nat \X Nat : ss[1] < ss[2]}
<1>1. IsWellFoundedOn(Less, Nat)
  BY NatLessThanWellFounded DEF OpToRel
<1>2. Above \subseteq Nat /\ Above # {}
  <2>1. PICK m \in s : TRUE
    OBVIOUS
  <2>2. m \in 1 .. n
    OBVIOUS
  <2>3. n - m \in Above
    BY <2>2
  <2>4. Above \subseteq Nat
    OBVIOUS
  <2> HIDE DEF Above
  <2> QED  BY <2>3, <2>4
<1>3. PICK k \in Above : \A y \in Above : <<y, k>> \notin Less
  <2> HIDE DEF Above, Less
  <2> QED  BY <1>1, <1>2, WFMin
<1>4. PICK m \in s : n - m = k
  OBVIOUS
<1>5. ASSUME NEW x \in s PROVE x \in Int /\ x <= m
  <2>1. x \in 1 .. n /\ m \in 1 .. n
    OBVIOUS
  <2>2. n - x \in Above
    BY <2>1
  <2>3. ~(n - x < k)
    BY <1>2, <1>3, <2>2
  <2> QED  BY <1>4, <2>1, <2>3
<1>6. m \in Int /\ m \in 1 .. n
  OBVIOUS
<1>7. Max(s) = m
  BY <1>5, <1>6, MaxIs
<1> QED  BY <1>5, <1>6, <1>7

\* And a first.
LEMMA SomeMin ==
  ASSUME NEW n \in Nat, NEW s \in SUBSET (1 .. n), s # {}
  PROVE  Min(s) \in s /\ \A x \in s : Min(s) <= x
<1> DEFINE Less == {ss \in Nat \X Nat : ss[1] < ss[2]}
<1>1. IsWellFoundedOn(Less, Nat)
  BY NatLessThanWellFounded DEF OpToRel
<1>2. s \subseteq Nat
  OBVIOUS
<1>3. PICK m \in s : \A y \in s : <<y, m>> \notin Less
  <2> HIDE DEF Less
  <2> QED  BY <1>1, <1>2, WFMin
<1>4. ASSUME NEW y \in s PROVE m <= y
  <2>1. y \in Nat /\ m \in Nat /\ ~(y < m)
    BY <1>2, <1>3
  <2> QED  BY <2>1
<1> DEFINE g == CHOOSE x \in s : \A y \in s : x <= y
<1>5. g \in s /\ \A y \in s : g <= y
  BY <1>4
<1> QED  BY <1>5 DEF Min

\* A function as in Folds goes through the elements in order.
LEMMA FoldRuns ==
  ASSUME NEW n \in Nat, NEW i \in 1 .. n
  PROVE  /\ Max(1 .. i) = i /\ (1 .. i) \ {i} = 1 .. i - 1 /\ 1 .. i # {}
         /\ 1 .. i \in SUBSET (1 .. n)
<1>1. Max(1 .. i) = i
  <2>1. i \in 1 .. i /\ i \in Int /\ \A x \in 1 .. i : x \in Int /\ x <= i
    OBVIOUS
  <2> QED  BY <2>1, MaxIs
<1>2. \A x : x \in 1 .. i /\ x # i <=> x \in 1 .. i - 1
  OBVIOUS
<1>3. (1 .. i) \ {i} = 1 .. i - 1
  BY <1>2
<1> QED  BY <1>1, <1>3

-----------------------------------------------------------------------------
(* Folds                                                                      *)

\* What the recursive function in MapThenFoldSet is asked for, for the first n elements.
Folds(h, base, seq, n) ==
  h = [s \in SUBSET (1 .. n) |->
         IF s = {} THEN base ELSE step(h[s \ {Max(s)}], seq[Max(s)])]

\* It exists.
LEMMA FoldExists ==
  ASSUME NEW base, NEW seq, NEW n \in Nat
  PROVE  \E h : Folds(h, base, seq, n)
<1> DEFINE T == {k \in 0 .. n : \E h : Folds(h, base, seq, k)}
<1>1. 0 \in T
  <2>1. SUBSET (1 .. 0) = {{}} /\ 0 \in 0 .. n
    OBVIOUS
  <2>2. PICK h : h = [s \in SUBSET (1 .. 0) |-> base]
    OBVIOUS
  <2>3. h = [s \in SUBSET (1 .. 0) |->
               IF s = {} THEN base ELSE step(h[s \ {Max(s)}], seq[Max(s)])]
    BY <2>1, <2>2
  <2>4. Folds(h, base, seq, 0)
    BY <2>3 DEF Folds
  <2> QED  BY <2>1, <2>4
<1>2. ASSUME NEW k \in 0 .. n - 1, k \in T
      PROVE  k + 1 \in T
  <2>1. PICK h : Folds(h, base, seq, k)
    BY <1>2
  <2>2. PICK m \in Nat : m = k + 1 /\ m \in 0 .. n
    OBVIOUS
  <2>3. ASSUME NEW s \in SUBSET (1 .. m)
        PROVE  /\ m \in s => s \ {m} \in SUBSET (1 .. k) /\ Max(s) = m
               /\ m \notin s => s \in SUBSET (1 .. k)
    <3>1. \A x \in 1 .. m : x \in Int /\ x <= m /\ (x # m => x \in 1 .. k)
      BY <2>2
    <3>2. m \in s => Max(s) = m
      BY <3>1, MaxIs
    <3> QED  BY <3>1, <3>2
  <2> DEFINE f == [s \in SUBSET (1 .. m) |->
                     IF m \in s THEN step(h[s \ {m}], seq[m]) ELSE h[s]]
  <2>4. ASSUME NEW s \in SUBSET (1 .. m)
        PROVE  f[s] = IF s = {} THEN base ELSE step(f[s \ {Max(s)}], seq[Max(s)])
    <3>1. \A t \in SUBSET (1 .. k) : t \in SUBSET (1 .. m) /\ m \notin t /\ f[t] = h[t]
      <4>1. \A x \in 1 .. k : x \in 1 .. m /\ x # m
        BY <2>2
      <4> QED  BY <4>1
    <3>2. CASE m \in s
      <4>1. f[s] = step(h[s \ {m}], seq[m])
        BY <3>2
      <4>2. f[s \ {m}] = h[s \ {m}] /\ Max(s) = m
        BY <2>3, <3>1, <3>2
      <4> HIDE DEF f
      <4> QED  BY <3>2, <4>1, <4>2
    <3>3. CASE m \notin s
      <4>1. s \in SUBSET (1 .. k) /\ f[s] = h[s]
        BY <2>3, <3>1, <3>3
      <4>2. h[s] = IF s = {} THEN base ELSE step(h[s \ {Max(s)}], seq[Max(s)])
        BY <2>1, <4>1 DEF Folds
      <4>3. s \ {Max(s)} \in SUBSET (1 .. k)
        BY <4>1
      <4>4. f[s \ {Max(s)}] = h[s \ {Max(s)}]
        BY <3>1, <4>3
      <4> HIDE DEF f
      <4> QED  BY <4>1, <4>2, <4>4
    <3> QED  BY <3>2, <3>3
  <2>5. Folds(f, base, seq, m)
    <3>1. f = [s \in SUBSET (1 .. m) |-> f[s]]
      OBVIOUS
    <3> HIDE DEF f
    <3> QED  BY <2>4, <3>1 DEF Folds
  <2> HIDE DEF f
  <2>6. m \in T
    BY <2>2, <2>5
  <2> QED  BY <2>2, <2>6
<1> HIDE DEF T
<1>3. \A i \in 0 .. n : i \in T
  BY <1>1, <1>2, UpTo
<1>4. n \in T
  BY <1>3
<1> QED  BY <1>4 DEF T

\* g is what there is after 0, 1, ... elements.
Runs(g, base, seq) ==
  /\ g = [i \in 0 .. Len(seq) |-> g[i]]
  /\ g[0] = base
  /\ \A i \in 1 .. Len(seq) : g[i] = step(g[i - 1], seq[i])

\* A fold is the last value of a run.
LEMMA FoldIs ==
  ASSUME NEW base, NEW X, NEW seq \in Seq(X)
  PROVE  \E g : Runs(g, base, seq) /\ FoldLeft(step, base, seq) = g[Len(seq)]
<1>1. PICK n \in Nat : n = Len(seq) /\ DOMAIN seq = 1 .. n
  OBVIOUS
<1>2. PICK h : Folds(h, base, seq, n)
  BY FoldExists
<1> DEFINE Is(f) == f = [s \in SUBSET (1 .. n) |->
                            IF s = {} THEN base ELSE step(f[s \ {Max(s)}], seq[Max(s)])]
           H == CHOOSE f : Is(f)
<1>3. FoldLeft(step, base, seq) = H[1 .. n]
  BY <1>1 DEF FoldLeft, MapThenFoldSet
<1>4. Is(H)
  <2>1. Is(h)
    BY <1>2 DEF Folds
  <2> HIDE DEF Is
  <2> QED  BY <2>1
<1>5. \A s \in SUBSET (1 .. n) :
        H[s] = IF s = {} THEN base ELSE step(H[s \ {Max(s)}], seq[Max(s)])
  <2>1. \A f : Is(f) => \A s \in SUBSET (1 .. n) :
          f[s] = IF s = {} THEN base ELSE step(f[s \ {Max(s)}], seq[Max(s)])
    OBVIOUS
  <2> HIDE DEF Is, H
  <2> QED  BY <1>4, <2>1
<1> HIDE DEF H
<1> DEFINE g == [i \in 0 .. n |-> H[1 .. i]]
<1>6. g[0] = base
  <2>1. 1 .. 0 = {} /\ 0 \in 0 .. n /\ {} \in SUBSET (1 .. n)
    OBVIOUS
  <2>2. H[{}] = base
    BY <1>5, <2>1
  <2> QED  BY <2>1, <2>2
<1>7. ASSUME NEW i \in 1 .. n
      PROVE  g[i] = step(g[i - 1], seq[i])
  <2>1. i \in 0 .. n /\ i - 1 \in 0 .. n
    OBVIOUS
  <2>2. H[1 .. i] = step(H[1 .. i - 1], seq[i])
    BY <1>5, FoldRuns
  <2> QED  BY <2>1, <2>2
<1>8. g[n] = H[1 .. n] /\ g = [i \in 0 .. n |-> g[i]]
  OBVIOUS
<1> HIDE DEF g
<1> QED  BY <1>1, <1>3, <1>6, <1>7, <1>8 DEF Runs

\* Two runs over sequences that begin alike begin alike.
LEMMA RunsAgree ==
  ASSUME NEW base, NEW s, NEW t, NEW n \in Nat, Len(s) \in Nat, Len(t) \in Nat, n <= Len(s), n <= Len(t),
         \A i \in 1 .. n : s[i] = t[i],
         NEW g, Runs(g, base, s), NEW h, Runs(h, base, t)
  PROVE  \A i \in 0 .. n : g[i] = h[i]
<1> DEFINE T == {i \in 0 .. n : g[i] = h[i]}
<1>1. 0 \in T
  BY DEF Runs
<1>2. ASSUME NEW i \in 0 .. n - 1, i \in T PROVE i + 1 \in T
  <2>1. i + 1 \in 1 .. n /\ i + 1 \in 0 .. n /\ (i + 1) - 1 = i /\ i + 1 \in 1 .. Len(s)
        /\ i + 1 \in 1 .. Len(t)
    OBVIOUS
  <2>2. g[i + 1] = step(g[i], s[i + 1]) /\ h[i + 1] = step(h[i], t[i + 1])
    BY <2>1 DEF Runs
  <2> QED  BY <1>2, <2>1, <2>2
<1> HIDE DEF T
<1>3. \A i \in 0 .. n : i \in T
  BY <1>1, <1>2, UpTo
<1> QED  BY <1>3 DEF T

\* A fold over nothing, and over one element more.
LEMMA FoldEmpty ==
  ASSUME NEW base
  PROVE  FoldLeft(step, base, <<>>) = base
<1>1. <<>> \in Seq({}) /\ Len(<<>>) = 0
  OBVIOUS
<1>2. PICK g : Runs(g, base, <<>>) /\ FoldLeft(step, base, <<>>) = g[Len(<<>>)]
  BY <1>1, FoldIs
<1> QED  BY <1>1, <1>2 DEF Runs

LEMMA FoldAppend ==
  ASSUME NEW base, NEW X, NEW seq \in Seq(X), NEW x \in X
  PROVE  FoldLeft(step, base, Append(seq, x)) = step(FoldLeft(step, base, seq), x)
<1>1. PICK t \in Seq(X) : t = Append(seq, x)
  <2>1. Append(seq, x) \in Seq(X)
    BY AppendProperties
  <2> QED  BY <2>1
<1>2. PICK n \in Nat : n = Len(seq)
  OBVIOUS
<1>3. /\ Len(t) = n + 1 /\ t[n + 1] = x /\ \A i \in 1 .. n : seq[i] = t[i]
  BY <1>1, <1>2
<1>4. PICK g : Runs(g, base, seq) /\ FoldLeft(step, base, seq) = g[n]
  BY <1>2, FoldIs
<1>5. PICK h : Runs(h, base, t) /\ FoldLeft(step, base, t) = h[n + 1]
  BY <1>3, FoldIs
<1>6. \A i \in 0 .. n : g[i] = h[i]
  BY <1>2, <1>3, <1>4, <1>5, RunsAgree
<1>7. h[n + 1] = step(h[n], x)
  <2>1. n + 1 \in 1 .. n + 1 /\ (n + 1) - 1 = n
    OBVIOUS
  <2> QED  BY <1>3, <1>5, <2>1 DEF Runs
<1> QED  BY <1>1, <1>4, <1>5, <1>6, <1>7

\* What holds of the first value and is kept by every step holds of the result.
LEMMA FoldKeeps ==
  ASSUME NEW D, NEW base \in D, NEW X, NEW seq \in Seq(X),
          \A d \in D, x \in X : step(d, x) \in D
  PROVE  FoldLeft(step, base, seq) \in D
<1>1. PICK n \in Nat : n = Len(seq) /\ \A i \in 1 .. n : seq[i] \in X
  OBVIOUS
<1>2. PICK g : Runs(g, base, seq) /\ FoldLeft(step, base, seq) = g[n]
  BY <1>1, FoldIs
<1> DEFINE T == {i \in 0 .. n : g[i] \in D}
<1>3. 0 \in T
  BY <1>2 DEF Runs
<1>4. ASSUME NEW i \in 0 .. n - 1, i \in T PROVE i + 1 \in T
  <2>1. i + 1 \in 1 .. n /\ i + 1 \in 0 .. n /\ (i + 1) - 1 = i
    OBVIOUS
  <2>2. g[i + 1] = step(g[i], seq[i + 1])
    BY <1>1, <1>2, <2>1 DEF Runs
  <2> QED  BY <1>1, <1>4, <2>1, <2>2
<1> HIDE DEF T
<1>5. \A i \in 0 .. n : i \in T
  BY <1>3, <1>4, UpTo
<1>6. g[n] \in D
  BY <1>5 DEF T
<1> QED  BY <1>2, <1>6

-----------------------------------------------------------------------------
(* Joining sequences                                                          *)

\* g is the first 0, 1, ... sequences of ss, joined.
Joins(g, X, ss) ==
  /\ g \in [0 .. Len(ss) -> Seq(X)]
  /\ g[0] = <<>>
  /\ \A i \in 1 .. Len(ss) : g[i] = g[i - 1] \o ss[i]

\* What the recursive function of FlattenSeq is asked for, for the first n sequences.
Flattens(f, ss, n) == f = [i \in 1 .. n |-> IF i = 1 THEN ss[i] ELSE f[i - 1] \o ss[i]]

LEMMA FlattenExists ==
  ASSUME NEW ss, NEW n \in Nat
  PROVE  \E f : Flattens(f, ss, n)
<1> DEFINE T == {k \in 0 .. n : \E f : Flattens(f, ss, k)}
<1>1. 0 \in T
  <2>1. PICK f : f = [i \in 1 .. 0 |-> ss[i]]
    OBVIOUS
  <2>2. f = [i \in 1 .. 0 |-> IF i = 1 THEN ss[i] ELSE f[i - 1] \o ss[i]]
    BY <2>1
  <2>3. Flattens(f, ss, 0)
    BY <2>2 DEF Flattens
  <2> QED  BY <2>3
<1>2. ASSUME NEW k \in 0 .. n - 1, k \in T
      PROVE  k + 1 \in T
  <2>1. PICK f : Flattens(f, ss, k)
    BY <1>2
  <2>2. PICK m \in Nat : m = k + 1 /\ m \in 0 .. n /\ m # 0
    OBVIOUS
  <2> DEFINE h == [i \in 1 .. m |-> IF i = 1 THEN ss[i] ELSE f[i - 1] \o ss[i]]
  <2>3. ASSUME NEW i \in 1 .. m
        PROVE  h[i] = IF i = 1 THEN ss[i] ELSE h[i - 1] \o ss[i]
    <3>1. h[i] = IF i = 1 THEN ss[i] ELSE f[i - 1] \o ss[i]
      OBVIOUS
    <3>2. CASE i # 1
      <4>1. i - 1 \in 1 .. k /\ i - 1 \in 1 .. m
        BY <2>2, <3>2
      <4>2. f[i - 1] = IF i - 1 = 1 THEN ss[i - 1] ELSE f[(i - 1) - 1] \o ss[i - 1]
        BY <2>1, <4>1 DEF Flattens
      <4>3. h[i - 1] = f[i - 1]
        BY <4>1, <4>2
      <4> HIDE DEF h
      <4> QED  BY <3>1, <3>2, <4>3
    <3> QED  BY <3>1, <3>2
  <2>4. h = [i \in 1 .. m |-> h[i]]
    OBVIOUS
  <2> HIDE DEF h
  <2>5. Flattens(h, ss, m)
    BY <2>3, <2>4 DEF Flattens
  <2> QED  BY <2>2, <2>5
<1> HIDE DEF T
<1>3. \A i \in 0 .. n : i \in T
  BY <1>1, <1>2, UpTo
<1>4. n \in T
  BY <1>3
<1> QED  BY <1>4 DEF T

\* FlattenSeq is the last of the joins.
LEMMA FlattenIs ==
  ASSUME NEW X, NEW ss \in Seq(Seq(X))
  PROVE  \E g : Joins(g, X, ss) /\ FlattenSeq(ss) = g[Len(ss)]
<1>1. PICK n \in Nat : n = Len(ss) /\ DOMAIN ss = 1 .. n /\ \A i \in 1 .. n : ss[i] \in Seq(X)
  OBVIOUS
<1>2. PICK f : Flattens(f, ss, n)
  BY FlattenExists
<1> DEFINE Is(h) == h = [i \in 1 .. n |-> IF i = 1 THEN ss[i] ELSE h[i - 1] \o ss[i]]
           F == CHOOSE h : Is(h)
           g == [i \in 0 .. n |-> IF i = 0 THEN <<>> ELSE F[i]]
<1>3. Is(F)
  <2>1. Is(f)
    BY <1>2 DEF Flattens
  <2> HIDE DEF Is
  <2> QED  BY <2>1
<1>4. \A i \in 1 .. n : F[i] = IF i = 1 THEN ss[i] ELSE F[i - 1] \o ss[i]
  <2>1. \A h : Is(h) => \A i \in 1 .. n : h[i] = IF i = 1 THEN ss[i] ELSE h[i - 1] \o ss[i]
    OBVIOUS
  <2> HIDE DEF Is, F
  <2> QED  BY <1>3, <2>1
<1>5. FlattenSeq(ss) = IF n = 0 THEN ss ELSE F[n]
  BY <1>1 DEF FlattenSeq
<1> HIDE DEF F
<1>6. g[0] = <<>>
  OBVIOUS
<1>7. ASSUME NEW i \in 1 .. n PROVE g[i] = IF i = 1 THEN ss[i] ELSE g[i - 1] \o ss[i]
  <2>1. i \in 0 .. n /\ i # 0 /\ i - 1 \in 0 .. n /\ (i # 1 => i - 1 # 0)
    OBVIOUS
  <2>2. g[i] = F[i]
    BY <2>1
  <2>3. i # 1 => g[i - 1] = F[i - 1]
    BY <2>1
  <2> QED  BY <1>4, <2>2, <2>3
<1>8. g[n] = IF n = 0 THEN <<>> ELSE F[n]
  OBVIOUS
<1>9. g = [i \in 0 .. n |-> g[i]]
  OBVIOUS
<1> HIDE DEF g
<1> DEFINE T == {i \in 0 .. n : g[i] \in Seq(X)}
<1>10. 0 \in T
  <2>1. <<>> \in Seq(X) /\ 0 \in 0 .. n
    BY EmptySeq
  <2> QED  BY <1>6, <2>1
<1>11. ASSUME NEW i \in 0 .. n - 1, i \in T PROVE i + 1 \in T
  <2>1. PICK m : m = i + 1 /\ m \in 1 .. n /\ m \in 0 .. n /\ m - 1 = i
    OBVIOUS
  <2>2. ss[m] \in Seq(X)
    BY <1>1, <2>1
  <2>3. g[i] \in Seq(X)
    BY <1>11
  <2>4. g[i] \o ss[m] \in Seq(X)
    BY <2>2, <2>3, ConcatProperties
  <2>5. g[m] \in Seq(X)
    BY <1>7, <2>1, <2>2, <2>4
  <2> QED  BY <2>1, <2>5
<1>12. \A i \in 0 .. n : i \in T
  <2> HIDE DEF T
  <2> QED  BY <1>10, <1>11, UpTo
<1>13. \A i \in 0 .. n : g[i] \in Seq(X)
  BY <1>12 DEF T
<1>14. ASSUME NEW i \in 1 .. n PROVE g[i] = g[i - 1] \o ss[i]
  <2>1. CASE i = 1
    <3>1. ss[i] = <<>> \o ss[i]
      BY <1>1, ConcatEmptySeq
    <3>2. g[i - 1] = <<>>
      BY <1>6, <2>1
    <3> QED  BY <1>7, <2>1, <3>1, <3>2
  <2> QED  BY <1>7, <2>1
<1>15. Joins(g, X, ss)
  <2>1. g \in [0 .. n -> Seq(X)]
    BY <1>9, <1>13
  <2> QED  BY <1>1, <1>6, <1>14, <2>1 DEF Joins
<1>16. n = 0 => ss = <<>>
  BY <1>1
<1> QED  BY <1>1, <1>5, <1>8, <1>15, <1>16

\* Joins over sequences that begin alike begin alike.
LEMMA JoinsAgree ==
  ASSUME NEW X, NEW ss \in Seq(Seq(X)), NEW tt \in Seq(Seq(X)),
         NEW n \in Nat, n <= Len(ss), n <= Len(tt), \A i \in 1 .. n : ss[i] = tt[i],
         NEW g, Joins(g, X, ss), NEW h, Joins(h, X, tt)
  PROVE  \A i \in 0 .. n : g[i] = h[i]
<1> DEFINE T == {i \in 0 .. n : g[i] = h[i]}
<1>1. 0 \in T
  BY DEF Joins
<1>2. ASSUME NEW i \in 0 .. n - 1, i \in T PROVE i + 1 \in T
  <2>1. i + 1 \in 1 .. n /\ i + 1 \in 0 .. n /\ (i + 1) - 1 = i /\ i + 1 \in 1 .. Len(ss)
        /\ i + 1 \in 1 .. Len(tt)
    OBVIOUS
  <2>2. g[i + 1] = g[i] \o ss[i + 1] /\ h[i + 1] = h[i] \o tt[i + 1]
    BY <2>1 DEF Joins
  <2> QED  BY <1>2, <2>1, <2>2
<1> HIDE DEF T
<1>3. \A i \in 0 .. n : i \in T
  BY <1>1, <1>2, UpTo
<1> QED  BY <1>3 DEF T

LEMMA FlattenEmpty == FlattenSeq(<<>>) = <<>>
  BY DEF FlattenSeq

LEMMA FlattenTyped ==
  ASSUME NEW X, NEW ss \in Seq(Seq(X))
  PROVE  FlattenSeq(ss) \in Seq(X)
<1>1. PICK n \in Nat : n = Len(ss) /\ n \in 0 .. n
  OBVIOUS
<1>2. PICK g : Joins(g, X, ss) /\ FlattenSeq(ss) = g[n]
  BY <1>1, FlattenIs
<1> QED  BY <1>1, <1>2 DEF Joins

\* One sequence more.
LEMMA FlattenAppend ==
  ASSUME NEW X, NEW ss \in Seq(Seq(X)), NEW s \in Seq(X)
  PROVE  FlattenSeq(Append(ss, s)) = FlattenSeq(ss) \o s
<1>1. PICK tt \in Seq(Seq(X)) : tt = Append(ss, s)
  <2>1. Append(ss, s) \in Seq(Seq(X))
    BY AppendProperties
  <2> QED  BY <2>1
<1>2. PICK n \in Nat : n = Len(ss)
  OBVIOUS
<1>3. /\ Len(tt) = n + 1 /\ tt[n + 1] = s /\ \A i \in 1 .. n : ss[i] = tt[i]
  BY <1>1, <1>2
<1>4. PICK g : Joins(g, X, ss) /\ FlattenSeq(ss) = g[n]
  BY <1>2, FlattenIs
<1>5. PICK h : Joins(h, X, tt) /\ FlattenSeq(tt) = h[n + 1]
  BY <1>3, FlattenIs
<1>6. \A i \in 0 .. n : g[i] = h[i]
  <2>1. n <= Len(ss) /\ n <= Len(tt)
    BY <1>2, <1>3
  <2> QED  BY <1>3, <1>4, <1>5, <2>1, JoinsAgree
<1>7. h[n + 1] = h[n] \o s
  <2>1. n + 1 \in 1 .. n + 1 /\ (n + 1) - 1 = n
    OBVIOUS
  <2> QED  BY <1>3, <1>5, <2>1 DEF Joins
<1>8. h[n] = g[n]
  BY <1>6
<1> QED  BY <1>1, <1>4, <1>5, <1>7, <1>8, Zenon
=============================================================================
