--------------------------- MODULE StringsProofs ----------------------------
(***************************************************************************)
(* Proofs about Strings for every set of objects, literals and numbers and *)
(* every width of an integer: that the objects own their blocks, that a    *)
(* number put into a text is read as that number again, and that the       *)
(* functions on texts do what they should.                                 *)
(***************************************************************************)
EXTENDS Strings, SequenceTheorems, FiniteSetTheorems, WellFoundedInduction, TLAPS

-----------------------------------------------------------------------------
(* Folds over a text and over arguments                                       *)

\* A round of the loop of to_int.
ReadDigit(r, c) == Wrap(r * 10 + digit_value(c))

Reading == INSTANCE SequenceFolds WITH step <- ReadDigit

-----------------------------------------------------------------------------
(* Recursive functions over Nat                                               *)

\* f is a function that is first at the low numbers and what step makes, elsewhere, of
\* its value at a lower number, down[n]; up to n only.
DefinedUpTo(f, n, D, Low, first, down, step) ==
  /\ f \in [0 .. n -> D]
  /\ \A k \in 0 .. n : f[k] = IF k \in Low THEN first[k] ELSE step[k][f[down[k]]]

Recursion(D, Low, down, first, step) ==
  /\ Low \in SUBSET Nat /\ 0 \in Low /\ down \in [Nat -> Nat]
  /\ \A n \in Nat \ Low : down[n] < n
  /\ first \in [Low -> D] /\ step \in [Nat -> [D -> D]]

\* f is it on all of Nat.
Defined(f, D, Low, first, down, step) ==
  /\ f \in [Nat -> D]
  /\ \A n \in Nat : f[n] = IF n \in Low THEN first[n] ELSE step[n][f[down[n]]]

\* It exists up to any number,
LEMMA RecursionUpTo ==
  ASSUME NEW D, NEW Low \in SUBSET Nat, 0 \in Low, NEW down \in [Nat -> Nat],
         \A n \in Nat \ Low : down[n] < n,
         NEW first \in [Low -> D], NEW step \in [Nat -> [D -> D]],
         NEW n \in Nat
  PROVE  \E f : DefinedUpTo(f, n, D, Low, first, down, step)
<1> DEFINE Is(f, k) == DefinedUpTo(f, k, D, Low, first, down, step)
           T == {k \in 0 .. n : \E f : Is(f, k)}
<1>1. 0 \in T
  <2>1. PICK f : f = [k \in 0 .. 0 |-> first[0]]
    OBVIOUS
  <2>2. Is(f, 0)
    BY <2>1 DEF DefinedUpTo
  <2> QED  BY <2>2
<1>2. ASSUME NEW i \in 0 .. n - 1, i \in T
      PROVE  i + 1 \in T
  <2>1. PICK f : Is(f, i)
    BY <1>2
  <2>2. PICK m \in Nat : m = i + 1 /\ m \in 0 .. n
    OBVIOUS
  <2> DEFINE h == [k \in 0 .. m |-> IF k \in Low THEN first[k] ELSE step[k][f[down[k]]]]
  <2>3. ASSUME NEW k \in 0 .. m, k \notin Low PROVE down[k] \in 0 .. i
    BY <2>2, <2>3
  <2>4. ASSUME NEW k \in 0 .. i PROVE k \in 0 .. m /\ h[k] = f[k]
    <3>1. k \in 0 .. m
      BY <2>2
    <3>2. f[k] = IF k \in Low THEN first[k] ELSE step[k][f[down[k]]]
      BY <2>1 DEF DefinedUpTo
    <3> QED  BY <3>1, <3>2
  <2>5. ASSUME NEW k \in 0 .. m
        PROVE  /\ h[k] = IF k \in Low THEN first[k] ELSE step[k][h[down[k]]]
               /\ h[k] \in D
    <3>1. h[k] = IF k \in Low THEN first[k] ELSE step[k][f[down[k]]]
      OBVIOUS
    <3>2. CASE k \notin Low
      <4>1. down[k] \in 0 .. i
        BY <2>3, <3>2
      <4>2. h[down[k]] = f[down[k]] /\ f[down[k]] \in D
        BY <2>1, <2>4, <4>1 DEF DefinedUpTo
      <4>3. step[k] \in [D -> D]
        OBVIOUS
      <4> HIDE DEF h
      <4> QED  BY <3>1, <3>2, <4>2, <4>3
    <3>3. CASE k \in Low
      <4> HIDE DEF h
      <4> QED  BY <3>1, <3>3
    <3> QED  BY <3>2, <3>3
  <2>6. h = [k \in 0 .. m |-> h[k]]
    OBVIOUS
  <2> HIDE DEF h
  <2>7. Is(h, m)
    BY <2>5, <2>6 DEF DefinedUpTo
  <2> QED  BY <2>2, <2>7
<1> HIDE DEF T
<1>3. \A i \in 0 .. n : i \in T
  BY <1>1, <1>2, Reading!UpTo
<1>4. n \in T
  BY <1>3
<1> QED  BY <1>4 DEF T

\* is the same up to any number,
LEMMA RecursionsAgree ==
  ASSUME NEW D, NEW Low \in SUBSET Nat, NEW down \in [Nat -> Nat],
         \A n \in Nat \ Low : down[n] < n,
         NEW first \in [Low -> D], NEW step \in [Nat -> [D -> D]],
         NEW n \in Nat, NEW f, DefinedUpTo(f, n, D, Low, first, down, step),
         NEW m \in Nat, NEW h, DefinedUpTo(h, m, D, Low, first, down, step), m <= n
  PROVE  f[m] = h[m]
<1> DEFINE T == {i \in 0 .. m : \A k \in 0 .. i : f[k] = h[k]}
<1>1. ASSUME NEW k \in 0 .. m, \A j \in 0 .. k - 1 : f[j] = h[j]
      PROVE  f[k] = h[k]
  <2>1. k \in 0 .. n
    OBVIOUS
  <2>2. /\ f[k] = IF k \in Low THEN first[k] ELSE step[k][f[down[k]]]
        /\ h[k] = IF k \in Low THEN first[k] ELSE step[k][h[down[k]]]
    BY <2>1 DEF DefinedUpTo
  <2>3. k \notin Low => down[k] \in 0 .. k - 1
    OBVIOUS
  <2> QED  BY <1>1, <2>2, <2>3
<1>2. 0 \in T
  <2>1. \A j \in 0 .. 0 - 1 : f[j] = h[j]
    OBVIOUS
  <2>2. 0 \in 0 .. m /\ \A k \in 0 .. 0 : k = 0
    OBVIOUS
  <2> QED  BY <1>1, <2>1, <2>2
<1>3. ASSUME NEW i \in 0 .. m - 1, i \in T PROVE i + 1 \in T
  <2>1. i + 1 \in 0 .. m /\ (i + 1) - 1 = i /\ \A k \in 0 .. i + 1 : k \in 0 .. i \/ k = i + 1
    OBVIOUS
  <2>2. \A j \in 0 .. i : f[j] = h[j]
    BY <1>3
  <2>3. f[i + 1] = h[i + 1]
    BY <1>1, <2>1, <2>2
  <2> QED  BY <2>1, <2>2, <2>3
<1>4. \A i \in 0 .. m : i \in T
  <2> HIDE DEF T
  <2> QED  BY <1>2, <1>3, Reading!UpTo
<1>5. m \in T /\ m \in 0 .. m
  BY <1>4
<1> QED  BY <1>5

\* and so exists on all of Nat.
LEMMA RecursionExists ==
  ASSUME NEW D, NEW Low, NEW down, NEW first, NEW step, Recursion(D, Low, down, first, step)
  PROVE  \E f : Defined(f, D, Low, first, down, step)
<1>0. /\ Low \in SUBSET Nat /\ 0 \in Low /\ down \in [Nat -> Nat]
      /\ \A n \in Nat \ Low : down[n] < n
      /\ first \in [Low -> D] /\ step \in [Nat -> [D -> D]]
  BY DEF Recursion
<1> USE <1>0
<1> DEFINE Is(f, n) == DefinedUpTo(f, n, D, Low, first, down, step)
           at(n) == CHOOSE f : Is(f, n)
           F == [n \in Nat |-> at(n)[n]]
<1>1. ASSUME NEW n \in Nat PROVE Is(at(n), n)
  <2>1. \E f : Is(f, n)
    BY RecursionUpTo
  <2> HIDE DEF Is
  <2> QED  BY <2>1
<1>2. ASSUME NEW n \in Nat, NEW m \in Nat, m <= n PROVE at(n)[m] = F[m]
  <2>1. Is(at(n), n) /\ Is(at(m), m)
    BY <1>1
  <2>2. F[m] = at(m)[m]
    OBVIOUS
  <2> HIDE DEF at, F
  <2> QED  BY <1>2, <2>1, <2>2, RecursionsAgree
<1>3. F = [n \in Nat |-> F[n]]
  OBVIOUS
<1> HIDE DEF F, at
<1>4. ASSUME NEW n \in Nat
      PROVE  F[n] \in D /\ F[n] = IF n \in Low THEN first[n] ELSE step[n][F[down[n]]]
  <2>1. PICK f : f = at(n)
    OBVIOUS
  <2>2. /\ f \in [0 .. n -> D] /\ n \in 0 .. n
        /\ f[n] = IF n \in Low THEN first[n] ELSE step[n][f[down[n]]]
    BY <1>1, <2>1 DEF DefinedUpTo
  <2>3. f[n] = F[n]
    <3>1. n \in Nat /\ n <= n
      OBVIOUS
    <3>2. at(n)[n] = F[n]
      BY <1>2, <3>1
    <3> QED  BY <2>1, <3>2
  <2>4. n \notin Low => f[down[n]] = F[down[n]]
    <3>1. n \notin Low => down[n] \in Nat /\ down[n] <= n
      OBVIOUS
    <3> QED  BY <1>2, <2>1, <3>1
  <2> QED  BY <2>2, <2>3, <2>4
<1>5. F \in [Nat -> D]
  BY <1>3, <1>4
<1>6. Defined(F, D, Low, first, down, step)
  BY <1>4, <1>5 DEF Defined
<1> QED  BY <1>6

-----------------------------------------------------------------------------
(* Numbers and their texts                                                    *)

DigitChars == {Digits[i] : i \in 1 .. 10}

Pow2Is(f) == f = [n \in Nat |-> IF n = 0 THEN 1 ELSE 2 * f[n - 1]]

DecimalIs(f) ==
  f = [n \in Nat |-> IF n < 10 THEN <<Digits[n + 1]>>
                     ELSE Append(f[n \div 10], Digits[(n % 10) + 1])]

\* Division by ten.
LEMMA Tenths ==
  ASSUME NEW n \in Nat
  PROVE  /\ n \div 10 \in Nat /\ n % 10 \in 0 .. 9 /\ n = 10 * (n \div 10) + (n % 10)
         /\ n >= 10 => n \div 10 < n
OBVIOUS

\* The powers of 2 exist as a function on Nat.
LEMMA Pow2Exists == \E f \in [Nat -> Nat \ {0}] : Pow2Is(f)
<1> DEFINE D == Nat \ {0}
           Low == {0}
           down == [n \in Nat |-> IF n = 0 THEN 0 ELSE n - 1]
           first == [n \in Low |-> 1]
           step == [n \in Nat |-> [d \in D |-> 2 * d]]
<1>1. Recursion(D, Low, down, first, step)
  BY DEF Recursion
<1>2. PICK f : Defined(f, D, Low, first, down, step)
  <2> HIDE DEF D, Low, down, first, step
  <2> QED  BY <1>1, RecursionExists, Zenon
<1>3. ASSUME NEW n \in Nat PROVE f[n] = IF n = 0 THEN 1 ELSE 2 * f[n - 1]
  <2>1. f[n] = IF n \in Low THEN first[n] ELSE step[n][f[down[n]]]
    BY <1>2 DEF Defined
  <2>2. n # 0 => down[n] = n - 1 /\ n - 1 \in Nat
    OBVIOUS
  <2>3. n # 0 => f[n - 1] \in D
    BY <1>2, <2>2 DEF Defined
  <2> QED  BY <2>1, <2>2, <2>3
<1>4. f = [n \in Nat |-> f[n]] /\ f \in [Nat -> D]
  BY <1>2 DEF Defined
<1>5. Pow2Is(f)
  BY <1>3, <1>4 DEF Pow2Is
<1> QED  BY <1>4, <1>5

\* Pow2 is positive and doubles.
LEMMA Pow2Doubles ==
  /\ \A n \in Nat : Pow2[n] \in Nat \ {0}
  /\ \A n \in Nat \ {0} : Pow2[n] = 2 * Pow2[n - 1]
<1>1. PICK h \in [Nat -> Nat \ {0}] : Pow2Is(h)
  BY Pow2Exists
<1>2. Pow2Is(Pow2)
  <2> DEFINE P == CHOOSE f : Pow2Is(f)
  <2>1. Pow2Is(P)
    BY <1>1
  <2>2. Pow2 = P
    BY DEF Pow2, Pow2Is
  <2> HIDE DEF P
  <2> QED  BY <2>1, <2>2
<1>3. \A n \in Nat : Pow2[n] = IF n = 0 THEN 1 ELSE 2 * Pow2[n - 1]
  BY <1>2 DEF Pow2Is
<1> DEFINE T(n) == {i \in 0 .. n : Pow2[i] \in Nat \ {0}}
<1>4. ASSUME NEW n \in Nat PROVE Pow2[n] \in Nat \ {0}
  <2>1. 0 \in T(n)
    BY <1>3
  <2>2. ASSUME NEW i \in 0 .. n - 1, i \in T(n) PROVE i + 1 \in T(n)
    <3>1. i + 1 \in Nat /\ i + 1 # 0 /\ (i + 1) - 1 = i /\ i + 1 \in 0 .. n
      OBVIOUS
    <3>2. Pow2[i + 1] = 2 * Pow2[i] /\ Pow2[i] \in Nat \ {0}
      BY <1>3, <2>2, <3>1
    <3> QED  BY <3>1, <3>2
  <2>3. \A i \in 0 .. n : i \in T(n)
    <3> HIDE DEF T
    <3> QED  BY <2>1, <2>2, Reading!UpTo
  <2> QED  BY <2>3
<1> QED  BY <1>3, <1>4

\* So do the decimal digits of the natural numbers.
LEMMA DecimalExists == \E f \in [Nat -> Seq(DigitChars)] : DecimalIs(f)
<1> DEFINE D == Seq(DigitChars)
           Low == 0 .. 9
           down == [n \in Nat |-> n \div 10]
           first == [n \in Low |-> <<Digits[n + 1]>>]
           step == [n \in Nat |-> [d \in D |-> Append(d, Digits[(n % 10) + 1])]]
<1>1. \A k \in 0 .. 9 : Digits[k + 1] \in DigitChars
  <2>1. \A k \in 0 .. 9 : k + 1 \in 1 .. 10
    OBVIOUS
  <2> QED  BY <2>1 DEF DigitChars
<1>2. \A c \in DigitChars : <<c>> \in D /\ \A d \in D : Append(d, c) \in D
  OBVIOUS
<1>3. /\ Low \in SUBSET Nat /\ 0 \in Low
      /\ down \in [Nat -> Nat] /\ \A n \in Nat \ Low : down[n] < n
  BY Tenths
<1>4. first \in [Low -> D]
  BY <1>1, <1>2
<1>5. step \in [Nat -> [D -> D]]
  <2>1. \A n \in Nat : Digits[(n % 10) + 1] \in DigitChars
    BY <1>1, Tenths
  <2> HIDE DEF D
  <2> QED  BY <1>2, <2>1
<1>6. PICK f : Defined(f, D, Low, first, down, step)
  <2>1. Recursion(D, Low, down, first, step)
    <3> HIDE DEF D, Low, down, first, step
    <3> QED  BY <1>3, <1>4, <1>5 DEF Recursion
  <2> HIDE DEF D, Low, down, first, step
  <2> QED  BY <2>1, RecursionExists, Zenon
<1>7. ASSUME NEW n \in Nat
      PROVE f[n] = IF n < 10 THEN <<Digits[n + 1]>> ELSE Append(f[n \div 10], Digits[(n % 10) + 1])
  <2>1. f[n] = IF n \in Low THEN first[n] ELSE step[n][f[down[n]]]
    <3> HIDE DEF D, Low, down, first, step
    <3> QED  BY <1>6 DEF Defined
  <2>2. down[n] = n \div 10 /\ n \div 10 \in Nat
    BY Tenths
  <2>3. f[n \div 10] \in D
    <3> HIDE DEF D, Low, down, first, step
    <3> QED  BY <1>6, <2>2 DEF Defined
  <2>4. n < 10 <=> n \in Low
    OBVIOUS
  <2>5. n \in Low => first[n] = <<Digits[n + 1]>>
    BY Zenon
  <2>6. step[n][f[n \div 10]] = Append(f[n \div 10], Digits[(n % 10) + 1])
    BY <2>3, Zenon
  <2> HIDE DEF D, Low, first, step, down
  <2> QED  BY <2>1, <2>2, <2>4, <2>5, <2>6, Zenon
<1> HIDE DEF D, Low, down, first, step
<1>8. f = [n \in Nat |-> f[n]] /\ f \in [Nat -> D]
  BY <1>6 DEF Defined
<1>9. DecimalIs(f)
  BY <1>7, <1>8 DEF DecimalIs
<1> QED  BY <1>8, <1>9 DEF D

\* The text of a number: digits, not empty.
LEMMA DecimalDigits ==
  /\ \A n \in Nat : Decimal[n] = IF n < 10 THEN <<Digits[n + 1]>>
                                 ELSE Append(Decimal[n \div 10], Digits[(n % 10) + 1])
  /\ \A n \in Nat : Decimal[n] \in Seq(DigitChars) /\ Decimal[n] # <<>>
<1>1. PICK h \in [Nat -> Seq(DigitChars)] : DecimalIs(h)
  BY DecimalExists
<1>2. DecimalIs(Decimal)
  <2> DEFINE P == CHOOSE f : DecimalIs(f)
  <2>1. DecimalIs(P)
    BY <1>1
  <2>2. Decimal = P
    BY DEF Decimal, DecimalIs
  <2> HIDE DEF P
  <2> QED  BY <2>1, <2>2
<1>3. \A n \in Nat : Decimal[n] = IF n < 10 THEN <<Digits[n + 1]>>
                                  ELSE Append(Decimal[n \div 10], Digits[(n % 10) + 1])
  BY <1>2 DEF DecimalIs
<1>4. \A k \in 0 .. 9 : Digits[k + 1] \in DigitChars
  <2>1. \A k \in 0 .. 9 : k + 1 \in 1 .. 10
    OBVIOUS
  <2> QED  BY <2>1 DEF DigitChars
<1> DEFINE T(n) == {i \in 0 .. n : \A k \in 0 .. i : Decimal[k] \in Seq(DigitChars) \ {<<>>}}
<1>5. ASSUME NEW k \in Nat, \A j \in 0 .. k - 1 : Decimal[j] \in Seq(DigitChars)
      PROVE  Decimal[k] \in Seq(DigitChars) \ {<<>>}
  <2>1. CASE k < 10
    <3>1. k \in 0 .. 9
      BY <2>1
    <3>2. PICK d \in DigitChars : d = Digits[k + 1]
      BY <1>4, <3>1, Zenon
    <3>3. Decimal[k] = <<d>>
      BY <1>3, <2>1, <3>2, Zenon
    <3> QED  BY <3>3
  <2>2. CASE k >= 10
    <3>1. k \div 10 \in 0 .. k - 1 /\ k % 10 \in 0 .. 9 /\ ~(k < 10)
      BY <2>2, Tenths
    <3>2. PICK d \in DigitChars : d = Digits[(k % 10) + 1]
      BY <1>4, <3>1, Zenon
    <3>3. PICK t \in Seq(DigitChars) : t = Decimal[k \div 10]
      BY <1>5, <3>1, Zenon
    <3>4. Decimal[k] = Append(t, d)
      BY <1>3, <3>1, <3>2, <3>3, Zenon
    <3>5. Append(t, d) \in Seq(DigitChars) /\ Len(Append(t, d)) = Len(t) + 1 /\ Len(t) \in Nat
      BY AppendProperties
    <3>6. Append(t, d) # <<>>
      <4>1. Len(<<>>) = 0
        OBVIOUS
      <4>2. Len(Append(t, d)) # Len(<<>>)
        BY <3>5, <4>1
      <4> QED  BY <4>2, Zenon
    <3> QED  BY <3>4, <3>5, <3>6
  <2> QED  BY <2>1, <2>2
<1>6. ASSUME NEW n \in Nat PROVE Decimal[n] \in Seq(DigitChars) \ {<<>>}
  <2>1. 0 \in T(n)
    <3>1. \A j \in 0 .. 0 - 1 : Decimal[j] \in Seq(DigitChars)
      OBVIOUS
    <3>2. 0 \in 0 .. n /\ \A k \in 0 .. 0 : k = 0
      OBVIOUS
    <3> QED  BY <1>5, <3>1, <3>2
  <2>2. ASSUME NEW i \in 0 .. n - 1, i \in T(n) PROVE i + 1 \in T(n)
    <3>1. i + 1 \in Nat /\ i + 1 \in 0 .. n /\ (i + 1) - 1 = i
          /\ \A k \in 0 .. i + 1 : k \in 0 .. i \/ k = i + 1
      OBVIOUS
    <3>2. \A j \in 0 .. i : Decimal[j] \in Seq(DigitChars) \ {<<>>}
      BY <2>2
    <3>3. Decimal[i + 1] \in Seq(DigitChars) \ {<<>>}
      BY <1>5, <3>1, <3>2
    <3> QED  BY <3>1, <3>2, <3>3
  <2>3. \A i \in 0 .. n : i \in T(n)
    <3> HIDE DEF T
    <3> QED  BY <2>1, <2>2, Reading!UpTo
  <2>4. n \in 0 .. n
    OBVIOUS
  <2>5. n \in T(n)
    BY <2>3, <2>4, Zenon
  <2> QED  BY <2>4, <2>5, Zenon
<1> QED  BY <1>3, <1>6

\* The value of each digit.
LEMMA DigitValues ==
  \A k \in 0 .. 9 : digit_value(Digits[k + 1]) = k /\ Digits[k + 1] # Minus
<1>1. DOMAIN Digits = 1 .. 10
  BY DEF Digits
<1>2. \A i, j \in 1 .. 10 : Digits[i] = Digits[j] => i = j
  BY DEF Digits
<1>3. ASSUME NEW k \in 0 .. 9 PROVE digit_value(Digits[k + 1]) = k
  <2>1. PICK m \in 1 .. 10 : m = k + 1
    OBVIOUS
  <2>2. PICK c : c = Digits[m]
    OBVIOUS
  <2>3. (CHOOSE i \in DOMAIN Digits : Digits[i] = c) = m
    <3>1. \A i \in DOMAIN Digits : Digits[i] = c => i = m
      BY <1>1, <1>2, <2>2
    <3>2. m \in DOMAIN Digits /\ Digits[m] = c
      BY <1>1, <2>2
    <3> QED  BY <3>1, <3>2, Zenon
  <2>4. digit_value(c) = m - 1
    BY <2>3, Zenon DEF digit_value
  <2> QED  BY <2>1, <2>2, <2>4
<1>4. \A i \in 1 .. 10 : Digits[i] # Minus
  BY DEF Digits, Minus
<1>5. \A k \in 0 .. 9 : k + 1 \in 1 .. 10
  OBVIOUS
<1> QED  BY <1>3, <1>4, <1>5

\* Wrap leaves a number alone that is small enough.
LEMMA WrapIs ==
  /\ \A n \in 0 .. (Pow2[WIDTH] - 1) : Wrap(n) = n
  /\ \A n \in 1 .. Pow2[WIDTH] : Wrap(0 - n) = Pow2[WIDTH] - n
<1>1. PICK M \in Nat \ {0} : M = Pow2[WIDTH]
  BY Pow2Doubles, StringsAssumption
<1>2. ASSUME NEW n \in 0 .. M - 1 PROVE n % M = n
  OBVIOUS
<1>3. ASSUME NEW n \in 1 .. M PROVE (0 - n) % M = M - n
  OBVIOUS
<1> QED  BY <1>1, <1>2, <1>3 DEF Wrap

\* Reading the digits of a number gives the number.
LEMMA DigitsAreRead ==
  \A n \in 0 .. (Pow2[WIDTH] - 1) : Reading!FoldLeft(ReadDigit, 0, Decimal[n]) = n
<1>1. PICK M \in Nat \ {0} : M = Pow2[WIDTH]
  BY Pow2Doubles, StringsAssumption
<1> DEFINE Value(s) == Reading!FoldLeft(ReadDigit, 0, s)
<1>2. Value(<<>>) = 0
  BY Reading!FoldEmpty
<1>3. ASSUME NEW s \in Seq(DigitChars), NEW c \in DigitChars
      PROVE  Value(Append(s, c)) = Wrap(Value(s) * 10 + digit_value(c))
  BY Reading!FoldAppend DEF ReadDigit
<1> HIDE DEF Value
<1>4. ASSUME NEW n \in 0 .. M - 1, \A j \in 0 .. n - 1 : Value(Decimal[j]) = j
      PROVE  Value(Decimal[n]) = n
  <2>1. CASE n < 10
    <3>1. PICK d : d = Digits[n + 1]
      OBVIOUS
    <3>2. d \in DigitChars /\ digit_value(d) = n
      <4>1. n \in 0 .. 9 /\ n + 1 \in 1 .. 10
        BY <2>1
      <4> QED  BY <3>1, <4>1, DigitValues DEF DigitChars
    <3>3. Decimal[n] = <<d>>
      <4>1. n \in Nat
        OBVIOUS
      <4> QED  BY <2>1, <3>1, <4>1, DecimalDigits, Zenon
    <3>4. <<d>> = Append(<<>>, d) /\ <<>> \in Seq(DigitChars)
      BY EmptySeq
    <3>5. Value(<<d>>) = Wrap(0 * 10 + n)
      BY <1>2, <1>3, <3>2, <3>4
    <3>6. Wrap(n) = n
      BY <1>1, WrapIs
    <3> QED  BY <3>3, <3>5, <3>6
  <2>2. CASE n >= 10
    <3>1. PICK q, r : q = n \div 10 /\ r = n % 10
      OBVIOUS
    <3>2. q \in 0 .. n - 1 /\ r \in 0 .. 9 /\ n = 10 * q + r /\ q \in Nat /\ n \in Nat /\ ~(n < 10)
      BY <2>2, <3>1, Tenths
    <3>3. PICK d : d = Digits[r + 1]
      OBVIOUS
    <3>4. d \in DigitChars /\ digit_value(d) = r
      <4>1. r + 1 \in 1 .. 10
        BY <3>2
      <4> QED  BY <3>2, <3>3, <4>1, DigitValues DEF DigitChars
    <3>5. PICK s \in Seq(DigitChars) : s = Decimal[q]
      BY <3>2, DecimalDigits, Zenon
    <3>6. Decimal[n] = Append(s, d)
      BY <3>1, <3>2, <3>3, <3>5, DecimalDigits, Zenon
    <3>7. Value(s) = q
      BY <1>4, <3>2, <3>5
    <3>8. Value(Append(s, d)) = Wrap(q * 10 + r)
      BY <1>3, <3>4, <3>7
    <3>9. q * 10 + r = n
      BY <3>2
    <3>10. Wrap(n) = n
      BY <1>1, WrapIs
    <3> QED  BY <3>6, <3>8, <3>9, <3>10
  <2> QED  BY <2>1, <2>2
<1> DEFINE T == {i \in 0 .. M - 1 : \A k \in 0 .. i : Value(Decimal[k]) = k}
<1>5. 0 \in T
  <2>1. 0 \in 0 .. M - 1 /\ (\A j \in 0 .. 0 - 1 : Value(Decimal[j]) = j) /\ \A k \in 0 .. 0 : k = 0
    OBVIOUS
  <2>2. Value(Decimal[0]) = 0
    BY <1>4, <2>1
  <2> QED  BY <2>1, <2>2
<1>6. ASSUME NEW i \in 0 .. (M - 1) - 1, i \in T PROVE i + 1 \in T
  <2>1. i + 1 \in 0 .. M - 1 /\ (i + 1) - 1 = i /\ \A k \in 0 .. i + 1 : k \in 0 .. i \/ k = i + 1
    OBVIOUS
  <2>2. \A j \in 0 .. i : Value(Decimal[j]) = j
    BY <1>6
  <2>3. Value(Decimal[i + 1]) = i + 1
    BY <1>4, <2>1, <2>2
  <2> QED  BY <2>1, <2>2, <2>3
<1>7. \A i \in 0 .. M - 1 : i \in T
  <2> HIDE DEF T
  <2>1. M - 1 \in Nat
    OBVIOUS
  <2> QED  BY <1>5, <1>6, <2>1, Reading!UpTo
<1>8. ASSUME NEW n \in 0 .. M - 1 PROVE Value(Decimal[n]) = n
  <2>1. n \in T /\ n \in 0 .. n
    BY <1>7
  <2> QED  BY <2>1
<1> QED  BY <1>1, <1>8 DEF Value

NumberText(n) == IF n < 0 THEN <<Minus>> \o Decimal[-n] ELSE Decimal[n]

\* Numbers are integers.
LEMMA NumbersAreIntegers == \A n \in Numbers : n \in Int
<1>1. PICK H \in Nat \ {0} : H = Pow2[WIDTH - 1]
  <2>1. WIDTH - 1 \in Nat
    BY StringsAssumption
  <2> QED  BY <2>1, Pow2Doubles
<1>2. Numbers \subseteq -H .. (H - 1)
  BY <1>1, StringsAssumption
<1> QED  BY <1>2

\* A number is read from its text as it was, the least integer included.
LEMMA NumberIsRead ==
  ASSUME NEW n \in Numbers
  PROVE  to_int(NumberText(n)) = n
<1>1. PICK H \in Nat \ {0} : H = Pow2[WIDTH - 1]
  <2>1. WIDTH - 1 \in Nat
    BY StringsAssumption
  <2> QED  BY <2>1, Pow2Doubles
<1>2. Pow2[WIDTH] = 2 * H /\ n \in -H .. (H - 1)
  BY <1>1, Pow2Doubles, StringsAssumption
<1>3. ASSUME NEW s PROVE
        to_int(s) = LET negative == s # <<>> /\ Head(s) = Minus
                        digits == IF negative THEN Tail(s) ELSE s
                        result == Reading!FoldLeft(ReadDigit, 0, digits)
                    IN  Signed(Wrap(IF negative THEN 0 - result ELSE result))
  BY DEF to_int, ReadDigit, FoldLeft, Reading!FoldLeft, MapThenFoldSet, Reading!MapThenFoldSet,
         Max, Reading!Max
<1>4. CASE n >= 0
  <2>1. PICK s \in Seq(DigitChars) : s = Decimal[n] /\ s # <<>>
    <3>1. n \in Nat
      BY <1>2, <1>4
    <3> QED  BY <3>1, DecimalDigits, Zenon
  <2>2. Head(s) \in DigitChars
    BY <2>1
  <2>3. Head(s) # Minus
    <3>1. PICK i \in 1 .. 10 : Head(s) = Digits[i]
      BY <2>2 DEF DigitChars
    <3>2. i - 1 \in 0 .. 9 /\ (i - 1) + 1 = i
      OBVIOUS
    <3> QED  BY <3>1, <3>2, DigitValues
  <2>4. n \in 0 .. (Pow2[WIDTH] - 1)
    BY <1>2, <1>4
  <2>5. Reading!FoldLeft(ReadDigit, 0, s) = n
    BY <2>1, <2>4, DigitsAreRead
  <2>6. Wrap(n) = n
    BY <2>4, WrapIs
  <2>7. Signed(n) = n
    BY <1>1, <1>2 DEF Signed
  <2>8. NumberText(n) = s
    BY <1>2, <1>4, <2>1 DEF NumberText
  <2>9. to_int(s) = Signed(Wrap(n))
    BY <1>3, <2>3, <2>5, Zenon
  <2> QED  BY <2>6, <2>7, <2>8, <2>9
<1>5. CASE n < 0
  <2>1. PICK m \in Nat : m = -n /\ m \in 1 .. H
    BY <1>2, <1>5
  <2>2. PICK d \in Seq(DigitChars) : d = Decimal[m]
    BY DecimalDigits, Zenon
  <2>3. PICK s : s = <<Minus>> \o d
    OBVIOUS
  <2>4. /\ s # <<>> /\ Head(s) = Minus /\ Tail(s) = d
    <3>1. d \in Seq(DigitChars \cup {Minus}) /\ Minus \in DigitChars \cup {Minus}
      BY <2>2
    <3>2. PICK D, x : D = DigitChars \cup {Minus} /\ x = Minus
      OBVIOUS
    <3>3. d \in Seq(D) /\ x \in D /\ s = <<x>> \o d
      BY <2>3, <3>1, <3>2
    <3>4. s # <<>> /\ Head(s) = x /\ Tail(s) = d
      BY <3>3
    <3> QED  BY <3>2, <3>4
  <2>5. m \in 0 .. (Pow2[WIDTH] - 1) /\ m \in 1 .. Pow2[WIDTH]
    BY <1>2, <2>1
  <2>6. Reading!FoldLeft(ReadDigit, 0, d) = m
    BY <2>2, <2>5, DigitsAreRead
  <2>7. Wrap(0 - m) = 2 * H - m
    BY <1>2, <2>5, WrapIs
  <2>8. Signed(2 * H - m) = n
    BY <1>1, <1>2, <2>1 DEF Signed
  <2>9. NumberText(n) = s
    BY <1>5, <2>1, <2>2, <2>3 DEF NumberText
  <2>10. to_int(s) = Signed(Wrap(0 - m))
    BY <1>3, <2>4, <2>6, Zenon
  <2> QED  BY <2>7, <2>8, <2>9, <2>10
<1> QED  BY <1>2, <1>4, <1>5

-----------------------------------------------------------------------------
(* The heap                                                                   *)

Blocks(h) == IsFiniteSet(DOMAIN h) /\ DOMAIN h \subseteq Nat \ {0}

Count(h) == Cardinality(DOMAIN h)

\* From h to h2 a block p with the text has been added, and k others; none has changed.
Adds(h, h2, p, text, k) ==
  /\ Blocks(h2)
  /\ \A q \in DOMAIN h : q \in DOMAIN h2 /\ h2[q] = h[q]
  /\ p \in DOMAIN h2 /\ p \notin DOMAIN h /\ h2[p] = text
  /\ Count(h2) = Count(h) + 1 + k

\* There is a free block.
LEMMA FreshIs ==
  ASSUME NEW h, Blocks(h)
  PROVE  Fresh(h) \in Nat \ {0} /\ Fresh(h) \notin DOMAIN h
<1>1. PICK n \in Nat : n = Cardinality(DOMAIN h)
  BY FS_CardinalityType DEF Blocks
<1> DEFINE S == (1 .. (n + 1)) \ DOMAIN h
<1>2. S # {}
  <2> SUFFICES ASSUME 1 .. (n + 1) \subseteq DOMAIN h PROVE FALSE
    OBVIOUS
  <2>1. Cardinality(1 .. (n + 1)) = n + 1
    <3>1. 1 \in Int /\ n + 1 \in Int /\ ~(1 > n + 1) /\ (n + 1) - 1 + 1 = n + 1
      OBVIOUS
    <3> QED  BY <3>1, FS_Interval
  <2>2. Cardinality(1 .. (n + 1)) <= n
    BY <1>1, FS_Subset DEF Blocks
  <2> QED  BY <2>1, <2>2
<1>3. S \in SUBSET (1 .. (n + 1)) /\ n + 1 \in Nat
  OBVIOUS
<1>4. PICK m : m = Reading!Min(S)
  OBVIOUS
<1>5. m \in S
  <2> HIDE DEF S
  <2> QED  BY <1>2, <1>3, <1>4, Reading!SomeMin
<1>6. Fresh(h) = m
  BY <1>1, <1>4 DEF Fresh, Min, Reading!Min
<1> QED  BY <1>5, <1>6

\* malloc and the copy into the new block.
LEMMA PutIs ==
  ASSUME NEW h, Blocks(h), NEW text
  PROVE  Adds(h, Put(h, text), Fresh(h), text, 0)
<1>1. PICK p \in Nat \ {0} : p = Fresh(h) /\ p \notin DOMAIN h
  BY FreshIs
<1>2. PICK h2 : h2 = [q \in DOMAIN h \cup {p} |-> IF q = p THEN text ELSE h[q]]
  OBVIOUS
<1>3. Put(h, text) = h2
  BY <1>1, <1>2 DEF Put
<1>4. DOMAIN h2 = DOMAIN h \cup {p} /\ h2[p] = text /\ \A q \in DOMAIN h : h2[q] = h[q]
  BY <1>1, <1>2
<1>5. IsFiniteSet(DOMAIN h2) /\ Cardinality(DOMAIN h2) = Cardinality(DOMAIN h) + 1
  <2>1. IsFiniteSet(DOMAIN h)
    BY DEF Blocks
  <2> QED  BY <1>1, <1>4, <2>1, FS_AddElement
<1>6. Cardinality(DOMAIN h) \in Nat
  BY FS_CardinalityType DEF Blocks
<1> QED  BY <1>1, <1>3, <1>4, <1>5, <1>6 DEF Adds, Blocks, Count

\* What Made makes: a block more, with the text.
LEMMA MadeIs ==
  ASSUME NEW h, Blocks(h), NEW text
  PROVE  Adds(h, Made(h, text).h, Made(h, text).p, text, 0)
BY PutIs DEF Made

\* What free leaves: all blocks but the one.
LEMMA FreeIs ==
  ASSUME NEW h, Blocks(h), NEW p \in DOMAIN h
  PROVE  /\ Blocks(free(h, p)) /\ DOMAIN free(h, p) = DOMAIN h \ {p}
         /\ \A q \in DOMAIN h \ {p} : free(h, p)[q] = h[q]
         /\ Count(free(h, p)) = Count(h) - 1
<1>1. /\ DOMAIN free(h, p) = DOMAIN h \ {p}
      /\ \A q \in DOMAIN h \ {p} : free(h, p)[q] = h[q]
  BY DEF free
<1>2. IsFiniteSet(DOMAIN h \ {p}) /\ Cardinality(DOMAIN h \ {p}) = Cardinality(DOMAIN h) - 1
  <2>1. IsFiniteSet(DOMAIN h)
    BY DEF Blocks
  <2> QED  BY <2>1, FS_RemoveElement
<1> QED  BY <1>1, <1>2 DEF Blocks, Count

\* One addition after another.
LEMMA AddsBoth ==
  ASSUME NEW h, NEW h1, NEW p1, NEW t1, Adds(h, h1, p1, t1, 0),
         NEW h2, NEW p2, NEW t2, Adds(h1, h2, p2, t2, 0), Blocks(h)
  PROVE  Adds(h, h2, p2, t2, 1)
<1>1. Count(h) \in Nat
  BY FS_CardinalityType DEF Blocks, Count
<1>2. Count(h2) = Count(h) + 1 + 1
  BY <1>1 DEF Adds
<1> QED  BY <1>2 DEF Adds

-----------------------------------------------------------------------------
(* The constructor                                                            *)

Lost(arg) == IF arg.kind = "number" /\ arg.n < 0 THEN 1 ELSE 0

\* What an argument may be: a String only if it is in h.
Valid(h, arg) ==
  /\ arg \in Args
  /\ arg.kind = "String" => data[arg.of] \in DOMAIN h /\ h[data[arg.of]] = value[arg.of]

\* The three kinds of arguments.
LEMMA ArgIs ==
  ASSUME NEW arg \in Args
  PROVE  \/ arg.kind = "text" /\ arg.text \in Literals
         \/ arg.kind = "number" /\ arg.n \in Numbers
         \/ arg.kind = "String" /\ arg.of \in Names
BY DEF Args

\* An argument converted is a new block with its text, and a lost one if it is negative.
LEMMA ConvertedIs ==
  ASSUME NEW h, Blocks(h), NEW arg, Valid(h, arg)
  PROVE  Adds(h, to_cstr(h, arg).h, to_cstr(h, arg).p, ArgText(arg), Lost(arg))
<1>1. CASE arg.kind = "text"
  <2>1. to_cstr(h, arg) = Made(h, arg.text) /\ ArgText(arg) = arg.text /\ Lost(arg) = 0
    BY <1>1 DEF to_cstr, ArgText, Lost
  <2> QED  BY <2>1, MadeIs
<1>2. CASE arg.kind = "String"
  <2>1. to_cstr(h, arg) = Made(h, Read(h, data[arg.of])) /\ ArgText(arg) = value[arg.of]
        /\ Lost(arg) = 0
    BY <1>2 DEF to_cstr, ArgText, Lost
  <2>2. Read(h, data[arg.of]) = value[arg.of]
    BY <1>2 DEF Valid, Read
  <2> QED  BY <2>1, <2>2, MadeIs
<1>3. CASE arg.kind = "number"
  <2>1. arg.n \in Int
    <3>1. arg.n \in Numbers
      BY <1>3, ArgIs DEF Valid
    <3> QED  BY <3>1, NumbersAreIntegers
  <2>2. to_cstr(h, arg) = to_string(h, arg.n)
        /\ ArgText(arg) = IF arg.n < 0 THEN <<Minus>> \o Decimal[-arg.n] ELSE Decimal[arg.n]
    BY <1>3 DEF to_cstr, ArgText
  <2>3. CASE arg.n >= 0
    <3>1. to_cstr(h, arg) = Made(h, Decimal[arg.n]) /\ ArgText(arg) = Decimal[arg.n]
          /\ Lost(arg) = 0
      BY <2>1, <2>2, <2>3 DEF to_string, Lost
    <3> QED  BY <3>1, MadeIs
  <2>4. CASE arg.n < 0
    <3>1. PICK h1, t1, t2 : t1 = Decimal[-arg.n] /\ t2 = <<Minus>> \o t1 /\ h1 = Put(h, t1)
      OBVIOUS
    <3>2. to_cstr(h, arg) = Made(h1, t2) /\ ArgText(arg) = t2 /\ Lost(arg) = 1
      BY <1>3, <2>1, <2>2, <2>4, <3>1 DEF to_string, Lost
    <3>3. Adds(h, h1, Fresh(h), t1, 0)
      BY <3>1, PutIs
    <3>4. Blocks(h1)
      BY <3>3 DEF Adds
    <3>5. Adds(h1, Made(h1, t2).h, Made(h1, t2).p, t2, 0)
      BY <3>4, MadeIs
    <3>6. Adds(h, Made(h1, t2).h, Made(h1, t2).p, t2, 1)
      BY <3>3, <3>5, AddsBoth
    <3> QED  BY <3>2, <3>6
  <2> QED  BY <2>1, <2>3, <2>4
<1> QED  BY <1>1, <1>2, <1>3, ArgIs DEF Valid

\* One argument converted.
Convert(acc, arg) ==
  LET part == to_cstr(acc.h, arg) IN [h |-> part.h, parts |-> Append(acc.parts, part.p)]

Converting == INSTANCE SequenceFolds WITH step <- Convert

NoParts == [h |-> heap, parts |-> <<>>]
Converted(args) == Converting!FoldLeft(Convert, NoParts, args)

\* One part added, and freed with the text that it was added to.
Combine(acc, part) ==
  LET combined == str_combine(acc.h, acc.p, part)
  IN  [combined EXCEPT !.h = free(free(@, acc.p), part)]

Combining == INSTANCE SequenceFolds WITH step <- Combine

\* Compose is one fold after another.
LEMMA ComposeIs ==
  ASSUME NEW args
  PROVE  Compose(args) = Combining!FoldLeft(Combine, Made(Converted(args).h, <<>>), Converted(args).parts)
BY DEF Compose, Convert, Converted, NoParts, Combine, FoldLeft, Converting!FoldLeft, Combining!FoldLeft,
       MapThenFoldSet, Converting!MapThenFoldSet, Combining!MapThenFoldSet,
       Max, Converting!Max, Combining!Max

\* The numbers among the first i arguments that lose a block.
NegativeUpTo(args, i) == {j \in 1 .. i : args[j].kind = "number" /\ args[j].n < 0}

\* After i arguments.
ConvertedUpTo(args, acc, i) ==
  /\ Blocks(acc.h)
  /\ \A q \in DOMAIN heap : q \in DOMAIN acc.h /\ acc.h[q] = heap[q]
  /\ acc.parts \in Seq(Nat) /\ Len(acc.parts) = i
  /\ \A j \in 1 .. i : /\ acc.parts[j] \in DOMAIN acc.h /\ acc.parts[j] \notin DOMAIN heap
                       /\ acc.h[acc.parts[j]] = ArgText(args[j])
  /\ \A j, k \in 1 .. i : acc.parts[j] = acc.parts[k] => j = k
  /\ Count(acc.h) = Count(heap) + i + Cardinality(NegativeUpTo(args, i))

\* One more argument that loses a block, or not.
LEMMA NegativeMore ==
  ASSUME NEW args, NEW i \in Nat
  PROVE  /\ Cardinality(NegativeUpTo(args, i)) \in Nat
         /\ Cardinality(NegativeUpTo(args, i + 1))
              = Cardinality(NegativeUpTo(args, i)) + Lost(args[i + 1])
<1> DEFINE S == NegativeUpTo(args, i)
<1>1. IsFiniteSet(S)
  <2>1. IsFiniteSet(1 .. i) /\ S \subseteq 1 .. i
    BY FS_Interval DEF NegativeUpTo
  <2> QED  BY <2>1, FS_Subset
<1>2. PICK m \in Nat : m = i + 1
  OBVIOUS
<1>3. Cardinality(S) \in Nat
  BY <1>1, FS_CardinalityType
<1>4. \A j : j \in 1 .. m <=> j \in 1 .. i \/ j = m
  BY <1>2
<1>5. m \notin 1 .. i
  BY <1>2
<1>6. CASE Lost(args[m]) = 1
  <2>1. NegativeUpTo(args, m) = S \cup {m}
    BY <1>4, <1>6 DEF NegativeUpTo, Lost
  <2>2. m \notin S
    BY <1>5 DEF NegativeUpTo
  <2>3. Cardinality(S \cup {m}) = Cardinality(S) + 1
    BY <1>1, <2>2, FS_AddElement
  <2> QED  BY <1>2, <1>3, <1>6, <2>1, <2>3
<1>7. CASE Lost(args[m]) = 0
  <2>1. NegativeUpTo(args, m) = S
    BY <1>4, <1>7 DEF NegativeUpTo, Lost
  <2> QED  BY <1>2, <1>3, <1>7, <2>1
<1> QED  BY <1>2, <1>6, <1>7 DEF Lost

\* A round of the first loop of the constructor.
LEMMA OneMoreConverted ==
  ASSUME Blocks(heap), NEW args, NEW i \in Nat, NEW acc, ConvertedUpTo(args, acc, i),
         Valid(heap, args[i + 1])
  PROVE  ConvertedUpTo(args, Convert(acc, args[i + 1]), i + 1)
<1>1. PICK m \in Nat \ {0} : m = i + 1
  OBVIOUS
<1>2. PICK arg, h, parts : arg = args[m] /\ h = acc.h /\ parts = acc.parts
  OBVIOUS
<1>3. PICK h2, p : h2 = to_cstr(h, arg).h /\ p = to_cstr(h, arg).p
  OBVIOUS
<1>4. /\ Blocks(h) /\ parts \in Seq(Nat) /\ Len(parts) = i
      /\ \A q \in DOMAIN heap : q \in DOMAIN h /\ h[q] = heap[q]
      /\ \A j \in 1 .. i : /\ parts[j] \in DOMAIN h /\ parts[j] \notin DOMAIN heap
                           /\ h[parts[j]] = ArgText(args[j])
      /\ \A j, k \in 1 .. i : parts[j] = parts[k] => j = k
      /\ Count(h) = Count(heap) + i + Cardinality(NegativeUpTo(args, i))
  BY <1>2 DEF ConvertedUpTo
<1>5. Valid(h, arg)
  BY <1>1, <1>2, <1>4 DEF Valid
<1>6. Adds(h, h2, p, ArgText(arg), Lost(arg))
  BY <1>3, <1>4, <1>5, ConvertedIs
<1>7. p \in Nat
  BY <1>6 DEF Adds, Blocks
<1>8. PICK ps \in Seq(Nat) : ps = Append(parts, p)
  <2>1. Append(parts, p) \in Seq(Nat)
    BY <1>4, <1>7, AppendProperties
  <2> QED  BY <2>1
<1>9. Len(ps) = m /\ ps[m] = p /\ \A j \in 1 .. i : ps[j] = parts[j]
  BY <1>1, <1>4, <1>7, <1>8
<1>10. Convert(acc, arg) = [h |-> h2, parts |-> ps]
  BY <1>2, <1>3, <1>8 DEF Convert
<1>11. \A j : j \in 1 .. m <=> j \in 1 .. i \/ j = m
  BY <1>1
<1>12. /\ Blocks(h2)
       /\ \A q \in DOMAIN heap : q \in DOMAIN h2 /\ h2[q] = heap[q]
  BY <1>4, <1>6 DEF Adds
<1>13. ASSUME NEW j \in 1 .. m
       PROVE  /\ ps[j] \in DOMAIN h2 /\ ps[j] \notin DOMAIN heap
              /\ h2[ps[j]] = ArgText(args[j])
  <2>1. CASE j = m
    BY <1>2, <1>4, <1>6, <1>9, <2>1 DEF Adds
  <2>2. CASE j \in 1 .. i
    BY <1>4, <1>6, <1>9, <2>2 DEF Adds
  <2> QED  BY <1>11, <2>1, <2>2
<1>14. ASSUME NEW j \in 1 .. m, NEW k \in 1 .. m, ps[j] = ps[k] PROVE j = k
  <2>1. \A l \in 1 .. i : ps[l] \in DOMAIN h
    BY <1>4, <1>9
  <2>2. ps[m] \notin DOMAIN h
    BY <1>6, <1>9 DEF Adds
  <2>3. CASE j \in 1 .. i /\ k \in 1 .. i
    BY <1>4, <1>9, <1>14, <2>3
  <2> QED  BY <1>11, <1>14, <2>1, <2>2, <2>3
<1>15. Count(h2) = Count(heap) + m + Cardinality(NegativeUpTo(args, m))
  <2>1. PICK a, b : a = Cardinality(NegativeUpTo(args, i)) /\ b = Lost(arg)
    OBVIOUS
  <2>2. a \in Nat /\ b \in Nat /\ Cardinality(NegativeUpTo(args, m)) = a + b
    BY <1>1, <1>2, <2>1, NegativeMore DEF Lost
  <2>3. Count(heap) \in Nat
    BY FS_CardinalityType DEF Blocks, Count
  <2>4. Count(h2) = Count(h) + 1 + b /\ Count(h) = Count(heap) + i + a
    BY <1>4, <1>6, <2>1 DEF Adds
  <2> QED  BY <1>1, <2>2, <2>3, <2>4
<1> HIDE DEF ConvertedUpTo
<1>16. ConvertedUpTo(args, [h |-> h2, parts |-> ps], m)
  BY <1>8, <1>9, <1>12, <1>13, <1>14, <1>15 DEF ConvertedUpTo
<1> QED  BY <1>1, <1>2, <1>10, <1>16

\* All its rounds.
LEMMA AllConverted ==
  ASSUME Blocks(heap), NEW n \in Nat, NEW args \in [1 .. n -> Args],
         \A i \in 1 .. n : Valid(heap, args[i])
  PROVE  ConvertedUpTo(args, Converted(args), n)
<1>1. args \in Seq(Args) /\ Len(args) = n
  OBVIOUS
<1>2. PICK g : Converting!Runs(g, NoParts, args) /\ Converted(args) = g[n]
  BY <1>1, Converting!FoldIs DEF Converted
<1> DEFINE T == {i \in 0 .. n : ConvertedUpTo(args, g[i], i)}
<1>3. 0 \in T
  <2>1. g[0] = NoParts
    BY <1>2 DEF Converting!Runs
  <2>2. NegativeUpTo(args, 0) = {} /\ Cardinality({}) = 0
    BY FS_EmptySet DEF NegativeUpTo
  <2>3. Count(heap) \in Nat
    BY FS_CardinalityType DEF Blocks, Count
  <2>4. <<>> \in Seq(Nat) /\ Len(<<>>) = 0
    OBVIOUS
  <2>5. ConvertedUpTo(args, NoParts, 0)
    BY <2>2, <2>3, <2>4 DEF ConvertedUpTo, NoParts
  <2> QED  BY <2>1, <2>5
<1>4. ASSUME NEW i \in 0 .. n - 1, i \in T PROVE i + 1 \in T
  <2>1. i + 1 \in 1 .. n /\ i + 1 \in 0 .. n /\ (i + 1) - 1 = i /\ i \in Nat
    OBVIOUS
  <2>2. g[i + 1] = Convert(g[i], args[i + 1])
    BY <1>1, <1>2, <2>1 DEF Converting!Runs
  <2>3. Valid(heap, args[i + 1])
    BY <2>1
  <2>4. ConvertedUpTo(args, Convert(g[i], args[i + 1]), i + 1)
    BY <1>4, <2>1, <2>3, OneMoreConverted
  <2> QED  BY <2>1, <2>2, <2>4
<1> HIDE DEF T
<1>5. \A i \in 0 .. n : i \in T
  BY <1>3, <1>4, Reading!UpTo
<1>6. n \in T
  BY <1>5
<1> QED  BY <1>2, <1>6 DEF T

\* After i of the n parts of conv have been added, which makes the text t.
CombinedUpTo(args, n, conv, acc, t, i) ==
  /\ Blocks(acc.h)
  /\ \A q \in DOMAIN heap : q \in DOMAIN acc.h /\ acc.h[q] = heap[q]
  /\ acc.p \in DOMAIN acc.h /\ acc.p \notin DOMAIN heap /\ acc.h[acc.p] = t
  /\ \A j \in (i + 1) .. n : /\ conv.parts[j] \in DOMAIN acc.h /\ conv.parts[j] # acc.p
                             /\ acc.h[conv.parts[j]] = ArgText(args[j])
  /\ Count(acc.h) = Count(conv.h) + 1 - i

\* A round of the second loop, which frees the text so far and the part added.
LEMMA OneMoreCombined ==
  ASSUME NEW args, NEW n \in Nat, NEW conv, ConvertedUpTo(args, conv, n),
         NEW i \in 0 .. n - 1, NEW t, NEW acc, CombinedUpTo(args, n, conv, acc, t, i)
  PROVE  CombinedUpTo(args, n, conv, Combine(acc, conv.parts[i + 1]), t \o ArgText(args[i + 1]), i + 1)
<1>1. PICK m \in 1 .. n : m = i + 1
  OBVIOUS
<1>2. PICK h, p, parts, u : h = acc.h /\ p = acc.p /\ parts = conv.parts /\ u = t \o ArgText(args[m])
  OBVIOUS
<1>3. /\ Blocks(h) /\ p \in DOMAIN h /\ p \notin DOMAIN heap /\ h[p] = t
      /\ \A q \in DOMAIN heap : q \in DOMAIN h /\ h[q] = heap[q]
      /\ \A j \in m .. n : parts[j] \in DOMAIN h /\ parts[j] # p /\ h[parts[j]] = ArgText(args[j])
      /\ Count(h) = Count(conv.h) + 1 - i
  BY <1>1, <1>2 DEF CombinedUpTo
<1>4. /\ \A j \in 1 .. n : parts[j] \notin DOMAIN heap
      /\ \A j, k \in 1 .. n : parts[j] = parts[k] => j = k
      /\ Blocks(conv.h)
  BY <1>2 DEF ConvertedUpTo
<1>5. PICK part : part = parts[m] /\ part \in DOMAIN h /\ part # p /\ part \notin DOMAIN heap
                  /\ h[part] = ArgText(args[m])
  <2>1. m \in m .. n /\ m \in 1 .. n
    OBVIOUS
  <2> QED  BY <1>3, <1>4, <2>1
<1>6. PICK h2, p2 : h2 = Made(h, u).h /\ p2 = Made(h, u).p
  OBVIOUS
<1>7. str_combine(h, p, part) = Made(h, u) /\ Made(h, u) = [h |-> h2, p |-> p2]
  <2>1. Read(h, p) = t /\ Read(h, part) = ArgText(args[m])
    BY <1>3, <1>5 DEF Read
  <2> QED  BY <1>2, <1>6, <2>1 DEF str_combine, Made
<1>8. Adds(h, h2, p2, u, 0)
  BY <1>3, <1>6, MadeIs
<1>9. PICK h3, h4 : h3 = free(h2, p) /\ h4 = free(h3, part)
  OBVIOUS
<1>10. Combine(acc, part) = [h |-> h4, p |-> p2]
  BY <1>2, <1>7, <1>9 DEF Combine
<1>11. /\ Blocks(h3) /\ DOMAIN h3 = DOMAIN h2 \ {p}
       /\ \A q \in DOMAIN h3 : h3[q] = h2[q]
       /\ Count(h3) = Count(h2) - 1
  <2>1. Blocks(h2) /\ p \in DOMAIN h2
    BY <1>3, <1>8 DEF Adds
  <2> QED  BY <1>9, <2>1, FreeIs
<1>12. /\ Blocks(h4) /\ DOMAIN h4 = DOMAIN h3 \ {part}
       /\ \A q \in DOMAIN h4 : h4[q] = h3[q]
       /\ Count(h4) = Count(h3) - 1
  <2>1. part \in DOMAIN h3
    BY <1>5, <1>8, <1>11 DEF Adds
  <2> QED  BY <1>9, <1>11, <2>1, FreeIs
<1>13. /\ DOMAIN h4 = DOMAIN h2 \ {p, part}
       /\ \A q \in DOMAIN h4 : h4[q] = h2[q]
  BY <1>11, <1>12
<1>14. \A q \in DOMAIN h : q # p /\ q # part => q \in DOMAIN h4 /\ h4[q] = h[q]
  BY <1>8, <1>13 DEF Adds
<1>15. p2 \in DOMAIN h4 /\ p2 \notin DOMAIN h /\ h4[p2] = u
  BY <1>3, <1>5, <1>8, <1>13 DEF Adds
<1>16. ASSUME NEW j \in (m + 1) .. n
       PROVE  parts[j] \in DOMAIN h4 /\ parts[j] # p2 /\ h4[parts[j]] = ArgText(args[j])
  <2>1. j \in m .. n /\ j \in 1 .. n /\ j # m
    OBVIOUS
  <2>2. parts[j] \in DOMAIN h /\ parts[j] # p /\ h[parts[j]] = ArgText(args[j])
    BY <1>3, <2>1
  <2>3. parts[j] # part
    BY <1>4, <1>5, <2>1
  <2> QED  BY <1>14, <1>15, <2>2, <2>3
<1>17. Count(h4) = Count(conv.h) + 1 - m
  <2>1. Count(conv.h) \in Nat
    BY <1>4, FS_CardinalityType DEF Blocks, Count
  <2>2. Count(h2) = Count(h) + 1 + 0
    BY <1>8 DEF Adds
  <2> QED  BY <1>1, <1>3, <1>11, <1>12, <2>1, <2>2
<1>18. \A q \in DOMAIN heap : q \in DOMAIN h4 /\ h4[q] = heap[q]
  BY <1>3, <1>5, <1>14
<1>19. p2 \notin DOMAIN heap
  BY <1>3, <1>15
<1>20. CombinedUpTo(args, n, conv, [h |-> h4, p |-> p2], u, m)
  BY <1>2, <1>12, <1>15, <1>16, <1>17, <1>18, <1>19 DEF CombinedUpTo
<1> QED  BY <1>1, <1>2, <1>5, <1>10, <1>20

\* What the constructor makes: one new block with what the arguments say, and the blocks
\* that negative numbers lose; nothing else is changed.
LEMMA Composed ==
  ASSUME Blocks(heap), NEW X, NEW n \in Nat, NEW args \in [1 .. n -> Args],
         \A i \in 1 .. n : Valid(heap, args[i]) /\ ArgText(args[i]) \in Seq(X)
  PROVE  /\ Adds(heap, Compose(args).h, Compose(args).p,
                 FlattenSeq([i \in DOMAIN args |-> ArgText(args[i])]), Cardinality(Negative(args)))
         /\ FlattenSeq([i \in DOMAIN args |-> ArgText(args[i])]) \in Seq(X)
<1>1. PICK conv : conv = Converted(args)
  OBVIOUS
<1>2. ConvertedUpTo(args, conv, n)
  BY <1>1, AllConverted
<1>3. PICK ss : ss = [i \in 1 .. n |-> ArgText(args[i])]
  OBVIOUS
<1>4. ss \in Seq(Seq(X)) /\ Len(ss) = n
  BY <1>3
<1>5. PICK J : Reading!Joins(J, X, ss) /\ Reading!FlattenSeq(ss) = J[n]
  BY <1>4, Reading!FlattenIs
<1>6. FlattenSeq([i \in DOMAIN args |-> ArgText(args[i])]) = J[n]
  <2>1. DOMAIN args = 1 .. n
    OBVIOUS
  <2>2. FlattenSeq(ss) = Reading!FlattenSeq(ss)
    BY DEF FlattenSeq, Reading!FlattenSeq
  <2> QED  BY <1>3, <1>5, <2>1, <2>2, Zenon
<1>7. conv.parts \in Seq(Nat) /\ Len(conv.parts) = n /\ Blocks(conv.h)
  BY <1>2 DEF ConvertedUpTo
<1>8. PICK first : first = Made(conv.h, <<>>)
  OBVIOUS
<1>9. PICK g : Combining!Runs(g, first, conv.parts)
               /\ Combining!FoldLeft(Combine, first, conv.parts) = g[n]
  BY <1>7, Combining!FoldIs
<1>10. Compose(args) = g[n]
  BY <1>1, <1>8, <1>9, ComposeIs
<1> DEFINE T == {i \in 0 .. n : CombinedUpTo(args, n, conv, g[i], J[i], i)}
<1>11. 0 \in T
  <2>1. g[0] = first /\ J[0] = <<>>
    BY <1>5, <1>9 DEF Combining!Runs, Reading!Joins
  <2>2. Adds(conv.h, first.h, first.p, <<>>, 0)
    BY <1>7, <1>8, MadeIs
  <2>3. \A j \in (0 + 1) .. n : j \in 1 .. n
    OBVIOUS
  <2>4. /\ Blocks(first.h)
        /\ \A q \in DOMAIN heap : q \in DOMAIN first.h /\ first.h[q] = heap[q]
        /\ first.p \in DOMAIN first.h /\ first.p \notin DOMAIN heap /\ first.h[first.p] = <<>>
    BY <1>2, <2>2 DEF Adds, ConvertedUpTo
  <2>5. \A j \in 1 .. n : /\ conv.parts[j] \in DOMAIN first.h /\ conv.parts[j] # first.p
                          /\ first.h[conv.parts[j]] = ArgText(args[j])
    BY <1>2, <2>2 DEF Adds, ConvertedUpTo
  <2>6. Count(first.h) = Count(conv.h) + 1 - 0
    <3>1. Count(conv.h) \in Nat
      BY <1>7, FS_CardinalityType DEF Blocks, Count
    <3>2. Count(first.h) = Count(conv.h) + 1 + 0
      BY <2>2 DEF Adds
    <3> QED  BY <3>1, <3>2
  <2>7. CombinedUpTo(args, n, conv, first, <<>>, 0)
    BY <2>3, <2>4, <2>5, <2>6 DEF CombinedUpTo
  <2> QED  BY <2>1, <2>7
<1>12. ASSUME NEW i \in 0 .. n - 1, i \in T PROVE i + 1 \in T
  <2>1. i + 1 \in 1 .. n /\ i + 1 \in 0 .. n /\ (i + 1) - 1 = i
    OBVIOUS
  <2>2. g[i + 1] = Combine(g[i], conv.parts[i + 1])
    BY <1>7, <1>9, <2>1 DEF Combining!Runs
  <2>3. J[i + 1] = J[i] \o ArgText(args[i + 1])
    <3>1. J[i + 1] = J[i] \o ss[i + 1]
      BY <1>4, <1>5, <2>1 DEF Reading!Joins
    <3>2. ss[i + 1] = ArgText(args[i + 1])
      BY <1>3, <2>1
    <3> QED  BY <3>1, <3>2
  <2>4. CombinedUpTo(args, n, conv, g[i], J[i], i)
    BY <1>12
  <2>5. CombinedUpTo(args, n, conv, Combine(g[i], conv.parts[i + 1]), J[i] \o ArgText(args[i + 1]), i + 1)
    BY <1>2, <2>4, OneMoreCombined
  <2> QED  BY <2>1, <2>2, <2>3, <2>5
<1>13. \A i \in 0 .. n : i \in T
  <2> HIDE DEF T
  <2> QED  BY <1>11, <1>12, Reading!UpTo
<1>14. CombinedUpTo(args, n, conv, g[n], J[n], n)
  <2>1. n \in T
    BY <1>13
  <2> QED  BY <2>1
<1>15. Count(g[n].h) = Count(heap) + 1 + Cardinality(Negative(args))
  <2>1. PICK a : a = Cardinality(NegativeUpTo(args, n))
    OBVIOUS
  <2>2. Negative(args) = NegativeUpTo(args, n) /\ a \in Nat
    BY <2>1, NegativeMore DEF Negative, NegativeUpTo
  <2>3. Count(conv.h) = Count(heap) + n + a /\ Count(g[n].h) = Count(conv.h) + 1 - n
    BY <1>2, <1>14, <2>1 DEF ConvertedUpTo, CombinedUpTo
  <2>4. Count(heap) \in Nat
    BY FS_CardinalityType DEF Blocks, Count
  <2> QED  BY <2>1, <2>2, <2>3, <2>4
<1>16. Adds(heap, g[n].h, g[n].p, J[n], Cardinality(Negative(args)))
  BY <1>14, <1>15 DEF CombinedUpTo, Adds
<1>17. J[n] \in Seq(X)
  BY <1>4, <1>5 DEF Reading!Joins
<1> QED  BY <1>6, <1>10, <1>16, <1>17

-----------------------------------------------------------------------------
(* The invariant                                                              *)

Chars == DigitChars \cup {Minus} \cup UNION {Range(text) : text \in Literals}

TypeOK ==
  /\ Blocks(heap) /\ leaks \in Nat /\ IsFiniteSet(Objects)
  /\ data \in [Names -> Nat] /\ value \in [Names -> Seq(Chars)]
  /\ number \in [Names -> SUBSET Numbers]

\* Every object owns one block and nothing else is in use but the lost ones, and an object
\* made of a number has that number's text.
IInv ==
  /\ TypeOK
  /\ \A x \in Objects : data[x] \in DOMAIN heap /\ heap[data[x]] = value[x]
  /\ \A x, y \in Objects : data[x] = data[y] => x = y
  /\ Count(heap) = Cardinality(Objects) + leaks
  /\ \A x \in Objects : \A n \in number[x] : value[x] = NumberText(n)

\* The texts of literals and numbers.
LEMMA TextsAreChars ==
  /\ \A text \in Literals : text \in Seq(Chars)
  /\ \A n \in Numbers : NumberText(n) \in Seq(Chars)
<1>1. ASSUME NEW text \in Literals PROVE text \in Seq(Chars)
  <2>1. text \in Seq(Range(text)) /\ Range(text) \subseteq Chars
    BY StringsAssumption DEF Chars
  <2>2. PICK R, C : R = Range(text) /\ C = Chars
    OBVIOUS
  <2>3. text \in Seq(R) /\ R \subseteq C
    BY <2>1, <2>2
  <2>4. text \in Seq(C)
    BY <2>3
  <2> QED  BY <2>2, <2>4
<1>2. ASSUME NEW n \in Numbers PROVE NumberText(n) \in Seq(Chars)
  <2>1. n \in Int
    BY NumbersAreIntegers
  <2>2. PICK C : C = Chars /\ DigitChars \subseteq C /\ Minus \in C
    <3>1. DigitChars \subseteq Chars /\ Minus \in Chars
      BY DEF Chars
    <3> QED  BY <3>1, Zenon
  <2>3. ASSUME NEW m \in Nat PROVE Decimal[m] \in Seq(C)
    <3>1. PICK d \in Seq(DigitChars) : d = Decimal[m]
      BY DecimalDigits, Zenon
    <3> QED  BY <2>2, <3>1
  <2>4. CASE n < 0
    <3>1. PICK m \in Nat : m = -n
      BY <2>1, <2>4
    <3>2. PICK d \in Seq(C) : d = Decimal[m]
      BY <2>3
    <3>3. PICK e \in C : e = Minus
      BY <2>2
    <3>4. <<e>> \o d \in Seq(C)
      OBVIOUS
    <3> QED  BY <2>2, <2>4, <3>1, <3>2, <3>3, <3>4 DEF NumberText
  <2>5. CASE ~(n < 0)
    <3>1. n \in Nat
      BY <2>1, <2>5
    <3> QED  BY <2>2, <2>3, <2>5, <3>1 DEF NumberText
  <2> QED  BY <2>4, <2>5
<1> QED  BY <1>1, <1>2

\* A new object with a block of its own.
LEMMA Born ==
  ASSUME IInv, NEW x \in Names \ Objects, NEW made, NEW text \in Seq(Chars), NEW k \in Nat,
         NEW S \in SUBSET Numbers, \A n \in S : text = NumberText(n),
         Adds(heap, made.h, made.p, text, k), Becomes(x, made, text, S), leaks' = leaks + k
  PROVE  IInv'
<1>1. PICK h, p : h = made.h /\ p = made.p
  OBVIOUS
<1>2. /\ heap' = h /\ data' = [data EXCEPT ![x] = p] /\ value' = [value EXCEPT ![x] = text]
      /\ number' = [number EXCEPT ![x] = S]
  BY <1>1 DEF Becomes
<1>3. Adds(heap, h, p, text, k)
  BY <1>1
<1>4. p \in Nat \ {0} /\ Blocks(h)
  BY <1>3 DEF Adds, Blocks
<1>5. Objects' = Objects \cup {x}
  BY <1>2, <1>4 DEF Objects, nullptr, IInv, TypeOK
<1>6. IsFiniteSet(Objects') /\ Cardinality(Objects') = Cardinality(Objects) + 1
  BY <1>5, FS_AddElement DEF IInv, TypeOK
<1>7. Cardinality(Objects) \in Nat
  BY FS_CardinalityType DEF IInv, TypeOK
<1>8. TypeOK'
  BY <1>2, <1>4, <1>6 DEF IInv, TypeOK, Blocks
<1>9. ASSUME NEW y \in Objects'
      PROVE  /\ data'[y] \in DOMAIN heap' /\ heap'[data'[y]] = value'[y]
             /\ \A n \in number'[y] : value'[y] = NumberText(n)
  <2>1. CASE y = x
    BY <1>2, <1>3, <2>1 DEF Adds, IInv, TypeOK
  <2>2. CASE y # x
    <3>1. y \in Objects /\ data'[y] = data[y] /\ value'[y] = value[y] /\ number'[y] = number[y]
      BY <1>2, <1>5, <2>2 DEF IInv, TypeOK
    <3> QED  BY <1>2, <1>3, <3>1 DEF Adds, IInv
  <2> QED  BY <2>1, <2>2
<1>10. ASSUME NEW y \in Objects', NEW z \in Objects', data'[y] = data'[z] PROVE y = z
  <2>1. \A w \in Objects : data[w] # p
    BY <1>3 DEF Adds, IInv
  <2>2. data'[x] = p /\ \A w \in Objects : w # x => data'[w] = data[w]
    BY <1>2 DEF IInv, TypeOK, Objects
  <2> QED  BY <1>5, <1>10, <2>1, <2>2 DEF IInv
<1>11. Count(heap)' = Cardinality(Objects') + leaks'
  <2>1. Count(heap) = Cardinality(Objects) + leaks /\ leaks \in Nat
    BY DEF IInv, TypeOK
  <2>2. Count(h) = Count(heap) + 1 + k
    BY <1>3 DEF Adds
  <2>3. Count(heap)' = Count(h)
    BY <1>2 DEF Count
  <2> QED  BY <1>6, <1>7, <2>1, <2>2, <2>3
<1> QED  BY <1>8, <1>9, <1>10, <1>11 DEF IInv

\* A new text in place of an object's old one.
LEMMA Renewed ==
  ASSUME IInv, NEW x \in Objects, NEW made, NEW text \in Seq(Chars),
         NEW S \in SUBSET Numbers, \A n \in S : text = NumberText(n),
         Adds(heap, made.h, made.p, text, 0), NEW left,
         left.h = free(made.h, data[x]) /\ left.p = made.p,
         Becomes(x, left, text, S), leaks' = leaks
  PROVE  IInv'
<1>1. PICK h, p, old : h = made.h /\ p = made.p /\ old = data[x]
  OBVIOUS
<1>2. Adds(heap, h, p, text, 0) /\ x \in Names
  BY <1>1 DEF Objects
<1>3. old \in DOMAIN heap /\ old \in DOMAIN h /\ p # old /\ Blocks(h)
  BY <1>1, <1>2 DEF Adds, IInv
<1>4. PICK h2 : h2 = free(h, old)
  OBVIOUS
<1>5. /\ Blocks(h2) /\ DOMAIN h2 = DOMAIN h \ {old} /\ Count(h2) = Count(h) - 1
      /\ \A q \in DOMAIN h \ {old} : h2[q] = h[q]
  BY <1>3, <1>4, FreeIs
<1>6. /\ heap' = h2 /\ data' = [data EXCEPT ![x] = p] /\ value' = [value EXCEPT ![x] = text]
      /\ number' = [number EXCEPT ![x] = S]
  BY <1>1, <1>4 DEF Becomes
<1>7. p \in Nat \ {0} /\ p \in DOMAIN h2 /\ h2[p] = text
  BY <1>2, <1>3, <1>5 DEF Adds, Blocks
<1>8. Objects' = Objects
  BY <1>2, <1>6, <1>7 DEF Objects, nullptr, IInv, TypeOK
<1>9. TypeOK'
  BY <1>2, <1>5, <1>6, <1>7, <1>8 DEF IInv, TypeOK, Blocks
<1>10. ASSUME NEW y \in Objects, y # x
       PROVE  /\ data'[y] = data[y] /\ value'[y] = value[y] /\ number'[y] = number[y]
              /\ data[y] # old /\ data[y] # p /\ data[y] \in DOMAIN h2 /\ h2[data[y]] = value[y]
  <2>1. data'[y] = data[y] /\ value'[y] = value[y] /\ number'[y] = number[y] /\ y \in Names
    BY <1>6, <1>10 DEF IInv, TypeOK, Objects
  <2>2. data[y] # old /\ data[y] \in DOMAIN heap /\ heap[data[y]] = value[y]
    BY <1>1, <1>10 DEF IInv
  <2> QED  BY <1>2, <1>5, <2>1, <2>2 DEF Adds
<1>11. data'[x] = p /\ value'[x] = text /\ number'[x] = S
  BY <1>2, <1>6 DEF IInv, TypeOK
<1>12. ASSUME NEW y \in Objects
       PROVE  /\ data'[y] \in DOMAIN heap' /\ heap'[data'[y]] = value'[y]
              /\ \A n \in number'[y] : value'[y] = NumberText(n)
  <2>1. CASE y = x
    BY <1>6, <1>7, <1>11, <2>1
  <2>2. CASE y # x
    BY <1>6, <1>10, <2>2 DEF IInv
  <2> QED  BY <2>1, <2>2
<1>13. ASSUME NEW y \in Objects, NEW z \in Objects, data'[y] = data'[z] PROVE y = z
  BY <1>10, <1>11, <1>13 DEF IInv
<1>14. Count(heap)' = Cardinality(Objects') + leaks'
  <2>1. Count(heap) = Cardinality(Objects) + leaks /\ Count(heap)' = Count(h2) /\ leaks' = leaks
    BY <1>6 DEF IInv, Count
  <2>2. Count(h) = Count(heap) + 1 + 0
    BY <1>2 DEF Adds
  <2>3. Count(heap) \in Nat
    BY FS_CardinalityType DEF Blocks, Count, IInv, TypeOK
  <2> QED  BY <1>5, <1>8, <2>1, <2>2, <2>3
<1> QED  BY <1>8, <1>9, <1>12, <1>13, <1>14 DEF IInv

-----------------------------------------------------------------------------
(* The actions                                                                *)

\* No object exists yet.
LEMMA InitOwned == Init => IInv
<1> SUFFICES ASSUME Init PROVE IInv
  OBVIOUS
<1>1. heap = <<>> /\ DOMAIN heap = {} /\ leaks = 0
  BY DEF Init
<1>2. Objects = {}
  BY DEF Init, Objects
<1>3. IsFiniteSet(Objects) /\ Cardinality(Objects) = 0 /\ Cardinality(DOMAIN heap) = 0
  BY <1>1, <1>2, FS_EmptySet
<1>4. data \in [Names -> Nat] /\ number \in [Names -> SUBSET Numbers]
  BY DEF Init, nullptr
<1>5. value \in [Names -> Seq(Chars)]
  <2>1. <<>> \in Seq(Chars)
    OBVIOUS
  <2> QED  BY <2>1 DEF Init
<1>6. TypeOK
  <2>1. IsFiniteSet(DOMAIN heap)
    BY <1>1, FS_EmptySet
  <2> QED  BY <1>1, <1>3, <1>4, <1>5, <2>1 DEF TypeOK, Blocks
<1> QED  BY <1>1, <1>2, <1>3, <1>6 DEF IInv, Count

\* What the arguments say is made of the characters there are.
LEMMA ArgumentsOwned ==
  ASSUME IInv, NEW arg \in Args, arg.kind = "String" => arg.of \in Objects
  PROVE  Valid(heap, arg) /\ ArgText(arg) \in Seq(Chars)
<1>1. Valid(heap, arg)
  BY DEF Valid, IInv
<1>2. CASE arg.kind = "text" /\ arg.text \in Literals
  <2>1. ArgText(arg) = arg.text
    BY <1>2 DEF ArgText
  <2> QED  BY <1>1, <1>2, <2>1, TextsAreChars
<1>3. CASE arg.kind = "number" /\ arg.n \in Numbers
  <2>1. ArgText(arg) = NumberText(arg.n)
    BY <1>3 DEF ArgText, NumberText
  <2> QED  BY <1>1, <1>3, <2>1, TextsAreChars
<1>4. CASE arg.kind = "String" /\ arg.of \in Names
  <2>1. ArgText(arg) = value[arg.of]
    BY <1>4 DEF ArgText
  <2>2. value[arg.of] \in Seq(Chars)
    BY <1>4 DEF IInv, TypeOK
  <2> QED  BY <1>1, <2>1, <2>2
<1> QED  BY <1>2, <1>3, <1>4, ArgIs

\* What one number says is its text.
LEMMA OneNumber ==
  ASSUME NEW args \in [1 .. 1 -> Args], args[1].kind = "number"
  PROVE  /\ args[1].n \in Numbers
         /\ FlattenSeq([i \in DOMAIN args |-> ArgText(args[i])]) = NumberText(args[1].n)
<1>1. args[1].n \in Numbers
  BY ArgIs
<1>2. PICK t : t = NumberText(args[1].n)
  OBVIOUS
<1>3. t \in Seq(Chars) /\ ArgText(args[1]) = t
  BY <1>1, <1>2, TextsAreChars DEF ArgText, NumberText
<1>4. PICK ss : ss = [i \in DOMAIN args |-> ArgText(args[i])]
  OBVIOUS
<1>5. ss \in Seq(Seq(Chars)) /\ Len(ss) = 1 /\ ss[1] = t
  <2>1. ss = [i \in 1 .. 1 |-> t]
    BY <1>3, <1>4
  <2>2. PICK D : D = Seq(Chars) /\ t \in D
    BY <1>3
  <2>3. ss \in Seq(D) /\ Len(ss) = 1 /\ ss[1] = t
    BY <2>1, <2>2
  <2> QED  BY <2>2, <2>3
<1>6. PICK J : Reading!Joins(J, Chars, ss) /\ Reading!FlattenSeq(ss) = J[1]
  BY <1>5, Reading!FlattenIs
<1>7. J[0] = <<>> /\ J[1] = J[0] \o ss[1]
  <2>1. J[0] = <<>> /\ \A i \in 1 .. 1 : J[i] = J[i - 1] \o ss[i]
    BY <1>5, <1>6 DEF Reading!Joins
  <2>2. 1 \in 1 .. 1 /\ 1 - 1 = 0
    OBVIOUS
  <2> QED  BY <2>1, <2>2
<1>8. <<>> \o t = t
  BY <1>3, ConcatEmptySeq
<1>9. FlattenSeq(ss) = Reading!FlattenSeq(ss)
  BY DEF FlattenSeq, Reading!FlattenSeq
<1> QED  BY <1>1, <1>2, <1>4, <1>5, <1>6, <1>7, <1>8, <1>9

\* Construction keeps the invariant,
LEMMA StringOwned ==
  ASSUME IInv, NEW x \in Names, NEW n \in 0 .. 2, NEW args \in [1 .. n -> Args], String(x, args)
  PROVE  IInv'
<1>1. \A i \in 1 .. n : Valid(heap, args[i]) /\ ArgText(args[i]) \in Seq(Chars)
  BY ArgumentsOwned DEF String
<1>2. PICK text, made, k, S :
        /\ text = FlattenSeq([i \in DOMAIN args |-> ArgText(args[i])])
        /\ made = Compose(args) /\ k = Cardinality(Negative(args))
        /\ S = IF Len(args) = 1 /\ args[1].kind = "number" THEN {args[1].n} ELSE {}
  OBVIOUS
<1>3. Adds(heap, made.h, made.p, text, k) /\ text \in Seq(Chars)
  <2>1. n \in Nat /\ Blocks(heap)
    BY DEF IInv, TypeOK
  <2> QED  BY <1>1, <1>2, <2>1, Composed
<1>4. k \in Nat
  <2>1. n \in Nat /\ n \in 0 .. n
    OBVIOUS
  <2>2. Negative(args) = NegativeUpTo(args, n)
    BY DEF Negative, NegativeUpTo
  <2>3. Cardinality(NegativeUpTo(args, n)) \in Nat
    BY <2>1, NegativeMore
  <2> QED  BY <1>2, <2>2, <2>3
<1>5. S \in SUBSET Numbers /\ \A m \in S : text = NumberText(m)
  <2>1. Len(args) = n
    OBVIOUS
  <2>2. CASE n = 1 /\ args[1].kind = "number"
    BY <1>2, <2>1, <2>2, OneNumber
  <2>3. CASE ~(n = 1 /\ args[1].kind = "number")
    BY <1>2, <2>1, <2>3
  <2> QED  BY <2>2, <2>3
<1>6. x \in Names \ Objects /\ leaks' = leaks + k /\ Becomes(x, made, text, S)
  BY <1>2 DEF String
<1> QED  BY <1>3, <1>4, <1>5, <1>6, Born

\* so does a copy,
LEMMA CopyOwned ==
  ASSUME IInv, NEW x \in Names, NEW y \in Names, Copy(x, y)
  PROVE  IInv'
<1>1. PICK text, made, S : /\ text = value[y] /\ S = number[y]
                           /\ made = Made(heap, Read(heap, data[y]))
  OBVIOUS
<1>2. x \in Names \ Objects /\ y \in Objects /\ leaks' = leaks + 0 /\ Becomes(x, made, text, S)
  BY <1>1 DEF Copy, IInv, TypeOK
<1>3. Read(heap, data[y]) = text /\ text \in Seq(Chars) /\ S \in SUBSET Numbers
      /\ \A m \in S : text = NumberText(m)
  BY <1>1, <1>2 DEF IInv, TypeOK, Read
<1>4. Adds(heap, made.h, made.p, text, 0)
  BY <1>1, <1>3, MadeIs DEF IInv, TypeOK
<1> QED  BY <1>2, <1>3, <1>4, Born

\* destruction,
LEMMA DestroyOwned ==
  ASSUME IInv, NEW x \in Names, Destroy(x)
  PROVE  IInv'
<1>1. PICK h, old : h = free(heap, old) /\ old = data[x]
  OBVIOUS
<1>2. /\ x \in Objects /\ heap' = h /\ data' = [data EXCEPT ![x] = 0]
      /\ value' = [value EXCEPT ![x] = <<>>] /\ number' = [number EXCEPT ![x] = {}]
      /\ leaks' = leaks
  BY <1>1 DEF Destroy, nullptr
<1>3. old \in DOMAIN heap
  BY <1>1, <1>2 DEF IInv
<1>4. /\ Blocks(h) /\ DOMAIN h = DOMAIN heap \ {old} /\ Count(h) = Count(heap) - 1
      /\ \A q \in DOMAIN heap \ {old} : h[q] = heap[q]
  <2>1. Blocks(heap)
    BY DEF IInv, TypeOK
  <2> QED  BY <1>1, <1>3, <2>1, FreeIs
<1>5. Objects' = Objects \ {x}
  BY <1>2 DEF Objects, nullptr, IInv, TypeOK
<1>6. IsFiniteSet(Objects') /\ Cardinality(Objects') = Cardinality(Objects) - 1
  BY <1>2, <1>5, FS_RemoveElement DEF IInv, TypeOK
<1>7. TypeOK'
  <2>1. <<>> \in Seq(Chars)
    OBVIOUS
  <2>2. data' \in [Names -> Nat] /\ number' \in [Names -> SUBSET Numbers]
    BY <1>2 DEF IInv, TypeOK
  <2>3. value' \in [Names -> Seq(Chars)]
    BY <1>2, <2>1 DEF IInv, TypeOK
  <2>4. Blocks(heap)' /\ leaks' \in Nat
    BY <1>2, <1>4 DEF IInv, TypeOK, Blocks
  <2> QED  BY <1>6, <2>2, <2>3, <2>4 DEF TypeOK
<1>8. \A y \in Objects' : /\ y \in Objects /\ data'[y] = data[y] /\ value'[y] = value[y]
                          /\ number'[y] = number[y] /\ data[y] # old
  <2> SUFFICES ASSUME NEW y \in Objects' PROVE
        /\ y \in Objects /\ data'[y] = data[y] /\ value'[y] = value[y]
        /\ number'[y] = number[y] /\ data[y] # old
    OBVIOUS
  <2>1. y \in Objects /\ y # x
    BY <1>5
  <2>2. data[y] # old
    BY <1>1, <1>2, <2>1 DEF IInv
  <2> QED  BY <1>2, <2>1, <2>2 DEF IInv, TypeOK, Objects
<1>9. /\ \A y \in Objects' : data'[y] \in DOMAIN heap' /\ heap'[data'[y]] = value'[y]
      /\ \A y, z \in Objects' : data'[y] = data'[z] => y = z
      /\ \A y \in Objects' : \A n \in number'[y] : value'[y] = NumberText(n)
  BY <1>2, <1>4, <1>8 DEF IInv
<1>10. Count(heap)' = Cardinality(Objects') + leaks'
  <2>1. Count(heap) = Cardinality(Objects) + leaks /\ leaks \in Nat
    BY DEF IInv, TypeOK
  <2>2. Cardinality(Objects) \in Nat
    BY FS_CardinalityType DEF IInv, TypeOK
  <2>3. Count(heap)' = Count(h)
    BY <1>2 DEF Count
  <2> QED  BY <1>2, <1>4, <1>6, <2>1, <2>2, <2>3
<1> QED  BY <1>7, <1>9, <1>10 DEF IInv

\* assignment, also to itself,
LEMMA AssignOwned ==
  ASSUME IInv, NEW x \in Names, NEW y \in Names, Assign(x, y)
  PROVE  IInv'
<1>1. PICK text, made, left, S : /\ text = value[y] /\ S = number[y]
                                 /\ made = Made(heap, Read(heap, data[y]))
                                 /\ left = Replace(x, made)
  OBVIOUS
<1>2. x \in Objects /\ y \in Objects /\ leaks' = leaks /\ Becomes(x, left, text, S)
  BY <1>1 DEF Assign
<1>3. Read(heap, data[y]) = text /\ text \in Seq(Chars) /\ S \in SUBSET Numbers
      /\ \A m \in S : text = NumberText(m)
  BY <1>1, <1>2 DEF IInv, TypeOK, Read
<1>4. Adds(heap, made.h, made.p, text, 0)
  BY <1>1, <1>3, MadeIs DEF IInv, TypeOK
<1>5. left.h = free(made.h, data[x]) /\ left.p = made.p
  BY <1>1 DEF Replace, Made
<1> QED  BY <1>2, <1>3, <1>4, <1>5, Renewed

\* Added texts are of the same characters.
LEMMA Joined ==
  ASSUME NEW a \in Seq(Chars), NEW b \in Seq(Chars)
  PROVE  a \o b \in Seq(Chars)
BY ConcatProperties

\* addition of an object, also to itself,
LEMMA AddStringOwned ==
  ASSUME IInv, NEW x \in Names, NEW y \in Names, AddString(x, y)
  PROVE  IInv'
<1>1. PICK text, made, left : /\ text = value[x] \o value[y]
                              /\ made = str_combine(heap, data[x], data[y])
                              /\ left = Replace(x, made)
  OBVIOUS
<1>2. x \in Objects /\ y \in Objects /\ leaks' = leaks /\ Becomes(x, left, text, {})
  BY <1>1 DEF AddString
<1>3. Read(heap, data[x]) = value[x] /\ Read(heap, data[y]) = value[y]
  BY <1>2 DEF IInv, Read
<1>4. text \in Seq(Chars)
  <2>1. value[x] \in Seq(Chars) /\ value[y] \in Seq(Chars)
    BY DEF IInv, TypeOK
  <2> QED  BY <1>1, <2>1, Joined
<1>5. made = Made(heap, text)
  BY <1>1, <1>3 DEF str_combine
<1>6. Adds(heap, made.h, made.p, text, 0)
  BY <1>5, MadeIs DEF IInv, TypeOK
<1>7. left.h = free(made.h, data[x]) /\ left.p = made.p
  BY <1>1, <1>5 DEF Replace, Made
<1> QED  BY <1>2, <1>4, <1>6, <1>7, Renewed

\* and addition of a literal.
LEMMA AddTextOwned ==
  ASSUME IInv, NEW x \in Names, NEW more \in Literals, AddText(x, more)
  PROVE  IInv'
<1>1. PICK text, made, left : /\ text = value[x] \o more
                              /\ made = Made(heap, Read(heap, data[x]) \o more)
                              /\ left = Replace(x, made)
  OBVIOUS
<1>2. x \in Objects /\ leaks' = leaks /\ Becomes(x, left, text, {})
  BY <1>1 DEF AddText
<1>3. Read(heap, data[x]) = value[x]
  BY <1>2 DEF IInv, Read
<1>4. text \in Seq(Chars)
  <2>1. value[x] \in Seq(Chars) /\ more \in Seq(Chars)
    BY TextsAreChars DEF IInv, TypeOK
  <2> QED  BY <1>1, <2>1, Joined
<1>5. made = Made(heap, text)
  BY <1>1, <1>3
<1>6. Adds(heap, made.h, made.p, text, 0)
  BY <1>5, MadeIs DEF IInv, TypeOK
<1>7. left.h = free(made.h, data[x]) /\ left.p = made.p
  BY <1>1, <1>5 DEF Replace, Made
<1> QED  BY <1>2, <1>4, <1>6, <1>7, Renewed

-----------------------------------------------------------------------------
\* The inductive invariant: constructions, copies, assignments, additions and destructions
\* leave every object with one block of its own, and no other block but the lost ones.
THEOREM StringsInvariant == Spec => []IInv
<1>1. ASSUME IInv, [Next]_vars PROVE IInv'
  <2>1. ASSUME Next PROVE IInv'
    <3>1. PICK x \in Names :
            \/ \E n \in 0 .. 2 : \E args \in [1 .. n -> Args] : String(x, args)
            \/ Destroy(x)
            \/ \E y \in Names : Copy(x, y) \/ Assign(x, y) \/ AddString(x, y)
            \/ \E text \in Literals : AddText(x, text)
      BY <2>1 DEF Next
    <3>2. CASE \E n \in 0 .. 2 : \E args \in [1 .. n -> Args] : String(x, args)
      BY <1>1, <3>2, StringOwned
    <3>3. CASE Destroy(x)
      BY <1>1, <3>3, DestroyOwned
    <3>4. CASE \E y \in Names : Copy(x, y) \/ Assign(x, y) \/ AddString(x, y)
      BY <1>1, <3>4, CopyOwned, AssignOwned, AddStringOwned
    <3>5. CASE \E text \in Literals : AddText(x, text)
      BY <1>1, <3>5, AddTextOwned
    <3> QED  BY <3>1, <3>2, <3>3, <3>4, <3>5
  <2>2. ASSUME UNCHANGED vars PROVE IInv'
    <3>1. heap' = heap /\ data' = data /\ value' = value /\ number' = number /\ leaks' = leaks
      BY <2>2 DEF vars
    <3>2. Objects' = Objects
      BY <3>1 DEF Objects
    <3> QED  BY <1>1, <3>1, <3>2 DEF IInv, TypeOK, Count
  <2> QED  BY <1>1, <2>1, <2>2
<1> QED  BY InitOwned, <1>1, PTL DEF Spec

\* Every object owns its block and its text, no block but those of printed negative numbers
\* is lost, and what was made of a number reads as that number again, for integers of any
\* width: string.h's constructors, assignments and destructor with to_string and to_int.
THEOREM StringsAreOwned == Spec => []StringsOwned
<1>1. ASSUME IInv PROVE StringsOwned
  <2>1. ASSUME NEW x \in Objects, NEW n \in number[x] PROVE to_int(heap[data[x]]) = n
    <3>1. n \in Numbers /\ heap[data[x]] = NumberText(n)
      BY <1>1 DEF IInv, TypeOK, Objects
    <3> QED  BY <3>1, NumberIsRead
  <2> QED  BY <1>1, <2>1 DEF IInv, StringsOwned, Count
<1> QED  BY StringsInvariant, <1>1, PTL

-----------------------------------------------------------------------------
(* The functions on texts                                                     *)

\* What texts are made of.
Alphabet == Chars \cup {Space}

\* A piece of a text.
LEMMA PieceIs ==
  ASSUME NEW t \in Seq(Alphabet), NEW a \in Nat \ {0}, NEW b \in Nat, a <= b + 1, b <= Len(t)
  PROVE  /\ SubSeq(t, a, b) \in Seq(Alphabet)
         /\ Len(SubSeq(t, a, b)) = b - a + 1
         /\ \A i \in 1 .. (b - a + 1) : SubSeq(t, a, b)[i] = t[a + i - 1]
<1>1. \A i \in a .. b : t[i] \in Alphabet
  OBVIOUS
<1>2. /\ SubSeq(t, a, b) \in Seq(Alphabet)
      /\ Len(SubSeq(t, a, b)) = IF a <= b THEN b - a + 1 ELSE 0
      /\ \A i \in 1 .. (b - a + 1) : SubSeq(t, a, b)[i] = t[a + i - 1]
  BY <1>1, SubSeqProperties
<1>3. (IF a <= b THEN b - a + 1 ELSE 0) = b - a + 1
  OBVIOUS
<1> QED  BY <1>2, <1>3

\* What is left behind the first n characters, and the first n characters.
LEMMA TailPiece ==
  ASSUME NEW t \in Seq(Alphabet), NEW n \in 0 .. Len(t)
  PROVE  /\ SubSeq(t, n + 1, Len(t)) \in Seq(Alphabet)
         /\ Len(SubSeq(t, n + 1, Len(t))) = Len(t) - n
         /\ \A i \in 1 .. (Len(t) - n) : SubSeq(t, n + 1, Len(t))[i] = t[n + i]
<1>1. PICK a, l \in Nat : a = n + 1 /\ l = Len(t)
  OBVIOUS
<1>2. PICK p : p = SubSeq(t, a, l)
  OBVIOUS
<1>3. a \in Nat \ {0} /\ a <= l + 1 /\ l <= Len(t) /\ l - a + 1 = l - n
  BY <1>1
<1>4. p \in Seq(Alphabet) /\ Len(p) = l - a + 1 /\ \A i \in 1 .. (l - a + 1) : p[i] = t[a + i - 1]
  BY <1>2, <1>3, PieceIs
<1>5. ASSUME NEW i \in 1 .. (l - n) PROVE p[i] = t[n + i]
  <2>1. i \in 1 .. (l - a + 1) /\ a + i - 1 = n + i
    BY <1>1
  <2> QED  BY <1>4, <2>1
<1> QED  BY <1>1, <1>2, <1>3, <1>4, <1>5

\* The first n characters.
LEMMA HeadPiece ==
  ASSUME NEW t \in Seq(Alphabet), NEW n \in 0 .. Len(t)
  PROVE  /\ SubSeq(t, 1, n) \in Seq(Alphabet)
         /\ Len(SubSeq(t, 1, n)) = n
         /\ \A i \in 1 .. n : SubSeq(t, 1, n)[i] = t[i]
<1>1. PICK a \in Nat \ {0}, b \in Nat : a = 1 /\ b = n
  OBVIOUS
<1>2. PICK p : p = SubSeq(t, a, b)
  OBVIOUS
<1>3. a <= b + 1 /\ b <= Len(t) /\ b - a + 1 = n
  BY <1>1
<1>4. p \in Seq(Alphabet) /\ Len(p) = b - a + 1 /\ \A i \in 1 .. (b - a + 1) : p[i] = t[a + i - 1]
  BY <1>2, <1>3, PieceIs
<1>5. ASSUME NEW i \in 1 .. n PROVE p[i] = t[i]
  <2>1. i \in 1 .. (b - a + 1) /\ a + i - 1 = i
    BY <1>1
  <2> QED  BY <1>4, <2>1
<1> QED  BY <1>1, <1>2, <1>3, <1>4, <1>5

\* Where a search text hits.
LEMMA HitIs ==
  ASSUME NEW t \in Seq(Alphabet), NEW s \in Seq(Alphabet), NEW h \in Int
  PROVE  h \in Hits(t, s) <=> /\ 0 <= h /\ h + Len(s) <= Len(t)
                              /\ \A i \in 1 .. Len(s) : t[h + i] = s[i]
<1>1. PICK l, m \in Nat : l = Len(t) /\ m = Len(s)
  OBVIOUS
<1>2. h \in Hits(t, s) <=> 0 <= h /\ h + m <= l /\ SubSeq(t, h + 1, h + m) = s
  <2>1. h \in 0 .. (l - m) <=> 0 <= h /\ h + m <= l
    BY <1>1
  <2> QED  BY <1>1, <2>1 DEF Hits, Part
<1>3. ASSUME 0 <= h, h + m <= l
      PROVE  SubSeq(t, h + 1, h + m) = s <=> \A i \in 1 .. m : t[h + i] = s[i]
  <2>1. PICK a, e \in Nat : a = h + 1 /\ e = h + m
    BY <1>3
  <2>2. a \in Nat \ {0} /\ a <= e + 1 /\ e <= Len(t) /\ e - a + 1 = m
    BY <1>1, <1>3, <2>1
  <2>3. PICK p : p = SubSeq(t, a, e)
    OBVIOUS
  <2>4. p \in Seq(Alphabet) /\ Len(p) = e - a + 1 /\ \A i \in 1 .. (e - a + 1) : p[i] = t[a + i - 1]
    BY <2>2, <2>3, PieceIs
  <2>5. Len(p) = m /\ \A i \in 1 .. m : p[i] = t[h + i]
    <3>1. ASSUME NEW i \in 1 .. m PROVE p[i] = t[h + i]
      <4>1. i \in 1 .. (e - a + 1) /\ a + i - 1 = h + i
        BY <2>1, <2>2
      <4> QED  BY <2>4, <4>1
    <3> QED  BY <2>2, <2>4, <3>1
  <2>6. p = s <=> \A i \in 1 .. m : p[i] = s[i]
    <3>1. ASSUME \A i \in 1 .. m : p[i] = s[i] PROVE p = s
      BY <1>1, <2>4, <2>5, <3>1, SeqEqual
    <3> QED  BY <3>1
  <2> QED  BY <2>1, <2>3, <2>5, <2>6
<1> QED  BY <1>1, <1>2, <1>3

\* A text contains another if some end of it starts with it,
LEMMA ContainsByStart ==
  ASSUME NEW t \in Seq(Alphabet), NEW s \in Seq(Alphabet)
  PROVE  str_contains(t, s) <=> \E n \in 0 .. Len(t) : str_starts_with(str_cut_start(t, n), s)
<1>1. PICK l, m \in Nat : l = Len(t) /\ m = Len(s) /\ DOMAIN s = 1 .. m
  OBVIOUS
<1>2. ASSUME NEW n \in 0 .. l
      PROVE  str_starts_with(str_cut_start(t, n), s) <=> n \in Hits(t, s)
  <2>1. PICK p \in Seq(Alphabet) : /\ p = SubSeq(t, n + 1, l) /\ Len(p) = l - n
                            /\ \A i \in 1 .. (l - n) : p[i] = t[n + i]
    BY <1>1, TailPiece
  <2>2. str_starts_with(str_cut_start(t, n), s)
          <=> m <= l - n /\ \A i \in 1 .. m : p[i] = s[i]
    BY <1>1, <2>1 DEF str_starts_with, str_cut_start
  <2>3. n \in Hits(t, s) <=> n + m <= l /\ \A i \in 1 .. m : t[n + i] = s[i]
    <3>1. n \in Int /\ 0 <= n
      OBVIOUS
    <3>2. n \in Hits(t, s) <=> /\ 0 <= n /\ n + Len(s) <= Len(t)
                               /\ \A i \in 1 .. Len(s) : t[n + i] = s[i]
      BY <3>1, HitIs, Zenon
    <3> QED  BY <1>1, <3>1, <3>2
  <2>4. n + m <= l => \A i \in 1 .. m : p[i] = t[n + i]
    BY <2>1
  <2> QED  BY <2>2, <2>3, <2>4
<1>3. Hits(t, s) \subseteq 0 .. l
  BY <1>1 DEF Hits
<1> QED  BY <1>1, <1>2, <1>3 DEF str_contains

\* or some beginning of it ends with it.
LEMMA ContainsByEnd ==
  ASSUME NEW t \in Seq(Alphabet), NEW s \in Seq(Alphabet)
  PROVE  str_contains(t, s) <=> \E n \in 0 .. Len(t) : str_ends_with(str_cut_end(t, n), s)
<1>1. PICK l, m \in Nat : l = Len(t) /\ m = Len(s) /\ DOMAIN s = 1 .. m
  OBVIOUS
<1>2. ASSUME NEW n \in 0 .. l
      PROVE  str_ends_with(str_cut_end(t, n), s) <=> (l - n) - m \in Hits(t, s)
  <2>1. PICK e \in Nat : e = l - n /\ e <= l
    OBVIOUS
  <2>2. PICK p \in Seq(Alphabet) : p = SubSeq(t, 1, e) /\ Len(p) = e /\ \A i \in 1 .. e : p[i] = t[i]
    <3>1. e \in 0 .. Len(t)
      BY <1>1, <2>1
    <3> QED  BY <3>1, HeadPiece
  <2>3. str_cut_end(t, n) = p
    <3>1. e = 0 => p = <<>>
      BY <2>2
    <3> QED  BY <1>1, <2>1, <2>2, <3>1 DEF str_cut_end
  <2>4. PICK at \in Int : at = e - m
    OBVIOUS
  <2>5. str_ends_with(p, s) <=> at >= 0 /\ \A i \in 1 .. m : p[at + i] = s[i]
    BY <1>1, <2>2, <2>4 DEF str_ends_with
  <2>6. at \in Hits(t, s) <=> 0 <= at /\ at + m <= l /\ \A i \in 1 .. m : t[at + i] = s[i]
    <3>1. at \in Hits(t, s) <=> /\ 0 <= at /\ at + Len(s) <= Len(t)
                                /\ \A i \in 1 .. Len(s) : t[at + i] = s[i]
      BY HitIs, Zenon
    <3> QED  BY <1>1, <3>1
  <2>7. at >= 0 => at + m <= l /\ \A i \in 1 .. m : p[at + i] = t[at + i]
    <3>1. ASSUME at >= 0, NEW i \in 1 .. m PROVE at + i \in 1 .. e
      BY <2>1, <2>4, <3>1
    <3> QED  BY <2>1, <2>2, <2>4, <3>1
  <2> QED  BY <2>1, <2>3, <2>4, <2>5, <2>6, <2>7
<1>3. ASSUME NEW h \in Hits(t, s) PROVE \E n \in 0 .. l : h = (l - n) - m
  <2>1. h \in 0 .. (l - m)
    BY <1>1 DEF Hits
  <2>2. PICK n \in 0 .. l : n = l - (h + m)
    BY <2>1
  <2> QED  BY <2>1, <2>2
<1> QED  BY <1>1, <1>2, <1>3 DEF str_contains

-----------------------------------------------------------------------------
(* Blanks *)

\* str_repeat of a blank is as many blanks.
LEMMA BlanksAre ==
  ASSUME NEW n \in Nat
  PROVE  /\ str_repeat(<<Space>>, n) \in Seq(Alphabet)
         /\ Len(str_repeat(<<Space>>, n)) = n
         /\ \A i \in 1 .. n : str_repeat(<<Space>>, n)[i] = Space
<1>1. PICK one \in Seq(Alphabet) : one = <<Space>> /\ Len(one) = 1 /\ one[1] = Space
  <2>1. PICK c \in Alphabet : c = Space
    BY DEF Alphabet
  <2>2. <<c>> \in Seq(Alphabet) /\ Len(<<c>>) = 1 /\ <<c>>[1] = c
    OBVIOUS
  <2> QED  BY <2>1, <2>2
<1>2. PICK ss : ss = [i \in 1 .. n |-> one]
  OBVIOUS
<1>3. ss \in Seq(Seq(Alphabet)) /\ Len(ss) = n /\ \A i \in 1 .. n : ss[i] = one
  <2>1. PICK D : D = Seq(Alphabet)
    OBVIOUS
  <2>2. ss \in Seq(D) /\ Len(ss) = n /\ \A i \in 1 .. n : ss[i] = one
    BY <1>1, <1>2, <2>1
  <2> QED  BY <2>1, <2>2
<1>4. PICK J : Reading!Joins(J, Alphabet, ss) /\ Reading!FlattenSeq(ss) = J[n]
  BY <1>3, Reading!FlattenIs
<1>5. /\ J \in [0 .. n -> Seq(Alphabet)] /\ J[0] = <<>>
      /\ \A i \in 1 .. n : J[i] = J[i - 1] \o one
  BY <1>3, <1>4 DEF Reading!Joins
<1> DEFINE T == {i \in 0 .. n : Len(J[i]) = i /\ \A k \in 1 .. i : J[i][k] = Space}
<1>6. 0 \in T
  BY <1>5
<1>7. ASSUME NEW i \in 0 .. n - 1, i \in T PROVE i + 1 \in T
  <2>1. i + 1 \in 1 .. n /\ i + 1 \in 0 .. n /\ (i + 1) - 1 = i /\ i \in 0 .. n
    OBVIOUS
  <2>2. PICK p \in Seq(Alphabet), q \in Seq(Alphabet) : p = J[i] /\ q = J[i + 1]
    BY <1>5, <2>1
  <2>3. q = p \o one
    BY <1>5, <2>1, <2>2
  <2>4. Len(p) = i /\ \A k \in 1 .. i : p[k] = Space
    BY <1>7, <2>2
  <2>5. Len(q) = i + 1 /\ \A k \in 1 .. i + 1 : q[k] = Space
    BY <1>1, <2>3, <2>4
  <2> QED  BY <2>1, <2>2, <2>5
<1> HIDE DEF T
<1>8. \A i \in 0 .. n : i \in T
  BY <1>6, <1>7, Reading!UpTo
<1>9. n \in T /\ n \in 0 .. n
  BY <1>8
<1>10. str_repeat(<<Space>>, n) = J[n]
  BY <1>1, <1>2, <1>4 DEF str_repeat, FlattenSeq, Reading!FlattenSeq
<1> QED  BY <1>5, <1>9, <1>10 DEF T

\* The least and the greatest place of a character that is not a blank.
LEMMA InkIs ==
  ASSUME NEW t \in Seq(Alphabet), Ink(t) # {}
  PROVE  \E a, b \in 1 .. Len(t) :
           /\ a = Min(Ink(t)) /\ b = Max(Ink(t)) /\ a \in Ink(t) /\ b \in Ink(t) /\ a <= b
           /\ \A i \in Ink(t) : a <= i /\ i <= b
<1>1. PICK l \in Nat : l = Len(t) /\ DOMAIN t = 1 .. l
  OBVIOUS
<1>2. PICK S : S = Ink(t)
  OBVIOUS
<1>3. S \in SUBSET (1 .. l) /\ S # {}
  BY <1>1, <1>2 DEF Ink
<1>4. Reading!Max(S) \in S /\ \A x \in S : x <= Reading!Max(S)
  BY <1>3, Reading!SomeMax
<1>5. Reading!Min(S) \in S /\ \A x \in S : Reading!Min(S) <= x
  BY <1>3, Reading!SomeMin
<1>6. Max(S) = Reading!Max(S) /\ Min(S) = Reading!Min(S)
  BY DEF Max, Min, Reading!Max, Reading!Min
<1>7. PICK a, b \in 1 .. l : a = Min(S) /\ b = Max(S)
  BY <1>3, <1>4, <1>5, <1>6
<1> QED  BY <1>1, <1>2, <1>4, <1>5, <1>6, <1>7

\* The greatest place of a set, when it is known.
LEMMA MaxOf ==
  ASSUME NEW S, NEW m \in S, m \in Int, \A x \in S : x \in Int /\ x <= m
  PROVE  Max(S) = m
<1>1. Reading!Max(S) = m
  BY Reading!MaxIs
<1> QED  BY <1>1 DEF Max, Reading!Max

\* Trimming at both ends is trimming at one and then at the other.
LEMMA TrimIsBoth ==
  ASSUME NEW t \in Seq(Alphabet)
  PROVE  str_trim(t) = str_trim_end(str_trim_start(t))
<1>1. CASE Ink(t) = {}
  <2>1. Ink(<<>>) = {}
    BY DEF Ink
  <2> QED  BY <1>1, <2>1 DEF str_trim, str_trim_start, str_trim_end
<1>2. CASE Ink(t) # {}
  <2>1. PICK l \in Nat : l = Len(t) /\ DOMAIN t = 1 .. l
    OBVIOUS
  <2>2. PICK a, b \in 1 .. Len(t) :
           /\ a = Min(Ink(t)) /\ b = Max(Ink(t)) /\ a \in Ink(t) /\ b \in Ink(t) /\ a <= b
           /\ \A i \in Ink(t) : a <= i /\ i <= b
    BY <1>2, InkIs
  <2>3. a \in Nat \ {0} /\ b \in Nat \ {0} /\ a <= b /\ b <= l
    BY <2>1, <2>2
  <2>4. PICK p : p = SubSeq(t, a, l)
    OBVIOUS
  <2>5. p \in Seq(Alphabet) /\ Len(p) = l - a + 1 /\ \A i \in 1 .. (l - a + 1) : p[i] = t[a + i - 1]
    BY <2>1, <2>3, <2>4, PieceIs
  <2>6. PICK m \in Nat : m = b - a + 1
    BY <2>3
  <2>7. ASSUME NEW i \in Ink(p) PROVE i \in Int /\ i <= m
    <3>1. i \in 1 .. (l - a + 1) /\ p[i] # Space
      BY <2>5, <2>7 DEF Ink
    <3>2. t[a + i - 1] # Space /\ a + i - 1 \in 1 .. l
      BY <2>3, <2>5, <3>1
    <3>3. a + i - 1 \in Ink(t)
      BY <2>1, <3>2 DEF Ink
    <3> QED  BY <2>2, <2>3, <2>6, <3>1, <3>3
  <2>8. m \in Ink(p)
    <3>1. m \in 1 .. (l - a + 1) /\ a + m - 1 = b
      BY <2>3, <2>6
    <3>2. t[b] # Space
      BY <2>2 DEF Ink
    <3>3. p[m] # Space
      BY <2>5, <3>1, <3>2
    <3> QED  BY <2>5, <3>1, <3>3 DEF Ink
  <2>9. Ink(p) # {} /\ Max(Ink(p)) = m
    BY <2>6, <2>7, <2>8, MaxOf
  <2>10. str_trim_start(t) = p /\ str_trim_end(p) = SubSeq(p, 1, m) /\ str_trim(t) = SubSeq(t, a, b)
    BY <1>2, <2>1, <2>2, <2>4, <2>9 DEF str_trim, str_trim_start, str_trim_end
  <2>11. m \in 0 .. Len(p)
    BY <2>3, <2>5, <2>6
  <2>12. PICK q : q = SubSeq(p, 1, m)
    OBVIOUS
  <2>13. q \in Seq(Alphabet) /\ Len(q) = m /\ \A i \in 1 .. m : q[i] = p[i]
    <3>1. p \in Seq(Alphabet)
      BY <2>5
    <3> QED  BY <2>11, <2>12, <3>1, HeadPiece
  <2>14. PICK r : r = SubSeq(t, a, b)
    OBVIOUS
  <2>15. r \in Seq(Alphabet) /\ Len(r) = b - a + 1 /\ \A i \in 1 .. (b - a + 1) : r[i] = t[a + i - 1]
    BY <2>1, <2>3, <2>14, PieceIs
  <2>16. ASSUME NEW i \in 1 .. m PROVE q[i] = r[i]
    <3>1. i \in 1 .. (l - a + 1) /\ i \in 1 .. (b - a + 1)
      BY <2>3, <2>6
    <3> QED  BY <2>5, <2>13, <2>15, <3>1
  <2>17. q = r
    BY <2>6, <2>13, <2>15, <2>16, SeqEqual
  <2> QED  BY <2>10, <2>12, <2>14, <2>17
<1> QED  BY <1>1, <1>2

\* What is trimmed off are blanks.
LEMMA TrimTakesBlanks ==
  ASSUME NEW t \in Seq(Alphabet)
  PROVE  \E i, j \in 0 .. Len(t) : str_move_right(str_trim(t), i) \o str_repeat(<<Space>>, j) = t
<1>1. PICK l \in Nat : l = Len(t) /\ DOMAIN t = 1 .. l
  OBVIOUS
<1>2. ASSUME NEW i \in 0 .. l, NEW j \in 0 .. l, NEW p \in Seq(Alphabet), p = str_trim(t),
             i + Len(p) + j = l, \A k \in 1 .. l : k <= i \/ i + Len(p) < k => t[k] = Space,
             \A k \in 1 .. Len(p) : p[k] = t[i + k]
      PROVE  str_move_right(str_trim(t), i) \o str_repeat(<<Space>>, j) = t
  <2> i \in Nat /\ j \in Nat
    OBVIOUS
  <2>1. PICK u : u = str_repeat(<<Space>>, i)
    OBVIOUS
  <2>2. u \in Seq(Alphabet) /\ Len(u) = i /\ \A k \in 1 .. i : u[k] = Space
    BY <2>1, BlanksAre
  <2>3. PICK w : w = str_repeat(<<Space>>, j)
    OBVIOUS
  <2>4. w \in Seq(Alphabet) /\ Len(w) = j /\ \A k \in 1 .. j : w[k] = Space
    BY <2>3, BlanksAre
  <2>5. PICK v : v = u \o p
    OBVIOUS
  <2>6. /\ v \in Seq(Alphabet) /\ Len(v) = i + Len(p)
        /\ \A k \in 1 .. i + Len(p) : v[k] = IF k <= i THEN u[k] ELSE p[k - i]
    BY <2>2, <2>5, ConcatProperties
  <2>7. PICK r : r = v \o w
    OBVIOUS
  <2>8. /\ r \in Seq(Alphabet) /\ Len(r) = l
        /\ \A k \in 1 .. l : r[k] = IF k <= i + Len(p) THEN v[k] ELSE w[k - (i + Len(p))]
    <3>1. /\ r \in Seq(Alphabet) /\ Len(r) = Len(v) + Len(w)
          /\ \A k \in 1 .. Len(v) + Len(w) : r[k] = IF k <= Len(v) THEN v[k] ELSE w[k - Len(v)]
      BY <2>4, <2>6, <2>7, ConcatProperties
    <3>2. Len(v) + Len(w) = l /\ Len(v) = i + Len(p)
      BY <1>2, <2>4, <2>6
    <3> QED  BY <3>1, <3>2
  <2>9. ASSUME NEW k \in 1 .. l PROVE r[k] = t[k]
    <3>1. CASE k <= i
      <4>1. k \in 1 .. i /\ k \in 1 .. i + Len(p) /\ k <= i + Len(p)
        BY <3>1
      <4>2. r[k] = u[k]
        BY <2>6, <2>8, <3>1, <4>1
      <4> QED  BY <1>2, <2>2, <3>1, <4>1, <4>2
    <3>2. CASE i < k /\ k <= i + Len(p)
      <4>1. k - i \in 1 .. Len(p) /\ i + (k - i) = k
        BY <3>2
      <4>2. p[k - i] = t[k]
        BY <1>2, <4>1
      <4> QED  BY <2>6, <2>8, <3>2, <4>2
    <3>3. CASE i + Len(p) < k
      <4>1. k - (i + Len(p)) \in 1 .. j
        BY <1>2, <3>3
      <4>2. w[k - (i + Len(p))] = Space
        BY <2>4, <4>1
      <4> QED  BY <1>2, <2>8, <3>3, <4>2
    <3> QED  BY <3>1, <3>2, <3>3
  <2>10. r = t
    BY <1>1, <2>8, <2>9, SeqEqual
  <2> QED  BY <1>2, <2>1, <2>3, <2>5, <2>7, <2>10 DEF str_move_right
<1>3. CASE Ink(t) = {}
  <2>1. str_trim(t) = <<>>
    BY <1>3 DEF str_trim
  <2>2. PICK p \in Seq(Alphabet) : p = str_trim(t) /\ Len(p) = 0
    <3>1. <<>> \in Seq(Alphabet) /\ Len(<<>>) = 0
      OBVIOUS
    <3> QED  BY <2>1, <3>1
  <2>3. \A k \in 1 .. l : t[k] = Space
    BY <1>1, <1>3 DEF Ink
  <2>4. l \in 0 .. l /\ 0 \in 0 .. l /\ l + Len(p) + 0 = l
    BY <2>2
  <2>5. \A k \in 1 .. Len(p) : p[k] = t[l + k]
    BY <2>2
  <2>6. str_move_right(str_trim(t), l) \o str_repeat(<<Space>>, 0) = t
    BY <1>2, <2>2, <2>3, <2>4, <2>5
  <2> QED  BY <1>1, <2>4, <2>6
<1>4. CASE Ink(t) # {}
  <2>1. PICK a, b \in 1 .. Len(t) :
           /\ a = Min(Ink(t)) /\ b = Max(Ink(t)) /\ a \in Ink(t) /\ b \in Ink(t) /\ a <= b
           /\ \A i \in Ink(t) : a <= i /\ i <= b
    BY <1>4, InkIs
  <2>2. a \in Nat \ {0} /\ b \in Nat \ {0} /\ a <= b /\ b <= l
    BY <1>1, <2>1
  <2>3. PICK p : p = SubSeq(t, a, b)
    OBVIOUS
  <2>4. p \in Seq(Alphabet) /\ Len(p) = b - a + 1 /\ \A i \in 1 .. (b - a + 1) : p[i] = t[a + i - 1]
    BY <1>1, <2>2, <2>3, PieceIs
  <2>5. p = str_trim(t)
    BY <1>4, <2>1, <2>3 DEF str_trim
  <2>6. PICK i, j \in 0 .. l : i = a - 1 /\ j = l - b
    BY <2>2
  <2>7. i + Len(p) + j = l /\ i + Len(p) = b
    BY <2>2, <2>4, <2>6
  <2>8. ASSUME NEW k \in 1 .. l, k <= i \/ i + Len(p) < k PROVE t[k] = Space
    <3>1. k < a \/ b < k
      BY <2>2, <2>6, <2>7, <2>8
    <3>2. k \notin Ink(t)
      BY <2>1, <2>2, <3>1
    <3> QED  BY <1>1, <3>2 DEF Ink
  <2>9. ASSUME NEW k \in 1 .. Len(p) PROVE p[k] = t[i + k]
    <3>1. k \in 1 .. (b - a + 1) /\ a + k - 1 = i + k
      BY <2>2, <2>4, <2>6
    <3> QED  BY <2>4, <3>1
  <2>10. str_move_right(str_trim(t), i) \o str_repeat(<<Space>>, j) = t
    BY <1>2, <2>4, <2>5, <2>7, <2>8, <2>9
  <2> QED  BY <1>1, <2>6, <2>10
<1> QED  BY <1>3, <1>4

-----------------------------------------------------------------------------
(* Splitting at blanks *)

SplitStep(parts, c) ==
  IF c = Space THEN Append(parts, <<>>) ELSE [parts EXCEPT ![Len(parts)] = Append(@, c)]

Splitting == INSTANCE SequenceFolds WITH step <- SplitStep

\* The parts, a blank before each.
Spaced(parts) == [i \in DOMAIN parts |-> <<Space>> \o parts[i]]

\* They are as many, each with the blank in front.
LEMMA SpacedIs ==
  ASSUME NEW parts \in Seq(Seq(Alphabet))
  PROVE  /\ Spaced(parts) \in Seq(Seq(Alphabet)) /\ Len(Spaced(parts)) = Len(parts)
         /\ \A i \in 1 .. Len(parts) : Spaced(parts)[i] = <<Space>> \o parts[i]
<1>1. PICK Y : Y = Seq(Alphabet)
  OBVIOUS
<1>2. PICK n \in Nat : n = Len(parts) /\ DOMAIN parts = 1 .. n
  OBVIOUS
<1>3. PICK one \in Seq(Alphabet) : one = <<Space>>
  <2>1. PICK c \in Alphabet : c = Space
    BY DEF Alphabet
  <2>2. <<c>> \in Seq(Alphabet)
    OBVIOUS
  <2> QED  BY <2>1, <2>2
<1>4. ASSUME NEW i \in 1 .. n PROVE one \o parts[i] \in Y
  <2>1. PICK p \in Seq(Alphabet) : p = parts[i]
    BY <1>2
  <2> QED  BY <1>1, <2>1, ConcatProperties
<1>5. PICK e : e = [i \in 1 .. n |-> one \o parts[i]]
  OBVIOUS
<1>6. e \in [1 .. n -> Y] /\ \A i \in 1 .. n : e[i] = one \o parts[i]
  BY <1>4, <1>5
<1>7. e \in Seq(Y) /\ Len(e) = n
  BY <1>6
<1>8. Spaced(parts) = e
  BY <1>2, <1>3, <1>5 DEF Spaced
<1> QED  BY <1>1, <1>2, <1>3, <1>6, <1>7, <1>8

\* Sequences of n texts that differ in the last place only
AlikeButLast(ss, tt, n) ==
  /\ ss \in Seq(Seq(Alphabet)) /\ Len(ss) = n
  /\ tt \in Seq(Seq(Alphabet)) /\ Len(tt) = n
  /\ \A i \in 1 .. n - 1 : ss[i] = tt[i]

\* are joined alike up to there.
LEMMA LastDiffers ==
  ASSUME NEW n \in Nat \ {0}, NEW ss, NEW tt, AlikeButLast(ss, tt, n)
  PROVE  \E a \in Seq(Alphabet) : /\ Reading!FlattenSeq(ss) = a \o ss[n]
                                  /\ Reading!FlattenSeq(tt) = a \o tt[n]
<1>1. PICK J : Reading!Joins(J, Alphabet, ss) /\ Reading!FlattenSeq(ss) = J[n]
  BY Reading!FlattenIs DEF AlikeButLast
<1>2. PICK K : Reading!Joins(K, Alphabet, tt) /\ Reading!FlattenSeq(tt) = K[n]
  BY Reading!FlattenIs DEF AlikeButLast
<1>3. PICK m \in Nat : m = n - 1 /\ n = m + 1
  OBVIOUS
<1>4. Len(ss) = m + 1 /\ Len(tt) = m + 1 /\ \A i \in 1 .. m : ss[i] = tt[i]
  BY <1>3 DEF AlikeButLast
<1>5. /\ J \in [0 .. m + 1 -> Seq(Alphabet)] /\ J[0] = <<>>
      /\ \A i \in 1 .. m + 1 : J[i] = J[i - 1] \o ss[i]
  BY <1>1, <1>4 DEF Reading!Joins
<1>6. /\ K[0] = <<>>
      /\ \A i \in 1 .. m + 1 : K[i] = K[i - 1] \o tt[i]
  BY <1>2, <1>4 DEF Reading!Joins
<1> DEFINE T == {i \in 0 .. m : J[i] = K[i]}
<1>7. 0 \in T
  BY <1>5, <1>6
<1>8. ASSUME NEW i \in 0 .. m - 1, J[i] = K[i] PROVE i + 1 \in 0 .. m /\ J[i + 1] = K[i + 1]
  <2>1. i + 1 \in 1 .. m + 1 /\ i + 1 \in 1 .. m /\ i + 1 \in 0 .. m /\ (i + 1) - 1 = i
    OBVIOUS
  <2>2. J[i + 1] = J[i] \o ss[i + 1] /\ K[i + 1] = K[i] \o tt[i + 1]
    BY <1>5, <1>6, <2>1
  <2> QED  BY <1>4, <1>8, <2>1, <2>2
<1>9. \A i \in 0 .. m - 1 : i \in T => i + 1 \in T
  BY <1>8
<1> HIDE DEF T
<1>10. \A i \in 0 .. m : i \in T
  BY <1>7, <1>9, Reading!UpTo
<1>11. J[m] = K[m]
  <2>1. m \in T
    BY <1>10
  <2> QED  BY <2>1 DEF T
<1>12. J[m] \in Seq(Alphabet) /\ J[m + 1] = J[m] \o ss[m + 1] /\ K[m + 1] = K[m] \o tt[m + 1]
  <2>1. m \in 0 .. m + 1 /\ m + 1 \in 1 .. m + 1 /\ (m + 1) - 1 = m
    OBVIOUS
  <2> QED  BY <1>5, <1>6, <2>1
<1> QED  BY <1>1, <1>2, <1>3, <1>11, <1>12

\* Texts join, in any order of joining.
LEMMA TextsJoin ==
  ASSUME NEW a \in Seq(Alphabet), NEW b \in Seq(Alphabet), NEW c \in Seq(Alphabet)
  PROVE  (a \o b) \o c = a \o (b \o c)
BY ConcatAssociative

\* A character behind the last part is behind the whole.
LEMMA AppendDeep ==
  ASSUME NEW a \in Seq(Alphabet), NEW b \in Seq(Alphabet), NEW s \in Seq(Alphabet), NEW c \in Alphabet
  PROVE  a \o (b \o Append(s, c)) = Append(a \o (b \o s), c)
<1>1. PICK d : d = <<c>>
  OBVIOUS
<1>2. d \in Seq(Alphabet)
  BY <1>1
<1>3. Append(s, c) = s \o d
  BY <1>1, AppendIsConcat
<1>4. (b \o s) \o d = b \o (s \o d)
  BY <1>2, TextsJoin
<1>5. PICK e : e = b \o s
  OBVIOUS
<1>6. e \in Seq(Alphabet)
  BY <1>5, ConcatProperties
<1>7. (a \o e) \o d = a \o (e \o d)
  BY <1>2, <1>6, TextsJoin
<1>8. PICK f : f = a \o e
  OBVIOUS
<1>9. f \in Seq(Alphabet)
  BY <1>6, <1>8, ConcatProperties
<1>10. Append(f, c) = f \o d
  BY <1>1, <1>9, AppendIsConcat
<1> QED  BY <1>3, <1>4, <1>5, <1>7, <1>8, <1>10

\* A character more makes a new part or lengthens the last one; either way it is what comes
\* to the text of all parts.
LEMMA SplitOneMore ==
  ASSUME NEW parts \in Seq(Seq(Alphabet)), Len(parts) # 0, NEW c \in Alphabet
  PROVE  /\ SplitStep(parts, c) \in Seq(Seq(Alphabet))
         /\ Len(SplitStep(parts, c)) = Len(parts) + IF c = Space THEN 1 ELSE 0
         /\ Reading!FlattenSeq(Spaced(SplitStep(parts, c)))
              = Append(Reading!FlattenSeq(Spaced(parts)), c)
<1>1. PICK n \in Nat \ {0} : n = Len(parts) /\ DOMAIN parts = 1 .. n
  OBVIOUS
<1>2. PICK q : q = SplitStep(parts, c)
  OBVIOUS
<1>3. PICK one \in Seq(Alphabet), none \in Seq(Alphabet) :
        one = <<Space>> /\ none = <<>> /\ one \o none = one
  <2>1. PICK d \in Alphabet : d = Space
    BY DEF Alphabet
  <2>2. <<d>> \in Seq(Alphabet) /\ <<>> \in Seq(Alphabet) /\ <<d>> \o <<>> = <<d>>
    OBVIOUS
  <2> QED  BY <2>1, <2>2
<1>4. PICK last \in Seq(Alphabet) : last = parts[n]
  BY <1>1
<1>5. PICK ss : ss = Spaced(parts)
  OBVIOUS
<1>6. /\ ss \in Seq(Seq(Alphabet)) /\ Len(ss) = n
      /\ \A i \in 1 .. n : ss[i] = one \o parts[i]
  BY <1>1, <1>3, <1>5, SpacedIs
<1>7. PICK J : Reading!Joins(J, Alphabet, ss) /\ Reading!FlattenSeq(ss) = J[n]
  BY <1>6, Reading!FlattenIs
<1>8. J \in [0 .. n -> Seq(Alphabet)] /\ \A i \in 1 .. n : J[i] = J[i - 1] \o ss[i]
  BY <1>6, <1>7 DEF Reading!Joins
<1>9. CASE c = Space
  <2>1. q = Append(parts, none)
    BY <1>2, <1>3, <1>9 DEF SplitStep
  <2>2. PICK Y : Y = Seq(Alphabet)
    OBVIOUS
  <2>3. /\ q \in Seq(Y) /\ Len(q) = n + 1 /\ q[n + 1] = none
        /\ \A i \in 1 .. n : q[i] = parts[i]
    BY <1>1, <2>1, <2>2
  <2>4. PICK tt : tt = Spaced(q)
    OBVIOUS
  <2>5. /\ tt \in Seq(Y) /\ Len(tt) = n + 1
        /\ \A i \in 1 .. n + 1 : tt[i] = one \o q[i]
    BY <1>3, <2>2, <2>3, <2>4, SpacedIs
  <2>6. tt = Append(ss, one)
    <3>1. /\ ss \in Seq(Y) /\ one \in Y
      BY <1>6, <2>2
    <3>2. /\ Append(ss, one) \in Seq(Y) /\ Len(Append(ss, one)) = n + 1
          /\ \A i \in 1 .. n : Append(ss, one)[i] = ss[i]
          /\ Append(ss, one)[n + 1] = one
      BY <1>6, <3>1
    <3>3. ASSUME NEW i \in 1 .. n + 1 PROVE tt[i] = Append(ss, one)[i]
      <4>1. CASE i \in 1 .. n
        BY <1>6, <2>3, <2>5, <3>2, <4>1
      <4>2. CASE i = n + 1
        <5>1. n + 1 \in 1 .. n + 1
          OBVIOUS
        <5>2. tt[n + 1] = one \o none
          BY <1>3, <2>3, <2>5, <5>1
        <5>3. tt[n + 1] = one
          BY <1>3, <5>2
        <5> QED  BY <3>2, <4>2, <5>3
      <4>3. i \in 1 .. n \/ i = n + 1
        OBVIOUS
      <4> QED  BY <4>1, <4>2, <4>3
    <3>4. PICK u : u = Append(ss, one)
      OBVIOUS
    <3>5. u \in Seq(Y) /\ Len(u) = Len(tt) /\ \A i \in 1 .. Len(tt) : tt[i] = u[i]
      BY <2>5, <3>2, <3>3, <3>4
    <3>6. tt = u
      BY <2>5, <3>5, SeqEqual
    <3> QED  BY <3>4, <3>6
  <2>7. Reading!FlattenSeq(tt) = Reading!FlattenSeq(ss) \o one
    BY <1>6, <2>6, Reading!FlattenAppend
  <2>8. PICK F \in Seq(Alphabet) : F = Reading!FlattenSeq(ss)
    BY <1>7, <1>8
  <2>9. F \o one = Append(F, c)
    <3>1. Append(F, c) = F \o <<c>>
      OBVIOUS
    <3> QED  BY <1>3, <1>9, <3>1
  <2> QED  BY <1>1, <1>2, <1>5, <1>9, <2>2, <2>3, <2>4, <2>7, <2>8, <2>9
<1>10. CASE c # Space
  <2>1. PICK longer \in Seq(Alphabet) : longer = Append(last, c)
    <3>1. Append(last, c) \in Seq(Alphabet)
      BY AppendProperties
    <3> QED  BY <3>1
  <2>2. q = [parts EXCEPT ![n] = longer]
    BY <1>1, <1>2, <1>4, <1>10, <2>1 DEF SplitStep
  <2>3. PICK Y : Y = Seq(Alphabet)
    OBVIOUS
  <2>4. /\ q \in Seq(Y) /\ Len(q) = n /\ q[n] = longer
        /\ \A i \in 1 .. n - 1 : q[i] = parts[i]
    BY <1>1, <2>1, <2>2, <2>3
  <2>5. PICK tt : tt = Spaced(q)
    OBVIOUS
  <2>6. /\ tt \in Seq(Seq(Alphabet)) /\ Len(tt) = n
        /\ \A i \in 1 .. n : tt[i] = one \o q[i]
    BY <1>3, <2>3, <2>4, <2>5, SpacedIs
  <2>7. PICK a \in Seq(Alphabet) : /\ Reading!FlattenSeq(ss) = a \o ss[n]
                                   /\ Reading!FlattenSeq(tt) = a \o tt[n]
    <3>1. ASSUME NEW i \in 1 .. n - 1 PROVE ss[i] = tt[i]
      <4>1. i \in 1 .. n
        OBVIOUS
      <4> QED  BY <1>6, <2>4, <2>6, <4>1
    <3>2. AlikeButLast(ss, tt, n)
      BY <1>6, <2>6, <3>1 DEF AlikeButLast
    <3> QED  BY <3>2, LastDiffers
  <2>8. ss[n] = one \o last /\ tt[n] = one \o longer
    <3>1. n \in 1 .. n
      OBVIOUS
    <3> QED  BY <1>4, <1>6, <2>4, <2>6, <3>1
  <2>9. a \o (one \o longer) = Append(a \o (one \o last), c)
    <3>1. a \o (one \o Append(last, c)) = Append(a \o (one \o last), c)
      BY AppendDeep
    <3> QED  BY <2>1, <3>1
  <2> QED  BY <1>1, <1>2, <1>5, <1>10, <2>3, <2>4, <2>5, <2>7, <2>8, <2>9
<1> QED  BY <1>9, <1>10

\* The blanks among the first i characters.
BlanksUpTo(t, i) == {h \in 0 .. i - 1 : t[h + 1] = Space}

\* One character more is a blank more or none.
LEMMA BlanksMore ==
  ASSUME NEW t \in Seq(Alphabet), NEW i \in Nat
  PROVE  /\ BlanksUpTo(t, 0) = {} /\ IsFiniteSet(BlanksUpTo(t, i))
         /\ Cardinality(BlanksUpTo(t, i)) \in Nat
         /\ Cardinality(BlanksUpTo(t, i + 1))
              = Cardinality(BlanksUpTo(t, i)) + IF t[i + 1] = Space THEN 1 ELSE 0
<1>1. BlanksUpTo(t, 0) = {}
  BY DEF BlanksUpTo
<1>2. BlanksUpTo(t, i) \subseteq 0 .. i - 1 /\ i \notin BlanksUpTo(t, i)
  BY DEF BlanksUpTo
<1>3. IsFiniteSet(BlanksUpTo(t, i)) /\ Cardinality(BlanksUpTo(t, i)) \in Nat
  <2>1. IsFiniteSet(0 .. i - 1)
    BY FS_Interval
  <2> QED  BY <1>2, <2>1, FS_Subset, FS_CardinalityType
<1>4. \A h : h \in 0 .. (i + 1) - 1 <=> h \in 0 .. i - 1 \/ h = i
  OBVIOUS
<1>5. CASE t[i + 1] = Space
  <2>1. BlanksUpTo(t, i + 1) = BlanksUpTo(t, i) \cup {i}
    BY <1>4, <1>5 DEF BlanksUpTo
  <2> QED  BY <1>1, <1>2, <1>3, <1>5, <2>1, FS_AddElement
<1>6. CASE t[i + 1] # Space
  <2>1. BlanksUpTo(t, i + 1) = BlanksUpTo(t, i)
    BY <1>4, <1>6 DEF BlanksUpTo
  <2> QED  BY <1>1, <1>3, <1>6, <2>1
<1> QED  BY <1>5, <1>6

\* They are what str_count counts.
LEMMA BlanksAreCounted ==
  ASSUME NEW t \in Seq(Alphabet)
  PROVE  str_count(t, <<Space>>) = Cardinality(BlanksUpTo(t, Len(t)))
<1>1. PICK s \in Seq(Alphabet) : s = <<Space>> /\ Len(s) = 1 /\ s[1] = Space
  <2>1. PICK c \in Alphabet : c = Space
    BY DEF Alphabet
  <2>2. <<c>> \in Seq(Alphabet) /\ Len(<<c>>) = 1 /\ <<c>>[1] = c
    OBVIOUS
  <2> QED  BY <2>1, <2>2
<1>2. PICK l \in Nat : l = Len(t)
  OBVIOUS
<1>3. ASSUME NEW h \in Int PROVE h \in Hits(t, s) <=> h \in BlanksUpTo(t, l)
  <2>1. h \in Hits(t, s) <=> /\ 0 <= h /\ h + Len(s) <= Len(t)
                              /\ \A i \in 1 .. Len(s) : t[h + i] = s[i]
    BY HitIs, Zenon
  <2>2. (\A i \in 1 .. 1 : t[h + i] = s[i]) <=> t[h + 1] = Space
    <3>1. \A i : i \in 1 .. 1 <=> i = 1
      OBVIOUS
    <3> QED  BY <1>1, <3>1
  <2>3. 0 <= h /\ h + 1 <= l <=> h \in 0 .. l - 1
    OBVIOUS
  <2> QED  BY <1>1, <1>2, <2>1, <2>2, <2>3 DEF BlanksUpTo
<1>4. Hits(t, s) \subseteq Int /\ BlanksUpTo(t, l) \subseteq Int
  BY <1>1, <1>2 DEF Hits, BlanksUpTo
<1>5. Hits(t, s) = BlanksUpTo(t, l)
  BY <1>3, <1>4
<1> QED  BY <1>1, <1>2, <1>5 DEF str_count

\* A beginning and the character behind it.
LEMMA HeadMore ==
  ASSUME NEW t \in Seq(Alphabet), NEW s \in Seq(Alphabet), NEW i \in 0 .. Len(t) - 1
  PROVE  Append(s \o SubSeq(t, 1, i), t[i + 1]) = s \o SubSeq(t, 1, i + 1)
<1>1. PICK p : p = SubSeq(t, 1, i)
  OBVIOUS
<1>2. p \in Seq(Alphabet) /\ Len(p) = i /\ \A k \in 1 .. i : p[k] = t[k]
  BY <1>1, HeadPiece
<1>3. PICK m \in Nat : m = i + 1 /\ m \in 0 .. Len(t)
  OBVIOUS
<1> DEFINE q == SubSeq(t, 1, m)
<1>4. q \in Seq(Alphabet) /\ Len(q) = m /\ \A k \in 1 .. m : q[k] = t[k]
  BY <1>3, HeadPiece
<1> HIDE DEF q
<1>5. PICK c \in Alphabet : c = t[i + 1]
  <2>1. i + 1 \in 1 .. Len(t)
    OBVIOUS
  <2> QED  BY <2>1
<1>6. q = Append(p, c)
  <2>1. PICK u : u = Append(p, c)
    OBVIOUS
  <2>2. u \in Seq(Alphabet) /\ Len(u) = m /\ \A k \in 1 .. m : u[k] = q[k]
    BY <1>2, <1>3, <1>4, <1>5, <2>1
  <2>3. u = q
    BY <1>4, <2>2, SeqEqual
  <2> QED  BY <2>1, <2>3
<1>7. s \o Append(p, c) = Append(s \o p, c)
  <2>1. PICK d \in Seq(Alphabet) : d = <<c>>
    <3>1. <<c>> \in Seq(Alphabet)
      OBVIOUS
    <3> QED  BY <3>1
  <2>2. Append(p, c) = p \o d
    BY <1>2, <2>1, AppendIsConcat
  <2>3. PICK e : e = s \o p
    OBVIOUS
  <2>4. e \in Seq(Alphabet)
    BY <1>2, <2>3, ConcatProperties
  <2>5. Append(e, c) = e \o d
    BY <2>1, <2>4, AppendIsConcat
  <2>6. (s \o p) \o d = s \o (p \o d)
    BY <1>2, <2>1, TextsJoin
  <2> QED  BY <2>2, <2>3, <2>5, <2>6
<1> QED  BY <1>1, <1>3, <1>5, <1>6, <1>7 DEF q

\* A run of the loop of str_split.
LEMMA SplitRuns ==
  ASSUME NEW t \in Seq(Alphabet)
  PROVE  \E g : Splitting!Runs(g, << <<>> >>, t) /\ str_split(t, Space) = g[Len(t)]
<1>1. PICK g : Splitting!Runs(g, << <<>> >>, t)
                 /\ Splitting!FoldLeft(SplitStep, << <<>> >>, t) = g[Len(t)]
  BY Splitting!FoldIs
<1>2. str_split(t, Space) = Splitting!FoldLeft(SplitStep, << <<>> >>, t)
  BY DEF str_split, SplitStep, FoldLeft, Splitting!FoldLeft, MapThenFoldSet,
         Splitting!MapThenFoldSet, Max, Splitting!Max
<1> QED  BY <1>1, <1>2

\* str_split makes a part more than there are blanks, and with a blank before each the
\* parts are the text with a blank before it.
LEMMA SplitIs ==
  ASSUME NEW t \in Seq(Alphabet)
  PROVE  /\ Len(str_split(t, Space)) = str_count(t, <<Space>>) + 1
         /\ FlattenSeq([i \in DOMAIN str_split(t, Space) |-> <<Space>> \o str_split(t, Space)[i]])
              = str_move_right(t, 1)
<1>1. PICK n \in Nat : n = Len(t)
  OBVIOUS
<1>2. PICK g : Splitting!Runs(g, << <<>> >>, t) /\ str_split(t, Space) = g[n]
  BY <1>1, SplitRuns
<1>3. g[0] = << <<>> >> /\ \A i \in 1 .. n : g[i] = SplitStep(g[i - 1], t[i])
  BY <1>1, <1>2 DEF Splitting!Runs
<1>4. PICK one \in Seq(Alphabet), none \in Seq(Alphabet) :
        one = <<Space>> /\ none = <<>> /\ one \o none = one
  <2>1. PICK d \in Alphabet : d = Space
    BY DEF Alphabet
  <2>2. <<d>> \in Seq(Alphabet) /\ <<>> \in Seq(Alphabet) /\ <<d>> \o <<>> = <<d>>
    OBVIOUS
  <2> QED  BY <2>1, <2>2
<1> DEFINE C(i) == Cardinality(BlanksUpTo(t, i))
           F(i) == Reading!FlattenSeq(Spaced(g[i]))
           T == {i \in 0 .. n : /\ g[i] \in Seq(Seq(Alphabet)) /\ Len(g[i]) = C(i) + 1
                                /\ F(i) = one \o SubSeq(t, 1, i)}
<1>5. \A i \in Nat : C(i) \in Nat /\ C(i + 1) = C(i) + IF t[i + 1] = Space THEN 1 ELSE 0
  BY BlanksMore
<1>6. C(0) = 0
  BY BlanksMore, FS_EmptySet
<1>7. g[0] \in Seq(Seq(Alphabet)) /\ Len(g[0]) = 1
  <2>1. PICK Y : Y = Seq(Alphabet)
    OBVIOUS
  <2>2. g[0] = <<none>> /\ none \in Y
    BY <1>3, <1>4, <2>1
  <2> QED  BY <2>1, <2>2
<1>8. F(0) = one
  <2>1. PICK Y : Y = Seq(Alphabet)
    OBVIOUS
  <2>2. g[0][1] = none /\ 1 \in 1 .. 1
    BY <1>3, <1>4
  <2>3. PICK ss : ss = Spaced(g[0])
    OBVIOUS
  <2>4. ss \in Seq(Y) /\ Len(ss) = 1 /\ ss[1] = one
    <3>1. PICK parts \in Seq(Seq(Alphabet)) : parts = g[0]
      BY <1>7
    <3>2. /\ Spaced(parts) \in Seq(Seq(Alphabet)) /\ Len(Spaced(parts)) = Len(parts)
          /\ \A i \in 1 .. Len(parts) : Spaced(parts)[i] = <<Space>> \o parts[i]
      BY SpacedIs
    <3>3. Len(parts) = 1 /\ parts[1] = none
      BY <1>7, <2>2, <3>1
    <3>4. ss \in Seq(Y) /\ Len(ss) = 1 /\ ss[1] = <<Space>> \o parts[1]
      BY <2>1, <2>2, <2>3, <3>1, <3>2, <3>3
    <3> QED  BY <1>4, <3>3, <3>4
  <2>5. ss = Append(<<>>, one) /\ <<>> \in Seq(Y)
    <3>1. ss = <<one>>
      BY <2>4
    <3> QED  BY <3>1
  <2>6. Reading!FlattenSeq(ss) = Reading!FlattenSeq(<<>>) \o one
    BY <2>1, <2>5, Reading!FlattenAppend
  <2>7. Reading!FlattenSeq(<<>>) = <<>>
    BY Reading!FlattenEmpty
  <2>8. <<>> \o one = one
    BY ConcatEmptySeq
  <2> QED  BY <2>3, <2>6, <2>7, <2>8
<1>9. 0 \in T
  <2>1. SubSeq(t, 1, 0) = none
    <3>1. 0 \in 0 .. Len(t)
      BY <1>1
    <3>2. PICK p : p = SubSeq(t, 1, 0)
      OBVIOUS
    <3>3. p \in Seq(Alphabet) /\ Len(p) = 0
      BY <3>1, <3>2, HeadPiece
    <3> QED  BY <1>4, <3>2, <3>3
  <2>2. 0 \in 0 .. n
    OBVIOUS
  <2>3. F(0) = one \o SubSeq(t, 1, 0)
    <3> HIDE DEF F
    <3> QED  BY <1>4, <1>8, <2>1
  <2>4. Len(g[0]) = C(0) + 1
    <3> HIDE DEF C
    <3> QED  BY <1>6, <1>7
  <2> HIDE DEF C, F
  <2> QED  BY <1>7, <2>2, <2>3, <2>4
<1>10. ASSUME NEW i \in 0 .. n - 1, i \in T PROVE i + 1 \in T
  <2>1. i \in Nat /\ i + 1 \in 1 .. n /\ i + 1 \in 0 .. n /\ (i + 1) - 1 = i
    OBVIOUS
  <2>2. PICK c \in Alphabet : c = t[i + 1]
    BY <1>1, <2>1
  <2>3. g[i + 1] = SplitStep(g[i], c)
    BY <1>3, <2>1, <2>2
  <2>4. g[i] \in Seq(Seq(Alphabet)) /\ Len(g[i]) = C(i) + 1 /\ F(i) = one \o SubSeq(t, 1, i)
    BY <1>10
  <2>5. C(i) \in Nat /\ C(i + 1) = C(i) + IF c = Space THEN 1 ELSE 0
    BY <1>5, <2>1, <2>2
  <2>6. Len(g[i]) # 0
    <3> HIDE DEF C
    <3> QED  BY <2>4, <2>5
  <2>7. /\ g[i + 1] \in Seq(Seq(Alphabet))
        /\ Len(g[i + 1]) = Len(g[i]) + IF c = Space THEN 1 ELSE 0
        /\ F(i + 1) = Append(F(i), c)
    BY <2>2, <2>3, <2>4, <2>6, SplitOneMore
  <2>8. Append(one \o SubSeq(t, 1, i), c) = one \o SubSeq(t, 1, i + 1)
    BY <1>1, <2>2, HeadMore
  <2>9. Len(g[i + 1]) = C(i + 1) + 1
    <3> HIDE DEF C
    <3> QED  BY <2>4, <2>5, <2>7
  <2> HIDE DEF C, F
  <2> QED  BY <2>1, <2>4, <2>7, <2>8, <2>9
<1> HIDE DEF T
<1>11. \A i \in 0 .. n : i \in T
  BY <1>9, <1>10, Reading!UpTo
<1>12. /\ Len(g[n]) = C(n) + 1 /\ F(n) = one \o SubSeq(t, 1, n)
  <2>1. n \in T
    BY <1>11
  <2> QED  BY <2>1 DEF T
<1>13. SubSeq(t, 1, n) = t
  <2>1. PICK p : p = SubSeq(t, 1, n)
    OBVIOUS
  <2>2. n \in 0 .. Len(t)
    BY <1>1
  <2>3. p \in Seq(Alphabet) /\ Len(p) = n /\ \A k \in 1 .. n : p[k] = t[k]
    BY <2>1, <2>2, HeadPiece
  <2>4. p = t
    BY <1>1, <2>3, SeqEqual
  <2> QED  BY <2>1, <2>4
<1>14. str_repeat(<<Space>>, 1) = one
  <2>1. PICK u : u = str_repeat(<<Space>>, 1)
    OBVIOUS
  <2>2. u \in Seq(Alphabet) /\ Len(u) = 1 /\ \A i \in 1 .. 1 : u[i] = Space
    BY <2>1, BlanksAre
  <2>3. u[1] = Space
    BY <2>2
  <2> QED  BY <1>4, <2>1, <2>2, <2>3
<1>15. str_count(t, <<Space>>) = C(n)
  BY <1>1, BlanksAreCounted
<1>16. FlattenSeq([i \in DOMAIN g[n] |-> <<Space>> \o g[n][i]]) = F(n)
  BY DEF Spaced, FlattenSeq, Reading!FlattenSeq
<1> HIDE DEF C, F
<1> QED  BY <1>2, <1>12, <1>13, <1>14, <1>15, <1>16 DEF str_move_right

-----------------------------------------------------------------------------
(* Replacing                                                                  *)

\* q lists, in order, the places below n at which s hits.
Lists(q, n, t, s) ==
  /\ q \in Seq(Nat)
  /\ \A k \in 1 .. Len(q) : q[k] \in Hits(t, s) /\ q[k] < n
  /\ \A h \in Hits(t, s) : h < n => \E k \in 1 .. Len(q) : q[k] = h
  /\ \A j, k \in 1 .. Len(q) : j < k => q[j] < q[k]

\* A round of the first loop of str_replace.
LEMMA ListsMore ==
  ASSUME NEW t, NEW s, Hits(t, s) \subseteq Int, NEW n \in Nat, NEW q, Lists(q, n, t, s)
  PROVE  Lists(IF n \in Hits(t, s) THEN Append(q, n) ELSE q, n + 1, t, s)
<1> USE DEF Lists
<1>1. \A h \in Int : h < n + 1 <=> h < n \/ h = n
  OBVIOUS
<1>2. CASE n \in Hits(t, s)
  <2>1. PICK u : u = Append(q, n)
    OBVIOUS
  <2>2. PICK m \in Nat : m = Len(q)
    OBVIOUS
  <2>3. /\ u \in Seq(Nat) /\ Len(u) = m + 1 /\ u[m + 1] = n
        /\ \A k \in 1 .. m : u[k] = q[k]
    BY <2>1, <2>2
  <2>4. \A k \in 1 .. m + 1 : k \in 1 .. m \/ k = m + 1
    OBVIOUS
  <2>5. ASSUME NEW k \in 1 .. m + 1 PROVE u[k] \in Hits(t, s) /\ u[k] < n + 1
    <3>1. CASE k \in 1 .. m
      <4>1. q[k] \in Hits(t, s) /\ q[k] < n
        BY <2>2, <3>1
      <4>2. u[k] = q[k] /\ q[k] \in Int
        BY <2>3, <3>1, <4>1
      <4> QED  BY <4>1, <4>2
    <3>2. CASE k = m + 1
      BY <1>2, <2>3, <3>2
    <3> QED  BY <2>4, <3>1, <3>2
  <2>6. ASSUME NEW h \in Hits(t, s), h < n + 1 PROVE \E k \in 1 .. m + 1 : u[k] = h
    <3>1. CASE h < n
      <4>1. PICK k \in 1 .. m : q[k] = h
        BY <2>2, <3>1
      <4> QED  BY <2>3, <4>1
    <3>2. CASE h = n
      BY <2>3, <3>2
    <3> QED  BY <1>1, <2>6, <3>1, <3>2
  <2>7. ASSUME NEW j \in 1 .. m + 1, NEW k \in 1 .. m + 1, j < k PROVE u[j] < u[k]
    <3>1. j \in 1 .. m
      BY <2>7
    <3>2. CASE k \in 1 .. m
      BY <2>2, <2>3, <2>7, <3>1, <3>2
    <3>3. CASE k = m + 1
      BY <2>2, <2>3, <3>1, <3>3
    <3> QED  BY <2>4, <3>2, <3>3
  <2>8. Lists(u, n + 1, t, s)
    BY <2>3, <2>5, <2>6, <2>7
  <2> QED  BY <1>2, <2>1, <2>8
<1>3. CASE n \notin Hits(t, s)
  <2>1. \A h \in Hits(t, s) : h < n + 1 => h < n
    BY <1>1, <1>3
  <2>2. \A k \in 1 .. Len(q) : q[k] < n + 1
    OBVIOUS
  <2>3. Lists(q, n + 1, t, s)
    BY <2>1, <2>2
  <2> QED  BY <1>3, <2>3
<1> QED  BY <1>2, <1>3

\* The first loop of str_replace lists all hits.
LEMMA FindingsList ==
  ASSUME NEW t \in Seq(Alphabet), NEW s \in Seq(Alphabet), Len(s) # 0, Len(s) <= Len(t)
  PROVE  Lists(findings(t, s), Len(t), t, s)
<1>1. PICK n \in Nat : n = Len(t) - Len(s) + 1
  OBVIOUS
<1>2. PICK H : H = Hits(t, s)
  OBVIOUS
<1>3. H \subseteq Int
  BY <1>2 DEF Hits
<1> DEFINE Is(f) == f = [k \in 0 .. n |->
                           IF k = 0 THEN <<>>
                           ELSE IF k - 1 \in H THEN Append(f[k - 1], k - 1)
                           ELSE f[k - 1]]
           F == CHOOSE f : Is(f)
<1>4. findings(t, s) = F[n]
  BY <1>1, <1>2 DEF findings
<1>5. \E f : Is(f)
  <2>1. PICK D : D = Seq(Nat)
    OBVIOUS
  <2>2. PICK down \in [Nat -> Nat] : \A k \in Nat : down[k] = IF k = 0 THEN 0 ELSE k - 1
    <3>1. [k \in Nat |-> IF k = 0 THEN 0 ELSE k - 1] \in [Nat -> Nat]
      OBVIOUS
    <3> QED  BY <3>1
  <2>3. PICK first \in [{0} -> D] : first[0] = <<>>
    <3>1. <<>> \in D
      BY <2>1
    <3>2. [k \in {0} |-> <<>>] \in [{0} -> D]
      BY <3>1
    <3> QED  BY <3>2
  <2> DEFINE steps == [k \in Nat |-> [q \in D |-> IF k - 1 \in H THEN Append(q, k - 1) ELSE q]]
  <2>4. ASSUME NEW k \in Nat, NEW q \in D PROVE (IF k - 1 \in H THEN Append(q, k - 1) ELSE q) \in D
    <3>1. CASE k - 1 \in H
      <4>1. k - 1 \in 0 .. (Len(t) - Len(s))
        BY <1>2, <3>1 DEF Hits
      <4>2. k - 1 \in Nat
        BY <4>1
      <4> QED  BY <2>1, <3>1, <4>2, AppendProperties
    <3> QED  BY <3>1
  <2>5. steps \in [Nat -> [D -> D]]
    BY <2>4
  <2>6. \A k \in Nat, q \in D : steps[k][q] = IF k - 1 \in H THEN Append(q, k - 1) ELSE q
    OBVIOUS
  <2> HIDE DEF steps
  <2>7. {0} \in SUBSET Nat /\ 0 \in {0} /\ \A k \in Nat \ {0} : down[k] < k
    BY <2>2
  <2>8. PICK f : DefinedUpTo(f, n, D, {0}, first, down, steps)
    BY <2>2, <2>3, <2>5, <2>7, RecursionUpTo
  <2>9. f \in [0 .. n -> D]
    BY <2>8 DEF DefinedUpTo
  <2>10. ASSUME NEW k \in 0 .. n
        PROVE  f[k] = IF k = 0 THEN <<>> ELSE IF k - 1 \in H THEN Append(f[k - 1], k - 1) ELSE f[k - 1]
    <3>1. f[k] = IF k \in {0} THEN first[k] ELSE steps[k][f[down[k]]]
      BY <2>8 DEF DefinedUpTo
    <3>2. CASE k = 0
      BY <2>3, <3>1, <3>2
    <3>3. CASE k # 0
      <4>1. k \in Nat /\ k - 1 \in 0 .. n /\ down[k] = k - 1
        BY <2>2, <3>3
      <4>2. f[k - 1] \in D
        BY <2>9, <4>1
      <4> QED  BY <2>6, <3>1, <3>3, <4>1, <4>2
    <3> QED  BY <3>2, <3>3
  <2>11. f = [k \in 0 .. n |-> f[k]]
    BY <2>9
  <2>12. Is(f)
    BY <2>10, <2>11
  <2> QED  BY <2>12
<1>6. Is(F)
  <2> HIDE DEF Is
  <2> QED  BY <1>5
<1>7. \A k \in 0 .. n : F[k] = IF k = 0 THEN <<>>
                                ELSE IF k - 1 \in H THEN Append(F[k - 1], k - 1) ELSE F[k - 1]
  <2>1. \A f : Is(f) => \A k \in 0 .. n :
          f[k] = IF k = 0 THEN <<>> ELSE IF k - 1 \in H THEN Append(f[k - 1], k - 1) ELSE f[k - 1]
    OBVIOUS
  <2> HIDE DEF Is, F
  <2> QED  BY <1>6, <2>1
<1> HIDE DEF Is, F
<1> DEFINE T == {k \in 0 .. n : Lists(F[k], k, t, s)}
<1>8. 0 \in T
  <2>1. F[0] = <<>>
    BY <1>7
  <2>2. <<>> \in Seq(Nat) /\ Len(<<>>) = 0
    OBVIOUS
  <2>3. \A h \in Hits(t, s) : ~(h < 0)
    BY DEF Hits
  <2>4. Lists(<<>>, 0, t, s)
    BY <2>2, <2>3 DEF Lists
  <2> QED  BY <2>1, <2>4
<1>9. ASSUME NEW k \in 0 .. n - 1, k \in T PROVE k + 1 \in T
  <2>1. k \in Nat /\ k + 1 \in 0 .. n /\ k + 1 # 0 /\ (k + 1) - 1 = k
    OBVIOUS
  <2>2. F[k + 1] = IF k \in H THEN Append(F[k], k) ELSE F[k]
    BY <1>7, <2>1
  <2>3. Lists(F[k], k, t, s)
    BY <1>9
  <2>4. Lists(F[k + 1], k + 1, t, s)
    BY <1>2, <1>3, <2>1, <2>2, <2>3, ListsMore
  <2> QED  BY <2>1, <2>4
<1> HIDE DEF T
<1>10. \A k \in 0 .. n : k \in T
  BY <1>8, <1>9, Reading!UpTo
<1>11. Lists(F[n], n, t, s)
  <2>1. n \in T
    BY <1>10
  <2> QED  BY <2>1 DEF T
<1>12. n <= Len(t)
  BY <1>1
<1>13. \A h \in Hits(t, s) : h < n
  BY <1>1 DEF Hits
<1>14. Lists(F[n], Len(t), t, s)
  <2>1. \A k \in 1 .. Len(F[n]) : F[n][k] \in Nat
    BY <1>11 DEF Lists
  <2>2. \A k \in 1 .. Len(F[n]) : F[n][k] < Len(t)
    BY <1>11, <1>12, <2>1 DEF Lists
  <2>3. \A h \in Hits(t, s) : \E k \in 1 .. Len(F[n]) : F[n][k] = h
    BY <1>11, <1>13 DEF Lists
  <2> QED  BY <1>11, <2>2, <2>3 DEF Lists
<1> QED  BY <1>4, <1>14

\* A text that does not overlap itself hits at places that are its length apart.
LEMMA HitsApart ==
  ASSUME NEW t \in Seq(Alphabet), NEW s \in Seq(Alphabet), ~SelfOverlaps(s),
         NEW h \in Hits(t, s), NEW k \in Hits(t, s), h < k
  PROVE  h + Len(s) <= k
<1>1. PICK l, m \in Nat : l = Len(t) /\ m = Len(s)
  OBVIOUS
<1>2. h \in Nat /\ k \in Nat
  BY <1>1 DEF Hits
<1>3. /\ \A i \in 1 .. m : t[h + i] = s[i]
      /\ \A i \in 1 .. m : t[k + i] = s[i]
  <2>1. h \in Int /\ k \in Int
    BY <1>2
  <2>2. \A g \in Int : g \in Hits(t, s) => \A i \in 1 .. Len(s) : t[g + i] = s[i]
    BY HitIs, Zenon
  <2> QED  BY <1>1, <2>1, <2>2
<1> SUFFICES ASSUME k < h + m PROVE FALSE
  BY <1>1, <1>2
<1>4. PICK n \in 1 .. m - 1 : n = h + m - k
  BY <1>2
<1>5. PICK o \in Nat : o = m - n /\ h + o = k
  BY <1>2, <1>4
<1>6. PICK p : p = SubSeq(s, 1, n)
  OBVIOUS
<1>7. p \in Seq(Alphabet) /\ Len(p) = n /\ \A i \in 1 .. n : p[i] = s[i]
  BY <1>1, <1>6, HeadPiece
<1>8. PICK q : q = SubSeq(s, o + 1, m)
  OBVIOUS
<1>9. q \in Seq(Alphabet) /\ Len(q) = m - o /\ \A i \in 1 .. m - o : q[i] = s[o + i]
  <2>1. o \in 0 .. Len(s)
    BY <1>1, <1>4, <1>5
  <2> QED  BY <1>1, <1>8, <2>1, TailPiece
<1>10. m - o = n /\ o + n = m /\ 0 + n = n /\ 0 + 1 = 1
  BY <1>4, <1>5
<1>11. ASSUME NEW i \in 1 .. n PROVE p[i] = q[i]
  <2>1. i \in 1 .. m /\ o + i \in 1 .. m /\ h + (o + i) = k + i
    BY <1>2, <1>4, <1>5
  <2>2. t[k + i] = s[i] /\ t[h + (o + i)] = s[o + i]
    BY <1>3, <2>1
  <2> QED  BY <1>7, <1>9, <1>10, <2>1, <2>2
<1>12. p = q
  BY <1>7, <1>9, <1>10, <1>11, SeqEqual
<1>13. Part(s, 0, n) = Part(s, m - n, n)
  BY <1>5, <1>6, <1>8, <1>10, <1>12 DEF Part
<1> QED  BY <1>1, <1>4, <1>13 DEF SelfOverlaps

\* What is to be left of each character.
Left(t, s, by) == [i \in DOMAIN t |-> Replaced(t, s, by, i)]

\* No hit of s takes the character at i.
Spared(t, s, i) == \A h \in Hits(t, s) : ~(h < i /\ i <= h + Len(s))

\* A hit leaves the replacement and takes the rest, and what is not hit stays.
Leaves(R, t, s, by) ==
  /\ R \in Seq(Seq(Alphabet)) /\ Len(R) = Len(t)
  /\ \A h \in Hits(t, s) : R[h + 1] = by /\ \A i \in h + 2 .. h + Len(s) : R[i] = <<>>
  /\ \A i \in 1 .. Len(t) : Spared(t, s, i) => R[i] = <<t[i]>>

\* That is what Left is, since no two hits overlap.
LEMMA LeftIs ==
  ASSUME NEW t \in Seq(Alphabet), NEW s \in Seq(Alphabet), Len(s) # 0, ~SelfOverlaps(s),
         NEW by \in Seq(Alphabet)
  PROVE  Leaves(Left(t, s, by), t, s, by)
<1>1. PICK l, m \in Nat : l = Len(t) /\ m = Len(s) /\ m # 0 /\ DOMAIN t = 1 .. l
  OBVIOUS
<1>2. PICK Y : Y = Seq(Alphabet)
  OBVIOUS
<1>3. ASSUME NEW h \in Hits(t, s) PROVE h \in Nat /\ h + m <= l
  BY <1>1 DEF Hits
<1>4. PICK R : R = Left(t, s, by)
  OBVIOUS
<1>5. \A i \in 1 .. l : R[i] = Replaced(t, s, by, i)
  BY <1>1, <1>4 DEF Left
<1>6. ASSUME NEW i \in 1 .. l PROVE Replaced(t, s, by, i) \in Y
  <2>1. t[i] \in Alphabet
    BY <1>1
  <2>2. <<t[i]>> \in Y /\ <<>> \in Y /\ by \in Y
    BY <1>2, <2>1
  <2> QED  BY <2>2 DEF Replaced
<1>7. R = [i \in 1 .. l |-> Replaced(t, s, by, i)]
  BY <1>1, <1>4 DEF Left
<1>8. R \in Seq(Y) /\ Len(R) = l
  BY <1>6, <1>7
<1>9. ASSUME NEW h \in Hits(t, s) PROVE R[h + 1] = by
  <2>1. h + 1 \in 1 .. l /\ (h + 1) - 1 = h
    BY <1>1, <1>3
  <2>2. ASSUME NEW g \in Hits(t, s) PROVE ~(g + 1 < h + 1 /\ h + 1 <= g + Len(s))
    <3>1. g < h => g + Len(s) <= h
      BY HitsApart
    <3> QED  BY <1>1, <1>3, <3>1
  <2> QED  BY <1>5, <2>1, <2>2 DEF Replaced
<1>10. ASSUME NEW h \in Hits(t, s), NEW i \in h + 2 .. h + m PROVE R[i] = <<>>
  <2>1. h \in Nat /\ i \in 1 .. l /\ h < i /\ i <= h + m /\ i - 1 > h /\ i - 1 < h + m
    BY <1>1, <1>3
  <2>2. i - 1 \notin Hits(t, s)
    <3>1. i - 1 \in Hits(t, s) => h + Len(s) <= i - 1
      BY <2>1, HitsApart
    <3> QED  BY <1>1, <2>1, <3>1
  <2>3. \E g \in Hits(t, s) : g + 1 < i /\ i <= g + Len(s)
    <3>1. h + 1 < i /\ i <= h + Len(s)
      BY <1>1, <2>1
    <3> QED  BY <3>1
  <2> QED  BY <1>5, <2>1, <2>2, <2>3 DEF Replaced
<1>11. ASSUME NEW i \in 1 .. l, Spared(t, s, i) PROVE R[i] = <<t[i]>>
  <2>1. i - 1 \notin Hits(t, s)
    BY <1>1, <1>11 DEF Spared
  <2>2. ~\E h \in Hits(t, s) : h + 1 < i /\ i <= h + Len(s)
    BY <1>1, <1>3, <1>11 DEF Spared
  <2> QED  BY <1>5, <2>1, <2>2 DEF Replaced
<1> QED  BY <1>1, <1>2, <1>4, <1>8, <1>9, <1>10, <1>11 DEF Leaves

\* Two pieces that meet.
LEMMA PiecesMeet ==
  ASSUME NEW t \in Seq(Alphabet), NEW e \in 0 .. Len(t), NEW f \in e .. Len(t)
  PROVE  /\ SubSeq(t, e + 1, Len(t)) = SubSeq(t, e + 1, f) \o SubSeq(t, f + 1, Len(t))
         /\ SubSeq(t, e + 1, f) \in Seq(Alphabet) /\ Len(SubSeq(t, e + 1, f)) = f - e
<1>1. PICK l \in Nat : l = Len(t) /\ e \in Nat /\ f \in Nat /\ e <= f /\ f <= l
  OBVIOUS
<1>2. PICK a \in Nat \ {0} : a = e + 1
  BY <1>1
<1>3. PICK p : p = SubSeq(t, a, f)
  OBVIOUS
<1>4. p \in Seq(Alphabet) /\ Len(p) = f - a + 1 /\ \A i \in 1 .. (f - a + 1) : p[i] = t[a + i - 1]
  <2>1. a <= f + 1 /\ f <= Len(t)
    BY <1>1, <1>2
  <2> QED  BY <1>1, <1>3, <2>1, PieceIs
<1>5. PICK q : q = SubSeq(t, f + 1, l)
  OBVIOUS
<1>6. q \in Seq(Alphabet) /\ Len(q) = l - f /\ \A i \in 1 .. l - f : q[i] = t[f + i]
  BY <1>1, <1>5, TailPiece
<1>7. PICK r : r = SubSeq(t, e + 1, l)
  OBVIOUS
<1>8. r \in Seq(Alphabet) /\ Len(r) = l - e /\ \A i \in 1 .. l - e : r[i] = t[e + i]
  BY <1>1, <1>7, TailPiece
<1>9. PICK u : u = p \o q
  OBVIOUS
<1>10. f - a + 1 = f - e
  BY <1>1, <1>2
<1>11. /\ u \in Seq(Alphabet) /\ Len(u) = Len(p) + Len(q)
       /\ \A i \in 1 .. Len(p) + Len(q) : u[i] = IF i <= Len(p) THEN p[i] ELSE q[i - Len(p)]
  BY <1>4, <1>6, <1>9, ConcatProperties
<1>12. Len(p) = f - e /\ Len(p) + Len(q) = l - e
  <2>1. Len(p) = f - a + 1 /\ Len(q) = l - f
    BY <1>4, <1>6
  <2> QED  BY <1>1, <1>10, <2>1
<1>13. ASSUME NEW i \in 1 .. l - e PROVE u[i] = r[i]
  <2>1. CASE i <= f - e
    <3>1. i \in 1 .. (f - a + 1) /\ a + i - 1 = e + i
      BY <1>1, <1>2, <2>1
    <3>2. u[i] = p[i]
      BY <1>11, <1>12, <2>1
    <3> QED  BY <1>4, <1>8, <3>1, <3>2
  <2>2. CASE ~(i <= f - e)
    <3>1. PICK k : k = i - (f - e)
      OBVIOUS
    <3>2. k \in 1 .. l - f /\ f + k = e + i
      BY <1>1, <2>2, <3>1
    <3>3. u[i] = q[k]
      BY <1>11, <1>12, <2>2, <3>1
    <3> QED  BY <1>6, <1>8, <3>2, <3>3
  <2> QED  BY <2>1, <2>2
<1>14. u = r
  BY <1>8, <1>11, <1>12, <1>13, SeqEqual
<1> QED  BY <1>1, <1>2, <1>3, <1>4, <1>5, <1>7, <1>9, <1>10, <1>14

\* J joins what is left of t when by replaces s, which cannot overlap itself.
Replacing(t, s, by, J) ==
  /\ t \in Seq(Alphabet) /\ s \in Seq(Alphabet) /\ by \in Seq(Alphabet)
  /\ Len(s) # 0 /\ ~SelfOverlaps(s)
  /\ Reading!Joins(J, Alphabet, Left(t, s, by))

\* The characters from the e-th to the f-th are not taken by any hit of s.
Between(t, s, e, f) ==
  /\ e \in 0 .. Len(t) /\ f \in e .. Len(t)
  /\ \A i \in e + 1 .. f : Spared(t, s, i)

\* There is a join for every beginning of the text.
LEMMA ReplacingTyped ==
  ASSUME NEW t, NEW s, NEW by, NEW J, Replacing(t, s, by, J)
  PROVE  J \in [0 .. Len(t) -> Seq(Alphabet)]
<1>1. Len(Left(t, s, by)) = Len(t)
  BY LeftIs DEF Replacing, Leaves
<1> QED  BY <1>1 DEF Replacing, Reading!Joins

\* The joins of what is left: a hit puts in the replacement,
LEMMA JoinsAtHit ==
  ASSUME NEW t, NEW s, NEW by, NEW J, Replacing(t, s, by, J),
         NEW h \in Hits(t, s)
  PROVE  J[h + Len(s)] = J[h] \o by
<1>1. PICK l, m \in Nat : l = Len(t) /\ m = Len(s) /\ m # 0 /\ h \in Nat /\ h + m <= l
  BY DEF Hits, Replacing
<1>2. PICK R : R = Left(t, s, by)
  OBVIOUS
<1>3. /\ R[h + 1] = by /\ Len(R) = l
      /\ \A i \in h + 2 .. h + m : R[i] = <<>>
  <2>1. Leaves(R, t, s, by)
    BY <1>2, LeftIs DEF Replacing
  <2> QED  BY <1>1, <2>1 DEF Leaves
<1>4. J \in [0 .. l -> Seq(Alphabet)] /\ \A i \in 1 .. l : J[i] = J[i - 1] \o R[i]
  BY <1>2, <1>3 DEF Reading!Joins, Replacing
<1>5. J[h + 1] = J[h] \o by
  <2>1. h + 1 \in 1 .. l /\ (h + 1) - 1 = h
    BY <1>1
  <2> QED  BY <1>3, <1>4, <2>1
<1> DEFINE T == {i \in 0 .. m - 1 : J[h + 1 + i] = J[h] \o by}
<1>6. 0 \in T
  <2>1. 0 \in 0 .. m - 1 /\ h + 1 + 0 = h + 1
    BY <1>1
  <2> QED  BY <1>5, <2>1
<1>7. ASSUME NEW i \in 0 .. (m - 1) - 1, i \in T PROVE i + 1 \in T
  <2>1. PICK n \in Nat : n = h + 1 + (i + 1)
    BY <1>1
  <2>2. n \in 1 .. l /\ n \in h + 2 .. h + m /\ n - 1 = h + 1 + i /\ n - 1 \in 0 .. l
        /\ i + 1 \in 0 .. m - 1
    BY <1>1, <2>1
  <2>3. J[n] = J[n - 1] \o <<>>
    BY <1>3, <1>4, <2>2
  <2>4. J[n - 1] \in Seq(Alphabet)
    BY <1>4, <2>2
  <2>5. J[n] = J[n - 1]
    BY <2>3, <2>4, ConcatEmptySeq
  <2> QED  BY <1>7, <2>1, <2>2, <2>5
<1> HIDE DEF T
<1>8. \A i \in 0 .. m - 1 : i \in T
  <2>1. m - 1 \in Nat
    BY <1>1
  <2> QED  BY <1>6, <1>7, <2>1, Reading!UpTo
<1>9. m - 1 \in T /\ h + 1 + (m - 1) = h + m
  BY <1>1, <1>8
<1> QED  BY <1>1, <1>9 DEF T

\* and where nothing hits the text goes on.
GoesOn(t, J, e, f) == J[f] = J[e] \o SubSeq(t, e + 1, f)

\* It does between two hits.
LEMMA JoinsBetween ==
  ASSUME NEW t, NEW s, NEW by, NEW J, Replacing(t, s, by, J),
         NEW e, NEW f, Between(t, s, e, f)
  PROVE  GoesOn(t, J, e, f)
<1>1. PICK l, n \in Nat : l = Len(t) /\ n = f - e /\ e \in Nat /\ f = e + n /\ e + n <= l
  BY DEF Replacing, Between
<1>2. PICK R : R = Left(t, s, by)
  OBVIOUS
<1>3. Len(R) = l /\ \A i \in e + 1 .. f : R[i] = <<t[i]>>
  <2>1. \A i \in e + 1 .. f : i \in 1 .. Len(t)
    BY <1>1
  <2>2. Leaves(R, t, s, by)
    BY <1>2, LeftIs DEF Replacing
  <2>3. \A i \in e + 1 .. f : Spared(t, s, i)
    BY DEF Between
  <2> QED  BY <1>1, <2>1, <2>2, <2>3 DEF Leaves
<1>4. J \in [0 .. l -> Seq(Alphabet)] /\ \A i \in 1 .. l : J[i] = J[i - 1] \o R[i]
  BY <1>2, <1>3 DEF Reading!Joins, Replacing
<1>typed. t \in Seq(Alphabet) /\ e \in 0 .. Len(t)
  BY DEF Replacing, Between
<1>5. PICK b \in Seq(Alphabet) : b = SubSeq(t, e + 1, l)
  BY <1>typed, <1>1, TailPiece
<1>6. Len(b) = l - e /\ \A i \in 1 .. l - e : b[i] = t[e + i]
  BY <1>typed, <1>1, <1>5, TailPiece
<1>7. PICK a \in Seq(Alphabet) : a = J[e]
  BY <1>1, <1>4
<1> DEFINE T == {i \in 0 .. n : J[e + i] = a \o SubSeq(b, 1, i)}
<1>8. 0 \in T
  <2>1. PICK p : p = SubSeq(b, 1, 0)
    OBVIOUS
  <2>2. p \in Seq(Alphabet) /\ Len(p) = 0
    <3>1. 0 \in 0 .. Len(b)
      BY <1>1, <1>6
    <3> QED  BY <2>1, <3>1, HeadPiece
  <2>3. a \o p = a
    <3>1. p = <<>>
      BY <2>2
    <3> QED  BY <3>1, ConcatEmptySeq
  <2>4. 0 \in 0 .. n /\ e + 0 = e
    BY <1>1
  <2> QED  BY <1>7, <2>1, <2>3, <2>4
<1>9. ASSUME NEW i \in 0 .. n - 1, i \in T PROVE i + 1 \in T
  <2>1. PICK k \in Nat : k = e + (i + 1)
    BY <1>1
  <2>2. k \in 1 .. l /\ k \in e + 1 .. f /\ k - 1 = e + i /\ i + 1 \in 0 .. n /\ i \in 0 .. Len(b) - 1
        /\ i + 1 \in 1 .. l - e
    BY <1>1, <1>6, <2>1
  <2>3. PICK c \in Alphabet : c = t[k]
    BY <1>typed, <1>1, <2>2
  <2>4. b[i + 1] = c
    BY <1>6, <2>1, <2>2, <2>3
  <2>5. J[k] = J[k - 1] \o <<c>>
    BY <1>3, <1>4, <2>2, <2>3
  <2>6. PICK g \in Seq(Alphabet) : g = a \o SubSeq(b, 1, i)
    <3>1. J[k - 1] \in Seq(Alphabet)
      <4>1. k - 1 \in 0 .. l
        BY <2>2
      <4> QED  BY <1>4, <4>1
    <3>2. J[k - 1] = a \o SubSeq(b, 1, i)
      BY <1>9, <2>2
    <3> QED  BY <3>1, <3>2
  <2>7. g \o <<c>> = Append(g, c)
    OBVIOUS
  <2>8. Append(g, c) = a \o SubSeq(b, 1, i + 1)
    BY <2>2, <2>4, <2>6, HeadMore
  <2>9. J[k - 1] = g
    BY <1>9, <2>2, <2>6
  <2> QED  BY <2>1, <2>2, <2>5, <2>7, <2>8, <2>9
<1> HIDE DEF T
<1>10. \A i \in 0 .. n : i \in T
  BY <1>8, <1>9, Reading!UpTo
<1>11. J[e + n] = a \o SubSeq(b, 1, n)
  <2>1. n \in T
    BY <1>10
  <2> QED  BY <2>1 DEF T
<1>12. SubSeq(b, 1, n) = SubSeq(t, e + 1, f)
  <2>1. PICK p : p = SubSeq(b, 1, n)
    OBVIOUS
  <2>2. n \in 0 .. Len(b)
    BY <1>1, <1>6
  <2>3. p \in Seq(Alphabet) /\ Len(p) = n /\ \A i \in 1 .. n : p[i] = b[i]
    BY <2>1, <2>2, HeadPiece
  <2>4. PICK d \in Nat \ {0} : d = e + 1
    BY <1>1
  <2>5. PICK q : q = SubSeq(t, d, f)
    OBVIOUS
  <2>6. f \in Nat /\ d <= f + 1 /\ f <= Len(t) /\ f - d + 1 = n
    BY <1>1, <2>4
  <2>7. q \in Seq(Alphabet) /\ Len(q) = f - d + 1 /\ \A i \in 1 .. (f - d + 1) : q[i] = t[d + i - 1]
    BY <1>typed, <2>5, <2>6, PieceIs
  <2>8. ASSUME NEW i \in 1 .. n PROVE p[i] = q[i]
    <3>1. d + i - 1 = e + i /\ i \in 1 .. l - e
      BY <1>1, <2>4
    <3> QED  BY <1>6, <2>3, <2>6, <2>7, <3>1
  <2>9. p = q
    BY <2>3, <2>6, <2>7, <2>8, SeqEqual
  <2> QED  BY <2>1, <2>4, <2>5, <2>9
<1> QED  BY <1>1, <1>7, <1>11, <1>12 DEF GoesOn

\* str_replace half way: all before the e-th character is replaced, the rest is as it was.
Half(t, J, e) == [text |-> J[e] \o SubSeq(t, e + 1, Len(t)), offset |-> Len(J[e]) - e]

\* It is the same up to the next hit.
LEMMA HalfStays ==
  ASSUME NEW t, NEW s, NEW by, NEW J, Replacing(t, s, by, J),
         NEW e, NEW f, Between(t, s, e, f)
  PROVE  Half(t, J, e) = Half(t, J, f)
<1>1. PICK l \in Nat : l = Len(t) /\ e \in Nat /\ f \in Nat /\ e <= f /\ f <= l
  BY DEF Replacing, Between
<1>typed. t \in Seq(Alphabet) /\ e \in 0 .. Len(t) /\ f \in e .. Len(t) /\ f \in 0 .. Len(t)
  BY <1>1 DEF Replacing
<1>2. J \in [0 .. l -> Seq(Alphabet)]
  BY <1>1, ReplacingTyped
<1>3. PICK a \in Seq(Alphabet), b \in Seq(Alphabet) : a = J[e] /\ b = J[f]
  <2>1. e \in 0 .. l /\ f \in 0 .. l
    BY <1>1
  <2>2. J[e] \in Seq(Alphabet) /\ J[f] \in Seq(Alphabet)
    BY <1>2, <2>1
  <2> QED  BY <2>2
<1>4. PICK p : p = SubSeq(t, e + 1, f)
  OBVIOUS
<1>5. PICK q : q = SubSeq(t, f + 1, l)
  OBVIOUS
<1>6. p \in Seq(Alphabet) /\ Len(p) = f - e /\ SubSeq(t, e + 1, l) = p \o q
  BY <1>typed, <1>1, <1>4, <1>5, PiecesMeet
<1>7. q \in Seq(Alphabet)
  BY <1>typed, <1>1, <1>5, TailPiece
<1>8. b = a \o p
  <2>1. GoesOn(t, J, e, f)
    BY JoinsBetween
  <2> QED  BY <1>3, <1>4, <2>1 DEF GoesOn
<1>9. (a \o p) \o q = a \o (p \o q)
  <2>1. p \in Seq(Alphabet)
    BY <1>6
  <2> QED  BY <1>7, <2>1, TextsJoin
<1>10. Len(b) = Len(a) + (f - e)
  <2>1. Len(a \o p) = Len(a) + Len(p)
    BY <1>6, ConcatProperties
  <2> QED  BY <1>6, <1>8, <2>1
<1>11. Len(b) - f = Len(a) - e
  BY <1>1, <1>10
<1> QED  BY <1>1, <1>3, <1>5, <1>6, <1>8, <1>9, <1>11 DEF Half

\* Where two texts meet.
LEMMA MeetsAt ==
  ASSUME NEW a \in Seq(Alphabet), NEW b \in Seq(Alphabet), NEW m \in 0 .. Len(b)
  PROVE  /\ SubSeq(a \o b, 1, Len(a)) = a
         /\ SubSeq(a \o b, Len(a) + m + 1, Len(a \o b)) = SubSeq(b, m + 1, Len(b))
<1>1. PICK j, k \in Nat : j = Len(a) /\ k = Len(b) /\ m \in Nat /\ m <= k
  OBVIOUS
<1>2. PICK u : u = a \o b
  OBVIOUS
<1>3. /\ u \in Seq(Alphabet) /\ Len(u) = j + k
      /\ \A i \in 1 .. j + k : u[i] = IF i <= j THEN a[i] ELSE b[i - j]
  BY <1>1, <1>2, ConcatProperties
<1>4. PICK p : p = SubSeq(u, 1, j)
  OBVIOUS
<1>5. p \in Seq(Alphabet) /\ Len(p) = j /\ \A i \in 1 .. j : p[i] = u[i]
  <2>1. j \in 0 .. Len(u)
    BY <1>1, <1>3
  <2> QED  BY <1>3, <1>4, <2>1, HeadPiece
<1>6. p = a
  <2>1. \A i \in 1 .. j : p[i] = a[i]
    BY <1>1, <1>3, <1>5
  <2> QED  BY <1>1, <1>5, <2>1, SeqEqual
<1>7. PICK n \in 0 .. Len(u) : n = j + m
  BY <1>1, <1>3
<1>8. PICK q : q = SubSeq(u, n + 1, Len(u))
  OBVIOUS
<1>9. q \in Seq(Alphabet) /\ Len(q) = Len(u) - n /\ \A i \in 1 .. Len(u) - n : q[i] = u[n + i]
  BY <1>3, <1>8, TailPiece
<1>10. PICK r : r = SubSeq(b, m + 1, k)
  OBVIOUS
<1>11. r \in Seq(Alphabet) /\ Len(r) = k - m /\ \A i \in 1 .. k - m : r[i] = b[m + i]
  BY <1>1, <1>10, TailPiece
<1>12. Len(u) - n = k - m
  BY <1>1, <1>3, <1>7
<1>13. ASSUME NEW i \in 1 .. k - m PROVE q[i] = r[i]
  <2>1. n + i \in 1 .. j + k /\ ~(n + i <= j) /\ n + i - j = m + i
    BY <1>1, <1>7
  <2>2. q[i] = u[n + i] /\ r[i] = b[m + i]
    BY <1>9, <1>11, <1>12
  <2>3. u[n + i] = b[n + i - j]
    BY <1>3, <2>1
  <2> QED  BY <2>1, <2>2, <2>3
<1>14. q = r
  BY <1>9, <1>11, <1>12, <1>13, SeqEqual
<1> QED  BY <1>1, <1>2, <1>4, <1>6, <1>7, <1>8, <1>10, <1>14

\* A round of the second loop, when all before the hit is done.
LEMMA ReplaceStepIs ==
  ASSUME NEW t, NEW s, NEW by, NEW J, Replacing(t, s, by, J),
         NEW h \in Hits(t, s)
  PROVE  replace_step(s, by, Half(t, J, h), h) = Half(t, J, h + Len(s))
<1>1. PICK l, m \in Nat : l = Len(t) /\ m = Len(s) /\ m # 0 /\ h \in Nat /\ h + m <= l
  BY DEF Hits, Replacing
<1>2. J \in [0 .. l -> Seq(Alphabet)]
  BY <1>1, ReplacingTyped
<1>typed. t \in Seq(Alphabet) /\ s \in Seq(Alphabet) /\ by \in Seq(Alphabet) /\ h \in 0 .. Len(t)
  BY <1>1 DEF Replacing
<1>3. PICK a, c \in Seq(Alphabet) : a = J[h] /\ c = J[h + m]
  <2>1. h \in 0 .. l /\ h + m \in 0 .. l
    BY <1>1
  <2> QED  BY <1>2, <2>1
<1>4. c = a \o by
  <2>1. J[h + Len(s)] = J[h] \o by
    BY JoinsAtHit
  <2> QED  BY <1>1, <1>3, <2>1
<1>5. PICK b : b = SubSeq(t, h + 1, l)
  OBVIOUS
<1>6. b \in Seq(Alphabet) /\ Len(b) = l - h /\ \A i \in 1 .. l - h : b[i] = t[h + i]
  BY <1>typed, <1>1, <1>5, TailPiece
<1>7. PICK d : d = SubSeq(t, h + m + 1, l)
  OBVIOUS
<1>8. SubSeq(b, m + 1, Len(b)) = d
  <2>1. PICK p : p = SubSeq(b, m + 1, Len(b))
    OBVIOUS
  <2>2. m \in 0 .. Len(b) /\ Len(b) - m = l - (h + m)
    BY <1>1, <1>6
  <2>3. p \in Seq(Alphabet) /\ Len(p) = Len(b) - m /\ \A i \in 1 .. Len(b) - m : p[i] = b[m + i]
    BY <1>6, <2>1, <2>2, TailPiece
  <2>4. PICK n \in 0 .. Len(t) : n = h + m
    BY <1>1
  <2>5. d \in Seq(Alphabet) /\ Len(d) = l - n /\ \A i \in 1 .. l - n : d[i] = t[n + i]
    BY <1>typed, <1>1, <1>7, <2>4, TailPiece
  <2>6. ASSUME NEW i \in 1 .. l - n PROVE p[i] = d[i]
    <3>1. m + i \in 1 .. l - h /\ h + (m + i) = n + i
      BY <1>1, <2>4
    <3> QED  BY <1>6, <2>2, <2>3, <2>4, <2>5, <3>1
  <2>7. p = d
    BY <2>2, <2>3, <2>4, <2>5, <2>6, SeqEqual
  <2> QED  BY <2>1, <2>7
<1>9. PICK u : u = a \o b
  OBVIOUS
<1>10. SubSeq(u, 1, Len(a)) = a /\ SubSeq(u, Len(a) + m + 1, Len(u)) = d
  <2>1. m \in 0 .. Len(b)
    BY <1>1, <1>6
  <2> QED  BY <1>6, <1>8, <1>9, <2>1, MeetsAt
<1>11. Half(t, J, h) = [text |-> u, offset |-> Len(a) - h]
  BY <1>1, <1>3, <1>5, <1>9 DEF Half
<1>12. Half(t, J, h + m) = [text |-> c \o d, offset |-> Len(c) - (h + m)]
  BY <1>1, <1>3, <1>7 DEF Half
<1>13. PICK k, n \in Nat : k = Len(a) /\ n = Len(by)
  BY <1>typed
<1>14. /\ h + (k - h) = k /\ 0 + 1 = 1 /\ 0 + k = k
       /\ Len(c) - (h + m) = (k - h) + n - m
  <2>1. Len(c) = k + n
    BY <1>typed, <1>4, <1>13
  <2> QED  BY <1>1, <1>13, <2>1
<1>15. Part(u, 0, k) = a /\ str_cut_start(u, k + m) = d
  BY <1>10, <1>13, <1>14 DEF Part, str_cut_start
<1>16. replace_step(s, by, Half(t, J, h), h)
         = [text |-> a \o by \o d, offset |-> (k - h) + n - m]
  <2>1. PICK z : z = Half(t, J, h)
    OBVIOUS
  <2>2. z.text = u /\ z.offset = k - h
    BY <1>11, <1>13, <2>1
  <2>3. h + z.offset = k
    BY <1>14, <2>2
  <2> QED  BY <1>1, <1>13, <1>15, <2>1, <2>2, <2>3 DEF replace_step
<1> QED  BY <1>1, <1>4, <1>12, <1>14, <1>16

\* Where the text goes on behind the k-th hit of q, and where the next hit is or the text ends.
Behind(q, s, k) == IF k = 0 THEN 0 ELSE q[k] + Len(s)
Ahead(q, t, k) == IF k = Len(q) THEN Len(t) ELSE q[k + 1]

\* Between two hits nothing hits.
LEMMA NoneBetween ==
  ASSUME NEW t, NEW s, NEW by, NEW J, Replacing(t, s, by, J),
         NEW q, Lists(q, Len(t), t, s), NEW k \in 0 .. Len(q)
  PROVE  Between(t, s, Behind(q, s, k), Ahead(q, t, k))
<1>typed. t \in Seq(Alphabet) /\ s \in Seq(Alphabet) /\ ~SelfOverlaps(s) /\ Len(s) # 0
  BY DEF Replacing
<1>1. PICK l, m \in Nat : l = Len(t) /\ m = Len(s)
  BY <1>typed
<1>2. PICK n \in Nat : n = Len(q) /\ \A j \in 1 .. n : q[j] \in Nat
  <2>1. q \in Seq(Nat)
    BY DEF Lists
  <2>2. Len(q) \in Nat /\ \A j \in 1 .. Len(q) : q[j] \in Nat
    BY <2>1
  <2> QED  BY <2>2
<1>3. \A j \in 1 .. n : q[j] \in Hits(t, s)
  BY <1>2 DEF Lists
<1>4. \A h \in Hits(t, s) : h \in Nat /\ h + m <= l
  BY <1>1 DEF Hits
<1>5. \A h \in Hits(t, s) : \E j \in 1 .. n : q[j] = h
  <2>1. \A h \in Hits(t, s) : h < l
    BY <1>typed, <1>1, <1>4
  <2> QED  BY <1>1, <1>2, <2>1 DEF Lists
<1>6. \A i, j \in 1 .. n : i < j => q[i] < q[j]
  BY <1>2 DEF Lists
<1>7. \A g, h \in Hits(t, s) : g < h => g + m <= h
  <2>1. ASSUME NEW g \in Hits(t, s), NEW h \in Hits(t, s), g < h PROVE g + m <= h
    BY <1>typed, <1>1, <2>1, HitsApart
  <2> QED  BY <2>1
<1>8. PICK e \in Nat : e = Behind(q, s, k) /\ e <= l /\ (k = 0 => e = 0) /\ (k # 0 => e = q[k] + m)
  <2>1. CASE k = 0
    BY <2>1 DEF Behind
  <2>2. CASE k # 0
    <3>1. k \in 1 .. n
      BY <1>2, <2>2
    <3> QED  BY <1>1, <1>2, <1>3, <1>4, <2>2, <3>1 DEF Behind
  <2> QED  BY <2>1, <2>2
<1>9. PICK f \in Nat : f = Ahead(q, t, k) /\ f <= l /\ (k = n => f = l) /\ (k # n => f = q[k + 1])
  <2>1. CASE k = n
    BY <1>1, <1>2, <2>1 DEF Ahead
  <2>2. CASE k # n
    <3>1. k + 1 \in 1 .. n
      BY <1>2, <2>2
    <3>2. q[k + 1] \in Nat /\ q[k + 1] <= l
      BY <1>1, <1>2, <1>3, <1>4, <3>1
    <3> QED  BY <1>1, <1>2, <2>2, <3>1, <3>2 DEF Ahead
  <2> QED  BY <2>1, <2>2
<1>10. e <= f
  <2>1. CASE k = 0
    BY <1>8, <2>1
  <2>2. CASE k = n
    BY <1>8, <1>9, <2>2
  <2>3. CASE k # 0 /\ k # n
    <3>1. k \in 1 .. n /\ k + 1 \in 1 .. n /\ k < k + 1
      BY <1>2, <2>3
    <3>2. q[k] < q[k + 1] /\ q[k] \in Hits(t, s) /\ q[k + 1] \in Hits(t, s)
      BY <1>3, <1>6, <3>1
    <3>3. q[k] + m <= q[k + 1]
      BY <1>7, <3>2
    <3> QED  BY <1>8, <1>9, <2>3, <3>3
  <2> QED  BY <2>1, <2>2, <2>3
<1>11. ASSUME NEW i \in e + 1 .. f, NEW h \in Hits(t, s), h < i, i <= h + m PROVE FALSE
  <2>1. PICK j \in 1 .. n : q[j] = h
    BY <1>5
  <2>2. h \in Nat /\ h + m <= l /\ i \in Nat /\ e < i /\ i <= f
    BY <1>4
  <2>3. CASE j <= k
    <3>1. k # 0 /\ k \in 1 .. n
      BY <1>2, <2>3
    <3>2. q[k] \in Nat /\ h <= q[k]
      BY <1>2, <1>6, <2>1, <2>3, <3>1
    <3> QED  BY <1>8, <1>11, <2>2, <3>1, <3>2
  <2>4. CASE k < j
    <3>1. k # n /\ k + 1 \in 1 .. n /\ (k + 1 = j \/ k + 1 < j)
      BY <1>2, <2>4
    <3>2. q[k + 1] \in Nat /\ q[k + 1] <= h
      BY <1>2, <1>6, <2>1, <3>1
    <3> QED  BY <1>9, <1>11, <2>2, <3>1, <3>2
  <2> QED  BY <1>2, <2>3, <2>4
<1>12. \A i \in e + 1 .. f : Spared(t, s, i)
  BY <1>1, <1>11 DEF Spared
<1>13. e \in 0 .. Len(t) /\ f \in e .. Len(t)
  BY <1>1, <1>8, <1>9, <1>10
<1> QED  BY <1>8, <1>9, <1>12, <1>13 DEF Between

\* At the start nothing is replaced, at the end everything.
LEMMA HalfEnds ==
  ASSUME NEW t, NEW s, NEW by, NEW J, Replacing(t, s, by, J)
  PROVE  /\ Half(t, J, 0) = [text |-> t, offset |-> 0]
         /\ Half(t, J, Len(t)).text = J[Len(t)]
<1>1. t \in Seq(Alphabet)
  BY DEF Replacing
<1>2. PICK l \in Nat : l = Len(t)
  BY <1>1
<1>3. J \in [0 .. l -> Seq(Alphabet)] /\ J[0] = <<>>
  BY <1>2, ReplacingTyped DEF Replacing, Reading!Joins
<1>4. Half(t, J, 0) = [text |-> t, offset |-> 0]
  <2>1. PICK p : p = SubSeq(t, 0 + 1, l)
    OBVIOUS
  <2>2. p \in Seq(Alphabet) /\ Len(p) = l - 0 /\ \A i \in 1 .. l - 0 : p[i] = t[0 + i]
    <3>1. 0 \in 0 .. Len(t)
      BY <1>2
    <3> QED  BY <1>1, <1>2, <2>1, <3>1, TailPiece
  <2>3. Len(p) = l /\ \A i \in 1 .. l : p[i] = t[i]
    BY <2>2
  <2>4. p = t
    BY <1>1, <1>2, <2>2, <2>3, SeqEqual
  <2>5. <<>> \o p = p
    BY <2>2, ConcatEmptySeq
  <2>6. Len(<<>>) - 0 = 0
    OBVIOUS
  <2> QED  BY <1>2, <1>3, <2>1, <2>4, <2>5, <2>6 DEF Half
<1>5. Half(t, J, l).text = J[l]
  <2>1. PICK p : p = SubSeq(t, l + 1, l)
    OBVIOUS
  <2>2. p \in Seq(Alphabet) /\ Len(p) = 0
    <3>1. l \in 0 .. Len(t) /\ l - l = 0
      BY <1>2
    <3> QED  BY <1>1, <1>2, <2>1, <3>1, TailPiece
  <2>3. PICK a \in Seq(Alphabet) : a = J[l]
    BY <1>2, <1>3
  <2>4. a \o p = a
    <3>1. p = <<>>
      BY <2>2
    <3> QED  BY <3>1, ConcatEmptySeq
  <2> QED  BY <1>2, <2>1, <2>3, <2>4 DEF Half
<1> QED  BY <1>2, <1>4, <1>5

\* str_replace leaves of each character what Replaced says.
LEMMA ReplaceIs ==
  ASSUME NEW t \in Seq(Alphabet), NEW s \in Seq(Alphabet), Len(s) # 0, ~SelfOverlaps(s),
         NEW by \in Seq(Alphabet)
  PROVE  str_replace(t, s, by) = FlattenSeq(Left(t, s, by))
<1>1. PICK l, m \in Nat : l = Len(t) /\ m = Len(s)
  OBVIOUS
<1>2. PICK R \in Seq(Seq(Alphabet)) : R = Left(t, s, by) /\ Len(R) = l
  BY <1>1, LeftIs DEF Leaves
<1>3. PICK J : Reading!Joins(J, Alphabet, R) /\ Reading!FlattenSeq(R) = J[l]
  BY <1>2, Reading!FlattenIs
<1>4. Replacing(t, s, by, J)
  BY <1>2, <1>3 DEF Replacing
<1>5. FlattenSeq(R) = J[l]
  BY <1>3 DEF FlattenSeq, Reading!FlattenSeq
<1>6. Half(t, J, 0) = [text |-> t, offset |-> 0] /\ Half(t, J, l).text = J[l]
  BY <1>1, <1>4, HalfEnds
<1>7. CASE m > l
  <2>1. str_replace(t, s, by) = t
    BY <1>1, <1>7 DEF str_replace
  <2>2. Hits(t, s) = {}
    BY <1>1, <1>7 DEF Hits
  <2>3. Between(t, s, 0, l)
    BY <1>1, <2>2 DEF Between, Spared
  <2>4. Half(t, J, 0) = Half(t, J, l)
    BY <1>4, <2>3, HalfStays
  <2>5. Half(t, J, 0).text = t
    BY <1>6
  <2> QED  BY <1>2, <1>5, <1>6, <2>1, <2>4, <2>5
<1>8. CASE m <= l
  <2>1. PICK q : q = findings(t, s)
    OBVIOUS
  <2>2. Lists(q, Len(t), t, s)
    BY <1>1, <1>8, <2>1, FindingsList
  <2>3. PICK n \in Nat : n = Len(q)
    BY <2>2 DEF Lists
  <2>4. ASSUME NEW k \in 0 .. n
        PROVE  Half(t, J, Behind(q, s, k)) = Half(t, J, Ahead(q, t, k))
    <3>1. Between(t, s, Behind(q, s, k), Ahead(q, t, k))
      BY <1>4, <2>2, <2>3, NoneBetween
    <3> QED  BY <1>4, <3>1, HalfStays
  <2> DEFINE Is(d) == d = [k \in 0 .. n |->
                             IF k = 0 THEN [text |-> t, offset |-> 0]
                             ELSE replace_step(s, by, d[k - 1], q[k])]
             D == CHOOSE d : Is(d)
             w == [k \in 0 .. n |-> Half(t, J, Behind(q, s, k))]
  <2>5. str_replace(t, s, by) = D[n].text
    BY <1>1, <1>8, <2>1, <2>3 DEF str_replace
  <2>6. w[0] = [text |-> t, offset |-> 0]
    <3>1. Behind(q, s, 0) = 0
      BY DEF Behind
    <3> QED  BY <1>6, <3>1
  <2>7. ASSUME NEW k \in 1 .. n PROVE w[k] = replace_step(s, by, w[k - 1], q[k])
    <3>1. k \in 0 .. n /\ k - 1 \in 0 .. n /\ k # 0 /\ (k - 1) + 1 = k /\ k - 1 # n
      OBVIOUS
    <3>2. Ahead(q, t, k - 1) = q[k] /\ Behind(q, s, k) = q[k] + Len(s)
      BY <2>3, <3>1 DEF Ahead, Behind
    <3>3. q[k] \in Hits(t, s)
      BY <2>2, <2>3 DEF Lists
    <3>4. replace_step(s, by, Half(t, J, q[k]), q[k]) = Half(t, J, q[k] + Len(s))
      BY <1>4, <3>3, ReplaceStepIs
    <3>5. w[k - 1] = Half(t, J, Behind(q, s, k - 1)) /\ w[k] = Half(t, J, Behind(q, s, k))
      BY <3>1
    <3>6. w[k - 1] = Half(t, J, q[k])
      BY <2>4, <3>1, <3>2, <3>5
    <3> HIDE DEF w
    <3> QED  BY <3>2, <3>4, <3>5, <3>6
  <2>8. w = [k \in 0 .. n |-> w[k]]
    OBVIOUS
  <2>9. w[n] = Half(t, J, l)
    <3>1. n \in 0 .. n /\ Ahead(q, t, n) = l
      BY <1>1, <2>3 DEF Ahead
    <3> QED  BY <2>4, <3>1
  <2> HIDE DEF w
  <2>10. Is(w)
    <3>1. ASSUME NEW k \in 0 .. n
          PROVE  w[k] = IF k = 0 THEN [text |-> t, offset |-> 0]
                        ELSE replace_step(s, by, w[k - 1], q[k])
      <4>1. k # 0 => k \in 1 .. n
        OBVIOUS
      <4> QED  BY <2>6, <2>7, <4>1
    <3> QED  BY <2>8, <3>1
  <2>11. Is(D)
    <3> HIDE DEF Is
    <3> QED  BY <2>10
  <2>12. \A k \in 0 .. n : D[k] = IF k = 0 THEN [text |-> t, offset |-> 0]
                                   ELSE replace_step(s, by, D[k - 1], q[k])
    <3>1. \A d : Is(d) => \A k \in 0 .. n : d[k] = IF k = 0 THEN [text |-> t, offset |-> 0]
                                                    ELSE replace_step(s, by, d[k - 1], q[k])
      OBVIOUS
    <3> HIDE DEF Is, D
    <3> QED  BY <2>11, <3>1
  <2> HIDE DEF Is, D
  <2> DEFINE T == {k \in 0 .. n : D[k] = w[k]}
  <2>13. 0 \in T
    <3>1. 0 \in 0 .. n
      OBVIOUS
    <3> QED  BY <2>6, <2>12, <3>1
  <2>14. ASSUME NEW k \in 0 .. n - 1, k \in T PROVE k + 1 \in T
    <3>1. k + 1 \in 1 .. n /\ k + 1 \in 0 .. n /\ k + 1 # 0 /\ (k + 1) - 1 = k
      OBVIOUS
    <3>2. D[k + 1] = replace_step(s, by, D[k], q[k + 1])
      BY <2>12, <3>1
    <3>3. w[k + 1] = replace_step(s, by, w[k], q[k + 1])
      BY <2>7, <3>1
    <3> QED  BY <2>14, <3>1, <3>2, <3>3
  <2> HIDE DEF T
  <2>15. \A k \in 0 .. n : k \in T
    BY <2>13, <2>14, Reading!UpTo
  <2>16. D[n] = w[n]
    <3>1. n \in T
      BY <2>15
    <3> QED  BY <3>1 DEF T
  <2> QED  BY <1>2, <1>5, <1>6, <2>5, <2>9, <2>16
<1> QED  BY <1>1, <1>7, <1>8

-----------------------------------------------------------------------------
\* The functions on texts do what they should on the texts of all objects, of any length:
\* str_replace replaces each hit once and at its place (as long as findingsStartPtr holds
\* them all), str_split cuts at the blanks, str_trim takes blanks off both ends, and
\* str_contains agrees with str_starts_with and str_ends_with.
THEOREM TextFunctionsAreRight == Spec => []TextFunctionsRight
<1>1. ASSUME IInv PROVE TextFunctionsRight
  <2>1. ASSUME NEW text \in Seq(Chars) PROVE text \in Seq(Alphabet)
    <3>1. PICK n \in Nat : n = Len(text) /\ \A i \in 1 .. n : text[i] \in Alphabet
      BY DEF Alphabet
    <3> QED  BY <3>1
  <2>2. ASSUME NEW x \in Objects PROVE value[x] \in Seq(Alphabet)
    <3>1. value[x] \in Seq(Chars)
      BY <1>1 DEF IInv, TypeOK, Objects
    <3> QED  BY <2>1, <3>1
  <2>3. ASSUME NEW text \in Literals PROVE text \in Seq(Alphabet)
    <3>1. text \in Seq(Chars)
      BY TextsAreChars
    <3> QED  BY <2>1, <3>1
  <2>4. ASSUME NEW t \in Seq(Alphabet), NEW s \in Seq(Alphabet)
        PROVE  /\ s # <<>> /\ ~SelfOverlaps(s) => \A by \in Literals \cup {t} :
                    str_replace(t, s, by) = FlattenSeq([i \in DOMAIN t |-> Replaced(t, s, by, i)])
               /\ Len(str_split(t, Space)) = str_count(t, <<Space>>) + 1
               /\ FlattenSeq([i \in DOMAIN str_split(t, Space) |-> <<Space>> \o str_split(t, Space)[i]])
                    = str_move_right(t, 1)
               /\ str_trim(t) = str_trim_end(str_trim_start(t))
               /\ \E i, j \in 0 .. Len(t) :
                    str_move_right(str_trim(t), i) \o str_repeat(<<Space>>, j) = t
               /\ str_contains(t, s) <=> \E n \in 0 .. Len(t) : str_starts_with(str_cut_start(t, n), s)
               /\ str_contains(t, s) <=> \E n \in 0 .. Len(t) : str_ends_with(str_cut_end(t, n), s)
    <3>1. ASSUME s # <<>>, ~SelfOverlaps(s), NEW by \in Literals \cup {t}
          PROVE  str_replace(t, s, by) = FlattenSeq([i \in DOMAIN t |-> Replaced(t, s, by, i)])
      <4>1. Len(s) # 0
        BY <3>1
      <4>2. by \in Seq(Alphabet)
        BY <2>3
      <4>3. str_replace(t, s, by) = FlattenSeq(Left(t, s, by))
        BY <3>1, <4>1, <4>2, ReplaceIs
      <4> QED  BY <4>3 DEF Left
    <3>2. /\ Len(str_split(t, Space)) = str_count(t, <<Space>>) + 1
          /\ FlattenSeq([i \in DOMAIN str_split(t, Space) |-> <<Space>> \o str_split(t, Space)[i]])
               = str_move_right(t, 1)
      BY SplitIs
    <3>3. str_trim(t) = str_trim_end(str_trim_start(t))
      BY TrimIsBoth
    <3>4. \E i, j \in 0 .. Len(t) : str_move_right(str_trim(t), i) \o str_repeat(<<Space>>, j) = t
      BY TrimTakesBlanks
    <3>5. str_contains(t, s) <=> \E n \in 0 .. Len(t) : str_starts_with(str_cut_start(t, n), s)
      BY ContainsByStart
    <3>6. str_contains(t, s) <=> \E n \in 0 .. Len(t) : str_ends_with(str_cut_end(t, n), s)
      BY ContainsByEnd
    <3> QED  BY <3>1, <3>2, <3>3, <3>4, <3>5, <3>6, Zenon
  <2> QED  BY <2>2, <2>4 DEF TextFunctionsRight
<1> QED  BY StringsInvariant, <1>1, PTL
=============================================================================
