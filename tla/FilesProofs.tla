---------------------------- MODULE FilesProofs -----------------------------
(***************************************************************************)
(* Proofs about Files for every set of machines, of consistent volumes and *)
(* of paths, and every size of a cluster: what ls and read show, and when  *)
(* the kernel is lost.  First what the folds of Fat32 compute: a directory *)
(* scan, a path, a chain.                                                  *)
(***************************************************************************)
EXTENDS Files, SequenceTheorems, FiniteSetTheorems, TLAPS

-----------------------------------------------------------------------------
(* Sequences                                                                  *)

LEMMA MinIs ==
  ASSUME NEW S, NEW m \in S, m \in Int, \A x \in S : x \in Int /\ m <= x
  PROVE  Min(S) = m
<1>1. \E x \in S : \A y \in S : x <= y
  OBVIOUS
<1>2. PICK g : g = CHOOSE x \in S : \A y \in S : x <= y
  OBVIOUS
<1>3. g \in S /\ \A y \in S : g <= y
  BY <1>1, <1>2
<1>4. g = m
  BY <1>3
<1> QED  BY <1>2, <1>4 DEF Min

LEMMA TextIs ==
  ASSUME NEW s
  PROVE  /\ \A X : s \in Seq(X) => IsText(s)
         /\ IsText(s) => /\ Len(s) \in Nat /\ DOMAIN s = 1 .. Len(s)
                         /\ \A X : (\A i \in 1 .. Len(s) : s[i] \in X) => s \in Seq(X)
<1>1. ASSUME NEW X, s \in Seq(X) PROVE IsText(s)
  <2>1. PICK n \in Nat : s \in [1 .. n -> X]
    BY <1>1
  <2>2. \A i \in 1 .. n : s[i] \in Range(s)
    BY <2>1 DEF Range
  <2>3. s \in [1 .. n -> Range(s)]
    BY <2>1, <2>2
  <2>4. PICK R : R = Range(s)
    OBVIOUS
  <2>5. s \in Seq(R)
    BY <2>3, <2>4
  <2> QED  BY <2>4, <2>5 DEF IsText
<1>2. ASSUME IsText(s)
      PROVE  /\ Len(s) \in Nat /\ DOMAIN s = 1 .. Len(s)
             /\ \A X : (\A i \in 1 .. Len(s) : s[i] \in X) => s \in Seq(X)
  <2>1. PICK R : R = Range(s)
    OBVIOUS
  <2>2. s \in Seq(R)
    BY <1>2, <2>1 DEF IsText
  <2>3. Len(s) \in Nat /\ DOMAIN s = 1 .. Len(s)
    BY <2>2
  <2>4. ASSUME NEW X, \A i \in 1 .. Len(s) : s[i] \in X PROVE s \in Seq(X)
    BY <2>2, <2>3, <2>4
  <2> QED  BY <2>3, <2>4
<1> QED  BY <1>1, <1>2

LEMMA TextAppends ==
  ASSUME NEW s, IsText(s), NEW x
  PROVE  /\ IsText(Append(s, x)) /\ Len(Append(s, x)) = Len(s) + 1
         /\ \A i \in 1 .. Len(s) : Append(s, x)[i] = s[i]
         /\ Append(s, x)[Len(s) + 1] = x
<1>1. PICK X : X = Range(s) \cup {x}
  OBVIOUS
<1>2. s \in Seq(X) /\ x \in X
  <2>1. DOMAIN s = 1 .. Len(s)
    BY TextIs
  <2>2. \A i \in 1 .. Len(s) : s[i] \in X
    BY <1>1, <2>1 DEF Range
  <2>3. s \in Seq(X)
    BY <2>2, TextIs
  <2> QED  BY <1>1, <2>3
<1>3. Append(s, x) \in Seq(X)
  BY <1>2
<1>4. IsText(Append(s, x))
  BY <1>3, TextIs
<1> QED  BY <1>2, <1>4

\* A part from the beginning.
LEMMA Beginnings ==
  ASSUME NEW s, IsText(s), NEW n \in 0 .. Len(s)
  PROVE  /\ IsText(SubSeq(s, 1, n)) /\ Len(SubSeq(s, 1, n)) = n
         /\ \A i \in 1 .. n : SubSeq(s, 1, n)[i] = s[i]
         /\ n = Len(s) => SubSeq(s, 1, n) = s
         /\ n < Len(s) => SubSeq(s, 1, n + 1) = Append(SubSeq(s, 1, n), s[n + 1])
<1>1. PICK X : X = Range(s)
  OBVIOUS
<1>2. s \in Seq(X) /\ n \in Nat /\ n <= Len(s)
  BY <1>1, TextIs DEF IsText
<1>3. /\ SubSeq(s, 1, n) \in Seq(X) /\ Len(SubSeq(s, 1, n)) = n
      /\ \A i \in 1 .. n : SubSeq(s, 1, n)[i] = s[i]
  BY <1>2
<1>4. n = Len(s) => SubSeq(s, 1, n) = s
  BY <1>2, <1>3
<1>5. ASSUME n < Len(s) PROVE SubSeq(s, 1, n + 1) = Append(SubSeq(s, 1, n), s[n + 1])
  BY <1>2, <1>3, <1>5
<1> QED  BY <1>3, <1>4, <1>5, TextIs

\* A part at the end.
LEMMA Ends ==
  ASSUME NEW s, IsText(s), s # <<>>
  PROVE  /\ IsText(Tail(s)) /\ Len(Tail(s)) = Len(s) - 1 /\ Len(s) \in Nat \ {0}
         /\ \A i \in 1 .. Len(s) - 1 : Tail(s)[i] = s[i + 1]
         /\ Head(s) = s[1]
<1>1. PICK X : X = Range(s)
  OBVIOUS
<1>2. s \in Seq(X)
  BY <1>1 DEF IsText
<1>3. Tail(s) \in Seq(X) /\ Len(Tail(s)) = Len(s) - 1 /\ Head(s) = s[1] /\ Len(s) \in Nat \ {0}
  BY <1>2
<1>4. \A i \in 1 .. Len(s) - 1 : Tail(s)[i] = s[i + 1]
  BY <1>2
<1> QED  BY <1>3, <1>4, TextIs

\* One behind the other.
Joined(both, s, t) ==
  /\ IsText(both) /\ Len(both) = Len(s) + Len(t)
  /\ \A i \in 1 .. Len(s) : both[i] = s[i]
  /\ \A i \in 1 .. Len(t) : both[Len(s) + i] = t[i]

LEMMA TextsJoin ==
  ASSUME NEW s, NEW t, IsText(s), IsText(t), NEW both, both = s \o t
  PROVE  Joined(both, s, t)
<1>1. PICK X : X = Range(s) \cup Range(t)
  OBVIOUS
<1>2. s \in Seq(X) /\ t \in Seq(X)
  <2>1. DOMAIN s = 1 .. Len(s) /\ DOMAIN t = 1 .. Len(t)
    BY TextIs
  <2>2. (\A i \in 1 .. Len(s) : s[i] \in X) /\ \A i \in 1 .. Len(t) : t[i] \in X
    BY <1>1, <2>1 DEF Range
  <2> QED  BY <2>2, TextIs
<1>3. /\ both \in Seq(X) /\ Len(both) = Len(s) + Len(t)
      /\ \A i \in 1 .. Len(s) : both[i] = s[i]
      /\ \A i \in 1 .. Len(t) : both[Len(s) + i] = t[i]
  BY <1>2
<1> QED  BY <1>3, TextIs DEF Joined

\* What makes two sequences one.
LEMMA TextsEqual ==
  ASSUME NEW s, NEW t, IsText(s), IsText(t), Len(s) = Len(t), \A i \in 1 .. Len(s) : s[i] = t[i]
  PROVE  s = t
<1>1. PICK R, Q : R = Range(s) /\ Q = Range(t)
  OBVIOUS
<1>2. s \in Seq(R) /\ t \in Seq(Q)
  BY <1>1 DEF IsText
<1> QED  BY <1>2

LEMMA JoinsAssociate ==
  ASSUME NEW s, NEW t, NEW u, IsText(s), IsText(t), IsText(u), NEW p, Joined(p, s, t), NEW q, Joined(q, t, u),
         NEW l, Joined(l, p, u), NEW r, Joined(r, s, q)
  PROVE  l = r
<1>1. PICK a, b, c : a = Len(s) /\ b = Len(t) /\ c = Len(u) /\ a \in Nat /\ b \in Nat /\ c \in Nat
  BY TextIs
<1>2. IsText(l) /\ IsText(r) /\ Len(l) = a + b + c /\ Len(r) = a + b + c
  BY <1>1 DEF Joined
<1>3. ASSUME NEW i \in 1 .. a + b + c PROVE l[i] = r[i]
  <2>1. CASE i \in 1 .. a
    BY <1>1, <2>1 DEF Joined
  <2>2. CASE i \in a + 1 .. a + b
    <3>1. PICK j \in 1 .. b : i = a + j
      <4>1. i - a \in 1 .. b /\ i = a + (i - a)
        BY <1>1, <2>2
      <4> QED  BY <4>1
    <3>2. i \in 1 .. a + b /\ j \in 1 .. b + c
      BY <1>1, <2>2
    <3> QED  BY <1>1, <3>1, <3>2 DEF Joined
  <2>3. CASE i \in a + b + 1 .. a + b + c
    <3>1. PICK j \in 1 .. c : i = (a + b) + j /\ i = a + (b + j)
      <4>1. i - (a + b) \in 1 .. c /\ i = (a + b) + (i - (a + b)) /\ i = a + (b + (i - (a + b)))
        BY <1>1, <2>3
      <4> QED  BY <4>1
    <3>2. b + j \in 1 .. b + c
      BY <1>1
    <3> QED  BY <1>1, <3>1, <3>2 DEF Joined
  <2> QED  BY <1>1, <2>1, <2>2, <2>3
<1> QED  BY <1>2, <1>3, TextsEqual

LEMMA EmptyText ==
  /\ IsText(<<>>) /\ Len(<<>>) = 0
  /\ \A s : IsText(s) /\ Len(s) = 0 => s = <<>>
<1>1. <<>> \in Seq({}) /\ Len(<<>>) = 0
  OBVIOUS
<1>2. ASSUME NEW s, IsText(s), Len(s) = 0 PROVE s = <<>>
  <2>1. PICK R : R = Range(s)
    OBVIOUS
  <2>2. s \in Seq(R)
    BY <1>2, <2>1 DEF IsText
  <2> QED  BY <1>2, <2>2
<1> QED  BY <1>1, <1>2, TextIs

LEMMA FunctionIsText ==
  ASSUME NEW n \in Nat, NEW s, DOMAIN s = 1 .. n, s = [i \in 1 .. n |-> s[i]]
  PROVE  IsText(s) /\ Len(s) = n
<1>1. PICK X : X = Range(s)
  OBVIOUS
<1>2. \A i \in 1 .. n : s[i] \in X
  BY <1>1 DEF Range
<1>3. s \in Seq(X) /\ Len(s) = n
  BY <1>2
<1> QED  BY <1>3, TextIs

-----------------------------------------------------------------------------
(* Paths and names                                                            *)

\* A round of str_split's loop.
SplitStep(parts, c) ==
  IF c = Slash THEN Append(parts, <<>>) ELSE [parts EXCEPT ![Len(parts)] = Append(@, c)]

Splitting == INSTANCE SequenceFolds WITH step <- SplitStep

\* There is one section at least.
LEMMA SplitIs ==
  ASSUME NEW path, IsText(path)
  PROVE  IsText(str_split(path)) /\ str_split(path) # <<>>
<1>1. PICK X : X = Range(path) /\ path \in Seq(X)
  BY DEF IsText
<1>2. PICK Y : Y = Seq(X)
  OBVIOUS
<1> DEFINE D == {p \in Seq(Y) : p # <<>>}
<1>3. << <<>> >> \in D
  <2>1. <<>> \in Y
    BY <1>2
  <2> QED  BY <2>1
<1>4. ASSUME NEW d \in D, NEW c \in X PROVE SplitStep(d, c) \in D
  <2>1. <<>> \in Y /\ Len(d) \in 1 .. Len(d) /\ d[Len(d)] \in Y
    BY <1>2
  <2>2. Append(d[Len(d)], c) \in Y
    BY <1>2, <2>1
  <2>3. Append(d, <<>>) \in D
    BY <2>1
  <2>4. [d EXCEPT ![Len(d)] = Append(@, c)] \in D
    BY <2>1, <2>2
  <2> QED  BY <2>3, <2>4 DEF SplitStep
<1>5. Splitting!FoldLeft(SplitStep, << <<>> >>, path) \in D
  <2> HIDE DEF D
  <2> QED  BY <1>1, <1>3, <1>4, Splitting!FoldKeeps
<1>6. str_split(path) = Splitting!FoldLeft(SplitStep, << <<>> >>, path)
  BY DEF str_split, SplitStep, FoldLeft, Splitting!FoldLeft, MapThenFoldSet, Splitting!MapThenFoldSet,
         Max, Splitting!Max
<1> QED  BY <1>5, <1>6, TextIs

LEMMA TrimIs ==
  ASSUME NEW text, IsText(text)
  PROVE  IsText(str_trim(text))
<1> DEFINE ink == {i \in DOMAIN text : text[i] # Space}
<1>1. PICK X : X = Range(text)
  OBVIOUS
<1>2. text \in Seq(X)
  BY <1>1 DEF IsText
<1>3. CASE ink = {}
  <2>1. str_trim(text) = <<>>
    BY <1>3 DEF str_trim
  <2>2. <<>> \in Seq(X)
    OBVIOUS
  <2> QED  BY <2>1, <2>2, TextIs
<1>4. CASE ink # {}
  <2>1. str_trim(text) = SubSeq(text, Min(ink), Max(ink))
    BY <1>4 DEF str_trim
  <2>2. Len(text) \in Nat /\ ink \in SUBSET (1 .. Len(text))
    BY <1>2
  <2>3. PICK lo, hi : lo = Min(ink) /\ hi = Max(ink)
    OBVIOUS
  <2>4. lo \in 1 .. Len(text)
    <3>1. Splitting!Min(ink) \in ink
      <4> HIDE DEF ink
      <4> QED  BY <1>4, <2>2, Splitting!SomeMin
    <3>2. lo = Splitting!Min(ink)
      BY <2>3 DEF Min, Splitting!Min
    <3> QED  BY <2>2, <3>1, <3>2
  <2>5. hi \in 1 .. Len(text)
    <3>1. Splitting!Max(ink) \in ink
      <4> HIDE DEF ink
      <4> QED  BY <1>4, <2>2, Splitting!SomeMax
    <3>2. hi = Splitting!Max(ink)
      BY <2>3 DEF Max, Splitting!Max
    <3> QED  BY <2>2, <3>1, <3>2
  <2>6. SubSeq(text, lo, hi) \in Seq(X)
    BY <1>2, <2>4, <2>5
  <2> QED  BY <2>1, <2>3, <2>6, TextIs
<1> QED  BY <1>3, <1>4

LEMMA LowerIs ==
  ASSUME NEW text, IsText(text)
  PROVE  /\ IsText(str_to_lower(text)) /\ Len(str_to_lower(text)) = Len(text)
         /\ \A i \in 1 .. Len(text) : str_to_lower(text)[i] = to_lower(text[i])
<1>1. Len(text) \in Nat /\ DOMAIN text = 1 .. Len(text)
  BY TextIs
<1>2. str_to_lower(text) = [i \in 1 .. Len(text) |-> to_lower(text[i])]
  BY <1>1 DEF str_to_lower
<1>3. PICK s : s = str_to_lower(text)
  OBVIOUS
<1>4. DOMAIN s = 1 .. Len(text) /\ s = [i \in 1 .. Len(text) |-> s[i]]
  BY <1>2, <1>3
<1>5. IsText(s) /\ Len(s) = Len(text)
  BY <1>1, <1>4, FunctionIsText
<1> QED  BY <1>2, <1>3, <1>5

\* The name of a short entry is the name of the item.
LEMMA ShortNames ==
  ASSUME NEW item, IsItem(item), item.long = <<>>, ~item.deleted
  PROVE  ShortName(ShortEntry(item)) = ItemName(item)
<1>1. PICK base, ext : base = str_trim(item.base) /\ ext = str_trim(item.ext)
  OBVIOUS
<1>2. IsText(base) /\ IsText(ext)
  BY <1>1, TrimIs DEF IsItem
<1>3. ShortEntry(item).base = item.base /\ ShortEntry(item).ext = item.ext
  BY DEF ShortEntry
<1>4. ShortName(ShortEntry(item))
        = IF ext = <<>> THEN str_to_lower(base) ELSE str_to_lower(base \o <<Dot>> \o ext)
  BY <1>1, <1>3 DEF ShortName
<1>5. ItemName(item) = IF str_to_lower(ext) = <<>> THEN str_to_lower(base)
                       ELSE str_to_lower(base) \o <<Dot>> \o str_to_lower(ext)
  BY <1>1 DEF ItemName
<1>6. str_to_lower(ext) = <<>> <=> ext = <<>>
  <2>1. IsText(<<>>) /\ Len(<<>>) = 0
    BY EmptyText
  <2>2. Len(str_to_lower(ext)) = Len(ext) /\ IsText(str_to_lower(ext)) /\ Len(ext) \in Nat
    BY <1>2, LowerIs, TextIs
  <2>3. Len(ext) = 0 => ext = <<>>
    BY <1>2, <2>1, TextsEqual
  <2>4. Len(str_to_lower(ext)) = 0 => str_to_lower(ext) = <<>>
    BY <2>1, <2>2, TextsEqual
  <2> QED  BY <2>1, <2>2, <2>3, <2>4
<1>7. str_to_lower(base \o <<Dot>> \o ext) = str_to_lower(base) \o <<Dot>> \o str_to_lower(ext)
  <2>1. PICK dot, n, m : dot = <<Dot>> /\ n = Len(base) /\ m = Len(ext)
    OBVIOUS
  <2>2. IsText(dot) /\ Len(dot) = 1 /\ dot[1] = Dot /\ n \in Nat /\ m \in Nat
    <3>1. dot \in Seq({Dot}) /\ Len(dot) = 1 /\ dot[1] = Dot
      BY <2>1
    <3> QED  BY <1>2, <2>1, <3>1, TextIs
  <2>3. PICK p, q : p = base \o dot /\ q = p \o ext
    OBVIOUS
  <2>4. /\ IsText(p) /\ Len(p) = n + 1 /\ \A i \in 1 .. n : p[i] = base[i]
        /\ \A i \in 1 .. 1 : p[n + i] = Dot
    <3>1. Joined(p, base, dot)
      BY <1>2, <2>2, <2>3, TextsJoin
    <3> QED  BY <2>1, <2>2, <3>1 DEF Joined
  <2>5. /\ IsText(q) /\ Len(q) = n + 1 + m /\ \A i \in 1 .. n + 1 : q[i] = p[i]
        /\ \A i \in 1 .. m : q[n + 1 + i] = ext[i]
    <3>1. Joined(q, p, ext)
      BY <1>2, <2>3, <2>4, TextsJoin
    <3> QED  BY <2>1, <2>2, <2>4, <3>1 DEF Joined
  <2>6. PICK lb, le, lq : lb = str_to_lower(base) /\ le = str_to_lower(ext) /\ lq = str_to_lower(q)
    OBVIOUS
  <2>7. /\ IsText(lb) /\ Len(lb) = n /\ \A i \in 1 .. n : lb[i] = to_lower(base[i])
        /\ IsText(le) /\ Len(le) = m /\ \A i \in 1 .. m : le[i] = to_lower(ext[i])
        /\ IsText(lq) /\ Len(lq) = n + 1 + m /\ \A i \in 1 .. n + 1 + m : lq[i] = to_lower(q[i])
    BY <1>2, <2>1, <2>5, <2>6, LowerIs
  <2>8. PICK u, w : u = lb \o dot /\ w = u \o le
    OBVIOUS
  <2>9. /\ IsText(u) /\ Len(u) = n + 1 /\ \A i \in 1 .. n : u[i] = lb[i]
        /\ \A i \in 1 .. 1 : u[n + i] = Dot
    <3>1. Joined(u, lb, dot)
      BY <2>2, <2>7, <2>8, TextsJoin
    <3> QED  BY <2>1, <2>2, <2>7, <3>1 DEF Joined
  <2>10. /\ IsText(w) /\ Len(w) = n + 1 + m /\ \A i \in 1 .. n + 1 : w[i] = u[i]
         /\ \A i \in 1 .. m : w[n + 1 + i] = le[i]
    <3>1. Joined(w, u, le)
      BY <2>7, <2>8, <2>9, TextsJoin
    <3> QED  BY <2>1, <2>2, <2>7, <2>9, <3>1 DEF Joined
  <2>11. to_lower(Dot) = Dot
    BY Fat32Assumption DEF to_lower, Dot
  <2>12. ASSUME NEW i \in 1 .. n + 1 + m PROVE lq[i] = w[i]
    <3>1. CASE i \in 1 .. n
      BY <2>2, <2>4, <2>5, <2>7, <2>9, <2>10, <3>1
    <3>2. CASE i = n + 1
      <4>1. p[n + 1] = Dot /\ u[n + 1] = Dot
        BY <2>4, <2>9
      <4>2. n + 1 \in 1 .. n + 1 /\ n + 1 \in 1 .. n + 1 + m
        BY <2>2
      <4> QED  BY <2>5, <2>7, <2>10, <2>11, <3>2, <4>1, <4>2
    <3>3. CASE i \in n + 2 .. n + 1 + m
      <4>1. PICK j \in 1 .. m : i = n + 1 + j
        <5>1. i - (n + 1) \in 1 .. m /\ i = n + 1 + (i - (n + 1))
          BY <2>2, <3>3
        <5> QED  BY <5>1
      <4> QED  BY <2>5, <2>7, <2>10, <4>1
    <3> QED  BY <2>2, <3>1, <3>2, <3>3
  <2>13. lq = w
    BY <2>7, <2>10, <2>12, TextsEqual
  <2> QED  BY <2>1, <2>3, <2>6, <2>8, <2>13
<1>8. CASE ext = <<>>
  BY <1>4, <1>5, <1>6, <1>8
<1>9. CASE ext # <<>>
  BY <1>4, <1>5, <1>6, <1>7, <1>9
<1> QED  BY <1>8, <1>9

\* A piece of a long name is read from its entry as it was.
LEMMA PieceIsRead ==
  ASSUME NEW piece, IsText(piece), Len(piece) <= LFN_CHARS, Pad \notin Range(piece)
  PROVE  utf16_text_to_ascii(PieceEntry(piece).text) = piece /\ PieceEntry(piece).kind = "lfn"
<1>1. PICK n, m, pads : n = Len(piece) /\ m = LFN_CHARS - n /\ pads = [i \in 1 .. m |-> Pad]
  OBVIOUS
<1>2. n \in Nat /\ m \in Nat
  BY <1>1, TextIs, Fat32Assumption
<1>3. IsText(pads) /\ Len(pads) = m
  <2>1. DOMAIN pads = 1 .. m /\ pads = [i \in 1 .. m |-> pads[i]]
    BY <1>1
  <2> QED  BY <1>2, <2>1, FunctionIsText
<1>4. PICK text : text = piece \o pads
  OBVIOUS
<1>5. Joined(text, piece, pads)
  BY <1>3, <1>4, TextsJoin
<1>6. PieceEntry(piece).text = text /\ PieceEntry(piece).kind = "lfn"
  BY <1>1, <1>4 DEF PieceEntry
<1>7. IsText(text) /\ Len(text) = n + m /\ DOMAIN text = 1 .. n + m /\ DOMAIN piece = 1 .. n
  BY <1>1, <1>3, <1>5, TextIs DEF Joined
<1>8. \A i \in 1 .. n : text[i] = piece[i] /\ text[i] # Pad
  BY <1>1, <1>5, <1>7 DEF Joined, Range
<1>9. \A i \in 1 .. m : text[n + i] = Pad
  BY <1>1, <1>3, <1>5 DEF Joined
<1> DEFINE ends == {i \in DOMAIN text : text[i] = Pad}
<1>10. utf16_text_to_ascii(text) = IF ends = {} THEN text ELSE SubSeq(text, 1, Min(ends) - 1)
  BY DEF utf16_text_to_ascii
<1>11. CASE m = 0
  <2>1. ends = {}
    BY <1>2, <1>7, <1>8, <1>11
  <2>2. text = piece
    BY <1>1, <1>2, <1>7, <1>8, <1>11, TextsEqual
  <2> QED  BY <1>6, <1>10, <2>1, <2>2
<1>12. CASE m # 0
  <2>1. n + 1 \in ends
    <3>1. 1 \in 1 .. m /\ n + 1 \in 1 .. n + m
      BY <1>2, <1>12
    <3> QED  BY <1>7, <1>9, <3>1
  <2>2. \A x \in ends : x \in Int /\ n + 1 <= x
    BY <1>2, <1>7, <1>8
  <2>3. Min(ends) = n + 1
    <3> HIDE DEF ends
    <3> QED  BY <1>2, <2>1, <2>2, MinIs
  <2>4. (n + 1) - 1 = n /\ n \in 0 .. Len(text)
    BY <1>2, <1>7
  <2>5. IsText(SubSeq(text, 1, n)) /\ Len(SubSeq(text, 1, n)) = n
        /\ \A i \in 1 .. n : SubSeq(text, 1, n)[i] = text[i]
    BY <1>7, <2>4, Beginnings
  <2>6. SubSeq(text, 1, n) = piece
    BY <1>1, <1>8, <2>5, TextsEqual
  <2> QED  BY <1>6, <1>10, <2>1, <2>3, <2>4, <2>6
<1> QED  BY <1>11, <1>12

-----------------------------------------------------------------------------
(* The entries of a directory                                                 *)

Scanning == INSTANCE SequenceFolds WITH step <- ScanEntry

Showing == INSTANCE SequenceFolds WITH step <- Show

DotEntry == [kind |-> "dot"]

EntriesOf(items) ==
  {DotEntry} \cup {ShortEntry(item) : item \in ToSet(items)}
    \cup UNION {{PieceEntry(piece) : piece \in ToSet(item.long)} : item \in ToSet(items)}

AreItems(items) == IsText(items) /\ \A item \in ToSet(items) : IsItem(item)

LEMMA ItemEntriesAre ==
  ASSUME NEW item, IsItem(item), NEW n, n = Len(item.long)
  PROVE  /\ n \in Nat /\ IsText(ItemEntries(item)) /\ Len(ItemEntries(item)) = n + 1
         /\ \A i \in 1 .. n : ItemEntries(item)[i] = PieceEntry(item.long[n - i + 1])
         /\ ItemEntries(item)[n + 1] = ShortEntry(item)
<1>1. n \in Nat /\ IsText(item.long)
  BY TextIs DEF IsItem
<1>2. PICK p, s : p = [i \in 1 .. n |-> PieceEntry(item.long[n - i + 1])] /\ s = <<ShortEntry(item)>>
  OBVIOUS
<1>3. \A i \in 1 .. n : Reverse(item.long)[i] = item.long[n - i + 1]
  BY <1>1 DEF Reverse
<1>4. ItemEntries(item) = p \o s
  <2>1. [i \in 1 .. Len(item.long) |-> PieceEntry(Reverse(item.long)[i])] = p
    BY <1>2, <1>3
  <2> QED  BY <1>2, <2>1 DEF ItemEntries
<1>5. IsText(p) /\ Len(p) = n /\ \A i \in 1 .. n : p[i] = PieceEntry(item.long[n - i + 1])
  <2>1. DOMAIN p = 1 .. n /\ p = [i \in 1 .. n |-> p[i]]
    BY <1>2
  <2>2. IsText(p) /\ Len(p) = n
    BY <1>1, <2>1, FunctionIsText
  <2> QED  BY <1>2, <2>2
<1>6. IsText(s) /\ Len(s) = 1 /\ s[1] = ShortEntry(item)
  <2>1. PICK e : e = ShortEntry(item)
    OBVIOUS
  <2>2. s \in Seq({e}) /\ Len(s) = 1 /\ s[1] = e
    BY <1>2, <2>1
  <2> QED  BY <2>1, <2>2, TextIs
<1>7. PICK both : both = p \o s
  OBVIOUS
<1>8. Joined(both, p, s)
  BY <1>5, <1>6, <1>7, TextsJoin
<1>9. /\ IsText(both) /\ Len(both) = n + 1 /\ \A i \in 1 .. n : both[i] = p[i]
      /\ \A i \in 1 .. 1 : both[n + i] = s[i]
  BY <1>5, <1>6, <1>8 DEF Joined
<1>10. both[n + 1] = ShortEntry(item)
  BY <1>6, <1>9
<1> QED  BY <1>1, <1>4, <1>5, <1>7, <1>9, <1>10

LEMMA ItemEntriesTyped ==
  ASSUME NEW items, AreItems(items), NEW k \in 1 .. Len(items)
  PROVE  IsItem(items[k]) /\ ItemEntries(items[k]) \in Seq(EntriesOf(items))
<1>1. PICK item : item = items[k]
  OBVIOUS
<1>2. item \in ToSet(items)
  <2>1. DOMAIN items = 1 .. Len(items)
    BY TextIs DEF AreItems
  <2> QED  BY <1>1, <2>1 DEF ToSet
<1>3. IsItem(item)
  BY <1>2 DEF AreItems
<1>4. PICK n, es : n = Len(item.long) /\ es = ItemEntries(item)
  OBVIOUS
<1>5. /\ n \in Nat /\ IsText(es) /\ Len(es) = n + 1
      /\ \A i \in 1 .. n : es[i] = PieceEntry(item.long[n - i + 1])
      /\ es[n + 1] = ShortEntry(item)
  BY <1>3, <1>4, ItemEntriesAre
<1>6. ASSUME NEW i \in 1 .. n + 1 PROVE es[i] \in EntriesOf(items)
  <2>1. CASE i = n + 1
    BY <1>2, <1>5, <2>1 DEF EntriesOf
  <2>2. CASE i # n + 1
    <3>1. i \in 1 .. n /\ n - i + 1 \in 1 .. n
      BY <1>5, <2>2
    <3>2. DOMAIN item.long = 1 .. n
      BY <1>3, <1>4, TextIs DEF IsItem
    <3>3. item.long[n - i + 1] \in ToSet(item.long)
      BY <3>1, <3>2 DEF ToSet
    <3> QED  BY <1>2, <1>5, <3>1, <3>3 DEF EntriesOf
  <2> QED  BY <2>1, <2>2
<1>7. es \in Seq(EntriesOf(items))
  BY <1>5, <1>6, TextIs
<1> QED  BY <1>1, <1>3, <1>4, <1>7

\* Kinds of entries.
LEMMA EntryKinds ==
  ASSUME NEW items, NEW e \in EntriesOf(items)
  PROVE  \/ e.kind = "dot" \/ e.kind = "lfn"
         \/ \E item \in ToSet(items) : e = ShortEntry(item) /\ (e.kind = "label" <=> item.label)
<1>1. CASE e = DotEntry
  BY <1>1 DEF DotEntry
<1>2. CASE \E item \in ToSet(items) : e = ShortEntry(item)
  <2>1. PICK item \in ToSet(items) : e = ShortEntry(item)
    BY <1>2
  <2>2. e.kind = IF item.label THEN "label" ELSE "short"
    BY <2>1 DEF ShortEntry
  <2>3. e.kind = "label" <=> item.label
    BY <2>2
  <2> QED  BY <2>1, <2>3
<1>3. CASE \E item \in ToSet(items) : \E piece \in ToSet(item.long) : e = PieceEntry(piece)
  BY <1>3 DEF PieceEntry
<1> QED  BY <1>1, <1>2, <1>3 DEF EntriesOf

\* g is what a scan of the entries makes, round by round.
NoScan == [out |-> <<>>, name |-> <<>>, gotLongName |-> FALSE]

Scans(g, entries) ==
  g[0] = NoScan /\ \A i \in 1 .. Len(entries) : g[i] = ScanEntry(g[i - 1], entries[i])

LEMMA ScanIs ==
  ASSUME NEW entries, IsText(entries)
  PROVE  \E g : Scans(g, entries) /\ get_entries_in_dir(entries) = g[Len(entries)].out
<1>1. PICK X : X = Range(entries) /\ entries \in Seq(X)
  BY DEF IsText
<1>2. PICK g : Scanning!Runs(g, NoScan, entries)
               /\ Scanning!FoldLeft(ScanEntry, NoScan, entries) = g[Len(entries)]
  BY <1>1, Scanning!FoldIs
<1>3. Scans(g, entries)
  BY <1>2 DEF Scans, Scanning!Runs
<1>4. get_entries_in_dir(entries) = Scanning!FoldLeft(ScanEntry, NoScan, entries).out
  BY DEF get_entries_in_dir, NoScan, FoldLeft, Scanning!FoldLeft, MapThenFoldSet,
         Scanning!MapThenFoldSet, Max, Scanning!Max
<1> QED  BY <1>2, <1>3, <1>4

\* An entry of ls for an item, whatever its name.
IsEntryFor(r, item) ==
  r.Size = item.size /\ r.IsDirectory = item.dir /\ r.FirstCluster = item.first

\* Every entry of the list is that of an item that is there and no label.
FromItems(list, items) ==
  /\ IsText(list)
  /\ \A j \in 1 .. Len(list) : \E item \in ToSet(items) : ~item.label /\ IsEntryFor(list[j], item)

\* Another entry for the list.
LEMMA OneMoreFrom ==
  ASSUME NEW items, NEW list, FromItems(list, items), NEW item \in ToSet(items), ~item.label,
         NEW r, IsEntryFor(r, item)
  PROVE  FromItems(Append(list, r), items)
<1>1. PICK more : more = Append(list, r)
  OBVIOUS
<1>2. IsText(list) /\ Len(list) \in Nat
  BY TextIs DEF FromItems
<1>3. /\ IsText(more) /\ Len(more) = Len(list) + 1
      /\ \A i \in 1 .. Len(list) : more[i] = list[i]
      /\ more[Len(list) + 1] = r
  BY <1>1, <1>2, TextAppends
<1>4. ASSUME NEW j \in 1 .. Len(more)
      PROVE  \E it \in ToSet(items) : ~it.label /\ IsEntryFor(more[j], it)
  <2>1. CASE j = Len(list) + 1
    BY <1>3, <2>1
  <2>2. CASE j # Len(list) + 1
    <3>1. j \in 1 .. Len(list)
      BY <1>2, <1>3, <2>2
    <3> QED  BY <1>3, <3>1 DEF FromItems
  <2> QED  BY <2>1, <2>2
<1> QED  BY <1>1, <1>3, <1>4 DEF FromItems

LEMMA ScannedFrom ==
  ASSUME NEW items, NEW entries \in Seq(EntriesOf(items))
  PROVE  FromItems(get_entries_in_dir(entries), items)
<1>1. PICK n \in Nat : n = Len(entries) /\ \A i \in 1 .. n : entries[i] \in EntriesOf(items)
  OBVIOUS
<1>2. IsText(entries)
  BY TextIs
<1>3. PICK g : Scans(g, entries) /\ get_entries_in_dir(entries) = g[n].out
  BY <1>1, <1>2, ScanIs
<1> DEFINE T == {i \in 0 .. n : FromItems(g[i].out, items)}
<1>4. 0 \in T
  <2>1. g[0].out = <<>>
    BY <1>3 DEF Scans, NoScan
  <2>2. IsText(<<>>) /\ Len(<<>>) = 0
    BY EmptyText
  <2>3. FromItems(<<>>, items)
    BY <2>2 DEF FromItems
  <2> QED  BY <2>1, <2>3
<1>5. ASSUME NEW i \in 0 .. n - 1, i \in T PROVE i + 1 \in T
  <2>1. i + 1 \in 0 .. n /\ i + 1 \in 1 .. n /\ (i + 1) - 1 = i
    OBVIOUS
  <2>2. PICK e, s : e = entries[i + 1] /\ s = g[i]
    OBVIOUS
  <2>3. g[i + 1] = ScanEntry(s, e) /\ e \in EntriesOf(items)
    BY <1>1, <1>3, <2>1, <2>2 DEF Scans
  <2>4. FromItems(s.out, items)
    BY <1>5, <2>2
  <2>5. CASE e.kind \in {"dot", "label"}
    <3>1. ScanEntry(s, e) = s
      BY <2>5 DEF ScanEntry
    <3> QED  BY <2>1, <2>3, <2>4, <3>1
  <2>6. CASE e.kind = "lfn"
    <3>1. ScanEntry(s, e) = [s EXCEPT !.name = s.name \o utf16_text_to_ascii(e.text), !.gotLongName = TRUE]
      BY <2>6 DEF ScanEntry
    <3>2. ScanEntry(s, e).out = s.out
      BY <3>1
    <3> QED  BY <2>1, <2>3, <2>4, <3>2
  <2>7. CASE e.kind \notin {"dot", "label", "lfn"}
    <3>1. PICK item \in ToSet(items) : e = ShortEntry(item) /\ ~item.label
      BY <2>3, <2>7, EntryKinds
    <3>2. PICK r : r = [Name |-> IF s.gotLongName THEN s.name ELSE ShortName(e),
                        Size |-> e.size, IsDirectory |-> e.dir, FirstCluster |-> e.first]
      OBVIOUS
    <3>3. ScanEntry(s, e).out = Append(s.out, r)
      BY <2>7, <3>2 DEF ScanEntry
    <3>4. IsEntryFor(r, item)
      BY <3>1, <3>2 DEF ShortEntry, IsEntryFor
    <3>5. FromItems(Append(s.out, r), items)
      BY <2>4, <3>1, <3>4, OneMoreFrom
    <3> QED  BY <2>1, <2>3, <3>3, <3>5
  <2> QED  BY <2>5, <2>6, <2>7
<1>6. \A i \in 0 .. n : i \in T
  <2> HIDE DEF T
  <2> QED  BY <1>4, <1>5, Scanning!UpTo
<1>7. n \in T
  BY <1>6
<1> QED  BY <1>3, <1>7

-----------------------------------------------------------------------------
(* What a scan shows of a directory of short-named items                      *)

\* The entry of ls for an item, with its name.
EntryFor(item) ==
  [Name |-> ItemName(item), Size |-> item.size, IsDirectory |-> item.dir,
   FirstCluster |-> item.first]

Lists(list, items) ==
  /\ IsText(list) /\ IsText(items) /\ Len(list) = Len(items)
  /\ \A j \in 1 .. Len(items) : list[j] = EntryFor(items[j])

\* The driver reads the names of these.
ShortItem(item) == IsItem(item) /\ Len(item.long) <= 1 /\ ~item.deleted

IsScan(scan, list, name, got) ==
  /\ DOMAIN scan = {"out", "name", "gotLongName"}
  /\ scan.out = list /\ scan.name = name /\ scan.gotLongName = got

\* No long name is begun.
Ready(scan) == IsScan(scan, scan.out, <<>>, FALSE)

LEMMA ListsMore ==
  ASSUME NEW list, NEW items, Lists(list, items), NEW item
  PROVE  Lists(Append(list, EntryFor(item)), Append(items, item))
<1>1. PICK l, t, r : l = Append(list, r) /\ t = Append(items, item) /\ r = EntryFor(item)
  OBVIOUS
<1>2. IsText(list) /\ IsText(items) /\ Len(items) \in Nat /\ Len(list) = Len(items)
  BY TextIs DEF Lists
<1>3. /\ IsText(l) /\ Len(l) = Len(items) + 1 /\ l[Len(items) + 1] = r
      /\ \A i \in 1 .. Len(items) : l[i] = list[i]
  BY <1>1, <1>2, TextAppends
<1>4. /\ IsText(t) /\ Len(t) = Len(items) + 1 /\ t[Len(items) + 1] = item
      /\ \A i \in 1 .. Len(items) : t[i] = items[i]
  BY <1>1, <1>2, TextAppends
<1>5. ASSUME NEW j \in 1 .. Len(items) + 1 PROVE l[j] = EntryFor(t[j])
  <2>1. CASE j = Len(items) + 1
    BY <1>1, <1>3, <1>4, <2>1
  <2>2. CASE j # Len(items) + 1
    <3>1. j \in 1 .. Len(items)
      BY <1>2, <2>2
    <3> QED  BY <1>3, <1>4, <3>1 DEF Lists
  <2> QED  BY <2>1, <2>2
<1> QED  BY <1>1, <1>3, <1>4, <1>5 DEF Lists

\* The last entry of an item.
LEMMA ShortScanned ==
  ASSUME NEW item, ShortItem(item), NEW scan, NEW list, NEW name, NEW got \in BOOLEAN,
         IsScan(scan, list, name, got),
         item.label => ~got /\ name = <<>>,
         IF got THEN name = ItemName(item) ELSE item.long = <<>>,
         NEW items, Lists(list, items)
  PROVE  /\ Ready(ScanEntry(scan, ShortEntry(item)))
         /\ Lists(ScanEntry(scan, ShortEntry(item)).out, Show(items, item))
<1>1. PICK e : e = ShortEntry(item)
  OBVIOUS
<1>2. /\ e.kind = IF item.label THEN "label" ELSE "short"
      /\ e.dir = item.dir /\ e.first = item.first /\ e.size = item.size
  BY <1>1 DEF ShortEntry
<1>3. CASE item.label
  <2>1. ScanEntry(scan, e) = scan
    BY <1>2, <1>3 DEF ScanEntry
  <2>2. Show(items, item) = items
    BY <1>3 DEF Show
  <2>3. Ready(scan)
    BY <1>3 DEF Ready, IsScan
  <2> QED  BY <1>1, <2>1, <2>2, <2>3 DEF IsScan
<1>4. CASE ~item.label
  <2>1. PICK r : r = [Name |-> IF scan.gotLongName THEN scan.name ELSE ShortName(e),
                      Size |-> e.size, IsDirectory |-> e.dir, FirstCluster |-> e.first]
    OBVIOUS
  <2>2. (IF scan.gotLongName THEN scan.name ELSE ShortName(e)) = ItemName(item)
    <3>1. CASE got
      BY <3>1 DEF IsScan
    <3>2. CASE ~got
      <4>1. ShortName(e) = ItemName(item)
        BY <1>1, <3>2, ShortNames DEF ShortItem
      <4> QED  BY <3>2, <4>1 DEF IsScan
    <3> QED  BY <3>1, <3>2
  <2>3. r = EntryFor(item)
    BY <1>2, <2>1, <2>2 DEF EntryFor
  <2>4. ScanEntry(scan, e) = [out |-> Append(list, r), name |-> <<>>, gotLongName |-> FALSE]
    BY <1>2, <1>4, <2>1 DEF ScanEntry, IsScan
  <2>5. Show(items, item) = Append(items, item)
    BY <1>4 DEF Show, ShortItem
  <2>6. PICK more : more = ScanEntry(scan, e)
    OBVIOUS
  <2>7. more.out = Append(list, r) /\ Ready(more)
    BY <2>4, <2>6 DEF Ready, IsScan
  <2> QED  BY <1>1, <2>3, <2>5, <2>6, <2>7, ListsMore
<1> QED  BY <1>3, <1>4

\* The scan goes on with the entries es after o others.
ScansFrom(g, o, es) == \A i \in 1 .. Len(es) : g[o + i] = ScanEntry(g[(o + i) - 1], es[i])

\* When the last of m entries of an item has been scanned, and not before, it is listed.
ItemListed(g, o, m, items, item) ==
  /\ Ready(g[o + m]) /\ Lists(g[o + m].out, Show(items, item))
  /\ \A i \in 1 .. m : i < m => g[o + i].out = g[o].out

LEMMA ItemScanned ==
  ASSUME NEW item, ShortItem(item), NEW items, NEW g, NEW o \in Nat,
         Ready(g[o]), Lists(g[o].out, items), NEW es, es = ItemEntries(item),
         ScansFrom(g, o, es)
  PROVE  ItemListed(g, o, Len(es), items, item)
<1>1. PICK n \in Nat : n = Len(item.long)
  BY ItemEntriesAre DEF ShortItem
<1>2. /\ Len(es) = n + 1 /\ es[n + 1] = ShortEntry(item)
      /\ \A i \in 1 .. n : es[i] = PieceEntry(item.long[n - i + 1])
  BY <1>1, ItemEntriesAre DEF ShortItem
<1>3. IsText(item.long) /\ n \in 0 .. 1
  <2>1. IsText(item.long)
    BY DEF ShortItem, IsItem
  <2>2. n <= 1
    BY <1>1 DEF ShortItem
  <2> QED  BY <2>1, <2>2
<1>4. PICK list : list = g[o].out /\ IsScan(g[o], list, <<>>, FALSE)
  BY DEF Ready
<1>5. CASE n = 0
  <2>1. item.long = <<>>
    <3>1. Len(item.long) = 0
      BY <1>1, <1>5
    <3> QED  BY <1>3, <3>1, EmptyText
  <2>2. 1 \in 1 .. Len(es) /\ Len(es) = 1 /\ (o + 1) - 1 = o
    BY <1>2, <1>5
  <2>3. g[o + 1] = ScanEntry(g[o], ShortEntry(item))
    BY <1>2, <1>5, <2>2 DEF ScansFrom
  <2>4. PICK got \in BOOLEAN : got = FALSE
    OBVIOUS
  <2>5. IsScan(g[o], list, <<>>, got)
    BY <1>4, <2>4
  <2>6. /\ Ready(ScanEntry(g[o], ShortEntry(item)))
        /\ Lists(ScanEntry(g[o], ShortEntry(item)).out, Show(items, item))
    <3>1. Lists(list, items)
      BY <1>4
    <3> QED  BY <2>1, <2>4, <2>5, <3>1, ShortScanned
  <2>7. \A i \in 1 .. Len(es) : ~(i < Len(es))
    BY <2>2
  <2> QED  BY <2>2, <2>3, <2>6, <2>7 DEF ItemListed
<1>6. CASE n = 1
  <2>1. PICK piece : piece = item.long[1]
    OBVIOUS
  <2>2. /\ IsText(piece) /\ Len(piece) <= LFN_CHARS /\ Pad \notin Range(piece) /\ ~item.label
        /\ item.long = <<piece>> /\ item.long # <<>>
    <3>1. DOMAIN item.long = 1 .. 1
      BY <1>1, <1>3, <1>6, TextIs
    <3>2. piece \in ToSet(item.long)
      BY <2>1, <3>1 DEF ToSet
    <3>3. item.long = <<piece>>
      <4>1. PICK X, long : X = Range(item.long) /\ long = item.long
        OBVIOUS
      <4>2. long \in Seq(X) /\ Len(long) = 1 /\ long[1] = piece
        BY <1>1, <1>3, <1>6, <2>1, <4>1 DEF IsText
      <4>3. long = <<piece>>
        BY <4>2
      <4> QED  BY <4>1, <4>3
    <3>4. item.long # <<>>
      BY <3>3
    <3> QED  BY <3>2, <3>3, <3>4 DEF ShortItem, IsItem
  <2>3. ItemName(item) = piece
    <3>1. PICK X : X = Range(piece) /\ piece \in Seq(X)
      BY <2>2 DEF IsText
    <3>2. PICK Y, ss : Y = Seq(X) /\ ss = <<piece>>
      OBVIOUS
    <3>3. ss \in Seq(Y) /\ Len(ss) = 1 /\ ss[1] = piece
      BY <3>1, <3>2
    <3>4. PICK J : Scanning!Joins(J, X, ss) /\ Scanning!FlattenSeq(ss) = J[1]
      BY <3>2, <3>3, Scanning!FlattenIs
    <3>5. J[0] = <<>> /\ J[1] = J[0] \o piece
      <4>1. J[0] = <<>> /\ \A i \in 1 .. 1 : J[i] = J[i - 1] \o ss[i]
        BY <3>3, <3>4 DEF Scanning!Joins
      <4>2. 1 \in 1 .. 1 /\ 1 - 1 = 0
        OBVIOUS
      <4> QED  BY <3>3, <4>1, <4>2
    <3>6. <<>> \o piece = piece
      BY <3>1, ConcatEmptySeq
    <3>7. FlattenSeq(ss) = Scanning!FlattenSeq(ss)
      BY DEF FlattenSeq, Scanning!FlattenSeq
    <3> QED  BY <2>2, <3>2, <3>4, <3>5, <3>6, <3>7 DEF ItemName
  <2>4. 1 \in 1 .. Len(es) /\ 2 \in 1 .. Len(es) /\ Len(es) = 2
        /\ (o + 1) - 1 = o /\ (o + 2) - 1 = o + 1 /\ 1 \in 1 .. n /\ n - 1 + 1 = 1
    BY <1>2, <1>6
  <2>5. g[o + 1] = ScanEntry(g[o], PieceEntry(piece))
    BY <1>2, <2>1, <2>4 DEF ScansFrom
  <2>6. g[o + 2] = ScanEntry(g[o + 1], ShortEntry(item))
    BY <1>2, <1>6, <2>4 DEF ScansFrom
  <2>7. PieceEntry(piece).kind = "lfn" /\ utf16_text_to_ascii(PieceEntry(piece).text) = piece
    BY <2>2, PieceIsRead
  <2>8. IsScan(g[o + 1], list, <<>> \o piece, TRUE)
    <3>1. PICK scan, e : scan = g[o] /\ e = PieceEntry(piece)
      OBVIOUS
    <3>2. ScanEntry(scan, e)
            = [scan EXCEPT !.name = scan.name \o utf16_text_to_ascii(e.text), !.gotLongName = TRUE]
      BY <2>7, <3>1 DEF ScanEntry
    <3>3. IsScan(scan, list, <<>>, FALSE)
      BY <1>4, <3>1
    <3>4. PICK name : name = scan.name \o utf16_text_to_ascii(e.text) /\ name = <<>> \o piece
      BY <2>7, <3>1, <3>3 DEF IsScan
    <3>5. IsScan([scan EXCEPT !.name = name, !.gotLongName = TRUE], list, name, TRUE)
      BY <3>3 DEF IsScan
    <3> QED  BY <2>5, <3>1, <3>2, <3>4, <3>5
  <2>9. <<>> \o piece = piece
    <3>1. PICK X : X = Range(piece) /\ piece \in Seq(X)
      BY <2>2 DEF IsText
    <3> QED  BY <3>1, ConcatEmptySeq
  <2>10. PICK got \in BOOLEAN : got = TRUE
    OBVIOUS
  <2>11. IsScan(g[o + 1], list, piece, got)
    BY <2>8, <2>9, <2>10
  <2>12. /\ Ready(ScanEntry(g[o + 1], ShortEntry(item)))
         /\ Lists(ScanEntry(g[o + 1], ShortEntry(item)).out, Show(items, item))
    <3>1. Lists(list, items)
      BY <1>4
    <3> QED  BY <2>2, <2>3, <2>10, <2>11, <3>1, ShortScanned
  <2>13. ASSUME NEW i \in 1 .. Len(es), i < Len(es) PROVE g[o + i].out = g[o].out
    <3>1. i = 1
      BY <2>4, <2>13
    <3> QED  BY <1>4, <2>8, <3>1 DEF IsScan
  <2> QED  BY <2>4, <2>6, <2>12, <2>13 DEF ItemListed
<1> QED  BY <1>3, <1>5, <1>6

\* V is what of the items is to be shown, item by item.
Shows(V, items) ==
  V[0] = <<>> /\ \A i \in 1 .. Len(items) : V[i] = Show(V[i - 1], items[i])

LEMMA ShowsIs ==
  ASSUME NEW items, IsText(items)
  PROVE  \E V : Shows(V, items) /\ Visible(items) = V[Len(items)]
<1>1. PICK X : X = Range(items) /\ items \in Seq(X)
  BY DEF IsText
<1>2. PICK V : Showing!Runs(V, <<>>, items) /\ Showing!FoldLeft(Show, <<>>, items) = V[Len(items)]
  BY <1>1, Showing!FoldIs
<1>3. Shows(V, items)
  BY <1>2 DEF Shows, Showing!Runs
<1>4. Visible(items) = Showing!FoldLeft(Show, <<>>, items)
  BY DEF Visible, FoldLeft, Showing!FoldLeft, MapThenFoldSet, Showing!MapThenFoldSet, Max, Showing!Max
<1> QED  BY <1>2, <1>3, <1>4

\* The entries of a directory: what comes first, and then the entries of each item.
Entries(ss, items, dots, J) ==
  /\ ss = [i \in DOMAIN items |-> ItemEntries(items[i])]
  /\ dots \in {<<>>, <<DotEntry, DotEntry>>}
  /\ Scanning!Joins(J, EntriesOf(items), ss)

LEMMA DirEntriesAre ==
  ASSUME NEW cluster, AreItems(volume.dirs[cluster])
  PROVE  \E ss, dots, J : /\ Entries(ss, volume.dirs[cluster], dots, J)
                          /\ DirEntries(volume, cluster) = dots \o J[Len(volume.dirs[cluster])]
<1>1. PICK items, n : items = volume.dirs[cluster] /\ n = Len(items)
  OBVIOUS
<1>2. PICK ss : ss = [i \in DOMAIN items |-> ItemEntries(items[i])]
  OBVIOUS
<1>3. PICK X, Y : X = EntriesOf(items) /\ Y = Seq(X)
  OBVIOUS
<1>4. AreItems(items) /\ DOMAIN items = 1 .. n /\ n \in Nat
  BY <1>1, TextIs DEF AreItems
<1>5. ss \in Seq(Y) /\ Len(ss) = n
  <2>1. \A i \in 1 .. n : ss[i] \in Y
    BY <1>1, <1>2, <1>3, <1>4, ItemEntriesTyped
  <2>2. DOMAIN ss = 1 .. n /\ ss = [i \in 1 .. n |-> ss[i]]
    BY <1>2, <1>4
  <2>3. IsText(ss) /\ Len(ss) = n
    BY <1>4, <2>2, FunctionIsText
  <2> QED  BY <2>1, <2>3, TextIs
<1>6. PICK J : Scanning!Joins(J, X, ss) /\ Scanning!FlattenSeq(ss) = J[n]
  BY <1>3, <1>5, Scanning!FlattenIs
<1>7. FlattenSeq(ss) = Scanning!FlattenSeq(ss)
  BY DEF FlattenSeq, Scanning!FlattenSeq
<1>8. PICK dots : dots = IF cluster = volume.root THEN <<>> ELSE <<DotEntry, DotEntry>>
  OBVIOUS
<1>9. DirEntries(volume, cluster) = dots \o J[n]
  BY <1>1, <1>2, <1>6, <1>7, <1>8 DEF DirEntries, DotEntry
<1>10. Entries(ss, items, dots, J)
  BY <1>2, <1>3, <1>6, <1>8 DEF Entries
<1> QED  BY <1>1, <1>9, <1>10

\* A scan of the entries of k items lists what is to be shown of them; one that ends
\* earlier, what is to be shown of fewer.
Scanned(g, len, k, V) ==
  /\ Ready(g[len]) /\ Lists(g[len].out, V[k])
  /\ \A m \in 0 .. len : \E h \in 0 .. k : Lists(g[m].out, V[h])

LEMMA DotsScanned ==
  ASSUME NEW items, NEW dots \in {<<>>, <<DotEntry, DotEntry>>}, NEW g, Scans(g, dots),
         NEW V, Shows(V, items)
  PROVE  Scanned(g, Len(dots), 0, V)
<1>1. /\ Ready(NoScan) /\ Lists(NoScan.out, V[0])
  BY EmptyText DEF Shows, Lists, NoScan, Ready, IsScan
<1>2. ScanEntry(NoScan, DotEntry) = NoScan
  BY DEF ScanEntry, DotEntry
<1>3. CASE dots = <<>>
  <2>1. Len(dots) = 0 /\ g[0] = NoScan /\ 0 \in 0 .. 0
    BY <1>3 DEF Scans
  <2> QED  BY <1>1, <2>1 DEF Scanned
<1>4. CASE dots = <<DotEntry, DotEntry>>
  <2>1. PICK e : e = DotEntry
    OBVIOUS
  <2>2. Len(dots) = 2 /\ dots[1] = e /\ dots[2] = e
    BY <1>4, <2>1
  <2>3. g[0] = NoScan /\ g[1] = ScanEntry(g[0], e) /\ g[2] = ScanEntry(g[1], e)
    <3>1. 1 \in 1 .. Len(dots) /\ 2 \in 1 .. Len(dots) /\ 1 - 1 = 0 /\ 2 - 1 = 1
      BY <2>2
    <3> QED  BY <2>2, <3>1 DEF Scans
  <2>4. g[0] = NoScan /\ g[1] = NoScan /\ g[2] = NoScan
    BY <1>2, <2>1, <2>3
  <2>5. \A m \in 0 .. 2 : g[m] = NoScan
    BY <2>4
  <2>6. 0 \in 0 .. 0 /\ 2 \in 0 .. 2
    OBVIOUS
  <2> QED  BY <1>1, <2>2, <2>5, <2>6 DEF Scanned
<1> QED  BY <1>3, <1>4

\* What a scan of the first entries makes is what a scan of all has made by then.
LEMMA ScansLess ==
  ASSUME NEW g, NEW s, NEW t, NEW both, Joined(both, s, t), IsText(s), IsText(t), Scans(g, both)
  PROVE  Scans(g, s)
<1>1. Len(s) \in Nat /\ Len(t) \in Nat /\ Len(both) = Len(s) + Len(t)
  BY TextIs DEF Joined
<1>2. ASSUME NEW i \in 1 .. Len(s) PROVE g[i] = ScanEntry(g[i - 1], s[i])
  <2>1. i \in 1 .. Len(both) /\ both[i] = s[i]
    BY <1>1 DEF Joined
  <2> QED  BY <2>1 DEF Scans
<1> QED  BY <1>2 DEF Scans

LEMMA OneMoreScanned ==
  ASSUME NEW items, AreItems(items), NEW k \in 0 .. Len(items) - 1, ShortItem(items[k + 1]),
         NEW s, IsText(s), NEW t, t = ItemEntries(items[k + 1]), NEW both, both = s \o t,
         NEW V, Shows(V, items), NEW g, Scans(g, both), Scanned(g, Len(s), k, V)
  PROVE  Scanned(g, Len(both), k + 1, V)
<1>1. PICK item, n, m : item = items[k + 1] /\ n = Len(s) /\ m = Len(t)
  OBVIOUS
<1>2. IsText(t) /\ ShortItem(item) /\ t = ItemEntries(item)
  <2>1. IsItem(item)
    BY <1>1 DEF ShortItem
  <2>2. PICK z : z = Len(item.long)
    OBVIOUS
  <2> QED  BY <1>1, <2>1, <2>2, ItemEntriesAre
<1>3. Joined(both, s, t)
  BY <1>2, TextsJoin
<1>4. n \in Nat /\ m \in Nat /\ Len(both) = n + m /\ k \in Nat
  BY <1>1, <1>2, <1>3, TextIs DEF Joined
<1>5. ASSUME NEW i \in 1 .. m PROVE g[n + i] = ScanEntry(g[(n + i) - 1], t[i])
  <2>1. n + i \in 1 .. Len(both) /\ both[n + i] = t[i]
    BY <1>1, <1>3, <1>4 DEF Joined
  <2> QED  BY <2>1 DEF Scans
<1>6. Ready(g[n]) /\ Lists(g[n].out, V[k])
  BY <1>1 DEF Scanned
<1>7. ItemListed(g, n, m, V[k], item)
  <2>1. ScansFrom(g, n, t)
    BY <1>1, <1>5 DEF ScansFrom
  <2>2. ItemListed(g, n, Len(t), V[k], item)
    BY <1>2, <1>4, <1>6, <2>1, ItemScanned
  <2> QED  BY <1>1, <2>2
<1>8. V[k + 1] = Show(V[k], item)
  <2>1. Len(items) \in Nat
    BY TextIs DEF AreItems
  <2>2. k + 1 \in 1 .. Len(items) /\ (k + 1) - 1 = k
    BY <2>1
  <2> QED  BY <1>1, <2>2 DEF Shows
<1>9. ASSUME NEW j \in 0 .. n + m PROVE \E h \in 0 .. k + 1 : Lists(g[j].out, V[h])
  <2>1. CASE j = n + m
    <3>1. k + 1 \in 0 .. k + 1
      BY <1>4
    <3> QED  BY <1>7, <1>8, <2>1, <3>1 DEF ItemListed
  <2>2. CASE j \in 0 .. n
    <3>1. PICK h \in 0 .. k : Lists(g[j].out, V[h])
      BY <1>1, <2>2 DEF Scanned
    <3>2. h \in 0 .. k + 1
      BY <1>4
    <3> QED  BY <3>1, <3>2
  <2>3. CASE j \in n + 1 .. n + m - 1
    <3>1. PICK i \in 1 .. m : j = n + i /\ i < m
      <4>1. j - n \in 1 .. m /\ j = n + (j - n) /\ j - n < m
        BY <1>4, <2>3
      <4> QED  BY <4>1
    <3>2. k \in 0 .. k + 1
      BY <1>4
    <3> QED  BY <1>6, <1>7, <3>1, <3>2 DEF ItemListed
  <2> QED  BY <1>4, <2>1, <2>2, <2>3
<1> QED  BY <1>4, <1>7, <1>8, <1>9 DEF Scanned, ItemListed

AlwaysScanned(entries, k, V) ==
  IsText(entries) /\ \A g : Scans(g, entries) => Scanned(g, Len(entries), k, V)

LEMMA AllScanned ==
  ASSUME NEW items, AreItems(items), \A item \in ToSet(items) : ShortItem(item),
         NEW ss, NEW dots, NEW J, Entries(ss, items, dots, J), NEW V, Shows(V, items)
  PROVE  \A k \in 0 .. Len(items) : AlwaysScanned(dots \o J[k], k, V)
<1>1. PICK n, X : n = Len(items) /\ X = EntriesOf(items)
  OBVIOUS
<1>2. n \in Nat /\ DOMAIN items = 1 .. n
  BY <1>1, TextIs DEF AreItems
<1>3. /\ J \in [0 .. n -> Seq(X)] /\ J[0] = <<>>
      /\ \A i \in 1 .. n : J[i] = J[i - 1] \o ItemEntries(items[i])
  <2>1. PICK f : f = [i \in 1 .. n |-> ItemEntries(items[i])]
    OBVIOUS
  <2>2. ss = f
    BY <1>2, <2>1 DEF Entries
  <2>3. IsText(f) /\ Len(f) = n
    <3>1. DOMAIN f = 1 .. n /\ f = [i \in 1 .. n |-> f[i]]
      BY <2>1
    <3> QED  BY <1>2, <3>1, FunctionIsText
  <2>4. /\ J \in [0 .. n -> Seq(X)] /\ J[0] = <<>>
        /\ \A i \in 1 .. n : J[i] = J[i - 1] \o f[i]
    BY <1>1, <2>2, <2>3 DEF Entries, Scanning!Joins
  <2> QED  BY <2>1, <2>4
<1>4. dots \in Seq(X)
  <2>1. PICK e \in X : e = DotEntry
    BY <1>1 DEF EntriesOf
  <2>2. dots = <<>> \/ dots = <<e, e>>
    BY <2>1 DEF Entries
  <2>3. <<>> \in Seq(X) /\ <<e, e>> \in Seq(X)
    OBVIOUS
  <2> QED  BY <2>2, <2>3
<1> DEFINE T == {k \in 0 .. n : AlwaysScanned(dots \o J[k], k, V)}
<1>5. 0 \in T
  <2>1. dots \o J[0] = dots
    BY <1>3, <1>4, ConcatEmptySeq
  <2>2. \A g : Scans(g, dots) => Scanned(g, Len(dots), 0, V)
    BY DotsScanned DEF Entries
  <2>3. IsText(dots)
    BY <1>4, TextIs
  <2>4. AlwaysScanned(dots, 0, V)
    BY <2>2, <2>3 DEF AlwaysScanned
  <2>5. AlwaysScanned(dots \o J[0], 0, V)
    BY <2>1, <2>4, Zenon
  <2>6. 0 \in 0 .. n
    BY <1>2
  <2> QED  BY <2>5, <2>6
<1>6. ASSUME NEW k \in 0 .. n - 1, k \in T PROVE k + 1 \in T
  <2>1. k + 1 \in 1 .. n /\ k + 1 \in 0 .. n /\ (k + 1) - 1 = k /\ k \in 0 .. n
    BY <1>2
  <2>2. PICK s, t, both : s = dots \o J[k] /\ t = ItemEntries(items[k + 1]) /\ both = s \o t
    OBVIOUS
  <2>3. dots \o J[k + 1] = both
    <3>1. J[k + 1] = J[k] \o t
      BY <1>3, <2>1, <2>2
    <3>2. J[k] \in Seq(X) /\ t \in Seq(X)
      <4>1. k + 1 \in 1 .. Len(items)
        BY <1>1, <2>1
      <4> QED  BY <1>1, <1>3, <2>1, <2>2, <4>1, ItemEntriesTyped
    <3>3. (dots \o J[k]) \o t = dots \o (J[k] \o t)
      <4>1. PICK j, l, r, u : /\ j = J[k] /\ l = dots \o j
                              /\ u = j \o t /\ r = dots \o u
        OBVIOUS
      <4>2. IsText(dots) /\ IsText(j) /\ IsText(t)
        BY <1>4, <3>2, <4>1, TextIs
      <4>3. Joined(l, dots, j) /\ Joined(u, j, t)
        BY <4>1, <4>2, TextsJoin
      <4>4. IsText(l) /\ IsText(u)
        BY <4>3 DEF Joined
      <4>5. PICK w : w = l \o t
        OBVIOUS
      <4>6. Joined(w, l, t)
        BY <4>2, <4>4, <4>5, TextsJoin
      <4>7. Joined(r, dots, u)
        BY <4>1, <4>2, <4>4, TextsJoin
      <4>8. w = r
        BY <4>2, <4>3, <4>6, <4>7, JoinsAssociate
      <4> QED  BY <4>1, <4>5, <4>8
    <3> QED  BY <2>2, <3>1, <3>3
  <2>4. AlwaysScanned(s, k, V)
    BY <1>6, <2>2
  <2>5. items[k + 1] \in ToSet(items)
    BY <1>2, <2>1 DEF ToSet
  <2>6. IsText(t)
    <3>1. IsItem(items[k + 1])
      BY <2>5 DEF AreItems
    <3>2. PICK z : z = Len(items[k + 1].long)
      OBVIOUS
    <3> QED  BY <2>2, <3>1, <3>2, ItemEntriesAre
  <2>7. Joined(both, s, t)
    BY <2>2, <2>4, <2>6, TextsJoin DEF AlwaysScanned
  <2>8. ASSUME NEW g, Scans(g, both) PROVE Scanned(g, Len(both), k + 1, V)
    <3>1. Scans(g, s)
      BY <2>4, <2>6, <2>7, <2>8, ScansLess DEF AlwaysScanned
    <3>2. Scanned(g, Len(s), k, V)
      BY <2>4, <3>1 DEF AlwaysScanned
    <3>3. k \in 0 .. Len(items) - 1 /\ ShortItem(items[k + 1])
      BY <1>1, <2>5
    <3> QED  BY <2>2, <2>4, <2>8, <3>2, <3>3, OneMoreScanned DEF AlwaysScanned
  <2>9. AlwaysScanned(both, k + 1, V)
    BY <2>7, <2>8 DEF Joined, AlwaysScanned
  <2> QED  BY <2>1, <2>3, <2>9
<1>7. \A k \in 0 .. n : k \in T
  <2> HIDE DEF T
  <2> QED  BY <1>2, <1>5, <1>6, Scanning!UpTo
<1>8. ASSUME NEW k \in 0 .. n PROVE AlwaysScanned(dots \o J[k], k, V)
  <2>1. k \in T
    BY <1>7
  <2> QED  BY <2>1
<1> QED  BY <1>1, <1>8

\* What is to be shown of the first k items: every item that is there, and the list only
\* becomes longer.
There(item) == ~item.deleted /\ ~item.label

Begins(s, t) == Len(s) <= Len(t) /\ \A i \in 1 .. Len(s) : s[i] = t[i]

ShownOf(V, items, k) ==
  /\ IsText(V[k])
  /\ \A j \in 1 .. Len(V[k]) : V[k][j] \in ToSet(items) /\ There(V[k][j])
  /\ \A i \in 1 .. k : There(items[i]) => \E j \in 1 .. Len(V[k]) : V[k][j] = items[i]
  /\ \A h \in 0 .. k : IsText(V[h]) /\ Begins(V[h], V[k])

LEMMA AllShown ==
  ASSUME NEW items, AreItems(items), NEW V, Shows(V, items)
  PROVE  \A k \in 0 .. Len(items) : ShownOf(V, items, k)
<1>1. PICK n : n = Len(items) /\ n \in Nat /\ DOMAIN items = 1 .. n
  BY TextIs DEF AreItems
<1> DEFINE T == {k \in 0 .. n : ShownOf(V, items, k)}
<1>2. 0 \in T
  <2>1. V[0] = <<>> /\ IsText(<<>>) /\ Len(<<>>) = 0
    BY EmptyText DEF Shows
  <2>2. ShownOf(V, items, 0)
    BY <2>1 DEF ShownOf, Begins
  <2> QED  BY <1>1, <2>2
<1>3. ASSUME NEW k \in 0 .. n - 1, k \in T PROVE k + 1 \in T
  <2>1. k + 1 \in 1 .. n /\ k + 1 \in 0 .. n /\ (k + 1) - 1 = k /\ k \in Nat
    BY <1>1
  <2>2. PICK old, new, item, m : /\ old = V[k] /\ new = V[k + 1] /\ item = items[k + 1]
                                 /\ m = Len(old)
    OBVIOUS
  <2>3. new = Show(old, item)
    BY <1>1, <2>1, <2>2 DEF Shows
  <2>4. ShownOf(V, items, k)
    BY <1>3
  <2>5. IsText(old) /\ m \in Nat
    BY <2>2, <2>4, TextIs DEF ShownOf
  <2>6. item \in ToSet(items)
    BY <1>1, <2>1, <2>2 DEF ToSet
  <2>7. CASE ~There(item)
    <3>1. new = old
      BY <2>3, <2>7 DEF Show, There
    <3>2. \A h \in 0 .. k + 1 : IsText(V[h]) /\ Begins(V[h], new)
      <4>1. IsText(V[k + 1]) /\ Begins(V[k + 1], new)
        BY <2>2, <2>5, <3>1 DEF Begins
      <4>2. \A h \in 0 .. k : IsText(V[h]) /\ Begins(V[h], new)
        BY <2>2, <2>4, <3>1 DEF ShownOf
      <4> QED  BY <2>1, <4>1, <4>2
    <3>3. \A i \in 1 .. k + 1 : There(items[i]) => \E j \in 1 .. Len(new) : new[j] = items[i]
      <4>1. \A i \in 1 .. k : There(items[i]) => \E j \in 1 .. Len(new) : new[j] = items[i]
        BY <2>2, <2>4, <3>1 DEF ShownOf
      <4> QED  BY <2>1, <2>2, <2>7, <4>1
    <3>4. \A j \in 1 .. Len(new) : new[j] \in ToSet(items) /\ There(new[j])
      BY <2>2, <2>4, <3>1 DEF ShownOf
    <3>5. ShownOf(V, items, k + 1)
      BY <2>2, <2>5, <3>1, <3>2, <3>3, <3>4 DEF ShownOf
    <3> QED  BY <2>1, <3>5
  <2>8. CASE There(item)
    <3>1. new = Append(old, item)
      BY <2>3, <2>8 DEF Show, There
    <3>2. /\ IsText(new) /\ Len(new) = m + 1 /\ new[m + 1] = item
          /\ \A i \in 1 .. m : new[i] = old[i]
      BY <2>2, <2>5, <3>1, TextAppends
    <3>3. \A h \in 0 .. k + 1 : IsText(V[h]) /\ Begins(V[h], new)
      <4>1. IsText(V[k + 1]) /\ Begins(V[k + 1], new)
        BY <2>2, <2>5, <3>2 DEF Begins
      <4>2. ASSUME NEW h \in 0 .. k PROVE IsText(V[h]) /\ Begins(V[h], new)
        <5>1. IsText(V[h]) /\ Len(V[h]) <= m /\ \A i \in 1 .. Len(V[h]) : V[h][i] = old[i]
          BY <2>2, <2>4 DEF ShownOf, Begins
        <5>2. Len(V[h]) \in Nat
          BY <5>1, TextIs
        <5> QED  BY <2>5, <3>2, <5>1, <5>2 DEF Begins
      <4> QED  BY <2>1, <4>1, <4>2
    <3>4. ASSUME NEW i \in 1 .. k + 1, There(items[i])
          PROVE  \E j \in 1 .. Len(new) : new[j] = items[i]
      <4>1. CASE i = k + 1
        <5>1. m + 1 \in 1 .. Len(new)
          BY <2>5, <3>2
        <5> QED  BY <2>2, <3>2, <4>1, <5>1
      <4>2. CASE i # k + 1
        <5>1. i \in 1 .. k
          BY <2>1, <4>2
        <5>2. PICK j \in 1 .. m : old[j] = items[i]
          BY <2>2, <2>4, <3>4, <5>1 DEF ShownOf
        <5>3. j \in 1 .. Len(new) /\ new[j] = items[i]
          BY <2>5, <3>2, <5>2
        <5> QED  BY <5>3
      <4> QED  BY <4>1, <4>2
    <3>5. ASSUME NEW j \in 1 .. Len(new) PROVE new[j] \in ToSet(items) /\ There(new[j])
      <4>1. CASE j = m + 1
        BY <2>6, <2>8, <3>2, <4>1
      <4>2. CASE j # m + 1
        <5>1. j \in 1 .. m
          BY <2>5, <3>2, <4>2
        <5> QED  BY <2>2, <2>4, <3>2, <5>1 DEF ShownOf
      <4> QED  BY <4>1, <4>2
    <3>6. ShownOf(V, items, k + 1)
      BY <2>2, <3>2, <3>3, <3>4, <3>5 DEF ShownOf
    <3> QED  BY <2>1, <3>6
  <2> QED  BY <2>7, <2>8
<1>4. \A k \in 0 .. n : k \in T
  <2> HIDE DEF T
  <2> QED  BY <1>1, <1>2, <1>3, Scanning!UpTo
<1> QED  BY <1>1, <1>4

\* What the reference shows of a directory.
LEMMA VisibleIs ==
  ASSUME NEW items, AreItems(items), NEW list, list = Visible(items)
  PROVE  /\ IsText(list)
         /\ \A j \in 1 .. Len(list) : list[j] \in ToSet(items) /\ There(list[j])
         /\ \A item \in ToSet(items) : There(item) => item \in ToSet(list)
<1>1. IsText(items) /\ Len(items) \in Nat /\ DOMAIN items = 1 .. Len(items)
  BY TextIs DEF AreItems
<1>2. PICK V : Shows(V, items) /\ Visible(items) = V[Len(items)]
  BY <1>1, ShowsIs
<1>3. ShownOf(V, items, Len(items))
  BY <1>1, <1>2, AllShown
<1>4. IsText(list) /\ \A j \in 1 .. Len(list) : list[j] \in ToSet(items) /\ There(list[j])
  BY <1>2, <1>3 DEF ShownOf
<1>5. ASSUME NEW item \in ToSet(items), There(item) PROVE item \in ToSet(list)
  <2>1. PICK i \in 1 .. Len(items) : items[i] = item
    BY <1>1 DEF ToSet
  <2>2. PICK j \in 1 .. Len(list) : list[j] = item
    BY <1>2, <1>3, <1>5, <2>1 DEF ShownOf
  <2>3. DOMAIN list = 1 .. Len(list)
    BY <1>4, TextIs
  <2> QED  BY <2>2, <2>3 DEF ToSet
<1> QED  BY <1>4, <1>5

\* One cluster of a directory is read.
LEMMA FirstClusterIs ==
  ASSUME NEW entries, IsText(entries)
  PROVE  \E m \in 0 .. Len(entries) :
           /\ FirstClusterOf(entries) = SubSeq(entries, 1, m)
           /\ Len(entries) <= DIR_ENTRIES => m = Len(entries)
<1>1. PICK a, n : a = DIR_ENTRIES /\ n = Len(entries) /\ a \in Nat /\ n \in Nat
  BY TextIs, Fat32Assumption
<1>2. PICK S : S = {a, n}
  OBVIOUS
<1>3. CASE n <= a
  <2>1. n \in S /\ \A x \in S : x \in Int /\ n <= x
    BY <1>1, <1>2, <1>3
  <2>2. Min(S) = n
    BY <1>1, <2>1, MinIs
  <2>3. n \in 0 .. n
    BY <1>1
  <2> QED  BY <1>1, <1>2, <2>2, <2>3 DEF FirstClusterOf
<1>4. CASE ~(n <= a)
  <2>1. a \in S /\ \A x \in S : x \in Int /\ a <= x
    BY <1>1, <1>2, <1>4
  <2>2. Min(S) = a
    BY <1>1, <2>1, MinIs
  <2>3. a \in 0 .. n
    BY <1>1, <1>4
  <2> QED  BY <1>1, <1>2, <1>4, <2>2, <2>3 DEF FirstClusterOf
<1> QED  BY <1>3, <1>4

\* What is read of a directory with any names.
LEMMA SomeRead ==
  ASSUME NEW d, AreItems(volume.dirs[d])
  PROVE  FromItems(get_entries_in_dir(FirstClusterOf(DirEntries(volume, d))), volume.dirs[d])
<1>1. PICK items, n : items = volume.dirs[d] /\ n = Len(items) /\ n \in Nat
  BY TextIs DEF AreItems
<1>2. PICK X, E : X = EntriesOf(items) /\ E = DirEntries(volume, d)
  OBVIOUS
<1>3. PICK ss, dots, J : Entries(ss, items, dots, J) /\ E = dots \o J[n]
  BY <1>1, <1>2, DirEntriesAre
<1>4. dots \in Seq(X)
  <2>1. PICK e \in X : e = DotEntry
    BY <1>2 DEF EntriesOf
  <2>2. dots = <<>> \/ dots = <<e, e>>
    BY <1>3, <2>1 DEF Entries
  <2>3. <<>> \in Seq(X) /\ <<e, e>> \in Seq(X)
    OBVIOUS
  <2> QED  BY <2>2, <2>3
<1>5. J[n] \in Seq(X)
  <2>1. DOMAIN items = 1 .. n /\ DOMAIN ss = DOMAIN items
    BY <1>1, <1>3, TextIs DEF AreItems, Entries
  <2>2. Len(ss) = n
    <3>1. ss = [i \in 1 .. n |-> ss[i]]
      BY <1>3, <2>1 DEF Entries
    <3> QED  BY <1>1, <2>1, <3>1, FunctionIsText
  <2>3. J \in [0 .. n -> Seq(X)]
    BY <1>2, <1>3, <2>2 DEF Entries, Scanning!Joins
  <2>4. n \in 0 .. n
    BY <1>1
  <2> QED  BY <2>3, <2>4
<1>6. E \in Seq(X)
  BY <1>3, <1>4, <1>5
<1>7. PICK m \in 0 .. Len(E) : FirstClusterOf(E) = SubSeq(E, 1, m)
  <2>1. IsText(E)
    BY <1>6, TextIs
  <2> QED  BY <2>1, FirstClusterIs
<1>8. SubSeq(E, 1, m) \in Seq(X)
  BY <1>6
<1> QED  BY <1>1, <1>2, <1>7, <1>8, ScannedFrom

\* What is read of a directory of short names: the beginning of what there is, and all
\* when it has one cluster.
ShowsBeginning(list, d) ==
  \E part : /\ Lists(list, part) /\ Begins(part, Visible(volume.dirs[d]))
            /\ Len(DirEntries(volume, d)) <= DIR_ENTRIES => part = Visible(volume.dirs[d])

LEMMA DirectoryRead ==
  ASSUME NEW d, AreItems(volume.dirs[d]), \A item \in ToSet(volume.dirs[d]) : ShortItem(item)
  PROVE  ShowsBeginning(get_entries_in_dir(FirstClusterOf(DirEntries(volume, d))), d)
<1>1. PICK items, n : items = volume.dirs[d] /\ n = Len(items) /\ n \in Nat /\ IsText(items)
  BY TextIs DEF AreItems
<1>2. PICK ss, dots, J : Entries(ss, items, dots, J) /\ DirEntries(volume, d) = dots \o J[n]
  BY <1>1, DirEntriesAre
<1>3. PICK V : Shows(V, items) /\ Visible(items) = V[n]
  BY <1>1, ShowsIs
<1>4. PICK E : E = dots \o J[n]
  OBVIOUS
<1>5. AlwaysScanned(E, n, V)
  <2>1. \A k \in 0 .. Len(items) : AlwaysScanned(dots \o J[k], k, V)
    BY <1>1, <1>2, <1>3, AllScanned
  <2>2. AlwaysScanned(dots \o J[n], n, V)
    BY <1>1, <2>1
  <2> QED  BY <1>4, <2>2
<1>6. IsText(E) /\ Len(E) \in Nat
  BY <1>5, TextIs DEF AlwaysScanned
<1>7. PICK m \in 0 .. Len(E) : /\ FirstClusterOf(E) = SubSeq(E, 1, m)
                               /\ Len(E) <= DIR_ENTRIES => m = Len(E)
  BY <1>6, FirstClusterIs
<1>8. PICK F : F = SubSeq(E, 1, m)
  OBVIOUS
<1>9. IsText(F) /\ Len(F) = m /\ m \in Nat /\ \A i \in 1 .. m : F[i] = E[i]
  BY <1>6, <1>8, Beginnings
<1>10. PICK g : Scans(g, E)
  BY <1>6, ScanIs
<1>11. PICK f : Scans(f, F) /\ get_entries_in_dir(F) = f[m].out
  BY <1>9, ScanIs
<1>12. f[m] = g[m]
  <2> DEFINE T == {i \in 0 .. m : f[i] = g[i]}
  <2>1. 0 \in T
    BY <1>9, <1>10, <1>11 DEF Scans
  <2>2. ASSUME NEW i \in 0 .. m - 1, i \in T PROVE i + 1 \in T
    <3>1. i + 1 \in 1 .. m /\ i + 1 \in 0 .. m /\ i + 1 \in 1 .. Len(E) /\ (i + 1) - 1 = i
      BY <1>6, <1>9
    <3>2. f[i] = g[i]
      BY <2>2
    <3> QED  BY <1>9, <1>10, <1>11, <3>1, <3>2 DEF Scans
  <2>3. \A i \in 0 .. m : i \in T
    <3> HIDE DEF T
    <3> QED  BY <1>9, <2>1, <2>2, Scanning!UpTo
  <2> QED  BY <1>9, <2>3
<1>13. Scanned(g, Len(E), n, V)
  BY <1>5, <1>10 DEF AlwaysScanned
<1>14. PICK h \in 0 .. n : Lists(g[m].out, V[h]) /\ (m = Len(E) => h = n)
  <2>1. CASE m = Len(E)
    <3>1. n \in 0 .. n
      BY <1>1
    <3> QED  BY <1>13, <2>1, <3>1 DEF Scanned
  <2>2. CASE m # Len(E)
    BY <1>13, <2>2 DEF Scanned
  <2> QED  BY <2>1, <2>2
<1>15. Begins(V[h], V[n])
  <2>1. ShownOf(V, items, n)
    <3>1. \A k \in 0 .. Len(items) : ShownOf(V, items, k)
      BY <1>1, <1>3, AllShown
    <3> QED  BY <1>1, <3>1
  <2> QED  BY <2>1 DEF ShownOf
<1>16. PICK list, part : list = get_entries_in_dir(F) /\ part = V[h]
  OBVIOUS
<1>17. Lists(list, part) /\ Begins(part, Visible(items))
  BY <1>3, <1>11, <1>12, <1>14, <1>15, <1>16
<1>18. Len(DirEntries(volume, d)) <= DIR_ENTRIES => part = Visible(items)
  BY <1>2, <1>3, <1>4, <1>7, <1>14, <1>16
<1>19. list = get_entries_in_dir(FirstClusterOf(DirEntries(volume, d)))
  BY <1>2, <1>4, <1>7, <1>8, <1>16
<1> QED  BY <1>1, <1>17, <1>18, <1>19 DEF ShowsBeginning

-----------------------------------------------------------------------------
(* Looking for a name                                                         *)

Matches(e, name, onlyDirs) == e.Name = name /\ (onlyDirs => e.IsDirectory)

LEMMA LookupIs ==
  ASSUME NEW list, IsText(list), NEW name, NEW onlyDirs
  PROVE  \/ /\ Lookup(list, name, onlyDirs) = <<>>
            /\ \A j \in 1 .. Len(list) : ~Matches(list[j], name, onlyDirs)
         \/ \E j \in 1 .. Len(list) : /\ Lookup(list, name, onlyDirs) = <<list[j]>>
                                      /\ Matches(list[j], name, onlyDirs)
<1>1. PICK n : n = Len(list) /\ n \in Nat /\ DOMAIN list = 1 .. n
  BY TextIs
<1>2. PICK hits : hits = {j \in DOMAIN list : Matches(list[j], name, onlyDirs)}
  OBVIOUS
<1>3. Lookup(list, name, onlyDirs) = IF hits = {} THEN <<>> ELSE << list[Min(hits)] >>
  BY <1>2 DEF Lookup, Matches
<1>4. CASE hits = {}
  BY <1>1, <1>2, <1>3, <1>4
<1>5. CASE hits # {}
  <2>1. hits \in SUBSET (1 .. n)
    BY <1>1, <1>2
  <2>2. Splitting!Min(hits) \in hits
    BY <1>1, <1>5, <2>1, Splitting!SomeMin
  <2>3. Min(hits) = Splitting!Min(hits)
    BY DEF Min, Splitting!Min
  <2>4. PICK j : j = Min(hits) /\ j \in hits
    BY <2>2, <2>3
  <2>5. j \in 1 .. Len(list) /\ Matches(list[j], name, onlyDirs)
    BY <1>1, <1>2, <2>4
  <2> QED  BY <1>3, <1>5, <2>4, <2>5
<1> QED  BY <1>4, <1>5

\* No two items of a directory have one name.
Unique(items) ==
  \A i, j \in DOMAIN items :
    There(items[i]) /\ There(items[j]) /\ ItemName(items[i]) = ItemName(items[j]) => i = j

LEMMA ChildrenAre ==
  ASSUME NEW d, AreItems(volume.dirs[d]), Unique(volume.dirs[d]), NEW name
  PROVE  /\ \A item \in Children(volume, d, name) :
              item \in ToSet(volume.dirs[d]) /\ There(item) /\ ItemName(item) = name
         /\ \A a, b \in Children(volume, d, name) : a = b
<1>1. PICK items, list : items = volume.dirs[d] /\ list = Visible(items)
  OBVIOUS
<1>2. IsText(list) /\ \A j \in 1 .. Len(list) : list[j] \in ToSet(items) /\ There(list[j])
  BY <1>1, VisibleIs
<1>3. DOMAIN list = 1 .. Len(list)
  BY <1>2, TextIs
<1>4. ASSUME NEW item \in Children(volume, d, name)
      PROVE  item \in ToSet(items) /\ There(item) /\ ItemName(item) = name
  <2>1. item \in ToSet(list) /\ ItemName(item) = name
    BY <1>1 DEF Children
  <2>2. PICK j \in 1 .. Len(list) : list[j] = item
    BY <1>3, <2>1 DEF ToSet
  <2> QED  BY <1>2, <2>1, <2>2
<1>5. ASSUME NEW a \in Children(volume, d, name), NEW b \in Children(volume, d, name)
      PROVE  a = b
  <2>1. PICK i \in DOMAIN items, j \in DOMAIN items : items[i] = a /\ items[j] = b
    BY <1>4 DEF ToSet
  <2>2. There(items[i]) /\ There(items[j]) /\ ItemName(items[i]) = ItemName(items[j])
    BY <1>4, <2>1
  <2>3. i = j
    BY <1>1, <2>2 DEF Unique
  <2> QED  BY <2>1, <2>3
<1> QED  BY <1>1, <1>4, <1>5

\* What is found of a name is an item of that name; when nothing is found, there is none
\* in a directory of one cluster.
Finds(hit, d, name, onlyDirs) ==
  /\ hit # <<>> => \E item \in Children(volume, d, name) :
                     hit = <<EntryFor(item)>> /\ (onlyDirs => item.dir)
  /\ hit = <<>> /\ Len(DirEntries(volume, d)) <= DIR_ENTRIES
       => \A item \in Children(volume, d, name) : onlyDirs /\ ~item.dir

LEMMA FoundInDirectory ==
  ASSUME NEW d, AreItems(volume.dirs[d]), NEW list, ShowsBeginning(list, d), NEW name,
         NEW onlyDirs \in BOOLEAN
  PROVE  Finds(Lookup(list, name, onlyDirs), d, name, onlyDirs)
<1>1. PICK items, all : items = volume.dirs[d] /\ all = Visible(items)
  OBVIOUS
<1>2. PICK part : /\ Lists(list, part) /\ Begins(part, all)
                  /\ Len(DirEntries(volume, d)) <= DIR_ENTRIES => part = all
  BY <1>1 DEF ShowsBeginning
<1>3. IsText(all) /\ DOMAIN all = 1 .. Len(all) /\ Len(all) \in Nat
  BY <1>1, VisibleIs, TextIs
<1>4. /\ IsText(list) /\ Len(list) = Len(part) /\ Len(part) \in Nat
      /\ \A j \in 1 .. Len(part) : list[j] = EntryFor(part[j])
  BY <1>2, TextIs DEF Lists
<1>5. ASSUME NEW j \in 1 .. Len(part)
      PROVE  /\ part[j] \in ToSet(all) /\ list[j].Name = ItemName(part[j])
             /\ list[j].IsDirectory = part[j].dir
  <2>1. j \in 1 .. Len(all) /\ part[j] = all[j]
    BY <1>2, <1>3, <1>4 DEF Begins
  <2>2. part[j] \in ToSet(all)
    BY <1>3, <2>1 DEF ToSet
  <2>3. PICK e, item : e = list[j] /\ item = part[j]
    OBVIOUS
  <2>4. e = EntryFor(item)
    BY <1>4, <2>3
  <2>5. e.Name = ItemName(item) /\ e.IsDirectory = item.dir
    BY <2>4 DEF EntryFor
  <2> QED  BY <2>2, <2>3, <2>5
<1>6. PICK hit : hit = Lookup(list, name, onlyDirs)
  OBVIOUS
<1>7. CASE hit = <<>>
  <2>1. \A j \in 1 .. Len(list) : ~Matches(list[j], name, onlyDirs)
    <3>1. ASSUME NEW j \in 1 .. Len(list), hit = <<list[j]>> PROVE FALSE
      BY <1>7, <3>1
    <3> QED  BY <1>4, <1>6, <3>1, LookupIs
  <2>2. ASSUME Len(DirEntries(volume, d)) <= DIR_ENTRIES, NEW item \in Children(volume, d, name)
        PROVE  onlyDirs /\ ~item.dir
    <3>1. item \in ToSet(all) /\ ItemName(item) = name
      BY <1>1 DEF Children
    <3>2. PICK j \in 1 .. Len(part) : part[j] = item
      BY <1>2, <1>3, <2>2, <3>1 DEF ToSet
    <3>3. ~Matches(list[j], name, onlyDirs)
      BY <1>4, <2>1, <3>2
    <3> QED  BY <1>5, <3>1, <3>2, <3>3 DEF Matches
  <2> QED  BY <1>6, <1>7, <2>2 DEF Finds
<1>8. CASE hit # <<>>
  <2>1. PICK j \in 1 .. Len(list) : hit = <<list[j]>> /\ Matches(list[j], name, onlyDirs)
    BY <1>4, <1>6, <1>8, LookupIs
  <2>2. part[j] \in Children(volume, d, name)
    BY <1>1, <1>4, <1>5, <2>1 DEF Children, Matches
  <2>3. hit = <<EntryFor(part[j])>> /\ (onlyDirs => part[j].dir)
    BY <1>4, <1>5, <2>1 DEF Matches
  <2> QED  BY <1>6, <1>8, <2>2, <2>3 DEF Finds
<1> QED  BY <1>6, <1>7, <1>8

-----------------------------------------------------------------------------
(* Following a path                                                           *)

\* The directories of that name in those directories.
Descend(at, name) ==
  UNION {{item.first : item \in {x \in Children(volume, c, name) : x.dir}} : c \in at}

Walking == INSTANCE SequenceFolds WITH step <- Descend

LEMMA DirectoryAtIs ==
  ASSUME NEW names
  PROVE  DirectoryAt(volume, names) = Walking!FoldLeft(Descend, {volume.root}, names)
BY DEF DirectoryAt, Descend, FoldLeft, Walking!FoldLeft, MapThenFoldSet,
       Walking!MapThenFoldSet, Max, Walking!Max

LEMMA DirectoryAtRoot == DirectoryAt(volume, <<>>) = {volume.root}
BY DirectoryAtIs, Walking!FoldEmpty

LEMMA DirectoryAtNext ==
  ASSUME NEW names, IsText(names), NEW name
  PROVE  DirectoryAt(volume, Append(names, name)) = Descend(DirectoryAt(volume, names), name)
<1>1. PICK X : X = Range(names) \cup {name}
  OBVIOUS
<1>2. names \in Seq(X) /\ name \in X
  <2>1. DOMAIN names = 1 .. Len(names)
    BY TextIs
  <2>2. \A i \in 1 .. Len(names) : names[i] \in X
    BY <1>1, <2>1 DEF Range
  <2> QED  BY <1>1, <2>2, TextIs
<1>3. PICK base : base = {volume.root}
  OBVIOUS
<1>4. Walking!FoldLeft(Descend, base, Append(names, name))
        = Descend(Walking!FoldLeft(Descend, base, names), name)
  BY <1>2, Walking!FoldAppend
<1> QED  BY <1>3, <1>4, DirectoryAtIs

\* What a consistent volume holds in a directory.
LEMMA Stored ==
  ASSUME Consistent(volume), NEW d \in DOMAIN volume.dirs
  PROVE  /\ d \in Nat /\ IsCluster(d) /\ AreItems(volume.dirs[d]) /\ Unique(volume.dirs[d])
         /\ \A item \in ToSet(volume.dirs[d]) : There(item) =>
              IF item.dir THEN item.first \in DOMAIN volume.dirs ELSE FileStored(volume, item)
<1>1. PICK items : items = volume.dirs[d]
  OBVIOUS
<1>2. d \in Nat /\ IsCluster(d) /\ DirectoryStored(volume, d)
  BY DEF Consistent
<1>3. AreItems(items)
  BY <1>1, <1>2 DEF DirectoryStored, AreItems
<1>4. Unique(items)
  BY <1>1, <1>2 DEF DirectoryStored, Unique, There
<1>5. ASSUME NEW item \in ToSet(items), There(item)
      PROVE  IF item.dir THEN item.first \in DOMAIN volume.dirs ELSE FileStored(volume, item)
  <2>1. PICK i \in DOMAIN items : items[i] = item
    BY DEF ToSet
  <2>2. \A j \in DOMAIN items : ~items[j].deleted /\ ~items[j].label =>
          IF items[j].dir THEN items[j].first \in DOMAIN volume.dirs ELSE FileStored(volume, items[j])
    BY <1>1, <1>2 DEF DirectoryStored
  <2> QED  BY <1>5, <2>1, <2>2 DEF There
<1> QED  BY <1>1, <1>2, <1>3, <1>4, <1>5

LEMMA DescendsToDirectories ==
  ASSUME Consistent(volume), NEW at \in SUBSET DOMAIN volume.dirs, NEW name
  PROVE  Descend(at, name) \in SUBSET DOMAIN volume.dirs
<1>1. ASSUME NEW c \in at, NEW item \in Children(volume, c, name), item.dir
      PROVE  item.first \in DOMAIN volume.dirs
  <2>1. AreItems(volume.dirs[c]) /\ Unique(volume.dirs[c])
        /\ \A it \in ToSet(volume.dirs[c]) : There(it) =>
             IF it.dir THEN it.first \in DOMAIN volume.dirs ELSE FileStored(volume, it)
    BY Stored
  <2>2. item \in ToSet(volume.dirs[c]) /\ There(item)
    BY <2>1, ChildrenAre
  <2> QED  BY <1>1, <2>1, <2>2
<1> QED  BY <1>1 DEF Descend

LEMMA DirectoriesAt ==
  ASSUME Consistent(volume), NEW names, IsText(names)
  PROVE  DirectoryAt(volume, names) \in SUBSET DOMAIN volume.dirs
<1>1. PICK X : X = Range(names) /\ names \in Seq(X)
  BY DEF IsText
<1>2. PICK D, base : D = SUBSET DOMAIN volume.dirs /\ base = {volume.root}
  OBVIOUS
<1>3. base \in D
  BY <1>2 DEF Consistent
<1>4. \A d \in D, x \in X : Descend(d, x) \in D
  BY <1>2, DescendsToDirectories
<1>5. Walking!FoldLeft(Descend, base, names) \in D
  BY <1>1, <1>3, <1>4, Walking!FoldKeeps
<1> QED  BY <1>2, <1>5, DirectoryAtIs

\* Behind a directory that is not there, there is none.
LEMMA NowhereFrom ==
  ASSUME NEW names, IsText(names), NEW k \in 0 .. Len(names),
         DirectoryAt(volume, SubSeq(names, 1, k)) = {}
  PROVE  DirectoryAt(volume, names) = {}
<1>1. PICK n : n = Len(names) - k /\ n \in Nat /\ Len(names) \in Nat /\ k \in Nat
  BY TextIs
<1> DEFINE T == {j \in 0 .. n : DirectoryAt(volume, SubSeq(names, 1, k + j)) = {}}
<1>2. 0 \in T
  BY <1>1
<1>3. ASSUME NEW j \in 0 .. n - 1, j \in T PROVE j + 1 \in T
  <2>1. PICK m : m = k + j /\ m \in 0 .. Len(names) /\ m < Len(names) /\ k + (j + 1) = m + 1
    BY <1>1
  <2>2. PICK part, name : part = SubSeq(names, 1, m) /\ name = names[m + 1]
    OBVIOUS
  <2>3. IsText(part) /\ SubSeq(names, 1, m + 1) = Append(part, name)
    BY <2>1, <2>2, Beginnings
  <2>4. DirectoryAt(volume, part) = {}
    BY <1>3, <2>1, <2>2
  <2>5. DirectoryAt(volume, Append(part, name)) = {}
    BY <2>3, <2>4, DirectoryAtNext DEF Descend
  <2>6. j + 1 \in 0 .. n
    BY <1>1
  <2> QED  BY <2>1, <2>3, <2>5, <2>6
<1>4. \A j \in 0 .. n : j \in T
  <2> HIDE DEF T
  <2> QED  BY <1>1, <1>2, <1>3, Walking!UpTo
<1>5. DirectoryAt(volume, SubSeq(names, 1, Len(names))) = {}
  <2>1. n \in 0 .. n /\ k + n = Len(names)
    BY <1>1
  <2>2. n \in T
    BY <1>4, <2>1
  <2> QED  BY <2>1, <2>2
<1>6. SubSeq(names, 1, Len(names)) = names
  <2>1. Len(names) \in 0 .. Len(names)
    BY <1>1
  <2> QED  BY <2>1, Beginnings
<1> QED  BY <1>5, <1>6

\* One name further: where the item of that name leads.
LEMMA OneNameOn ==
  ASSUME Consistent(volume), NEW names, IsText(names), NEW d \in DOMAIN volume.dirs,
         DirectoryAt(volume, names) = {d}, NEW name, NEW item \in Children(volume, d, name)
  PROVE  DirectoryAt(volume, Append(names, name)) = IF item.dir THEN {item.first} ELSE {}
<1>1. AreItems(volume.dirs[d]) /\ Unique(volume.dirs[d])
  BY Stored
<1>2. \A a, b \in Children(volume, d, name) : a = b
  BY <1>1, ChildrenAre
<1>3. Descend({d}, name) = IF item.dir THEN {item.first} ELSE {}
  BY <1>2 DEF Descend
<1> QED  BY <1>3, DirectoryAtNext

-----------------------------------------------------------------------------
(* Chains                                                                     *)

Follow(chain, i) ==
  IF ~IsCluster(volume.fat[Last(chain)]) THEN chain ELSE Append(chain, volume.fat[Last(chain)])

Chaining == INSTANCE SequenceFolds WITH step <- Follow

IsChain(chain, first) ==
  /\ IsText(chain) /\ Len(chain) # 0 /\ chain[1] = first
  /\ \A j \in 1 .. Len(chain) : IsCluster(chain[j])
  /\ \A j \in 1 .. Len(chain) : j < Len(chain) => chain[j + 1] = volume.fat[chain[j]]

LEMMA ChainIs ==
  ASSUME IsFiniteSet(DOMAIN volume.fat), NEW first
  PROVE  IF IsCluster(first) THEN IsChain(Chain(volume, first), first) ELSE Chain(volume, first) = <<>>
<1>1. PICK n, seq : n = Cardinality(DOMAIN volume.fat) /\ seq = [i \in 1 .. n |-> i]
  OBVIOUS
<1>2. n \in Nat
  BY <1>1, FS_CardinalityType
<1>3. seq \in Seq(Nat) /\ Len(seq) = n
  BY <1>1, <1>2
<1>4. CASE ~IsCluster(first)
  BY <1>4 DEF Chain
<1>5. CASE IsCluster(first)
  <2>1. PICK base : base = <<first>>
    OBVIOUS
  <2>2. Chain(volume, first) = Chaining!FoldLeft(Follow, base, seq)
    BY <1>1, <1>5, <2>1 DEF Chain, Follow, FoldLeft, Chaining!FoldLeft, MapThenFoldSet,
       Chaining!MapThenFoldSet, Max, Chaining!Max
  <2>3. PICK g : Chaining!Runs(g, base, seq) /\ Chaining!FoldLeft(Follow, base, seq) = g[n]
    BY <1>3, Chaining!FoldIs
  <2> DEFINE T == {i \in 0 .. n : IsChain(g[i], first)}
  <2>4. 0 \in T
    <3>1. IsText(base) /\ Len(base) = 1 /\ base[1] = first
      <4>1. base \in Seq({first}) /\ Len(base) = 1 /\ base[1] = first
        BY <2>1
      <4> QED  BY <4>1, TextIs
    <3>2. IsChain(base, first)
      BY <1>5, <3>1 DEF IsChain
    <3>3. g[0] = base
      BY <2>3 DEF Chaining!Runs
    <3> QED  BY <1>2, <3>2, <3>3
  <2>5. ASSUME NEW i \in 0 .. n - 1, i \in T PROVE i + 1 \in T
    <3>1. i + 1 \in 1 .. n /\ i + 1 \in 0 .. n /\ (i + 1) - 1 = i
      BY <1>2
    <3>2. PICK chain, m, last : /\ chain = g[i] /\ m = Len(chain)
                                /\ last = volume.fat[Last(chain)]
      OBVIOUS
    <3>3. g[i + 1] = IF ~IsCluster(last) THEN chain ELSE Append(chain, last)
      BY <1>3, <2>3, <3>1, <3>2 DEF Chaining!Runs, Follow
    <3>4. IsChain(chain, first)
      BY <2>5, <3>2
    <3>5. m \in Nat /\ m # 0 /\ last = volume.fat[chain[m]]
      BY <3>2, <3>4, TextIs DEF IsChain, Last
    <3>6. CASE ~IsCluster(last)
      BY <3>1, <3>3, <3>4, <3>6
    <3>7. CASE IsCluster(last)
      <4>1. PICK more : more = Append(chain, last)
        OBVIOUS
      <4>2. /\ IsText(more) /\ Len(more) = m + 1 /\ more[m + 1] = last
            /\ \A j \in 1 .. m : more[j] = chain[j]
        BY <3>2, <3>4, <4>1, TextAppends DEF IsChain
      <4>3. ASSUME NEW j \in 1 .. m + 1
            PROVE  IsCluster(more[j]) /\ (j < m + 1 => more[j + 1] = volume.fat[more[j]])
        <5>1. CASE j = m + 1
          BY <3>5, <3>7, <4>2, <5>1
        <5>2. CASE j = m
          BY <3>2, <3>4, <3>5, <4>2, <5>2 DEF IsChain
        <5>3. CASE j \in 1 .. m - 1
          <6>1. j \in 1 .. m /\ j + 1 \in 1 .. m /\ j < m
            BY <3>5, <5>3
          <6> QED  BY <3>2, <3>4, <4>2, <6>1 DEF IsChain
        <5> QED  BY <3>5, <5>1, <5>2, <5>3
      <4>4. IsChain(more, first)
        <5>1. 1 \in 1 .. m
          BY <3>5
        <5>2. more[1] = first
          BY <3>4, <4>2, <5>1 DEF IsChain
        <5> QED  BY <3>5, <4>2, <4>3, <5>2 DEF IsChain
      <4> QED  BY <3>1, <3>3, <3>7, <4>1, <4>4
    <3> QED  BY <3>6, <3>7
  <2>6. \A i \in 0 .. n : i \in T
    <3> HIDE DEF T
    <3> QED  BY <1>2, <2>4, <2>5, Chaining!UpTo
  <2>7. n \in T
    BY <1>2, <2>6
  <2> QED  BY <1>5, <2>2, <2>3, <2>7
<1> QED  BY <1>4, <1>5

LEMMA RoundUp ==
  ASSUME NEW a \in Nat, NEW q, q = divide_round_up(a, CLUSTER_SIZE)
  PROVE  q \in Nat /\ a <= q * CLUSTER_SIZE /\ (q = 0 => a = 0)
<1>1. PICK b : b = CLUSTER_SIZE /\ b \in Nat /\ b # 0
  BY Fat32Assumption
<1>2. PICK x : x = a + b - 1 /\ x \in Nat
  BY <1>1
<1>3. x \div b \in Int /\ b * (x \div b) <= x /\ x < b * (x \div b) + b
  BY <1>1, <1>2
<1>4. q = x \div b
  BY <1>1, <1>2 DEF divide_round_up
<1>5. q \in Int /\ b * q <= x /\ x < b * q + b
  BY <1>3, <1>4
<1>6. a <= b * q
  BY <1>1, <1>2, <1>5
<1>7. b * q = q * b
  BY <1>1, <1>5
<1>8. q \in Nat
  <2>1. ASSUME q < 0 PROVE FALSE
    <3>1. q + 1 <= 0
      BY <1>5, <2>1
    <3>2. b * (q + 1) <= 0
      BY <1>1, <1>5, <3>1
    <3>3. PICK p, r \in Int : p = b * q /\ r = b * (q + 1) /\ r = p + b
      BY <1>1, <1>5
    <3>4. r <= 0 /\ x < p + b
      BY <1>5, <3>2, <3>3
    <3> QED  BY <1>1, <1>2, <3>3, <3>4
  <2> QED  BY <1>5, <2>1
<1>9. q = 0 => a = 0
  BY <1>1, <1>6
<1> QED  BY <1>1, <1>6, <1>7, <1>8, <1>9

-----------------------------------------------------------------------------
(* The inductive invariant                                                    *)

\* The sections of what a call looks for.
Wanted(c) ==
  IF c.op = "read" THEN Names(c.path)
  ELSE IF Len(c.path) = 1 THEN <<>> ELSE Names(Front(c.path))

\* The files of a path.
FilesAt(names) ==
  IF names = <<>> THEN {}
  ELSE UNION {{item \in Children(volume, c, Last(names)) : ~item.dir} :
                c \in DirectoryAt(volume, Front(names))}

\* So far the call has read what there is.
Clean(c) == ShortNamed /\ NoneDeleted /\ ~c.failed

\* The data of a file, cluster by cluster.
DataOf(item) ==
  [i \in DOMAIN Chain(volume, item.first) |-> volume.data[Chain(volume, item.first)[i]]]

\* k clusters of a file have been copied.
Copied(c, item, k) ==
  LET chain == Chain(volume, item.first)
  IN  /\ k \in 0 .. Len(chain) - 1
      /\ c.size = item.size /\ c.room = Len(chain) * CLUSTER_SIZE + 1
      /\ c.cluster = chain[k + 1]
      /\ IsText(c.out) /\ Len(c.out) = k * CLUSTER_SIZE
      /\ Clean(c) => item \in FilesAt(Wanted(c)) /\ c.out = FlattenSeq(SubSeq(DataOf(item), 1, k))

Copying(c) ==
  \E d \in DOMAIN volume.dirs : \E item \in ToSet(volume.dirs[d]) :
    There(item) /\ ~item.dir /\ \E k \in 0 .. Len(Chain(volume, item.first)) - 1 : Copied(c, item, k)

CallFields == {"op", "path", "sections", "i", "cluster", "size", "out", "room", "failed", "unread"}

CallTyped(c) ==
  /\ DOMAIN c = CallFields
  /\ IsText(c.sections) /\ c.i \in Nat /\ c.i <= Len(c.sections)
  /\ c.failed \in BOOLEAN /\ c.unread \in BOOLEAN /\ (c.unread => c.failed)

\* Where a call is, by the place in the command.
CallOK(at, c) ==
  /\ CallTyped(c)
  /\ at \in {"walk", "list", "chain"} => c.op \in {"ls", "read"}
  /\ at \in {"walk", "list"} /\ ~c.unread /\ NoneDeleted => c.cluster \in {0} \cup DOMAIN volume.dirs
  /\ at = "walk" => c.i # 0 /\ c.sections = Wanted(c) /\ c.sections # <<>> /\ c.out = <<>>
  /\ at = "walk" /\ Clean(c) => DirectoryAt(volume, SubSeq(c.sections, 1, c.i - 1)) = {c.cluster}
  /\ at = "list" => IsText(Wanted(c)) /\ (c.op = "read" => Wanted(c) = <<>>)
  /\ at = "list" /\ c.op = "ls" /\ Clean(c) => DirectoryAt(volume, Wanted(c)) = {c.cluster}
  /\ at = "chain" => c.op = "read"
  /\ at = "chain" /\ ~c.unread /\ NoneDeleted => Copying(c)

PathOK ==
  /\ IsText(currentPath) /\ activeDriver \in {"none", "FAT32"}
  /\ activeDriver = "FAT32" => currentPath # <<>> /\ Head(currentPath) = Slash

IInv ==
  /\ TypeOK /\ volume \in Volumes /\ PathOK /\ CallOK(pc, call)
  /\ LsShowsDirectory /\ ReadShowsFile /\ OnlyKnownLosses

\* The properties, of any result.
LsGood(s) ==
  ShortNamed /\ NoneDeleted /\ s.op = "ls" /\ s.clean /\ Head(s.path) = Slash /\ Last(s.path) = Slash =>
    LET listing == [i \in DOMAIN s.result |-> <<s.result[i].Name, s.result[i].IsDirectory>>]
        at == DirectoryAt(volume, IF Len(s.path) = 1 THEN <<>> ELSE Names(Front(s.path)))
        listed(items) == [i \in DOMAIN items |-> <<ItemName(items[i]), items[i].dir>>]
        wanted == IF at = {} THEN <<>> ELSE listed(Visible(volume.dirs[CHOOSE c \in at : TRUE]))
    IN  IsPrefix(listing, wanted) /\ (OneCluster => listing = wanted)

ReadGood(s) ==
  ShortNamed /\ NoneDeleted /\ TextFiles /\ s.op = "read" /\ s.clean /\ Head(s.path) = Slash =>
    \/ \E item \in FilesAt(Names(s.path)) : s.result = Contents(volume, item)
    \/ (FilesAt(Names(s.path)) = {} \/ ~OneCluster) /\ s.result = NotFound

Lost(at, c) ==
  /\ at = "fault" => activeDriver = "none" \/ c.failed \/ c.size = 0 \/ ~NoneDeleted
  /\ at = "overrun" => c.unread \/ ~NoneDeleted

LEMMA LsGoodIs == LsShowsDirectory <=> LsGood(shown)
BY DEF LsShowsDirectory, LsGood, CleanLs, LsShown, LsWanted

LEMMA ReadGoodIs == ReadShowsFile <=> ReadGood(shown)
BY DEF ReadShowsFile, ReadGood, FilesAt

LEMMA LostIs == OnlyKnownLosses <=> Lost(pc, call)
BY DEF OnlyKnownLosses, Lost

\* What the properties say of the volume stays as it is.
LEMMA SameVolume ==
  ASSUME volume' = volume
  PROVE  /\ ShortNamed' <=> ShortNamed
         /\ NoneDeleted' <=> NoneDeleted
         /\ TextFiles' <=> TextFiles
         /\ OneCluster' <=> OneCluster
         /\ \A names : FilesAt(names)' = FilesAt(names)
         /\ \A item : DataOf(item)' = DataOf(item)
BY DEF ShortNamed, NoneDeleted, TextFiles, OneCluster, FilesAt, DataOf

LEMMA SameCopying ==
  ASSUME volume' = volume, NEW c, Copying(c)
  PROVE  Copying(c)'
<1>1. \A item, k : Copied(c, item, k) => Copied(c, item, k)'
  BY SameVolume DEF Copied, Clean
<1> QED  BY <1>1 DEF Copying

Places == {"boot", "idle", "walk", "list", "chain", "fault", "deep", "overrun"}

Kept == UNCHANGED <<devices, volume, selected, activeDriver, RootCluster, currentPath>>

\* What is to be shown of a step that leaves all but the call alone.
LEMMA StepKeeps ==
  ASSUME IInv, Kept, NEW at \in Places, NEW c, NEW s, pc' = at, call' = c, shown' = s,
         CallOK(at, c), LsGood(s), ReadGood(s), Lost(at, c)
  PROVE  IInv'
<1>1. volume' = volume /\ activeDriver' = activeDriver
  BY DEF Kept
<1>2. TypeOK'
  <2>1. c.i <= Len(c.sections) + 1
    <3>1. IsText(c.sections) /\ c.i \in Nat /\ c.i <= Len(c.sections)
      BY DEF CallOK, CallTyped
    <3>2. Len(c.sections) \in Nat
      BY <3>1, TextIs
    <3> QED  BY <3>1, <3>2
  <2> QED  BY <2>1 DEF IInv, TypeOK, Kept, Places
<1>3. (volume \in Volumes)' /\ PathOK'
  BY DEF IInv, PathOK, Kept
<1>4. CallOK(pc, call)'
  <2>1. Clean(c)' <=> Clean(c)
    BY <1>1, SameVolume DEF Clean
  <2>2. Wanted(c)' = Wanted(c)
    BY DEF Wanted
  <2>3. CallOK(at, c)'
    BY <1>1, <2>1, <2>2, SameVolume, SameCopying DEF CallOK, CallTyped
  <2> QED  BY <2>3
<1>5. LsShowsDirectory'
  <2>1. LsGood(s)'
    BY <1>1, SameVolume DEF LsGood
  <2>2. LsGood(shown)'
    BY <2>1
  <2>3. (LsShowsDirectory <=> LsGood(shown))'
    BY LsGoodIs, PTL
  <2> QED  BY <2>2, <2>3
<1>6. ReadShowsFile'
  <2>1. ReadGood(s)'
    BY <1>1, SameVolume DEF ReadGood
  <2>2. ReadGood(shown)'
    BY <2>1
  <2>3. (ReadShowsFile <=> ReadGood(shown))'
    BY ReadGoodIs, PTL
  <2> QED  BY <2>2, <2>3
<1>7. OnlyKnownLosses'
  <2>1. Lost(at, c)'
    BY <1>1, SameVolume DEF Lost
  <2>2. Lost(pc, call)'
    BY <2>1
  <2>3. (OnlyKnownLosses <=> Lost(pc, call))'
    BY LostIs, PTL
  <2> QED  BY <2>2, <2>3
<1> QED  BY <1>2, <1>3, <1>4, <1>5, <1>6, <1>7 DEF IInv

-----------------------------------------------------------------------------
(* Steps that read a directory                                                *)

LEMMA NothingRead ==
  /\ get_entries_in_dir(<<>>) = <<>>
  /\ \A name, onlyDirs : Lookup(<<>>, name, onlyDirs) = <<>>
<1>1. PICK none : none = <<>>
  OBVIOUS
<1>2. IsText(none) /\ Len(none) = 0
  BY <1>1, EmptyText
<1>3. get_entries_in_dir(none) = <<>>
  <2>1. PICK g : Scans(g, none) /\ get_entries_in_dir(none) = g[0].out
    BY <1>2, ScanIs
  <2> QED  BY <2>1 DEF Scans, NoScan
<1>4. ASSUME NEW name, NEW onlyDirs PROVE Lookup(none, name, onlyDirs) = <<>>
  <2>1. \A j \in 1 .. Len(none) : FALSE
    BY <1>2
  <2> QED  BY <1>2, <2>1, LookupIs
<1> QED  BY <1>1, <1>3, <1>4

\* What is in the buffer after a read that was tried.
LEMMA ReadIs ==
  ASSUME NEW cluster, NEW outcome \in Outcomes, outcome # "unread",
         NEW entries \in read_dir_entries(cluster, outcome)
  PROVE  \/ entries = <<>> /\ (outcome = "timeout" \/ ~IsCluster(cluster))
         \/ /\ outcome = "ok" /\ IsCluster(cluster)
            /\ entries = FirstClusterOf(DirEntries(volume, cluster))
<1>1. CASE ~IsCluster(cluster)
  BY <1>1 DEF read_dir_entries
<1>2. CASE IsCluster(cluster) /\ outcome = "ok"
  BY <1>2 DEF read_dir_entries
<1>3. CASE IsCluster(cluster) /\ outcome = "timeout"
  BY <1>3 DEF read_dir_entries
<1> QED  BY <1>1, <1>2, <1>3 DEF Outcomes

\* The call after a read.
IsAfter(c, before, outcome) ==
  /\ DOMAIN c = CallFields
  /\ c.op = before.op /\ c.path = before.path /\ c.sections = before.sections /\ c.i = before.i
  /\ c.cluster = before.cluster /\ c.size = before.size /\ c.out = before.out /\ c.room = before.room
  /\ c.failed = (before.failed \/ outcome # "ok")
  /\ c.unread = (before.unread \/ outcome = "unread")

LEMMA AfterIs ==
  ASSUME DOMAIN call = CallFields, NEW outcome
  PROVE  IsAfter(After(outcome), call, outcome)
BY DEF After, IsAfter, CallFields

\* A hit in a list of a directory, whatever the names, is an item of the directory.
LEMMA HitIs ==
  ASSUME Consistent(volume), NoneDeleted, NEW d \in DOMAIN volume.dirs, NEW entries,
         entries = FirstClusterOf(DirEntries(volume, d)), NEW name, NEW onlyDirs, NEW hit,
         hit = Lookup(get_entries_in_dir(entries), name, onlyDirs), hit # <<>>
  PROVE  \E item \in ToSet(volume.dirs[d]) :
           There(item) /\ IsEntryFor(hit[1], item) /\ (onlyDirs => item.dir)
<1>1. PICK list, items : list = get_entries_in_dir(entries) /\ items = volume.dirs[d]
  OBVIOUS
<1>2. AreItems(items)
  BY <1>1, Stored
<1>3. FromItems(list, items)
  BY <1>1, <1>2, SomeRead
<1>4. IsText(list)
  BY <1>3 DEF FromItems
<1>5. PICK j \in 1 .. Len(list) : hit = <<list[j]>> /\ Matches(list[j], name, onlyDirs)
  BY <1>1, <1>4, LookupIs
<1>6. PICK item \in ToSet(items) : ~item.label /\ IsEntryFor(list[j], item)
  BY <1>3 DEF FromItems
<1>7. There(item)
  BY <1>1, <1>6 DEF NoneDeleted, There
<1>8. hit[1] = list[j]
  BY <1>5
<1>9. onlyDirs => item.dir
  BY <1>5, <1>6 DEF Matches, IsEntryFor
<1> QED  BY <1>1, <1>6, <1>7, <1>8, <1>9

\* A read that has not failed, of the directory that the path so far leads to.
LEMMA CleanRead ==
  ASSUME Consistent(volume), ShortNamed, NoneDeleted, NEW d \in DOMAIN volume.dirs
  PROVE  /\ AreItems(volume.dirs[d])
         /\ ShowsBeginning(get_entries_in_dir(FirstClusterOf(DirEntries(volume, d))), d)
<1>1. AreItems(volume.dirs[d])
  BY Stored
<1>2. ASSUME NEW item \in ToSet(volume.dirs[d]) PROVE ShortItem(item)
  BY <1>1, <1>2 DEF AreItems, ShortItem, ShortNamed, NoneDeleted
<1> QED  BY <1>1, <1>2, DirectoryRead

\* What the last name of a path leads to.
LEMMA LastName ==
  ASSUME NEW names, IsText(names), names # <<>>, NEW d,
         DirectoryAt(volume, SubSeq(names, 1, Len(names) - 1)) = {d}
  PROVE  /\ DirectoryAt(volume, names) = Descend({d}, names[Len(names)])
         /\ FilesAt(names) = {item \in Children(volume, d, names[Len(names)]) : ~item.dir}
<1>1. PICK n, name, part : n = Len(names) /\ name = names[n] /\ part = SubSeq(names, 1, n - 1)
  OBVIOUS
<1>2. n \in Nat /\ n # 0
  BY <1>1, TextIs, EmptyText
<1>3. n - 1 \in 0 .. Len(names) /\ n - 1 < Len(names) /\ (n - 1) + 1 = n /\ n \in 0 .. Len(names)
  BY <1>1, <1>2
<1>4. IsText(part) /\ SubSeq(names, 1, n) = Append(part, name) /\ SubSeq(names, 1, n) = names
  <2>1. IsText(part)
    BY <1>1, <1>3, Beginnings
  <2>2. SubSeq(names, 1, (n - 1) + 1) = Append(part, names[(n - 1) + 1])
    BY <1>1, <1>3, Beginnings
  <2>3. SubSeq(names, 1, n) = names
    BY <1>1, <1>3, Beginnings
  <2> QED  BY <1>1, <1>3, <2>1, <2>2, <2>3
<1>5. DirectoryAt(volume, Append(part, name)) = Descend(DirectoryAt(volume, part), name)
  BY <1>4, DirectoryAtNext
<1>6. Front(names) = part /\ Last(names) = name
  BY <1>1 DEF Front, Last
<1>7. DirectoryAt(volume, part) = {d}
  BY <1>1
<1>8. FilesAt(names) = {item \in Children(volume, d, name) : ~item.dir}
  BY <1>6, <1>7 DEF FilesAt
<1> QED  BY <1>1, <1>4, <1>5, <1>7, <1>8

\* When a section inside a path leads nowhere, so does the path.
LEMMA InsideLost ==
  ASSUME NEW names, IsText(names), NEW k \in 0 .. Len(names) - 1,
         DirectoryAt(volume, SubSeq(names, 1, k)) = {}
  PROVE  DirectoryAt(volume, names) = {} /\ FilesAt(names) = {}
<1>1. PICK n : n = Len(names) /\ n \in Nat
  BY TextIs
<1>2. k \in 0 .. n /\ n - 1 \in 0 .. n /\ n # 0
  BY <1>1
<1>3. DirectoryAt(volume, names) = {}
  BY <1>1, <1>2, NowhereFrom
<1>4. PICK part : part = SubSeq(names, 1, n - 1)
  OBVIOUS
<1>5. IsText(part) /\ Len(part) = n - 1 /\ \A i \in 1 .. n - 1 : part[i] = names[i]
  BY <1>1, <1>2, <1>4, Beginnings
<1>6. SubSeq(part, 1, k) = SubSeq(names, 1, k)
  <2>1. PICK a, b : a = SubSeq(part, 1, k) /\ b = SubSeq(names, 1, k)
    OBVIOUS
  <2>2. k \in 0 .. Len(part)
    BY <1>1, <1>5
  <2>3. IsText(a) /\ Len(a) = k /\ \A i \in 1 .. k : a[i] = part[i]
    BY <1>5, <2>1, <2>2, Beginnings
  <2>4. IsText(b) /\ Len(b) = k /\ \A i \in 1 .. k : b[i] = names[i]
    BY <1>1, <1>2, <2>1, Beginnings
  <2>5. \A i \in 1 .. k : a[i] = b[i]
    BY <1>1, <1>5, <2>3, <2>4
  <2>6. a = b
    BY <2>3, <2>4, <2>5, TextsEqual
  <2> QED  BY <2>1, <2>6
<1>7. DirectoryAt(volume, part) = {}
  <2>1. k \in 0 .. Len(part)
    BY <1>1, <1>5
  <2>2. DirectoryAt(volume, SubSeq(part, 1, k)) = {}
    BY <1>6
  <2> QED  BY <1>5, <2>1, <2>2, NowhereFrom
<1>8. Front(names) = part
  BY <1>1, <1>4 DEF Front
<1> QED  BY <1>3, <1>7, <1>8 DEF FilesAt

\* Results of ls and of read.
IsShown(s, op, path, clean, result) ==
  s.op = op /\ s.path = path /\ s.clean = clean /\ s.result = result

LEMMA GoodLs ==
  ASSUME NEW s, NEW path, NEW result, NEW clean \in BOOLEAN, IsShown(s, "ls", path, clean, result),
         NEW names, names = IF Len(path) = 1 THEN <<>> ELSE Names(Front(path)), IsText(names),
         Consistent(volume),
         ShortNamed /\ NoneDeleted /\ clean =>
           \/ result = <<>> /\ (OneCluster => DirectoryAt(volume, names) = {})
           \/ \E d \in DOMAIN volume.dirs : DirectoryAt(volume, names) = {d} /\ ShowsBeginning(result, d)
  PROVE  LsGood(s) /\ ReadGood(s)
<1>1. ReadGood(s)
  BY DEF IsShown, ReadGood
<1>2. PICK at, listing, wanted :
        /\ at = DirectoryAt(volume, names)
        /\ listing = [i \in DOMAIN result |-> <<result[i].Name, result[i].IsDirectory>>]
        /\ wanted = IF at = {} THEN <<>>
                    ELSE [i \in DOMAIN Visible(volume.dirs[CHOOSE c \in at : TRUE]) |->
                            <<ItemName(Visible(volume.dirs[CHOOSE c \in at : TRUE])[i]),
                              Visible(volume.dirs[CHOOSE c \in at : TRUE])[i].dir>>]
  OBVIOUS
<1>3. ASSUME ShortNamed, NoneDeleted, clean
      PROVE  IsPrefix(listing, wanted) /\ (OneCluster => listing = wanted)
  <2>1. CASE result = <<>> /\ (OneCluster => at = {})
    <3>1. DOMAIN result = {} /\ DOMAIN result = 1 .. 0
      BY <2>1
    <3>2. IsText(listing) /\ Len(listing) = 0
      <4>1. DOMAIN listing = 1 .. 0 /\ listing = [i \in 1 .. 0 |-> listing[i]]
        BY <1>2, <3>1
      <4> QED  BY <4>1, FunctionIsText
    <3>3. IsText(wanted)
      <4>1. CASE at = {}
        BY <1>2, <4>1, EmptyText
      <4>2. CASE at # {}
        <5>1. PICK d : d = CHOOSE c \in at : TRUE
          OBVIOUS
        <5>2. d \in DOMAIN volume.dirs
          <6>1. d \in at
            BY <4>2, <5>1
          <6> QED  BY <1>2, <6>1, DirectoriesAt
        <5>3. PICK list : list = Visible(volume.dirs[d])
          OBVIOUS
        <5>4. IsText(list) /\ DOMAIN list = 1 .. Len(list) /\ Len(list) \in Nat
          BY <5>2, <5>3, Stored, VisibleIs, TextIs
        <5>5. wanted = [i \in DOMAIN list |-> <<ItemName(list[i]), list[i].dir>>]
          BY <1>2, <4>2, <5>1, <5>3
        <5>6. DOMAIN wanted = 1 .. Len(list) /\ wanted = [i \in 1 .. Len(list) |-> wanted[i]]
          BY <5>4, <5>5
        <5> QED  BY <5>4, <5>6, FunctionIsText
      <4> QED  BY <4>1, <4>2
    <3>4. IsPrefix(listing, wanted)
      <4>1. 0 \in 0 .. Len(listing) /\ 0 \in 0 .. Len(wanted) /\ Len(wanted) \in Nat
        BY <3>2, <3>3, TextIs
      <4>2. PICK a, b : a = SubSeq(listing, 1, 0) /\ b = SubSeq(wanted, 1, 0)
        OBVIOUS
      <4>3. IsText(a) /\ Len(a) = 0
        BY <3>2, <4>1, <4>2, Beginnings
      <4>4. IsText(b) /\ Len(b) = 0
        BY <3>3, <4>1, <4>2, Beginnings
      <4>5. a = b
        BY <4>3, <4>4, EmptyText
      <4> QED  BY <3>2, <4>1, <4>2, <4>5 DEF IsPrefix
    <3>5. OneCluster => listing = wanted
      BY <1>2, <2>1, <3>2, EmptyText
    <3> QED  BY <3>4, <3>5
  <2>2. CASE \E d \in DOMAIN volume.dirs : at = {d} /\ ShowsBeginning(result, d)
    <3>1. PICK d \in DOMAIN volume.dirs : at = {d} /\ ShowsBeginning(result, d)
      BY <2>2
    <3>2. PICK list : list = Visible(volume.dirs[d])
      OBVIOUS
    <3>3. IsText(list) /\ DOMAIN list = 1 .. Len(list) /\ Len(list) \in Nat
      BY <3>2, Stored, VisibleIs, TextIs
    <3>4. wanted = [i \in DOMAIN list |-> <<ItemName(list[i]), list[i].dir>>]
      <4>1. (CHOOSE c \in at : TRUE) = d
        BY <3>1
      <4> QED  BY <1>2, <3>1, <3>2, <4>1
    <3>5. PICK part : /\ Lists(result, part) /\ Begins(part, list)
                      /\ Len(DirEntries(volume, d)) <= DIR_ENTRIES => part = list
      BY <3>1, <3>2 DEF ShowsBeginning
    <3>6. PICK m : m = Len(part) /\ m \in Nat /\ m <= Len(list) /\ Len(result) = m /\ DOMAIN result = 1 .. m
      BY <3>5, TextIs DEF Lists, Begins
    <3>7. IsText(wanted) /\ Len(wanted) = Len(list)
      <4>1. DOMAIN wanted = 1 .. Len(list) /\ wanted = [i \in 1 .. Len(list) |-> wanted[i]]
        BY <3>3, <3>4
      <4> QED  BY <3>3, <4>1, FunctionIsText
    <3>8. IsText(listing) /\ Len(listing) = m
      <4>1. DOMAIN listing = 1 .. m /\ listing = [i \in 1 .. m |-> listing[i]]
        BY <1>2, <3>6
      <4> QED  BY <3>6, <4>1, FunctionIsText
    <3>9. ASSUME NEW i \in 1 .. m PROVE listing[i] = wanted[i]
      <4>1. i \in 1 .. Len(list) /\ i \in DOMAIN result /\ i \in DOMAIN list
        BY <3>3, <3>6
      <4>2. PICK e, item : e = result[i] /\ item = list[i]
        OBVIOUS
      <4>3. e = EntryFor(item)
        BY <3>5, <3>6, <4>2 DEF Lists, Begins
      <4>4. e.Name = ItemName(item) /\ e.IsDirectory = item.dir
        BY <4>3 DEF EntryFor
      <4>5. listing[i] = <<e.Name, e.IsDirectory>> /\ wanted[i] = <<ItemName(item), item.dir>>
        BY <1>2, <3>4, <4>1, <4>2
      <4> QED  BY <4>4, <4>5
    <3>10. IsPrefix(listing, wanted)
      <4>1. m \in 0 .. Len(listing) /\ m \in 0 .. Len(wanted)
        BY <3>6, <3>7, <3>8
      <4>2. PICK a, b : a = SubSeq(listing, 1, m) /\ b = SubSeq(wanted, 1, m)
        OBVIOUS
      <4>3. IsText(a) /\ Len(a) = m /\ \A i \in 1 .. m : a[i] = listing[i]
        BY <3>8, <4>1, <4>2, Beginnings
      <4>4. IsText(b) /\ Len(b) = m /\ \A i \in 1 .. m : b[i] = wanted[i]
        BY <3>7, <4>1, <4>2, Beginnings
      <4>5. a = b
        BY <3>9, <4>3, <4>4, TextsEqual
      <4> QED  BY <3>6, <3>7, <3>8, <4>2, <4>5 DEF IsPrefix
    <3>11. OneCluster => listing = wanted
      <4>1. ASSUME OneCluster PROVE m = Len(list)
        BY <3>5, <3>6, <4>1 DEF OneCluster
      <4> QED  BY <3>7, <3>8, <3>9, <4>1, TextsEqual
    <3> QED  BY <3>10, <3>11
  <2> QED  BY <1>2, <1>3, <2>1, <2>2
<1>4. LsGood(s)
  BY <1>2, <1>3 DEF LsGood, IsShown
<1> QED  BY <1>1, <1>4

LEMMA GoodNotFound ==
  ASSUME NEW s, NEW path, NEW clean \in BOOLEAN, IsShown(s, "read", path, clean, NotFound),
         ShortNamed /\ NoneDeleted /\ clean => (FilesAt(Names(path)) = {} \/ ~OneCluster)
  PROVE  LsGood(s) /\ ReadGood(s)
BY DEF IsShown, LsGood, ReadGood

\* Between the calls, and when the kernel is lost.
LEMMA AtRest ==
  ASSUME NEW at \in {"boot", "idle", "fault", "deep", "overrun"}, NEW c, CallTyped(c)
  PROVE  CallOK(at, c)
BY DEF CallOK

LEMMA NoCallOK == CallOK("idle", NoCall) /\ Lost("idle", NoCall)
<1>1. IsText(<<>>) /\ Len(<<>>) = 0
  BY EmptyText
<1>2. PICK c : c = NoCall
  OBVIOUS
<1>3. DOMAIN c = CallFields
  BY <1>2 DEF NoCall, CallFields
<1>4. PICK empty : empty = <<>>
  OBVIOUS
<1>5. c.sections = empty /\ c.i = 0 /\ c.failed = FALSE /\ c.unread = FALSE
  BY <1>2, <1>4 DEF NoCall
<1>6. IsText(empty) /\ Len(empty) = 0
  BY <1>1, <1>4
<1>7. CallTyped(c)
  <2>1. IsText(c.sections) /\ c.i \in Nat /\ c.i <= Len(c.sections)
    BY <1>5, <1>6
  <2>2. c.failed \in BOOLEAN /\ c.unread \in BOOLEAN /\ (c.unread => c.failed)
    BY <1>5, Zenon
  <2> QED  BY <1>3, <2>1, <2>2 DEF CallTyped
<1> QED  BY <1>2, <1>7, AtRest DEF Lost

LEMMA Returns ==
  ASSUME NEW c, NEW result, Return(c, result), c.failed \in BOOLEAN
  PROVE  /\ pc' = "idle" /\ call' = NoCall
         /\ IsShown(shown', c.op, c.path, ~c.failed, result)
BY DEF Return, IsShown

\* A call that has found nothing.
LEMMA NotThere ==
  ASSUME IInv, Consistent(volume), NEW c, NEW path, NEW names, IsText(names), c.path = path,
         c.op \in {"ls", "read"}, names = Wanted(c), c.failed \in BOOLEAN, Kept,
         Return(c, IF c.op = "ls" THEN <<>> ELSE NotFound),
         Clean(c) /\ OneCluster =>
           IF c.op = "ls" THEN DirectoryAt(volume, names) = {} ELSE FilesAt(names) = {}
  PROVE  IInv'
<1>1. PICK result, s, clean :
        /\ result = (IF c.op = "ls" THEN <<>> ELSE NotFound) /\ s = shown' /\ clean = ~c.failed
  OBVIOUS
<1>2. clean \in BOOLEAN
  BY <1>1
<1>3. pc' = "idle" /\ call' = NoCall /\ IsShown(s, c.op, path, clean, result)
  BY <1>1, Returns
<1>4. LsGood(s) /\ ReadGood(s)
  <2>1. CASE c.op = "ls"
    <3>1. IsShown(s, "ls", path, clean, result) /\ result = <<>>
      BY <1>1, <1>3, <2>1
    <3>2. names = IF Len(path) = 1 THEN <<>> ELSE Names(Front(path))
      BY <2>1 DEF Wanted
    <3>3. ShortNamed /\ NoneDeleted /\ clean => (OneCluster => DirectoryAt(volume, names) = {})
      BY <1>1, <2>1 DEF Clean
    <3> QED  BY <1>2, <3>1, <3>2, <3>3, GoodLs
  <2>2. CASE c.op = "read"
    <3>1. IsShown(s, "read", path, clean, NotFound)
      BY <1>1, <1>3, <2>2
    <3>2. names = Names(path)
      BY <2>2 DEF Wanted
    <3>3. ShortNamed /\ NoneDeleted /\ clean => (FilesAt(Names(path)) = {} \/ ~OneCluster)
      BY <1>1, <2>2, <3>2 DEF Clean
    <3> QED  BY <1>2, <3>1, <3>3, GoodNotFound
  <2> QED  BY <2>1, <2>2
<1>5. "idle" \in Places
  BY DEF Places
<1>6. shown' = s
  BY <1>1
<1> QED  BY <1>3, <1>4, <1>5, <1>6, NoCallOK, StepKeeps

\* Volumes are consistent.
LEMMA InvFacts ==
  ASSUME IInv
  PROVE  /\ Consistent(volume) /\ CallOK(pc, call) /\ LsGood(shown) /\ ReadGood(shown)
         /\ IsFiniteSet(DOMAIN volume.fat)
<1>1. volume \in Volumes
  BY DEF IInv
<1>2. Consistent(volume)
  BY <1>1, FilesAssumption
<1> QED  BY <1>2, LsGoodIs, ReadGoodIs DEF IInv, Consistent

\* What a section is looked up in, when nothing has failed.
LEMMA CleanWalk ==
  ASSUME IInv, pc = "walk", NEW outcome \in Outcomes, NEW c, IsAfter(c, call, outcome), Clean(c),
         NEW entries \in read_dir_entries(call.cluster, outcome), NEW name, NEW onlyDirs \in BOOLEAN,
         NEW hit, hit = Lookup(get_entries_in_dir(entries), name, onlyDirs)
  PROVE  /\ Clean(call) /\ call.cluster \in DOMAIN volume.dirs
         /\ DirectoryAt(volume, SubSeq(call.sections, 1, call.i - 1)) = {call.cluster}
         /\ Finds(hit, call.cluster, name, onlyDirs)
<1>1. PICK d : d = call.cluster
  OBVIOUS
<1>2. ~c.failed /\ outcome = "ok" /\ ~call.failed
  <2>1. c.failed = (call.failed \/ outcome # "ok")
    BY DEF IsAfter
  <2>2. ~c.failed
    BY DEF Clean
  <2> QED  BY <2>1, <2>2
<1>3. Clean(call)
  BY <1>2 DEF Clean
<1>4. Consistent(volume) /\ CallOK(pc, call)
  BY InvFacts
<1>5. DirectoryAt(volume, SubSeq(call.sections, 1, call.i - 1)) = {d}
  BY <1>1, <1>3, <1>4 DEF CallOK
<1>6. d \in DOMAIN volume.dirs
  <2>1. PICK part : part = SubSeq(call.sections, 1, call.i - 1)
    OBVIOUS
  <2>2. IsText(part)
    <3>1. IsText(call.sections) /\ call.i \in Nat /\ call.i <= Len(call.sections) /\ call.i # 0
      BY <1>4 DEF CallOK, CallTyped
    <3>2. call.i - 1 \in 0 .. Len(call.sections)
      BY <3>1, TextIs
    <3> QED  BY <2>1, <3>1, <3>2, Beginnings
  <2>3. DirectoryAt(volume, part) \in SUBSET DOMAIN volume.dirs
    BY <1>4, <2>2, DirectoriesAt
  <2> QED  BY <1>5, <2>1, <2>3
<1>7. IsCluster(d)
  BY <1>4, <1>6, Stored
<1>8. entries = FirstClusterOf(DirEntries(volume, d))
  BY <1>1, <1>2, <1>7, ReadIs
<1>9. PICK list : list = get_entries_in_dir(entries)
  OBVIOUS
<1>10. AreItems(volume.dirs[d]) /\ ShowsBeginning(list, d)
  BY <1>4, <1>6, <1>8, <1>9, CleanRead DEF Clean
<1>11. Finds(hit, d, name, onlyDirs)
  BY <1>9, <1>10, FoundInDirectory
<1> QED  BY <1>1, <1>3, <1>5, <1>6, <1>11

\* What has been found when a buffer has been written, at least by zeros.
LEMMA TriedWalk ==
  ASSUME IInv, pc = "walk", NEW outcome \in Outcomes, NEW c, IsAfter(c, call, outcome), ~c.unread,
         NoneDeleted,
         NEW entries \in read_dir_entries(call.cluster, outcome), NEW name, NEW onlyDirs,
         NEW hit, hit = Lookup(get_entries_in_dir(entries), name, onlyDirs), hit # <<>>
  PROVE  \E d \in DOMAIN volume.dirs : \E item \in ToSet(volume.dirs[d]) :
           There(item) /\ IsEntryFor(hit[1], item) /\ (onlyDirs => item.dir)
<1>1. PICK d : d = call.cluster
  OBVIOUS
<1>2. outcome # "unread" /\ ~call.unread
  <2>1. c.unread = (call.unread \/ outcome = "unread")
    BY DEF IsAfter
  <2> QED  BY <2>1
<1>3. Consistent(volume) /\ CallOK(pc, call)
  BY InvFacts
<1>4. entries # <<>>
  BY NothingRead
<1>5. IsCluster(d) /\ entries = FirstClusterOf(DirEntries(volume, d))
  BY <1>1, <1>2, <1>4, ReadIs
<1>6. d \in DOMAIN volume.dirs
  <2>1. d \in {0} \cup DOMAIN volume.dirs
    BY <1>1, <1>2, <1>3 DEF CallOK
  <2>2. d # 0
    BY <1>5 DEF IsCluster
  <2> QED  BY <2>1, <2>2
<1>7. PICK item \in ToSet(volume.dirs[d]) :
        There(item) /\ IsEntryFor(hit[1], item) /\ (onlyDirs => item.dir)
  BY <1>3, <1>5, <1>6, HitIs
<1> QED  BY <1>6, <1>7

LEMMA OneSectionMore ==
  ASSUME NEW names, IsText(names), NEW i \in 1 .. Len(names)
  PROVE  /\ IsText(SubSeq(names, 1, i - 1))
         /\ SubSeq(names, 1, i) = Append(SubSeq(names, 1, i - 1), names[i])
<1>1. PICK m : m = i - 1 /\ m \in 0 .. Len(names) /\ m < Len(names) /\ m + 1 = i
  BY TextIs
<1>2. IsText(SubSeq(names, 1, m)) /\ SubSeq(names, 1, m + 1) = Append(SubSeq(names, 1, m), names[m + 1])
  BY <1>1, Beginnings
<1> QED  BY <1>1, <1>2

\* A section inside a path.
SectionStep(c, hit) ==
  \/ /\ hit = <<>>
     /\ Return(c, IF call.op = "ls" THEN <<>> ELSE NotFound)
  \/ /\ hit # <<>>
     /\ call' = [c EXCEPT !.i = @ + 1, !.cluster = hit[1].FirstCluster]
     /\ UNCHANGED <<pc, shown>>

LEMMA WalkSectionKeeps ==
  ASSUME IInv, WalkSection
  PROVE  IInv'
<1>1. pc = "walk" /\ call.i < Len(call.sections) /\ Kept
  BY DEF WalkSection, Kept
<1>2. Consistent(volume) /\ CallOK("walk", call) /\ LsGood(shown) /\ ReadGood(shown)
  BY <1>1, InvFacts
<1>3. PICK names, i, name : names = call.sections /\ i = call.i /\ name = names[i]
  OBVIOUS
<1>4. /\ CallTyped(call) /\ IsText(names) /\ i \in 1 .. Len(names) /\ i < Len(names)
      /\ names = Wanted(call) /\ call.op \in {"ls", "read"} /\ Len(names) \in Nat
  <2>1. CallTyped(call) /\ call.op \in {"ls", "read"} /\ i # 0 /\ names = Wanted(call)
    BY <1>2, <1>3 DEF CallOK
  <2>2. IsText(names) /\ i \in Nat /\ i <= Len(names) /\ i < Len(names)
    BY <1>1, <1>3, <2>1 DEF CallTyped
  <2>3. Len(names) \in Nat
    BY <2>2, TextIs
  <2> QED  BY <2>1, <2>2, <2>3
<1>5. PICK outcome, entries, c, hit :
        /\ outcome \in Outcomes /\ entries \in read_dir_entries(call.cluster, outcome)
        /\ c = After(outcome) /\ hit = Lookup(get_entries_in_dir(entries), name, TRUE)
        /\ SectionStep(c, hit)
  <2>1. \E outcome \in Outcomes : \E entries \in read_dir_entries(call.cluster, outcome) :
          SectionStep(After(outcome), Lookup(get_entries_in_dir(entries), call.sections[call.i], TRUE))
    BY DEF WalkSection, SectionStep
  <2> QED  BY <1>3, <2>1
<1>6. IsAfter(c, call, outcome)
  BY <1>4, <1>5, AfterIs DEF CallTyped
<1>7. Wanted(c) = names /\ c.op = call.op /\ c.path = call.path
  BY <1>4, <1>6 DEF IsAfter, Wanted
<1>8. c.failed \in BOOLEAN /\ c.unread \in BOOLEAN /\ (c.unread => c.failed)
  BY <1>4, <1>6 DEF IsAfter, CallTyped
<1>9. /\ IsText(SubSeq(names, 1, i - 1))
      /\ SubSeq(names, 1, i) = Append(SubSeq(names, 1, i - 1), name)
  BY <1>3, <1>4, OneSectionMore
<1>10. PICK d : d = call.cluster
  OBVIOUS
<1>11. ASSUME Clean(c)
       PROVE  /\ d \in DOMAIN volume.dirs /\ Finds(hit, d, name, TRUE)
              /\ DirectoryAt(volume, SubSeq(names, 1, i - 1)) = {d}
  BY <1>1, <1>3, <1>5, <1>6, <1>10, <1>11, CleanWalk
<1>12. CASE hit = <<>>
  <2>1. ASSUME Clean(c), OneCluster PROVE DirectoryAt(volume, names) = {} /\ FilesAt(names) = {}
    <3>1. /\ d \in DOMAIN volume.dirs /\ Finds(hit, d, name, TRUE)
          /\ DirectoryAt(volume, SubSeq(names, 1, i - 1)) = {d}
      BY <1>11, <2>1
    <3>2. \A item \in Children(volume, d, name) : ~item.dir
      BY <1>12, <2>1, <3>1 DEF Finds, OneCluster
    <3>3. DirectoryAt(volume, SubSeq(names, 1, i)) = Descend({d}, name)
      BY <1>9, <3>1, DirectoryAtNext
    <3>4. Descend({d}, name) = {}
      BY <3>2 DEF Descend
    <3>5. i \in 0 .. Len(names) - 1
      BY <1>4
    <3> QED  BY <1>4, <3>3, <3>4, <3>5, InsideLost
  <2>2. Clean(c) /\ OneCluster =>
          IF c.op = "ls" THEN DirectoryAt(volume, names) = {} ELSE FilesAt(names) = {}
    BY <2>1
  <2>3. Return(c, IF c.op = "ls" THEN <<>> ELSE NotFound)
    BY <1>5, <1>7, <1>12 DEF SectionStep
  <2> QED  BY <1>1, <1>2, <1>4, <1>7, <1>8, <2>2, <2>3, NotThere
<1>13. CASE hit # <<>>
  <2>1. PICK to, next : to = hit[1].FirstCluster /\ next = [c EXCEPT !.i = c.i + 1, !.cluster = to]
    OBVIOUS
  <2>2. call' = next /\ pc' = "walk" /\ shown' = shown
    BY <1>1, <1>5, <1>13, <2>1 DEF SectionStep
  <2>3. /\ DOMAIN next = CallFields /\ next.op = call.op /\ next.path = call.path
        /\ next.sections = names /\ next.i = i + 1 /\ next.cluster = to /\ next.out = call.out
        /\ next.failed = c.failed /\ next.unread = c.unread
    BY <1>3, <1>6, <2>1 DEF IsAfter, CallFields
  <2>4. CallTyped(next)
    <3>1. IsText(next.sections) /\ next.i \in Nat /\ next.i <= Len(next.sections)
      BY <1>4, <2>3
    <3> QED  BY <1>8, <2>3, <3>1 DEF CallTyped
  <2>5. ASSUME ~next.unread, NoneDeleted PROVE to \in DOMAIN volume.dirs
    <3>1. PICK a, item : /\ a \in DOMAIN volume.dirs /\ item \in ToSet(volume.dirs[a])
                         /\ There(item) /\ IsEntryFor(hit[1], item) /\ item.dir
      <4>1. ~c.unread
        BY <2>3, <2>5
      <4> QED  BY <1>1, <1>5, <1>6, <1>13, <2>5, <4>1, TriedWalk
    <3>2. item.first \in DOMAIN volume.dirs
      BY <1>2, <3>1, Stored
    <3> QED  BY <2>1, <3>1, <3>2 DEF IsEntryFor
  <2>6. ASSUME Clean(next) PROVE DirectoryAt(volume, SubSeq(names, 1, i)) = {to}
    <3>1. Clean(c)
      BY <2>3, <2>6 DEF Clean
    <3>2. PICK item \in Children(volume, d, name) : hit = <<EntryFor(item)>> /\ item.dir
      BY <1>11, <1>13, <3>1 DEF Finds
    <3>3. to = item.first
      BY <2>1, <3>2 DEF EntryFor
    <3>4. DirectoryAt(volume, Append(SubSeq(names, 1, i - 1), name))
            = IF item.dir THEN {item.first} ELSE {}
      <4>1. PICK part : part = SubSeq(names, 1, i - 1)
        OBVIOUS
      <4>2. IsText(part) /\ d \in DOMAIN volume.dirs /\ DirectoryAt(volume, part) = {d}
        BY <1>9, <1>11, <3>1, <4>1
      <4>3. DirectoryAt(volume, Append(part, name)) = IF item.dir THEN {item.first} ELSE {}
        BY <1>2, <4>2, OneNameOn
      <4> QED  BY <4>1, <4>3
    <3> QED  BY <1>9, <3>2, <3>3, <3>4
  <2>7. CallOK("walk", next)
    <3>1. /\ next.i # 0 /\ next.i - 1 = i /\ next.sections = Wanted(next) /\ next.sections # <<>>
          /\ next.out = <<>>
      <4>1. Wanted(next) = names
        BY <1>4, <2>3 DEF Wanted
      <4>2. names # <<>>
        BY <1>4, EmptyText
      <4>3. next.out = <<>>
        BY <1>2, <2>3 DEF CallOK
      <4> QED  BY <1>4, <2>3, <4>1, <4>2, <4>3
    <3>2. next.op \in {"ls", "read"}
      BY <1>4, <2>3
    <3>3. Clean(next) => DirectoryAt(volume, SubSeq(next.sections, 1, next.i - 1)) = {next.cluster}
      BY <2>3, <2>6, <3>1
    <3>4. ~next.unread /\ NoneDeleted => next.cluster \in {0} \cup DOMAIN volume.dirs
      BY <2>3, <2>5
    <3> QED  BY <2>4, <3>1, <3>2, <3>3, <3>4 DEF CallOK
  <2>8. "walk" \in Places /\ Lost("walk", next)
    BY DEF Places, Lost
  <2> QED  BY <1>1, <1>2, <2>2, <2>7, <2>8, StepKeeps
<1> QED  BY <1>12, <1>13

-----------------------------------------------------------------------------
(* Files                                                                      *)

\* What a consistent volume holds of a file.
FileChain(item, chain) ==
  /\ IsText(chain) /\ Len(chain) \in Nat /\ item.size \in Nat
  /\ Len(chain) = divide_round_up(item.size, CLUSTER_SIZE)
  /\ item.size <= Len(chain) * CLUSTER_SIZE /\ (Len(chain) = 0 => item.size = 0)
  /\ IF IsCluster(item.first) THEN Len(chain) # 0 /\ chain[1] = item.first ELSE Len(chain) = 0
  /\ \A j \in 1 .. Len(chain) :
       /\ chain[j] \in DOMAIN volume.data /\ IsCluster(chain[j])
       /\ IF j < Len(chain) THEN chain[j + 1] = volume.fat[chain[j]]
                            ELSE ~IsCluster(volume.fat[chain[j]])

IsFile(item) ==
  \E d \in DOMAIN volume.dirs : item \in ToSet(volume.dirs[d]) /\ There(item) /\ ~item.dir

LEMMA FileIs ==
  ASSUME Consistent(volume), IsFiniteSet(DOMAIN volume.fat), NEW item, IsFile(item),
         NEW chain, chain = Chain(volume, item.first)
  PROVE  FileChain(item, chain)
<1>1. PICK d \in DOMAIN volume.dirs : item \in ToSet(volume.dirs[d]) /\ There(item) /\ ~item.dir
  BY DEF IsFile
<1>2. FileStored(volume, item) /\ IsItem(item)
  BY <1>1, Stored DEF AreItems
<1>3. /\ ToSet(chain) \subseteq DOMAIN volume.data
      /\ chain # <<>> => ~IsCluster(volume.fat[Last(chain)])
      /\ Len(chain) = divide_round_up(item.size, CLUSTER_SIZE)
  BY <1>2 DEF FileStored
<1>4. item.size \in Nat
  BY <1>2 DEF IsItem
<1>5. PICK q : q = divide_round_up(item.size, CLUSTER_SIZE)
  OBVIOUS
<1>6. q \in Nat /\ item.size <= q * CLUSTER_SIZE /\ (q = 0 => item.size = 0)
  BY <1>4, <1>5, RoundUp
<1>7. CASE IsCluster(item.first)
  <2>1. IsChain(chain, item.first)
    BY <1>7, ChainIs
  <2>2. IsText(chain) /\ Len(chain) \in Nat /\ DOMAIN chain = 1 .. Len(chain) /\ chain # <<>>
    BY <2>1, TextIs, EmptyText DEF IsChain
  <2>3. ASSUME NEW j \in 1 .. Len(chain)
        PROVE  /\ chain[j] \in DOMAIN volume.data /\ IsCluster(chain[j])
               /\ IF j < Len(chain) THEN chain[j + 1] = volume.fat[chain[j]]
                                    ELSE ~IsCluster(volume.fat[chain[j]])
    <3>1. chain[j] \in DOMAIN volume.data
      BY <1>3, <2>2 DEF ToSet
    <3>2. IsCluster(chain[j]) /\ (j < Len(chain) => chain[j + 1] = volume.fat[chain[j]])
      BY <2>1 DEF IsChain
    <3>3. ~(j < Len(chain)) => j = Len(chain)
      BY <2>2
    <3>4. ~IsCluster(volume.fat[chain[Len(chain)]])
      BY <1>3, <2>2 DEF Last
    <3> QED  BY <3>1, <3>2, <3>3, <3>4
  <2>4. Len(chain) # 0 /\ chain[1] = item.first
    BY <2>1 DEF IsChain
  <2> QED  BY <1>3, <1>4, <1>5, <1>6, <1>7, <2>2, <2>3, <2>4 DEF FileChain
<1>8. CASE ~IsCluster(item.first)
  <2>1. chain = <<>> /\ IsText(chain) /\ Len(chain) = 0
    BY <1>8, ChainIs, EmptyText
  <2>2. \A j \in 1 .. Len(chain) : FALSE
    BY <2>1
  <2> QED  BY <1>3, <1>4, <1>5, <1>6, <1>8, <2>1, <2>2 DEF FileChain
<1> QED  BY <1>7, <1>8

\* The bytes of the volume.
Bytes == UNION {Range(volume.data[c]) : c \in DOMAIN volume.data}

LEMMA DataIs ==
  ASSUME Consistent(volume), NEW item, NEW chain, chain = Chain(volume, item.first),
         FileChain(item, chain), NEW data, data = DataOf(item)
  PROVE  /\ IsText(data) /\ Len(data) = Len(chain) /\ data \in Seq(Seq(Bytes))
         /\ \A j \in 1 .. Len(chain) : data[j] = volume.data[chain[j]] /\ Len(data[j]) = CLUSTER_SIZE
<1>1. PICK n : n = Len(chain) /\ n \in Nat /\ DOMAIN chain = 1 .. n
  BY TextIs DEF FileChain
<1>2. data = [i \in 1 .. n |-> volume.data[chain[i]]]
  BY <1>1 DEF DataOf
<1>3. IsText(data) /\ Len(data) = n
  <2>1. DOMAIN data = 1 .. n /\ data = [i \in 1 .. n |-> data[i]]
    BY <1>2
  <2> QED  BY <1>1, <2>1, FunctionIsText
<1>4. ASSUME NEW j \in 1 .. n
      PROVE  data[j] = volume.data[chain[j]] /\ data[j] \in Seq(Bytes) /\ Len(data[j]) = CLUSTER_SIZE
  <2>1. PICK c : c = chain[j] /\ c \in DOMAIN volume.data
    BY <1>1 DEF FileChain
  <2>2. data[j] = volume.data[c]
    BY <1>2, <2>1
  <2>3. IsText(volume.data[c]) /\ Len(volume.data[c]) = CLUSTER_SIZE
    BY <2>1 DEF Consistent
  <2>4. volume.data[c] \in Seq(Bytes)
    <3>1. PICK t, m : t = volume.data[c] /\ m = Len(t)
      OBVIOUS
    <3>2. DOMAIN t = 1 .. m
      BY <2>3, <3>1, TextIs
    <3>3. \A b \in 1 .. m : t[b] \in Bytes
      BY <2>1, <3>1, <3>2 DEF Bytes, Range
    <3> QED  BY <2>3, <3>1, <3>3, TextIs
  <2> QED  BY <2>1, <2>2, <2>3, <2>4
<1>5. data \in Seq(Seq(Bytes))
  <2>1. PICK Y : Y = Seq(Bytes)
    OBVIOUS
  <2>2. \A j \in 1 .. Len(data) : data[j] \in Y
    BY <1>3, <1>4, <2>1
  <2> QED  BY <1>3, <2>1, <2>2, TextIs
<1> QED  BY <1>1, <1>3, <1>4, <1>5

\* Nothing has been copied.
LEMMA NothingCopied ==
  ASSUME NEW item, IsText(DataOf(item))
  PROVE  FlattenSeq(SubSeq(DataOf(item), 1, 0)) = <<>>
<1>1. PICK data, none : data = DataOf(item) /\ none = SubSeq(data, 1, 0)
  OBVIOUS
<1>2. none = <<>>
  <2>1. 0 \in 0 .. Len(data)
    BY <1>1, TextIs
  <2> QED  BY <1>1, <2>1, Beginnings, EmptyText
<1>3. FlattenSeq(<<>>) = Chaining!FlattenSeq(<<>>)
  BY DEF FlattenSeq, Chaining!FlattenSeq
<1> QED  BY <1>1, <1>2, <1>3, Chaining!FlattenEmpty

-----------------------------------------------------------------------------
(* The last section of a path                                                 *)

\* What has been found is of the kind that is looked for.
IsWanted(hit) == hit # <<>> /\ (hit[1].IsDirectory <=> call.op = "ls")

LastStep(c, hit) ==
  \/ ~IsWanted(hit) /\ Return(c, IF call.op = "ls" THEN <<>> ELSE NotFound)
  \/ /\ IsWanted(hit)
     /\ call' = [c EXCEPT !.cluster = hit[1].FirstCluster, !.size = hit[1].Size,
                   !.room = IF call.op = "ls" THEN 0 ELSE read_cluster_chain_room(hit[1].Size)]
     /\ pc' = IF call.op = "ls" THEN "list"
              ELSE IF IsCluster(hit[1].FirstCluster) THEN "chain" ELSE "fault"
     /\ UNCHANGED shown

\* What a call has found that reads on in the directory d, or in none.
LastFound(c, hit, names, d) ==
  /\ d \in DOMAIN volume.dirs /\ DirectoryAt(volume, names) = Descend({d}, Last(names))
  /\ FilesAt(names) = {item \in Children(volume, d, Last(names)) : ~item.dir}
  /\ Finds(hit, d, Last(names), FALSE)

\* The item of a hit is the only one of its name.
LEMMA OnlyChild ==
  ASSUME Consistent(volume), NEW c, NEW hit, NEW names, NEW d, LastFound(c, hit, names, d)
  PROVE  IF hit = <<>>
         THEN OneCluster => DirectoryAt(volume, names) = {} /\ FilesAt(names) = {}
         ELSE \E item \in ToSet(volume.dirs[d]) :
                /\ There(item) /\ hit = <<EntryFor(item)>>
                /\ DirectoryAt(volume, names) = IF item.dir THEN {item.first} ELSE {}
                /\ FilesAt(names) = IF item.dir THEN {} ELSE {item}
<1>1. PICK name : name = Last(names)
  OBVIOUS
<1>2. AreItems(volume.dirs[d]) /\ Unique(volume.dirs[d])
  BY Stored DEF LastFound
<1>3. CASE hit = <<>>
  <2>1. ASSUME OneCluster PROVE Children(volume, d, name) = {}
    BY <1>1, <1>3, <2>1 DEF LastFound, Finds, OneCluster
  <2>2. ASSUME OneCluster PROVE DirectoryAt(volume, names) = {} /\ FilesAt(names) = {}
    BY <1>1, <2>1, <2>2 DEF LastFound, Descend
  <2> QED  BY <1>3, <2>2
<1>4. CASE hit # <<>>
  <2>1. PICK item \in Children(volume, d, name) : hit = <<EntryFor(item)>>
    BY <1>1, <1>4 DEF LastFound, Finds
  <2>2. Children(volume, d, name) = {item}
    BY <1>2, ChildrenAre
  <2>3. item \in ToSet(volume.dirs[d]) /\ There(item)
    BY <1>2, ChildrenAre
  <2>4. DirectoryAt(volume, names) = IF item.dir THEN {item.first} ELSE {}
    BY <1>1, <2>2 DEF LastFound, Descend
  <2>5. FilesAt(names) = IF item.dir THEN {} ELSE {item}
    BY <1>1, <2>2 DEF LastFound
  <2> QED  BY <1>4, <2>1, <2>3, <2>4, <2>5
<1> QED  BY <1>3, <1>4

\* Reading begins: nothing is in the buffer.
LEMMA CopyBegins ==
  ASSUME Consistent(volume), IsFiniteSet(DOMAIN volume.fat), NEW c, NEW item, IsFile(item),
         IsCluster(item.first), c.cluster = item.first, c.size = item.size,
         c.room = read_cluster_chain_room(item.size), c.out = <<>>,
         Clean(c) => item \in FilesAt(Wanted(c))
  PROVE  Copying(c)
<1>1. PICK chain, n : chain = Chain(volume, item.first) /\ n = Len(chain)
  OBVIOUS
<1>2. FileChain(item, chain)
  BY <1>1, FileIs
<1>3. n \in Nat /\ n # 0 /\ chain[1] = item.first /\ n = divide_round_up(item.size, CLUSTER_SIZE)
  BY <1>1, <1>2 DEF FileChain
<1>4. c.room = n * CLUSTER_SIZE + 1
  BY <1>3 DEF read_cluster_chain_room
<1>5. IsText(c.out) /\ Len(c.out) = 0 * CLUSTER_SIZE
  BY EmptyText, Fat32Assumption
<1>6. c.out = FlattenSeq(SubSeq(DataOf(item), 1, 0))
  <2>1. IsText(DataOf(item))
    BY <1>1, <1>2, DataIs
  <2> QED  BY <2>1, NothingCopied
<1>7. 0 \in 0 .. Len(Chain(volume, item.first)) - 1 /\ chain[0 + 1] = item.first
  BY <1>1, <1>3
<1>8. Copied(c, item, 0)
  BY <1>1, <1>4, <1>5, <1>6, <1>7 DEF Copied
<1>9. PICK d \in DOMAIN volume.dirs : item \in ToSet(volume.dirs[d]) /\ There(item) /\ ~item.dir
  BY DEF IsFile
<1>10. \E k \in 0 .. Len(Chain(volume, item.first)) - 1 : Copied(c, item, k)
  BY <1>7, <1>8
<1> QED  BY <1>9, <1>10 DEF Copying

LEMMA WalkLastKeeps ==
  ASSUME IInv, WalkLast
  PROVE  IInv'
<1>1. pc = "walk" /\ call.i = Len(call.sections) /\ Kept
  BY DEF WalkLast, Kept
<1>2. /\ Consistent(volume) /\ CallOK("walk", call) /\ LsGood(shown) /\ ReadGood(shown)
      /\ IsFiniteSet(DOMAIN volume.fat)
  BY <1>1, InvFacts
<1>3. PICK names, n, name : names = call.sections /\ n = Len(names) /\ name = names[n]
  OBVIOUS
<1>4. /\ CallTyped(call) /\ IsText(names) /\ n = call.i /\ n \in Nat /\ n # 0 /\ names # <<>>
      /\ names = Wanted(call) /\ call.op \in {"ls", "read"} /\ call.out = <<>> /\ name = Last(names)
  <2>1. CallTyped(call) /\ call.op \in {"ls", "read"} /\ call.i # 0 /\ names = Wanted(call)
        /\ names # <<>> /\ call.out = <<>>
    BY <1>2, <1>3 DEF CallOK
  <2>2. IsText(names)
    BY <1>3, <2>1 DEF CallTyped
  <2>3. n \in Nat /\ n = call.i
    BY <1>1, <1>3, <2>2, TextIs
  <2> QED  BY <1>3, <2>1, <2>2, <2>3 DEF Last
<1>5. PICK outcome, entries, c, hit :
        /\ outcome \in Outcomes /\ entries \in read_dir_entries(call.cluster, outcome)
        /\ c = After(outcome) /\ hit = Lookup(get_entries_in_dir(entries), name, FALSE)
        /\ LastStep(c, hit)
  <2>1. \E outcome \in Outcomes : \E entries \in read_dir_entries(call.cluster, outcome) :
          LastStep(After(outcome), Lookup(get_entries_in_dir(entries), call.sections[call.i], FALSE))
    BY DEF WalkLast, LastStep, IsWanted
  <2> QED  BY <1>3, <1>4, <2>1
<1>6. IsAfter(c, call, outcome)
  BY <1>4, <1>5, AfterIs DEF CallTyped
<1>7. Wanted(c) = names /\ c.op = call.op /\ c.path = call.path
  BY <1>4, <1>6 DEF IsAfter, Wanted
<1>8. c.failed \in BOOLEAN /\ c.unread \in BOOLEAN /\ (c.unread => c.failed)
  BY <1>4, <1>6 DEF IsAfter, CallTyped
<1>9. PICK d : d = call.cluster
  OBVIOUS
<1>10. ASSUME Clean(c) PROVE LastFound(c, hit, names, d)
  <2>1. /\ d \in DOMAIN volume.dirs /\ Finds(hit, d, name, FALSE)
        /\ DirectoryAt(volume, SubSeq(names, 1, n - 1)) = {d}
    BY <1>1, <1>3, <1>4, <1>5, <1>6, <1>9, <1>10, CleanWalk
  <2>2. /\ DirectoryAt(volume, names) = Descend({d}, names[n])
        /\ FilesAt(names) = {item \in Children(volume, d, names[n]) : ~item.dir}
    BY <1>3, <1>4, <2>1, LastName
  <2> QED  BY <1>3, <1>4, <2>1, <2>2 DEF LastFound
<1>11. CASE ~IsWanted(hit)
  <2>1. ASSUME Clean(c), OneCluster
        PROVE  IF c.op = "ls" THEN DirectoryAt(volume, names) = {} ELSE FilesAt(names) = {}
    <3>1. LastFound(c, hit, names, d)
      BY <1>10, <2>1
    <3>2. CASE hit = <<>>
      BY <1>2, <2>1, <3>1, <3>2, OnlyChild
    <3>3. CASE hit # <<>>
      <4>1. PICK item \in ToSet(volume.dirs[d]) :
              /\ There(item) /\ hit = <<EntryFor(item)>>
              /\ DirectoryAt(volume, names) = IF item.dir THEN {item.first} ELSE {}
              /\ FilesAt(names) = IF item.dir THEN {} ELSE {item}
        BY <1>2, <3>1, <3>3, OnlyChild
      <4>2. hit[1].IsDirectory = item.dir
        BY <4>1 DEF EntryFor
      <4>3. ~(item.dir <=> call.op = "ls")
        BY <1>11, <3>3, <4>2 DEF IsWanted
      <4> QED  BY <1>7, <4>1, <4>3
    <3> QED  BY <3>2, <3>3
  <2>2. Return(c, IF c.op = "ls" THEN <<>> ELSE NotFound)
    BY <1>5, <1>7, <1>11 DEF LastStep
  <2> QED  BY <1>1, <1>2, <1>4, <1>7, <1>8, <2>1, <2>2, NotThere
<1>12. CASE IsWanted(hit)
  <2>1. PICK to, size, room : /\ to = hit[1].FirstCluster /\ size = hit[1].Size
                              /\ room = IF call.op = "ls" THEN 0 ELSE read_cluster_chain_room(size)
    OBVIOUS
  <2>2. PICK next : next = [c EXCEPT !.cluster = to, !.size = size, !.room = room]
    OBVIOUS
  <2>3. /\ call' = next /\ shown' = shown /\ hit # <<>> /\ (hit[1].IsDirectory <=> call.op = "ls")
        /\ pc' = IF call.op = "ls" THEN "list" ELSE IF IsCluster(to) THEN "chain" ELSE "fault"
    BY <1>5, <1>12, <2>1, <2>2 DEF LastStep, IsWanted
  <2>4. /\ DOMAIN next = CallFields /\ next.op = call.op /\ next.path = call.path
        /\ next.sections = names /\ next.i = n /\ next.out = call.out
        /\ next.failed = c.failed /\ next.unread = c.unread
        /\ next.cluster = to /\ next.size = size /\ next.room = room
    BY <1>3, <1>4, <1>6, <2>2 DEF IsAfter, CallFields
  <2>5. CallTyped(next) /\ Wanted(next) = names
    <3>1. IsText(next.sections) /\ next.i \in Nat /\ next.i <= Len(next.sections)
      <4>1. next.sections = names /\ next.i = n
        BY <2>4
      <4>2. IsText(names) /\ n \in Nat /\ n <= Len(names)
        BY <1>3, <1>4
      <4> QED  BY <4>1, <4>2
    <3>2. Wanted(next) = names
      BY <1>4, <2>4 DEF Wanted
    <3> QED  BY <1>8, <2>4, <3>1, <3>2 DEF CallTyped
  <2>6. ASSUME Clean(next)
        PROVE  \E item \in ToSet(volume.dirs[d]) :
                 /\ d \in DOMAIN volume.dirs /\ There(item) /\ hit = <<EntryFor(item)>>
                 /\ DirectoryAt(volume, names) = IF item.dir THEN {item.first} ELSE {}
                 /\ FilesAt(names) = IF item.dir THEN {} ELSE {item}
    <3>1. LastFound(c, hit, names, d)
      BY <1>10, <2>4, <2>6 DEF Clean
    <3>2. d \in DOMAIN volume.dirs
      BY <3>1 DEF LastFound
    <3> QED  BY <1>2, <2>3, <3>1, <3>2, OnlyChild
  <2>7. ASSUME ~next.unread, NoneDeleted
        PROVE  \E a \in DOMAIN volume.dirs : \E item \in ToSet(volume.dirs[a]) :
                 There(item) /\ IsEntryFor(hit[1], item) /\ (item.dir <=> call.op = "ls")
    <3>1. ~c.unread
      BY <2>4, <2>7
    <3>2. PICK a, item : /\ a \in DOMAIN volume.dirs /\ item \in ToSet(volume.dirs[a])
                         /\ There(item) /\ IsEntryFor(hit[1], item)
      BY <1>1, <1>5, <1>6, <2>3, <2>7, <3>1, TriedWalk
    <3>3. item.dir <=> call.op = "ls"
      BY <2>3, <3>2 DEF IsEntryFor
    <3> QED  BY <3>2, <3>3
  <2>8. CASE call.op = "ls"
    <3>1. pc' = "list" /\ "list" \in Places /\ Lost("list", next)
      BY <2>3, <2>8 DEF Places, Lost
    <3>2. ASSUME ~next.unread, NoneDeleted PROVE to \in DOMAIN volume.dirs
      <4>1. PICK a, item : /\ a \in DOMAIN volume.dirs /\ item \in ToSet(volume.dirs[a])
                           /\ There(item) /\ IsEntryFor(hit[1], item) /\ item.dir
        BY <2>7, <2>8, <3>2
      <4>2. item.first \in DOMAIN volume.dirs
        BY <1>2, <4>1, Stored
      <4> QED  BY <2>1, <4>1, <4>2 DEF IsEntryFor
    <3>3. ASSUME Clean(next) PROVE DirectoryAt(volume, names) = {to}
      <4>1. PICK item : /\ hit = <<EntryFor(item)>>
                        /\ DirectoryAt(volume, names) = IF item.dir THEN {item.first} ELSE {}
        BY <2>6, <3>3
      <4>2. item.dir
        BY <2>3, <2>8, <4>1 DEF EntryFor
      <4>3. to = item.first
        BY <2>1, <4>1 DEF EntryFor
      <4> QED  BY <4>1, <4>2, <4>3
    <3>4. CallOK("list", next)
      BY <1>4, <2>4, <2>5, <2>8, <3>2, <3>3 DEF CallOK
    <3> QED  BY <1>1, <1>2, <2>3, <3>1, <3>4, StepKeeps
  <2>9. CASE call.op = "read" /\ IsCluster(to)
    <3>1. pc' = "chain" /\ "chain" \in Places /\ Lost("chain", next)
      BY <2>3, <2>9 DEF Places, Lost
    <3>2. ASSUME ~next.unread, NoneDeleted PROVE Copying(next)
      <4>1. PICK item : /\ IsFile(item) /\ IsEntryFor(hit[1], item)
                        /\ Clean(next) => item \in FilesAt(Wanted(next))
        <5>1. CASE Clean(next)
          <6>1. PICK item \in ToSet(volume.dirs[d]) :
                  /\ d \in DOMAIN volume.dirs /\ There(item) /\ hit = <<EntryFor(item)>>
                  /\ FilesAt(names) = IF item.dir THEN {} ELSE {item}
            BY <2>6, <5>1
          <6>2. IsEntryFor(hit[1], item)
            BY <6>1 DEF EntryFor, IsEntryFor
          <6>3. ~item.dir
            BY <2>3, <2>9, <6>1 DEF EntryFor
          <6> QED  BY <2>5, <6>1, <6>2, <6>3 DEF IsFile
        <5>2. CASE ~Clean(next)
          <6>1. PICK a, item : /\ a \in DOMAIN volume.dirs /\ item \in ToSet(volume.dirs[a])
                               /\ There(item) /\ IsEntryFor(hit[1], item) /\ ~item.dir
            BY <2>7, <2>9, <3>2
          <6> QED  BY <5>2, <6>1 DEF IsFile
        <5> QED  BY <5>1, <5>2
      <4>2. to = item.first /\ size = item.size
        BY <2>1, <4>1 DEF IsEntryFor
      <4>3. next.cluster = item.first /\ next.size = item.size /\ next.out = <<>>
            /\ next.room = read_cluster_chain_room(item.size) /\ IsCluster(item.first)
        BY <1>4, <2>1, <2>4, <2>9, <4>2
      <4> QED  BY <1>2, <4>1, <4>3, CopyBegins
    <3>3. CallOK("chain", next)
      BY <2>4, <2>5, <2>9, <3>2 DEF CallOK
    <3> QED  BY <1>1, <1>2, <2>3, <3>1, <3>3, StepKeeps
  <2>10. CASE call.op = "read" /\ ~IsCluster(to)
    <3>1. pc' = "fault" /\ "fault" \in Places
      BY <2>3, <2>10 DEF Places
    <3>2. Lost("fault", next)
      <4>1. ASSUME ~next.failed, NoneDeleted PROVE next.size = 0
        <5>1. ~next.unread
          BY <1>8, <2>4, <4>1
        <5>2. PICK a, item : /\ a \in DOMAIN volume.dirs /\ item \in ToSet(volume.dirs[a])
                             /\ There(item) /\ IsEntryFor(hit[1], item) /\ ~item.dir
          BY <2>7, <2>10, <4>1, <5>1
        <5>3. PICK chain : chain = Chain(volume, item.first)
          OBVIOUS
        <5>4. FileChain(item, chain)
          BY <1>2, <5>2, <5>3, FileIs DEF IsFile
        <5>5. item.first = to /\ item.size = size
          BY <2>1, <5>2 DEF IsEntryFor
        <5> QED  BY <2>4, <2>10, <5>4, <5>5 DEF FileChain
      <4> QED  BY <4>1 DEF Lost
    <3>3. CallOK("fault", next)
      BY <2>5, AtRest
    <3> QED  BY <1>1, <1>2, <2>3, <3>1, <3>2, <3>3, StepKeeps
  <2> QED  BY <1>4, <2>8, <2>9, <2>10
<1> QED  BY <1>11, <1>12

-----------------------------------------------------------------------------
(* The list of a directory                                                    *)

LEMMA get_entriesKeeps ==
  ASSUME IInv, get_entries
  PROVE  IInv'
<1>1. pc = "list" /\ Kept
  BY DEF get_entries, Kept
<1>2. Consistent(volume) /\ CallOK("list", call) /\ CallTyped(call)
  BY <1>1, InvFacts DEF CallOK
<1>3. CASE call.op = "read" /\ Return(call, NotFound)
  <2>1. PICK s, clean : s = shown' /\ clean = ~call.failed
    OBVIOUS
  <2>2. pc' = "idle" /\ call' = NoCall /\ IsShown(s, "read", call.path, clean, NotFound)
        /\ clean \in BOOLEAN
    BY <1>2, <1>3, <2>1, Returns DEF CallTyped
  <2>3. FilesAt(Names(call.path)) = {}
    BY <1>2, <1>3 DEF CallOK, Wanted, FilesAt
  <2>4. LsGood(s) /\ ReadGood(s)
    BY <2>2, <2>3, GoodNotFound
  <2>5. "idle" \in Places /\ shown' = s
    BY <2>1 DEF Places
  <2> QED  BY <1>1, <2>2, <2>4, <2>5, NoCallOK, StepKeeps
<1>4. CASE call.op = "ls"
  <2>1. PICK outcome, entries, c, list :
          /\ outcome \in Outcomes /\ entries \in read_dir_entries(call.cluster, outcome)
          /\ c = After(outcome) /\ list = get_entries_in_dir(entries) /\ Return(c, list)
    BY <1>4 DEF get_entries
  <2>2. IsAfter(c, call, outcome)
    BY <1>2, <2>1, AfterIs DEF CallTyped
  <2>3. c.failed = (call.failed \/ outcome # "ok") /\ c.op = "ls" /\ c.path = call.path
    BY <1>4, <2>2 DEF IsAfter
  <2>4. PICK s, clean, path : s = shown' /\ clean = ~c.failed /\ path = call.path
    OBVIOUS
  <2>5. pc' = "idle" /\ call' = NoCall /\ IsShown(s, "ls", path, clean, list) /\ clean \in BOOLEAN
    <3>1. c.failed \in BOOLEAN
      BY <2>3
    <3> QED  BY <2>1, <2>3, <2>4, <3>1, Returns
  <2>6. PICK names, d : names = Wanted(call) /\ d = call.cluster
    OBVIOUS
  <2>7. ASSUME ShortNamed, NoneDeleted, clean, IsText(names)
        PROVE  d \in DOMAIN volume.dirs /\ DirectoryAt(volume, names) = {d} /\ ShowsBeginning(list, d)
    <3>1. ~call.failed /\ outcome = "ok"
      BY <2>3, <2>4, <2>7
    <3>2. DirectoryAt(volume, names) = {d}
      BY <1>2, <1>4, <2>6, <2>7, <3>1 DEF CallOK, Clean
    <3>3. d \in DOMAIN volume.dirs
      BY <1>2, <2>7, <3>2, DirectoriesAt
    <3>4. IsCluster(d)
      BY <1>2, <3>3, Stored
    <3>5. entries = FirstClusterOf(DirEntries(volume, d))
      BY <2>1, <2>6, <3>1, <3>4, ReadIs
    <3> QED  BY <1>2, <2>1, <2>7, <3>2, <3>3, <3>5, CleanRead
  <2>8. names = IF Len(path) = 1 THEN <<>> ELSE Names(Front(path))
    BY <1>4, <2>4, <2>6 DEF Wanted
  <2>9. LsGood(s) /\ ReadGood(s)
    <3>1. IsText(names)
      BY <1>2, <1>4, <2>6 DEF CallOK
    <3> QED  BY <1>2, <2>5, <2>7, <2>8, <3>1, GoodLs
  <2>10. "idle" \in Places /\ shown' = s
    BY <2>4 DEF Places
  <2> QED  BY <1>1, <2>5, <2>9, <2>10, NoCallOK, StepKeeps
<1> QED  BY <1>3, <1>4 DEF get_entries

-----------------------------------------------------------------------------
(* Copying a file                                                             *)

\* One cluster more.
LEMMA OneClusterMore ==
  ASSUME Consistent(volume), NEW item, NEW chain, chain = Chain(volume, item.first),
         FileChain(item, chain), NEW k \in 0 .. Len(chain) - 1, NEW out,
         out = FlattenSeq(SubSeq(DataOf(item), 1, k))
  PROVE  out \o volume.data[chain[k + 1]] = FlattenSeq(SubSeq(DataOf(item), 1, k + 1))
<1>1. PICK data, Y : data = DataOf(item) /\ Y = Seq(Bytes)
  OBVIOUS
<1>2. /\ IsText(data) /\ Len(data) = Len(chain) /\ data \in Seq(Y)
      /\ \A j \in 1 .. Len(chain) : data[j] = volume.data[chain[j]]
  BY <1>1, DataIs
<1>3. k + 1 \in 1 .. Len(chain) /\ k \in 0 .. Len(data) /\ k < Len(data) /\ Len(data) \in Nat
  BY <1>2, TextIs
<1>4. PICK part, bytes : part = SubSeq(data, 1, k) /\ bytes = volume.data[chain[k + 1]]
  OBVIOUS
<1>5. SubSeq(data, 1, k + 1) = Append(part, bytes)
  <2>1. data[k + 1] = bytes
    BY <1>2, <1>3, <1>4
  <2> QED  BY <1>2, <1>3, <1>4, <2>1, Beginnings
<1>6. part \in Seq(Y) /\ bytes \in Y
  <2>1. data[k + 1] \in Y
    BY <1>2, <1>3
  <2> QED  BY <1>2, <1>3, <1>4, <2>1
<1>7. Chaining!FlattenSeq(Append(part, bytes)) = Chaining!FlattenSeq(part) \o bytes
  BY <1>1, <1>6, Chaining!FlattenAppend
<1>8. \A ss : FlattenSeq(ss) = Chaining!FlattenSeq(ss)
  BY DEF FlattenSeq, Chaining!FlattenSeq
<1> QED  BY <1>1, <1>4, <1>5, <1>7, <1>8

\* A file that has been copied is printed as it is, when no byte of it is 0.
LEMMA FileIsShown ==
  ASSUME Consistent(volume), TextFiles, NEW item, NEW chain, chain = Chain(volume, item.first),
         FileChain(item, chain), NEW out, out = FlattenSeq(DataOf(item)),
         IsText(out), Len(out) = Len(chain) * CLUSTER_SIZE
  PROVE  fat32_read(out, item.size) = Contents(volume, item)
<1>1. PICK data, size : data = DataOf(item) /\ size = item.size
  OBVIOUS
<1>2. data \in Seq(Seq(Bytes))
  BY <1>1, DataIs
<1>3. Chaining!FlattenSeq(data) \in Seq(Bytes)
  BY <1>2, Chaining!FlattenTyped
<1>4. out \in Seq(Bytes)
  BY <1>1, <1>3 DEF FlattenSeq, Chaining!FlattenSeq
<1>5. Zero \notin Bytes
  BY DEF TextFiles, Bytes
<1>6. PICK len : len = Len(out) /\ len \in Nat /\ size \in Nat /\ size <= len
  BY <1>1, <1>4 DEF FileChain
<1>7. Min({size, Len(out)}) = size
  <2>1. PICK S : S = {size, Len(out)}
    OBVIOUS
  <2>2. size \in S /\ \A x \in S : x \in Int /\ size <= x
    BY <1>6, <2>1
  <2> QED  BY <1>6, <2>1, <2>2, MinIs
<1>8. PICK text : text = SubSeq(out, 1, size)
  OBVIOUS
<1>9. text \in Seq(Bytes)
  BY <1>4, <1>6, <1>8
<1>10. \A b \in DOMAIN text : text[b] # Zero
  BY <1>5, <1>9
<1>11. fat32_read(out, size) = text
  BY <1>7, <1>8, <1>10 DEF fat32_read
<1>12. Contents(volume, item) = text
  BY <1>1, <1>8 DEF Contents, DataOf
<1> QED  BY <1>1, <1>11, <1>12

LEMMA RoomForMore ==
  ASSUME NEW k \in Nat, NEW n \in Nat, k + 1 <= n, NEW b \in Nat
  PROVE  k * b + b = (k + 1) * b /\ (k + 1) * b <= n * b
<1>1. PICK j \in Nat : n = (k + 1) + j
  <2>1. n - (k + 1) \in Nat /\ n = (k + 1) + (n - (k + 1))
    OBVIOUS
  <2> QED  BY <2>1
<1>2. n * b = (k + 1) * b + j * b
  BY <1>1
<1>3. j * b \in Nat /\ (k + 1) * b \in Nat
  BY <1>1
<1>4. k * b + b = (k + 1) * b
  OBVIOUS
<1> QED  BY <1>2, <1>3, <1>4

\* What a read of a cluster of data leaves, when it was tried.
LEMMA ClusterDataIs ==
  ASSUME Consistent(volume), NEW cluster \in DOMAIN volume.data, NEW data \in Outcomes, data # "unread",
         NEW bytes \in ClusterData(cluster, data)
  PROVE  IsText(bytes) /\ Len(bytes) = CLUSTER_SIZE /\ (data = "ok" => bytes = volume.data[cluster])
<1>1. CASE data = "ok"
  <2>1. bytes = volume.data[cluster]
    BY <1>1 DEF ClusterData
  <2> QED  BY <1>1, <2>1 DEF Consistent
<1>2. CASE data = "timeout"
  <2>1. bytes = [b \in 1 .. CLUSTER_SIZE |-> Zero]
    BY <1>2 DEF ClusterData
  <2>2. DOMAIN bytes = 1 .. CLUSTER_SIZE /\ bytes = [b \in 1 .. CLUSTER_SIZE |-> bytes[b]]
    BY <2>1
  <2>3. CLUSTER_SIZE \in Nat
    BY Fat32Assumption
  <2> QED  BY <1>2, <2>2, <2>3, FunctionIsText
<1> QED  BY <1>1, <1>2 DEF Outcomes

\* The call after a round of the copy.
CopyOn(c, data, fat, bytes, next) ==
  /\ DOMAIN c = CallFields
  /\ c.op = call.op /\ c.path = call.path /\ c.sections = call.sections /\ c.i = call.i
  /\ c.cluster = next /\ c.size = call.size /\ c.out = call.out \o bytes /\ c.room = call.room
  /\ c.failed = (call.failed \/ data # "ok" \/ fat # "ok")
  /\ c.unread = (call.unread \/ "unread" \in {data, fat})

CopyStep(data, fat, bytes, next) ==
  LET failed == call.failed \/ data # "ok" \/ fat # "ok"
      c == [call EXCEPT !.failed = failed, !.unread = @ \/ "unread" \in {data, fat},
                        !.out = @ \o bytes, !.cluster = next]
  IN  \/ /\ Len(c.out) > call.room
         /\ call' = [c EXCEPT !.out = <<>>] /\ pc' = "overrun" /\ UNCHANGED shown
      \/ /\ Len(c.out) <= call.room /\ IsCluster(next)
         /\ call' = c /\ UNCHANGED <<pc, shown>>
      \/ /\ Len(c.out) <= call.room /\ ~IsCluster(next)
         /\ Return(c, fat32_read(c.out, c.size))

LEMMA CopyStepIs ==
  ASSUME NEW data, NEW fat, NEW bytes, NEW next, CopyStep(data, fat, bytes, next), DOMAIN call = CallFields
  PROVE  \E c : /\ CopyOn(c, data, fat, bytes, next)
                /\ \/ /\ Len(c.out) > call.room
                      /\ call' = [c EXCEPT !.out = <<>>] /\ pc' = "overrun" /\ UNCHANGED shown
                   \/ /\ Len(c.out) <= call.room /\ IsCluster(next)
                      /\ call' = c /\ UNCHANGED <<pc, shown>>
                   \/ /\ Len(c.out) <= call.room /\ ~IsCluster(next)
                      /\ Return(c, fat32_read(c.out, c.size))
<1>1. PICK c : c = [call EXCEPT !.failed = call.failed \/ data # "ok" \/ fat # "ok",
                                !.unread = @ \/ "unread" \in {data, fat},
                                !.out = @ \o bytes, !.cluster = next]
  OBVIOUS
<1>2. CopyOn(c, data, fat, bytes, next)
  BY <1>1 DEF CopyOn, CallFields
<1> QED  BY <1>1, <1>2 DEF CopyStep

LEMMA read_cluster_chainKeeps ==
  ASSUME IInv, read_cluster_chain
  PROVE  IInv'
<1>1. pc = "chain" /\ Kept
  BY DEF read_cluster_chain, Kept
<1>2. /\ Consistent(volume) /\ CallOK("chain", call) /\ CallTyped(call) /\ IsFiniteSet(DOMAIN volume.fat)
      /\ call.op = "read" /\ LsGood(shown) /\ ReadGood(shown)
  BY <1>1, InvFacts DEF CallOK
<1>3. PICK data, fat, bytes, next :
        /\ data \in Outcomes /\ fat \in Outcomes /\ bytes \in ClusterData(call.cluster, data)
        /\ next \in get_next_cluster(call.cluster, fat) /\ CopyStep(data, fat, bytes, next)
  <2>1. \E data, fat \in Outcomes :
          \E bytes \in ClusterData(call.cluster, data), next \in get_next_cluster(call.cluster, fat) :
            CopyStep(data, fat, bytes, next)
    BY DEF read_cluster_chain, CopyStep
  <2> QED  BY <2>1
<1>4. PICK c : /\ CopyOn(c, data, fat, bytes, next)
               /\ \/ /\ Len(c.out) > call.room
                     /\ call' = [c EXCEPT !.out = <<>>] /\ pc' = "overrun" /\ UNCHANGED shown
                  \/ /\ Len(c.out) <= call.room /\ IsCluster(next)
                     /\ call' = c /\ UNCHANGED <<pc, shown>>
                  \/ /\ Len(c.out) <= call.room /\ ~IsCluster(next)
                     /\ Return(c, fat32_read(c.out, c.size))
  BY <1>2, <1>3, CopyStepIs DEF CallTyped
<1>5. /\ c.failed = (call.failed \/ data # "ok" \/ fat # "ok") /\ c.op = "read" /\ c.path = call.path
      /\ c.unread = (call.unread \/ "unread" \in {data, fat})
      /\ c.cluster = next /\ c.size = call.size /\ c.out = call.out \o bytes /\ c.room = call.room
  BY <1>2, <1>4 DEF CopyOn
<1>6. CallTyped(c) /\ Wanted(c) = Wanted(call) /\ Wanted(c) = Names(call.path)
  <2>1. IsText(c.sections) /\ c.i \in Nat /\ c.i <= Len(c.sections)
    BY <1>2, <1>4 DEF CopyOn, CallTyped
  <2>2. c.failed \in BOOLEAN /\ c.unread \in BOOLEAN /\ (c.unread => c.failed)
    <3>1. "unread" \in {data, fat} => data # "ok" \/ fat # "ok"
      OBVIOUS
    <3>2. call.unread => call.failed
      BY <1>2 DEF CallTyped
    <3> QED  BY <1>5, <3>1, <3>2
  <2>3. Wanted(c) = Wanted(call) /\ Wanted(c) = Names(call.path)
    BY <1>2, <1>5 DEF Wanted
  <2> QED  BY <1>4, <2>1, <2>2, <2>3 DEF CallTyped, CopyOn
\* When nothing was left unread, k clusters of a file have been copied.
<1>7. ASSUME ~c.unread, NoneDeleted
      PROVE  \E item, k : /\ IsFile(item) /\ Copied(call, item, k)
                          /\ data # "unread" /\ fat # "unread"
  <2>1. ~call.unread /\ data # "unread" /\ fat # "unread"
    BY <1>5, <1>7
  <2>2. Copying(call)
    BY <1>2, <1>7, <2>1 DEF CallOK
  <2> QED  BY <2>1, <2>2 DEF Copying, IsFile
\* And then one more.
<1>8. ASSUME NEW item, IsFile(item), NEW k, Copied(call, item, k), data # "unread", fat # "unread",
             NEW chain, chain = Chain(volume, item.first)
      PROVE  /\ FileChain(item, chain) /\ k \in 0 .. Len(chain) - 1 /\ Len(chain) \in Nat
             /\ IsText(c.out) /\ Len(c.out) = (k + 1) * CLUSTER_SIZE
             /\ call.room = Len(chain) * CLUSTER_SIZE + 1 /\ Len(c.out) <= call.room
             /\ call.size = item.size
             /\ fat = "ok" => next = volume.fat[chain[k + 1]]
             /\ fat # "ok" => ~IsCluster(next)
             /\ Clean(c) => /\ item \in FilesAt(Wanted(c)) /\ fat = "ok"
                            /\ c.out = FlattenSeq(SubSeq(DataOf(item), 1, k + 1))
  <2>1. FileChain(item, chain)
    BY <1>2, <1>8, FileIs
  <2>2. PICK n : n = Len(chain) /\ n \in Nat
    BY <2>1 DEF FileChain
  <2>3. /\ k \in 0 .. n - 1 /\ call.size = item.size /\ call.room = n * CLUSTER_SIZE + 1
        /\ call.cluster = chain[k + 1] /\ IsText(call.out) /\ Len(call.out) = k * CLUSTER_SIZE
    BY <1>8, <2>2 DEF Copied
  <2>4. k \in Nat /\ k + 1 <= n /\ k + 1 \in 1 .. n
    BY <2>2, <2>3
  <2>5. call.cluster \in DOMAIN volume.data
    BY <2>1, <2>2, <2>3, <2>4 DEF FileChain
  <2>6. IsText(bytes) /\ Len(bytes) = CLUSTER_SIZE /\ (data = "ok" => bytes = volume.data[call.cluster])
    BY <1>2, <1>3, <1>8, <2>5, ClusterDataIs
  <2>7. IsText(c.out) /\ Len(c.out) = k * CLUSTER_SIZE + CLUSTER_SIZE
    <3>1. PICK out, more : out = c.out /\ more = call.out /\ out = more \o bytes
      BY <1>5
    <3>2. Joined(out, more, bytes)
      BY <2>3, <2>6, <3>1, TextsJoin
    <3> QED  BY <2>3, <2>6, <3>1, <3>2 DEF Joined
  <2>8. CLUSTER_SIZE \in Nat
    BY Fat32Assumption
  <2>9. k * CLUSTER_SIZE + CLUSTER_SIZE = (k + 1) * CLUSTER_SIZE /\ (k + 1) * CLUSTER_SIZE <= n * CLUSTER_SIZE
    BY <2>2, <2>4, <2>8, RoomForMore
  <2>10. Len(c.out) = (k + 1) * CLUSTER_SIZE /\ Len(c.out) <= call.room
    <3>1. PICK a, b \in Int : a = (k + 1) * CLUSTER_SIZE /\ b = n * CLUSTER_SIZE
      BY <2>2, <2>4, <2>8
    <3> QED  BY <2>3, <2>7, <2>9, <3>1
  <2>11. (fat = "ok" => next = volume.fat[chain[k + 1]]) /\ (fat # "ok" => ~IsCluster(next))
    <3>1. CASE fat = "ok"
      BY <1>3, <2>3, <3>1 DEF get_next_cluster
    <3>2. CASE fat = "timeout"
      <4>1. next = 0
        BY <1>3, <3>2 DEF get_next_cluster
      <4> QED  BY <3>2, <4>1 DEF IsCluster
    <3> QED  BY <1>3, <1>8, <3>1, <3>2 DEF Outcomes
  <2>12. ASSUME Clean(c)
         PROVE  /\ item \in FilesAt(Wanted(c)) /\ fat = "ok"
                /\ c.out = FlattenSeq(SubSeq(DataOf(item), 1, k + 1))
    <3>1. ~call.failed /\ data = "ok" /\ fat = "ok" /\ Clean(call)
      BY <1>5, <2>12 DEF Clean
    <3>2. item \in FilesAt(Wanted(call)) /\ call.out = FlattenSeq(SubSeq(DataOf(item), 1, k))
      BY <1>8, <3>1 DEF Copied
    <3>3. PICK out : out = call.out
      OBVIOUS
    <3>4. out \o volume.data[chain[k + 1]] = FlattenSeq(SubSeq(DataOf(item), 1, k + 1))
      <4>1. k \in 0 .. Len(chain) - 1 /\ out = FlattenSeq(SubSeq(DataOf(item), 1, k))
        BY <2>2, <2>3, <3>2, <3>3
      <4> QED  BY <1>2, <1>8, <2>1, <4>1, OneClusterMore
    <3>5. c.out = out \o volume.data[chain[k + 1]]
      BY <1>5, <2>3, <2>6, <3>1, <3>3
    <3> QED  BY <1>6, <3>1, <3>2, <3>4, <3>5
  <2> QED  BY <2>1, <2>2, <2>3, <2>7, <2>10, <2>11, <2>12
<1>9. CASE /\ Len(c.out) > call.room
           /\ call' = [c EXCEPT !.out = <<>>] /\ pc' = "overrun" /\ UNCHANGED shown
  <2>1. PICK lost : lost = [c EXCEPT !.out = <<>>]
    OBVIOUS
  <2>2. lost.unread = c.unread /\ CallTyped(lost)
    <3>1. /\ DOMAIN lost = CallFields /\ lost.sections = c.sections /\ lost.i = c.i
          /\ lost.failed = c.failed /\ lost.unread = c.unread
      BY <1>6, <2>1 DEF CallTyped, CallFields
    <3> QED  BY <1>6, <3>1 DEF CallTyped
  <2>3. Lost("overrun", lost)
    <3>1. ASSUME ~c.unread, NoneDeleted PROVE FALSE
      <4>1. PICK item, k : /\ IsFile(item) /\ Copied(call, item, k)
                           /\ data # "unread" /\ fat # "unread"
        BY <1>7, <3>1
      <4>2. PICK chain : chain = Chain(volume, item.first)
        OBVIOUS
      <4>3. Len(c.out) <= call.room /\ call.room = Len(chain) * CLUSTER_SIZE + 1 /\ Len(chain) \in Nat
            /\ IsText(c.out)
        BY <1>8, <4>1, <4>2
      <4>4. PICK a, b : a = Len(c.out) /\ b = Len(chain) * CLUSTER_SIZE /\ b \in Nat /\ a \in Nat
        BY <4>3, TextIs, Fat32Assumption
      <4> QED  BY <1>9, <4>3, <4>4
    <3> QED  BY <2>2, <3>1 DEF Lost
  <2>4. CallOK("overrun", lost) /\ "overrun" \in Places
    BY <2>2, AtRest DEF Places
  <2> QED  BY <1>1, <1>2, <1>9, <2>1, <2>3, <2>4, StepKeeps
<1>10. CASE /\ Len(c.out) <= call.room /\ IsCluster(next)
            /\ call' = c /\ UNCHANGED <<pc, shown>>
  <2>1. pc' = "chain" /\ call' = c /\ shown' = shown
    BY <1>1, <1>10
  <2>2. ASSUME ~c.unread, NoneDeleted PROVE Copying(c)
    <3>1. PICK item, k : /\ IsFile(item) /\ Copied(call, item, k)
                         /\ data # "unread" /\ fat # "unread"
      BY <1>7, <2>2
    <3>2. PICK chain, n : chain = Chain(volume, item.first) /\ n = Len(chain)
      OBVIOUS
    <3>3. /\ FileChain(item, chain) /\ k \in 0 .. n - 1 /\ n \in Nat
          /\ IsText(c.out) /\ Len(c.out) = (k + 1) * CLUSTER_SIZE /\ call.room = n * CLUSTER_SIZE + 1
          /\ call.size = item.size
          /\ fat = "ok" => next = volume.fat[chain[k + 1]]
          /\ fat # "ok" => ~IsCluster(next)
          /\ Clean(c) => /\ item \in FilesAt(Wanted(c)) /\ fat = "ok"
                         /\ c.out = FlattenSeq(SubSeq(DataOf(item), 1, k + 1))
      BY <1>8, <3>1, <3>2
    <3>4. next = volume.fat[chain[k + 1]] /\ k + 1 \in 1 .. n
      BY <1>10, <3>3
    <3>5. k + 1 < n /\ next = chain[(k + 1) + 1]
      BY <1>10, <3>2, <3>3, <3>4 DEF FileChain
    <3>6. k + 1 \in 0 .. Len(Chain(volume, item.first)) - 1
      BY <3>2, <3>3, <3>5
    <3>7. Copied(c, item, k + 1)
      BY <1>5, <3>2, <3>3, <3>5, <3>6 DEF Copied
    <3> QED  BY <3>1, <3>6, <3>7 DEF Copying, IsFile
  <2>3. CallOK("chain", c)
    BY <1>5, <1>6, <2>2 DEF CallOK
  <2>4. "chain" \in Places /\ Lost("chain", c)
    BY DEF Places, Lost
  <2> QED  BY <1>1, <1>2, <2>1, <2>3, <2>4, StepKeeps
<1>11. CASE /\ Len(c.out) <= call.room /\ ~IsCluster(next)
            /\ Return(c, fat32_read(c.out, c.size))
  <2>1. PICK s, clean, path, result :
          s = shown' /\ clean = ~c.failed /\ path = call.path /\ result = fat32_read(c.out, c.size)
    OBVIOUS
  <2>2. c.failed \in BOOLEAN /\ clean \in BOOLEAN
    BY <1>6, <2>1 DEF CallTyped
  <2>3. pc' = "idle" /\ call' = NoCall /\ IsShown(s, "read", path, clean, result)
    BY <1>5, <1>11, <2>1, <2>2, Returns
  <2>4. ASSUME ShortNamed, NoneDeleted, clean, TextFiles
        PROVE  \E item \in FilesAt(Names(path)) : result = Contents(volume, item)
    <3>1. Clean(c) /\ ~c.unread
      BY <1>6, <2>1, <2>4 DEF Clean, CallTyped
    <3>2. PICK item, k : /\ IsFile(item) /\ Copied(call, item, k)
                         /\ data # "unread" /\ fat # "unread"
      BY <1>7, <2>4, <3>1
    <3>3. PICK chain, n : chain = Chain(volume, item.first) /\ n = Len(chain)
      OBVIOUS
    <3>4. /\ FileChain(item, chain) /\ k \in 0 .. n - 1 /\ n \in Nat
          /\ IsText(c.out) /\ Len(c.out) = (k + 1) * CLUSTER_SIZE /\ call.size = item.size
          /\ next = volume.fat[chain[k + 1]]
          /\ item \in FilesAt(Wanted(c)) /\ c.out = FlattenSeq(SubSeq(DataOf(item), 1, k + 1))
      BY <1>8, <3>1, <3>2, <3>3
    <3>5. k + 1 = n
      <4>1. k + 1 \in 1 .. n
        BY <3>4
      <4>2. ASSUME k + 1 < n PROVE FALSE
        <5>1. next = chain[(k + 1) + 1] /\ (k + 1) + 1 \in 1 .. n
          BY <3>3, <3>4, <4>1, <4>2 DEF FileChain
        <5>2. IsCluster(next)
          BY <3>3, <3>4, <5>1 DEF FileChain
        <5> QED  BY <1>11, <5>2
      <4> QED  BY <3>4, <4>1, <4>2
    <3>6. PICK out : out = c.out
      OBVIOUS
    <3>7. out = FlattenSeq(DataOf(item)) /\ IsText(out) /\ Len(out) = Len(chain) * CLUSTER_SIZE
      <4>1. IsText(DataOf(item)) /\ Len(DataOf(item)) = n
        BY <1>2, <3>3, <3>4, DataIs
      <4>2. n \in 0 .. Len(DataOf(item))
        BY <3>4, <4>1
      <4>3. SubSeq(DataOf(item), 1, n) = DataOf(item)
        BY <4>1, <4>2, Beginnings
      <4> QED  BY <3>3, <3>4, <3>5, <3>6, <4>3
    <3>8. fat32_read(out, item.size) = Contents(volume, item)
      BY <1>2, <2>4, <3>3, <3>4, <3>7, FileIsShown
    <3>9. result = Contents(volume, item)
      BY <1>5, <2>1, <3>4, <3>6, <3>8
    <3> QED  BY <1>6, <2>1, <3>4, <3>9
  <2>5. LsGood(s) /\ ReadGood(s)
    BY <2>3, <2>4 DEF LsGood, ReadGood, IsShown
  <2>6. "idle" \in Places /\ shown' = s
    BY <2>1 DEF Places
  <2> QED  BY <1>1, <2>3, <2>5, <2>6, NoCallOK, StepKeeps
<1> QED  BY <1>4, <1>9, <1>10, <1>11

-----------------------------------------------------------------------------
(* Paths                                                                      *)

Normalized(path) == IF path # <<>> /\ Head(path) = Slash THEN Tail(path) ELSE path

LEMMA NormalizedIs ==
  ASSUME NEW path, IsText(path)
  PROVE  /\ IsText(Normalized(path))
         /\ Head(path) = Slash /\ path # <<>> =>
              IF Normalized(path) \in {<<>>, <<Slash>>} THEN Names(path) = <<>>
              ELSE Names(path) = str_split(Normalized(path))
<1>1. CASE path # <<>> /\ Head(path) = Slash
  <2>1. PICK norm, m : norm = Tail(path) /\ m = Len(path)
    OBVIOUS
  <2>2. /\ IsText(norm) /\ Len(norm) = m - 1 /\ m \in Nat \ {0}
        /\ \A i \in 1 .. m - 1 : norm[i] = path[i + 1]
        /\ path[1] = Slash
    BY <1>1, <2>1, Ends
  <2>3. Normalized(path) = norm
    BY <1>1, <2>1 DEF Normalized
  <2>4. PICK one, two : one = <<Slash>> /\ two = <<Slash, Slash>>
    OBVIOUS
  <2>5. /\ IsText(one) /\ Len(one) = 1 /\ one[1] = Slash
        /\ IsText(two) /\ Len(two) = 2 /\ two[1] = Slash /\ two[2] = Slash
    <3>1. one \in Seq({Slash}) /\ two \in Seq({Slash})
      BY <2>4
    <3> QED  BY <2>4, <3>1, TextIs
  <2>6. norm = <<>> <=> path = one
    <3>1. ASSUME norm = <<>> PROVE path = one
      <4>1. m = 1
        BY <2>2, <3>1, EmptyText
      <4>2. Len(path) = Len(one)
        BY <2>1, <2>5, <4>1
      <4>3. \A i \in 1 .. Len(one) : path[i] = one[i]
        BY <2>2, <2>5
      <4> QED  BY <2>5, <4>2, <4>3, TextsEqual
    <3>2. ASSUME path = one PROVE norm = <<>>
      <4>1. m = 1
        BY <2>1, <2>5, <3>2
      <4>2. Len(norm) = 0
        BY <2>2, <4>1
      <4> QED  BY <2>2, <4>2, EmptyText
    <3> QED  BY <3>1, <3>2
  <2>7. norm = one <=> path = two
    <3>1. ASSUME norm = one PROVE path = two
      <4>1. m = 2 /\ norm[1] = path[2]
        <5>1. m = 2
          BY <2>2, <2>5, <3>1
        <5> QED  BY <2>2, <5>1
      <4>2. path[2] = Slash
        BY <2>5, <3>1, <4>1
      <4>3. \A i \in 1 .. 2 : path[i] = two[i]
        BY <2>2, <2>5, <4>2
      <4> QED  BY <2>1, <2>5, <4>1, <4>3, TextsEqual
    <3>2. ASSUME path = two PROVE norm = one
      <4>1. m = 2 /\ norm[1] = path[2]
        <5>1. m = 2
          BY <2>1, <2>5, <3>2
        <5> QED  BY <2>2, <5>1
      <4>2. Len(norm) = 1 /\ norm[1] = Slash
        BY <2>2, <2>5, <3>2, <4>1
      <4>3. \A i \in 1 .. 1 : norm[i] = one[i]
        BY <2>5, <4>2
      <4> QED  BY <2>2, <2>5, <4>2, <4>3, TextsEqual
    <3> QED  BY <3>1, <3>2
  <2>8. Names(path) = IF path \in {one, two} THEN <<>> ELSE str_split(norm)
    BY <2>1, <2>4 DEF Names
  <2> QED  BY <2>2, <2>3, <2>4, <2>6, <2>7, <2>8
<1>2. CASE ~(path # <<>> /\ Head(path) = Slash)
  BY <1>2 DEF Normalized
<1> QED  BY <1>1, <1>2

\* A call begins.
LEMMA find_entryKeeps ==
  ASSUME IInv, pc = "idle", NEW op \in {"ls", "read"}, NEW full, NEW path, IsText(path),
         find_entry(op, full, path),
         activeDriver = "FAT32" =>
           IF op = "ls" THEN IF Len(full) = 1 THEN path = <<>>
                             ELSE path = Front(full) /\ path # <<>> /\ Head(path) = Slash
                        ELSE path = full /\ path # <<>> /\ Head(path) = Slash
  PROVE  IInv'
<1>1. PICK norm, sections : norm = Normalized(path) /\ sections = str_split(norm)
  OBVIOUS
<1>2. PICK c : c = [Started(op, full) EXCEPT !.sections = sections]
  OBVIOUS
<1>3. /\ call' = c /\ shown' = Nothing /\ Kept
      /\ pc' = IF activeDriver = "none" THEN "fault"
               ELSE IF norm \in {<<>>, <<Slash>>} THEN "list"
               ELSE IF Len(sections) > MAX_PATH_DEPTH THEN "deep"
               ELSE "walk"
  BY <1>1, <1>2 DEF find_entry, Normalized, Kept
<1>4. IsText(norm) /\ IsText(sections) /\ sections # <<>>
  <2>1. IsText(norm)
    BY <1>1, NormalizedIs
  <2> QED  BY <1>1, <2>1, SplitIs
<1>5. /\ DOMAIN c = CallFields /\ c.op = op /\ c.path = full /\ c.sections = sections /\ c.i = 1
      /\ c.cluster = RootCluster /\ c.size = 0 /\ c.out = <<>>
      /\ c.failed = (RootCluster = 0) /\ c.unread = FALSE
  BY <1>2 DEF Started, NoCall, CallFields
<1>6. CallTyped(c)
  <2>1. 1 \in Nat /\ 1 <= Len(sections)
    BY <1>4, TextIs, EmptyText
  <2>2. c.failed \in BOOLEAN /\ c.unread \in BOOLEAN /\ (c.unread => c.failed)
    BY <1>5
  <2>3. IsText(c.sections) /\ c.i \in Nat /\ c.i <= Len(c.sections)
    BY <1>4, <1>5, <2>1
  <2> QED  BY <1>5, <2>2, <2>3 DEF CallTyped
<1>7. /\ Consistent(volume) /\ activeDriver \in {"none", "FAT32"} /\ RootCluster \in {0, volume.root}
      /\ volume.root \in DOMAIN volume.dirs
  <2>1. Consistent(volume)
    BY InvFacts
  <2>2. activeDriver \in {"none", "FAT32"}
    BY DEF IInv, PathOK
  <2>3. RootCluster \in {0, volume.root}
    BY DEF IInv, TypeOK
  <2> QED  BY <2>1, <2>2, <2>3 DEF Consistent
<1>8. LsGood(Nothing) /\ ReadGood(Nothing)
  BY DEF LsGood, ReadGood, Nothing
<1>9. Clean(c) => DirectoryAt(volume, <<>>) = {c.cluster}
  <2>1. ASSUME Clean(c) PROVE c.cluster = volume.root
    BY <1>5, <1>7, <2>1 DEF Clean
  <2> QED  BY <2>1, DirectoryAtRoot
<1>10. ASSUME activeDriver = "FAT32"
       PROVE  IF norm \in {<<>>, <<Slash>>} THEN Wanted(c) = <<>> ELSE Wanted(c) = sections
  <2>1. CASE op = "ls" /\ Len(full) = 1
    <3>1. path = <<>>
      BY <1>10, <2>1
    <3>2. norm = <<>>
      BY <1>1, <3>1 DEF Normalized
    <3>3. Wanted(c) = <<>>
      BY <1>5, <2>1 DEF Wanted
    <3> QED  BY <3>2, <3>3
  <2>2. CASE op = "ls" /\ Len(full) # 1
    <3>1. path = Front(full) /\ path # <<>> /\ Head(path) = Slash
      BY <1>10, <2>2
    <3>2. Wanted(c) = Names(path)
      BY <1>5, <2>2, <3>1 DEF Wanted
    <3> QED  BY <1>1, <3>1, <3>2, NormalizedIs
  <2>3. CASE op = "read"
    <3>1. path = full /\ path # <<>> /\ Head(path) = Slash
      BY <1>10, <2>3
    <3>2. Wanted(c) = Names(path)
      BY <1>5, <2>3, <3>1 DEF Wanted
    <3> QED  BY <1>1, <3>1, <3>2, NormalizedIs
  <2> QED  BY <2>1, <2>2, <2>3
<1>11. CASE activeDriver = "none"
  <2>1. pc' = "fault" /\ CallOK("fault", c) /\ Lost("fault", c) /\ "fault" \in Places
    BY <1>3, <1>6, <1>11, AtRest DEF Lost, Places
  <2> QED  BY <1>3, <1>8, <2>1, StepKeeps
<1>12. CASE activeDriver = "FAT32" /\ norm \in {<<>>, <<Slash>>}
  <2>1. pc' = "list" /\ "list" \in Places /\ Lost("list", c)
    BY <1>3, <1>12 DEF Lost, Places
  <2>2. Wanted(c) = <<>> /\ IsText(<<>>)
    BY <1>10, <1>12, EmptyText
  <2>3. CallOK("list", c)
    BY <1>5, <1>6, <1>7, <1>9, <2>2 DEF CallOK
  <2> QED  BY <1>3, <1>8, <2>1, <2>3, StepKeeps
<1>13. CASE activeDriver = "FAT32" /\ norm \notin {<<>>, <<Slash>>} /\ Len(sections) > MAX_PATH_DEPTH
  <2>1. pc' = "deep" /\ CallOK("deep", c) /\ Lost("deep", c) /\ "deep" \in Places
    BY <1>3, <1>6, <1>13, AtRest DEF Lost, Places
  <2> QED  BY <1>3, <1>8, <2>1, StepKeeps
<1>14. CASE activeDriver = "FAT32" /\ norm \notin {<<>>, <<Slash>>} /\ ~(Len(sections) > MAX_PATH_DEPTH)
  <2>1. pc' = "walk" /\ "walk" \in Places /\ Lost("walk", c)
    BY <1>3, <1>14 DEF Lost, Places
  <2>2. Wanted(c) = sections
    BY <1>10, <1>14
  <2>3. SubSeq(c.sections, 1, c.i - 1) = <<>>
    <3>1. 0 \in 0 .. Len(sections)
      BY <1>4, TextIs
    <3>2. SubSeq(sections, 1, 0) = <<>>
      BY <1>4, <3>1, Beginnings, EmptyText
    <3>3. c.i - 1 = 0
      BY <1>5
    <3> QED  BY <1>5, <3>2, <3>3
  <2>4. Clean(c) => DirectoryAt(volume, SubSeq(c.sections, 1, c.i - 1)) = {c.cluster}
    BY <1>9, <2>3
  <2>5. c.i # 0
    BY <1>5
  <2>6. CallOK("walk", c)
    BY <1>4, <1>5, <1>6, <1>7, <2>2, <2>4, <2>5 DEF CallOK
  <2> QED  BY <1>3, <1>8, <2>1, <2>6, StepKeeps
<1> QED  BY <1>7, <1>11, <1>12, <1>13, <1>14

LEMMA filesystem_listKeeps ==
  ASSUME IInv, filesystem_list
  PROVE  IInv'
<1>1. PICK full, path : /\ full = currentPath /\ path = str_cut_end(full)
  OBVIOUS
<1>2. pc = "idle" /\ find_entry("ls", full, path)
  BY <1>1 DEF filesystem_list, Prompt
<1>3. /\ IsText(full)
      /\ activeDriver = "FAT32" => full # <<>> /\ Head(full) = Slash
  BY <1>1 DEF IInv, PathOK
<1>4. IsText(path)
      /\ (full # <<>> /\ Head(full) = Slash =>
            IF Len(full) = 1 THEN path = <<>>
            ELSE path = Front(full) /\ path # <<>> /\ Head(path) = Slash)
  <2>1. CASE full = <<>>
    BY <1>1, <1>3, <2>1 DEF str_cut_end
  <2>2. CASE full # <<>>
    <3>1. PICK m : m = Len(full) /\ m \in Nat /\ m # 0 /\ Head(full) = full[1]
      BY <1>3, <2>2, Ends
    <3>2. path = SubSeq(full, 1, m - 1) /\ path = Front(full)
      BY <1>1, <2>2, <3>1 DEF str_cut_end, Front
    <3>3. IsText(path) /\ Len(path) = m - 1 /\ \A i \in 1 .. m - 1 : path[i] = full[i]
      <4>1. m - 1 \in 0 .. Len(full)
        BY <3>1
      <4> QED  BY <1>3, <3>2, <4>1, Beginnings
    <3>4. CASE m = 1
      <4>1. path = <<>>
        BY <3>3, <3>4, EmptyText
      <4> QED  BY <3>1, <3>3, <3>4, <4>1
    <3>5. CASE m # 1
      <4>1. path # <<>> /\ 1 \in 1 .. m - 1
        BY <3>1, <3>3, <3>5, EmptyText
      <4>2. Head(path) = full[1]
        BY <3>3, <4>1, Ends
      <4> QED  BY <3>1, <3>2, <3>3, <3>5, <4>1, <4>2
    <3> QED  BY <3>4, <3>5
  <2> QED  BY <2>1, <2>2
<1>5. PICK op \in {"ls", "read"} : op = "ls"
  OBVIOUS
<1> QED  BY <1>2, <1>3, <1>4, <1>5, find_entryKeeps

LEMMA cmd_readKeeps ==
  ASSUME IInv, NEW args \in ReadArgs, cmd_read(args)
  PROVE  IInv'
<1>1. PICK full, old : old = currentPath /\ full = old \o args
  OBVIOUS
<1>2. pc = "idle" /\ find_entry("read", full, full)
  BY <1>1 DEF cmd_read, Prompt
<1>3. /\ IsText(old) /\ IsText(args)
      /\ activeDriver = "FAT32" => old # <<>> /\ Head(old) = Slash
  BY <1>1, FilesAssumption DEF IInv, PathOK
<1>4. IsText(full) /\ (old # <<>> /\ Head(old) = Slash => full # <<>> /\ Head(full) = Slash)
  <2>1. Joined(full, old, args) /\ Len(args) \in Nat
    BY <1>1, <1>3, TextsJoin, TextIs
  <2>2. ASSUME old # <<>>, Head(old) = Slash PROVE full # <<>> /\ Head(full) = Slash
    <3>1. Len(old) \in Nat \ {0} /\ old[1] = Slash
      BY <1>3, <2>2, Ends
    <3>2. IsText(full) /\ Len(full) = Len(old) + Len(args) /\ full[1] = old[1]
      BY <2>1, <3>1 DEF Joined
    <3>3. full # <<>>
      BY <2>1, <3>1, <3>2, EmptyText
    <3> QED  BY <3>1, <3>2, <3>3, Ends
  <2> QED  BY <2>1, <2>2 DEF Joined
<1>5. PICK op \in {"ls", "read"} : op = "read"
  OBVIOUS
<1> QED  BY <1>2, <1>3, <1>4, <1>5, find_entryKeeps

-----------------------------------------------------------------------------
(* Steps that change the path or the driver                                   *)

\* What is to be shown of a step that begins no read and leaves the volume alone.
LEMMA QuietStepKeeps ==
  ASSUME IInv, volume' = volume, TypeOK', PathOK', NEW at \in {"idle", "deep"}, pc' = at,
         call' = call, shown' \in {shown, Nothing}
  PROVE  IInv'
<1>1. PICK c : c = call
  OBVIOUS
<1>2. PICK s : s = shown'
  OBVIOUS
<1>3. CallOK(at, c)
  <2>1. CallTyped(c)
    BY <1>1 DEF IInv, CallOK
  <2> QED  BY <2>1, AtRest
<1>4. LsGood(s) /\ ReadGood(s)
  <2>1. LsGood(shown) /\ ReadGood(shown)
    BY LsGoodIs, ReadGoodIs DEF IInv
  <2>2. LsGood(Nothing) /\ ReadGood(Nothing)
    BY DEF LsGood, ReadGood, Nothing
  <2> QED  BY <1>2, <2>1, <2>2
<1>5. CallOK(pc, call)'
  <2>1. Clean(c)' <=> Clean(c)
    BY <1>1, SameVolume DEF Clean
  <2>2. Wanted(c)' = Wanted(c)
    BY DEF Wanted
  <2>3. CallOK(at, c)'
    BY <1>3, <2>1, <2>2, SameVolume, SameCopying DEF CallOK, CallTyped
  <2> QED  BY <1>1, <2>3
<1>6. LsShowsDirectory'
  <2>1. LsGood(s)'
    BY <1>4, SameVolume DEF LsGood
  <2>2. LsGood(shown)'
    BY <1>2, <2>1
  <2>3. (LsShowsDirectory <=> LsGood(shown))'
    BY LsGoodIs, PTL
  <2> QED  BY <2>2, <2>3
<1>7. ReadShowsFile'
  <2>1. ReadGood(s)'
    BY <1>4, SameVolume DEF ReadGood
  <2>2. ReadGood(shown)'
    BY <1>2, <2>1
  <2>3. (ReadShowsFile <=> ReadGood(shown))'
    BY ReadGoodIs, PTL
  <2> QED  BY <2>2, <2>3
<1>8. OnlyKnownLosses'
  BY DEF OnlyKnownLosses
<1> QED  BY <1>5, <1>6, <1>7, <1>8 DEF IInv

\* cd keeps the path absolute.
LEMMA filesystem_change_directoryKeeps ==
  ASSUME IInv, NEW path \in CdArgs, filesystem_change_directory(path)
  PROVE  IInv'
<1>1. PICK old, slash : old = currentPath /\ slash = <<Slash>>
  OBVIOUS
<1>2. /\ pc = "idle" /\ pc' \in {"idle", "deep"} /\ shown' = Nothing
      /\ UNCHANGED <<devices, volume, selected, activeDriver, RootCluster, call>>
  BY DEF filesystem_change_directory, Prompt
<1>3. \/ currentPath' = slash
      \/ path # <<>> /\ Head(path) = Slash /\ currentPath' = path
      \/ currentPath' = old \o path \o slash
      \/ currentPath' = old
  BY <1>1 DEF filesystem_change_directory
<1>4. IsText(path) /\ IsText(old) /\ IsText(slash) /\ Len(slash) = 1 /\ slash[1] = Slash
  <2>1. slash \in Seq({Slash})
    BY <1>1
  <2> QED  BY <1>1, <2>1, TextIs, FilesAssumption DEF IInv, PathOK
<1>5. slash # <<>> /\ Head(slash) = Slash
  BY <1>1, <1>4
<1>6. PICK first, both : first = old \o path /\ both = first \o slash
  OBVIOUS
<1>7. IsText(both) /\ (old # <<>> /\ Head(old) = Slash => both # <<>> /\ Head(both) = Slash)
  <2>1. Joined(first, old, path)
    BY <1>4, <1>6, TextsJoin
  <2>2. IsText(first)
    BY <2>1 DEF Joined
  <2>3. Joined(both, first, slash)
    BY <1>4, <1>6, <2>2, TextsJoin
  <2>4. IsText(both)
    BY <2>3 DEF Joined
  <2>5. ASSUME old # <<>>, Head(old) = Slash PROVE both # <<>> /\ Head(both) = Slash
    <3>1. Len(old) \in Nat \ {0} /\ old[1] = Slash
      BY <1>4, <2>5, Ends
    <3>2. Len(first) = Len(old) + Len(path) /\ first[1] = old[1] /\ Len(path) \in Nat
      BY <1>4, <2>1, <3>1, TextIs DEF Joined
    <3>3. Len(both) = Len(first) + 1 /\ both[1] = first[1]
      BY <1>4, <2>3, <3>1, <3>2 DEF Joined
    <3>4. both # <<>>
      BY <3>1, <3>2, <3>3, EmptyText
    <3> QED  BY <2>4, <3>1, <3>2, <3>3, <3>4, Ends
  <2> QED  BY <2>4, <2>5
<1>8. PathOK'
  <2>1. /\ IsText(old) /\ activeDriver \in {"none", "FAT32"}
        /\ activeDriver = "FAT32" => old # <<>> /\ Head(old) = Slash
    BY <1>1 DEF IInv, PathOK
  <2>2. PICK new : new = currentPath'
    OBVIOUS
  <2>3. IsText(new) /\ (activeDriver = "FAT32" => new # <<>> /\ Head(new) = Slash)
    <3>1. CASE new = slash
      BY <1>4, <1>5, <3>1
    <3>2. CASE path # <<>> /\ Head(path) = Slash /\ new = path
      BY <1>4, <3>2
    <3>3. CASE new = both
      BY <1>7, <2>1, <3>3
    <3>4. CASE new = old
      BY <2>1, <3>4
    <3> QED  BY <1>3, <1>6, <2>2, <3>1, <3>2, <3>3, <3>4
  <2>4. activeDriver' = activeDriver
    BY <1>2
  <2> QED  BY <2>1, <2>2, <2>3, <2>4 DEF PathOK, IsText
<1>9. TypeOK'
  BY <1>2 DEF IInv, TypeOK
<1>10. PICK at \in {"idle", "deep"} : pc' = at
  BY <1>2
<1> QED  BY <1>2, <1>8, <1>9, <1>10, QuietStepKeeps

\* Only a partition of type 0B or 0C is taken for FAT32.
LEMMA OnlyFat32 ==
  ASSUME NEW read, NEW part \in search_suitable_storage_partition(read)
  PROVE  devices[part[1]].types[part[2]] \in {"x0B", "x0C"} /\ part # <<0, 0>>
<1>1. PICK d, p : d = part[1] /\ p = part[2] /\ p \in 1 .. 4
  BY DEF search_suitable_storage_partition
<1>2. PICK parts : parts = fill_partition_infos(d, read) /\ p \in DOMAIN parts /\ parts[p] = "FAT32"
  BY <1>1 DEF search_suitable_storage_partition
<1>3. PICK sector : sector = devices[d]
  OBVIOUS
<1>4. parts = [q \in 1 .. 4 |-> FilesystemType(sector.types[q])]
  <2>1. parts # <<>>
    BY <1>2
  <2> QED  BY <1>2, <1>3, <2>1 DEF fill_partition_infos, parse_mbr
<1>5. PICK b : b = sector.types[p]
  OBVIOUS
<1>6. FilesystemType(b) = "FAT32"
  BY <1>1, <1>2, <1>4, <1>5
<1>7. b \in {"x0B", "x0C"}
  BY <1>6 DEF FilesystemType, FilesystemTypes
<1>8. part # <<0, 0>>
  BY <1>1
<1> QED  BY <1>1, <1>3, <1>5, <1>7, <1>8

LEMMA init_filesystemKeeps ==
  ASSUME IInv, init_filesystem
  PROVE  IInv'
<1>1. PICK read : init_fat32(read) \/ NoFilesystem(read)
  BY DEF init_filesystem
<1>2. pc' = "idle" /\ UNCHANGED <<devices, volume, call, shown>>
  BY DEF init_filesystem
<1>3. TypeOK' /\ PathOK'
  <2>1. CASE init_fat32(read)
    <3>1. PICK part \in search_suitable_storage_partition(read) : selected' = part
      BY <2>1 DEF init_fat32
    <3>2. devices[part[1]].types[part[2]] \in {"x0B", "x0C"} /\ part # <<0, 0>>
      BY OnlyFat32
    <3>3. activeDriver' = "FAT32" /\ RootCluster' \in {volume.root, 0} /\ currentPath' = <<Slash>>
      BY <2>1 DEF init_fat32
    <3>4. TypeOK'
      BY <1>2, <3>1, <3>2, <3>3 DEF IInv, TypeOK
    <3>5. PathOK'
      <4>1. PICK slash : slash = <<Slash>>
        OBVIOUS
      <4>2. IsText(slash) /\ slash # <<>> /\ Head(slash) = Slash
        <5>1. slash \in Seq({Slash})
          BY <4>1
        <5>2. IsText(slash)
          BY <5>1, TextIs
        <5>3. slash # <<>> /\ Head(slash) = Slash
          BY <4>1
        <5> QED  BY <5>2, <5>3
      <4>3. currentPath' = slash
        BY <3>3, <4>1
      <4> QED  BY <3>3, <4>2, <4>3 DEF PathOK, IsText
    <3> QED  BY <3>4, <3>5
  <2>2. CASE NoFilesystem(read)
    <3>1. UNCHANGED <<selected, activeDriver, RootCluster, currentPath>>
      BY <2>2 DEF NoFilesystem
    <3>2. TypeOK'
      BY <1>2, <3>1 DEF IInv, TypeOK
    <3>3. PathOK'
      BY <3>1 DEF IInv, PathOK, IsText
    <3> QED  BY <3>2, <3>3
  <2> QED  BY <1>1, <2>1, <2>2
<1>4. PICK at \in {"idle", "deep"} : at = "idle"
  OBVIOUS
<1>5. pc' = at /\ call' = call /\ shown' \in {shown, Nothing} /\ volume' = volume
  BY <1>2, <1>4
<1> QED  BY <1>3, <1>5, QuietStepKeeps

-----------------------------------------------------------------------------
(* The invariant, and what it gives                                           *)

LEMMA InitHolds == Init => IInv
<1> SUFFICES ASSUME Init PROVE IInv
  OBVIOUS
<1>1. PICK empty : empty = <<>> /\ IsText(empty) /\ Len(empty) = 0
  BY EmptyText
<1>2. /\ volume \in Volumes /\ activeDriver = "none" /\ selected = <<0, 0>> /\ RootCluster = 0
      /\ currentPath = empty /\ pc = "boot" /\ call = NoCall /\ shown = Nothing
  BY <1>1 DEF Init
<1>3. TypeOK
  <2>1. call.i = 0 /\ call.sections = empty
    BY <1>1, <1>2 DEF NoCall
  <2> QED  BY <1>1, <1>2, <2>1 DEF TypeOK
<1>4. PathOK
  BY <1>1, <1>2 DEF PathOK
<1>5. CallOK(pc, call)
  <2>1. CallTyped(call)
    BY <1>2, NoCallOK DEF CallOK
  <2> QED  BY <1>2, <2>1, AtRest
<1>6. LsShowsDirectory /\ ReadShowsFile
  <2>1. LsGood(Nothing) /\ ReadGood(Nothing)
    BY DEF LsGood, ReadGood, Nothing
  <2> QED  BY <1>2, <2>1, LsGoodIs, ReadGoodIs
<1>7. OnlyKnownLosses
  BY <1>2 DEF OnlyKnownLosses
<1> QED  BY <1>2, <1>3, <1>4, <1>5, <1>6, <1>7 DEF IInv

LEMMA StutterKeeps ==
  ASSUME IInv, UNCHANGED vars
  PROVE  IInv'
<1>1. PICK at, c, s : at = pc /\ c = call /\ s = shown
  OBVIOUS
<1>2. at \in Places
  BY <1>1 DEF IInv, TypeOK, Places
<1>3. CallOK(at, c) /\ LsGood(s) /\ ReadGood(s)
  BY <1>1, InvFacts
<1>4. Lost(at, c)
  BY <1>1, LostIs DEF IInv
<1>5. Kept /\ pc' = at /\ call' = c /\ shown' = s
  BY <1>1 DEF vars, Kept
<1> QED  BY <1>2, <1>3, <1>4, <1>5, StepKeeps

LEMMA NextKeeps == IInv /\ [Next]_vars => IInv'
<1> SUFFICES ASSUME IInv, [Next]_vars PROVE IInv'
  OBVIOUS
<1>1. CASE init_filesystem
  BY <1>1, init_filesystemKeeps
<1>2. CASE \E path \in CdArgs : filesystem_change_directory(path)
  BY <1>2, filesystem_change_directoryKeeps
<1>3. CASE filesystem_list
  BY <1>3, filesystem_listKeeps
<1>4. CASE \E args \in ReadArgs : cmd_read(args)
  BY <1>4, cmd_readKeeps
<1>5. CASE WalkSection
  BY <1>5, WalkSectionKeeps
<1>6. CASE WalkLast
  BY <1>6, WalkLastKeeps
<1>7. CASE get_entries
  BY <1>7, get_entriesKeeps
<1>8. CASE read_cluster_chain
  BY <1>8, read_cluster_chainKeeps
<1>9. CASE UNCHANGED vars
  BY <1>9, StutterKeeps
<1> QED  BY <1>1, <1>2, <1>3, <1>4, <1>5, <1>6, <1>7, <1>8, <1>9 DEF Next

\* What is true of the disks, the path and the call in progress between any two reads: a
\* walk is in the directory its path has led to so far, a copy stands at its place in the
\* chain of a file of the volume with room for the rest (find_entry, read_cluster_chain).
THEOREM FilesInvariant == Spec => []IInv
<1>1. Init => IInv
  BY InitHolds
<1>2. IInv /\ [Next]_vars => IInv'
  BY NextKeeps
<1> QED  BY <1>1, <1>2, PTL DEF Spec

\* The driver is active only on a partition that the table calls FAT32 (storage.cpp).
THEOREM DriverOnFat32 == Spec => []TypeOK
<1>1. IInv => TypeOK
  BY DEF IInv
<1> QED  BY <1>1, FilesInvariant, PTL

\* ls prints the items of exactly the directory that the path names, in their order and cut
\* off at most behind the directory's first cluster, when the path ends in a separator and no
\* read has failed
\* (filesystem_list, find_entry, get_entries_in_dir).
THEOREM LsIsRight == Spec => []LsShowsDirectory
<1>1. IInv => LsShowsDirectory
  BY DEF IInv
<1> QED  BY <1>1, FilesInvariant, PTL

\* read prints every byte of exactly the file that the path names, or the error message,
\* when no read has failed (cmd_read, find_entry, read_cluster_chain, fat32_read).
THEOREM ReadIsRight == Spec => []ReadShowsFile
<1>1. IInv => ReadShowsFile
  BY DEF IInv
<1> QED  BY <1>1, FilesInvariant, PTL

\* On a volume without deleted files a read that succeeds or times out never writes behind
\* its buffer, and only an empty file makes one fault (read_cluster_chain, fat32_read).
THEOREM LossesAreKnown == Spec => []OnlyKnownLosses
<1>1. IInv => OnlyKnownLosses
  BY DEF IInv
<1> QED  BY <1>1, FilesInvariant, PTL
=============================================================================
