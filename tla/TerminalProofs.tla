--------------------------- MODULE TerminalProofs ---------------------------
(***************************************************************************)
(* Proofs about Terminal for every key map, set of commands, width of the  *)
(* screen, size of the line buffer and of the history.                     *)
(*                                                                         *)
(* Printing a text is a fold over its characters.  FoldLeft is made of a   *)
(* recursive function; that such a function exists, and what it yields     *)
(* after any number of rounds, is shown here by looking at the least round *)
(* at which it would not (UpTo).                                           *)
(***************************************************************************)
EXTENDS Terminal, SequenceTheorems, FiniteSetTheorems, WellFoundedInduction, TLAPS

-----------------------------------------------------------------------------
(* Induction and folds                                                        *)

\* Induction up to n: there is no least number outside of T.
LEMMA UpTo ==
  ASSUME NEW n \in Nat, NEW T, 0 \in T, \A i \in 0 .. n - 1 : i \in T => i + 1 \in T
  PROVE  \A i \in 0 .. n : i \in T
<1> DEFINE Less == {ss \in Nat \X Nat : ss[1] < ss[2]}
           Missing == {i \in 0 .. n : i \notin T}
<1>1. IsWellFoundedOn(Less, Nat)
  BY NatLessThanWellFounded DEF OpToRel
<1> SUFFICES ASSUME Missing # {} PROVE FALSE
  OBVIOUS
<1>2. Missing \subseteq Nat
  OBVIOUS
<1>3. PICK m \in Missing : \A y \in Missing : <<y, m>> \notin Less
  <2> HIDE DEF Less, Missing
  <2> QED  BY <1>1, <1>2, WFMin
<1>4. m \in Nat /\ m # 0
  OBVIOUS
<1>5. PICK l \in Nat : m = l + 1
  <2>1. m - 1 \in Nat /\ m = (m - 1) + 1
    BY <1>4
  <2> QED  BY <2>1
<1>6. <<l, m>> \in Less
  BY <1>4, <1>5
<1>7. l \in 0 .. n - 1 /\ l \in T
  BY <1>3, <1>5, <1>6
<1> QED  BY <1>5, <1>7

\* The greatest element of a set that has one.
LEMMA MaxIs ==
  ASSUME NEW S, NEW m \in S, m \in Int, \A x \in S : x \in Int /\ x <= m
  PROVE  Max(S) = m
<1>1. \E x \in S : \A y \in S : x >= y
  BY DEF Max
<1> DEFINE g == CHOOSE x \in S : \A y \in S : x >= y
<1>2. g \in S /\ \A y \in S : g >= y
  BY <1>1
<1>3. g = m
  <2> HIDE DEF g
  <2> QED  BY <1>2
<1> QED  BY <1>3 DEF Max

\* The rounds of a fold over n elements: what the recursive function in MapThenFoldSet
\* is asked for, with the steps as functions on a set D.
Folds(h, n, base, step) ==
  h = [s \in SUBSET (1 .. n) |-> IF s = {} THEN base ELSE step[Max(s)][h[s \ {Max(s)}]]]

\* It exists.
LEMMA FoldExists ==
  ASSUME NEW D, NEW n \in Nat, NEW base \in D, NEW step \in [1 .. n -> [D -> D]]
  PROVE  \E h \in [SUBSET (1 .. n) -> D] : Folds(h, n, base, step)
<1> DEFINE T == {k \in 0 .. n : \E h \in [SUBSET (1 .. k) -> D] : Folds(h, k, base, step)}
<1>1. 0 \in T
  <2>1. SUBSET (1 .. 0) = {{}}
    OBVIOUS
  <2>2. PICK h \in [SUBSET (1 .. 0) -> D] : h = [s \in SUBSET (1 .. 0) |-> base]
    OBVIOUS
  <2>3. Folds(h, 0, base, step)
    BY <2>1, <2>2 DEF Folds
  <2>4. 0 \in 0 .. n
    OBVIOUS
  <2> QED  BY <2>2, <2>3, <2>4, Zenon
<1>2. ASSUME NEW k \in 0 .. n - 1, k \in T
      PROVE  k + 1 \in T
  <2>1. PICK h \in [SUBSET (1 .. k) -> D] : Folds(h, k, base, step)
    BY <1>2
  <2>2. PICK m \in Nat : m = k + 1 /\ m \in 1 .. n
    OBVIOUS
  <2>3. ASSUME NEW s \in SUBSET (1 .. m)
        PROVE  /\ m \in s => s \ {m} \in SUBSET (1 .. k) /\ Max(s) = m
               /\ m \notin s => s \in SUBSET (1 .. k)
    <3>1. \A x \in 1 .. m : x \in Int /\ x <= m /\ (x # m => x \in 1 .. k)
      BY <2>2
    <3>2. m \in s => Max(s) = m
      BY <3>1, MaxIs
    <3> QED  BY <3>1, <3>2
  <2> DEFINE f == [s \in SUBSET (1 .. m) |-> IF m \in s THEN step[m][h[s \ {m}]] ELSE h[s]]
  <2>4. f \in [SUBSET (1 .. m) -> D]
    <3>1. ASSUME NEW s \in SUBSET (1 .. m)
          PROVE  (IF m \in s THEN step[m][h[s \ {m}]] ELSE h[s]) \in D
      <4>1. CASE m \in s
        <5>1. h[s \ {m}] \in D
          BY <2>3, <4>1
        <5>2. step[m] \in [D -> D]
          BY <2>2
        <5> QED  BY <4>1, <5>1, <5>2
      <4>2. CASE m \notin s
        BY <2>3, <4>2
      <4> QED  BY <4>1, <4>2
    <3> QED  BY <3>1
  <2>5. ASSUME NEW s \in SUBSET (1 .. m)
        PROVE  f[s] = IF s = {} THEN base ELSE step[Max(s)][f[s \ {Max(s)}]]
    <3>0. \A t \in SUBSET (1 .. k) : t \in SUBSET (1 .. m) /\ m \notin t /\ f[t] = h[t]
      <4>1. \A x \in 1 .. k : x \in 1 .. m /\ x # m
        BY <2>2
      <4> QED  BY <4>1
    <3>1. CASE m \in s
      <4>1. f[s] = step[m][h[s \ {m}]]
        BY <3>1
      <4>2. f[s \ {m}] = h[s \ {m}] /\ Max(s) = m
        BY <2>3, <3>0, <3>1
      <4> HIDE DEF f
      <4> QED  BY <3>1, <4>1, <4>2
    <3>2. CASE m \notin s
      <4>1. s \in SUBSET (1 .. k) /\ f[s] = h[s]
        BY <2>3, <3>0, <3>2
      <4>2. h[s] = IF s = {} THEN base ELSE step[Max(s)][h[s \ {Max(s)}]]
        BY <2>1, <4>1 DEF Folds
      <4>3. s \ {Max(s)} \in SUBSET (1 .. k)
        BY <4>1
      <4>4. f[s \ {Max(s)}] = h[s \ {Max(s)}]
        BY <3>0, <4>3
      <4> HIDE DEF f
      <4> QED  BY <4>1, <4>2, <4>4
    <3> QED  BY <3>1, <3>2
  <2>6. Folds(f, m, base, step)
    <3>1. f = [s \in SUBSET (1 .. m) |-> f[s]]
      OBVIOUS
    <3> HIDE DEF f
    <3> QED  BY <2>5, <3>1 DEF Folds
  <2> HIDE DEF f
  <2>7. m \in 0 .. n
    BY <2>2
  <2> QED  BY <2>2, <2>4, <2>6, <2>7
<1> HIDE DEF T
<1>3. \A i \in 0 .. n : i \in T
  BY <1>1, <1>2, UpTo
<1>4. n \in T
  BY <1>3
<1> QED  BY <1>4 DEF T

\* A function as in Folds goes through the elements in order.
LEMMA FoldRuns ==
  ASSUME NEW n \in Nat, NEW i \in 1 .. n
  PROVE  /\ Max(1 .. i) = i /\ (1 .. i) \ {i} = 1 .. i - 1 /\ 1 .. i # {}
         /\ 1 .. i \in SUBSET (1 .. n)
<1>1. Max(1 .. i) = i
  <2>1. i \in 1 .. i /\ i \in Int /\ \A x \in 1 .. i : x \in Int /\ x <= i
    OBVIOUS
  <2> QED  BY <2>1, MaxIs
<1>2. \A x : x \in 1 .. i /\ x # i <=> x \in 1 .. i - 1
  OBVIOUS
<1>3. (1 .. i) \ {i} = 1 .. i - 1
  BY <1>2
<1> QED  BY <1>1, <1>3

\* Every set of rounds but the empty one has a last round.
LEMMA SomeMax ==
  ASSUME NEW n \in Nat, NEW s \in SUBSET (1 .. n), s # {}
  PROVE  /\ Max(s) \in 1 .. n /\ s \ {Max(s)} \in SUBSET (1 .. n)
         /\ Max(s) \in s /\ \A x \in s : x <= Max(s)
<1> DEFINE Above == {k \in 0 .. n : \E m \in s : n - m = k}
           Less == {ss \in Nat \X Nat : ss[1] < ss[2]}
<1>1. IsWellFoundedOn(Less, Nat)
  BY NatLessThanWellFounded DEF OpToRel
<1>2. Above \subseteq Nat /\ Above # {}
  <2>1. PICK m \in s : TRUE
    OBVIOUS
  <2>2. m \in 1 .. n
    OBVIOUS
  <2>3. n - m \in Above
    BY <2>2
  <2>4. Above \subseteq Nat
    OBVIOUS
  <2> HIDE DEF Above
  <2> QED  BY <2>3, <2>4
<1>3. PICK k \in Above : \A y \in Above : <<y, k>> \notin Less
  <2> HIDE DEF Above, Less
  <2> QED  BY <1>1, <1>2, WFMin
<1>4. PICK m \in s : n - m = k
  OBVIOUS
<1>5. ASSUME NEW x \in s PROVE x \in Int /\ x <= m
  <2>1. x \in 1 .. n /\ m \in 1 .. n
    OBVIOUS
  <2>2. n - x \in Above
    BY <2>1
  <2>3. ~(n - x < k)
    BY <1>2, <1>3, <2>2
  <2> QED  BY <1>4, <2>1, <2>3
<1>6. m \in Int /\ m \in 1 .. n
  OBVIOUS
<1>7. Max(s) = m
  BY <1>5, <1>6, MaxIs
<1> QED  BY <1>5, <1>6, <1>7

\* And a first.
LEMMA SomeMin ==
  ASSUME NEW n \in Nat, NEW s \in SUBSET (1 .. n), s # {}
  PROVE  Min(s) \in s /\ \A x \in s : Min(s) <= x
<1> DEFINE Less == {ss \in Nat \X Nat : ss[1] < ss[2]}
<1>1. IsWellFoundedOn(Less, Nat)
  BY NatLessThanWellFounded DEF OpToRel
<1>2. s \subseteq Nat
  OBVIOUS
<1>3. PICK m \in s : \A y \in s : <<y, m>> \notin Less
  <2> HIDE DEF Less
  <2> QED  BY <1>1, <1>2, WFMin
<1>4. ASSUME NEW y \in s PROVE m <= y
  <2>1. y \in Nat /\ m \in Nat /\ ~(y < m)
    BY <1>2, <1>3
  <2> QED  BY <2>1
<1> DEFINE g == CHOOSE x \in s : \A y \in s : x <= y
<1>5. g \in s /\ \A y \in s : g <= y
  BY <1>4
<1> QED  BY <1>5 DEF Min

\* H goes on from the first i - 1 elements to the first i as the step says.
StepsOn(H, D, n, base, step) ==
  /\ n \in Nat /\ base \in D /\ step \in [1 .. n -> [D -> D]]
  /\ H[{}] = base
  /\ \A i \in 1 .. n : H[1 .. i - 1] \in D => H[1 .. i] = step[i][H[1 .. i - 1]]

\* g is what there is after 0, 1, ... n rounds.
Rounds(g, D, n, base, step) ==
  /\ g \in [0 .. n -> D]
  /\ g[0] = base
  /\ \A i \in 1 .. n : g[i] = step[i][g[i - 1]]

\* What a function as in Folds makes of the first 0, 1, ... elements.
LEMMA RoundsOf ==
  ASSUME NEW D, NEW n, NEW base, NEW step, NEW H, StepsOn(H, D, n, base, step)
  PROVE  \E g : Rounds(g, D, n, base, step) /\ g[n] = H[1 .. n]
<1>0. n \in Nat /\ base \in D /\ step \in [1 .. n -> [D -> D]]
  BY DEF StepsOn
<1> USE <1>0
<1> DEFINE g == [i \in 0 .. n |-> H[1 .. i]]
           T == {j \in 0 .. n : g[j] \in D}
<1>1. g[0] = base
  <2>1. 1 .. 0 = {} /\ 0 \in 0 .. n
    OBVIOUS
  <2> QED  BY <2>1 DEF StepsOn
<1>2. \A i \in 1 .. n : g[i - 1] \in D => g[i] = step[i][g[i - 1]]
  <2>1. \A i \in 1 .. n : i \in 0 .. n /\ i - 1 \in 0 .. n
    OBVIOUS
  <2> QED  BY <2>1 DEF StepsOn
<1>3. g[n] = H[1 .. n]
  OBVIOUS
<1>4. g = [i \in 0 .. n |-> g[i]]
  OBVIOUS
<1> HIDE DEF g
<1>5. 0 \in T
  BY <1>1
<1>6. ASSUME NEW i \in 0 .. n - 1, i \in T
      PROVE  i + 1 \in T
  <2>1. i + 1 \in 1 .. n /\ i + 1 \in 0 .. n /\ (i + 1) - 1 = i
    OBVIOUS
  <2>2. g[i] \in D
    BY <1>6
  <2>3. g[i + 1] = step[i + 1][g[i]] /\ step[i + 1] \in [D -> D]
    BY <1>2, <2>1, <2>2
  <2> QED  BY <2>1, <2>2, <2>3
<1> HIDE DEF T
<1>7. \A i \in 0 .. n : i \in T
  BY <1>5, <1>6, UpTo
<1>8. \A i \in 0 .. n : g[i] \in D
  BY <1>7 DEF T
<1>9. g \in [0 .. n -> D]
  BY <1>4, <1>8
<1>10. \A i \in 1 .. n : g[i] = step[i][g[i - 1]]
  <2>1. \A i \in 1 .. n : i - 1 \in 0 .. n
    OBVIOUS
  <2> QED  BY <1>2, <1>8, <2>1
<1> QED  BY <1>1, <1>3, <1>9, <1>10 DEF Rounds

-----------------------------------------------------------------------------
(* The editor                                                                 *)

Cells == [text : Chars \cup {NoChar, "prompt", "other"}, interactable : BOOLEAN]

Editors ==
  [buf : Seq(Chars), pos : Int, start : Int, x : Int, amount : Int,
   cell : [Columns -> Cells], prompt : Nat, home : Int, exact : BOOLEAN]

\* The marks are different cells.
LEMMA Marks ==
  /\ Prompt \in Cells /\ Blank \in Cells /\ Other \in Cells
  /\ Blank # Prompt /\ Other # Prompt
  /\ \A c \in Chars : Cell(c, TRUE) \in Cells /\ Cell(c, TRUE) # Prompt
BY TerminalAssumption DEF Cells, Prompt, Blank, Other, Cell

\* An editor is the record of its fields.
LEMMA EditorIs ==
  ASSUME NEW e \in Editors
  PROVE  /\ e = [buf |-> e.buf, pos |-> e.pos, start |-> e.start, x |-> e.x, amount |-> e.amount,
                 cell |-> e.cell, prompt |-> e.prompt, home |-> e.home, exact |-> e.exact]
         /\ e.buf \in Seq(Chars) /\ e.pos \in Int /\ e.start \in Int /\ e.x \in Int /\ e.amount \in Int
         /\ e.cell \in [Columns -> Cells] /\ e.prompt \in Nat /\ e.home \in Int /\ e.exact \in BOOLEAN
BY DEF Editors

\* newline moves every cell up by a row.
LEMMA NewlineIs ==
  ASSUME NEW e \in Editors, NEW f, f = newline(e)
  PROVE  /\ f \in Editors
         /\ f.buf = e.buf /\ f.pos = e.pos /\ f.start = e.start /\ f.x = 0 /\ f.amount = 0
         /\ f.prompt = e.prompt /\ f.home = e.home - MAX_CHARS /\ f.exact = e.exact
         /\ \A c \in Columns : f.cell[c] = IF c + MAX_CHARS \in Columns THEN e.cell[c + MAX_CHARS] ELSE Blank
<1>1. PICK cs : cs = [c \in Columns |-> IF c + MAX_CHARS \in Columns
                                        THEN e.cell[c + MAX_CHARS] ELSE Blank]
  OBVIOUS
<1>2. cs \in [Columns -> Cells]
  <2>1. \A c \in Columns : (IF c + MAX_CHARS \in Columns THEN e.cell[c + MAX_CHARS] ELSE Blank) \in Cells
    BY EditorIs, Marks
  <2> QED  BY <1>1, <2>1
<1>3. f = [buf |-> e.buf, pos |-> e.pos, start |-> e.start, x |-> 0, amount |-> 0,
           cell |-> cs, prompt |-> e.prompt, home |-> e.home - MAX_CHARS, exact |-> e.exact]
  <2>1. f = [e EXCEPT !.x = 0, !.amount = 0, !.home = e.home - MAX_CHARS, !.cell = cs]
    BY <1>1 DEF newline, Editors
  <2> QED  BY <2>1 DEF Editors
<1>4. e.home - MAX_CHARS \in Int
  BY EditorIs, TerminalAssumption
<1>5. f \in Editors
  BY <1>2, <1>3, <1>4, EditorIs DEF Editors
<1>6. \A c \in Columns : cs[c] = IF c + MAX_CHARS \in Columns THEN e.cell[c + MAX_CHARS] ELSE Blank
  BY <1>1
<1> QED  BY <1>3, <1>5, <1>6

\* draw_char puts the cell at the cursor, if that column is kept.
LEMMA DrawCharIs ==
  ASSUME NEW e \in Editors, NEW cell \in Cells, NEW f, f = draw_char(e, cell)
  PROVE  /\ f \in Editors
         /\ f.buf = e.buf /\ f.pos = e.pos /\ f.start = e.start /\ f.x = e.x + 1
         /\ f.amount = IF e.x + 1 > e.amount THEN e.x + 1 ELSE e.amount
         /\ f.prompt = e.prompt /\ f.home = e.home /\ f.exact = e.exact
         /\ \A c \in Columns : f.cell[c] = IF c = e.x THEN cell ELSE e.cell[c]
<1>1. PICK cs : cs = [e.cell EXCEPT ![e.x] = cell]
  OBVIOUS
<1>2. cs \in [Columns -> Cells] /\ \A c \in Columns : cs[c] = IF c = e.x THEN cell ELSE e.cell[c]
  BY <1>1, EditorIs
<1>3. PICK am \in Int : am = IF e.x + 1 > e.amount THEN e.x + 1 ELSE e.amount
  BY EditorIs
<1>4. f = [buf |-> e.buf, pos |-> e.pos, start |-> e.start, x |-> e.x + 1, amount |-> am,
           cell |-> cs, prompt |-> e.prompt, home |-> e.home, exact |-> e.exact]
  <2>1. f = [e EXCEPT !.cell[e.x] = cell,
                      !.amount = IF e.x + 1 > e.amount THEN e.x + 1 ELSE e.amount, !.x = e.x + 1]
    BY DEF draw_char, Editors
  <2>2. f = [e EXCEPT !.cell = cs, !.amount = am, !.x = e.x + 1]
    BY <1>1, <1>3, <2>1 DEF Editors
  <2> QED  BY <2>2 DEF Editors
<1>5. f \in Editors
  BY <1>2, <1>3, <1>4, EditorIs DEF Editors
<1> QED  BY <1>2, <1>3, <1>4, <1>5

\* An editor whose line is not what is on the screen.
LEMMA InexactIs ==
  ASSUME NEW e \in Editors, NEW f, f = [e EXCEPT !.exact = FALSE]
  PROVE  /\ f \in Editors
         /\ f.buf = e.buf /\ f.pos = e.pos /\ f.start = e.start /\ f.x = e.x /\ f.amount = e.amount
         /\ f.cell = e.cell /\ f.prompt = e.prompt /\ f.home = e.home /\ f.exact = FALSE
BY EditorIs DEF Editors

\* Printing a character leaves an editor.
LEMMA PrintCellTyped ==
  ASSUME NEW e \in Editors, NEW cell \in Cells
  PROVE  print_cell(e, cell) \in Editors
<1>1. CASE cell.text = LF
  BY <1>1, NewlineIs, InexactIs DEF print_cell
<1>2. CASE cell.text # LF
  <2>1. PICK d \in Editors : d = draw_char(e, cell)
    BY DrawCharIs
  <2>2. newline(d) \in Editors
    BY NewlineIs
  <2> QED  BY <1>2, <2>1, <2>2 DEF print_cell, handle_automatic_newline
<1> QED  BY <1>1, <1>2

\* Printing a text goes through its cells in order.
LEMMA PrintRuns ==
  ASSUME NEW e \in Editors, NEW n \in Nat, NEW cells \in [1 .. n -> Cells]
  PROVE  \E g \in [0 .. n -> Editors] :
           /\ g[0] = e /\ g[n] = print_chars(e, cells)
           /\ \A i \in 1 .. n : g[i] = print_cell(g[i - 1], cells[i])
<1>1. PICK step \in [1 .. n -> [Editors -> Editors]] :
        step = [i \in 1 .. n |-> [d \in Editors |-> print_cell(d, cells[i])]]
  <2>1. \A i \in 1 .. n : \A d \in Editors : print_cell(d, cells[i]) \in Editors
    BY PrintCellTyped
  <2> QED  BY <2>1
<1>2. \A i \in 1 .. n : \A d \in Editors : step[i][d] = print_cell(d, cells[i])
  BY <1>1
<1> DEFINE chosen == CHOOSE h : h = [s \in SUBSET (1 .. n) |->
                                  IF s = {} THEN e ELSE print_cell(h[s \ {Max(s)}], cells[Max(s)])]
<1>3. PICK f \in [SUBSET (1 .. n) -> Editors] : Folds(f, n, e, step)
  BY FoldExists
<1>4. \A s \in SUBSET (1 .. n) : s # {} => Max(s) \in 1 .. n /\ s \ {Max(s)} \in SUBSET (1 .. n)
  BY SomeMax
<1>5. f = [s \in SUBSET (1 .. n) |->
             IF s = {} THEN e ELSE print_cell(f[s \ {Max(s)}], cells[Max(s)])]
  <2>1. \A s \in SUBSET (1 .. n) : s # {} =>
          step[Max(s)][f[s \ {Max(s)}]] = print_cell(f[s \ {Max(s)}], cells[Max(s)])
    BY <1>2, <1>4
  <2> QED  BY <1>3, <2>1 DEF Folds
<1>6. chosen = [s \in SUBSET (1 .. n) |->
                  IF s = {} THEN e ELSE print_cell(chosen[s \ {Max(s)}], cells[Max(s)])]
  BY <1>5
<1>7. print_chars(e, cells) = chosen[1 .. n]
  BY DEF print_chars, FoldLeft, MapThenFoldSet
<1> HIDE DEF chosen
<1>12. PICK H : H = chosen
  OBVIOUS
<1>8. H[{}] = e
  BY <1>6, <1>12
<1>9. ASSUME NEW i \in 1 .. n, H[1 .. i - 1] \in Editors
      PROVE  H[1 .. i] = step[i][H[1 .. i - 1]]
  <2>1. /\ Max(1 .. i) = i /\ (1 .. i) \ {i} = 1 .. i - 1 /\ 1 .. i # {}
        /\ 1 .. i \in SUBSET (1 .. n)
    BY FoldRuns
  <2>2. H[1 .. i] = IF 1 .. i = {} THEN e ELSE print_cell(H[(1 .. i) \ {Max(1 .. i)}], cells[Max(1 .. i)])
    BY <1>6, <1>12, <2>1
  <2>3. H[1 .. i] = print_cell(H[1 .. i - 1], cells[i])
    BY <2>1, <2>2
  <2> QED  BY <1>2, <1>9, <2>3
<1>10. StepsOn(H, Editors, n, e, step)
  BY <1>8, <1>9 DEF StepsOn
<1>11. PICK g : Rounds(g, Editors, n, e, step) /\ g[n] = H[1 .. n]
  BY <1>10, RoundsOf
<1>13. \A i \in 1 .. n : g[i] = print_cell(g[i - 1], cells[i])
  <2>1. \A i \in 1 .. n : g[i - 1] \in Editors /\ g[i] = step[i][g[i - 1]]
    BY <1>11 DEF Rounds
  <2> QED  BY <1>2, <2>1
<1>14. g \in [0 .. n -> Editors] /\ g[0] = e
  BY <1>11 DEF Rounds
<1> QED  BY <1>7, <1>11, <1>12, <1>13, <1>14

\* What is left of column k has gone up with the rest.
LEMMA NewlineKeepsPrompts ==
  ASSUME NEW e \in Editors, NEW k \in Int, \A c \in Columns : e.cell[c] = Prompt => c < k
  PROVE  \A c \in Columns : newline(e).cell[c] = Prompt => c < k - MAX_CHARS
<1> SUFFICES ASSUME NEW c \in Columns, newline(e).cell[c] = Prompt
             PROVE  c < k - MAX_CHARS
  OBVIOUS
<1>1. newline(e).cell[c] = IF c + MAX_CHARS \in Columns THEN e.cell[c + MAX_CHARS] ELSE Blank
  BY NewlineIs
<1>2. c + MAX_CHARS \in Columns /\ e.cell[c + MAX_CHARS] = Prompt
  BY <1>1, Marks
<1>3. c + MAX_CHARS < k
  BY <1>2
<1>4. c \in Int /\ MAX_CHARS \in Nat
  BY TerminalAssumption DEF Columns
<1> QED  BY <1>3, <1>4

\* The line as such is not touched.
Kept(e, f) == f.buf = e.buf /\ f.start = e.start /\ f.prompt = e.prompt

\* i characters of the text have been printed.
Printed(e, text, i) ==
  /\ e.x \in 0 .. MAX_CHARS - 1 /\ e.amount = e.x
  /\ e.home <= e.x - i /\ e.home <= e.start
  /\ \A c \in Columns : e.cell[c] = Prompt => c < e.home
  /\ e.exact =>
       /\ e.home = e.x - i
       /\ \A j \in 1 .. i : e.cell[e.home + j - 1] = Cell(text[j], TRUE)

\* One more: it is at the cursor, or, at the end of a row, at the end of the row above.
LEMMA OneMorePrinted ==
  ASSUME NEW text \in Seq(Chars), Len(text) < TERMINAL_BUFFER_SIZE, NEW i \in 0 .. Len(text) - 1,
         NEW e \in Editors, Printed(e, text, i),
         NEW f, f = print_cell(e, Cell(text[i + 1], TRUE))
  PROVE  f \in Editors /\ Printed(f, text, i + 1) /\ Kept(e, f)
<1>1. PICK M \in Nat, B \in Nat : M = MAX_CHARS /\ B = TERMINAL_BUFFER_SIZE /\ M > 0
  BY TerminalAssumption
<1>2. PICK cell \in Cells : cell = Cell(text[i + 1], TRUE) /\ cell # Prompt /\ cell.text = text[i + 1]
  <2>1. text[i + 1] \in Chars
    BY ElementOfSeq
  <2>2. Cell(text[i + 1], TRUE).text = text[i + 1]
    BY DEF Cell
  <2> QED  BY <2>1, <2>2, Marks
<1>3. \A c : c \in Columns <=> c \in Int /\ -B <= c /\ c <= M + B
  BY <1>1 DEF Columns
<1>4. PICK x \in Int, home \in Int : x = e.x /\ home = e.home /\ e.start \in Int
  BY EditorIs
<1>5. /\ 0 <= x /\ x < M /\ e.amount = x /\ home <= x - i /\ home <= e.start
      /\ \A c \in Columns : e.cell[c] = Prompt => c < home
      /\ e.exact => home = x - i
      /\ e.exact => \A j \in 1 .. i : e.cell[home + j - 1] = Cell(text[j], TRUE)
  <2>1. x \in 0 .. MAX_CHARS - 1 /\ e.amount = x /\ home <= x - i /\ home <= e.start
    BY <1>4 DEF Printed
  <2>2. \A c \in Columns : e.cell[c] = Prompt => c < home
    BY <1>4 DEF Printed
  <2>3. e.exact => home = x - i
    BY <1>4 DEF Printed
  <2>4. e.exact => \A j \in 1 .. i : e.cell[home + j - 1] = Cell(text[j], TRUE)
    BY <1>4, Zenon DEF Printed
  <2>5. 0 <= x /\ x < M
    BY <1>1, <2>1
  <2> QED  BY <2>1, <2>2, <2>3, <2>4, <2>5
<1>6. i \in Int /\ 0 <= i /\ i + 1 < B
  <2>1. Len(text) \in Nat
    OBVIOUS
  <2> QED  BY <1>1, <2>1
<1>7. CASE cell.text = LF
  <2>1. PICK d \in Editors : d = newline(e)
    BY NewlineIs
  <2>2. /\ Kept(e, d) /\ d.x = 0 /\ d.amount = 0 /\ d.home = home - M
        /\ \A c \in Columns : d.cell[c] = IF c + M \in Columns THEN e.cell[c + M] ELSE Blank
    BY <1>1, <1>4, <2>1, NewlineIs DEF Kept
  <2>3. f = [d EXCEPT !.exact = FALSE]
    BY <1>2, <1>7, <2>1 DEF print_cell
  <2>4. /\ f \in Editors /\ Kept(d, f) /\ f.x = 0 /\ f.amount = 0 /\ f.home = home - M
        /\ f.exact = FALSE /\ f.cell = d.cell
    BY <2>2, <2>3, InexactIs DEF Kept
  <2>5. \A c \in Columns : f.cell[c] = Prompt => c < home - M
    <3>1. \A c \in Columns : newline(e).cell[c] = Prompt => c < home - MAX_CHARS
      BY <1>5, NewlineKeepsPrompts
    <3> QED  BY <1>1, <2>1, <2>4, <3>1
  <2>6. home - M <= 0 - (i + 1) /\ home - M <= e.start
    BY <1>1, <1>4, <1>5, <1>6
  <2>7. f.start = e.start
    BY <2>2, <2>4 DEF Kept
  <2>8. 0 \in 0 .. MAX_CHARS - 1
    BY <1>1
  <2>9. Printed(f, text, i + 1)
    BY <2>4, <2>5, <2>6, <2>7, <2>8 DEF Printed
  <2> QED  BY <2>2, <2>4, <2>9 DEF Kept
<1>8. CASE cell.text # LF
  <2>1. PICK d \in Editors : d = draw_char(e, cell)
    BY DrawCharIs
  <2>2. /\ Kept(e, d) /\ d.x = x + 1 /\ d.amount = x + 1 /\ d.home = home /\ d.exact = e.exact
        /\ \A c \in Columns : d.cell[c] = IF c = x THEN cell ELSE e.cell[c]
    <3>1. (IF x + 1 > x THEN x + 1 ELSE x) = x + 1
      OBVIOUS
    <3>2. /\ d.buf = e.buf /\ d.start = e.start /\ d.x = e.x + 1
          /\ d.amount = IF e.x + 1 > e.amount THEN e.x + 1 ELSE e.amount
          /\ d.prompt = e.prompt /\ d.home = e.home /\ d.exact = e.exact
          /\ \A c \in Columns : d.cell[c] = IF c = e.x THEN cell ELSE e.cell[c]
      BY <2>1, DrawCharIs
    <3>3. Kept(e, d)
      BY <2>1, <3>2, DrawCharIs DEF Kept
    <3> QED  BY <1>4, <1>5, <3>1, <3>2, <3>3
  <2>3. \A c \in Columns : d.cell[c] = Prompt => c < home
    BY <1>2, <1>5, <2>2
  <2>4. ASSUME e.exact, NEW j \in 1 .. i + 1
        PROVE  home + j - 1 \in Columns /\ d.cell[home + j - 1] = Cell(text[j], TRUE)
    <3>1. home = x - i
      BY <1>5, <2>4
    <3>3. PICK c \in Int : c = home + j - 1 /\ -B <= c /\ c <= x
      BY <1>5, <1>6, <3>1
    <3>4. c \in Columns
      BY <1>3, <1>5, <3>3
    <3>5. CASE c = x
      <4>1. j = i + 1
        BY <1>6, <3>1, <3>3, <3>5
      <4> QED  BY <1>2, <2>2, <3>3, <3>4, <3>5, <4>1
    <3>6. CASE c # x
      <4>1. j \in 1 .. i
        BY <1>6, <3>1, <3>3, <3>6
      <4> QED  BY <1>5, <2>2, <2>4, <3>3, <3>4, <3>6, <4>1
    <3> QED  BY <3>5, <3>6
  <2>5. f = IF x + 1 >= M THEN newline(d) ELSE d
    BY <1>1, <1>2, <1>8, <2>1, <2>2 DEF print_cell, handle_automatic_newline
  <2>6. CASE x + 1 < M
    <3>0. ~(x + 1 >= M)
      BY <2>6
    <3>1. f = d
      BY <2>5, <3>0, Zenon
    <3>2. x + 1 \in 0 .. MAX_CHARS - 1
      BY <1>1, <1>5, <2>6
    <3>3. home <= (x + 1) - (i + 1) /\ home <= d.start /\ (e.exact => home = (x + 1) - (i + 1))
      BY <1>4, <1>5, <1>6, <2>2 DEF Kept
    <3>4. Printed(d, text, i + 1)
      BY <2>2, <2>3, <2>4, <3>2, <3>3 DEF Printed
    <3> QED  BY <2>2, <3>1, <3>4
  <2>7. CASE ~(x + 1 < M)
    <3>0. x + 1 = M
      BY <1>5, <2>7
    <3>1. f = newline(d)
      <4>1. x + 1 >= M
        BY <3>0
      <4> QED  BY <2>5, <4>1, Zenon
    <3>2. /\ f \in Editors /\ Kept(d, f) /\ f.x = 0 /\ f.amount = 0 /\ f.home = home - M
          /\ f.exact = e.exact
          /\ \A c \in Columns : f.cell[c] = IF c + M \in Columns THEN d.cell[c + M] ELSE Blank
      <4>1. d.home - MAX_CHARS = home - M /\ d.exact = e.exact
        BY <1>1, <2>2
      <4>2. /\ f \in Editors /\ f.buf = d.buf /\ f.start = d.start /\ f.x = 0 /\ f.amount = 0
            /\ f.prompt = d.prompt /\ f.home = d.home - MAX_CHARS /\ f.exact = d.exact
        BY <3>1, NewlineIs
      <4>3. \A c \in Columns : f.cell[c] = IF c + MAX_CHARS \in Columns THEN d.cell[c + MAX_CHARS] ELSE Blank
        BY <3>1, NewlineIs, Zenon
      <4> QED  BY <1>1, <4>1, <4>2, <4>3 DEF Kept
    <3>3. \A c \in Columns : f.cell[c] = Prompt => c < home - M
      BY <1>1, <2>3, <3>1, NewlineKeepsPrompts
    <3>4. home - M <= 0 - (i + 1) /\ home - M <= e.start
      <4>1. home - M <= 0 - (i + 1)
        BY <1>5, <1>6, <3>0
      <4>2. home - M <= e.start
        BY <1>4, <1>5
      <4> QED  BY <4>1, <4>2
    <3>5. f.start = e.start
      BY <2>2, <3>2 DEF Kept
    <3>6. ASSUME e.exact, NEW j \in 1 .. i + 1
          PROVE  f.cell[(home - M) + j - 1] = Cell(text[j], TRUE)
      <4>1. home = x - i
        BY <1>5, <3>6
      <4>2. home - M = 0 - (i + 1)
        BY <1>1, <1>6, <3>0, <4>1
      <4>4. home + j - 1 \in Columns /\ d.cell[home + j - 1] = Cell(text[j], TRUE)
        BY <2>4, <3>6
      <4>5. PICK c \in Int : c = (home - M) + j - 1
        OBVIOUS
      <4>6. c + M = home + j - 1
        BY <1>1, <4>5
      <4>7. -B <= c /\ c <= M + B
        BY <1>1, <1>6, <4>2, <4>5
      <4>8. c \in Columns
        BY <1>3, <4>7
      <4> QED  BY <3>2, <4>4, <4>5, <4>6, <4>8
    <3>7. 0 \in 0 .. MAX_CHARS - 1 /\ (e.exact => home - M = 0 - (i + 1))
      BY <1>1, <1>5, <1>6, <3>0
    <3>8. Printed(f, text, i + 1)
      BY <3>2, <3>3, <3>4, <3>5, <3>6, <3>7 DEF Printed
    <3> QED  BY <2>2, <3>2, <3>8 DEF Kept
  <2> QED  BY <2>6, <2>7
<1> QED  BY <1>7, <1>8

\* A text that fits the line buffer, printed from the start of a line.
LEMMA TextIsPrinted ==
  ASSUME NEW e \in Editors, NEW text \in Seq(Chars), Len(text) < TERMINAL_BUFFER_SIZE,
         Printed(e, text, 0),
         NEW f, f = print_chars(e, Interactable(text))
  PROVE  f \in Editors /\ Printed(f, text, Len(text)) /\ Kept(e, f)
<1>1. PICK n \in Nat : n = Len(text)
  OBVIOUS
<1>2. \A i \in 1 .. n : text[i] \in Chars
  BY <1>1, ElementOfSeq
<1>3. /\ Interactable(text) \in [1 .. n -> Cells]
      /\ \A i \in 1 .. n : Interactable(text)[i] = Cell(text[i], TRUE)
  BY <1>1, <1>2, Marks DEF Interactable
<1>4. PICK g \in [0 .. n -> Editors] :
        /\ g[0] = e /\ g[n] = f
        /\ \A i \in 1 .. n : g[i] = print_cell(g[i - 1], Interactable(text)[i])
  BY <1>3, PrintRuns
<1> DEFINE T == {i \in 0 .. n : Printed(g[i], text, i) /\ Kept(e, g[i])}
<1>5. 0 \in T
  BY <1>4 DEF Kept
<1>6. ASSUME NEW i \in 0 .. n - 1, i \in T
      PROVE  i + 1 \in T
  <2>1. Printed(g[i], text, i) /\ Kept(e, g[i])
    BY <1>6
  <2>2. g[i] \in Editors /\ i + 1 \in 1 .. n /\ (i + 1) - 1 = i /\ i + 1 \in 0 .. n
    OBVIOUS
  <2>3. g[i + 1] = print_cell(g[i], Cell(text[i + 1], TRUE))
    BY <1>3, <1>4, <2>2
  <2>4. Printed(g[i + 1], text, i + 1) /\ Kept(g[i], g[i + 1])
    BY <1>1, <2>1, <2>2, <2>3, OneMorePrinted
  <2>5. Kept(e, g[i + 1])
    BY <2>1, <2>4 DEF Kept
  <2> QED  BY <2>2, <2>4, <2>5
<1> HIDE DEF T
<1>7. \A i \in 0 .. n : i \in T
  BY <1>5, <1>6, UpTo
<1>8. n \in T
  BY <1>7
<1> QED  BY <1>1, <1>4, <1>8 DEF T

\* The line is where it was, below rows that have been given up, and ends at column x.
Prompting(e) ==
  /\ e.x \in 0 .. MAX_CHARS - 1 /\ e.amount = e.x
  /\ \A c \in Columns : e.cell[c] = Prompt => c < e.x

\* A character of the prompt is printed.
LEMMA OneMorePrompted ==
  ASSUME NEW e \in Editors, Prompting(e), NEW f, f = print_cell(e, Prompt)
  PROVE  f \in Editors /\ Prompting(f) /\ f.buf = e.buf /\ f.pos = e.pos /\ f.prompt = e.prompt
<1>1. PICK M \in Nat : M = MAX_CHARS /\ M > 0
  BY TerminalAssumption
<1>2. PICK x \in Int : x = e.x /\ 0 <= x /\ x < M /\ e.amount = x
  BY <1>1 DEF Prompting
<1>3. PICK d \in Editors : d = draw_char(e, Prompt)
  BY Marks, DrawCharIs
<1>4. /\ d.buf = e.buf /\ d.pos = e.pos /\ d.prompt = e.prompt /\ d.x = x + 1 /\ d.amount = x + 1
      /\ \A c \in Columns : d.cell[c] = IF c = x THEN Prompt ELSE e.cell[c]
  <2>1. (IF x + 1 > x THEN x + 1 ELSE x) = x + 1
    OBVIOUS
  <2>2. Prompt \in Cells
    BY Marks
  <2>3. /\ d.buf = e.buf /\ d.pos = e.pos /\ d.x = e.x + 1 /\ d.prompt = e.prompt
        /\ d.amount = IF e.x + 1 > e.amount THEN e.x + 1 ELSE e.amount
        /\ \A c \in Columns : d.cell[c] = IF c = e.x THEN Prompt ELSE e.cell[c]
    BY <1>3, <2>2, DrawCharIs
  <2> QED  BY <1>2, <2>1, <2>3
<1>5. \A c \in Columns : d.cell[c] = Prompt => c < x + 1
  <2>1. \A c \in Columns : c \in Int
    BY DEF Columns
  <2> QED  BY <1>2, <1>4, <2>1 DEF Prompting
<1>6. ASSUME Prompt.text = LF \/ x + 1 >= M
      PROVE  f \in Editors /\ f.buf = e.buf /\ f.pos = e.pos /\ f.prompt = e.prompt /\ Prompting(f)
  <2>1. CASE Prompt.text = LF
    <3>1. PICK n \in Editors : n = newline(e)
      BY NewlineIs
    <3>2. f = [n EXCEPT !.exact = FALSE]
      BY <2>1, <3>1 DEF print_cell
    <3>3. /\ f \in Editors /\ f.buf = e.buf /\ f.pos = e.pos /\ f.prompt = e.prompt
          /\ f.x = 0 /\ f.amount = 0 /\ f.cell = n.cell
      <4>1. n.buf = e.buf /\ n.pos = e.pos /\ n.prompt = e.prompt /\ n.x = 0 /\ n.amount = 0
        BY <3>1, NewlineIs
      <4> QED  BY <3>2, <4>1, InexactIs
    <3>4. \A c \in Columns : f.cell[c] = Prompt => c < x - M
      BY <1>1, <1>2, <3>1, <3>3, NewlineKeepsPrompts DEF Prompting
    <3>5. \A c \in Columns : f.cell[c] = Prompt => c < 0
      <4>1. \A c \in Columns : c \in Int
        BY DEF Columns
      <4> QED  BY <1>2, <3>4, <4>1
    <3> QED  BY <1>1, <3>3, <3>5 DEF Prompting
  <2>2. CASE Prompt.text # LF
    <3>1. f = newline(d)
      BY <1>1, <1>3, <1>4, <1>6, <2>2 DEF print_cell, handle_automatic_newline
    <3>2. /\ f \in Editors /\ f.buf = e.buf /\ f.pos = e.pos /\ f.prompt = e.prompt
          /\ f.x = 0 /\ f.amount = 0
      BY <1>4, <3>1, NewlineIs
    <3>3. \A c \in Columns : f.cell[c] = Prompt => c < (x + 1) - M
      BY <1>1, <1>5, <3>1, NewlineKeepsPrompts
    <3>4. \A c \in Columns : f.cell[c] = Prompt => c < 0
      <4>1. \A c \in Columns : c \in Int
        BY DEF Columns
      <4> QED  BY <1>2, <3>3, <4>1
    <3> QED  BY <1>1, <3>2, <3>4 DEF Prompting
  <2> QED  BY <2>1, <2>2
<1>7. ASSUME Prompt.text # LF, ~(x + 1 >= M)
      PROVE  f \in Editors /\ f.buf = e.buf /\ f.pos = e.pos /\ f.prompt = e.prompt /\ Prompting(f)
  <2>1. f = d
    BY <1>1, <1>3, <1>4, <1>7 DEF print_cell, handle_automatic_newline
  <2>2. x + 1 \in 0 .. M - 1
    BY <1>2, <1>7
  <2> QED  BY <1>1, <1>4, <1>5, <2>1, <2>2 DEF Prompting
<1> QED  BY <1>6, <1>7

\* A new prompt, below whatever there was: the line starts behind it.
LEMMA PromptIsPrinted ==
  ASSUME NEW e \in Editors, e.x = 0, e.amount = 0, \A c \in Columns : e.cell[c] = Prompt => c < 0,
         NEW f, f = newTerminalInputLine(e)
  PROVE  /\ f \in Editors /\ f.buf = e.buf /\ f.pos = e.pos
         /\ f.x \in 0 .. MAX_CHARS - 1 /\ f.amount = f.x /\ f.start = f.x /\ f.home = f.x
         /\ \A c \in Columns : f.cell[c] = Prompt => c < f.x
         /\ f.exact = TRUE
<1>1. PICK cs : cs = [c \in Columns |-> IF c < 0 THEN Other ELSE e.cell[c]]
  OBVIOUS
<1>2. cs \in [Columns -> Cells] /\ \A c \in Columns : cs[c] = Prompt => c < 0
  BY <1>1, EditorIs, Marks
<1>3. PICK a : a = [e EXCEPT !.cell = cs]
  OBVIOUS
<1>4. /\ a \in Editors /\ a.buf = e.buf /\ a.pos = e.pos /\ a.prompt = e.prompt /\ a.x = 0
      /\ a.amount = 0 /\ a.cell = cs
  BY <1>2, <1>3 DEF Editors
<1>5. Prompting(a)
  BY <1>2, <1>4, TerminalAssumption DEF Prompting
<1>6. PICK n \in Nat : n = e.prompt
  BY EditorIs
<1>7. PICK cells \in [1 .. n -> Cells] : cells = [i \in 1 .. n |-> Prompt]
  BY Marks
<1>8. PICK p : p = print_chars(a, cells)
  OBVIOUS
<1>9. PICK g \in [0 .. n -> Editors] :
        /\ g[0] = a /\ g[n] = p
        /\ \A i \in 1 .. n : g[i] = print_cell(g[i - 1], cells[i])
  BY <1>4, <1>8, PrintRuns
<1> DEFINE T == {i \in 0 .. n : Prompting(g[i]) /\ g[i].buf = e.buf /\ g[i].pos = e.pos}
<1>10. 0 \in T
  BY <1>4, <1>5, <1>9
<1>11. ASSUME NEW i \in 0 .. n - 1, i \in T
       PROVE  i + 1 \in T
  <2>1. Prompting(g[i]) /\ g[i].buf = e.buf /\ g[i].pos = e.pos
    BY <1>11
  <2>2. g[i] \in Editors /\ i + 1 \in 1 .. n /\ (i + 1) - 1 = i /\ i + 1 \in 0 .. n
    OBVIOUS
  <2>3. g[i + 1] = print_cell(g[i], Prompt)
    BY <1>7, <1>9, <2>2
  <2>4. Prompting(g[i + 1]) /\ g[i + 1].buf = e.buf /\ g[i + 1].pos = e.pos
    BY <2>1, <2>2, <2>3, OneMorePrompted
  <2> QED  BY <2>2, <2>4
<1> HIDE DEF T
<1>12. \A i \in 0 .. n : i \in T
  BY <1>10, <1>11, UpTo
<1>13. n \in T
  BY <1>12
<1>14. p \in Editors /\ Prompting(p) /\ p.buf = e.buf /\ p.pos = e.pos
  BY <1>9, <1>13 DEF T
<1>15. f = [p EXCEPT !.start = p.x, !.home = p.x, !.exact = TRUE]
  BY <1>1, <1>3, <1>4, <1>6, <1>7, <1>8 DEF newTerminalInputLine
<1>16. f = [buf |-> p.buf, pos |-> p.pos, start |-> p.x, x |-> p.x, amount |-> p.amount,
            cell |-> p.cell, prompt |-> p.prompt, home |-> p.x, exact |-> TRUE]
  BY <1>14, <1>15 DEF Editors
<1>17. f \in Editors
  BY <1>14, <1>16, EditorIs DEF Editors
<1> QED  BY <1>14, <1>16, <1>17 DEF Prompting

-----------------------------------------------------------------------------
(* The line between two keys                                                  *)

\* The line on the screen is the line in the buffer.
Shown(e) ==
  /\ Len(e.buf) < TERMINAL_BUFFER_SIZE
  /\ e.home = e.x - e.pos
  /\ \A i \in 1 .. Len(e.buf) : e.cell[e.home + i - 1] = Cell(e.buf[i], TRUE)

\* What is known of the editor between two keys, whatever the length of the line.
Sound(e) ==
  /\ e \in Editors
  /\ e.pos \in 0 .. Len(e.buf)
  /\ e.start \in 0 .. MAX_CHARS - 1
  /\ e.amount - Len(e.buf) = e.x - e.pos
  /\ e.x - e.pos \in -TERMINAL_BUFFER_SIZE .. MAX_CHARS - 1
  /\ e.home <= e.x - e.pos /\ e.home <= e.start
  /\ \A c \in Columns : e.cell[c] = Prompt => c < e.home
  /\ e.exact => Shown(e)

SoundEditors == {e \in Editors : Sound(e)}

\* A line that can be edited.
Short == {e \in SoundEditors : Len(e.buf) <= TERMINAL_BUFFER_SIZE}

\* Its numbers.
LEMMA SoundIs ==
  ASSUME NEW e, Sound(e)
  PROVE  \E M \in Nat, B \in Nat, x \in Int, pos \in Int, n \in Nat, home \in Int, am \in Int :
           /\ M = MAX_CHARS /\ B = TERMINAL_BUFFER_SIZE /\ M > 0 /\ B > 0
           /\ x = e.x /\ pos = e.pos /\ n = Len(e.buf) /\ home = e.home /\ am = e.amount
           /\ 0 <= pos /\ pos <= n /\ am = (x - pos) + n
           /\ -B <= x - pos /\ x - pos < M /\ home <= x - pos
           /\ \A c : c \in Columns <=> c \in Int /\ -B <= c /\ c <= M + B
<1>1. PICK M \in Nat, B \in Nat : M = MAX_CHARS /\ B = TERMINAL_BUFFER_SIZE /\ M > 0 /\ B > 0
  BY TerminalAssumption
<1>2. e \in Editors
  BY DEF Sound
<1>3. PICK x \in Int, pos \in Int, home \in Int, am \in Int, n \in Nat :
        x = e.x /\ pos = e.pos /\ home = e.home /\ am = e.amount /\ n = Len(e.buf)
  BY <1>2, EditorIs
<1>4. pos \in 0 .. n /\ am - n = x - pos /\ x - pos \in -B .. M - 1 /\ home <= x - pos
  BY <1>1, <1>3 DEF Sound
<1>5. \A c : c \in Columns <=> c \in Int /\ -B <= c /\ c <= M + B
  BY <1>1 DEF Columns
<1>6. 0 <= pos /\ pos <= n /\ am = (x - pos) + n /\ -B <= x - pos /\ x - pos < M /\ home <= x - pos
  BY <1>4
<1> QED  BY <1>1, <1>3, <1>5, <1>6

\* A text behind the start of the line becomes the line.
LEMMA PrintedIsSound ==
  ASSUME NEW e \in Editors, NEW text \in Seq(Chars), Len(text) < TERMINAL_BUFFER_SIZE,
         Printed(e, text, Len(text)), e.buf = text, e.start \in 0 .. MAX_CHARS - 1,
         NEW f, f = [e EXCEPT !.pos = Len(text)]
  PROVE  Sound(f)
<1>1. PICK M \in Nat, B \in Nat, n \in Nat : M = MAX_CHARS /\ B = TERMINAL_BUFFER_SIZE /\ n = Len(text)
  BY TerminalAssumption
<1>2. /\ f \in Editors /\ f.buf = text /\ f.pos = n /\ f.start = e.start /\ f.x = e.x
      /\ f.amount = e.amount /\ f.cell = e.cell /\ f.home = e.home /\ f.exact = e.exact
  <2>1. f = [e EXCEPT !.pos = n] /\ n \in Int
    BY <1>1
  <2>2. f \in Editors
    BY <2>1 DEF Editors
  <2> QED  BY <2>1, <2>2 DEF Editors
<1>3. PICK x \in Int, home \in Int : x = e.x /\ home = e.home
  BY EditorIs
<1>4. x \in 0 .. M - 1 /\ e.amount = x /\ home <= x - n /\ home <= e.start
  BY <1>1, <1>3 DEF Printed
<1>5. \A c \in Columns : f.cell[c] = Prompt => c < f.home
  BY <1>2, <1>3 DEF Printed
<1>6. f.exact => Shown(f)
  <2>1. SUFFICES ASSUME e.exact PROVE Shown(f)
    BY <1>2
  <2>2. home = x - n
    BY <1>1, <1>3, <2>1 DEF Printed
  <2>3. \A j \in 1 .. n : e.cell[e.home + j - 1] = Cell(text[j], TRUE)
    BY <1>1, <2>1, Zenon DEF Printed
  <2> QED  BY <1>1, <1>2, <1>3, <2>2, <2>3 DEF Shown
<1>7. n \in 0 .. n /\ x - n = x - n /\ x - n \in -B .. M - 1
  BY <1>1, <1>4
<1> QED  BY <1>1, <1>2, <1>3, <1>4, <1>5, <1>6, <1>7 DEF Sound

\* The empty line behind a new prompt.
LEMMA NewLineIsSound ==
  ASSUME NEW e \in Editors, e.buf = <<>>, e.pos = 0, e.x \in 0 .. MAX_CHARS - 1, e.amount = e.x,
         e.start = e.x, e.home = e.x, \A c \in Columns : e.cell[c] = Prompt => c < e.x
  PROVE  Sound(e)
<1>1. PICK M \in Nat, B \in Nat : M = MAX_CHARS /\ B = TERMINAL_BUFFER_SIZE /\ B > 0
  BY TerminalAssumption
<1>2. PICK x \in Int : x = e.x
  BY EditorIs
<1>3. Shown(e)
  BY <1>1, <1>2 DEF Shown
<1>4. Len(e.buf) = 0 /\ 0 \in 0 .. 0 /\ x - 0 \in -B .. M - 1 /\ x - 0 = x
  BY <1>1, <1>2
<1> QED  BY <1>1, <1>2, <1>3, <1>4 DEF Sound

\* The line is cleared: nothing is left of it but where it starts.
LEMMA ClearIs ==
  ASSUME NEW e, Sound(e), NEW f, f = clear_input_on_screen(e)
  PROVE  /\ f \in Editors /\ f.buf = e.buf /\ f.pos = 0 /\ f.start = e.start /\ f.x = e.start
         /\ f.amount = e.start /\ f.home = e.start /\ f.exact = TRUE /\ f.start \in 0 .. MAX_CHARS - 1
         /\ \A c \in Columns : f.cell[c] = Prompt => c < e.start
<1>1. e \in Editors /\ e.start \in 0 .. MAX_CHARS - 1
  BY DEF Sound
<1>2. PICK cs : cs = [c \in Columns |-> IF c >= e.start /\ c < e.amount /\ c < MAX_CHARS
                                        THEN Blank ELSE e.cell[c]]
  OBVIOUS
<1>3. cs \in [Columns -> Cells] /\ \A c \in Columns : cs[c] = Prompt => e.cell[c] = Prompt
  BY <1>1, <1>2, EditorIs, Marks
<1>4. f = [e EXCEPT !.cell = cs, !.amount = e.start, !.x = e.start, !.pos = 0, !.home = e.start,
                    !.exact = TRUE]
  BY <1>2 DEF clear_input_on_screen
<1>5. f = [buf |-> e.buf, pos |-> 0, start |-> e.start, x |-> e.start, amount |-> e.start,
           cell |-> cs, prompt |-> e.prompt, home |-> e.start, exact |-> TRUE]
  BY <1>1, <1>4 DEF Editors
<1>6. f \in Editors
  BY <1>1, <1>3, <1>5, EditorIs DEF Editors
<1>7. \A c \in Columns : cs[c] = Prompt => c < e.start
  <2>1. e.home <= e.start /\ \A c \in Columns : e.cell[c] = Prompt => c < e.home
    BY DEF Sound
  <2>2. \A c \in Columns : c \in Int
    BY DEF Columns
  <2> QED  BY <1>1, <1>3, <2>1, <2>2, EditorIs
<1> QED  BY <1>1, <1>5, <1>6, <1>7

\* A line of the history replaces it.
LEMMA ShowHistoryKeeps ==
  ASSUME NEW e, Sound(e), NEW text \in Seq(Chars), Len(text) < TERMINAL_BUFFER_SIZE,
         NEW f, f = [print_chars([clear_input_on_screen(e) EXCEPT !.buf = text], Interactable(text))
                       EXCEPT !.pos = Len(text)]
  PROVE  Sound(f) /\ f.buf = text
<1>1. PICK c : c = clear_input_on_screen(e)
  OBVIOUS
<1>2. /\ c \in Editors /\ c.pos = 0 /\ c.x = c.start /\ c.amount = c.start /\ c.home = c.start
      /\ c.start \in 0 .. MAX_CHARS - 1 /\ \A k \in Columns : c.cell[k] = Prompt => k < c.start
  <2>1. /\ c \in Editors /\ c.pos = 0 /\ c.start = e.start /\ c.x = e.start /\ c.amount = e.start
        /\ c.home = e.start /\ c.start \in 0 .. MAX_CHARS - 1
        /\ \A k \in Columns : c.cell[k] = Prompt => k < e.start
    BY <1>1, ClearIs, Zenon
  <2> QED  BY <2>1
<1>3. PICK d : d = [c EXCEPT !.buf = text]
  OBVIOUS
<1>4. /\ d \in Editors /\ d.buf = text /\ d.x = c.start /\ d.amount = c.start /\ d.home = c.start
      /\ d.start = c.start /\ d.cell = c.cell
  BY <1>2, <1>3 DEF Editors
<1>5. Printed(d, text, 0)
  <2>1. c.start \in Int /\ c.start - 0 = c.start /\ c.start <= c.start
    BY <1>2
  <2> QED  BY <1>2, <1>4, <2>1 DEF Printed
<1>6. PICK p : p = print_chars(d, Interactable(text))
  OBVIOUS
<1>7. p \in Editors /\ Printed(p, text, Len(text)) /\ Kept(d, p)
  BY <1>4, <1>5, <1>6, TextIsPrinted
<1>8. p.buf = text /\ p.start \in 0 .. MAX_CHARS - 1
  BY <1>2, <1>4, <1>7 DEF Kept
<1>9. f = [p EXCEPT !.pos = Len(text)]
  BY <1>1, <1>3, <1>6
<1>10. f.buf = text
  BY <1>7, <1>8, <1>9 DEF Editors
<1> QED  BY <1>7, <1>8, <1>9, <1>10, PrintedIsSound

\* The way back to the empty line.
LEMMA EmptyLineKeeps ==
  ASSUME NEW e, Sound(e), NEW f, f = reset_line_input(clear_input_on_screen(e))
  PROVE  Sound(f) /\ f.buf = <<>>
<1>1. PICK c : c = clear_input_on_screen(e)
  OBVIOUS
<1>2. /\ c \in Editors /\ c.pos = 0 /\ c.x = c.start /\ c.amount = c.start /\ c.home = c.start
      /\ c.start \in 0 .. MAX_CHARS - 1 /\ \A k \in Columns : c.cell[k] = Prompt => k < c.start
  <2>1. /\ c \in Editors /\ c.pos = 0 /\ c.start = e.start /\ c.x = e.start /\ c.amount = e.start
        /\ c.home = e.start /\ c.start \in 0 .. MAX_CHARS - 1
        /\ \A k \in Columns : c.cell[k] = Prompt => k < e.start
    BY <1>1, ClearIs, Zenon
  <2> QED  BY <2>1
<1>3. f = [c EXCEPT !.buf = <<>>, !.pos = 0]
  BY <1>1 DEF reset_line_input
<1>4. /\ f \in Editors /\ f.buf = <<>> /\ f.pos = 0 /\ f.x = c.start /\ f.amount = c.start
      /\ f.home = c.start /\ f.start = c.start /\ f.cell = c.cell
  <2>1. <<>> \in Seq(Chars)
    OBVIOUS
  <2> QED  BY <1>2, <1>3, <2>1 DEF Editors
<1> QED  BY <1>2, <1>4, NewLineIsSound

\* The cursor moves within the line.
LEMMA CursorMoveIs ==
  ASSUME NEW e \in Editors, NEW right \in BOOLEAN, NEW f, f = cursor_move_inline(e, right),
         NEW d, d = IF right THEN IF e.pos < Len(e.buf) THEN 1 ELSE 0
                             ELSE IF e.pos # 0 THEN -1 ELSE 0
  PROVE  f = [e EXCEPT !.x = e.x + d, !.pos = e.pos + d]
<1>1. \/ right /\ e.pos < Len(e.buf) /\ d = 1 /\ f = [e EXCEPT !.x = e.x + 1, !.pos = e.pos + 1]
      \/ ~right /\ e.pos # 0 /\ d = -1 /\ f = [e EXCEPT !.x = e.x - 1, !.pos = e.pos - 1]
      \/ d = 0 /\ f = e
  BY DEF cursor_move_inline, Editors
<1>2. e.x - 1 = e.x + (-1) /\ e.pos - 1 = e.pos + (-1) /\ e.x + 0 = e.x /\ e.pos + 0 = e.pos
  BY EditorIs
<1>3. e = [e EXCEPT !.x = e.x, !.pos = e.pos]
  BY DEF Editors
<1> QED  BY <1>1, <1>2, <1>3

LEMMA CursorMoveKeeps ==
  ASSUME NEW e, Sound(e), NEW right \in BOOLEAN, NEW f, f = cursor_move_inline(e, right)
  PROVE  /\ Sound(f) /\ f.buf = e.buf /\ f.home = e.home /\ f.exact = e.exact
         /\ right /\ e.pos < Len(e.buf) => f.pos = e.pos + 1
<1>1. PICK x \in Int, pos \in Int, n \in Nat, home \in Int, am \in Int :
        /\ x = e.x /\ pos = e.pos /\ n = Len(e.buf) /\ home = e.home /\ am = e.amount
        /\ 0 <= pos /\ pos <= n /\ am = (x - pos) + n
  BY SoundIs
<1>2. PICK d \in Int : d = IF right THEN IF e.pos < Len(e.buf) THEN 1 ELSE 0
                                    ELSE IF e.pos # 0 THEN -1 ELSE 0
  OBVIOUS
<1>3. 0 <= pos + d /\ pos + d <= n
  BY <1>1, <1>2
<1>4. e \in Editors
  BY DEF Sound
<1>5. f = [e EXCEPT !.x = e.x + d, !.pos = e.pos + d]
  BY <1>2, <1>4, CursorMoveIs, Zenon
<1>6. /\ f \in Editors /\ f.buf = e.buf /\ f.pos = pos + d /\ f.start = e.start /\ f.x = x + d
      /\ f.amount = e.amount /\ f.cell = e.cell /\ f.home = e.home /\ f.exact = e.exact
  <2>1. f = [e EXCEPT !.x = x + d, !.pos = pos + d] /\ x + d \in Int /\ pos + d \in Int
    BY <1>1, <1>5
  <2> QED  BY <1>4, <2>1 DEF Editors
<1>7. (x + d) - (pos + d) = x - pos /\ pos + d \in 0 .. n
  BY <1>3
<1>8. f.exact => Shown(f)
  <2>1. SUFFICES ASSUME e.exact PROVE Shown(f)
    BY <1>6
  <2>2. Shown(e)
    BY <2>1 DEF Sound
  <2> QED  BY <1>1, <1>6, <1>7, <2>2 DEF Shown
<1>9. Sound(f)
  BY <1>1, <1>6, <1>7, <1>8 DEF Sound
<1> QED  BY <1>1, <1>2, <1>6, <1>9

\* A part of a sequence.
LEMMA PartIs ==
  ASSUME NEW S, NEW s \in Seq(S), NEW a \in 1 .. Len(s) + 1, NEW b \in Int, a - 1 <= b, b <= Len(s),
         NEW t, t = SubSeq(s, a, b)
  PROVE  t \in Seq(S) /\ Len(t) = (b - a) + 1 /\ \A j \in 1 .. (b - a) + 1 : t[j] = s[(a + j) - 1]
<1>1. a \in Int /\ Len(s) \in Nat
  OBVIOUS
<1>2. \A i \in a .. b : s[i] \in S
  <2>1. \A i \in a .. b : i \in 1 .. Len(s)
    BY <1>1
  <2> QED  BY <2>1, ElementOfSeq
<1>3. /\ t \in Seq(S) /\ Len(t) = IF a <= b THEN b - a + 1 ELSE 0
      /\ \A j \in 1 .. b - a + 1 : t[j] = s[a + j - 1]
  BY <1>1, <1>2, SubSeqProperties
<1>4. (IF a <= b THEN b - a + 1 ELSE 0) = (b - a) + 1
  BY <1>1
<1>5. \A j \in 1 .. (b - a) + 1 : (a + j) - 1 = a + j - 1 /\ b - a + 1 = (b - a) + 1
  BY <1>1
<1> QED  BY <1>1, <1>3, <1>4, <1>5

\* t is s with an element more,
Inserted(t, s, i, c) ==
  /\ Len(t) = Len(s) + 1
  /\ \A j \in 1 .. Len(s) + 1 : t[j] = IF j < i THEN s[j] ELSE IF j = i THEN c ELSE s[j - 1]

LEMMA InsertIs ==
  ASSUME NEW S, NEW s \in Seq(S), NEW i \in 1 .. Len(s) + 1, NEW c \in S, NEW t, t = InsertAt(s, i, c)
  PROVE  t \in Seq(S) /\ Inserted(t, s, i, c)
<1>1. PICK n \in Nat : n = Len(s)
  OBVIOUS
<1>2. PICK l : l = SubSeq(s, 1, i - 1)
  OBVIOUS
<1>3. PICK r : r = SubSeq(s, i, n)
  OBVIOUS
<1>4. PICK m \in Seq(S) : m = <<c>> /\ Len(m) = 1 /\ m[1] = c
  <2>1. <<c>> \in Seq(S) /\ Len(<<c>>) = 1 /\ <<c>>[1] = c
    OBVIOUS
  <2> QED  BY <2>1, Zenon
<1>5. i \in Int /\ 1 <= i /\ i <= n + 1
  BY <1>1
<1>6. l \in Seq(S) /\ Len(l) = i - 1 /\ \A j \in 1 .. i - 1 : l[j] = s[j]
  <2>1. i - 1 \in Int /\ 1 - 1 <= i - 1 /\ i - 1 <= n /\ 1 \in 1 .. n + 1 /\ ((i - 1) - 1) + 1 = i - 1
    BY <1>1, <1>5
  <2>2. \A j \in 1 .. i - 1 : (1 + j) - 1 = j
    OBVIOUS
  <2> HIDE <1>5
  <2> QED  BY <1>1, <1>2, <2>1, <2>2, PartIs
<1>7. r \in Seq(S) /\ Len(r) = (n - i) + 1 /\ \A j \in 1 .. (n - i) + 1 : r[j] = s[(i + j) - 1]
  BY <1>1, <1>3, <1>5, PartIs
<1>8. PICK a : a = l \o m
  OBVIOUS
<1>9. a \in Seq(S) /\ Len(a) = i /\ \A j \in 1 .. i : a[j] = IF j < i THEN s[j] ELSE c
  <2>1. /\ a \in Seq(S) /\ Len(a) = (i - 1) + 1
        /\ \A j \in 1 .. (i - 1) + 1 : a[j] = IF j <= i - 1 THEN l[j] ELSE m[j - (i - 1)]
    BY <1>4, <1>6, <1>8, ConcatProperties
  <2>2. ASSUME NEW j \in 1 .. i PROVE a[j] = IF j < i THEN s[j] ELSE c
    <3>1. j < i => j <= i - 1 /\ j \in 1 .. i - 1
      BY <1>5
    <3>2. ~(j < i) => ~(j <= i - 1) /\ j - (i - 1) = 1
      BY <1>5
    <3>3. j \in 1 .. (i - 1) + 1
      BY <1>5
    <3> QED  BY <1>4, <1>6, <2>1, <3>1, <3>2, <3>3
  <2> QED  BY <1>5, <2>1, <2>2
<1>10. t = a \o r
  BY <1>1, <1>2, <1>3, <1>4, <1>8 DEF InsertAt
<1>11. /\ t \in Seq(S) /\ Len(t) = i + ((n - i) + 1)
       /\ \A j \in 1 .. i + ((n - i) + 1) : t[j] = IF j <= i THEN a[j] ELSE r[j - i]
  <2>1. a \in Seq(S) /\ r \in Seq(S) /\ i = Len(a) /\ (n - i) + 1 = Len(r)
    BY <1>7, <1>9, Zenon
  <2>2. /\ t \in Seq(S) /\ Len(t) = Len(a) + Len(r)
        /\ \A j \in 1 .. Len(a) + Len(r) : t[j] = IF j <= Len(a) THEN a[j] ELSE r[j - Len(a)]
    BY <1>10, <2>1, ConcatProperties
  <2> QED  BY <2>1, <2>2
<1>12. i + ((n - i) + 1) = n + 1
  BY <1>5
<1>13. ASSUME NEW j \in 1 .. n + 1
       PROVE  t[j] = IF j < i THEN s[j] ELSE IF j = i THEN c ELSE s[j - 1]
  <2>1. CASE j <= i
    BY <1>9, <1>11, <1>12, <2>1
  <2>2. CASE ~(j <= i)
    <3>1. j - i \in 1 .. (n - i) + 1 /\ (i + (j - i)) - 1 = j - 1
      BY <1>5, <2>2
    <3>2. t[j] = r[j - i]
      BY <1>11, <1>12, <2>2
    <3> QED  BY <1>7, <2>2, <3>1, <3>2
  <2> QED  BY <2>1, <2>2
<1> QED  BY <1>1, <1>11, <1>12, <1>13 DEF Inserted

\* and with one less.
Removed(t, s, i) ==
  /\ Len(t) = Len(s) - 1
  /\ \A j \in 1 .. Len(s) - 1 : t[j] = IF j < i THEN s[j] ELSE s[j + 1]

LEMMA RemoveIs ==
  ASSUME NEW S, NEW s \in Seq(S), NEW i \in 1 .. Len(s), NEW t, t = RemoveAt(s, i)
  PROVE  t \in Seq(S) /\ Removed(t, s, i)
<1>1. PICK n \in Nat : n = Len(s)
  OBVIOUS
<1>2. PICK l : l = SubSeq(s, 1, i - 1)
  OBVIOUS
<1>3. PICK r : r = SubSeq(s, i + 1, n)
  OBVIOUS
<1>5. i \in Int /\ 1 <= i /\ i <= n
  BY <1>1
<1>6. l \in Seq(S) /\ Len(l) = i - 1 /\ \A j \in 1 .. i - 1 : l[j] = s[j]
  <2>1. i - 1 \in Int /\ 1 - 1 <= i - 1 /\ i - 1 <= n /\ 1 \in 1 .. n + 1 /\ ((i - 1) - 1) + 1 = i - 1
    BY <1>1, <1>5
  <2>2. \A j \in 1 .. i - 1 : (1 + j) - 1 = j
    OBVIOUS
  <2> HIDE <1>5
  <2> QED  BY <1>1, <1>2, <2>1, <2>2, PartIs
<1>7. r \in Seq(S) /\ Len(r) = n - i /\ \A j \in 1 .. n - i : r[j] = s[i + j]
  <2>1. i + 1 \in 1 .. n + 1 /\ (i + 1) - 1 <= n /\ (n - (i + 1)) + 1 = n - i
    BY <1>5
  <2>2. /\ r \in Seq(S) /\ Len(r) = (n - (i + 1)) + 1
        /\ \A j \in 1 .. (n - (i + 1)) + 1 : r[j] = s[((i + 1) + j) - 1]
    BY <1>1, <1>3, <2>1, PartIs
  <2>3. \A j \in 1 .. n - i : ((i + 1) + j) - 1 = i + j
    BY <1>5
  <2> QED  BY <2>1, <2>2, <2>3
<1>8. t = l \o r
  BY <1>1, <1>2, <1>3 DEF RemoveAt
<1>9. /\ t \in Seq(S) /\ Len(t) = (i - 1) + (n - i)
      /\ \A j \in 1 .. (i - 1) + (n - i) : t[j] = IF j <= i - 1 THEN l[j] ELSE r[j - (i - 1)]
  <2>1. l \in Seq(S) /\ r \in Seq(S) /\ i - 1 = Len(l) /\ n - i = Len(r)
    BY <1>6, <1>7, Zenon
  <2>2. /\ t \in Seq(S) /\ Len(t) = Len(l) + Len(r)
        /\ \A j \in 1 .. Len(l) + Len(r) : t[j] = IF j <= Len(l) THEN l[j] ELSE r[j - Len(l)]
    BY <1>8, <2>1, ConcatProperties
  <2> QED  BY <2>1, <2>2
<1>10. (i - 1) + (n - i) = n - 1
  BY <1>5
<1>11. ASSUME NEW j \in 1 .. n - 1
       PROVE  t[j] = IF j < i THEN s[j] ELSE s[j + 1]
  <2>1. CASE j < i
    <3>1. j <= i - 1 /\ j \in 1 .. i - 1
      BY <1>5, <2>1
    <3> QED  BY <1>6, <1>9, <1>10, <2>1, <3>1
  <2>2. CASE ~(j < i)
    <3>1. j - (i - 1) \in 1 .. n - i /\ i + (j - (i - 1)) = j + 1 /\ ~(j <= i - 1)
      BY <1>5, <2>2
    <3> QED  BY <1>7, <1>9, <1>10, <2>2, <3>1
  <2> QED  BY <2>1, <2>2
<1> QED  BY <1>1, <1>9, <1>10, <1>11 DEF Removed

\* A character is typed in: what is behind it moves on, the prompt stays.
LEMMA InsertKeeps ==
  ASSUME NEW e, Sound(e), NEW c \in Chars, NEW f, f = insert_char_at_cursor(e, c)
  PROVE  /\ Sound(f) /\ f.buf = InsertAt(e.buf, e.pos + 1, c) /\ Len(f.buf) = Len(e.buf) + 1
         /\ f.pos = e.pos + 1 /\ f.exact = (e.exact /\ Len(e.buf) + 1 < TERMINAL_BUFFER_SIZE)
         /\ \A k \in Columns : e.cell[k] = Prompt => f.cell[k] = Prompt
<1>1. PICK M \in Nat, B \in Nat, x \in Int, pos \in Int, n \in Nat, home \in Int, am \in Int :
        /\ M = MAX_CHARS /\ B = TERMINAL_BUFFER_SIZE /\ M > 0 /\ B > 0
        /\ x = e.x /\ pos = e.pos /\ n = Len(e.buf) /\ home = e.home /\ am = e.amount
        /\ 0 <= pos /\ pos <= n /\ am = (x - pos) + n
        /\ -B <= x - pos /\ x - pos < M /\ home <= x - pos
        /\ \A k : k \in Columns <=> k \in Int /\ -B <= k /\ k <= M + B
  BY SoundIs
<1>a. M = MAX_CHARS /\ B = TERMINAL_BUFFER_SIZE /\ x = e.x /\ pos = e.pos /\ n = Len(e.buf)
      /\ home = e.home /\ am = e.amount
  BY <1>1
<1>b. /\ M > 0 /\ B > 0 /\ 0 <= pos /\ pos <= n /\ am = (x - pos) + n
      /\ -B <= x - pos /\ x - pos < M /\ home <= x - pos
  BY <1>1
<1>c. /\ \A k \in Columns : k \in Int /\ -B <= k /\ k <= M + B
      /\ \A k \in Int : -B <= k /\ k <= M + B => k \in Columns
  BY <1>1
<1>2. e \in Editors /\ e.buf \in Seq(Chars) /\ e.cell \in [Columns -> Cells]
  BY EditorIs DEF Sound
<1>3. PICK cell \in Cells : cell = Cell(c, TRUE) /\ cell # Prompt
  BY Marks
<1>4. PICK cs : cs = [k \in Columns |-> CASE k = x -> cell
                                          [] k > x /\ k <= am -> e.cell[k - 1]
                                          [] OTHER -> e.cell[k]]
  OBVIOUS
<1>5. PICK buf : buf = InsertAt(e.buf, pos + 1, c)
  OBVIOUS
<1>6. /\ buf \in Seq(Chars) /\ Len(buf) = n + 1
      /\ \A j \in 1 .. n + 1 : buf[j] = IF j < pos + 1 THEN e.buf[j]
                                        ELSE IF j = pos + 1 THEN c ELSE e.buf[j - 1]
  <2>1. pos + 1 \in 1 .. n + 1
    BY <1>b
  <2>2. pos + 1 \in 1 .. Len(e.buf) + 1
    BY <1>a, <2>1
  <2>3. /\ buf \in Seq(Chars) /\ Len(buf) = Len(e.buf) + 1
        /\ \A j \in 1 .. Len(e.buf) + 1 : buf[j] = IF j < pos + 1 THEN e.buf[j]
                                                   ELSE IF j = pos + 1 THEN c ELSE e.buf[j - 1]
    <3>0. PICK s \in Seq(Chars) : s = e.buf
      BY <1>2
    <3>1. PICK i \in 1 .. Len(s) + 1 : i = pos + 1
      BY <2>2, <3>0
    <3>2. buf = InsertAt(s, i, c)
      BY <1>5, <3>0, <3>1
    <3>3. buf \in Seq(Chars) /\ Inserted(buf, s, i, c)
      BY <3>2, InsertIs
    <3> QED  BY <3>0, <3>1, <3>3 DEF Inserted
  <2> QED  BY <1>a, <2>3
<1>7. \A k \in Columns : k > x => k - 1 \in Columns
  BY <1>a, <1>b, <1>c
<1>8. /\ cs \in [Columns -> Cells]
      /\ \A k \in Columns : k = x => cs[k] = cell
      /\ \A k \in Columns : k > x /\ k <= am => cs[k] = e.cell[k - 1]
      /\ \A k \in Columns : k # x /\ ~(k > x /\ k <= am) => cs[k] = e.cell[k]
  <2>1. \A k \in Columns : k > x => k # x
    BY <1>a, <1>b, <1>c
  <2>2. ASSUME NEW k \in Columns
        PROVE  (CASE k = x -> cell [] k > x /\ k <= am -> e.cell[k - 1] [] OTHER -> e.cell[k]) \in Cells
    BY <1>2, <1>7, <2>1
  <2> QED  BY <1>4, <2>1, <2>2
<1>9. PICK ex \in BOOLEAN : ex = (e.exact /\ n + 1 < B)
  OBVIOUS
<1>10. f = [e EXCEPT !.buf = buf, !.cell = cs, !.amount = am + 1, !.pos = pos + 1, !.x = x + 1,
                     !.exact = ex]
  BY <1>a, <1>b, <1>c, <1>2, <1>3, <1>4, <1>5, <1>9 DEF insert_char_at_cursor, Editors
<1>11. f = [buf |-> buf, pos |-> pos + 1, start |-> e.start, x |-> x + 1, amount |-> am + 1,
            cell |-> cs, prompt |-> e.prompt, home |-> home, exact |-> ex]
  BY <1>a, <1>b, <1>c, <1>2, <1>10 DEF Editors
<1>12. f \in Editors
  BY <1>2, <1>6, <1>8, <1>11, EditorIs DEF Editors
<1>13. \A k \in Columns : e.cell[k] = Prompt => k < home
  BY <1>a, <1>b, <1>c DEF Sound
<1>14. \A k \in Columns : cs[k] = Prompt => k < home
  <2> SUFFICES ASSUME NEW k \in Columns, cs[k] = Prompt PROVE k < home
    OBVIOUS
  <2>1. k # x
    BY <1>3, <1>8
  <2>2. CASE k > x /\ k <= am
    <3>1. k - 1 \in Columns /\ e.cell[k - 1] = Prompt
      BY <1>7, <1>8, <2>2
    <3>2. k - 1 < home
      BY <1>13, <3>1
    <3>3. k \in Int /\ home <= x
      BY <1>b, <1>c
    <3> QED  BY <2>2, <3>2, <3>3
  <2>3. CASE ~(k > x /\ k <= am)
    BY <1>8, <1>13, <2>1, <2>3
  <2> QED  BY <2>2, <2>3
<1>15. \A k \in Columns : e.cell[k] = Prompt => cs[k] = Prompt
  <2> SUFFICES ASSUME NEW k \in Columns, e.cell[k] = Prompt PROVE cs[k] = Prompt
    OBVIOUS
  <2>1. k \in Int /\ k < x
    <3>1. k \in Int /\ k < home
      BY <1>c, <1>13
    <3> QED  BY <1>b, <3>1
  <2>2. k # x /\ ~(k > x /\ k <= am)
    BY <2>1
  <2> QED  BY <1>8, <2>2
<1>16. f.exact => Shown(f)
  <2>1. SUFFICES ASSUME ex PROVE Shown(f)
    BY <1>11
  <2>2. n + 1 < B /\ Shown(e)
    BY <1>9, <2>1 DEF Sound
  <2>3. home = x - pos
    BY <1>a, <1>b, <1>c, <2>2 DEF Shown
  <2>4. \A j \in 1 .. n : e.cell[home + j - 1] = Cell(e.buf[j], TRUE)
    BY <1>a, <1>b, <1>c, <2>2 DEF Shown
  <2>5. ASSUME NEW j \in 1 .. n + 1
        PROVE  cs[home + j - 1] = Cell(buf[j], TRUE)
    <3>1. PICK k \in Int : k = home + j - 1
      OBVIOUS
    <3>2. k \in Columns
      BY <1>b, <1>c, <2>2, <2>3, <3>1
    <3>3. CASE j < pos + 1
      <4>1. k < x /\ j \in 1 .. n
        BY <1>b, <2>3, <3>1, <3>3
      <4>2. k # x /\ ~(k > x /\ k <= am)
        BY <4>1
      <4>3. cs[k] = e.cell[k]
        BY <1>8, <3>2, <4>2
      <4>4. buf[j] = e.buf[j]
        BY <1>6, <3>3
      <4> QED  BY <2>4, <3>1, <4>1, <4>3, <4>4
    <3>4. CASE j = pos + 1
      <4>1. k = x
        BY <1>b, <2>3, <3>1, <3>4
      <4>2. cs[k] = cell
        BY <1>8, <3>2, <4>1
      <4>3. buf[j] = c
        <5>1. ~(j < pos + 1)
          BY <1>a, <1>b, <1>c, <3>4
        <5> QED  BY <1>6, <3>4, <5>1
      <4> QED  BY <1>3, <3>1, <4>2, <4>3
    <3>5. CASE j > pos + 1
      <4>1. k > x /\ k <= am /\ j - 1 \in 1 .. n
        BY <1>b, <2>3, <3>1, <3>5
      <4>2. cs[k] = e.cell[k - 1]
        BY <1>8, <3>2, <4>1
      <4>3. buf[j] = e.buf[j - 1]
        <5>1. ~(j < pos + 1) /\ j # pos + 1
          BY <1>b, <3>5
        <5> QED  BY <1>6, <5>1
      <4>4. k - 1 = home + (j - 1) - 1
        BY <3>1
      <4> QED  BY <2>4, <3>1, <4>1, <4>2, <4>3, <4>4
    <3>6. j < pos + 1 \/ j = pos + 1 \/ j > pos + 1
      OBVIOUS
    <3> QED  BY <3>3, <3>4, <3>5, <3>6, Zenon
  <2>6. home = (x + 1) - (pos + 1)
    BY <2>3
  <2>7. f.buf = buf /\ f.x = x + 1 /\ f.pos = pos + 1 /\ f.home = home /\ f.cell = cs
    BY <1>11
  <2>8. Len(f.buf) = n + 1 /\ Len(f.buf) < TERMINAL_BUFFER_SIZE
    BY <1>6, <1>a, <2>2, <2>7
  <2>9. f.home = f.x - f.pos
    BY <2>6, <2>7
  <2> QED  BY <2>5, <2>7, <2>8, <2>9 DEF Shown
<1>17. /\ pos + 1 \in 0 .. n + 1 /\ (x + 1) - (pos + 1) = x - pos /\ (am + 1) - (n + 1) = x - pos
       /\ x - pos \in -B .. M - 1
  BY <1>b
<1>18. Sound(f)
  <2>1. e.start \in 0 .. MAX_CHARS - 1 /\ home <= e.start
    BY <1>a, <1>b, <1>c DEF Sound
  <2>2. /\ Len(f.buf) = n + 1 /\ f.x = x + 1 /\ f.pos = pos + 1 /\ f.home = home /\ f.cell = cs
        /\ f.amount = am + 1 /\ f.start = e.start
    BY <1>6, <1>11
  <2>3. f.x - f.pos \in -TERMINAL_BUFFER_SIZE .. MAX_CHARS - 1
    BY <1>a, <1>17, <2>2
  <2>4. f.pos \in 0 .. Len(f.buf) /\ f.amount - Len(f.buf) = f.x - f.pos
    BY <1>17, <2>2
  <2>5. f.home <= f.x - f.pos /\ f.home <= f.start /\ f.start \in 0 .. MAX_CHARS - 1
    BY <1>b, <1>17, <2>1, <2>2
  <2>6. \A k \in Columns : f.cell[k] = Prompt => k < f.home
    BY <1>14, <2>2
  <2> QED  BY <1>12, <1>16, <2>3, <2>4, <2>5, <2>6 DEF Sound
<1>19. \A k \in Columns : e.cell[k] = Prompt => f.cell[k] = Prompt
  BY <1>11, <1>15
<1> QED  BY <1>a, <1>b, <1>c, <1>5, <1>6, <1>9, <1>11, <1>18, <1>19

\* The character before the cursor is deleted, if there is one that may be.
LEMMA DeletionKeeps ==
  ASSUME NEW e, Sound(e), Len(e.buf) <= TERMINAL_BUFFER_SIZE, NEW f, f = handle_input_buffer_deletion(e)
  PROVE  /\ Sound(f) /\ Len(f.buf) <= Len(e.buf) /\ f.home = e.home /\ f.exact = e.exact
         /\ e.exact /\ 0 <= e.home /\ e.pos # 0 => f.buf = RemoveAt(e.buf, e.pos) /\ f.pos = e.pos - 1
         /\ \A k \in Columns : e.cell[k] = Prompt => f.cell[k] = Prompt
<1>1. PICK M \in Nat, B \in Nat, x \in Int, pos \in Int, n \in Nat, home \in Int, am \in Int :
        /\ M = MAX_CHARS /\ B = TERMINAL_BUFFER_SIZE /\ M > 0 /\ B > 0
        /\ x = e.x /\ pos = e.pos /\ n = Len(e.buf) /\ home = e.home /\ am = e.amount
        /\ 0 <= pos /\ pos <= n /\ am = (x - pos) + n
        /\ -B <= x - pos /\ x - pos < M /\ home <= x - pos
        /\ \A k : k \in Columns <=> k \in Int /\ -B <= k /\ k <= M + B
  BY SoundIs
<1>a. M = MAX_CHARS /\ B = TERMINAL_BUFFER_SIZE /\ x = e.x /\ pos = e.pos /\ n = Len(e.buf)
      /\ home = e.home /\ am = e.amount
  BY <1>1
<1>b. /\ M > 0 /\ B > 0 /\ 0 <= pos /\ pos <= n /\ am = (x - pos) + n
      /\ -B <= x - pos /\ x - pos < M /\ home <= x - pos
  BY <1>1
<1>c. /\ \A k \in Columns : k \in Int /\ -B <= k /\ k <= M + B
      /\ \A k \in Int : -B <= k /\ k <= M + B => k \in Columns
  BY <1>1
<1>2. e \in Editors /\ e.buf \in Seq(Chars) /\ e.cell \in [Columns -> Cells]
  BY EditorIs DEF Sound
<1>3. CASE n = 0 \/ pos = 0 \/ x <= 0 \/ ~e.cell[x - 1].interactable
  <2>1. f = e
    BY <1>a, <1>b, <1>c, <1>3 DEF handle_input_buffer_deletion
  <2>2. n <= n
    BY <1>b
  <2>3. ASSUME e.exact, 0 <= home, pos # 0
        PROVE  FALSE
    <3>1. Shown(e)
      BY <2>3 DEF Sound
    <3>2. home = x - pos
      BY <1>a, <3>1 DEF Shown
    <3>3. pos \in 1 .. n /\ x - 1 = home + pos - 1 /\ ~(x <= 0) /\ n # 0
      BY <1>b, <2>3, <3>2
    <3>4. \A i \in 1 .. n : e.cell[home + i - 1] = Cell(e.buf[i], TRUE)
      BY <1>a, <3>1 DEF Shown
    <3>5. e.cell[x - 1].interactable
      <4>1. e.cell[x - 1] = Cell(e.buf[pos], TRUE)
        BY <3>3, <3>4
      <4>2. Cell(e.buf[pos], TRUE).interactable = TRUE
        BY DEF Cell
      <4> QED  BY <4>1, <4>2
    <3> QED  BY <1>3, <2>3, <3>3, <3>5
  <2> QED  BY <1>a, <2>1, <2>2, <2>3
<1>4. CASE ~(n = 0 \/ pos = 0 \/ x <= 0 \/ ~e.cell[x - 1].interactable)
  <2>1. PICK cs : cs = [k \in Columns |-> CASE k = am - 1 -> Blank
                                            [] k >= x - 1 /\ k < am - 1 -> e.cell[k + 1]
                                            [] OTHER -> e.cell[k]]
    OBVIOUS
  <2>2. PICK buf : buf = RemoveAt(e.buf, pos)
    OBVIOUS
  <2>3. n <= B /\ 1 <= pos /\ x > 0
    <3>1. n <= B
      BY <1>a
    <3>2. pos # 0 /\ ~(x <= 0)
      BY <1>4
    <3> QED  BY <1>b, <3>1, <3>2
  <2>4. /\ buf \in Seq(Chars) /\ Len(buf) = n - 1
        /\ \A j \in 1 .. n - 1 : buf[j] = IF j < pos THEN e.buf[j] ELSE e.buf[j + 1]
    <3>1. pos \in 1 .. Len(e.buf)
      BY <1>a, <1>b, <1>c, <2>3
    <3>2. /\ buf \in Seq(Chars) /\ Len(buf) = Len(e.buf) - 1
          /\ \A j \in 1 .. Len(e.buf) - 1 : buf[j] = IF j < pos THEN e.buf[j] ELSE e.buf[j + 1]
      <4>0. PICK s \in Seq(Chars) : s = e.buf
        BY <1>2
      <4>1. PICK i \in 1 .. Len(s) : i = pos
        BY <3>1, <4>0
      <4>2. buf = RemoveAt(s, i)
        BY <2>2, <4>0, <4>1
      <4>3. buf \in Seq(Chars) /\ Removed(buf, s, i)
        BY <4>2, RemoveIs
      <4> QED  BY <4>0, <4>1, <4>3 DEF Removed
    <3> QED  BY <1>a, <3>2
  <2>5. \A k \in Columns : k < am - 1 => k + 1 \in Columns /\ k # am - 1
    BY <1>b, <1>c, <2>3
  <2>6. /\ cs \in [Columns -> Cells]
        /\ \A k \in Columns : k = am - 1 => cs[k] = Blank
        /\ \A k \in Columns : k >= x - 1 /\ k < am - 1 => cs[k] = e.cell[k + 1]
        /\ \A k \in Columns : k # am - 1 /\ ~(k >= x - 1 /\ k < am - 1) => cs[k] = e.cell[k]
    <3>1. ASSUME NEW k \in Columns
          PROVE  (CASE k = am - 1 -> Blank [] k >= x - 1 /\ k < am - 1 -> e.cell[k + 1]
                    [] OTHER -> e.cell[k]) \in Cells
      BY <1>2, <2>5, Marks
    <3> QED  BY <2>1, <2>5, <3>1
  <2>7. f = [e EXCEPT !.buf = buf, !.cell = cs, !.amount = am - 1, !.pos = pos - 1, !.x = x - 1]
    BY <1>a, <1>b, <1>c, <1>2, <1>4, <2>1, <2>2 DEF handle_input_buffer_deletion, Editors
  <2>8. f = [buf |-> buf, pos |-> pos - 1, start |-> e.start, x |-> x - 1, amount |-> am - 1,
             cell |-> cs, prompt |-> e.prompt, home |-> home, exact |-> e.exact]
    BY <1>a, <1>b, <1>c, <1>2, <2>7 DEF Editors
  <2>9. f \in Editors
    BY <1>2, <2>4, <2>6, <2>8, EditorIs DEF Editors
  <2>10. \A k \in Columns : e.cell[k] = Prompt => k < home
    BY <1>a, <1>b, <1>c DEF Sound
  <2>11. \A k \in Columns : cs[k] = Prompt => k < home
    <3> SUFFICES ASSUME NEW k \in Columns, cs[k] = Prompt PROVE k < home
      OBVIOUS
    <3>1. k # am - 1
      BY <2>6, Marks
    <3>2. CASE k >= x - 1 /\ k < am - 1
      <4>1. k + 1 \in Columns /\ e.cell[k + 1] = Prompt
        BY <2>5, <2>6, <3>2
      <4>2. k + 1 < home
        BY <2>10, <4>1
      <4> QED  BY <1>a, <1>b, <1>c, <4>2
    <3>3. CASE ~(k >= x - 1 /\ k < am - 1)
      BY <2>6, <2>10, <3>1, <3>3
    <3> QED  BY <3>2, <3>3
  <2>12. \A k \in Columns : e.cell[k] = Prompt => cs[k] = Prompt
    <3> SUFFICES ASSUME NEW k \in Columns, e.cell[k] = Prompt PROVE cs[k] = Prompt
      OBVIOUS
    <3>1. k \in Int /\ k < home
      BY <1>c, <2>10
    <3>2. k < x - 1 /\ k < am - 1
      BY <1>b, <2>3, <3>1
    <3>3. k # am - 1 /\ ~(k >= x - 1 /\ k < am - 1)
      BY <3>1, <3>2
    <3> QED  BY <2>6, <3>3
  <2>13. f.exact => Shown(f)
    <3>1. SUFFICES ASSUME e.exact PROVE Shown(f)
      BY <2>8
    <3>2. Shown(e)
      BY <3>1 DEF Sound
    <3>3. home = x - pos /\ n < B
      BY <1>a, <1>b, <1>c, <3>2 DEF Shown
    <3>4. \A j \in 1 .. n : e.cell[home + j - 1] = Cell(e.buf[j], TRUE)
      BY <1>a, <1>b, <1>c, <3>2 DEF Shown
    <3>5. ASSUME NEW j \in 1 .. n - 1
          PROVE  cs[home + j - 1] = Cell(buf[j], TRUE)
      <4>1. PICK k \in Int : k = home + j - 1
        OBVIOUS
      <4>2. k \in Columns /\ k < am - 1
        BY <1>b, <1>c, <3>3, <4>1
      <4>3. CASE j < pos
        <5>1. k # am - 1 /\ ~(k >= x - 1 /\ k < am - 1)
          BY <1>b, <3>3, <4>1, <4>2, <4>3
        <5>2. cs[k] = e.cell[k] /\ j \in 1 .. n
          BY <2>6, <4>2, <5>1
        <5>3. buf[j] = e.buf[j]
          BY <2>4, <4>3
        <5> QED  BY <3>4, <4>1, <5>2, <5>3
      <4>4. CASE ~(j < pos)
        <5>1. k >= x - 1 /\ j + 1 \in 1 .. n
          BY <1>b, <3>3, <4>1, <4>4
        <5>2. cs[k] = e.cell[k + 1]
          BY <2>6, <4>2, <5>1
        <5>3. buf[j] = e.buf[j + 1]
          BY <2>4, <4>4
        <5>4. k + 1 = home + (j + 1) - 1
          BY <4>1
        <5> QED  BY <3>4, <4>1, <5>1, <5>2, <5>3, <5>4
      <4> QED  BY <4>3, <4>4
    <3>6. home = (x - 1) - (pos - 1) /\ n - 1 < B
      BY <1>b, <3>3
    <3>7. f.buf = buf /\ f.x = x - 1 /\ f.pos = pos - 1 /\ f.home = home /\ f.cell = cs
      BY <2>8
    <3>8. Len(f.buf) = n - 1 /\ Len(f.buf) < TERMINAL_BUFFER_SIZE
      BY <1>a, <2>4, <3>6, <3>7
    <3>9. f.home = f.x - f.pos
      BY <3>6, <3>7
    <3> QED  BY <3>5, <3>7, <3>8, <3>9 DEF Shown
  <2>14. /\ pos - 1 \in 0 .. n - 1 /\ (x - 1) - (pos - 1) = x - pos /\ (am - 1) - (n - 1) = x - pos
         /\ x - pos \in -B .. M - 1 /\ n - 1 <= n
    BY <1>b, <2>3
  <2>15. Sound(f)
    <3>1. e.start \in 0 .. MAX_CHARS - 1 /\ home <= e.start
      BY <1>a, <1>b, <1>c DEF Sound
    <3>2. /\ Len(f.buf) = n - 1 /\ f.x = x - 1 /\ f.pos = pos - 1 /\ f.home = home /\ f.cell = cs
          /\ f.amount = am - 1 /\ f.start = e.start
      BY <2>4, <2>8
    <3>3. f.x - f.pos \in -TERMINAL_BUFFER_SIZE .. MAX_CHARS - 1
      BY <1>a, <2>14, <3>2
    <3>4. f.pos \in 0 .. Len(f.buf) /\ f.amount - Len(f.buf) = f.x - f.pos
      BY <2>14, <3>2
    <3>5. f.home <= f.x - f.pos /\ f.home <= f.start /\ f.start \in 0 .. MAX_CHARS - 1
      BY <1>b, <2>14, <3>1, <3>2
    <3>6. \A k \in Columns : f.cell[k] = Prompt => k < f.home
      BY <2>11, <3>2
    <3> QED  BY <2>9, <2>13, <3>3, <3>4, <3>5, <3>6 DEF Sound
  <2>16. f.buf = RemoveAt(e.buf, e.pos) /\ f.pos = e.pos - 1 /\ f.home = e.home /\ f.exact = e.exact
    BY <1>a, <2>2, <2>8
  <2>17. Len(f.buf) <= Len(e.buf)
    BY <1>a, <2>4, <2>8, <2>14
  <2> QED  BY <2>8, <2>12, <2>15, <2>16, <2>17
<1> QED  BY <1>3, <1>4

-----------------------------------------------------------------------------
(* Completion: the three loops of replaceCurrentToken                         *)

\* A round of the first, and the three of them.
StepRight(a) == IF a.pos < Len(a.buf) /\ a.buf[a.pos + 1] # Space THEN cursor_move_inline(a, TRUE) ELSE a

StepsRight(e, s) == FoldLeftDomain(LAMBDA a, i : StepRight(a), e, s)
Deletions(e, s) == FoldLeftDomain(LAMBDA a, i : handle_input_buffer_deletion(a), e, s)
Insertions(e, s) == FoldLeft(insert_char_at_cursor, e, s)

RightRounds(g, n, e) ==
  g \in [0 .. n -> Short] /\ g[0] = e /\ \A i \in 1 .. n : g[i] = StepRight(g[i - 1])

LEMMA RightRuns ==
  ASSUME NEW e \in Short, NEW n \in Nat, NEW s, DOMAIN s = 1 .. n
  PROVE  \E g : RightRounds(g, n, e) /\ g[n] = StepsRight(e, s)
<1>1. PICK step \in [1 .. n -> [Short -> Short]] : step = [i \in 1 .. n |-> [a \in Short |-> StepRight(a)]]
  <2>1. \A a \in Short : StepRight(a) \in Short
    <3> SUFFICES ASSUME NEW a \in Short PROVE StepRight(a) \in Short
      OBVIOUS
    <3>1. PICK b : b = cursor_move_inline(a, TRUE)
      OBVIOUS
    <3>2. Sound(a)
      BY DEF Short, SoundEditors
    <3>3. Sound(b) /\ b.buf = a.buf
      BY <3>1, <3>2, CursorMoveKeeps
    <3>4. b \in Editors
      BY <3>3 DEF Sound
    <3>5. b \in Short
      BY <3>3, <3>4 DEF Short, SoundEditors
    <3> QED  BY <3>1, <3>5 DEF StepRight
  <2> QED  BY <2>1
<1>2. \A i \in 1 .. n : \A a \in Short : step[i][a] = StepRight(a)
  BY <1>1
<1> DEFINE chosen == CHOOSE h : h = [t \in SUBSET (1 .. n) |->
                                  IF t = {} THEN e ELSE StepRight(h[t \ {Max(t)}])]
<1>3. PICK h \in [SUBSET (1 .. n) -> Short] : Folds(h, n, e, step)
  BY FoldExists
<1>4. \A t \in SUBSET (1 .. n) : t # {} => Max(t) \in 1 .. n /\ t \ {Max(t)} \in SUBSET (1 .. n)
  BY SomeMax
<1>5. h = [t \in SUBSET (1 .. n) |-> IF t = {} THEN e ELSE StepRight(h[t \ {Max(t)}])]
  <2>1. \A t \in SUBSET (1 .. n) : t # {} => step[Max(t)][h[t \ {Max(t)}]] = StepRight(h[t \ {Max(t)}])
    BY <1>2, <1>4
  <2> QED  BY <1>3, <2>1 DEF Folds
<1>6. chosen = [t \in SUBSET (1 .. n) |-> IF t = {} THEN e ELSE StepRight(chosen[t \ {Max(t)}])]
  BY <1>5
<1>7. StepsRight(e, s) = chosen[1 .. n]
  <2>1. DOMAIN [i \in DOMAIN s |-> i] = 1 .. n
    OBVIOUS
  <2> QED  BY <2>1 DEF StepsRight, FoldLeftDomain, FoldLeft, MapThenFoldSet
<1> HIDE DEF chosen
<1>8. PICK H : H = chosen
  OBVIOUS
<1>9. H[{}] = e
  BY <1>6, <1>8
<1>10. ASSUME NEW i \in 1 .. n, H[1 .. i - 1] \in Short
       PROVE  H[1 .. i] = step[i][H[1 .. i - 1]]
  <2>1. /\ Max(1 .. i) = i /\ (1 .. i) \ {i} = 1 .. i - 1 /\ 1 .. i # {}
        /\ 1 .. i \in SUBSET (1 .. n)
    BY FoldRuns
  <2>2. H[1 .. i] = IF 1 .. i = {} THEN e ELSE StepRight(H[(1 .. i) \ {Max(1 .. i)}])
    BY <1>6, <1>8, <2>1
  <2> QED  BY <1>2, <1>10, <2>1, <2>2
<1>11. StepsOn(H, Short, n, e, step)
  BY <1>9, <1>10 DEF StepsOn
<1>12. PICK g : Rounds(g, Short, n, e, step) /\ g[n] = H[1 .. n]
  BY <1>11, RoundsOf
<1>13. \A i \in 1 .. n : g[i] = StepRight(g[i - 1])
  <2>1. \A i \in 1 .. n : g[i - 1] \in Short /\ g[i] = step[i][g[i - 1]]
    BY <1>12 DEF Rounds
  <2> QED  BY <1>2, <2>1
<1>14. g \in [0 .. n -> Short] /\ g[0] = e
  BY <1>12 DEF Rounds
<1> QED  BY <1>7, <1>8, <1>12, <1>13, <1>14 DEF RightRounds

\* The second deletes,
DeleteRounds(g, n, e) ==
  g \in [0 .. n -> Short] /\ g[0] = e /\ \A i \in 1 .. n : g[i] = handle_input_buffer_deletion(g[i - 1])

LEMMA DeleteRuns ==
  ASSUME NEW e \in Short, NEW n \in Nat, NEW s, DOMAIN s = 1 .. n
  PROVE  \E g : DeleteRounds(g, n, e) /\ g[n] = Deletions(e, s)
<1>1. PICK step \in [1 .. n -> [Short -> Short]] :
        step = [i \in 1 .. n |-> [a \in Short |-> handle_input_buffer_deletion(a)]]
  <2>1. \A a \in Short : handle_input_buffer_deletion(a) \in Short
    <3> SUFFICES ASSUME NEW a \in Short PROVE handle_input_buffer_deletion(a) \in Short
      OBVIOUS
    <3>1. PICK b : b = handle_input_buffer_deletion(a)
      OBVIOUS
    <3>2. Sound(a) /\ Len(a.buf) <= TERMINAL_BUFFER_SIZE
      BY DEF Short, SoundEditors
    <3>3. Sound(b) /\ Len(b.buf) <= Len(a.buf)
      BY <3>1, <3>2, DeletionKeeps
    <3>4. a \in Editors /\ b \in Editors
      BY <3>2, <3>3 DEF Sound
    <3>5. Len(a.buf) \in Int /\ Len(b.buf) \in Int /\ TERMINAL_BUFFER_SIZE \in Int
      BY <3>4, EditorIs, TerminalAssumption
    <3>6. Len(b.buf) <= TERMINAL_BUFFER_SIZE
      BY <3>2, <3>3, <3>5
    <3>7. b \in Short
      BY <3>3, <3>4, <3>6 DEF Short, SoundEditors
    <3> QED  BY <3>1, <3>7
  <2> QED  BY <2>1
<1>2. \A i \in 1 .. n : \A a \in Short : step[i][a] = handle_input_buffer_deletion(a)
  BY <1>1
<1> DEFINE chosen == CHOOSE h : h = [t \in SUBSET (1 .. n) |->
                                  IF t = {} THEN e ELSE handle_input_buffer_deletion(h[t \ {Max(t)}])]
<1>3. PICK h \in [SUBSET (1 .. n) -> Short] : Folds(h, n, e, step)
  BY FoldExists
<1>4. \A t \in SUBSET (1 .. n) : t # {} => Max(t) \in 1 .. n /\ t \ {Max(t)} \in SUBSET (1 .. n)
  BY SomeMax
<1>5. h = [t \in SUBSET (1 .. n) |-> IF t = {} THEN e ELSE handle_input_buffer_deletion(h[t \ {Max(t)}])]
  <2>1. \A t \in SUBSET (1 .. n) : t # {} =>
          step[Max(t)][h[t \ {Max(t)}]] = handle_input_buffer_deletion(h[t \ {Max(t)}])
    BY <1>2, <1>4
  <2> QED  BY <1>3, <2>1 DEF Folds
<1>6. chosen = [t \in SUBSET (1 .. n) |->
                  IF t = {} THEN e ELSE handle_input_buffer_deletion(chosen[t \ {Max(t)}])]
  BY <1>5
<1>7. Deletions(e, s) = chosen[1 .. n]
  <2>1. DOMAIN [i \in DOMAIN s |-> i] = 1 .. n
    OBVIOUS
  <2> QED  BY <2>1 DEF Deletions, FoldLeftDomain, FoldLeft, MapThenFoldSet
<1> HIDE DEF chosen
<1>8. PICK H : H = chosen
  OBVIOUS
<1>9. H[{}] = e
  BY <1>6, <1>8
<1>10. ASSUME NEW i \in 1 .. n, H[1 .. i - 1] \in Short
       PROVE  H[1 .. i] = step[i][H[1 .. i - 1]]
  <2>1. /\ Max(1 .. i) = i /\ (1 .. i) \ {i} = 1 .. i - 1 /\ 1 .. i # {}
        /\ 1 .. i \in SUBSET (1 .. n)
    BY FoldRuns
  <2>2. H[1 .. i] = IF 1 .. i = {} THEN e ELSE handle_input_buffer_deletion(H[(1 .. i) \ {Max(1 .. i)}])
    BY <1>6, <1>8, <2>1
  <2> QED  BY <1>2, <1>10, <2>1, <2>2
<1>11. StepsOn(H, Short, n, e, step)
  BY <1>9, <1>10 DEF StepsOn
<1>12. PICK g : Rounds(g, Short, n, e, step) /\ g[n] = H[1 .. n]
  BY <1>11, RoundsOf
<1>13. \A i \in 1 .. n : g[i] = handle_input_buffer_deletion(g[i - 1])
  <2>1. \A i \in 1 .. n : g[i - 1] \in Short /\ g[i] = step[i][g[i - 1]]
    BY <1>12 DEF Rounds
  <2> QED  BY <1>2, <2>1
<1>14. g \in [0 .. n -> Short] /\ g[0] = e
  BY <1>12 DEF Rounds
<1> QED  BY <1>7, <1>8, <1>12, <1>13, <1>14 DEF DeleteRounds

\* and the third inserts.
InsertRounds(g, n, e, s) ==
  /\ g \in [0 .. n -> SoundEditors] /\ g[0] = e
  /\ \A i \in 1 .. n : g[i] = insert_char_at_cursor(g[i - 1], s[i])

LEMMA InsertRuns ==
  ASSUME NEW e \in SoundEditors, NEW n \in Nat, NEW s \in [1 .. n -> Chars]
  PROVE  \E g : InsertRounds(g, n, e, s) /\ g[n] = Insertions(e, s)
<1>1. PICK step \in [1 .. n -> [SoundEditors -> SoundEditors]] :
        step = [i \in 1 .. n |-> [a \in SoundEditors |-> insert_char_at_cursor(a, s[i])]]
  <2>1. \A i \in 1 .. n : \A a \in SoundEditors : insert_char_at_cursor(a, s[i]) \in SoundEditors
    <3> SUFFICES ASSUME NEW i \in 1 .. n, NEW a \in SoundEditors
                 PROVE  insert_char_at_cursor(a, s[i]) \in SoundEditors
      OBVIOUS
    <3>1. PICK b : b = insert_char_at_cursor(a, s[i])
      OBVIOUS
    <3>2. Sound(a) /\ s[i] \in Chars
      BY DEF SoundEditors
    <3>3. Sound(b)
      BY <3>1, <3>2, InsertKeeps
    <3>4. b \in Editors
      BY <3>3 DEF Sound
    <3>5. b \in SoundEditors
      BY <3>3, <3>4 DEF SoundEditors
    <3> QED  BY <3>1, <3>5
  <2> QED  BY <2>1
<1>2. \A i \in 1 .. n : \A a \in SoundEditors : step[i][a] = insert_char_at_cursor(a, s[i])
  BY <1>1
<1> DEFINE chosen == CHOOSE h : h = [t \in SUBSET (1 .. n) |->
                                  IF t = {} THEN e ELSE insert_char_at_cursor(h[t \ {Max(t)}], s[Max(t)])]
<1>3. PICK h \in [SUBSET (1 .. n) -> SoundEditors] : Folds(h, n, e, step)
  BY FoldExists
<1>4. \A t \in SUBSET (1 .. n) : t # {} => Max(t) \in 1 .. n /\ t \ {Max(t)} \in SUBSET (1 .. n)
  BY SomeMax
<1>5. h = [t \in SUBSET (1 .. n) |->
             IF t = {} THEN e ELSE insert_char_at_cursor(h[t \ {Max(t)}], s[Max(t)])]
  <2>1. \A t \in SUBSET (1 .. n) : t # {} =>
          step[Max(t)][h[t \ {Max(t)}]] = insert_char_at_cursor(h[t \ {Max(t)}], s[Max(t)])
    BY <1>2, <1>4
  <2> QED  BY <1>3, <2>1 DEF Folds
<1>6. chosen = [t \in SUBSET (1 .. n) |->
                  IF t = {} THEN e ELSE insert_char_at_cursor(chosen[t \ {Max(t)}], s[Max(t)])]
  BY <1>5
<1>7. Insertions(e, s) = chosen[1 .. n]
  BY DEF Insertions, FoldLeft, MapThenFoldSet
<1> HIDE DEF chosen
<1>8. PICK H : H = chosen
  OBVIOUS
<1>9. H[{}] = e
  BY <1>6, <1>8
<1>10. ASSUME NEW i \in 1 .. n, H[1 .. i - 1] \in SoundEditors
       PROVE  H[1 .. i] = step[i][H[1 .. i - 1]]
  <2>1. /\ Max(1 .. i) = i /\ (1 .. i) \ {i} = 1 .. i - 1 /\ 1 .. i # {}
        /\ 1 .. i \in SUBSET (1 .. n)
    BY FoldRuns
  <2>2. H[1 .. i] = IF 1 .. i = {} THEN e
                    ELSE insert_char_at_cursor(H[(1 .. i) \ {Max(1 .. i)}], s[Max(1 .. i)])
    BY <1>6, <1>8, <2>1
  <2>3. H[1 .. i] = insert_char_at_cursor(H[1 .. i - 1], s[i])
    BY <2>1, <2>2
  <2> QED  BY <1>2, <1>10, <2>3
<1>11. StepsOn(H, SoundEditors, n, e, step)
  BY <1>9, <1>10 DEF StepsOn
<1>12. PICK g : Rounds(g, SoundEditors, n, e, step) /\ g[n] = H[1 .. n]
  BY <1>11, RoundsOf
<1>13. \A i \in 1 .. n : g[i] = insert_char_at_cursor(g[i - 1], s[i])
  <2>1. \A i \in 1 .. n : g[i - 1] \in SoundEditors /\ g[i] = step[i][g[i - 1]]
    BY <1>12 DEF Rounds
  <2> QED  BY <1>2, <2>1
<1>14. g \in [0 .. n -> SoundEditors] /\ g[0] = e
  BY <1>12 DEF Rounds
<1> QED  BY <1>7, <1>8, <1>12, <1>13, <1>14 DEF InsertRounds

\* Completing a word leaves a line,
LEMMA ReplaceKeeps ==
  ASSUME NEW e \in Short, NEW old \in Seq(Chars), NEW new \in Seq(Chars),
         NEW f, f = replaceCurrentToken(e, old, new)
  PROVE  Sound(f)
<1>1. e \in Editors
  BY DEF Short, SoundEditors
<1>2. PICK n \in Nat, m \in Nat, k \in Nat :
        DOMAIN e.buf = 1 .. n /\ DOMAIN old = 1 .. m /\ k = Len(new) /\ new \in [1 .. k -> Chars]
  <2>1. e.buf \in Seq(Chars)
    BY <1>1, EditorIs
  <2>2. /\ DOMAIN e.buf = 1 .. Len(e.buf) /\ Len(e.buf) \in Nat
        /\ DOMAIN old = 1 .. Len(old) /\ Len(old) \in Nat
        /\ new \in [1 .. Len(new) -> Chars] /\ Len(new) \in Nat
    BY <2>1
  <2> QED  BY <2>2
<1>3. PICK a : a = StepsRight(e, e.buf)
  OBVIOUS
<1>4. a \in Short
  <2>1. PICK g : RightRounds(g, n, e) /\ g[n] = a
    BY <1>2, <1>3, RightRuns
  <2> QED  BY <2>1 DEF RightRounds
<1>5. PICK d : d = Deletions(a, old)
  OBVIOUS
<1>6. d \in Short
  <2>1. PICK g : DeleteRounds(g, m, a) /\ g[m] = d
    BY <1>2, <1>4, <1>5, DeleteRuns
  <2> QED  BY <2>1 DEF DeleteRounds
<1>7. d \in SoundEditors
  BY <1>6 DEF Short
<1>8. f = Insertions(d, new)
  BY <1>3, <1>5 DEF replaceCurrentToken, StepRight, StepsRight, Deletions, Insertions
<1>9. f \in SoundEditors
  <2>1. PICK g : InsertRounds(g, k, d, new) /\ g[k] = f
    BY <1>2, <1>7, <1>8, InsertRuns
  <2> QED  BY <2>1 DEF InsertRounds
<1> QED  BY <1>9 DEF SoundEditors

\* The cursor is at the start of a row below all prompts.
Below(e) ==
  /\ e \in Editors /\ e.x = 0 /\ e.amount = 0
  /\ \A c \in Columns : e.cell[c] = Prompt => c < 0

LEMMA NewlineIsBelow ==
  ASSUME NEW e \in Editors, NEW k \in Int, k <= MAX_CHARS,
         \A c \in Columns : e.cell[c] = Prompt => c < k, NEW f, f = newline(e)
  PROVE  Below(f) /\ f.buf = e.buf /\ f.pos = e.pos /\ f.prompt = e.prompt
<1>1. \A c \in Columns : f.cell[c] = Prompt => c < k - MAX_CHARS
  BY NewlineKeepsPrompts
<1>2. \A c \in Columns : c \in Int
  BY DEF Columns
<1>3. k - MAX_CHARS \in Int /\ k - MAX_CHARS <= 0
  BY TerminalAssumption
<1>4. \A c \in Columns : f.cell[c] = Prompt => c < 0
  BY <1>1, <1>2, <1>3
<1> QED  BY <1>4, NewlineIs DEF Below

\* One or two rows down.
LEMMA NewRow ==
  ASSUME NEW e, Sound(e), NEW f, f = newline(e)
  PROVE  Below(f) /\ f.buf = e.buf /\ f.pos = e.pos /\ f.prompt = e.prompt
<1>1. e \in Editors /\ \A c \in Columns : e.cell[c] = Prompt => c < e.home
  BY DEF Sound
<1>2. e.home \in Int /\ e.home <= e.start /\ e.start \in 0 .. MAX_CHARS - 1
  BY <1>1, EditorIs DEF Sound
<1>3. e.home <= MAX_CHARS
  BY <1>2, TerminalAssumption
<1> QED  BY <1>1, <1>2, <1>3, NewlineIsBelow

LEMMA NewRows ==
  ASSUME NEW e, Sound(e), NEW f, f = newline(newline(e))
  PROVE  Below(f) /\ f.buf = e.buf /\ f.pos = e.pos /\ f.prompt = e.prompt
<1>1. PICK d : d = newline(e)
  OBVIOUS
<1>2. Below(d) /\ d.buf = e.buf /\ d.pos = e.pos /\ d.prompt = e.prompt
  BY <1>1, NewRow
<1>3. 0 \in Int /\ 0 <= MAX_CHARS
  BY TerminalAssumption
<1>4. d \in Editors /\ \A c \in Columns : d.cell[c] = Prompt => c < 0
  BY <1>2 DEF Below
<1>5. Below(f) /\ f.buf = d.buf /\ f.pos = d.pos /\ f.prompt = d.prompt
  BY <1>1, <1>3, <1>4, NewlineIsBelow
<1> QED  BY <1>2, <1>5

\* A prompt there, with an empty line behind it.
LEMMA PromptIsSound ==
  ASSUME NEW e, Below(e), NEW d, d = reset_line_input(e), NEW f, f = newTerminalInputLine(d)
  PROVE  Sound(f) /\ f.buf = <<>>
<1>1. d = [e EXCEPT !.buf = <<>>, !.pos = 0]
  BY DEF reset_line_input
<1>2. d \in Editors /\ d.buf = <<>> /\ d.pos = 0 /\ d.x = 0 /\ d.amount = 0 /\ d.cell = e.cell
  <2>1. <<>> \in Seq(Chars)
    OBVIOUS
  <2> QED  BY <1>1, <2>1 DEF Below, Editors
<1>3. \A c \in Columns : d.cell[c] = Prompt => c < 0
  BY <1>2 DEF Below
<1>4. /\ f \in Editors /\ f.buf = <<>> /\ f.pos = 0
      /\ f.x \in 0 .. MAX_CHARS - 1 /\ f.amount = f.x /\ f.start = f.x /\ f.home = f.x
      /\ \A c \in Columns : f.cell[c] = Prompt => c < f.x
  BY <1>2, <1>3, PromptIsPrinted
<1> QED  BY <1>4, NewLineIsSound

\* The screen as clear leaves it.
LEMMA FreshIsBelow ==
  ASSUME NEW p \in Nat, NEW f, f = Fresh(p)
  PROVE  Below(f) /\ f = reset_line_input(f)
<1>1. PICK cs : cs = [c \in Columns |-> IF c < 0 THEN Other ELSE Blank]
  OBVIOUS
<1>2. cs \in [Columns -> Cells] /\ \A c \in Columns : cs[c] # Prompt
  BY <1>1, Marks
<1>3. f = [buf |-> <<>>, pos |-> 0, start |-> 0, x |-> 0, amount |-> 0,
           cell |-> cs, prompt |-> p, home |-> 0, exact |-> TRUE]
  BY <1>1 DEF Fresh
<1>4. <<>> \in Seq(Chars)
  OBVIOUS
<1>5. f \in Editors
  BY <1>2, <1>3, <1>4 DEF Editors
<1>6. Below(f)
  BY <1>2, <1>3, <1>5 DEF Below
<1>7. f.buf = <<>> /\ f.pos = 0
  BY <1>3
<1>8. f = [f EXCEPT !.buf = <<>>, !.pos = 0]
  BY <1>5, <1>7 DEF Editors
<1> QED  BY <1>6, <1>8 DEF reset_line_input

\* The line shown again below the list of candidates.
LEMMA ShowAgainKeeps ==
  ASSUME NEW e, Sound(e), Len(e.buf) < TERMINAL_BUFFER_SIZE,
         NEW f, f = [print_chars(newTerminalInputLine(newline(newline(e))), Interactable(e.buf))
                       EXCEPT !.pos = Len(e.buf)]
  PROVE  Sound(f)
<1>1. PICK text \in Seq(Chars) : text = e.buf
  BY EditorIs DEF Sound
<1>2. PICK n : n = newline(newline(e))
  OBVIOUS
<1>3. Below(n) /\ n.buf = text
  BY <1>1, <1>2, NewRows
<1>4. PICK a : a = newTerminalInputLine(n)
  OBVIOUS
<1>5. /\ a \in Editors /\ a.buf = text
      /\ a.x \in 0 .. MAX_CHARS - 1 /\ a.amount = a.x /\ a.start = a.x /\ a.home = a.x
      /\ \A c \in Columns : a.cell[c] = Prompt => c < a.x
  BY <1>3, <1>4, PromptIsPrinted DEF Below
<1>6. Printed(a, text, 0)
  <2>1. a.x \in Int /\ a.x - 0 = a.x /\ a.x <= a.x
    BY <1>5
  <2> QED  BY <1>5, <2>1 DEF Printed
<1>7. PICK p : p = print_chars(a, Interactable(text))
  OBVIOUS
<1>8. p \in Editors /\ Printed(p, text, Len(text)) /\ Kept(a, p)
  BY <1>1, <1>5, <1>6, <1>7, TextIsPrinted
<1>9. p.buf = text /\ p.start \in 0 .. MAX_CHARS - 1
  BY <1>5, <1>8 DEF Kept
<1>10. f = [p EXCEPT !.pos = Len(text)]
  BY <1>1, <1>2, <1>4, <1>7
<1> QED  BY <1>1, <1>8, <1>9, <1>10, PrintedIsSound

\* A name of a command is made of characters.
LEMMA NamesAreChars ==
  ASSUME NEW w \in Commands
  PROVE  w \in Seq(Chars)
<1>1. w \in Seq(Range(w)) /\ Range(w) \subseteq Chars
  BY TerminalAssumption DEF Chars
<1>2. \A i \in 1 .. Len(w) : w[i] \in Chars
  BY <1>1, ElementOfSeq
<1>3. Len(w) \in Nat /\ w = [i \in 1 .. Len(w) |-> w[i]]
  BY <1>1
<1>4. \E n \in Nat : w \in [1 .. n -> Chars]
  BY <1>2, <1>3
<1> QED  BY <1>4, SeqDef

\* The token is a part of the line.
LEMMA TokenIsText ==
  ASSUME NEW e, Sound(e)
  PROVE  getCurrTokenFromBuffer(e) \in Seq(Chars)
<1>1. PICK s \in Seq(Chars) : s = e.buf
  BY EditorIs DEF Sound
<1>2. PICK n \in Nat, pos \in Int : n = Len(s) /\ pos = e.pos /\ 0 <= pos /\ pos <= n
  BY <1>1, SoundIs
<1>3. PICK spaces : spaces = {i \in 1 .. pos - 1 : s[i + 1] = Space}
  OBVIOUS
<1>4. PICK from : from = IF spaces = {} THEN 1 ELSE Max(spaces) + 2
  OBVIOUS
<1>5. from \in Nat /\ 1 <= from
  <2>1. CASE spaces = {}
    BY <1>4, <2>1
  <2>2. CASE spaces # {}
    <3>1. spaces \in SUBSET (1 .. n)
      BY <1>2, <1>3
    <3>2. Max(spaces) \in 1 .. n
      BY <2>2, <3>1, SomeMax
    <3> QED  BY <1>4, <2>2, <3>2
  <2> QED  BY <2>1, <2>2
<1>6. PICK ends : ends = {i \in from .. n : s[i] = Space}
  OBVIOUS
<1>7. PICK to : to = IF ends = {} THEN n ELSE Min(ends) - 1
  OBVIOUS
<1>8. to \in Int /\ to <= n
  <2>1. CASE ends = {}
    BY <1>7, <2>1
  <2>2. CASE ends # {}
    <3>1. ends \in SUBSET (1 .. n)
      BY <1>5, <1>6
    <3>2. Min(ends) \in 1 .. n
      BY <2>2, <3>1, SomeMin
    <3> QED  BY <1>7, <2>2, <3>2
  <2> QED  BY <2>1, <2>2
<1>9. \A i \in from .. to : s[i] \in Chars
  <2>1. \A i \in from .. to : i \in 1 .. Len(s)
    BY <1>2, <1>5, <1>8
  <2> QED  BY <2>1, ElementOfSeq
<1>10. SubSeq(s, from, to) \in Seq(Chars)
  BY <1>5, <1>8, <1>9, SubSeqProperties
<1>11. getCurrTokenFromBuffer(e) = SubSeq(s, from, to)
  BY <1>1, <1>2, <1>3, <1>4, <1>6, <1>7 DEF getCurrTokenFromBuffer
<1> QED  BY <1>10, <1>11

\* Completion leaves a line.
LEMMA CompletionKeeps ==
  ASSUME NEW e, Sound(e), Len(e.buf) < TERMINAL_BUFFER_SIZE, NEW f, f = autoComplete(e)
  PROVE  Sound(f)
<1>1. PICK token \in Seq(Chars) : token = getCurrTokenFromBuffer(e)
  BY TokenIsText
<1>2. PICK cannidates : cannidates = {w \in Commands : IsPrefix(token, w)}
  OBVIOUS
<1>3. PICK again : again = newTerminalInputLine(newline(newline(e)))
  OBVIOUS
<1>4. Cardinality(cannidates) \in Nat /\ (Cardinality(cannidates) = 0 <=> cannidates = {})
  <2>1. IsFiniteSet(cannidates)
    BY <1>2, TerminalAssumption, FS_Subset
  <2> QED  BY <2>1, FS_CardinalityType, FS_EmptySet
<1>5. \/ f = e
      \/ Cardinality(cannidates) = 1 /\ f = replaceCurrentToken(e, token, CHOOSE w \in cannidates : TRUE)
      \/ f = [print_chars(again, Interactable(e.buf)) EXCEPT !.pos = Len(e.buf)]
  <2>1. CASE e.buf = <<>> \/ token = <<>> \/ cannidates = {}
    <3>1. ~(e.buf # <<>> /\ token # <<>> /\ Cardinality(cannidates) = 1)
      BY <1>4, <2>1
    <3>2. ~(e.buf # <<>> /\ token # <<>> /\ Cardinality(cannidates) > 1)
      BY <1>4, <2>1
    <3>3. f = e
      BY <1>1, <1>2, <2>1, <3>1, <3>2, Zenon DEF autoComplete
    <3> QED  BY <3>3
  <2>2. CASE e.buf # <<>> /\ token # <<>> /\ Cardinality(cannidates) = 1
    <3>1. ~(e.buf = <<>> \/ token = <<>> \/ cannidates = {})
      BY <1>4, <2>2
    <3>2. ~(Cardinality(cannidates) > 1)
      BY <2>2
    <3>3. f = replaceCurrentToken(e, token, CHOOSE w \in cannidates : TRUE)
      BY <1>1, <1>2, <2>2, <3>1, <3>2, Zenon DEF autoComplete
    <3> QED  BY <2>2, <3>3
  <2>3. CASE e.buf # <<>> /\ token # <<>> /\ Cardinality(cannidates) > 1
    <3>1. ~(e.buf = <<>> \/ token = <<>> \/ cannidates = {})
      BY <1>4, <2>3
    <3>2. Cardinality(cannidates) # 1
      BY <2>3
    <3>3. f = [print_chars(again, Interactable(e.buf)) EXCEPT !.pos = Len(e.buf)]
      BY <1>1, <1>2, <1>3, <2>3, <3>1, <3>2, Zenon DEF autoComplete
    <3> QED  BY <3>3
  <2>4. \/ e.buf = <<>> \/ token = <<>> \/ cannidates = {}
        \/ e.buf # <<>> /\ token # <<>> /\ Cardinality(cannidates) = 1
        \/ e.buf # <<>> /\ token # <<>> /\ Cardinality(cannidates) > 1
    BY <1>4
  <2> QED  BY <2>1, <2>2, <2>3, <2>4
<1>6. ASSUME Cardinality(cannidates) = 1, f = replaceCurrentToken(e, token, CHOOSE w \in cannidates : TRUE)
      PROVE  Sound(f)
  <2>1. cannidates # {}
    BY <1>4, <1>6
  <2>2. PICK w \in Commands : w = CHOOSE v \in cannidates : TRUE
    BY <1>2, <2>1
  <2>3. w \in Seq(Chars)
    BY NamesAreChars
  <2>4. e \in Short
    <3>1. e \in Editors
      BY DEF Sound
    <3>2. Len(e.buf) \in Int /\ TERMINAL_BUFFER_SIZE \in Int
      BY <3>1, EditorIs, TerminalAssumption
    <3> QED  BY <3>1, <3>2 DEF Short, SoundEditors
  <2> QED  BY <1>6, <2>2, <2>3, <2>4, ReplaceKeeps
<1>7. ASSUME f = [print_chars(again, Interactable(e.buf)) EXCEPT !.pos = Len(e.buf)]
      PROVE  Sound(f)
  BY <1>3, <1>7, ShowAgainKeeps
<1> QED  BY <1>5, <1>6, <1>7

\* The word at the cursor of e, a line of n characters, ends at end,
EndsAt(e, n, end) ==
  /\ n = Len(e.buf) /\ e.pos <= end /\ end <= n
  /\ \A j \in e.pos + 1 .. end : e.buf[j] # Space
  /\ end < n => e.buf[end + 1] = Space

\* and a is there.
AtEnd(a, e, end) ==
  a \in Short /\ a.buf = e.buf /\ a.pos = end /\ a.home = e.home /\ a.exact = e.exact

\* To the end of the word,
LEMMA StepsRightAre ==
  ASSUME NEW e \in Short, NEW n \in Nat, NEW end \in Nat, EndsAt(e, n, end),
         NEW a, a = StepsRight(e, e.buf)
  PROVE  AtEnd(a, e, end)
<1>n. /\ n = Len(e.buf) /\ e.pos <= end /\ end <= n
      /\ \A j \in e.pos + 1 .. end : e.buf[j] # Space
      /\ end < n => e.buf[end + 1] = Space
  BY DEF EndsAt
<1>1. PICK pos \in Nat : pos = e.pos /\ pos <= end /\ e.buf \in Seq(Chars)
  <2>1. Sound(e) /\ e \in Editors
    BY DEF Short, SoundEditors
  <2>2. e.pos \in 0 .. Len(e.buf) /\ e.buf \in Seq(Chars)
    BY <2>1, EditorIs DEF Sound
  <2> QED  BY <1>n, <2>2
<1>2. DOMAIN e.buf = 1 .. n
  BY <1>1, <1>n, LenProperties
<1>3. PICK g : RightRounds(g, n, e) /\ g[n] = a
  BY <1>2, RightRuns
<1> DEFINE P(i) == /\ g[i].buf = e.buf /\ g[i].home = e.home /\ g[i].exact = e.exact
                   /\ g[i].pos = IF pos + i <= end THEN pos + i ELSE end
           T == {i \in 0 .. n : P(i)}
<1>4. 0 \in T
  BY <1>1, <1>n, <1>3 DEF RightRounds
<1>5. ASSUME NEW i \in 0 .. n - 1, i \in T
      PROVE  i + 1 \in T
  <2>1. PICK b \in Short : b = g[i] /\ g[i + 1] = StepRight(b)
    <3>1. i + 1 \in 1 .. n /\ i \in 0 .. n /\ (i + 1) - 1 = i
      OBVIOUS
    <3> QED  BY <1>3, <3>1 DEF RightRounds
  <2>2. b.buf = e.buf /\ b.home = e.home /\ b.exact = e.exact
    BY <1>5, <2>1
  <2>3. PICK q \in Nat : q = b.pos /\ q = IF pos + i <= end THEN pos + i ELSE end
    BY <1>5, <2>1
  <2>4. CASE pos + i < end
    <3>1. q = pos + i /\ q < n /\ q + 1 \in pos + 1 .. end
      BY <1>n, <2>3, <2>4
    <3>2. e.buf[q + 1] # Space
      BY <1>1, <1>n, <3>1
    <3>3. g[i + 1] = cursor_move_inline(b, TRUE)
      <4>1. b.pos < Len(b.buf) /\ b.buf[b.pos + 1] # Space
        BY <1>n, <2>2, <2>3, <3>1, <3>2
      <4> QED  BY <2>1, <4>1, Zenon DEF StepRight
    <3>4. Sound(b)
      BY DEF Short, SoundEditors
    <3>5. b.pos < Len(b.buf)
      BY <1>n, <2>2, <2>3, <3>1
    <3>6. /\ g[i + 1].buf = e.buf /\ g[i + 1].home = e.home /\ g[i + 1].exact = e.exact
          /\ g[i + 1].pos = q + 1
      <4>1. PICK f : f = g[i + 1]
        OBVIOUS
      <4>2. f = cursor_move_inline(b, TRUE)
        BY <3>3, <4>1
      <4>3. f.buf = b.buf /\ f.home = b.home /\ f.exact = b.exact /\ f.pos = b.pos + 1
        BY <3>4, <3>5, <4>2, CursorMoveKeeps
      <4> QED  BY <2>2, <2>3, <4>1, <4>3
    <3>7. q + 1 = IF pos + (i + 1) <= end THEN pos + (i + 1) ELSE end
      BY <2>4, <3>1
    <3> QED  BY <3>6, <3>7
  <2>5. CASE ~(pos + i < end)
    <3>1. q = end
      BY <2>3, <2>5
    <3>2. ~(q < n /\ e.buf[q + 1] # Space)
      BY <1>n, <3>1
    <3>3. g[i + 1] = b
      BY <1>n, <2>1, <2>2, <2>3, <3>2 DEF StepRight
    <3>4. end = IF pos + (i + 1) <= end THEN pos + (i + 1) ELSE end
      BY <2>5
    <3>5. g[i + 1].pos = IF pos + (i + 1) <= end THEN pos + (i + 1) ELSE end
      BY <2>3, <3>1, <3>3, <3>4, Zenon
    <3>6. P(i + 1)
      BY <2>2, <3>3, <3>5
    <3>7. i + 1 \in 0 .. n
      OBVIOUS
    <3> HIDE DEF P
    <3> QED  BY <3>6, <3>7
  <2> QED  BY <2>4, <2>5
<1> HIDE DEF T
<1>6. \A i \in 0 .. n : i \in T
  BY <1>4, <1>5, UpTo
<1>7. P(n)
  <2>1. n \in T
    BY <1>6
  <2> QED  BY <2>1 DEF T
<1>8. (IF pos + n <= end THEN pos + n ELSE end) = end
  BY <1>n
<1>9. a \in Short
  BY <1>3 DEF RightRounds
<1> QED  BY <1>3, <1>7, <1>8, <1>9 DEF AtEnd

\* e is f without m characters before the cursor,
Without(f, e, m, n) ==
  /\ f.home = e.home /\ f.exact = e.exact /\ f.pos = e.pos - m /\ Len(f.buf) = n - m
  /\ \A j \in 1 .. n - m : f.buf[j] = IF j <= e.pos - m THEN e.buf[j] ELSE e.buf[j + m]

LEMMA DeletionsAre ==
  ASSUME NEW e \in Short, e.exact, 0 <= e.home,
         NEW m \in Nat, m <= e.pos, NEW s, DOMAIN s = 1 .. m, NEW d, d = Deletions(e, s)
  PROVE  \E n \in Nat : n = Len(e.buf) /\ d \in Short /\ Without(d, e, m, n)
<1>0. Sound(e) /\ e \in Editors
  BY DEF Short, SoundEditors
<1>n. PICK n \in Nat : n = Len(e.buf)
  BY <1>0, EditorIs
<1>1. PICK pos \in Nat : pos = e.pos /\ pos <= n /\ m <= pos
  <2>1. e.pos \in 0 .. Len(e.buf)
    BY <1>0 DEF Sound
  <2> QED  BY <1>n, <2>1
<1>a. pos <= n /\ m <= pos
  BY <1>1
<1>2. PICK g : DeleteRounds(g, m, e) /\ g[m] = d
  BY DeleteRuns
<1> DEFINE T == {i \in 0 .. m : Without(g[i], e, i, n)}
<1>3. 0 \in T
  <2>1. g[0] = e
    BY <1>2 DEF DeleteRounds
  <2>2. \A j \in 1 .. n : j + 0 = j
    OBVIOUS
  <2>3. e.pos - 0 = e.pos /\ n - 0 = n
    BY <1>1
  <2>4. Without(e, e, 0, n)
    BY <1>n, <2>2, <2>3 DEF Without
  <2> QED  BY <2>1, <2>4
<1>4. ASSUME NEW i \in 0 .. m - 1, i \in T
      PROVE  i + 1 \in T
  <2>1. PICK b \in Short : b = g[i] /\ g[i + 1] = handle_input_buffer_deletion(b)
    <3>1. i + 1 \in 1 .. m /\ i \in 0 .. m /\ (i + 1) - 1 = i
      OBVIOUS
    <3> QED  BY <1>2, <3>1 DEF DeleteRounds
  <2>2. PICK f : f = g[i + 1] /\ f = handle_input_buffer_deletion(b)
    BY <2>1
  <2>3. /\ b.home = e.home /\ b.exact = e.exact /\ b.pos = pos - i /\ Len(b.buf) = n - i
        /\ \A j \in 1 .. n - i : b.buf[j] = IF j <= pos - i THEN e.buf[j] ELSE e.buf[j + i]
    BY <1>1, <1>4, <2>1 DEF Without
  <2>4. Sound(b) /\ Len(b.buf) <= TERMINAL_BUFFER_SIZE /\ b \in Editors
    BY DEF Short, SoundEditors
  <2>5. pos - i # 0 /\ pos - i \in 1 .. n - i
    BY <1>1
  <2>6. f.buf = RemoveAt(b.buf, b.pos) /\ f.pos = (pos - i) - 1 /\ f.home = e.home /\ f.exact = e.exact
    <3>1. b.exact /\ 0 <= b.home /\ b.pos # 0
      BY <2>3, <2>5
    <3>2. f.buf = RemoveAt(b.buf, b.pos) /\ f.pos = b.pos - 1 /\ f.home = b.home /\ f.exact = b.exact
      BY <2>2, <2>4, <3>1, DeletionKeeps
    <3> QED  BY <2>3, <3>2
  <2>7. PICK l \in Seq(Chars), p \in Nat : l = b.buf /\ p = pos - i /\ p \in 1 .. Len(l) /\ Len(l) = n - i
    BY <2>3, <2>4, <2>5, EditorIs
  <2>8. PICK r : r = f.buf /\ Removed(r, l, p)
    BY <2>3, <2>6, <2>7, RemoveIs
  <2>9. /\ Len(r) = (n - i) - 1
        /\ \A j \in 1 .. (n - i) - 1 : r[j] = IF j < p THEN l[j] ELSE l[j + 1]
    BY <2>7, <2>8 DEF Removed
  <2>10. ASSUME NEW j \in 1 .. n - (i + 1)
         PROVE  r[j] = IF j <= pos - (i + 1) THEN e.buf[j] ELSE e.buf[j + (i + 1)]
    <3>1. j \in 1 .. (n - i) - 1
      BY <1>1
    <3>2. CASE j <= pos - (i + 1)
      <4>1. j < p /\ j \in 1 .. n - i /\ j <= pos - i
        BY <1>a, <2>7, <3>2
      <4> QED  BY <2>3, <2>7, <2>9, <3>1, <3>2, <4>1
    <3>3. CASE ~(j <= pos - (i + 1))
      <4>1. ~(j < p) /\ j + 1 \in 1 .. n - i /\ ~(j + 1 <= pos - i) /\ (j + 1) + i = j + (i + 1)
        BY <1>a, <2>7, <3>3
      <4> QED  BY <2>3, <2>7, <2>9, <3>1, <3>3, <4>1
    <3> QED  BY <3>2, <3>3
  <2>11. (n - i) - 1 = n - (i + 1) /\ (pos - i) - 1 = pos - (i + 1)
    BY <1>a
  <2>12. Without(f, e, i + 1, n)
    BY <1>1, <2>6, <2>8, <2>9, <2>10, <2>11 DEF Without
  <2>13. i + 1 \in 0 .. m
    OBVIOUS
  <2> QED  BY <2>2, <2>12, <2>13
<1> HIDE DEF T
<1>5. \A i \in 0 .. m : i \in T
  BY <1>3, <1>4, UpTo
<1>6. Without(g[m], e, m, n)
  <2>1. m \in T
    BY <1>5
  <2> QED  BY <2>1 DEF T
<1>7. d \in Short
  BY <1>2 DEF DeleteRounds
<1> QED  BY <1>2, <1>6, <1>7, <1>n

\* and f with the first k of the characters of s more.
With(f, e, s, k, n) ==
  /\ f.pos = e.pos + k /\ Len(f.buf) = n + k
  /\ \A j \in 1 .. n + k : f.buf[j] = IF j <= e.pos THEN e.buf[j]
                                      ELSE IF j <= e.pos + k THEN s[j - e.pos] ELSE e.buf[j - k]

LEMMA InsertionsAre ==
  ASSUME NEW e \in SoundEditors, NEW m \in Nat, NEW s \in [1 .. m -> Chars],
         NEW f, f = Insertions(e, s)
  PROVE  \E n \in Nat : n = Len(e.buf) /\ f \in SoundEditors /\ With(f, e, s, m, n)
<1>0. Sound(e) /\ e \in Editors
  BY DEF SoundEditors
<1>n. PICK n \in Nat : n = Len(e.buf)
  BY <1>0, EditorIs
<1>1. PICK pos \in Nat : pos = e.pos /\ pos <= n
  <2>1. e.pos \in 0 .. Len(e.buf)
    BY <1>0 DEF Sound
  <2> QED  BY <1>n, <2>1
<1>a. pos <= n
  BY <1>1
<1>2. PICK g : InsertRounds(g, m, e, s) /\ g[m] = f
  BY InsertRuns
<1> DEFINE T == {i \in 0 .. m : With(g[i], e, s, i, n)}
<1>3. 0 \in T
  <2>1. g[0] = e
    BY <1>2 DEF InsertRounds
  <2>2. \A j \in 1 .. n : j - 0 = j
    OBVIOUS
  <2>3. pos + 0 = pos /\ n + 0 = n
    BY <1>a
  <2>4. With(e, e, s, 0, n)
    BY <1>n, <1>1, <2>2, <2>3 DEF With
  <2> QED  BY <2>1, <2>4
<1>4. ASSUME NEW i \in 0 .. m - 1, i \in T
      PROVE  i + 1 \in T
  <2>0. (n + i) + 1 = n + (i + 1) /\ (pos + i) + 1 = pos + (i + 1) /\ i \in Nat
    OBVIOUS
  <2>1. PICK b \in SoundEditors : b = g[i] /\ g[i + 1] = insert_char_at_cursor(b, s[i + 1])
    <3>1. i + 1 \in 1 .. m /\ i \in 0 .. m /\ (i + 1) - 1 = i
      OBVIOUS
    <3> QED  BY <1>2, <3>1 DEF InsertRounds
  <2>2. PICK c \in Chars : c = s[i + 1]
    OBVIOUS
  <2>3. PICK h : h = g[i + 1] /\ h = insert_char_at_cursor(b, c)
    BY <2>1, <2>2
  <2>4. /\ b.pos = pos + i /\ Len(b.buf) = n + i
        /\ \A j \in 1 .. n + i : b.buf[j] = IF j <= pos THEN e.buf[j]
                                            ELSE IF j <= pos + i THEN s[j - pos] ELSE e.buf[j - i]
    BY <1>1, <1>4, <2>1 DEF With
  <2>5. Sound(b) /\ b \in Editors
    BY DEF SoundEditors
  <2>6. h.buf = InsertAt(b.buf, b.pos + 1, c) /\ h.pos = b.pos + 1
    BY <2>3, <2>5, InsertKeeps
  <2>7. PICK l \in Seq(Chars), p \in Nat : l = b.buf /\ p = (pos + i) + 1 /\ Len(l) = n + i
    <3>1. b.buf \in Seq(Chars)
      BY <2>5, EditorIs
    <3>2. (pos + i) + 1 \in Nat
      BY <2>0
    <3> QED  BY <2>4, <3>1, <3>2
  <2>8. p \in 1 .. Len(l) + 1
    BY <1>a, <2>7
  <2>9. PICK r : r = h.buf /\ Inserted(r, l, p, c)
    BY <2>4, <2>6, <2>7, <2>8, InsertIs
  <2>10. /\ Len(r) = (n + i) + 1
         /\ \A j \in 1 .. (n + i) + 1 : r[j] = IF j < p THEN l[j] ELSE IF j = p THEN c ELSE l[j - 1]
    BY <2>7, <2>9 DEF Inserted
  <2>11. ASSUME NEW j \in 1 .. n + (i + 1)
         PROVE  r[j] = IF j <= pos THEN e.buf[j]
                       ELSE IF j <= pos + (i + 1) THEN s[j - pos] ELSE e.buf[j - (i + 1)]
    <3>1. j \in 1 .. (n + i) + 1
      BY <2>0
    <3>2. CASE j <= pos
      <4>1. j < p /\ j \in 1 .. n + i
        BY <1>a, <2>7, <3>2
      <4> QED  BY <2>4, <2>7, <2>10, <3>1, <3>2, <4>1
    <3>3. CASE ~(j <= pos) /\ j <= pos + i
      <4>1. j < p /\ j \in 1 .. n + i /\ j <= pos + (i + 1)
        BY <1>a, <2>7, <3>3
      <4> QED  BY <2>4, <2>7, <2>10, <3>1, <3>3, <4>1
    <3>4. CASE j = pos + (i + 1)
      <4>1. j = p /\ ~(j < p) /\ ~(j <= pos) /\ j <= pos + (i + 1) /\ j - pos = i + 1
        BY <1>a, <2>7, <3>4
      <4>2. r[j] = c
        BY <2>10, <3>1, <4>1
      <4> QED  BY <2>2, <4>1, <4>2
    <3>5. CASE j > pos + (i + 1)
      <4>1. /\ ~(j < p) /\ j # p /\ j - 1 \in 1 .. n + i /\ ~(j - 1 <= pos) /\ ~(j - 1 <= pos + i)
            /\ (j - 1) - i = j - (i + 1) /\ ~(j <= pos) /\ ~(j <= pos + (i + 1))
        <5>1. p = (pos + i) + 1
          BY <2>7
        <5> QED  BY <1>a, <2>0, <3>5, <5>1
      <4>2. r[j] = l[j - 1]
        BY <2>10, <3>1, <4>1
      <4>3. l[j - 1] = e.buf[(j - 1) - i]
        BY <2>4, <2>7, <4>1
      <4> QED  BY <4>1, <4>2, <4>3
    <3>6. j <= pos \/ (~(j <= pos) /\ j <= pos + i) \/ j = pos + (i + 1) \/ j > pos + (i + 1)
      OBVIOUS
    <3> QED  BY <3>2, <3>3, <3>4, <3>5, <3>6, Zenon
  <2>13. With(h, e, s, i + 1, n)
    BY <1>1, <2>4, <2>6, <2>9, <2>10, <2>11, <2>0 DEF With
  <2>14. i + 1 \in 0 .. m
    OBVIOUS
  <2> QED  BY <2>3, <2>13, <2>14
<1> HIDE DEF T
<1>5. \A i \in 0 .. m : i \in T
  BY <1>3, <1>4, UpTo
<1>6. With(g[m], e, s, m, n)
  <2>1. m \in T
    BY <1>5
  <2> QED  BY <2>1 DEF T
<1>7. f \in SoundEditors
  BY <1>2 DEF InsertRounds
<1> QED  BY <1>2, <1>6, <1>7, <1>n

\* The three parts of a line.
Parts(s, l, t, r, a, b, c) ==
  /\ Len(l) = a /\ Len(t) = b /\ Len(r) = c /\ Len(s) = (a + b) + c
  /\ \A j \in 1 .. (a + b) + c : s[j] = IF j <= a THEN l[j]
                                        ELSE IF j <= a + b THEN t[j - a] ELSE r[j - (a + b)]

LEMMA PartsAre ==
  ASSUME NEW S, NEW l \in Seq(S), NEW t \in Seq(S), NEW r \in Seq(S), NEW s, s = l \o t \o r
  PROVE  \E a \in Nat, b \in Nat, c \in Nat : s \in Seq(S) /\ Parts(s, l, t, r, a, b, c)
<1>1. PICK a \in Nat, b \in Nat, c \in Nat : a = Len(l) /\ b = Len(t) /\ c = Len(r)
  BY LenProperties
<1>2. PICK u \in Seq(S) : u = l \o t /\ Len(u) = a + b
                          /\ \A j \in 1 .. a + b : u[j] = IF j <= a THEN l[j] ELSE t[j - a]
  <2>1. /\ l \o t \in Seq(S) /\ Len(l \o t) = Len(l) + Len(t)
        /\ \A j \in 1 .. Len(l) + Len(t) : (l \o t)[j] = IF j <= Len(l) THEN l[j] ELSE t[j - Len(l)]
    BY ConcatProperties
  <2> QED  BY <1>1, <2>1
<1>3. /\ s \in Seq(S) /\ Len(s) = (a + b) + c
      /\ \A j \in 1 .. (a + b) + c : s[j] = IF j <= a + b THEN u[j] ELSE r[j - (a + b)]
  <2>1. /\ u \o r \in Seq(S) /\ Len(u \o r) = Len(u) + Len(r)
        /\ \A j \in 1 .. Len(u) + Len(r) : (u \o r)[j] = IF j <= Len(u) THEN u[j] ELSE r[j - Len(u)]
    BY ConcatProperties
  <2>2. s = u \o r
    BY <1>2
  <2> QED  BY <1>1, <1>2, <2>1, <2>2
<1>4. ASSUME NEW j \in 1 .. (a + b) + c
      PROVE  s[j] = IF j <= a THEN l[j] ELSE IF j <= a + b THEN t[j - a] ELSE r[j - (a + b)]
  <2>1. CASE j <= a + b
    <3>1. j \in 1 .. a + b
      BY <2>1
    <3> QED  BY <1>2, <1>3, <2>1, <3>1
  <2>2. CASE ~(j <= a + b)
    <3>1. ~(j <= a)
      BY <2>2
    <3> QED  BY <1>3, <2>2, <3>1
  <2> QED  BY <2>1, <2>2
<1>5. Parts(s, l, t, r, a, b, c)
  BY <1>1, <1>3, <1>4 DEF Parts
<1> QED  BY <1>3, <1>5

\* And a line is determined by them.
Joined(s, l, t, r) ==
  /\ s \in Seq(Chars) /\ l \in Seq(Chars) /\ t \in Seq(Chars) /\ r \in Seq(Chars)
  /\ \E a \in Nat, b \in Nat, c \in Nat : Parts(s, l, t, r, a, b, c)

LEMMA PartsMake ==
  ASSUME NEW s, NEW l, NEW t, NEW r, Joined(s, l, t, r)
  PROVE  s = l \o t \o r
<1>0. s \in Seq(Chars) /\ l \in Seq(Chars) /\ t \in Seq(Chars) /\ r \in Seq(Chars)
  BY DEF Joined
<1>a. PICK a \in Nat, b \in Nat, c \in Nat : Parts(s, l, t, r, a, b, c)
  BY DEF Joined
<1>1. PICK u : u = l \o t \o r
  OBVIOUS
<1>2. PICK a1 \in Nat, b1 \in Nat, c1 \in Nat : u \in Seq(Chars) /\ Parts(u, l, t, r, a1, b1, c1)
  BY <1>0, <1>1, PartsAre
<1>3. a1 = a /\ b1 = b /\ c1 = c
  BY <1>a, <1>2 DEF Parts
<1>4. Len(s) = (a + b) + c /\ Len(u) = (a + b) + c /\ \A j \in 1 .. (a + b) + c : s[j] = u[j]
  BY <1>a, <1>2, <1>3 DEF Parts
<1>5. s = u
  BY <1>0, <1>2, <1>4, SeqEqual
<1> QED  BY <1>1, <1>5

\* The characters behind position a of s up to position z are a word of it.
Word(s, a, z) ==
  /\ z <= Len(s)
  /\ \A j \in a + 1 .. z : s[j] # Space
  /\ a = 0 \/ s[a] = Space
  /\ z < Len(s) => s[z + 1] = Space

\* The token is the word that the cursor is in or right behind, except that behind a
\* single leading space it is empty.
LEMMA TokenIs ==
  ASSUME NEW e, Sound(e), NEW a \in Nat, NEW z \in Nat, a < z, a <= e.pos, e.pos <= z,
         Word(e.buf, a, z)
  PROVE  getCurrTokenFromBuffer(e) = IF a = 1 THEN SubSeq(e.buf, 1, 0) ELSE SubSeq(e.buf, a + 1, z)
<1>1. PICK s \in Seq(Chars) : s = e.buf
  BY EditorIs DEF Sound
<1>2. PICK n \in Nat, pos \in Int : n = Len(s) /\ pos = e.pos /\ 0 <= pos /\ pos <= n
  BY <1>1, SoundIs
<1>b. a < z /\ a <= pos /\ pos <= z
  BY <1>2
<1>w. /\ z <= n /\ \A j \in a + 1 .. z : s[j] # Space
      /\ a = 0 \/ s[a] = Space
      /\ z < n => s[z + 1] = Space
  BY <1>1, <1>2 DEF Word
<1>3. PICK spaces : spaces = {i \in 1 .. pos - 1 : s[i + 1] = Space}
  OBVIOUS
<1>4. PICK from : from = IF spaces = {} THEN 1 ELSE Max(spaces) + 2
  OBVIOUS
<1>5. \A i \in spaces : i \in Int /\ i <= a - 1
  <2>1. SUFFICES ASSUME NEW i \in 1 .. pos - 1, s[i + 1] = Space, a - 1 < i PROVE FALSE
    BY <1>3
  <2>2. i + 1 \in a + 1 .. z
    BY <1>b, <2>1
  <2> QED  BY <1>w, <2>1, <2>2
<1>6. from = IF a <= 1 THEN 1 ELSE a + 1
  <2>1. CASE a <= 1
    <3>1. spaces = {}
      <4>1. SUFFICES ASSUME NEW i \in spaces PROVE FALSE
        OBVIOUS
      <4>2. i \in 1 .. pos - 1 /\ i <= a - 1
        BY <1>3, <1>5
      <4> QED  BY <2>1, <4>2
    <3> QED  BY <1>4, <2>1, <3>1
  <2>2. CASE 1 < a
    <3>1. a - 1 \in 1 .. pos - 1 /\ (a - 1) + 1 = a
      BY <1>b, <2>2
    <3>2. a - 1 \in spaces
      BY <1>3, <1>w, <2>2, <3>1
    <3>3. a - 1 \in Int
      OBVIOUS
    <3>4. Max(spaces) = a - 1
      BY <1>5, <3>2, <3>3, MaxIs
    <3>5. from = (a - 1) + 2
      BY <1>4, <3>2, <3>4
    <3> QED  BY <2>2, <3>5
  <2> QED  BY <2>1, <2>2
<1>7. PICK ends : ends = {i \in from .. n : s[i] = Space}
  OBVIOUS
<1>8. PICK to : to = IF ends = {} THEN n ELSE Min(ends) - 1
  OBVIOUS
<1>9. CASE a = 1
  <2>1. from = 1 /\ 1 \in from .. n /\ s[1] = Space
    BY <1>6, <1>9, <1>w, <1>b
  <2>2. 1 \in ends /\ ends \in SUBSET (1 .. n)
    BY <1>7, <2>1
  <2>3. Min(ends) \in ends /\ \A i \in ends : Min(ends) <= i
    BY <2>2, SomeMin
  <2>4. Min(ends) \in 1 .. n /\ Min(ends) <= 1
    BY <2>2, <2>3
  <2>5. Min(ends) = 1
    BY <2>4
  <2>6. to = 0
    BY <1>8, <2>2, <2>5
  <2> QED  BY <1>9, <1>1, <1>2, <1>3, <1>4, <1>7, <1>8, <2>1, <2>6 DEF getCurrTokenFromBuffer
<1>10. CASE a # 1
  <2>1. from = a + 1
    BY <1>6, <1>10
  <2>2. \A i \in ends : i \in Int /\ z + 1 <= i /\ i <= n
    <3>1. SUFFICES ASSUME NEW i \in from .. n, s[i] = Space, i < z + 1 PROVE FALSE
      BY <1>7, <2>1
    <3>2. i \in a + 1 .. z
      BY <2>1, <3>1
    <3> QED  BY <1>w, <3>1, <3>2
  <2>3. to = z
    <3>1. CASE z = n
      <4>1. ends = {}
        <5>1. SUFFICES ASSUME NEW i \in ends PROVE FALSE
          OBVIOUS
        <5>2. i \in Int /\ z + 1 <= i /\ i <= n
          BY <2>2
        <5> QED  BY <3>1, <5>2
      <4> QED  BY <1>8, <3>1, <4>1
    <3>2. CASE z # n
      <4>1. z + 1 \in from .. n /\ z < n
        BY <1>b, <1>w, <2>1, <3>2
      <4>2. z + 1 \in ends
        BY <1>7, <1>w, <4>1
      <4>3. ends \in SUBSET (1 .. n)
        BY <1>7, <2>1
      <4>4. Min(ends) \in ends /\ Min(ends) <= z + 1
        BY <4>2, <4>3, SomeMin
      <4>5. Min(ends) \in Int /\ z + 1 <= Min(ends)
        BY <2>2, <4>4
      <4>6. Min(ends) = z + 1
        BY <4>4, <4>5
      <4> QED  BY <1>8, <4>2, <4>6
    <3> QED  BY <3>1, <3>2
  <2> QED  BY <1>10, <1>1, <1>2, <1>3, <1>4, <1>7, <1>8, <2>1, <2>3 DEF getCurrTokenFromBuffer
<1> QED  BY <1>9, <1>10

\* t, between l and r, is the word of the line of e that the cursor is at.
AtWord(e, l, t, r, a, b, c) ==
  /\ Parts(e.buf, l, t, r, a, b, c)
  /\ a <= e.pos /\ e.pos <= a + b /\ Word(e.buf, a, a + b)

\* It can be replaced.
Replaceable(e, l, t, r) ==
  /\ e.exact /\ 0 <= e.home
  /\ l \in Seq(Chars) /\ t \in Seq(Chars) /\ r \in Seq(Chars)
  /\ \E a \in Nat, b \in Nat, c \in Nat : AtWord(e, l, t, r, a, b, c)

Replaced(f, l, w, r) == f.buf = l \o w \o r /\ f.pos = Len(l \o w)

\* Completion puts the new word in the place of the old one.
LEMMA ReplacementIs ==
  ASSUME NEW e \in Short, NEW l, NEW t, NEW r, Replaceable(e, l, t, r), NEW w \in Seq(Chars)
  PROVE  Replaced(replaceCurrentToken(e, t, w), l, w, r)
<1>f. PICK f : f = replaceCurrentToken(e, t, w)
  OBVIOUS
<1>a. e.exact /\ 0 <= e.home /\ l \in Seq(Chars) /\ t \in Seq(Chars) /\ r \in Seq(Chars)
  BY DEF Replaceable
<1>b. PICK a \in Nat, b \in Nat, c \in Nat : AtWord(e, l, t, r, a, b, c)
  BY DEF Replaceable
<1>p. /\ Parts(e.buf, l, t, r, a, b, c)
      /\ a <= e.pos /\ e.pos <= a + b /\ Word(e.buf, a, a + b)
  BY <1>b DEF AtWord
<1> USE <1>a
<1>1. Sound(e) /\ e \in Editors /\ e.buf \in Seq(Chars)
  BY EditorIs DEF Short, SoundEditors
<1>2. PICK n \in Nat, pos \in Nat : n = Len(e.buf) /\ pos = e.pos
  <2>1. Len(e.buf) \in Nat /\ e.pos \in 0 .. Len(e.buf)
    BY <1>1 DEF Sound
  <2> QED  BY <2>1
<1>3. n = (a + b) + c /\ a <= pos /\ pos <= a + b
  BY <1>2, <1>p DEF Parts
<1>4. /\ \A j \in pos + 1 .. a + b : e.buf[j] # Space
      /\ a + b < n => e.buf[(a + b) + 1] = Space
  <2>1. \A j \in pos + 1 .. a + b : j \in a + 1 .. a + b
    BY <1>3
  <2> QED  BY <1>2, <1>p, <2>1 DEF Word
<1>5. PICK d1 : d1 = StepsRight(e, e.buf)
  OBVIOUS
<1>6. /\ d1 \in Short /\ d1.buf = e.buf /\ d1.pos = a + b /\ d1.home = e.home
      /\ d1.exact = e.exact
  <2>1. PICK end \in Nat : end = a + b
    OBVIOUS
  <2>2. EndsAt(e, n, end)
    BY <1>2, <1>3, <1>4, <2>1 DEF EndsAt
  <2>3. AtEnd(d1, e, end)
    BY <1>5, <2>2, StepsRightAre
  <2> QED  BY <2>1, <2>3 DEF AtEnd
<1>7. PICK d2 : d2 = Deletions(d1, t)
  OBVIOUS
<1>8. DOMAIN t = 1 .. b
  BY <1>p, LenProperties DEF Parts
<1>9. d2 \in Short /\ Without(d2, d1, b, n)
  <2>1. d1.exact /\ 0 <= d1.home /\ b <= d1.pos
    BY <1>6
  <2>2. \E k \in Nat : k = Len(d1.buf) /\ d2 \in Short /\ Without(d2, d1, b, k)
    BY <1>6, <1>7, <1>8, <2>1, DeletionsAre
  <2> QED  BY <1>2, <1>6, <2>2
<1>10. /\ d2.pos = a /\ Len(d2.buf) = a + c
       /\ \A j \in 1 .. a + c : d2.buf[j] = IF j <= a THEN e.buf[j] ELSE e.buf[j + b]
  <2>1. (a + b) - b = a /\ n - b = a + c
    BY <1>3
  <2> QED  BY <1>6, <1>9, <2>1 DEF Without
<1>11. PICK m \in Nat : m = Len(w) /\ w \in [1 .. m -> Chars]
  BY LenProperties
<1>12. f = Insertions(d2, w)
  BY <1>f, <1>5, <1>7 DEF replaceCurrentToken, StepRight, StepsRight, Deletions, Insertions
<1>13. f \in SoundEditors /\ With(f, d2, w, m, a + c)
  <2>1. d2 \in SoundEditors
    BY <1>9 DEF Short
  <2>2. \E k \in Nat : k = Len(d2.buf) /\ f \in SoundEditors /\ With(f, d2, w, m, k)
    BY <1>11, <1>12, <2>1, InsertionsAre
  <2> QED  BY <1>10, <2>2
<1>14. /\ f.pos = a + m /\ Len(f.buf) = (a + c) + m
       /\ \A j \in 1 .. (a + c) + m :
            f.buf[j] = IF j <= a THEN d2.buf[j]
                       ELSE IF j <= a + m THEN w[j - a] ELSE d2.buf[j - m]
  BY <1>10, <1>13 DEF With
<1>15. (a + c) + m = (a + m) + c
  OBVIOUS
<1>16. ASSUME NEW j \in 1 .. (a + m) + c
       PROVE  f.buf[j] = IF j <= a THEN l[j]
                         ELSE IF j <= a + m THEN w[j - a] ELSE r[j - (a + m)]
  <2>0. f.buf[j] = IF j <= a THEN d2.buf[j]
                   ELSE IF j <= a + m THEN w[j - a] ELSE d2.buf[j - m]
    BY <1>14, <1>15
  <2>1. CASE j <= a
    <3>1. j \in 1 .. a + c /\ j \in 1 .. (a + b) + c
      BY <2>1
    <3>2. d2.buf[j] = e.buf[j]
      BY <1>10, <2>1, <3>1
    <3>3. e.buf[j] = l[j]
      BY <1>p, <2>1, <3>1 DEF Parts
    <3> QED  BY <2>0, <2>1, <3>2, <3>3
  <2>2. CASE ~(j <= a) /\ j <= a + m
    BY <2>0, <2>2
  <2>3. CASE ~(j <= a) /\ ~(j <= a + m)
    <3>1. PICK i \in Int : i = j - m /\ i \in 1 .. a + c /\ ~(i <= a)
      BY <2>3
    <3>2. d2.buf[i] = e.buf[i + b]
      BY <1>10, <3>1
    <3>3. i + b \in 1 .. (a + b) + c /\ ~(i + b <= a) /\ ~(i + b <= a + b)
      BY <3>1
    <3>4. e.buf[i + b] = r[(i + b) - (a + b)]
      BY <1>p, <3>3 DEF Parts
    <3>5. (i + b) - (a + b) = j - (a + m)
      BY <3>1
    <3> QED  BY <2>0, <2>3, <3>1, <3>2, <3>4, <3>5
  <2> QED  BY <2>1, <2>2, <2>3
<1>17. Len(l) = a /\ Len(r) = c
  BY <1>p DEF Parts
<1>18. Parts(f.buf, l, w, r, a, m, c)
  BY <1>11, <1>14, <1>15, <1>16, <1>17 DEF Parts
<1>19. f.buf \in Seq(Chars)
  <2>1. f \in Editors
    BY <1>13 DEF SoundEditors
  <2> QED  BY <2>1, EditorIs
<1>20. f.buf = l \o w \o r
  <2>1. Joined(f.buf, l, w, r)
    BY <1>18, <1>19 DEF Joined
  <2> QED  BY <2>1, PartsMake
<1>21. Len(l \o w) = a + m
  <2>1. Len(l \o w) = Len(l) + Len(w)
    BY ConcatProperties
  <2> QED  BY <1>11, <1>17, <2>1
<1> QED  BY <1>f, <1>14, <1>20, <1>21 DEF Replaced

\* The word as the property has it, by positions.
LEMMA WordAtIs ==
  ASSUME NEW e, Sound(e), NEW l \in Seq(Chars), NEW t \in Seq(Chars), NEW r \in Seq(Chars),
         IsWordAt(l, t, r, e), t # <<>>
  PROVE  \E a \in Nat, b \in Nat, c \in Nat :
           /\ Parts(e.buf, l, t, r, a, b, c) /\ 0 < b
           /\ a <= e.pos /\ e.pos <= a + b /\ Word(e.buf, a, a + b)
           /\ a = 1 => l = <<Space>>
<1>1. PICK s : s = e.buf /\ s = l \o t \o r
  BY DEF IsWordAt
<1>2. PICK a \in Nat, b \in Nat, c \in Nat : s \in Seq(Chars) /\ Parts(s, l, t, r, a, b, c)
  BY <1>1, PartsAre
<1>3. Len(l) = a /\ Len(t) = b /\ Len(r) = c /\ Len(s) = (a + b) + c
  BY <1>2 DEF Parts
<1>4. a <= e.pos /\ e.pos <= a + b
  BY <1>3 DEF IsWordAt
<1>5. 0 < b
  <2>1. b # 0
    BY <1>3, EmptySeq
  <2> QED  BY <2>1
<1>6. ASSUME NEW j \in a + 1 .. a + b PROVE s[j] # Space
  <2>1. j \in 1 .. (a + b) + c /\ ~(j <= a) /\ j <= a + b /\ j - a \in 1 .. b
    OBVIOUS
  <2>2. s[j] = t[j - a]
    BY <1>2, <2>1 DEF Parts
  <2>3. DOMAIN t = 1 .. b
    BY <1>3, LenProperties
  <2>4. t[j - a] \in Range(t)
    BY <2>1, <2>3 DEF Range
  <2> QED  BY <2>2, <2>4 DEF IsWordAt
<1>7. a = 0 \/ l[a] = Space
  <2>1. CASE l = <<>>
    BY <1>3, <2>1, EmptySeq
  <2>2. CASE l # <<>>
    BY <1>3, <2>2 DEF IsWordAt, Last
  <2> QED  BY <2>1, <2>2
<1>8. a = 0 \/ s[a] = Space
  <2>1. SUFFICES ASSUME a # 0 PROVE s[a] = Space
    OBVIOUS
  <2>2. a \in 1 .. (a + b) + c /\ a <= a
    BY <2>1
  <2>3. s[a] = l[a]
    BY <1>2, <2>2 DEF Parts
  <2> QED  BY <1>7, <2>1, <2>3
<1>9. ASSUME a + b < Len(s) PROVE s[(a + b) + 1] = Space
  <2>1. 0 < c
    BY <1>3, <1>9
  <2>2. r # <<>>
    BY <1>3, <2>1, EmptySeq
  <2>3. r[1] = Space
    <3>1. Head(r) = Space
      BY <2>2 DEF IsWordAt
    <3> QED  BY <3>1
  <2>4. /\ (a + b) + 1 \in 1 .. (a + b) + c /\ ~((a + b) + 1 <= a) /\ ~((a + b) + 1 <= a + b)
        /\ ((a + b) + 1) - (a + b) = 1
    BY <2>1
  <2>5. s[(a + b) + 1] = r[((a + b) + 1) - (a + b)]
    BY <1>2, <2>4 DEF Parts
  <2> QED  BY <2>3, <2>4, <2>5
<1>10. a + b <= Len(s)
  BY <1>3
<1>11. Word(s, a, a + b)
  BY <1>6, <1>8, <1>9, <1>10 DEF Word
<1>12. ASSUME a = 1 PROVE l = <<Space>>
  <2>1. l[1] = Space /\ Len(l) = 1
    BY <1>3, <1>7, <1>12
  <2>2. Space \in Chars
    <3>1. 1 \in 1 .. Len(l)
      BY <2>1
    <3> QED  BY <2>1, <3>1, ElementOfSeq
  <2>3. <<Space>> \in Seq(Chars) /\ Len(<<Space>>) = 1 /\ <<Space>>[1] = Space
    BY <2>2
  <2>4. \A i \in 1 .. 1 : i = 1
    OBVIOUS
  <2> QED  BY <2>1, <2>3, <2>4, SeqEqual
<1> QED  BY <1>1, <1>2, <1>4, <1>5, <1>11, <1>12

\* The parts of a line are made of characters.
LEMMA SplitsAre ==
  ASSUME NEW s \in Seq(Chars), NEW f \in Splits(s)
  PROVE  f[1] \in Seq(Chars) /\ f[2] \in Seq(Chars) /\ f[3] \in Seq(Chars)
<1>1. PICK i \in 0 .. Len(s), j \in 0 .. Len(s) :
        f = <<SubSeq(s, 1, i), SubSeq(s, i + 1, j), SubSeq(s, j + 1, Len(s))>>
  BY DEF Splits
<1>2. \A a \in Int, b \in Int : 1 <= a /\ b <= Len(s) => SubSeq(s, a, b) \in Seq(Chars)
  <2>1. SUFFICES ASSUME NEW a \in Int, NEW b \in Int, 1 <= a, b <= Len(s)
                 PROVE  SubSeq(s, a, b) \in Seq(Chars)
    OBVIOUS
  <2>2. \A k \in a .. b : k \in 1 .. Len(s)
    BY <2>1, LenProperties
  <2>3. \A k \in a .. b : s[k] \in Chars
    BY <2>2, ElementOfSeq
  <2> QED  BY <2>3, SubSeqProperties
<1>3. Len(s) \in Int /\ 1 <= i + 1 /\ 1 <= j + 1 /\ i <= Len(s) /\ j <= Len(s)
  BY LenProperties
<1>4. /\ SubSeq(s, 1, i) \in Seq(Chars) /\ SubSeq(s, i + 1, j) \in Seq(Chars)
      /\ SubSeq(s, j + 1, Len(s)) \in Seq(Chars)
  BY <1>2, <1>3
<1> QED  BY <1>1, <1>4

\* Completion with one candidate.
LEMMA CompletionIs ==
  ASSUME NEW e \in Short, e.exact, 0 <= e.home,
         NEW l \in Seq(Chars), NEW t \in Seq(Chars), NEW r \in Seq(Chars), NEW w \in Commands,
         t # <<>>, IsWordAt(l, t, r, e), {v \in Commands : IsPrefix(t, v)} = {w}
  PROVE  \/ autoComplete(e).buf = l \o w \o r /\ autoComplete(e).pos = Len(l \o w)
         \/ l = <<Space>> /\ autoComplete(e) = e
<1>1. Sound(e) /\ e \in Editors
  BY DEF Short, SoundEditors
<1>2. PICK a \in Nat, b \in Nat, c \in Nat :
        /\ Parts(e.buf, l, t, r, a, b, c) /\ 0 < b
        /\ a <= e.pos /\ e.pos <= a + b /\ Word(e.buf, a, a + b)
        /\ a = 1 => l = <<Space>>
  BY <1>1, WordAtIs
<1>3. PICK token : token = getCurrTokenFromBuffer(e)
  OBVIOUS
<1>4. PICK s \in Seq(Chars) : s = e.buf /\ Len(s) = (a + b) + c
  BY <1>1, <1>2, EditorIs DEF Parts
<1>5. token = IF a = 1 THEN SubSeq(s, 1, 0) ELSE SubSeq(s, a + 1, a + b)
  <2>1. PICK z \in Nat : z = a + b
    OBVIOUS
  <2>2. a < z /\ e.pos <= z /\ a <= e.pos /\ Word(e.buf, a, z)
    BY <1>2, <2>1
  <2>3. getCurrTokenFromBuffer(e) = IF a = 1 THEN SubSeq(e.buf, 1, 0) ELSE SubSeq(e.buf, a + 1, z)
    BY <1>1, <2>2, TokenIs
  <2> QED  BY <1>3, <1>4, <2>1, <2>3
<1>6. CASE a = 1
  <2>1. PICK u : u = SubSeq(s, 1, 0)
    OBVIOUS
  <2>2. 1 \in 1 .. Len(s) + 1 /\ 0 \in Int /\ 1 - 1 <= 0 /\ 0 <= Len(s)
    BY <1>4
  <2>3. u \in Seq(Chars) /\ Len(u) = (0 - 1) + 1
    BY <2>1, <2>2, PartIs
  <2>4. token = <<>>
    BY <1>5, <1>6, <2>1, <2>3, EmptySeq
  <2>5. autoComplete(e) = e
    <3>1. ~(e.buf # <<>> /\ token # <<>> /\ Cardinality({v \in Commands : IsPrefix(token, v)}) = 1)
      BY <2>4
    <3>2. ~(e.buf # <<>> /\ token # <<>> /\ Cardinality({v \in Commands : IsPrefix(token, v)}) > 1)
      BY <2>4
    <3> QED  BY <1>3, <2>4, <3>1, <3>2, Zenon DEF autoComplete
  <2> QED  BY <1>2, <1>6, <2>5
<1>7. CASE a # 1
  <2>1. PICK u : u = SubSeq(s, a + 1, a + b)
    OBVIOUS
  <2>2. a + 1 \in 1 .. Len(s) + 1 /\ a + b \in Int /\ (a + 1) - 1 <= a + b /\ a + b <= Len(s)
    BY <1>2, <1>4
  <2>3. /\ u \in Seq(Chars) /\ Len(u) = ((a + b) - (a + 1)) + 1
        /\ \A j \in 1 .. ((a + b) - (a + 1)) + 1 : u[j] = s[((a + 1) + j) - 1]
    BY <2>1, <2>2, PartIs
  <2>4. ((a + b) - (a + 1)) + 1 = b
    OBVIOUS
  <2>5. Len(t) = b
    BY <1>2 DEF Parts
  <2>6. ASSUME NEW j \in 1 .. b PROVE u[j] = t[j]
    <3>1. PICK k \in Int : k = ((a + 1) + j) - 1
      OBVIOUS
    <3>2. k \in 1 .. (a + b) + c /\ ~(k <= a) /\ k <= a + b /\ k - a = j
      BY <3>1
    <3>3. s[k] = t[k - a]
      BY <1>2, <1>4, <3>2 DEF Parts
    <3> QED  BY <2>3, <2>4, <3>1, <3>2, <3>3
  <2>7. token = t
    <3>1. u = t
      BY <2>3, <2>4, <2>5, <2>6, SeqEqual
    <3> QED  BY <1>5, <1>7, <2>1, <3>1
  <2>8. PICK cannidates : cannidates = {v \in Commands : IsPrefix(token, v)}
    OBVIOUS
  <2>9. cannidates = {w}
    BY <2>7, <2>8
  <2>10. Cardinality(cannidates) = 1 /\ cannidates # {}
    BY <2>9, FS_Singleton
  <2>11. (CHOOSE v \in cannidates : TRUE) = w
    BY <2>9
  <2>12. e.buf # <<>>
    <3>1. Len(s) # 0
      BY <1>2, <1>4
    <3> QED  BY <1>4, <3>1, EmptySeq
  <2>13. autoComplete(e) = replaceCurrentToken(e, token, CHOOSE v \in cannidates : TRUE)
    <3>1. ~(e.buf = <<>> \/ token = <<>> \/ cannidates = {})
      BY <2>7, <2>10, <2>12
    <3>2. ~(Cardinality(cannidates) > 1)
      BY <2>10
    <3>3. e.buf # <<>> /\ token # <<>> /\ Cardinality(cannidates) = 1
      BY <2>7, <2>10, <2>12
    <3> QED  BY <1>3, <2>8, <3>1, <3>2, <3>3, Zenon DEF autoComplete
  <2>14. PICK f : f = autoComplete(e) /\ f = replaceCurrentToken(e, t, w)
    BY <2>7, <2>11, <2>13
  <2>15. f.buf = l \o w \o r /\ f.pos = Len(l \o w)
    <3>1. AtWord(e, l, t, r, a, b, c)
      BY <1>2 DEF AtWord
    <3>2. w \in Seq(Chars)
      BY NamesAreChars
    <3>3. Replaceable(e, l, t, r)
      BY <3>1 DEF Replaceable
    <3>4. Replaced(replaceCurrentToken(e, t, w), l, w, r)
      BY <3>2, <3>3, ReplacementIs
    <3> QED  BY <2>14, <3>4 DEF Replaced
  <2> QED  BY <2>14, <2>15
<1> QED  BY <1>6, <1>7

-----------------------------------------------------------------------------
(* The history                                                                *)

Lines == {s \in Seq(Chars) : Len(s) < TERMINAL_BUFFER_SIZE}

\* A line more, and the oldest gone when there is no room for both.
LEMMA HistoryGrows ==
  ASSUME NEW h \in Seq(Lines), Len(h) <= MAX_COMMAND_HISTORY, NEW line \in Lines,
         NEW t, t = Append(IF Len(h) >= MAX_COMMAND_HISTORY THEN Tail(h) ELSE h, line)
  PROVE  /\ t \in Seq(Lines) /\ Len(t) <= MAX_COMMAND_HISTORY
         /\ LastN(Append(h, line), MAX_COMMAND_HISTORY) = t
<1>1. PICK N \in Nat, k \in Nat : N = MAX_COMMAND_HISTORY /\ N > 0 /\ k = Len(h) /\ k <= N
  <2>1. PICK N \in Nat : N = MAX_COMMAND_HISTORY /\ N > 0
    BY TerminalAssumption
  <2>2. PICK k \in Nat : k = Len(h)
    BY LenProperties
  <2>3. k <= N
    BY <2>1, <2>2
  <2> QED  BY <2>1, <2>2, <2>3, Zenon
<1>0. N > 0 /\ k <= N
  BY <1>1
<1>2. PICK s \in Seq(Lines) : /\ s = Append(h, line) /\ Len(s) = k + 1
                              /\ \A i \in 1 .. k + 1 : s[i] = IF i <= k THEN h[i] ELSE line
  <2>1. /\ Append(h, line) \in Seq(Lines) /\ Len(Append(h, line)) = Len(h) + 1
        /\ \A i \in 1 .. Len(h) + 1 : Append(h, line)[i] = IF i <= Len(h) THEN h[i] ELSE line
    BY AppendProperties
  <2> QED  BY <1>1, <2>1
<1>3. LastN(s, N) = SubSeq(s, Max({1, ((k + 1) - N) + 1}), k + 1)
  BY <1>2 DEF LastN
<1>4. CASE k = N
  <2>1. Max({1, ((k + 1) - N) + 1}) = 2
    <3>1. ((k + 1) - N) + 1 = 2
      BY <1>4
    <3>2. 2 \in {1, 2} /\ 2 \in Int /\ \A x \in {1, 2} : x \in Int /\ x <= 2
      OBVIOUS
    <3>3. Max({1, 2}) = 2
      BY <3>2, MaxIs
    <3> QED  BY <3>1, <3>3
  <2>2. h # <<>>
    <3>1. Len(h) # 0
      BY <1>1, <1>4
    <3> QED  BY <3>1, EmptySeq
  <2>3. PICK r \in Seq(Lines) : r = Tail(h) /\ Len(r) = k - 1 /\ \A i \in 1 .. k - 1 : r[i] = h[i + 1]
    <3>1. /\ Tail(h) \in Seq(Lines) /\ Len(Tail(h)) = Len(h) - 1
          /\ \A i \in 1 .. Len(Tail(h)) : Tail(h)[i] = h[i + 1]
      BY <2>2, HeadTailProperties
    <3> QED  BY <1>1, <3>1
  <2>4. t = Append(r, line)
    BY <1>1, <1>4, <2>3
  <2>5. /\ t \in Seq(Lines) /\ Len(t) = k
        /\ \A i \in 1 .. k : t[i] = IF i <= k - 1 THEN r[i] ELSE line
    <3>1. /\ t \in Seq(Lines) /\ Len(t) = Len(r) + 1
          /\ \A i \in 1 .. Len(r) + 1 : t[i] = IF i <= Len(r) THEN r[i] ELSE line
      <4>1. /\ Append(r, line) \in Seq(Lines) /\ Len(Append(r, line)) = Len(r) + 1
            /\ \A i \in 1 .. Len(r) + 1 : Append(r, line)[i] = IF i <= Len(r) THEN r[i] ELSE line
        BY AppendProperties
      <4> QED  BY <2>4, <4>1
    <3>2. Len(r) + 1 = k
      BY <2>3
    <3> QED  BY <2>3, <3>1, <3>2
  <2>6. PICK u : u = SubSeq(s, 2, k + 1)
    OBVIOUS
  <2>7. u \in Seq(Lines) /\ Len(u) = k /\ \A i \in 1 .. k : u[i] = s[i + 1]
    <3>1. 2 \in 1 .. Len(s) + 1 /\ k + 1 \in Int /\ 2 - 1 <= k + 1 /\ k + 1 <= Len(s)
      BY <1>2
    <3>2. /\ u \in Seq(Lines) /\ Len(u) = ((k + 1) - 2) + 1
          /\ \A i \in 1 .. ((k + 1) - 2) + 1 : u[i] = s[(2 + i) - 1]
      BY <2>6, <3>1, PartIs
    <3>3. ((k + 1) - 2) + 1 = k /\ \A i \in 1 .. k : (2 + i) - 1 = i + 1
      OBVIOUS
    <3> QED  BY <3>2, <3>3
  <2>8. ASSUME NEW i \in 1 .. k PROVE u[i] = t[i]
    <3>1. i + 1 \in 1 .. k + 1
      OBVIOUS
    <3>2. CASE i <= k - 1
      BY <1>2, <2>3, <2>5, <2>7, <3>1, <3>2
    <3>3. CASE ~(i <= k - 1)
      BY <1>2, <2>5, <2>7, <3>1, <3>3
    <3> QED  BY <3>2, <3>3
  <2>9. u = t
    BY <2>5, <2>7, <2>8, SeqEqual
  <2> QED  BY <1>1, <1>2, <1>3, <1>4, <2>1, <2>5, <2>6, <2>9
<1>5. CASE k # N
  <2>1. Max({1, ((k + 1) - N) + 1}) = 1
    <3>1. PICK l \in Int : l = ((k + 1) - N) + 1 /\ l <= 1
      BY <1>0, <1>5
    <3>2. 1 \in {1, l} /\ 1 \in Int /\ \A x \in {1, l} : x \in Int /\ x <= 1
      BY <3>1
    <3>3. Max({1, l}) = 1
      BY <3>2, MaxIs
    <3> QED  BY <3>1, <3>3
  <2>2. t = s
    BY <1>1, <1>2, <1>5
  <2>3. SubSeq(s, 1, Len(s)) = s
    BY SubSeqFull
  <2>4. LastN(s, N) = s
    BY <1>2, <1>3, <2>1, <2>3
  <2> QED  BY <1>1, <1>2, <1>5, <2>2, <2>4
<1> QED  BY <1>4, <1>5

-----------------------------------------------------------------------------
(* The inductive invariant                                                    *)

IInv ==
  /\ shift \in BOOLEAN /\ isExtendedScancode \in BOOLEAN
  /\ Sound(ed) /\ Len(ed.buf) <= TERMINAL_BUFFER_SIZE
  /\ commandHistory \in Seq(Lines) /\ Len(commandHistory) <= MAX_COMMAND_HISTORY
  /\ commandHistory = log
  /\ goThroughHistoryCount \in 0 .. Len(commandHistory)

\* A line that has just been begun, or taken from the history, is short enough.
LEMMA ShortEnough ==
  /\ Len(<<>>) <= TERMINAL_BUFFER_SIZE
  /\ \A line \in Lines : Len(line) <= TERMINAL_BUFFER_SIZE
BY TerminalAssumption DEF Lines

LEMMA InitHolds ==
  ASSUME Init
  PROVE  IInv
<1>1. PICK p \in Prompts : ed = newTerminalInputLine(Fresh(p))
  BY DEF Init
<1>2. p \in Nat
  BY TerminalAssumption
<1>3. PICK f : f = Fresh(p) /\ Below(f) /\ f = reset_line_input(f)
  BY <1>2, FreshIsBelow
<1>4. Sound(ed) /\ ed.buf = <<>>
  BY <1>1, <1>3, PromptIsSound
<1>5. <<>> \in Seq(Lines) /\ Len(<<>>) = 0 /\ 0 \in 0 .. 0 /\ 0 <= MAX_COMMAND_HISTORY
  BY TerminalAssumption
<1> QED  BY <1>4, <1>5, ShortEnough DEF Init, IInv

\* What a step leaves of the line and the history when it changes only the codes.
LEMMA CodesKeep ==
  ASSUME IInv, UNCHANGED <<ed, commandHistory, goThroughHistoryCount, log>>,
         shift' \in BOOLEAN, isExtendedScancode' \in BOOLEAN
  PROVE  IInv'
BY DEF IInv

\* And when it changes the line too.
LEMMA LineKeeps ==
  ASSUME IInv, UNCHANGED <<commandHistory, goThroughHistoryCount, log, shift>>,
         isExtendedScancode' \in BOOLEAN, Sound(ed'), Len(ed'.buf) <= TERMINAL_BUFFER_SIZE
  PROVE  IInv'
BY DEF IInv, Sound, Shown

\* An entry of the history.
LEMMA EntryIs ==
  ASSUME IInv, NEW go \in 1 .. Len(commandHistory), ed' = handle_show_history(go)
  PROVE  Sound(ed') /\ Len(ed'.buf) <= TERMINAL_BUFFER_SIZE
<1>1. PICK n \in Nat : n = Len(commandHistory)
  BY LenProperties DEF IInv
<1>2. PICK i \in 1 .. n : i = n - go + 1
  BY <1>1
<1>3. PICK text \in Lines : text = commandHistory[i]
  BY <1>1, ElementOfSeq DEF IInv
<1>4. text \in Seq(Chars) /\ Len(text) < TERMINAL_BUFFER_SIZE
  BY DEF Lines
<1>5. ed' = [print_chars([clear_input_on_screen(ed) EXCEPT !.buf = text], Interactable(text))
               EXCEPT !.pos = Len(text)]
  BY <1>1, <1>2, <1>3 DEF handle_show_history
<1>6. Sound(ed') /\ ed'.buf = text
  BY <1>4, <1>5, ShowHistoryKeeps DEF IInv
<1> QED  BY <1>6, ShortEnough

LEMMA ArrowUpKeeps ==
  ASSUME IInv, ArrowUp
  PROVE  IInv'
<1>1. UNCHANGED <<commandHistory, log, shift>> /\ isExtendedScancode' = FALSE
  BY DEF ArrowUp, Extended
<1>2. PICK n \in Nat, go \in Int : n = Len(commandHistory) /\ go = goThroughHistoryCount /\ go \in 0 .. n
  BY LenProperties DEF IInv
<1>3. CASE goThroughHistoryCount < Len(commandHistory) /\ goThroughHistoryCount' = goThroughHistoryCount + 1
           /\ ed' = handle_show_history(goThroughHistoryCount')
  <2>1. go + 1 \in 1 .. n /\ go + 1 \in 0 .. n /\ goThroughHistoryCount' = go + 1
    BY <1>2, <1>3
  <2>2. Sound(ed') /\ Len(ed'.buf) <= TERMINAL_BUFFER_SIZE
    BY <1>2, <1>3, <2>1, EntryIs
  <2> QED  BY <1>1, <1>2, <2>1, <2>2 DEF IInv, Sound, Shown
<1>4. CASE UNCHANGED <<goThroughHistoryCount, ed>>
  BY <1>1, <1>4 DEF IInv
<1> QED  BY <1>3, <1>4 DEF ArrowUp

LEMMA ArrowDownKeeps ==
  ASSUME IInv, ArrowDown
  PROVE  IInv'
<1>1. UNCHANGED <<commandHistory, log, shift>> /\ isExtendedScancode' = FALSE
  BY DEF ArrowDown, Extended
<1>2. PICK n \in Nat, go \in Int : n = Len(commandHistory) /\ go = goThroughHistoryCount /\ go \in 0 .. n
  BY LenProperties DEF IInv
<1>3. CASE UNCHANGED <<goThroughHistoryCount, ed>>
  BY <1>1, <1>3 DEF IInv
<1>4. CASE goThroughHistoryCount' = 0 /\ ed' = reset_line_input(clear_input_on_screen(ed))
  <2>1. Sound(ed') /\ ed'.buf = <<>>
    BY <1>4, EmptyLineKeeps DEF IInv
  <2>2. 0 \in 0 .. n
    OBVIOUS
  <2> QED  BY <1>1, <1>2, <1>4, <2>1, <2>2, ShortEnough DEF IInv, Sound, Shown
<1>5. CASE goThroughHistoryCount > 1 /\ goThroughHistoryCount' = goThroughHistoryCount - 1
           /\ ed' = handle_show_history(goThroughHistoryCount')
  <2>1. go - 1 \in 1 .. n /\ go - 1 \in 0 .. n /\ goThroughHistoryCount' = go - 1
    BY <1>2, <1>5
  <2>2. Sound(ed') /\ Len(ed'.buf) <= TERMINAL_BUFFER_SIZE
    BY <1>2, <1>5, <2>1, EntryIs
  <2> QED  BY <1>1, <1>2, <2>1, <2>2 DEF IInv, Sound, Shown
<1> QED  BY <1>3, <1>4, <1>5 DEF ArrowDown

LEMMA ArrowSidewaysKeeps ==
  ASSUME IInv, NEW right \in BOOLEAN, ArrowSideways(right)
  PROVE  IInv'
<1>1. /\ UNCHANGED <<commandHistory, goThroughHistoryCount, log, shift>> /\ isExtendedScancode' = FALSE
      /\ ed' = cursor_move_inline(ed, right)
  BY DEF ArrowSideways, Extended
<1>2. Sound(ed') /\ ed'.buf = ed.buf
  BY <1>1, CursorMoveKeeps DEF IInv
<1>3. Len(ed'.buf) <= TERMINAL_BUFFER_SIZE
  BY <1>2 DEF IInv
<1> QED  BY <1>1, <1>2, <1>3, LineKeeps

LEMMA TypeKeeps ==
  ASSUME IInv, NEW k \in DOMAIN Keymap, Type(k)
  PROVE  IInv' /\ \A c \in Columns : ed.cell[c] = Prompt => ed'.cell[c] = Prompt
<1>1. PICK c : c = Keymap[k][IF shift THEN 2 ELSE 1]
  OBVIOUS
<1>2. /\ UNCHANGED <<commandHistory, goThroughHistoryCount, log, shift, isExtendedScancode>> /\ InBuffer(ed)
      /\ ed' = IF c = NoChar THEN ed ELSE insert_char_at_cursor(ed, c)
  BY <1>1 DEF Type, Plain
<1>3. CASE c = NoChar
  BY <1>2, <1>3 DEF IInv
<1>4. CASE c # NoChar
  <2>1. c \in Chars
    BY <1>1, <1>4 DEF Chars
  <2>2. /\ Sound(ed') /\ Len(ed'.buf) = Len(ed.buf) + 1
        /\ \A i \in Columns : ed.cell[i] = Prompt => ed'.cell[i] = Prompt
    BY <1>2, <1>4, <2>1, InsertKeeps DEF IInv
  <2>3. Len(ed'.buf) <= TERMINAL_BUFFER_SIZE
    <3>1. ed \in Editors
      BY DEF IInv, Sound
    <3>2. PICK n \in Nat, B \in Nat : n = Len(ed.buf) /\ B = TERMINAL_BUFFER_SIZE
      BY <3>1, EditorIs, TerminalAssumption
    <3>3. n < B
      BY <1>2, <3>2 DEF InBuffer
    <3> QED  BY <2>2, <3>2, <3>3
  <2> QED  BY <1>2, <2>2, <2>3, LineKeeps DEF IInv
<1> QED  BY <1>3, <1>4

LEMMA BackspaceKeeps ==
  ASSUME IInv, Backspace
  PROVE  IInv' /\ \A c \in Columns : ed.cell[c] = Prompt => ed'.cell[c] = Prompt
<1>1. /\ UNCHANGED <<commandHistory, goThroughHistoryCount, log, shift, isExtendedScancode>> /\ InBuffer(ed)
      /\ ed' = handle_input_buffer_deletion(ed)
  BY DEF Backspace, Plain
<1>2. /\ Sound(ed') /\ Len(ed'.buf) <= Len(ed.buf)
      /\ \A i \in Columns : ed.cell[i] = Prompt => ed'.cell[i] = Prompt
  BY <1>1, DeletionKeeps DEF IInv
<1>3. Len(ed'.buf) <= TERMINAL_BUFFER_SIZE
  <2>1. ed \in Editors /\ ed' \in Editors
    BY <1>2 DEF IInv, Sound
  <2>2. PICK n \in Nat, m \in Nat, B \in Nat : n = Len(ed.buf) /\ m = Len(ed'.buf) /\ B = TERMINAL_BUFFER_SIZE
    <3>1. ed.buf \in Seq(Chars)
      BY <2>1, EditorIs
    <3>2. ed'.buf \in Seq(Chars)
      BY <2>1 DEF Editors
    <3>3. Len(ed.buf) \in Nat /\ Len(ed'.buf) \in Nat
      BY <3>1, <3>2, LenProperties
    <3> QED  BY <3>3, TerminalAssumption
  <2>3. n <= B /\ m <= n
    BY <1>2, <2>2 DEF IInv
  <2> QED  BY <2>2, <2>3
<1> QED  BY <1>1, <1>2, <1>3, LineKeeps DEF IInv

LEMMA TabKeeps ==
  ASSUME IInv, handleTabAutoCompletion
  PROVE  IInv'
<1>1. /\ UNCHANGED <<commandHistory, goThroughHistoryCount, log, shift, isExtendedScancode>> /\ InBuffer(ed)
      /\ ed' = autoComplete(ed) /\ Len(ed'.buf) <= TERMINAL_BUFFER_SIZE
  BY DEF handleTabAutoCompletion, Plain
<1>2. Sound(ed')
  BY <1>1, CompletionKeeps DEF IInv, InBuffer
<1> QED  BY <1>1, <1>2, LineKeeps DEF IInv

LEMMA EnterKeeps ==
  ASSUME IInv, Enter
  PROVE  IInv'
<1>1. UNCHANGED <<shift, isExtendedScancode>> /\ goThroughHistoryCount' = 0 /\ processLineInputBuffer
  BY DEF Enter, Plain
<1>2. PICK one : one = newline(ed) /\ Below(one) /\ one.prompt = ed.prompt
  BY NewRow DEF IInv
<1>3. PICK two : two = newline(newline(ed)) /\ Below(two)
  BY NewRows DEF IInv
<1>4. ed.prompt \in Nat
  BY EditorIs DEF IInv, Sound
<1>5. ASSUME NEW e, Below(e), ed' = newTerminalInputLine(reset_line_input(e))
      PROVE  Sound(ed') /\ Len(ed'.buf) <= TERMINAL_BUFFER_SIZE
  <2>1. Sound(ed') /\ ed'.buf = <<>>
    BY <1>5, PromptIsSound
  <2> QED  BY <2>1, ShortEnough
<1>6. ASSUME ed' = newTerminalInputLine(displayTerminalError(ed))
      PROVE  Sound(ed') /\ Len(ed'.buf) <= TERMINAL_BUFFER_SIZE
  BY <1>3, <1>5, <1>6 DEF displayTerminalError
<1>7. ASSUME NEW e \in executeCommand(ed)
      PROVE  Below(e)
  <2>1. CASE e = newline(newline(ed))
    BY <1>3, <2>1
  <2>2. CASE e = Fresh(ed.prompt)
    BY <1>4, <2>2, FreshIsBelow
  <2>3. ASSUME NEW p \in Prompts, e = [newline(ed) EXCEPT !.prompt = p]
        PROVE  Below(e)
    <3>1. p \in Nat
      BY TerminalAssumption
    <3>2. e \in Editors /\ e.x = one.x /\ e.amount = one.amount /\ e.cell = one.cell
      BY <1>2, <2>3, <3>1 DEF Below, Editors
    <3> QED  BY <1>2, <3>2 DEF Below
  <2> QED  BY <2>1, <2>2, <2>3 DEF executeCommand
<1>8. CASE UNCHANGED <<commandHistory, log>> /\ Sound(ed') /\ Len(ed'.buf) <= TERMINAL_BUFFER_SIZE
  <2>1. Len(commandHistory) \in Nat
    BY LenProperties DEF IInv
  <2>2. 0 \in 0 .. Len(commandHistory)
    BY <2>1
  <2> QED  BY <1>1, <1>8, <2>2 DEF IInv, Sound, Shown
<1>9. CASE Len(ed.buf) = 0 /\ ed' = newTerminalInputLine(reset_line_input(newline(ed)))
           /\ UNCHANGED <<commandHistory, log>>
  BY <1>2, <1>5, <1>8, <1>9
<1>10. CASE Len(ed.buf) >= TERMINAL_BUFFER_SIZE /\ ed' = newTerminalInputLine(displayTerminalError(ed))
            /\ UNCHANGED <<commandHistory, log>>
  BY <1>6, <1>8, <1>10
<1>11. CASE /\ Len(ed.buf) \in 1 .. TERMINAL_BUFFER_SIZE - 1
            /\ add_command_to_history(ed.buf)
            /\ log' = LastN(Append(log, ed.buf), MAX_COMMAND_HISTORY)
            /\ IF getInputArgs(ed.buf) \in Commands
               THEN \E e \in executeCommand(ed) : ed' = newTerminalInputLine(reset_line_input(e))
               ELSE ed' = newTerminalInputLine(displayTerminalError(ed))
  <2>1. Sound(ed') /\ Len(ed'.buf) <= TERMINAL_BUFFER_SIZE
    <3>1. CASE \E e \in executeCommand(ed) : ed' = newTerminalInputLine(reset_line_input(e))
      BY <1>5, <1>7, <3>1
    <3>2. CASE ed' = newTerminalInputLine(displayTerminalError(ed))
      BY <1>6, <3>2
    <3> QED  BY <1>11, <3>1, <3>2
  <2>2. PICK line \in Lines : line = ed.buf
    <3>1. ed.buf \in Seq(Chars)
      BY EditorIs DEF IInv, Sound
    <3>2. Len(ed.buf) < TERMINAL_BUFFER_SIZE
      BY <1>11, TerminalAssumption
    <3> QED  BY <3>1, <3>2 DEF Lines
  <2>3. PICK t : t = Append(IF Len(commandHistory) >= MAX_COMMAND_HISTORY
                            THEN Tail(commandHistory) ELSE commandHistory, line)
    OBVIOUS
  <2>4. /\ t \in Seq(Lines) /\ Len(t) <= MAX_COMMAND_HISTORY
        /\ LastN(Append(commandHistory, line), MAX_COMMAND_HISTORY) = t
    BY <2>3, HistoryGrows DEF IInv
  <2>5. commandHistory' = t
    BY <1>11, <2>2, <2>3 DEF add_command_to_history
  <2>6. log' = t
    BY <1>11, <2>2, <2>4 DEF IInv
  <2>7. 0 \in 0 .. Len(t)
    <3>1. Len(t) \in Nat
      BY <2>4, LenProperties
    <3> QED  BY <3>1
  <2> QED  BY <1>1, <2>1, <2>4, <2>5, <2>6, <2>7 DEF IInv, Sound, Shown
<1>12. \/ Len(ed.buf) = 0 /\ ed' = newTerminalInputLine(reset_line_input(newline(ed)))
          /\ UNCHANGED <<commandHistory, log>>
       \/ Len(ed.buf) >= TERMINAL_BUFFER_SIZE /\ ed' = newTerminalInputLine(displayTerminalError(ed))
          /\ UNCHANGED <<commandHistory, log>>
       \/ /\ Len(ed.buf) \in 1 .. TERMINAL_BUFFER_SIZE - 1
          /\ add_command_to_history(ed.buf)
          /\ log' = LastN(Append(log, ed.buf), MAX_COMMAND_HISTORY)
          /\ IF getInputArgs(ed.buf) \in Commands
             THEN \E e \in executeCommand(ed) : ed' = newTerminalInputLine(reset_line_input(e))
             ELSE ed' = newTerminalInputLine(displayTerminalError(ed))
  BY <1>1, Zenon DEF processLineInputBuffer
<1> QED  BY <1>9, <1>10, <1>11, <1>12, Zenon

\* Every key, and every step that is none, keeps it.
LEMMA NextKeeps ==
  ASSUME IInv, [Next]_vars
  PROVE  IInv'
<1>1. CASE UNCHANGED vars
  BY <1>1 DEF IInv, Sound, Shown, vars
<1>2. ASSUME NEW down \in BOOLEAN, ShiftCode(down)
      PROVE  IInv'
  BY <1>2 DEF ShiftCode, IInv
<1>3. CASE ExtendedPrefix \/ KeyRelease \/ OtherExtendedKey
  BY <1>3, CodesKeep DEF ExtendedPrefix, KeyRelease, OtherExtendedKey, Extended, IInv
<1> QED
  BY <1>1, <1>2, <1>3, ArrowUpKeeps, ArrowDownKeeps, ArrowSidewaysKeeps, TypeKeeps, BackspaceKeeps,
     EnterKeeps, TabKeeps DEF Next

LEMMA InvariantHolds == Spec => []IInv
<1>1. Init => IInv
  BY InitHolds
<1>2. IInv /\ [Next]_vars => IInv'
  BY NextKeeps
<1> QED  BY <1>1, <1>2, PTL DEF Spec

\* The state is typed and the cursor in the line, which stays within the part of the
\* screen buffer around its row and within lineInputBuffer (insert_char_at_cursor,
\* handle_input_buffer_deletion, the recall of a line, completion).
THEOREM TerminalTypeOK == Spec => []TypeOK
<1>1. ASSUME IInv
      PROVE  TypeOK
  <2>1. PICK M \in Nat, B \in Nat, x \in Int, pos \in Int, n \in Nat, home \in Int, am \in Int :
          /\ M = MAX_CHARS /\ B = TERMINAL_BUFFER_SIZE /\ M > 0 /\ B > 0
          /\ x = ed.x /\ pos = ed.pos /\ n = Len(ed.buf) /\ home = ed.home /\ am = ed.amount
          /\ 0 <= pos /\ pos <= n /\ am = (x - pos) + n
          /\ -B <= x - pos /\ x - pos < M /\ home <= x - pos
          /\ \A k : k \in Columns <=> k \in Int /\ -B <= k /\ k <= M + B
    BY <1>1, SoundIs DEF IInv
  <2>2. n <= B /\ 0 <= pos /\ pos <= n /\ am = (x - pos) + n /\ -B <= x - pos /\ x - pos < M
    BY <1>1, <2>1 DEF IInv
  <2>3. -B <= x /\ x <= M + B /\ -B <= am /\ am <= M + B
    BY <2>2
  <2>4. ed.x \in Columns /\ ed.amount \in Columns
    BY <2>1, <2>3
  <2>5. ed.buf \in Seq(Chars) /\ ed.pos \in 0 .. Len(ed.buf) /\ ed.start \in 0 .. MAX_CHARS - 1
    BY <1>1, EditorIs DEF IInv, Sound
  <2>6. goThroughHistoryCount \in Nat
    <3>1. Len(commandHistory) \in Nat
      BY <1>1, LenProperties DEF IInv
    <3> QED  BY <1>1, <3>1 DEF IInv
  <2> QED  BY <1>1, <2>4, <2>5, <2>6 DEF TypeOK, IInv
<1> QED  BY <1>1, InvariantHolds, PTL

\* As long as no line feed has been put into it and nothing behind lineInputBuffer, the
\* line on the screen is the line in the buffer, for every line, width of the screen and
\* key: the two are written by different loops (insert_char_at_cursor shifts both,
\* clear_input_on_screen and print_chars rebuild the one, handle_show_history the other).
THEOREM TerminalLineOnScreen == Spec => []LineOnScreen
<1>1. ASSUME IInv
      PROVE  LineOnScreen
  <2>1. SUFFICES ASSUME ed.exact
                 PROVE  /\ ed.x = ed.home + ed.pos
                        /\ ed.amount = ed.home + Len(ed.buf)
                        /\ \A i \in 1 .. Len(ed.buf) : ed.cell[ed.home + i - 1] = Cell(ed.buf[i], TRUE)
    BY DEF LineOnScreen
  <2>2. Sound(ed) /\ Shown(ed)
    BY <1>1, <2>1 DEF IInv, Sound
  <2>3. ed \in Editors
    BY <2>2 DEF Sound
  <2>4. PICK x \in Int, pos \in Int, home \in Int, am \in Int, n \in Int :
          x = ed.x /\ pos = ed.pos /\ home = ed.home /\ am = ed.amount /\ n = Len(ed.buf)
    BY <2>3, EditorIs
  <2>5. home = x - pos /\ am - n = x - pos
    BY <2>2, <2>4 DEF Sound, Shown
  <2>6. x = home + pos /\ am = home + n
    BY <2>5
  <2> QED  BY <2>2, <2>4, <2>6 DEF Shown
<1> QED  BY <1>1, InvariantHolds, PTL

\* Neither typing nor deleting changes a cell of a prompt, whatever the line has been
\* through (the interactable flag that handle_input_buffer_deletion looks at).
THEOREM TerminalPromptProtected == Spec => PromptProtected
<1>1. ASSUME IInv, [Next]_vars
      PROVE  [(Backspace \/ \E k \in DOMAIN Keymap : Type(k)) =>
                 \A c \in Columns : ed.cell[c] = Prompt => ed'.cell[c] = Prompt]_vars
  BY <1>1, TypeKeeps, BackspaceKeeps
<1> QED  BY <1>1, InvariantHolds, PTL DEF Spec, PromptProtected

\* The history is the last commands that were entered, and goThroughHistoryCount stays
\* within it (add_command_to_history, handle_show_history).
THEOREM TerminalHistoryIsSuffix == Spec => []HistoryIsSuffix
<1>1. ASSUME IInv
      PROVE  HistoryIsSuffix
  <2>1. Len(commandHistory) \in Nat
    BY <1>1, LenProperties DEF IInv
  <2> QED  BY <1>1, <2>1 DEF IInv, HistoryIsSuffix
<1> QED  BY <1>1, InvariantHolds, PTL

\* Tab replaces the word at the cursor by the command it is the start of, when there is
\* one only, wherever in the line the word and in the word the cursor are
\* (getCurrTokenFromBuffer finds the word with two loops, replaceCurrentToken walks to
\* its end, deletes as many characters as the word has and inserts the new one).
THEOREM TerminalTabCompletes == Spec => []TabCompletes
<1>1. ASSUME IInv
      PROVE  TabCompletes
  <2>1. SUFFICES ASSUME ed.exact, ed.home >= 0, NEW f \in Splits(ed.buf), NEW w \in Commands,
                        f[2] # <<>>, IsWordAt(f[1], f[2], f[3], ed),
                        {v \in Commands : IsPrefix(f[2], v)} = {w}
                 PROVE  \/ /\ autoComplete(ed).buf = f[1] \o w \o f[3]
                           /\ autoComplete(ed).pos = Len(f[1] \o w)
                        \/ f[1] = <<Space>> /\ autoComplete(ed) = ed
    BY Zenon DEF TabCompletes
  <2>2. Sound(ed) /\ ed \in Editors /\ Len(ed.buf) <= TERMINAL_BUFFER_SIZE
    BY <1>1 DEF IInv, Sound
  <2>3. ed \in Short
    BY <2>2 DEF Short, SoundEditors
  <2>4. PICK s \in Seq(Chars), home \in Int : s = ed.buf /\ home = ed.home
    BY <2>2, EditorIs
  <2>5. 0 <= ed.home
    BY <2>1, <2>4
  <2>6. f \in Splits(s)
    BY <2>1, <2>4
  <2>7. f[1] \in Seq(Chars) /\ f[2] \in Seq(Chars) /\ f[3] \in Seq(Chars)
    BY <2>6, SplitsAre
  <2> QED  BY <2>1, <2>3, <2>5, <2>7, CompletionIs
<1> QED  BY <1>1, InvariantHolds, PTL
=============================================================================
