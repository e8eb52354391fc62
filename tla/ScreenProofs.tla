---------------------------- MODULE ScreenProofs ----------------------------
(***************************************************************************)
(* That the screen shows the buffer, that there is one cursor bar, drawn   *)
(* inside the frame buffer, and that the buffer holds what was written     *)
(* last, for every size of the screen, of the scroll history and of the    *)
(* input line.                                                             *)
(***************************************************************************)
EXTENDS Screen, SequenceTheorems, TLAPS

CellChars == Chars \cup {Nul}
GlyphChars == CellChars \cup {Blank, Boot, Smeared}
Glyphs == [char : GlyphChars, bar : Int]

Amounts == 0 .. MAX_CHARS + MAX_INPUT
Screens ==
  [cell : [Addresses -> CellChars], amount : [Lines -> Amounts], start : Nat,
   x : Int, y : Nat, rx : Int, ry : Nat, visible : BOOLEAN,
   fb : [Rows -> [Cols -> Glyphs]], behind : SUBSET Lines]

ShownLines == [Cols -> GlyphChars]

\* What is at a place of the frame buffer.
CharAt(t, r, c) == t.fb[r][c].char
BarOf(t, r, c) == t.fb[r][c].bar
HasBar(t, r, c) == BarOf(t, r, c) # NoBar

\* Nothing but the buffer's glyph is drawn at a place.
Fine(t, l, c, char) == char \in {CellAt(t, l, c), Boot, Smeared}

\* The cursor's line is stored and on the screen, with a row above when the cursor is left
\* of the first column.
OnScreen(t) ==
  /\ t.start <= SCROLL_HISTORY_LINES /\ t.start <= t.y /\ t.y < t.start + MAX_LINES
  /\ t.x < 0 => t.y > t.start

\* What is drawn is what is stored, but for lines that are behind.
Shows(t) ==
  \A r \in Rows, c \in Cols :
    t.start + r \notin t.behind => Fine(t, t.start + r, c, CharAt(t, r, c))

\* No bar but that of the cursor that was drawn last.
BarsAt(t) ==
  \A r \in Rows, c \in Cols :
    HasBar(t, r, c) => BarOf(t, r, c) = t.rx /\ c \in Columns(t.rx) /\ r = t.ry - t.start

\* All of t but the frame buffer.
SameButFb(t, u) ==
  /\ u.cell = t.cell /\ u.amount = t.amount /\ u.start = t.start /\ u.x = t.x /\ u.y = t.y
  /\ u.rx = t.rx /\ u.ry = t.ry /\ u.visible = t.visible /\ u.behind = t.behind
-----------------------------------------------------------------------------
(* Sizes and addresses. *)

LEMMA Sizes ==
  /\ MAX_CHARS \in Nat /\ MAX_CHARS > 0 /\ MAX_LINES \in Nat /\ MAX_LINES > 1
  /\ SCROLL_HISTORY_LINES \in Nat /\ SCROLL_HISTORY_LINES > 0
  /\ maxStoredLines = MAX_LINES + SCROLL_HISTORY_LINES
  /\ MAX_INPUT \in Nat
BY ScreenAssumption DEF maxStoredLines

\* The first cells of the lines are MAX_CHARS apart.
LEMMA Bases ==
  ASSUME NEW l \in Nat, NEW m \in Nat
  PROVE  /\ Place(l, 0) \in Nat
         /\ Place(l + 1, 0) = Place(l, 0) + MAX_CHARS
         /\ l < m => Place(l, 0) + MAX_CHARS <= Place(m, 0)
<1>1. Place(l, 0) \in Nat /\ Place(l + 1, 0) = Place(l, 0) + MAX_CHARS
  <2>1. PICK w \in Nat : w = MAX_CHARS
    BY Sizes
  <2>2. l * w \in Nat /\ (l + 1) * w = l * w + w
    OBVIOUS
  <2> QED  BY <2>1, <2>2 DEF Place
<1>2. ASSUME l < m
      PROVE  Place(l, 0) + MAX_CHARS <= Place(m, 0)
  <2>1. PICK w \in Nat, k \in Nat : w = MAX_CHARS /\ m = l + 1 + k
    <3>1. m - l - 1 \in Nat /\ m = l + 1 + (m - l - 1)
      BY <1>2
    <3> QED  BY <3>1, Sizes
  <2>2. (l + 1 + k) * w = l * w + w + k * w /\ k * w \in Nat /\ l * w \in Nat
    OBVIOUS
  <2> QED  BY <2>1, <2>2 DEF Place
<1> QED  BY <1>1, <1>2

LEMMA PlaceIs ==
  ASSUME NEW l \in Nat, NEW c \in Int
  PROVE  Place(l, c) = Place(l, 0) + c
<1>1. PICK a \in Int : a = l * MAX_CHARS
  <2>1. l * MAX_CHARS \in Int
    BY Sizes
  <2> QED  BY <2>1
<1> QED  BY <1>1 DEF Place

LEMMA AddressesAre ==
  /\ Addresses = 0 .. Place(maxStoredLines, 0) + MAX_INPUT
  /\ Place(maxStoredLines, 0) \in Nat
  /\ MAX_INPUT <= Place(maxStoredLines - 1, 0)
<1>1. PICK n \in Nat : n = maxStoredLines /\ n > 0
  BY Sizes
<1>2. maxStoredLines - 1 \in Nat
  BY <1>1
<1>3. Place(maxStoredLines, 0) \in Nat /\ Place(maxStoredLines - 1, 0) \in Nat
  BY <1>1, <1>2, Bases
<1>4. Place(maxStoredLines, 0) = maxStoredLines * MAX_CHARS
  <2>1. maxStoredLines * MAX_CHARS \in Int
    BY <1>1, Sizes
  <2> QED  BY <2>1 DEF Place
<1>5. Place(maxStoredLines - 1, 0) = (maxStoredLines - 1) * MAX_CHARS
  <2>1. (maxStoredLines - 1) * MAX_CHARS \in Int
    BY <1>2, Sizes
  <2> QED  BY <2>1 DEF Place
<1> QED  BY <1>3, <1>4, <1>5, ScreenAssumption DEF Addresses

\* A cell of a line has an address.
LEMMA PlaceInside ==
  ASSUME NEW l \in Lines, NEW c \in Int, c < MAX_CHARS + MAX_INPUT, 0 <= Place(l, 0) + c
  PROVE  Place(l, c) \in Addresses
<1>1. l \in Nat /\ l < maxStoredLines /\ maxStoredLines \in Nat
  BY Sizes DEF Lines
<1>2. Place(l, 0) \in Nat /\ Place(l, 0) + MAX_CHARS <= Place(maxStoredLines, 0)
  BY <1>1, Bases
<1>3. Place(l, c) = Place(l, 0) + c
  BY <1>1, PlaceIs
<1>4. Place(l, 0) + c \in 0 .. Place(maxStoredLines, 0) + MAX_INPUT
  BY <1>2, Sizes, AddressesAre
<1> QED  BY <1>3, <1>4, AddressesAre

LEMMA ColumnInside ==
  ASSUME NEW l \in Lines, NEW c \in Cols
  PROVE  /\ Place(l, c) \in Addresses /\ Place(l, c) = Place(l, 0) + c /\ Place(l, 0) \in Nat
         /\ c \in Nat /\ c < MAX_CHARS /\ l \in Nat /\ l < maxStoredLines
<1>1. l \in Nat /\ l < maxStoredLines /\ c \in Nat /\ c < MAX_CHARS
  BY Sizes DEF Lines, Cols
<1>2. Place(l, 0) \in Nat
  BY <1>1, Bases
<1> QED  BY <1>1, <1>2, PlaceInside, PlaceIs, Sizes

\* Columns of two different lines have different addresses, in the lines' order.
LEMMA PlacesApart ==
  ASSUME NEW l \in Lines, NEW m \in Lines, l < m, NEW c \in Cols, NEW d \in Int, d >= 0
  PROVE  Place(l, c) < Place(m, d) /\ Place(l, c) < Place(m, 0)
<1>1. l \in Nat /\ m \in Nat /\ c \in Nat /\ c < MAX_CHARS
  BY Sizes DEF Lines, Cols
<1>2. /\ Place(l, 0) \in Nat /\ Place(m, 0) \in Nat /\ Place(l, 0) + MAX_CHARS <= Place(m, 0)
      /\ Place(l, c) = Place(l, 0) + c /\ Place(m, d) = Place(m, 0) + d
  BY <1>1, Bases, PlaceIs
<1> QED  BY <1>1, <1>2, Sizes

LEMMA CellIs ==
  ASSUME NEW t \in Screens, NEW l \in Lines, NEW c \in Cols
  PROVE  CellAt(t, l, c) \in GlyphChars
<1>1. t.cell \in [Addresses -> CellChars]
  BY DEF Screens
<1>2. t.cell[Place(l, c)] \in CellChars
  BY <1>1, ColumnInside
<1> QED  BY <1>2 DEF CellAt, GlyphChars

LEMMA ColumnsOnScreen == \A c \in Int : Columns(c) \subseteq Cols /\ (c >= MAX_CHARS => Columns(c) = {})
<1>1. ASSUME NEW c \in Int, c >= MAX_CHARS
      PROVE  Columns(c) = {}
  <2>1. c >= 0 /\ c \notin Cols
    BY <1>1, Sizes DEF Cols
  <2> QED  BY <2>1 DEF Columns
<1> QED  BY <1>1 DEF Columns
-----------------------------------------------------------------------------
(* print.cpp *)

LEMMA GlyphIs ==
  ASSUME NEW char \in GlyphChars, NEW b \in Int
  PROVE  Glyph(char, b) \in Glyphs /\ Glyph(char, b).char = char /\ Glyph(char, b).bar = b
<1>1. PICK g : g = Glyph(char, b)
  OBVIOUS
<1>2. g \in Glyphs /\ g.char = char /\ g.bar = b
  BY <1>1 DEF Glyph, Glyphs
<1> QED  BY <1>1, <1>2

LEMMA FbIs ==
  ASSUME NEW t \in Screens, NEW fb \in [Rows -> [Cols -> Glyphs]], NEW u, u = [t EXCEPT !.fb = fb]
  PROVE  u \in Screens /\ SameButFb(t, u) /\ u.fb = fb
BY DEF Screens, SameButFb

LEMMA FbTyped ==
  ASSUME NEW t \in Screens, NEW r \in Rows, NEW c \in Cols
  PROVE  /\ t.fb[r][c] \in Glyphs /\ CharAt(t, r, c) \in GlyphChars /\ BarOf(t, r, c) \in Int
<1>1. t.fb[r][c] \in Glyphs
  BY DEF Screens
<1> QED  BY <1>1 DEF Glyphs, CharAt, BarOf

\* u is t with char, and no bar, at column c of line l if that is on the screen; what else
\* is touched is smeared, and a bar drawn for that column goes away.
Drawn(t, char, c, l, u) ==
  /\ u \in Screens /\ SameButFb(t, u)
  /\ \A r \in Rows, k \in Cols :
       /\ r = l - t.start /\ k = c => CharAt(u, r, k) = char /\ ~ HasBar(u, r, k)
       /\ ~ (r = l - t.start /\ k = c) => CharAt(u, r, k) \in {CharAt(t, r, k), Smeared}
       /\ HasBar(u, r, k) => HasBar(t, r, k) /\ BarOf(u, r, k) = BarOf(t, r, k)
       /\ r = l - t.start /\ BarOf(t, r, k) = c /\ k \in Columns(c) => ~ HasBar(u, r, k)

LEMMA SmearIs ==
  ASSUME NEW t \in Screens, NEW c \in Int, c < 0, NEW row \in Rows,
         NEW u, u = [t EXCEPT !.fb = smear(t.fb, c, row)]
  PROVE  /\ u \in Screens /\ SameButFb(t, u)
         /\ \A r \in Rows, k \in Cols :
              /\ CharAt(u, r, k) \in {CharAt(t, r, k), Smeared}
              /\ HasBar(u, r, k) => HasBar(t, r, k) /\ BarOf(u, r, k) = BarOf(t, r, k)
              /\ r = row /\ BarOf(t, r, k) = c /\ k \in Columns(c) => ~ HasBar(u, r, k)
<1>1. PICK fb : fb = smear(t.fb, c, row)
  OBVIOUS
<1>2. ASSUME NEW r \in Rows, NEW k \in Cols
      PROVE  /\ fb[r][k] \in Glyphs
             /\ fb[r][k].char \in {CharAt(t, r, k), Smeared}
             /\ fb[r][k].bar \in {BarOf(t, r, k), NoBar}
             /\ r = row /\ BarOf(t, r, k) = c /\ k \in Columns(c) => fb[r][k].bar = NoBar
  <2>1. fb[r][k] = IF r \in {row - 1, row} /\ k \in Columns(c)
                   THEN Glyph(Smeared, IF r = row /\ t.fb[r][k].bar = c THEN NoBar ELSE t.fb[r][k].bar)
                   ELSE t.fb[r][k]
    BY <1>1 DEF smear
  <2>2. PICK b \in Int : b = IF r = row /\ t.fb[r][k].bar = c THEN NoBar ELSE t.fb[r][k].bar
    BY FbTyped, Sizes DEF BarOf, NoBar
  <2>3. t.fb[r][k] \in Glyphs
    BY FbTyped
  <2>4. Smeared \in GlyphChars
    BY DEF GlyphChars
  <2>5. CASE r \in {row - 1, row} /\ k \in Columns(c)
    <3>1. fb[r][k] = Glyph(Smeared, b)
      BY <2>1, <2>2, <2>5
    <3>2. fb[r][k] \in Glyphs /\ fb[r][k].char = Smeared /\ fb[r][k].bar = b
      BY <2>4, <3>1, GlyphIs
    <3> QED  BY <2>2, <3>2 DEF BarOf
  <2>6. CASE ~ (r \in {row - 1, row} /\ k \in Columns(c))
    BY <2>1, <2>3, <2>6 DEF CharAt, BarOf
  <2> QED  BY <2>5, <2>6
<1>3. fb \in [Rows -> [Cols -> Glyphs]]
  <2>1. fb = [r \in Rows |-> [k \in Cols |-> fb[r][k]]]
    BY <1>1 DEF smear
  <2>2. \A r \in Rows, k \in Cols : fb[r][k] \in Glyphs
    BY <1>2
  <2> QED  BY <2>1, <2>2
<1>4. u \in Screens /\ SameButFb(t, u) /\ u.fb = fb
  BY <1>1, <1>3, FbIs
<1>5. ASSUME NEW r \in Rows, NEW k \in Cols
      PROVE  /\ CharAt(u, r, k) \in {CharAt(t, r, k), Smeared}
             /\ HasBar(u, r, k) => HasBar(t, r, k) /\ BarOf(u, r, k) = BarOf(t, r, k)
             /\ r = row /\ BarOf(t, r, k) = c /\ k \in Columns(c) => ~ HasBar(u, r, k)
  <2>1. CharAt(u, r, k) = fb[r][k].char /\ BarOf(u, r, k) = fb[r][k].bar
    BY <1>4 DEF CharAt, BarOf
  <2> QED  BY <1>2, <2>1 DEF HasBar
<1> QED  BY <1>4, <1>5

LEMMA DrawCharIs ==
  ASSUME NEW t \in Screens, NEW char, NEW c \in Int, NEW l \in Nat, c \in Cols => char \in GlyphChars
  PROVE  Drawn(t, char, c, l, draw_char(t, char, c, l))
<1>0. PICK u : u = draw_char(t, char, c, l)
  OBVIOUS
<1> SUFFICES Drawn(t, char, c, l, u)
  BY <1>0
<1>1. CASE l - t.start \notin Rows \/ c >= MAX_CHARS
  <2>1. u = t
    BY <1>0, <1>1 DEF draw_char
  <2>2. ASSUME NEW r \in Rows, NEW k \in Cols
        PROVE  /\ ~ (r = l - t.start /\ k = c)
               /\ ~ (r = l - t.start /\ k \in Columns(c))
    <3>1. CASE l - t.start \notin Rows
      BY <3>1
    <3>2. CASE c >= MAX_CHARS
      BY <3>2, ColumnsOnScreen, Sizes DEF Cols
    <3> QED  BY <1>1, <3>1, <3>2
  <2> QED  BY <2>1, <2>2 DEF Drawn, SameButFb
<1>2. CASE l - t.start \in Rows /\ c \in Cols
  <2>1. PICK r0 \in Rows : r0 = l - t.start
    BY <1>2
  <2>2. PICK g : g = Glyph(char, NoBar)
    OBVIOUS
  <2>3. g \in Glyphs /\ g.char = char /\ g.bar = NoBar
    BY <1>2, <2>2, GlyphIs, Sizes DEF NoBar
  <2>5. PICK fb : fb = [t.fb EXCEPT ![r0][c] = g]
    OBVIOUS
  <2>4. u = [t EXCEPT !.fb = fb]
    <3>1. ~ (c >= MAX_CHARS) /\ ~ (c < 0)
      BY <1>2, Sizes DEF Cols
    <3>2. u = [t EXCEPT !.fb = IF c < 0 THEN smear(t.fb, c, l - t.start)
                               ELSE [t.fb EXCEPT ![l - t.start][c] = Glyph(char, NoBar)]]
      BY <1>0, <1>2, <3>1 DEF draw_char
    <3> QED  BY <2>1, <2>2, <2>5, <3>1, <3>2
  <2>6. /\ fb \in [Rows -> [Cols -> Glyphs]]
        /\ \A r \in Rows, k \in Cols : fb[r][k] = IF r = r0 /\ k = c THEN g ELSE t.fb[r][k]
    BY <1>2, <2>1, <2>3, <2>5 DEF Screens
  <2>8. u \in Screens /\ SameButFb(t, u) /\ u.fb = fb
    BY <2>4, <2>5, <2>6, FbIs
  <2>9. ASSUME NEW r \in Rows, NEW k \in Cols
        PROVE  /\ r = r0 /\ k = c => CharAt(u, r, k) = char /\ ~ HasBar(u, r, k)
               /\ ~ (r = r0 /\ k = c) =>
                    CharAt(u, r, k) = CharAt(t, r, k) /\ BarOf(u, r, k) = BarOf(t, r, k)
    <3>1. u.fb[r][k] = IF r = r0 /\ k = c THEN g ELSE t.fb[r][k]
      BY <2>6, <2>8
    <3> QED  BY <2>3, <3>1 DEF CharAt, HasBar, BarOf
  <2>10. Columns(c) \subseteq {c}
    <3>1. c >= 0
      BY <1>2, Sizes DEF Cols
    <3> QED  BY <3>1 DEF Columns
  <2> QED  BY <2>1, <2>8, <2>9, <2>10 DEF Drawn, HasBar
<1>3. CASE l - t.start \in Rows /\ c < 0
  <2>1. PICK r0 \in Rows : r0 = l - t.start
    BY <1>3
  <2>2. c \notin Cols /\ ~ (c >= MAX_CHARS)
    BY <1>3, Sizes DEF Cols
  <2>3. u = [t EXCEPT !.fb = smear(t.fb, c, r0)]
    BY <1>0, <1>3, <2>1, <2>2 DEF draw_char
  <2>4. /\ u \in Screens /\ SameButFb(t, u)
        /\ \A r \in Rows, k \in Cols :
              /\ CharAt(u, r, k) \in {CharAt(t, r, k), Smeared}
              /\ HasBar(u, r, k) => HasBar(t, r, k) /\ BarOf(u, r, k) = BarOf(t, r, k)
              /\ r = r0 /\ BarOf(t, r, k) = c /\ k \in Columns(c) => ~ HasBar(u, r, k)
    BY <1>3, <2>3, SmearIs
  <2> QED  BY <2>1, <2>2, <2>4 DEF Drawn
<1>4. c >= MAX_CHARS \/ c \in Cols \/ c < 0
  BY Sizes DEF Cols
<1> QED  BY <1>1, <1>2, <1>3, <1>4

\* The frame buffer after the cursor has been drawn.
LEMMA RenderCursorIs ==
  ASSUME NEW t \in Screens, t.y - t.start \in Rows, NEW u, u = render_cursor(t)
  PROVE  /\ u \in Screens /\ SameButFb(t, u)
         /\ \A r \in Rows, k \in Cols :
              /\ CharAt(u, r, k) = CharAt(t, r, k)
              /\ HasBar(u, r, k) =>
                   \/ HasBar(t, r, k) /\ BarOf(u, r, k) = BarOf(t, r, k)
                   \/ r = t.y - t.start /\ k \in Columns(t.x) /\ BarOf(u, r, k) = t.x
<1>1. PICK r0 \in Rows : r0 = t.y - t.start
  OBVIOUS
<1>2. t.x \in Int
  BY DEF Screens
<1>3. PICK line : line = [c \in Cols |-> IF c \in Columns(t.x) THEN Glyph(t.fb[r0][c].char, t.x)
                                          ELSE t.fb[r0][c]]
  OBVIOUS
<1>4. ASSUME NEW k \in Cols
      PROVE  /\ line[k] \in Glyphs /\ line[k].char = CharAt(t, r0, k)
             /\ line[k].bar = IF k \in Columns(t.x) THEN t.x ELSE BarOf(t, r0, k)
  <2>1. CASE k \in Columns(t.x)
    <3>1. PICK char \in GlyphChars : char = CharAt(t, r0, k)
      BY FbTyped
    <3>2. line[k] = Glyph(char, t.x)
      BY <1>3, <2>1, <3>1 DEF CharAt
    <3> QED  BY <1>2, <2>1, <3>1, <3>2, GlyphIs
  <2>2. CASE k \notin Columns(t.x)
    <3>1. line[k] = t.fb[r0][k]
      BY <1>3, <2>2
    <3> QED  BY <2>2, <3>1, FbTyped DEF CharAt, BarOf
  <2> QED  BY <2>1, <2>2
<1>5. line \in [Cols -> Glyphs]
  <2>1. line = [c \in Cols |-> line[c]]
    BY <1>3
  <2> QED  BY <1>4, <2>1
<1>6. PICK fb : fb = [t.fb EXCEPT ![r0] = line]
  OBVIOUS
<1>7. /\ fb \in [Rows -> [Cols -> Glyphs]]
      /\ \A r \in Rows, k \in Cols : fb[r][k] = IF r = r0 THEN line[k] ELSE t.fb[r][k]
  BY <1>1, <1>5, <1>6 DEF Screens
<1>8. u = [t EXCEPT !.fb = fb]
  <2>1. t.fb[r0] \in [Cols -> Glyphs] /\ t.fb \in [Rows -> [Cols -> Glyphs]]
    BY DEF Screens
  <2>2. u = [t EXCEPT !.fb[r0] = [c \in Cols |-> IF c \in Columns(t.x) THEN Glyph(@[c].char, t.x) ELSE @[c]]]
    BY <1>1 DEF render_cursor
  <2>3. u = [t EXCEPT !.fb[r0] = line]
    BY <1>3, <2>1, <2>2
  <2> QED  BY <1>6, <2>3 DEF Screens
<1>9. u \in Screens /\ SameButFb(t, u) /\ u.fb = fb
  BY <1>7, <1>8, FbIs
<1>10. ASSUME NEW r \in Rows, NEW k \in Cols
       PROVE  /\ CharAt(u, r, k) = CharAt(t, r, k)
              /\ \/ BarOf(u, r, k) = BarOf(t, r, k)
                 \/ r = r0 /\ k \in Columns(t.x) /\ BarOf(u, r, k) = t.x
  <2>1. u.fb[r][k] = IF r = r0 THEN line[k] ELSE t.fb[r][k]
    BY <1>7, <1>9
  <2>2. CASE r = r0
    <3>1. CharAt(u, r, k) = line[k].char /\ BarOf(u, r, k) = line[k].bar
      BY <2>1, <2>2 DEF CharAt, BarOf
    <3> QED  BY <1>4, <2>2, <3>1
  <2>3. CASE r # r0
    BY <2>1, <2>3 DEF CharAt, BarOf
  <2> QED  BY <2>2, <2>3
<1> QED  BY <1>1, <1>9, <1>10 DEF HasBar

LEMMA RowIsLine ==
  ASSUME NEW start \in Nat, start <= SCROLL_HISTORY_LINES, NEW r \in Rows
  PROVE  /\ start + r \in Lines
         /\ \A y \in Nat : r # y - start => start + r # y
<1>1. r \in Nat /\ r < MAX_LINES
  BY Sizes DEF Rows
<1>2. start + r \in Nat /\ start + r < maxStoredLines
  BY <1>1, Sizes
<1>3. start + r \in Lines
  BY <1>2, Sizes DEF Lines
<1>4. \A y \in Nat : r # y - start => start + r # y
  BY <1>1
<1> QED  BY <1>3, <1>4

LEMMA BackToLine ==
  ASSUME NEW a \in Nat, NEW b \in Nat, NEW r, r = b - a
  PROVE  a + r = b
OBVIOUS

LEMMA LineIs ==
  ASSUME NEW t \in Screens, OnScreen(t)
  PROVE  t.y \in Lines /\ t.y - t.start \in Rows
BY Sizes DEF Screens, OnScreen, Lines, Rows

\* The screen between two steps: the cursor is drawn where it is.
Settled(t) ==
  /\ t \in Screens /\ OnScreen(t) /\ t.rx = t.x /\ t.ry = t.y
  /\ Shows(t) /\ BarsAt(t)
  /\ \A r \in Rows, c \in Cols : HasBar(t, r, c) => t.visible = TRUE

\* All of t but the frame buffer and the place of the drawn cursor.
SameBuffer(t, u) ==
  /\ u.cell = t.cell /\ u.amount = t.amount /\ u.start = t.start /\ u.x = t.x /\ u.y = t.y
  /\ u.visible = t.visible /\ u.behind = t.behind

\* update_cursor_render settles the screen: it takes the old bar away, draws at most one
\* for the cursor and leaves the buffer alone.
LEMMA CursorIs ==
  ASSUME NEW t \in Screens, OnScreen(t), t.ry \in Lines, Shows(t), BarsAt(t),
         NEW u, u = update_cursor_render(t)
  PROVE  /\ Settled(u) /\ SameBuffer(t, u)
         /\ \A r \in Rows, c \in Cols :
              \/ CharAt(u, r, c) \in {CharAt(t, r, c), Smeared}
              \/ r = t.ry - t.start /\ c = t.rx
<1>1. PICK g : g = CellAt(t, t.ry, t.rx)
  OBVIOUS
<1>2. /\ t.rx \in Int /\ t.ry \in Nat /\ t.start \in Nat /\ t.x \in Int /\ t.y \in Nat
      /\ t.visible \in BOOLEAN /\ t.y - t.start \in Rows
      /\ t.rx \in Cols => g \in GlyphChars
  BY <1>1, CellIs, LineIs DEF Screens
<1>3. PICK p : p = draw_char(t, g, t.rx, t.ry)
  OBVIOUS
<1>4. Drawn(t, g, t.rx, t.ry, p)
  BY <1>2, <1>3, DrawCharIs
<1>5. p \in Screens /\ SameButFb(t, p)
  BY <1>4 DEF Drawn
<1>6. PICK q : q = IF p.visible THEN render_cursor(p) ELSE p
  OBVIOUS
<1>7. /\ q \in Screens /\ SameButFb(t, q)
      /\ \A r \in Rows, k \in Cols :
           /\ CharAt(q, r, k) = CharAt(p, r, k)
           /\ HasBar(q, r, k) =>
                \/ HasBar(p, r, k)
                \/ /\ t.visible = TRUE /\ r = t.y - t.start
                   /\ k \in Columns(t.x) /\ BarOf(q, r, k) = t.x
  <2>0. p.visible = t.visible /\ p.y = t.y /\ p.x = t.x /\ p.start = t.start
    BY <1>5 DEF SameButFb
  <2>1. CASE t.visible = TRUE
    <3>1. q = render_cursor(p)
      BY <1>6, <2>0, <2>1
    <3>2. /\ q \in Screens /\ SameButFb(p, q)
          /\ \A r \in Rows, k \in Cols :
               /\ CharAt(q, r, k) = CharAt(p, r, k)
               /\ HasBar(q, r, k) =>
                    \/ HasBar(p, r, k) /\ BarOf(q, r, k) = BarOf(p, r, k)
                    \/ r = p.y - p.start /\ k \in Columns(p.x) /\ BarOf(q, r, k) = p.x
      BY <1>2, <1>5, <2>0, <3>1, RenderCursorIs
    <3>3. SameButFb(t, q)
      BY <1>5, <3>2 DEF SameButFb
    <3> QED  BY <2>0, <2>1, <3>2, <3>3
  <2>2. CASE t.visible = FALSE
    <3>1. q = p
      BY <1>6, <2>0, <2>2
    <3> QED  BY <1>5, <3>1
  <2> QED  BY <1>2, <2>1, <2>2
<1>8. u = [q EXCEPT !.rx = t.x, !.ry = t.y]
  <2>1. p.visible = t.visible
    BY <1>5 DEF SameButFb
  <2>2. u = [(IF t.visible THEN render_cursor(p) ELSE p) EXCEPT !.rx = t.x, !.ry = t.y]
    BY <1>1, <1>3 DEF update_cursor_render
  <2> QED  BY <1>6, <2>1, <2>2
<1>9. u \in Screens /\ SameBuffer(t, u) /\ u.rx = t.x /\ u.ry = t.y /\ u.fb = q.fb
  BY <1>2, <1>7, <1>8 DEF Screens, SameButFb, SameBuffer
<1>10. ASSUME NEW r \in Rows, NEW c \in Cols
       PROVE  /\ HasBar(u, r, c) =>
                   /\ t.visible = TRUE /\ r = t.y - t.start
                   /\ c \in Columns(t.x) /\ BarOf(u, r, c) = t.x
              /\ r = t.ry - t.start /\ c = t.rx => CharAt(u, r, c) = g
              /\ ~ (r = t.ry - t.start /\ c = t.rx) =>
                   CharAt(u, r, c) \in {CharAt(t, r, c), Smeared}
  <2>1. CharAt(u, r, c) = CharAt(q, r, c) /\ BarOf(u, r, c) = BarOf(q, r, c)
    BY <1>9 DEF CharAt, BarOf
  <2>2. ~ HasBar(p, r, c)
    <3>1. HasBar(p, r, c) => HasBar(t, r, c)
      BY <1>4 DEF Drawn
    <3>2. HasBar(t, r, c) => BarOf(t, r, c) = t.rx /\ c \in Columns(t.rx) /\ r = t.ry - t.start
      BY DEF BarsAt
    <3>3. r = t.ry - t.start /\ BarOf(t, r, c) = t.rx /\ c \in Columns(t.rx) => ~ HasBar(p, r, c)
      BY <1>4 DEF Drawn
    <3> QED  BY <3>1, <3>2, <3>3
  <2>3. /\ r = t.ry - t.start /\ c = t.rx => CharAt(p, r, c) = g
        /\ ~ (r = t.ry - t.start /\ c = t.rx) => CharAt(p, r, c) \in {CharAt(t, r, c), Smeared}
    BY <1>4 DEF Drawn
  <2>4. HasBar(u, r, c) <=> HasBar(q, r, c)
    BY <2>1 DEF HasBar
  <2> QED  BY <1>7, <2>1, <2>2, <2>3, <2>4
<1>11. OnScreen(u) /\ BarsAt(u) /\ u.rx = u.x /\ u.ry = u.y
       /\ \A r \in Rows, c \in Cols : HasBar(u, r, c) => u.visible = TRUE
  BY <1>9, <1>10 DEF OnScreen, BarsAt, SameBuffer
<1>12. Shows(u)
  <2>1. ASSUME NEW r \in Rows, NEW c \in Cols, t.start + r \notin t.behind
        PROVE  CharAt(u, r, c) \in {CellAt(t, t.start + r, c), Boot, Smeared}
    <3>1. CharAt(t, r, c) \in {CellAt(t, t.start + r, c), Boot, Smeared}
      BY <2>1 DEF Shows, Fine
    <3>2. CASE r = t.ry - t.start /\ c = t.rx
      <4>1. t.start + r = t.ry
        BY <1>2, <3>2, BackToLine
      <4>2. CharAt(u, r, c) = g
        BY <1>10, <3>2
      <4>3. CellAt(t, t.start + r, c) = g
        BY <1>1, <3>2, <4>1
      <4> QED  BY <4>2, <4>3
    <3>3. CASE ~ (r = t.ry - t.start /\ c = t.rx)
      BY <1>10, <3>1, <3>3
    <3> QED  BY <3>2, <3>3
  <2>2. \A l, c : CellAt(u, l, c) = CellAt(t, l, c)
    BY <1>9 DEF SameBuffer, CellAt
  <2>3. u.start = t.start /\ u.behind = t.behind
    BY <1>9 DEF SameBuffer
  <2> QED  BY <2>1, <2>2, <2>3 DEF Shows, Fine
<1> QED  BY <1>9, <1>10, <1>11, <1>12 DEF Settled

\* Everything is drawn anew, without a bar.
LEMMA RedrawIs ==
  ASSUME NEW t \in Screens, t.start <= SCROLL_HISTORY_LINES, NEW u, u = redraw(t)
  PROVE  /\ u \in Screens
         /\ u.cell = t.cell /\ u.amount = t.amount /\ u.start = t.start /\ u.x = t.x /\ u.y = t.y
         /\ u.rx = t.x /\ u.ry = t.y /\ u.visible = t.visible /\ u.behind = {}
         /\ Shows(u) /\ \A r \in Rows, c \in Cols : ~ HasBar(u, r, c)
<1>1. PICK fb : fb = [r \in Rows |-> [c \in Cols |-> Glyph(CellAt(t, t.start + r, c), NoBar)]]
  OBVIOUS
<1>2. u = [t EXCEPT !.fb = fb, !.rx = t.x, !.ry = t.y, !.behind = {}]
  BY <1>1 DEF redraw
<1>3. ASSUME NEW r \in Rows, NEW c \in Cols
      PROVE  /\ fb[r][c] \in Glyphs /\ fb[r][c].bar = NoBar
             /\ fb[r][c].char = CellAt(t, t.start + r, c)
  <2>1. t.start + r \in Lines
    <3>1. t.start \in Nat
      BY DEF Screens
    <3> QED  BY <3>1, RowIsLine
  <2>2. PICK char \in GlyphChars : char = CellAt(t, t.start + r, c)
    BY <2>1, CellIs
  <2>3. fb[r][c] = Glyph(char, NoBar)
    BY <1>1, <2>2
  <2>4. NoBar \in Int
    BY Sizes DEF NoBar
  <2> QED  BY <2>2, <2>3, <2>4, GlyphIs
<1>4. fb \in [Rows -> [Cols -> Glyphs]]
  <2>1. \A r \in Rows, c \in Cols : fb[r][c] \in Glyphs
    BY <1>3
  <2>2. fb = [r \in Rows |-> [c \in Cols |-> fb[r][c]]]
    BY <1>1
  <2> QED  BY <2>1, <2>2
<1>5. /\ u \in Screens /\ u.fb = fb
      /\ u.cell = t.cell /\ u.amount = t.amount /\ u.start = t.start /\ u.x = t.x /\ u.y = t.y
      /\ u.rx = t.x /\ u.ry = t.y /\ u.visible = t.visible /\ u.behind = {}
  BY <1>2, <1>4 DEF Screens
<1>6. Shows(u)
  BY <1>3, <1>5 DEF Shows, Fine, CharAt, CellAt
<1>7. \A r \in Rows, c \in Cols : ~ HasBar(u, r, c)
  BY <1>3, <1>5 DEF HasBar, BarOf
<1> QED  BY <1>5, <1>6, <1>7

\* Every cell of a line that is shown is now in the line above.
LEMMA MovedIs ==
  ASSUME NEW t \in Screens
  PROVE  /\ LinesMovedUp(t) \in [Addresses -> CellChars]
         /\ \A l \in Lines, c \in Cols :
              l < maxStoredLines - 1 /\ c < t.amount[l + 1] =>
                LinesMovedUp(t)[Place(l, c)] = t.cell[Place(l + 1, c)]
<1>1. t.cell \in [Addresses -> CellChars] /\ t.amount \in [Lines -> Amounts]
  BY DEF Screens
<1>2. ASSUME NEW l \in Lines, l < maxStoredLines - 1
      PROVE  /\ l + 1 \in Lines /\ l \in Nat /\ t.amount[l + 1] \in Nat
             /\ t.amount[l + 1] <= MAX_CHARS + MAX_INPUT
             /\ Place(l, 0) \in Nat /\ Place(l + 1, 0) = Place(l, 0) + MAX_CHARS
             /\ Place(l, 0) + MAX_CHARS + MAX_CHARS <= Place(maxStoredLines, 0)
  <2>1. l \in Nat /\ l + 1 \in Nat /\ l + 1 \in Lines /\ maxStoredLines \in Nat /\ l + 1 < maxStoredLines
    BY <1>2, Sizes DEF Lines
  <2>2. /\ Place(l, 0) \in Nat /\ Place(l + 1, 0) = Place(l, 0) + MAX_CHARS
        /\ Place(l + 1, 0) + MAX_CHARS <= Place(maxStoredLines, 0)
    BY <2>1, Bases
  <2>3. t.amount[l + 1] \in Amounts
    BY <1>1, <2>1
  <2> QED  BY <2>1, <2>2, <2>3, Sizes DEF Amounts
<1>3. ASSUME NEW a \in Addresses, NEW l \in Lines, l < maxStoredLines - 1,
             a - Place(l, 0) \in 0 .. t.amount[l + 1] - 1
      PROVE  t.cell[a + MAX_CHARS] \in CellChars
  <2>1. a \in Int /\ a >= 0
    BY AddressesAre
  <2>2. a + MAX_CHARS \in Addresses
    <3>1. PICK p \in Nat, n \in Nat, z \in Nat :
            /\ p = Place(l, 0) /\ n = t.amount[l + 1] /\ z = Place(maxStoredLines, 0)
            /\ n <= MAX_CHARS + MAX_INPUT /\ p + MAX_CHARS + MAX_CHARS <= z
      BY <1>2, <1>3, AddressesAre
    <3>2. a <= p + n - 1
      BY <1>3, <2>1, <3>1
    <3>3. a + MAX_CHARS \in 0 .. z + MAX_INPUT
      BY <2>1, <3>1, <3>2, Sizes
    <3> QED  BY <3>1, <3>3, AddressesAre
  <2> QED  BY <1>1, <2>2
<1>4. LinesMovedUp(t) \in [Addresses -> CellChars]
  <2>1. ASSUME NEW a \in Addresses
        PROVE  LinesMovedUp(t)[a] \in CellChars
    BY <1>1, <1>3 DEF LinesMovedUp
  <2>2. LinesMovedUp(t) = [a \in Addresses |-> LinesMovedUp(t)[a]]
    BY DEF LinesMovedUp
  <2> QED  BY <2>1, <2>2
<1>5. ASSUME NEW l \in Lines, NEW c \in Cols, l < maxStoredLines - 1, c < t.amount[l + 1]
      PROVE  LinesMovedUp(t)[Place(l, c)] = t.cell[Place(l + 1, c)]
  <2>1. /\ Place(l, c) \in Addresses /\ Place(l, c) = Place(l, 0) + c /\ c \in Nat
    BY ColumnInside
  <2>2. Place(l + 1, c) = Place(l, 0) + MAX_CHARS + c
    <3>1. Place(l + 1, c) = Place(l + 1, 0) + c
      BY <1>2, <1>5, <2>1, PlaceIs
    <3> QED  BY <1>2, <1>5, <2>1, <3>1
  <2>3. Place(l, c) + MAX_CHARS = Place(l + 1, c)
    BY <1>2, <1>5, <2>1, <2>2, Sizes
  <2>4. Place(l, c) - Place(l, 0) \in 0 .. t.amount[l + 1] - 1
    BY <1>2, <1>5, <2>1
  <2> QED  BY <1>5, <2>1, <2>3, <2>4 DEF LinesMovedUp
<1> QED  BY <1>4, <1>5

\* What a newline does to the buffer: a line further down, or all lines up by one.
Advanced(t, u) ==
  IF t.y < maxStoredLines - 1
  THEN u.cell = t.cell /\ u.amount = t.amount /\ u.y = t.y + 1
  ELSE /\ u.cell = LinesMovedUp(t) /\ u.y = t.y
       /\ u.amount = [l \in Lines |-> IF l < maxStoredLines - 1 THEN t.amount[l + 1] ELSE 0]

LEMMA DropIs ==
  ASSUME NEW t \in Screens, t.start > 0, t.y > 0, NEW u, u = DropOldestLine(t)
  PROVE  /\ u \in Screens /\ u.x = t.x /\ u.rx = t.rx /\ u.ry = t.ry /\ u.visible = t.visible
         /\ u.fb = t.fb /\ u.behind = t.behind /\ u.start = t.start - 1 /\ u.y = t.y - 1
         /\ u.cell = LinesMovedUp(t)
         /\ u.amount = [l \in Lines |-> IF l < maxStoredLines - 1 THEN t.amount[l + 1] ELSE 0]
<1>1. PICK cell \in [Addresses -> CellChars] : cell = LinesMovedUp(t)
  BY MovedIs
<1>2. PICK amount : amount = [l \in Lines |-> IF l < maxStoredLines - 1 THEN t.amount[l + 1] ELSE 0]
  OBVIOUS
<1>3. amount \in [Lines -> Amounts]
  <2>1. ASSUME NEW l \in Lines
        PROVE  amount[l] \in Amounts
    <3>1. CASE l < maxStoredLines - 1
      <4>1. l + 1 \in Lines
        BY <3>1, Sizes DEF Lines
      <4>2. t.amount[l + 1] \in Amounts
        BY <4>1 DEF Screens
      <4> QED  BY <1>2, <3>1, <4>2
    <3>2. CASE ~ (l < maxStoredLines - 1)
      BY <1>2, <3>2, Sizes DEF Amounts
    <3> QED  BY <3>1, <3>2
  <2> QED  BY <1>2, <2>1
<1>4. PICK start \in Nat, y \in Nat : start = t.start - 1 /\ y = t.y - 1
  <2>1. t.start \in Nat /\ t.y \in Nat
    BY DEF Screens
  <2> QED  BY <2>1
<1>5. u = [t EXCEPT !.cell = cell, !.amount = amount, !.start = start, !.y = y]
  <2>1. u = [t EXCEPT !.cell = LinesMovedUp(t),
                      !.amount = [l \in Lines |-> IF l < maxStoredLines - 1 THEN t.amount[l + 1] ELSE 0],
                      !.start = IF t.start > 0 THEN t.start - 1 ELSE t.start,
                      !.y = t.y - 1]
    BY DEF DropOldestLine, Screens
  <2>2. (IF t.start > 0 THEN t.start - 1 ELSE t.start) = start
    BY <1>4
  <2> QED  BY <1>1, <1>2, <1>4, <2>1, <2>2
<1> QED  BY <1>1, <1>2, <1>3, <1>4, <1>5 DEF Screens

LEMMA PlacedIs ==
  ASSUME NEW t \in Screens, NEW x \in Int, NEW y \in Nat, NEW u, u = [t EXCEPT !.x = x, !.y = y]
  PROVE  u \in Screens
BY DEF Screens

LEMMA ColumnSetIs ==
  ASSUME NEW t \in Screens, NEW x \in Int, NEW u, u = [t EXCEPT !.x = x]
  PROVE  /\ u \in Screens /\ u.cell = t.cell /\ u.amount = t.amount /\ u.start = t.start
         /\ u.x = x /\ u.y = t.y /\ u.rx = t.rx /\ u.ry = t.ry /\ u.visible = t.visible
         /\ u.fb = t.fb /\ u.behind = t.behind
BY DEF Screens

LEMMA NewlineIs ==
  ASSUME NEW t, Settled(t), NEW u, u = newline(t)
  PROVE  Settled(u) /\ u.x = 0 /\ u.y > u.start /\ Advanced(t, u)
<1>1. /\ t \in Screens /\ t.y \in Nat /\ t.start \in Nat /\ t.y < maxStoredLines
      /\ t.start <= SCROLL_HISTORY_LINES /\ t.start <= t.y /\ t.y < t.start + MAX_LINES
  BY Sizes DEF Settled, Screens, OnScreen, Lines
<1>2. PICK a : a = [t EXCEPT !.x = 0, !.y = @ + 1]
  OBVIOUS
<1>3. /\ a \in Screens /\ a.cell = t.cell /\ a.amount = t.amount /\ a.start = t.start
      /\ a.x = 0 /\ a.y = t.y + 1
      /\ a.rx = t.rx /\ a.ry = t.ry /\ a.visible = t.visible /\ a.fb = t.fb
      /\ a.behind = t.behind
  <2>1. PICK y \in Nat : y = t.y + 1
    BY <1>1
  <2>2. a = [t EXCEPT !.x = 0, !.y = y]
    BY <1>1, <1>2, <2>1 DEF Screens
  <2>3. /\ a.cell = t.cell /\ a.amount = t.amount /\ a.start = t.start /\ a.x = 0 /\ a.y = y
        /\ a.rx = t.rx /\ a.ry = t.ry /\ a.visible = t.visible /\ a.fb = t.fb
        /\ a.behind = t.behind
    BY <1>1, <2>2 DEF Screens
  <2>4. a \in Screens
    <3>1. PICK x \in Int : x = 0
      OBVIOUS
    <3>2. a = [t EXCEPT !.x = x, !.y = y]
      BY <2>2, <3>1
    <3> QED  BY <1>1, <3>2, PlacedIs
  <2> QED  BY <2>1, <2>3, <2>4
<1>4. PICK b : b = IF a.y >= maxStoredLines THEN DropOldestLine(a) ELSE a
  OBVIOUS
<1>5. u = update_cursor_render(ShiftLinesUp(b))
  BY <1>2, <1>4 DEF newline, handle_scroll
<1>6. /\ b \in Screens /\ b.x = 0 /\ b.rx = t.rx /\ b.ry = t.ry /\ b.visible = t.visible
      /\ b.fb = t.fb /\ b.behind = t.behind /\ Advanced(t, b)
      /\ b.start = IF t.y < maxStoredLines - 1 THEN t.start ELSE t.start - 1
  <2>1. CASE t.y < maxStoredLines - 1
    <3>1. b = a
      BY <1>1, <1>3, <1>4, <2>1, Sizes
    <3> QED  BY <1>3, <2>1, <3>1 DEF Advanced
  <2>2. CASE ~ (t.y < maxStoredLines - 1)
    <3>1. t.start = SCROLL_HISTORY_LINES /\ a.y >= maxStoredLines /\ t.start > 0
      BY <1>1, <1>3, <2>2, Sizes
    <3>2. b = DropOldestLine(a) /\ a.start > 0 /\ a.y > 0
      BY <1>1, <1>3, <1>4, <3>1
    <3>3. /\ b \in Screens /\ b.x = a.x /\ b.rx = a.rx /\ b.ry = a.ry /\ b.visible = a.visible
          /\ b.fb = a.fb /\ b.behind = a.behind /\ b.start = a.start - 1 /\ b.y = a.y - 1
          /\ b.cell = LinesMovedUp(a)
          /\ b.amount = [l \in Lines |-> IF l < maxStoredLines - 1 THEN a.amount[l + 1] ELSE 0]
      BY <1>3, <3>2, DropIs
    <3>4. LinesMovedUp(a) = LinesMovedUp(t)
      BY <1>3 DEF LinesMovedUp
    <3>5. b.y = t.y
      BY <1>1, <1>3, <3>3
    <3> QED  BY <1>3, <2>2, <3>3, <3>4, <3>5 DEF Advanced
  <2> QED  BY <2>1, <2>2
<1>7. PICK d : d = ShiftLinesUp(b)
  OBVIOUS
<1>8. /\ d \in Screens /\ d.x = 0 /\ d.cell = b.cell /\ d.amount = b.amount /\ d.y = b.y
      /\ d.y > d.start
      /\ OnScreen(d) /\ d.ry \in Lines /\ Shows(d) /\ BarsAt(d)
  <2>1. b.y \in Nat /\ b.start \in Nat /\ b.y = IF t.y < maxStoredLines - 1 THEN t.y + 1 ELSE t.y
    BY <1>6 DEF Screens, Advanced
  <2>2. CASE b.y >= b.start + MAX_LINES
    <3>1. PICK c : c = [b EXCEPT !.start = @ + 1]
      OBVIOUS
    <3>2. /\ c \in Screens /\ c.cell = b.cell /\ c.amount = b.amount
          /\ c.start = b.start + 1 /\ c.x = 0 /\ c.y = b.y
      <4>1. PICK start \in Nat : start = b.start + 1
        BY <2>1
      <4>2. c = [b EXCEPT !.start = start]
        BY <1>6, <3>1, <4>1 DEF Screens
      <4> QED  BY <1>6, <4>1, <4>2 DEF Screens
    <3>3. d = redraw(c)
      BY <1>7, <2>2, <3>1 DEF ShiftLinesUp
    <3>4. c.start <= SCROLL_HISTORY_LINES /\ c.start <= c.y /\ c.y < c.start + MAX_LINES
          /\ c.y > c.start
      BY <1>1, <1>6, <2>1, <2>2, <3>2, Sizes
    <3>5. /\ d \in Screens /\ d.cell = c.cell /\ d.amount = c.amount
          /\ d.start = c.start /\ d.x = c.x /\ d.y = c.y
          /\ d.ry = c.y /\ Shows(d) /\ \A r \in Rows, k \in Cols : ~ HasBar(d, r, k)
      BY <3>2, <3>3, <3>4, RedrawIs
    <3>6. OnScreen(d)
      BY <3>4, <3>5 DEF OnScreen
    <3>7. BarsAt(d) /\ d.ry \in Lines
      BY <3>5, <3>6, LineIs DEF BarsAt
    <3> QED  BY <3>2, <3>4, <3>5, <3>6, <3>7
  <2>3. CASE ~ (b.y >= b.start + MAX_LINES)
    <3>1. d = b
      BY <1>7, <2>3 DEF ShiftLinesUp
    <3>2. t.y < maxStoredLines - 1
      BY <1>1, <1>6, <2>1, <2>3, Sizes
    <3>3. b.cell = t.cell /\ b.amount = t.amount /\ b.start = t.start
      BY <1>6, <3>2 DEF Advanced
    <3>4. b.y > b.start
      BY <1>1, <2>1, <3>2, <3>3
    <3>5. OnScreen(b)
      BY <1>1, <2>1, <2>3, <3>2, <3>3, <3>4, Sizes DEF OnScreen
    <3>6. b.ry \in Lines
      BY <1>1, <1>6, LineIs DEF Settled
    <3>7. BarsAt(b)
      BY <1>6, <3>3 DEF Settled, BarsAt, HasBar, BarOf
    <3>8. Shows(b)
      BY <1>6, <3>3 DEF Settled, Shows, Fine, CharAt, CellAt
    <3> QED  BY <1>6, <3>1, <3>4, <3>5, <3>6, <3>7, <3>8
  <2> QED  BY <2>2, <2>3
<1>9. u = update_cursor_render(d)
  BY <1>5, <1>7
<1>10. Settled(u) /\ SameBuffer(d, u)
  BY <1>8, <1>9, CursorIs
<1> QED  BY <1>6, <1>8, <1>10 DEF Advanced, SameBuffer

\* u is t with line l drawn anew, without a bar.
LineDrawn(t, l, u) ==
  /\ u \in Screens /\ SameButFb(t, u)
  /\ \A r \in Rows, c \in Cols :
       /\ r = l - t.start => CharAt(u, r, c) = CellAt(t, l, c) /\ ~ HasBar(u, r, c)
       /\ r # l - t.start => CharAt(u, r, c) = CharAt(t, r, c) /\ BarOf(u, r, c) = BarOf(t, r, c)

LEMMA RedrawLineIs ==
  ASSUME NEW t \in Screens, NEW l \in Lines, NEW u, u = redraw_line(t, l)
  PROVE  LineDrawn(t, l, u)
<1>1. CASE l - t.start \notin Rows
  <2>1. u = t
    BY <1>1 DEF redraw_line
  <2> QED  BY <1>1, <2>1 DEF LineDrawn, SameButFb
<1>2. CASE l - t.start \in Rows
  <2>1. PICK r0 \in Rows : r0 = l - t.start
    BY <1>2
  <2>2. PICK line : line = [c \in Cols |-> Glyph(CellAt(t, l, c), NoBar)]
    OBVIOUS
  <2>3. ASSUME NEW c \in Cols
        PROVE  line[c] \in Glyphs /\ line[c].char = CellAt(t, l, c) /\ line[c].bar = NoBar
    <3>1. PICK char \in GlyphChars : char = CellAt(t, l, c)
      BY CellIs
    <3>2. line[c] = Glyph(char, NoBar)
      BY <2>2, <3>1
    <3>3. NoBar \in Int
      BY Sizes DEF NoBar
    <3> QED  BY <3>1, <3>2, <3>3, GlyphIs
  <2>4. line \in [Cols -> Glyphs]
    BY <2>2, <2>3
  <2>5. PICK fb : fb = [t.fb EXCEPT ![r0] = line]
    OBVIOUS
  <2>6. /\ fb \in [Rows -> [Cols -> Glyphs]]
        /\ \A r \in Rows, c \in Cols : fb[r][c] = IF r = r0 THEN line[c] ELSE t.fb[r][c]
    BY <2>1, <2>4, <2>5 DEF Screens
  <2>7. u = [t EXCEPT !.fb = fb]
    BY <1>2, <2>1, <2>2, <2>5 DEF redraw_line
  <2>8. u \in Screens /\ SameButFb(t, u) /\ u.fb = fb
    BY <2>6, <2>7, FbIs
  <2>9. ASSUME NEW r \in Rows, NEW c \in Cols
        PROVE  /\ r = r0 => CharAt(u, r, c) = CellAt(t, l, c) /\ ~ HasBar(u, r, c)
               /\ r # r0 => CharAt(u, r, c) = CharAt(t, r, c) /\ BarOf(u, r, c) = BarOf(t, r, c)
    <3>1. CASE r = r0
      <4>1. u.fb[r][c] = line[c]
        BY <2>6, <2>8, <3>1
      <4> QED  BY <2>3, <3>1, <4>1 DEF CharAt, HasBar, BarOf
    <3>2. CASE r # r0
      <4>1. u.fb[r][c] = t.fb[r][c]
        BY <2>6, <2>8, <3>2
      <4> QED  BY <3>2, <4>1 DEF CharAt, BarOf
    <3> QED  BY <3>1, <3>2
  <2> QED  BY <2>1, <2>8, <2>9 DEF LineDrawn
<1> QED  BY <1>1, <1>2

(* The buffer and the transcript. *)

\* Cells that the cursor has skipped are still as the boot has left them.
BootLeft(t) ==
  \A r \in Rows, c \in Cols :
    r = t.y - t.start /\ t.amount[t.y] <= c /\ c < t.x => CharAt(t, r, c) \in {Boot, Smeared}

\* The lines up to the cursor are the last of lines, those below it are empty.
Holds(t, lines) ==
  /\ lines \in Seq(ShownLines) /\ Len(lines) > t.y
  /\ \A l \in 0 .. t.y : Shown(t, l) = lines[Len(lines) - t.y + l]
  /\ \A l \in Lines : l > t.y => t.amount[l] = 0

Kept(t, lines) == Settled(t) /\ BootLeft(t) /\ Holds(t, lines)

LEMMA ShownIs ==
  ASSUME NEW t \in Screens, NEW l \in Lines
  PROVE  Shown(t, l) \in ShownLines
BY CellIs DEF Shown, ShownLines

LEMMA ShownSame ==
  ASSUME NEW t, NEW u, u.cell = t.cell, u.amount = t.amount
  PROVE  /\ \A l, c : CellAt(u, l, c) = CellAt(t, l, c)
         /\ \A l : Shown(u, l) = Shown(t, l)
BY DEF Shown, CellAt

LEMMA EmptyShown ==
  ASSUME NEW t, NEW l, t.amount[l] = 0
  PROVE  /\ \A c \in Cols : CellAt(t, l, c) = Blank
         /\ Shown(t, l) = NewLine
<1>1. \A c \in Cols : CellAt(t, l, c) = Blank
  <2>1. \A c \in Cols : ~ (c < 0)
    BY Sizes DEF Cols
  <2> QED  BY <2>1 DEF CellAt
<1> QED  BY <1>1 DEF Shown, NewLine

LEMMA KeptFacts ==
  ASSUME NEW t, NEW lines, Kept(t, lines)
  PROVE  /\ t \in Screens /\ t.y \in Lines /\ t.y \in Nat /\ t.y < maxStoredLines
         /\ maxStoredLines \in Nat
         /\ t.cell \in [Addresses -> CellChars] /\ t.amount \in [Lines -> Amounts]
         /\ t.x \in Int /\ t.start \in Nat /\ t.rx = t.x /\ t.ry = t.y /\ OnScreen(t)
         /\ t.visible \in BOOLEAN
         /\ lines \in Seq(ShownLines) /\ Len(lines) \in Nat /\ Len(lines) > t.y
         /\ \A l \in 0 .. t.y : l \in Lines
<1>1. t \in Screens /\ t.y \in Lines /\ t.rx = t.x /\ t.ry = t.y /\ OnScreen(t)
  BY LineIs DEF Kept, Settled
<1>2. lines \in Seq(ShownLines) /\ Len(lines) > t.y
  BY DEF Kept, Holds
<1>3. t.y \in Nat /\ t.y < maxStoredLines /\ maxStoredLines \in Nat
  BY <1>1, Sizes DEF Lines
<1>4. \A l \in 0 .. t.y : l \in Lines
  BY <1>3 DEF Lines
<1>5. /\ t.cell \in [Addresses -> CellChars] /\ t.amount \in [Lines -> Amounts]
      /\ t.x \in Int /\ t.start \in Nat /\ t.visible \in BOOLEAN
  BY <1>1 DEF Screens
<1>6. Len(lines) \in Nat
  BY <1>2
<1> QED  BY <1>1, <1>2, <1>3, <1>4, <1>5, <1>6

\* lines with one more, empty line.
OneMore(lines, more) ==
  /\ more \in Seq(ShownLines) /\ Len(more) = Len(lines) + 1
  /\ \A i \in 1 .. Len(lines) : more[i] = lines[i]
  /\ more[Len(lines) + 1] = NewLine

LEMMA OneMoreIs ==
  ASSUME NEW lines \in Seq(ShownLines)
  PROVE  OneMore(lines, lines \o <<NewLine>>) /\ OneMore(lines, Append(lines, NewLine))
<1>1. PICK e \in ShownLines : e = NewLine
  BY DEF ShownLines, NewLine, GlyphChars
<1>2. OneMore(lines, lines \o <<e>>)
  <2>1. /\ lines \o <<e>> \in Seq(ShownLines) /\ Len(lines \o <<e>>) = Len(lines) + 1
        /\ \A i \in 1 .. Len(lines) : (lines \o <<e>>)[i] = lines[i]
        /\ (lines \o <<e>>)[Len(lines) + 1] = e
    OBVIOUS
  <2> QED  BY <1>1, <2>1, Zenon DEF OneMore
<1>3. OneMore(lines, Append(lines, e))
  <2>1. /\ Append(lines, e) \in Seq(ShownLines) /\ Len(Append(lines, e)) = Len(lines) + 1
        /\ \A i \in 1 .. Len(lines) : Append(lines, e)[i] = lines[i]
        /\ Append(lines, e)[Len(lines) + 1] = e
    OBVIOUS
  <2> QED  BY <1>1, <2>1, Zenon DEF OneMore
<1> QED  BY <1>1, <1>2, <1>3

LEMMA IndexIs ==
  ASSUME NEW n \in Nat, NEW y \in Nat, n > y, NEW l \in 0 .. y
  PROVE  /\ n - y + l \in 1 .. n /\ y - n + (n - y + l) = l
         /\ (n + 1) - (y + 1) + l = n - y + l
         /\ \A k \in Int : k + 1 = l => (n + 1) - y + k = n - y + l
<1>1. PICK k \in Nat, m \in Nat : k = l /\ k <= y /\ n = y + m + 1
  <2>1. n - y - 1 \in Nat /\ n = y + (n - y - 1) + 1
    OBVIOUS
  <2> QED  BY <2>1
<1> QED  BY <1>1

\* After a newline every line shown is one further up in the transcript.
LEMMA NewlineKeeps ==
  ASSUME NEW t, NEW lines, Kept(t, lines), NEW more, OneMore(lines, more),
         NEW u, u = newline(t)
  PROVE  /\ Kept(u, more) /\ u.x = 0 /\ u.amount[u.y] = 0 /\ u.y > u.start
         /\ u.y = t.y + 1 \/ u.y = maxStoredLines - 1
<1>1. Settled(u) /\ u.x = 0 /\ u.y > u.start /\ Advanced(t, u)
  BY NewlineIs DEF Kept
<1>2. /\ t \in Screens /\ t.y \in Lines /\ t.y \in Nat /\ t.y < maxStoredLines
      /\ maxStoredLines \in Nat /\ t.amount \in [Lines -> Amounts]
      /\ Len(lines) \in Nat /\ Len(lines) > t.y /\ \A l \in 0 .. t.y : l \in Lines
  BY KeptFacts
<1>3. /\ \A l \in 0 .. t.y : Shown(t, l) = lines[Len(lines) - t.y + l]
      /\ \A l \in Lines : l > t.y => t.amount[l] = 0
  BY DEF Kept, Holds
<1>4. /\ more \in Seq(ShownLines) /\ Len(more) = Len(lines) + 1
      /\ \A i \in 1 .. Len(lines) : more[i] = lines[i]
      /\ more[Len(lines) + 1] = NewLine
  BY DEF OneMore
<1>5. /\ Holds(u, more) /\ u.amount[u.y] = 0
      /\ u.y = t.y + 1 \/ u.y = maxStoredLines - 1
  <2>1. CASE t.y < maxStoredLines - 1
    <3>1. u.cell = t.cell /\ u.amount = t.amount /\ u.y = t.y + 1
      BY <1>1, <2>1 DEF Advanced
    <3>2. u.y \in Lines /\ u.amount[u.y] = 0
      <4>1. t.y + 1 \in Lines /\ t.y + 1 > t.y
        BY <1>2, <2>1 DEF Lines
      <4> QED  BY <1>3, <3>1, <4>1
    <3>3. \A l : Shown(u, l) = Shown(t, l)
      BY <3>1, ShownSame
    <3>4. ASSUME NEW l \in 0 .. u.y
          PROVE  Shown(u, l) = more[Len(more) - u.y + l]
      <4>1. CASE l = u.y
        <5>1. Shown(u, l) = NewLine
          BY <3>2, <4>1, EmptyShown
        <5>2. Len(more) - u.y + l = Len(lines) + 1
          BY <1>2, <1>4, <3>1, <4>1
        <5> QED  BY <1>4, <5>1, <5>2
      <4>2. CASE l # u.y
        <5>1. l \in 0 .. t.y
          BY <1>2, <3>1, <4>2
        <5>2. Len(lines) - t.y + l \in 1 .. Len(lines) /\ Len(more) - u.y + l = Len(lines) - t.y + l
          <6>1. Len(lines) - t.y + l \in 1 .. Len(lines)
                /\ (Len(lines) + 1) - (t.y + 1) + l = Len(lines) - t.y + l
            BY <1>2, <5>1, IndexIs
          <6> QED  BY <1>4, <3>1, <6>1
        <5> QED  BY <1>3, <1>4, <3>3, <5>1, <5>2
      <4> QED  BY <4>1, <4>2
    <3>5. \A l \in Lines : l > u.y => u.amount[l] = 0
      BY <1>2, <1>3, <3>1 DEF Lines
    <3>6. Len(more) > u.y
      BY <1>2, <1>4, <3>1
    <3> QED  BY <1>4, <3>1, <3>2, <3>4, <3>5, <3>6 DEF Holds
  <2>2. CASE ~ (t.y < maxStoredLines - 1)
    <3>1. /\ u.cell = LinesMovedUp(t) /\ u.y = t.y /\ t.y = maxStoredLines - 1
          /\ u.amount = [l \in Lines |-> IF l < maxStoredLines - 1 THEN t.amount[l + 1] ELSE 0]
      <4>1. t.y = maxStoredLines - 1
        BY <1>2, <2>2
      <4> QED  BY <1>1, <2>2, <4>1 DEF Advanced
    <3>2. u.amount[u.y] = 0
      BY <1>2, <3>1
    <3>3. ASSUME NEW l \in Lines, l < maxStoredLines - 1
          PROVE  Shown(u, l) = Shown(t, l + 1)
      <4>1. ASSUME NEW c \in Cols
            PROVE  CellAt(u, l, c) = CellAt(t, l + 1, c)
        <5>1. u.amount[l] = t.amount[l + 1]
          BY <3>1, <3>3
        <5>2. c < t.amount[l + 1] => LinesMovedUp(t)[Place(l, c)] = t.cell[Place(l + 1, c)]
          BY <1>2, <3>3, MovedIs
        <5> QED  BY <3>1, <5>1, <5>2 DEF CellAt
      <4> QED  BY <4>1 DEF Shown
    <3>4. ASSUME NEW l \in 0 .. u.y
          PROVE  Shown(u, l) = more[Len(more) - u.y + l]
      <4>0. l \in Lines
        BY <1>2, <3>1
      <4>1. CASE l = u.y
        <5>1. Shown(u, l) = NewLine
          BY <3>2, <4>1, EmptyShown
        <5>2. Len(more) - u.y + l = Len(lines) + 1
          BY <1>2, <1>4, <3>1, <4>1
        <5> QED  BY <1>4, <5>1, <5>2
      <4>2. CASE l # u.y
        <5>1. l < maxStoredLines - 1 /\ l + 1 \in 0 .. t.y
          BY <1>2, <3>1, <4>2
        <5>2. Len(lines) - t.y + (l + 1) \in 1 .. Len(lines)
              /\ Len(more) - u.y + l = Len(lines) - t.y + (l + 1)
          <6>1. PICK k \in 0 .. t.y : k = l + 1
            BY <5>1
          <6>2. Len(lines) - t.y + k \in 1 .. Len(lines)
                /\ (Len(lines) + 1) - t.y + l = Len(lines) - t.y + k
            BY <1>2, <6>1, IndexIs
          <6> QED  BY <1>4, <3>1, <6>1, <6>2
        <5>3. Shown(u, l) = Shown(t, l + 1)
          BY <3>3, <4>0, <5>1
        <5> QED  BY <1>3, <1>4, <5>1, <5>2, <5>3
      <4> QED  BY <4>1, <4>2
    <3>5. \A l \in Lines : ~ (l > u.y)
      BY <1>2, <3>1 DEF Lines
    <3>6. Len(more) > u.y
      BY <1>2, <1>4, <3>1
    <3> QED  BY <1>4, <3>1, <3>2, <3>4, <3>5, <3>6 DEF Holds
  <2> QED  BY <2>1, <2>2
<1>6. BootLeft(u)
  <2>1. \A c \in Cols : ~ (c < u.x)
    BY <1>1, Sizes DEF Cols
  <2> QED  BY <2>1 DEF BootLeft
<1> QED  BY <1>1, <1>5, <1>6 DEF Kept

\* Where the lines of a set are read again, the transcript still holds.
LEMMA WrittenHolds ==
  ASSUME Kept(s, transcript), NEW t \in Screens, t.y = s.y, NEW lines,
         \A l \in 0 .. s.y : l \notin lines => Shown(t, l) = Shown(s, l),
         \A l \in Lines : l > s.y => t.amount[l] = 0,
         \A l \in lines : l \in Lines
  PROVE  Holds(t, Written(t, lines))
<1>1. /\ s.y \in Nat /\ transcript \in Seq(ShownLines) /\ Len(transcript) \in Nat
      /\ Len(transcript) > s.y /\ \A l \in 0 .. s.y : l \in Lines
  BY KeptFacts
<1>2. \A l \in 0 .. s.y : Shown(s, l) = transcript[Len(transcript) - s.y + l]
  BY DEF Kept, Holds
<1>3. PICK n \in Nat, y \in Nat : n = Len(transcript) /\ y = s.y /\ n > y
  BY <1>1
<1>4. PICK new : new = [i \in 1 .. n |-> IF y - n + i \in lines THEN Shown(t, y - n + i)
                                        ELSE transcript[i]]
  OBVIOUS
<1>5. Written(t, lines) = new
  <2>1. DOMAIN transcript = 1 .. n
    BY <1>1, <1>3
  <2> QED  BY <1>3, <1>4, <2>1 DEF Written
<1>6. new \in Seq(ShownLines) /\ Len(new) = n
  <2>1. ASSUME NEW i \in 1 .. n
        PROVE  new[i] \in ShownLines
    <3>1. CASE y - n + i \in lines
      <4>1. Shown(t, y - n + i) \in ShownLines
        BY <3>1, ShownIs
      <4> QED  BY <1>4, <3>1, <4>1
    <3>2. CASE y - n + i \notin lines
      <4>1. transcript[i] \in ShownLines
        BY <1>1, <1>3
      <4> QED  BY <1>4, <3>2, <4>1
    <3> QED  BY <3>1, <3>2
  <2>2. new \in [1 .. n -> ShownLines]
    BY <1>4, <2>1
  <2> QED  BY <2>2
<1>7. ASSUME NEW l \in 0 .. y
      PROVE  Shown(t, l) = new[n - y + l]
  <2>1. n - y + l \in 1 .. n /\ y - n + (n - y + l) = l
    BY <1>3, IndexIs
  <2>2. new[n - y + l] = IF l \in lines THEN Shown(t, l) ELSE transcript[n - y + l]
    BY <1>4, <2>1
  <2> QED  BY <1>2, <1>3, <2>2
<1> QED  BY <1>3, <1>5, <1>6, <1>7 DEF Holds

(* The cursor's column and the input line. *)

Inputs ==
  [phase : {"print", "input"}, start : Cols, pos : Nat, length : Nat, todo : Nat]

\* The column the first character of the input has, left of the screen when it is in a
\* line above.
Home(t, in) == t.x - (in.pos - in.todo)

\* The positions in the input fit.
Counted(in) ==
  /\ in \in Inputs /\ in.pos <= in.length /\ in.length <= MAX_INPUT
  /\ in.todo > 0 => in.pos = in.length /\ in.todo <= in.length /\ in.phase = "input"

\* What is printed is printed at the end of a line; the line edited ends with the input,
\* and its first character is in the buffer and on the screen, if not in the first row.
AtEnd(t) == 0 <= t.x /\ t.x < MAX_CHARS /\ t.amount[t.y] <= t.x
Placed(t, in) ==
  /\ Counted(in)
  /\ in.phase = "print" \/ in.todo > 0 => AtEnd(t)
  /\ in.phase = "input" =>
       /\ Home(t, in) <= in.start /\ 0 <= Place(t.y, 0) + Home(t, in)
       /\ 0 <= Home(t, in) \/ t.y > t.start
       /\ in.todo = 0 => t.amount[t.y] = t.x + in.length - in.pos

Good(t, in, lines) == Kept(t, lines) /\ Placed(t, in)

\* The cursor is moved, after its line has been drawn anew or not.
LEMMA CursorKeeps ==
  ASSUME NEW t \in Screens, OnScreen(t), t.ry \in Lines, Shows(t), BarsAt(t),
         t.x <= t.amount[t.y], NEW lines, Holds(t, lines),
         NEW u, u = update_cursor_render(t)
  PROVE  Kept(u, lines) /\ SameBuffer(t, u)
<1>1. Settled(u) /\ SameBuffer(t, u)
  BY CursorIs
<1>2. BootLeft(u)
  <2>1. t.y \in Lines /\ t.x \in Int /\ t.amount[t.y] \in Amounts
    <3>1. t.y \in Lines
      BY LineIs
    <3> QED  BY <3>1 DEF Screens
  <2>2. ASSUME NEW c \in Cols
        PROVE  ~ (t.amount[t.y] <= c /\ c < t.x)
    BY <2>1, Sizes DEF Cols, Amounts
  <2> QED  BY <1>1, <2>2 DEF BootLeft, SameBuffer
<1>3. Holds(u, lines)
  <2>1. u.cell = t.cell /\ u.amount = t.amount /\ u.y = t.y
    BY <1>1 DEF SameBuffer
  <2>2. \A l : Shown(u, l) = Shown(t, l)
    BY <2>1, ShownSame
  <2> QED  BY <2>1, <2>2 DEF Holds
<1> QED  BY <1>1, <1>2, <1>3 DEF Kept

\* t is the screen with the cursor's line edited; only lines are shown otherwise, and
\* those above the cursor's are behind.
Edited(t, lines) ==
  /\ t \in Screens
  /\ t.start = s.start /\ t.x = s.x /\ t.y = s.y /\ t.rx = s.rx /\ t.ry = s.ry
  /\ t.visible = s.visible /\ t.fb = s.fb
  /\ \A l \in Lines : l # s.y => t.amount[l] = s.amount[l]
  /\ \A l \in lines : l \in Lines /\ (l >= s.y \/ l \in t.behind)
  /\ \A l \in Lines : l <= s.y /\ l \notin lines => Shown(t, l) = Shown(s, l)
  /\ \A l \in s.behind : l \in t.behind

LEMMA EditKeeps ==
  ASSUME Kept(s, transcript), NEW t, NEW lines, Edited(t, lines), NEW x \in Int,
         x < 0 => s.y > s.start, x <= t.amount[s.y],
         NEW u, u = redraw_edited(t, x)
  PROVE  /\ Kept(u, Written(t, lines))
         /\ u.x = x /\ u.y = s.y /\ u.start = s.start /\ u.amount = t.amount
<1>1. /\ s \in Screens /\ s.y \in Lines /\ s.y \in Nat /\ s.start \in Nat
      /\ s.ry = s.y /\ OnScreen(s) /\ \A l \in 0 .. s.y : l \in Lines
  BY KeptFacts
<1>2. /\ t \in Screens
      /\ t.start = s.start /\ t.x = s.x /\ t.y = s.y /\ t.rx = s.rx /\ t.ry = s.ry
      /\ t.visible = s.visible /\ t.fb = s.fb
  BY DEF Edited
<1>3. PICK d : d = redraw_line(t, t.y)
  OBVIOUS
<1>4. LineDrawn(t, s.y, d)
  BY <1>1, <1>2, <1>3, RedrawLineIs
<1>5. d \in Screens /\ SameButFb(t, d)
  BY <1>4 DEF LineDrawn
<1>6. PICK e : e = [d EXCEPT !.x = x, !.behind = t.behind \ {s.y}]
  OBVIOUS
<1>7. /\ e \in Screens /\ e.cell = t.cell /\ e.amount = t.amount /\ e.start = s.start
      /\ e.x = x /\ e.y = s.y /\ e.rx = s.rx /\ e.ry = s.ry /\ e.visible = s.visible
      /\ e.fb = d.fb /\ e.behind = t.behind \ {s.y}
  <2>1. PICK b \in SUBSET Lines : b = t.behind \ {s.y}
    BY <1>2 DEF Screens
  <2>2. e = [d EXCEPT !.x = x, !.behind = b]
    BY <1>6, <2>1
  <2>3. e \in Screens
    BY <1>5, <2>2 DEF Screens
  <2>4. /\ e.cell = d.cell /\ e.amount = d.amount /\ e.start = d.start
        /\ e.x = x /\ e.y = d.y /\ e.rx = d.rx /\ e.ry = d.ry /\ e.visible = d.visible
        /\ e.fb = d.fb /\ e.behind = b
    BY <1>5, <2>2 DEF Screens
  <2> QED  BY <1>2, <1>5, <2>1, <2>3, <2>4 DEF SameButFb
<1>8. u = update_cursor_render(e)
  <2>1. d.behind = t.behind /\ t.y = s.y
    BY <1>2, <1>5 DEF SameButFb
  <2>2. u = update_cursor_render([d EXCEPT !.x = x, !.behind = d.behind \ {t.y}])
    BY <1>3 DEF redraw_edited
  <2> QED  BY <1>6, <2>1, <2>2
<1>9. OnScreen(e) /\ e.ry \in Lines
  BY <1>1, <1>7 DEF OnScreen
<1>10. Shows(e)
  <2> SUFFICES ASSUME NEW r \in Rows, NEW c \in Cols, s.start + r \notin t.behind \ {s.y}
               PROVE  CharAt(d, r, c) \in {CellAt(t, s.start + r, c), Boot, Smeared}
    BY <1>7 DEF Shows, Fine, CharAt, CellAt
  <2>1. CASE r = s.y - s.start
    <3>1. s.start + r = s.y
      BY <1>1, <2>1, BackToLine
    <3>2. CharAt(d, r, c) = CellAt(t, s.y, c)
      BY <1>2, <1>4, <2>1 DEF LineDrawn
    <3> QED  BY <3>1, <3>2
  <2>2. CASE r # s.y - s.start
    <3>1. PICK l \in Lines : l = s.start + r /\ l # s.y
      <4>1. s.start <= SCROLL_HISTORY_LINES
        BY <1>1 DEF OnScreen
      <4> QED  BY <1>1, <2>2, <4>1, RowIsLine
    <3>2. l \notin t.behind /\ l \notin s.behind
      BY <3>1 DEF Edited
    <3>3. CharAt(s, r, c) \in {CellAt(s, l, c), Boot, Smeared}
      BY <3>1, <3>2 DEF Kept, Settled, Shows, Fine
    <3>4. CharAt(d, r, c) = CharAt(s, r, c)
      BY <1>2, <1>4, <2>2 DEF LineDrawn, CharAt
    <3>5. CellAt(t, l, c) = CellAt(s, l, c)
      <4>1. CASE l <= s.y
        <5>1. l \notin lines
          <6>1. ~ (l >= s.y)
            BY <1>1, <3>1, <4>1 DEF Lines
          <6> QED  BY <3>2, <6>1 DEF Edited
        <5>2. Shown(t, l) = Shown(s, l)
          BY <4>1, <5>1 DEF Edited
        <5> QED  BY <5>2 DEF Shown
      <4>2. CASE ~ (l <= s.y)
        <5>1. l > s.y
          BY <1>1, <4>2 DEF Lines
        <5>2. s.amount[l] = 0 /\ t.amount[l] = 0
          BY <3>1, <5>1 DEF Kept, Holds, Edited
        <5> QED  BY <5>2, EmptyShown
      <4> QED  BY <4>1, <4>2
    <3> QED  BY <3>1, <3>3, <3>4, <3>5
  <2> QED  BY <2>1, <2>2
<1>11. BarsAt(e)
  <2> SUFFICES ASSUME NEW r \in Rows, NEW c \in Cols, HasBar(e, r, c)
               PROVE  FALSE
    BY DEF BarsAt
  <2>1. HasBar(d, r, c) /\ BarOf(s, r, c) = BarOf(t, r, c)
    BY <1>2, <1>7 DEF HasBar, BarOf
  <2>2. CASE r = s.y - s.start
    BY <1>2, <1>4, <2>1, <2>2 DEF LineDrawn
  <2>3. CASE r # s.y - s.start
    <3>1. HasBar(s, r, c)
      BY <1>2, <1>4, <2>1, <2>3 DEF LineDrawn, HasBar
    <3> QED  BY <1>1, <2>3, <3>1 DEF Kept, Settled, BarsAt
  <2> QED  BY <2>2, <2>3
<1>12. Holds(t, Written(t, lines))
  <2>1. \A l \in 0 .. s.y : l \notin lines => Shown(t, l) = Shown(s, l)
    BY <1>1 DEF Edited
  <2>2. \A l \in Lines : l > s.y => t.amount[l] = 0
    BY <1>1 DEF Kept, Holds, Edited
  <2>3. \A l \in lines : l \in Lines
    BY DEF Edited
  <2> QED  BY <1>2, <2>1, <2>2, <2>3, WrittenHolds
<1>13. Holds(e, Written(t, lines))
  <2>1. \A l : Shown(e, l) = Shown(t, l)
    BY <1>7, ShownSame
  <2> QED  BY <1>2, <1>7, <1>12, <2>1 DEF Holds
<1>14. e.x <= e.amount[e.y]
  BY <1>7
<1>15. Kept(u, Written(t, lines)) /\ SameBuffer(e, u)
  BY <1>7, <1>8, <1>9, <1>10, <1>11, <1>13, <1>14, CursorKeeps
<1> QED  BY <1>7, <1>15 DEF SameBuffer

(* Printing. *)

\* The character is in the line and on the screen.
LEMMA StoreIs ==
  ASSUME Kept(s, transcript), AtEnd(s), NEW char \in Chars, NEW u, u = StoreAndDraw(s, char)
  PROVE  /\ u \in Screens /\ u.start = s.start /\ u.x = s.x /\ u.y = s.y
         /\ u.rx = s.rx /\ u.ry = s.ry /\ u.visible = s.visible /\ u.behind = s.behind
         /\ u.amount = [s.amount EXCEPT ![s.y] = s.x + 1]
         /\ Shows(u) /\ BarsAt(u) /\ Holds(u, Written(u, {s.y}))
<1>1. /\ s \in Screens /\ s.y \in Lines /\ s.y \in Nat /\ s.x \in Int /\ s.start \in Nat
      /\ s.cell \in [Addresses -> CellChars] /\ s.amount \in [Lines -> Amounts]
      /\ OnScreen(s) /\ \A l \in 0 .. s.y : l \in Lines
  BY KeptFacts
<1>2. PICK x \in Cols : x = s.x /\ x \in Nat /\ x < MAX_CHARS
  BY <1>1, Sizes DEF AtEnd, Cols
<1>3. s.amount[s.y] \in Nat /\ s.amount[s.y] <= x
  BY <1>1, <1>2 DEF AtEnd, Amounts
<1>4. PICK at \in Addresses : at = Place(s.y, x)
  BY <1>1, ColumnInside
<1>5. PICK cell : cell = [s.cell EXCEPT ![at] = char]
  OBVIOUS
<1>6. PICK amount : amount = [s.amount EXCEPT ![s.y] = x + 1]
  OBVIOUS
<1>7. /\ cell \in [Addresses -> CellChars] /\ amount \in [Lines -> Amounts]
      /\ cell[at] = char /\ \A a \in Addresses : a # at => cell[a] = s.cell[a]
      /\ amount[s.y] = x + 1 /\ \A l \in Lines : l # s.y => amount[l] = s.amount[l]
  <2>1. char \in CellChars /\ x + 1 \in Amounts
    BY <1>2, Sizes DEF CellChars, Amounts
  <2> QED  BY <1>1, <1>5, <1>6, <2>1
<1>8. PICK a : a = [s EXCEPT !.cell = cell, !.amount = amount]
  OBVIOUS
<1>9. /\ a \in Screens /\ a.cell = cell /\ a.amount = amount /\ a.start = s.start
      /\ a.x = s.x /\ a.y = s.y /\ a.rx = s.rx /\ a.ry = s.ry /\ a.visible = s.visible
      /\ a.fb = s.fb /\ a.behind = s.behind
  BY <1>1, <1>7, <1>8 DEF Screens
<1>10. u = draw_char(a, char, x, s.y)
  <2>1. (IF s.x + 1 > s.amount[s.y] THEN s.x + 1 ELSE s.amount[s.y]) = x + 1
    BY <1>2, <1>3
  <2>2. a = [s EXCEPT !.cell[at] = char, !.amount[s.y] = x + 1]
    BY <1>1, <1>5, <1>6, <1>8 DEF Screens
  <2>3. [s EXCEPT !.cell[Place(s.y, s.x)] = char,
                  !.amount[s.y] = IF s.x + 1 > @ THEN s.x + 1 ELSE @]
          = [s EXCEPT !.cell[at] = char,
                      !.amount[s.y] = IF s.x + 1 > s.amount[s.y] THEN s.x + 1 ELSE s.amount[s.y]]
    BY <1>1, <1>2, <1>4 DEF Screens
  <2>4. a = [s EXCEPT !.cell[Place(s.y, s.x)] = char,
                      !.amount[s.y] = IF s.x + 1 > @ THEN s.x + 1 ELSE @]
    BY <2>1, <2>2, <2>3
  <2> QED  BY <1>2, <2>4 DEF StoreAndDraw
<1>11. Drawn(a, char, x, s.y, u)
  <2>1. char \in GlyphChars
    BY DEF GlyphChars, CellChars
  <2>2. x \in Int
    BY <1>2
  <2> QED  BY <1>1, <1>9, <1>10, <2>1, <2>2, DrawCharIs
<1>12. /\ u \in Screens /\ u.cell = cell /\ u.amount = amount /\ u.start = s.start
       /\ u.x = s.x /\ u.y = s.y /\ u.rx = s.rx /\ u.ry = s.ry /\ u.visible = s.visible
       /\ u.behind = s.behind
  <2>1. u \in Screens /\ SameButFb(a, u)
    BY <1>11 DEF Drawn
  <2> QED  BY <1>9, <2>1 DEF SameButFb
<1>13. ASSUME NEW l \in Lines, l # s.y, NEW c \in Cols
       PROVE  CellAt(u, l, c) = CellAt(s, l, c)
  <2>1. CASE l < s.y
    <3>1. Place(l, c) \in Addresses /\ Place(l, c) # at
      <4>1. Place(l, c) \in Addresses /\ Place(l, c) \in Int
        BY ColumnInside, AddressesAre
      <4>2. Place(l, c) < Place(s.y, x)
        BY <1>1, <1>2, <2>1, PlacesApart
      <4> QED  BY <1>4, <4>1, <4>2
    <3> QED  BY <1>7, <1>12, <1>13, <3>1 DEF CellAt
  <2>2. CASE ~ (l < s.y)
    <3>1. l > s.y
      BY <1>1, <1>13, <2>2 DEF Lines
    <3>2. s.amount[l] = 0 /\ u.amount[l] = 0
      BY <1>7, <1>12, <1>13, <3>1 DEF Kept, Holds
    <3> QED  BY <3>2, EmptyShown
  <2> QED  BY <2>1, <2>2
<1>14. ASSUME NEW c \in Cols
       PROVE  /\ c = x => CellAt(u, s.y, c) = char
              /\ c # x /\ ~ (s.amount[s.y] <= c /\ c < x) => CellAt(u, s.y, c) = CellAt(s, s.y, c)
  <2>1. c \in Nat /\ Place(s.y, c) \in Addresses /\ Place(s.y, c) = Place(s.y, 0) + c
        /\ Place(s.y, 0) \in Nat
    BY <1>1, ColumnInside
  <2>2. at = Place(s.y, 0) + x
    BY <1>1, <1>4, ColumnInside
  <2>3. CASE c = x
    BY <1>2, <1>4, <1>7, <1>12, <2>3 DEF CellAt
  <2>4. CASE c # x /\ c < s.amount[s.y]
    <3>1. Place(s.y, c) # at /\ c < x + 1
      BY <1>2, <1>3, <2>1, <2>2, <2>4
    <3> QED  BY <1>7, <1>12, <2>1, <2>4, <3>1 DEF CellAt
  <2>5. CASE c # x /\ ~ (c < s.amount[s.y]) /\ ~ (s.amount[s.y] <= c /\ c < x)
    <3>1. ~ (c < x + 1)
      BY <1>2, <1>3, <2>1, <2>5
    <3> QED  BY <1>7, <1>12, <2>5, <3>1 DEF CellAt
  <2> QED  BY <2>3, <2>4, <2>5
<1>15. Shows(u)
  <2> SUFFICES ASSUME NEW r \in Rows, NEW c \in Cols, s.start + r \notin s.behind
               PROVE  CharAt(u, r, c) \in {CellAt(u, s.start + r, c), Boot, Smeared}
    BY <1>12 DEF Shows, Fine
  <2>1. CharAt(s, r, c) \in {CellAt(s, s.start + r, c), Boot, Smeared}
    BY DEF Kept, Settled, Shows, Fine
  <2>2. CharAt(a, r, c) = CharAt(s, r, c)
    BY <1>9 DEF CharAt
  <2>3. /\ r = s.y - s.start /\ c = x => CharAt(u, r, c) = char
        /\ ~ (r = s.y - s.start /\ c = x) => CharAt(u, r, c) \in {CharAt(s, r, c), Smeared}
    BY <1>9, <1>11, <2>2 DEF Drawn
  <2>4. CASE r = s.y - s.start
    <3>1. s.start + r = s.y
      BY <1>1, <2>4, BackToLine
    <3>2. CASE c = x
      BY <1>14, <2>3, <2>4, <3>1, <3>2
    <3>3. CASE c # x /\ s.amount[s.y] <= c /\ c < x
      <4>1. CharAt(s, r, c) \in {Boot, Smeared}
        BY <1>2, <2>4, <3>3 DEF Kept, BootLeft
      <4> QED  BY <2>3, <3>3, <4>1
    <3>4. CASE c # x /\ ~ (s.amount[s.y] <= c /\ c < x)
      BY <1>14, <2>1, <2>3, <3>1, <3>4
    <3> QED  BY <3>2, <3>3, <3>4
  <2>5. CASE r # s.y - s.start
    <3>1. PICK l \in Lines : l = s.start + r /\ l # s.y
      <4>1. s.start <= SCROLL_HISTORY_LINES
        BY <1>1 DEF OnScreen
      <4> QED  BY <1>1, <2>5, <4>1, RowIsLine
    <3>2. CellAt(u, l, c) = CellAt(s, l, c)
      BY <1>13, <3>1
    <3> QED  BY <2>1, <2>3, <2>5, <3>1, <3>2
  <2> QED  BY <2>4, <2>5
<1>16. BarsAt(u)
  <2> SUFFICES ASSUME NEW r \in Rows, NEW c \in Cols, HasBar(u, r, c)
               PROVE  BarOf(u, r, c) = s.rx /\ c \in Columns(s.rx) /\ r = s.ry - s.start
    BY <1>12 DEF BarsAt
  <2>1. HasBar(a, r, c) /\ BarOf(u, r, c) = BarOf(a, r, c)
    BY <1>11 DEF Drawn
  <2>2. BarOf(a, r, c) = BarOf(s, r, c)
    BY <1>9 DEF BarOf
  <2> QED  BY <2>1, <2>2 DEF Kept, Settled, BarsAt, HasBar
<1>17. Holds(u, Written(u, {s.y}))
  <2>1. \A l \in 0 .. s.y : l \notin {s.y} => Shown(u, l) = Shown(s, l)
    BY <1>1, <1>13 DEF Shown
  <2>2. \A l \in Lines : l > s.y => u.amount[l] = 0
    BY <1>1, <1>7, <1>12 DEF Kept, Holds
  <2>3. \A l \in {s.y} : l \in Lines
    BY <1>1
  <2> QED  BY <1>12, <2>1, <2>2, <2>3, WrittenHolds
<1> QED  BY <1>2, <1>6, <1>12, <1>15, <1>16, <1>17

\* After a character the cursor is at the end of its line again.
LEMMA WriteKeeps ==
  ASSUME Kept(s, transcript), AtEnd(s), NEW char \in Chars,
         NEW lines, lines = Written(StoreAndDraw(s, char), {s.y})
                              \o (IF Wraps(s) THEN <<NewLine>> ELSE <<>>),
         NEW v, v = print_char(s, char)
  PROVE  /\ Kept(v, lines) /\ v.amount[v.y] = v.x
         /\ \/ v.y = s.y /\ v.x = s.x + 1 /\ v.x < MAX_CHARS /\ v.start = s.start
            \/ v.x = 0 /\ v.y > v.start /\ (v.y = s.y + 1 \/ v.y = maxStoredLines - 1)
<1>1. PICK a : a = StoreAndDraw(s, char)
  OBVIOUS
<1>2. /\ a \in Screens /\ a.start = s.start /\ a.x = s.x /\ a.y = s.y
      /\ a.rx = s.rx /\ a.ry = s.ry /\ a.visible = s.visible /\ a.behind = s.behind
      /\ a.amount = [s.amount EXCEPT ![s.y] = s.x + 1]
      /\ Shows(a) /\ BarsAt(a) /\ Holds(a, Written(a, {s.y}))
  BY <1>1, StoreIs
<1>3. /\ s.x \in Int /\ 0 <= s.x /\ s.x < MAX_CHARS /\ s.y \in Lines /\ s.ry = s.y /\ OnScreen(s)
      /\ s.amount \in [Lines -> Amounts]
  BY KeptFacts DEF AtEnd
<1>4. PICK new : new = Written(a, {s.y})
  OBVIOUS
<1>5. PICK x \in Nat : x = s.x + 1
  BY <1>3
<1>6. PICK b : b = [a EXCEPT !.x = x]
  OBVIOUS
<1>7. /\ b \in Screens /\ b.cell = a.cell /\ b.amount = a.amount /\ b.start = a.start /\ b.x = x
      /\ b.y = a.y /\ b.rx = a.rx /\ b.ry = a.ry /\ b.visible = a.visible /\ b.fb = a.fb
      /\ b.behind = a.behind
  BY <1>2, <1>5, <1>6, ColumnSetIs
<1>8. /\ OnScreen(b) /\ b.ry \in Lines /\ b.x = b.amount[b.y]
  <2>1. ~ (x < 0)
    BY <1>5
  <2> QED  BY <1>2, <1>3, <1>5, <1>7, <2>1 DEF OnScreen
<1>9. Shows(b) /\ BarsAt(b) /\ Holds(b, new)
  <2>1. Shows(b)
    BY <1>2, <1>7 DEF Shows, Fine, CharAt, CellAt
  <2>2. BarsAt(b)
    BY <1>2, <1>7 DEF BarsAt, HasBar, BarOf
  <2>3. \A l : Shown(b, l) = Shown(a, l)
    BY <1>7, ShownSame
  <2>4. Holds(b, new)
    BY <1>2, <1>4, <1>7, <2>3 DEF Holds
  <2> QED  BY <2>1, <2>2, <2>4
<1>10. PICK u : u = update_cursor_render(b)
  OBVIOUS
<1>11. Kept(u, new) /\ SameBuffer(b, u)
  <2>1. b.x <= b.amount[b.y]
    BY <1>5, <1>7, <1>8
  <2> QED  BY <1>7, <1>8, <1>9, <1>10, <2>1, CursorKeeps
<1>12. u.y = s.y /\ u.x = x /\ u.start = s.start /\ u.amount[u.y] = u.x
  BY <1>2, <1>7, <1>8, <1>11 DEF SameBuffer
<1>13. u = update_cursor_render([StoreAndDraw(s, char) EXCEPT !.x = @ + 1])
  BY <1>1, <1>2, <1>5, <1>6, <1>10
<1>14. new \in Seq(ShownLines)
  BY <1>2, <1>4 DEF Holds
<1>15. CASE Wraps(s)
  <2>1. lines = new \o <<NewLine>>
    BY <1>1, <1>4, <1>15
  <2>2. OneMore(new, lines)
    BY <1>14, <2>1, OneMoreIs
  <2>3. v = newline(u)
    BY <1>13, <1>15 DEF print_char
  <2> QED  BY <1>11, <1>12, <2>2, <2>3, NewlineKeeps
<1>16. CASE ~ Wraps(s)
  <2>1. lines = new \o <<>>
    BY <1>1, <1>4, <1>16
  <2>2. lines = new
    BY <1>14, <2>1, ConcatEmptySeq, Zenon
  <2>3. v = u
    BY <1>13, <1>16 DEF print_char
  <2>4. x < MAX_CHARS
    BY <1>3, <1>5, <1>16, Sizes DEF Wraps
  <2> QED  BY <1>5, <1>11, <1>12, <2>2, <2>3, <2>4
<1> QED  BY <1>15, <1>16

(* Editing. *)

\* Where the input is while it is edited.
LEMMA EditFacts ==
  ASSUME Good(s, input, transcript), Editing
  PROVE  /\ s \in Screens /\ s.y \in Lines /\ s.y \in Nat /\ s.x \in Int /\ s.start \in Nat
         /\ s.cell \in [Addresses -> CellChars] /\ s.amount \in [Lines -> Amounts]
         /\ s.amount[s.y] \in Nat /\ s.amount[s.y] <= MAX_CHARS + MAX_INPUT
         /\ Place(s.y, 0) \in Nat
         /\ input.pos \in Nat /\ input.length \in Nat /\ input.pos <= input.length
         /\ input.length <= MAX_INPUT
         /\ input.start \in Nat /\ input.start < MAX_CHARS
         /\ s.amount[s.y] = s.x + input.length - input.pos
         /\ s.x - input.pos <= input.start /\ 0 <= Place(s.y, 0) + (s.x - input.pos)
         /\ 0 <= s.x - input.pos \/ s.y > s.start
<1>1. /\ s \in Screens /\ s.y \in Lines /\ s.y \in Nat /\ s.x \in Int /\ s.start \in Nat
      /\ s.cell \in [Addresses -> CellChars] /\ s.amount \in [Lines -> Amounts]
  BY KeptFacts DEF Good
<1>2. s.amount[s.y] \in Nat /\ s.amount[s.y] <= MAX_CHARS + MAX_INPUT
  <2>1. s.amount[s.y] \in Amounts
    BY <1>1
  <2> QED  BY <2>1, Sizes DEF Amounts
<1>3. Place(s.y, 0) \in Nat
  BY <1>1, Bases
<1>4. input \in Inputs /\ input.pos <= input.length /\ input.length <= MAX_INPUT
  BY DEF Good, Placed, Counted
<1>5. input.pos \in Nat /\ input.length \in Nat /\ input.start \in Cols
  BY <1>4 DEF Inputs
<1>6. input.start \in Nat /\ input.start < MAX_CHARS
  BY <1>5, Sizes DEF Cols
<1>7. Home(s, input) = s.x - input.pos
  BY <1>1, <1>5 DEF Home, Editing
<1>8. /\ Home(s, input) <= input.start /\ 0 <= Place(s.y, 0) + Home(s, input)
      /\ 0 <= Home(s, input) \/ s.y > s.start
      /\ s.amount[s.y] = s.x + input.length - input.pos
  BY DEF Good, Placed, Editing
<1> QED  BY <1>1, <1>2, <1>3, <1>4, <1>5, <1>6, <1>7, <1>8

\* A buffer whose cells and cursor line's length are changed.
BufferIs(t, cell, n, b) ==
  /\ t \in Screens /\ t.cell = cell /\ t.behind = b
  /\ t.start = s.start /\ t.x = s.x /\ t.y = s.y /\ t.rx = s.rx /\ t.ry = s.ry
  /\ t.visible = s.visible /\ t.fb = s.fb
  /\ t.amount[s.y] = n /\ \A l \in Lines : l # s.y => t.amount[l] = s.amount[l]

LEMMA BufferSet ==
  ASSUME s \in Screens, s.y \in Lines,
         NEW cell \in [Addresses -> CellChars], NEW n \in Amounts, NEW b \in SUBSET Lines,
         NEW t, t = [s EXCEPT !.cell = cell, !.amount[s.y] = n, !.behind = b]
  PROVE  BufferIs(t, cell, n, b)
<1>1. PICK amount \in [Lines -> Amounts] : amount = [s.amount EXCEPT ![s.y] = n]
  <2>1. s.amount \in [Lines -> Amounts]
    BY DEF Screens
  <2> QED  BY <2>1
<1>2. t = [s EXCEPT !.cell = cell, !.amount = amount, !.behind = b]
  BY <1>1 DEF Screens
<1>3. /\ t \in Screens /\ t.cell = cell /\ t.amount = amount /\ t.behind = b
      /\ t.start = s.start /\ t.x = s.x /\ t.y = s.y /\ t.rx = s.rx /\ t.ry = s.ry
      /\ t.visible = s.visible /\ t.fb = s.fb
  BY <1>2 DEF Screens
<1>4. s.amount \in [Lines -> Amounts]
  BY DEF Screens
<1> QED  BY <1>1, <1>3, <1>4 DEF BufferIs

\* A line above the cursor's whose cells are left alone shows the same.
LEMMA LineAbove ==
  ASSUME s \in Screens, s.y \in Lines, NEW t, NEW l \in Lines, t.amount[l] = s.amount[l],
         NEW at, \A a \in Addresses : a < at => t.cell[a] = s.cell[a],
         \A c \in Cols : Place(l, c) < at
  PROVE  Shown(t, l) = Shown(s, l)
<1>1. ASSUME NEW c \in Cols
      PROVE  CellAt(t, l, c) = CellAt(s, l, c)
  <2>1. Place(l, c) \in Addresses
    BY ColumnInside
  <2> QED  BY <2>1 DEF CellAt
<1> QED  BY <1>1 DEF Shown

LEMMA InsertIs ==
  ASSUME Good(s, input, transcript), Editing, input.length < MAX_INPUT, NEW char \in Chars,
         NEW lines, lines = LinesFrom(Place(s.y, s.x)),
         NEW t, t = [insert_cell(s, char) EXCEPT !.behind = @ \cup (lines \cap 0 .. s.y - 1)]
  PROVE  Edited(t, lines) /\ t.amount[s.y] = s.amount[s.y] + 1
<1>1. /\ s \in Screens /\ s.y \in Lines /\ s.y \in Nat /\ s.x \in Int /\ s.start \in Nat
      /\ s.cell \in [Addresses -> CellChars] /\ s.amount \in [Lines -> Amounts]
      /\ s.amount[s.y] \in Nat /\ s.amount[s.y] <= MAX_CHARS + MAX_INPUT
      /\ Place(s.y, 0) \in Nat
      /\ input.pos \in Nat /\ input.length \in Nat /\ input.pos <= input.length
      /\ input.length <= MAX_INPUT
      /\ input.start \in Nat /\ input.start < MAX_CHARS
      /\ s.amount[s.y] = s.x + input.length - input.pos
      /\ s.x - input.pos <= input.start /\ 0 <= Place(s.y, 0) + (s.x - input.pos)
  BY EditFacts
<1>2. PICK n \in Nat : n = s.amount[s.y] /\ s.x <= n /\ n + 1 \in Amounts
                       /\ 0 <= Place(s.y, 0) + s.x /\ s.x < MAX_CHARS + MAX_INPUT
  BY <1>1, Sizes DEF Amounts
<1>3. PICK at \in Addresses : at = Place(s.y, s.x) /\ at = Place(s.y, 0) + s.x
  BY <1>1, <1>2, PlaceInside, PlaceIs
<1>4. PICK last \in Int : last = Place(s.y, n)
  BY <1>1, PlaceIs
<1>5. PICK cell : cell = [a \in Addresses |->
                            CASE a = Place(s.y, s.x) -> char
                              [] a \in Place(s.y, s.x) + 1 .. Place(s.y, s.amount[s.y]) -> s.cell[a - 1]
                              [] OTHER -> s.cell[a]]
  OBVIOUS
<1>14. \A a \in Addresses : cell[a] = CASE a = at -> char
                                         [] a \in at + 1 .. last -> s.cell[a - 1]
                                         [] OTHER -> s.cell[a]
  BY <1>2, <1>3, <1>4, <1>5
<1>13. PICK m \in Amounts : m = n + 1
  BY <1>2
<1>6. /\ cell \in [Addresses -> CellChars]
      /\ \A a \in Addresses : a < at => cell[a] = s.cell[a]
  <2>0. at \in Nat /\ \A a \in Addresses : a \in Nat
    BY AddressesAre
  <2>1. ASSUME NEW a \in Addresses
        PROVE  /\ cell[a] \in CellChars
               /\ a < at => cell[a] = s.cell[a]
    <3>1. CASE a = at
      BY <1>14, <2>0, <3>1 DEF CellChars
    <3>2. CASE a # at /\ a \in at + 1 .. last
      <4>1. a - 1 \in Addresses
        <5>1. PICK z \in Nat : Addresses = 0 .. z
          BY AddressesAre, Sizes
        <5>2. a \in 0 .. z /\ a >= at + 1
          BY <1>4, <2>0, <3>2, <5>1
        <5> QED  BY <2>0, <5>1, <5>2
      <4>3. ~ (a < at)
        BY <1>4, <2>0, <3>2
      <4>2. cell[a] = s.cell[a - 1]
        BY <1>14, <3>2
      <4> QED  BY <1>1, <4>1, <4>2, <4>3
    <3>3. CASE a # at /\ a \notin at + 1 .. last
      <4>1. cell[a] = s.cell[a]
        BY <1>14, <3>3
      <4> QED  BY <1>1, <4>1
    <3> QED  BY <3>1, <3>2, <3>3
  <2>2. cell = [a \in Addresses |-> cell[a]]
    BY <1>5
  <2> QED  BY <2>1, <2>2
<1>7. PICK b \in SUBSET Lines : b = s.behind \cup (lines \cap 0 .. s.y - 1)
  BY <1>1 DEF Screens, LinesFrom
<1>8. t = [s EXCEPT !.cell = cell, !.amount[s.y] = m, !.behind = b]
  <2>1. insert_cell(s, char) = [s EXCEPT !.cell = cell, !.amount[s.y] = m]
    <3>1. insert_cell(s, char) =
            [s EXCEPT !.cell = [a \in Addresses |->
                         CASE a = Place(s.y, s.x) -> char
                           [] a \in Place(s.y, s.x) + 1 .. Place(s.y, s.amount[s.y]) -> s.cell[a - 1]
                           [] OTHER -> s.cell[a]],
                      !.amount[s.y] = s.amount[s.y] + 1]
      BY <1>1 DEF insert_cell, Screens
    <3>2. insert_cell(s, char) = [s EXCEPT !.cell = cell, !.amount[s.y] = s.amount[s.y] + 1]
      BY <1>5, <3>1, Zenon
    <3>3. s.amount[s.y] + 1 = m
      BY <1>2, <1>13
    <3> QED  BY <3>2, <3>3, Zenon
  <2>2. insert_cell(s, char).behind = s.behind
    BY <1>1, <2>1 DEF Screens
  <2>3. t = [insert_cell(s, char) EXCEPT !.behind = b]
    BY <1>7, <2>2
  <2> QED  BY <2>1, <2>3
<1>9. BufferIs(t, cell, m, b)
  BY <1>1, <1>6, <1>7, <1>8, BufferSet
<1>10. ASSUME NEW l \in Lines, l <= s.y, l \notin lines
       PROVE  Shown(t, l) = Shown(s, l)
  <2>1. l \in Nat /\ Place(l, 0) \in Nat /\ Place(l, MAX_CHARS) = Place(l, 0) + MAX_CHARS
    <3>1. l \in Nat
      BY Sizes DEF Lines
    <3> QED  BY <3>1, Bases, PlaceIs, Sizes
  <2>2. Place(l, 0) + MAX_CHARS <= at
    <3>1. ~ (Place(l, MAX_CHARS) > at)
      BY <1>3, <1>10 DEF LinesFrom
    <3> QED  BY <1>3, <2>1, <3>1, AddressesAre, Sizes
  <2>3. \A c \in Cols : Place(l, c) < at
    <3>1. ASSUME NEW c \in Cols
          PROVE  Place(l, c) < at
      <4>1. Place(l, c) = Place(l, 0) + c /\ c \in Nat /\ c < MAX_CHARS
        BY ColumnInside
      <4> QED  BY <2>1, <2>2, <4>1, AddressesAre, Sizes
    <3> QED  BY <3>1
  <2>4. CASE l # s.y
    BY <1>1, <1>6, <1>9, <2>3, <2>4, LineAbove DEF BufferIs
  <2>5. CASE l = s.y
    <3>1. MAX_CHARS <= s.x
      BY <1>1, <1>3, <2>2, <2>5, Sizes
    <3>2. ASSUME NEW c \in Cols
          PROVE  CellAt(t, l, c) = CellAt(s, l, c)
      <4>1. Place(l, c) \in Addresses /\ c \in Nat /\ c < MAX_CHARS
        BY ColumnInside
      <4>2. c < n /\ c < n + 1
        BY <1>1, <1>2, <3>1, <4>1, Sizes
      <4>3. t.cell[Place(l, c)] = s.cell[Place(l, c)]
        BY <1>6, <1>9, <2>3, <4>1 DEF BufferIs
      <4>4. s.amount[l] = n /\ t.amount[l] = n + 1
        BY <1>2, <1>9, <1>13, <2>5 DEF BufferIs
      <4> QED  BY <4>2, <4>3, <4>4 DEF CellAt
    <3> QED  BY <3>2 DEF Shown
  <2> QED  BY <2>4, <2>5
<1>11. ASSUME NEW l \in lines
       PROVE  l \in Lines /\ (l >= s.y \/ l \in t.behind)
  <2>1. l \in Lines /\ l \in Nat
    BY Sizes DEF LinesFrom, Lines
  <2>2. ~ (l >= s.y) => l \in 0 .. s.y - 1
    BY <1>1, <2>1
  <2> QED  BY <1>7, <1>9, <2>1, <2>2 DEF BufferIs
<1>12. \A l \in s.behind : l \in t.behind
  BY <1>7, <1>9 DEF BufferIs
<1> QED  BY <1>2, <1>9, <1>10, <1>11, <1>12, <1>13 DEF Edited, BufferIs

LEMMA DeleteIs ==
  ASSUME Good(s, input, transcript), Editing, input.pos > 0, s.x > 0, NEW t, t = delete_cell(s)
  PROVE  Edited(t, {s.y}) /\ t.amount[s.y] = s.amount[s.y] - 1 /\ s.amount[s.y] > 0
<1>1. /\ s \in Screens /\ s.y \in Lines /\ s.y \in Nat /\ s.x \in Int
      /\ s.cell \in [Addresses -> CellChars] /\ s.amount \in [Lines -> Amounts]
      /\ s.amount[s.y] \in Nat /\ s.amount[s.y] <= MAX_CHARS + MAX_INPUT
      /\ Place(s.y, 0) \in Nat
      /\ input.pos \in Nat /\ input.length \in Nat /\ input.pos <= input.length
      /\ s.amount[s.y] = s.x + input.length - input.pos
  BY EditFacts
<1>2. PICK n \in Nat : n + 1 = s.amount[s.y] /\ s.x <= n + 1 /\ n \in Amounts
  <2>1. s.amount[s.y] - 1 \in Nat /\ s.amount[s.y] - 1 <= MAX_CHARS + MAX_INPUT
        /\ s.x <= s.amount[s.y] /\ (s.amount[s.y] - 1) + 1 = s.amount[s.y]
    <3>1. PICK k \in Nat, x \in Int, l \in Nat, p \in Nat :
            k = s.amount[s.y] /\ x = s.x /\ l = input.length /\ p = input.pos
      BY <1>1
    <3>2. k = x + l - p /\ p <= l /\ x > 0 /\ k <= MAX_CHARS + MAX_INPUT
      BY <1>1, <3>1
    <3> QED  BY <3>1, <3>2, Sizes
  <2> QED  BY <2>1, Sizes DEF Amounts
<1>3. PICK first \in Nat, last \in Addresses :
        first = Place(s.y, s.x - 1) /\ last = Place(s.y, n) /\ Place(s.y, 0) <= first
          /\ Place(s.y, 0) <= last
  <2>1. s.x - 1 \in Nat /\ n < MAX_CHARS + MAX_INPUT
    BY <1>1, <1>2, Sizes
  <2>2. Place(s.y, s.x - 1) = Place(s.y, 0) + (s.x - 1) /\ Place(s.y, n) = Place(s.y, 0) + n
    BY <1>1, <2>1, PlaceIs
  <2>3. Place(s.y, n) \in Addresses
    BY <1>1, <2>1, PlaceInside
  <2> QED  BY <1>1, <2>1, <2>2, <2>3
<1>4. PICK cell : cell = [a \in Addresses |->
                            CASE a = Place(s.y, s.amount[s.y] - 1) -> Nul
                              [] a \in Place(s.y, s.x - 1) .. Place(s.y, s.amount[s.y] - 1) - 1 ->
                                   s.cell[a + 1]
                              [] OTHER -> s.cell[a]]
  OBVIOUS
<1>12. \A a \in Addresses : cell[a] = CASE a = last -> Nul
                                         [] a \in first .. last - 1 -> s.cell[a + 1]
                                         [] OTHER -> s.cell[a]
  <2>1. s.amount[s.y] - 1 = n
    BY <1>2
  <2>2. Place(s.y, s.x - 1) = first /\ Place(s.y, s.amount[s.y] - 1) = last
    BY <1>3, <2>1
  <2> QED  BY <1>4, <2>2
<1>5. /\ cell \in [Addresses -> CellChars]
      /\ \A a \in Addresses : a < Place(s.y, 0) => cell[a] = s.cell[a]
  <2>0. last \in Nat /\ \A a \in Addresses : a \in Nat
    BY AddressesAre
  <2>1. ASSUME NEW a \in Addresses
        PROVE  /\ cell[a] \in CellChars
               /\ a < Place(s.y, 0) => cell[a] = s.cell[a]
    <3>1. CASE a = last
      <4>1. cell[a] = Nul /\ ~ (a < Place(s.y, 0))
        BY <1>1, <1>3, <1>12, <2>0, <3>1
      <4> QED  BY <4>1 DEF CellChars
    <3>2. CASE a # last /\ a \in first .. last - 1
      <4>1. a + 1 \in Addresses
        <5>1. PICK z \in Nat : Addresses = 0 .. z
          BY AddressesAre, Sizes
        <5>2. a + 1 <= last /\ last \in 0 .. z
          BY <2>0, <3>2, <5>1
        <5> QED  BY <2>0, <5>1, <5>2
      <4>2. cell[a] = s.cell[a + 1]
        BY <1>12, <3>2
      <4>3. ~ (a < Place(s.y, 0))
        BY <1>1, <1>3, <2>0, <3>2
      <4> QED  BY <1>1, <4>1, <4>2, <4>3
    <3>3. CASE a # last /\ a \notin first .. last - 1
      <4>1. cell[a] = s.cell[a]
        BY <1>12, <3>3
      <4> QED  BY <1>1, <4>1
    <3> QED  BY <3>1, <3>2, <3>3
  <2>2. cell = [a \in Addresses |-> cell[a]]
    BY <1>4
  <2> QED  BY <2>1, <2>2
<1>6. PICK b \in SUBSET Lines : b = s.behind
  BY <1>1 DEF Screens
<1>7. t = [s EXCEPT !.cell = cell, !.amount[s.y] = n, !.behind = b]
  <2>1. s.amount[s.y] - 1 = n
    BY <1>2
  <2>2. delete_cell(s) =
          [s EXCEPT !.cell = [a \in Addresses |->
                       CASE a = Place(s.y, s.amount[s.y] - 1) -> Nul
                         [] a \in Place(s.y, s.x - 1) .. Place(s.y, s.amount[s.y] - 1) - 1 ->
                              s.cell[a + 1]
                         [] OTHER -> s.cell[a]],
                    !.amount[s.y] = s.amount[s.y] - 1]
    BY <1>1 DEF delete_cell, Screens
  <2>3. t = [s EXCEPT !.cell = cell, !.amount[s.y] = n]
    BY <1>4, <2>1, <2>2, Zenon
  <2> QED  BY <1>1, <1>6, <2>3 DEF Screens
<1>8. BufferIs(t, cell, n, b)
  BY <1>1, <1>2, <1>5, <1>6, <1>7, BufferSet
<1>9. ASSUME NEW l \in Lines, l <= s.y, l \notin {s.y}
      PROVE  Shown(t, l) = Shown(s, l)
  <2>1. l < s.y
    BY <1>1, <1>9, Sizes DEF Lines
  <2>2. \A c \in Cols : Place(l, c) < Place(s.y, 0)
    BY <1>1, <2>1, PlacesApart
  <2> QED  BY <1>1, <1>5, <1>8, <1>9, <2>2, LineAbove DEF BufferIs
<1>10. n = s.amount[s.y] - 1 /\ s.amount[s.y] > 0
  BY <1>2
<1>11. s.y >= s.y
  BY <1>1
<1> QED  BY <1>1, <1>6, <1>8, <1>9, <1>10, <1>11 DEF Edited, BufferIs

LEMMA CutIs ==
  ASSUME Good(s, input, transcript), Editing, NEW t, t = cut_line(s, input.start)
  PROVE  Edited(t, {s.y}) /\ t.amount[s.y] = input.start
<1>1. /\ s \in Screens /\ s.y \in Lines /\ s.y \in Nat
      /\ s.cell \in [Addresses -> CellChars] /\ s.amount[s.y] \in Nat
      /\ Place(s.y, 0) \in Nat /\ input.start \in Nat /\ input.start < MAX_CHARS
  BY EditFacts
<1>2. PICK n \in Amounts : n = input.start /\ n \in Nat
  BY <1>1, Sizes DEF Amounts
<1>3. PICK cell : cell = [a \in Addresses |->
                            IF a - Place(s.y, 0) \in n .. s.amount[s.y] - 1 /\ a < Place(s.y, MAX_CHARS)
                            THEN Nul ELSE s.cell[a]]
  OBVIOUS
<1>4. /\ cell \in [Addresses -> CellChars]
      /\ \A a \in Addresses : a < Place(s.y, 0) => cell[a] = s.cell[a]
  <2>0. \A a \in Addresses : a \in Nat
    BY AddressesAre
  <2>1. ASSUME NEW a \in Addresses
        PROVE  /\ cell[a] \in CellChars
               /\ a < Place(s.y, 0) => cell[a] = s.cell[a]
    <3>1. CASE a - Place(s.y, 0) \in n .. s.amount[s.y] - 1 /\ a < Place(s.y, MAX_CHARS)
      <4>1. cell[a] = Nul
        BY <1>3, <3>1
      <4>2. ~ (a < Place(s.y, 0))
        BY <1>1, <1>2, <2>0, <3>1
      <4> QED  BY <4>1, <4>2 DEF CellChars
    <3>2. CASE ~ (a - Place(s.y, 0) \in n .. s.amount[s.y] - 1 /\ a < Place(s.y, MAX_CHARS))
      <4>1. cell[a] = s.cell[a]
        BY <1>3, <3>2
      <4> QED  BY <1>1, <4>1
    <3> QED  BY <3>1, <3>2
  <2>2. cell = [a \in Addresses |-> cell[a]]
    BY <1>3
  <2> QED  BY <2>1, <2>2
<1>5. PICK b \in SUBSET Lines : b = s.behind
  BY <1>1 DEF Screens
<1>6. t = [s EXCEPT !.cell = cell, !.amount[s.y] = n, !.behind = b]
  <2>1. cut_line(s, input.start) =
          [s EXCEPT !.cell = [a \in Addresses |->
                       IF a - Place(s.y, 0) \in input.start .. s.amount[s.y] - 1
                            /\ a < Place(s.y, MAX_CHARS)
                       THEN Nul ELSE s.cell[a]],
                    !.amount[s.y] = input.start]
    BY <1>1 DEF cut_line, Screens
  <2>2. t = [s EXCEPT !.cell = cell, !.amount[s.y] = n]
    BY <1>2, <1>3, <2>1
  <2> QED  BY <1>1, <1>5, <2>2 DEF Screens
<1>7. BufferIs(t, cell, n, b)
  BY <1>1, <1>4, <1>5, <1>6, BufferSet
<1>8. ASSUME NEW l \in Lines, l <= s.y, l \notin {s.y}
      PROVE  Shown(t, l) = Shown(s, l)
  <2>1. l < s.y
    BY <1>1, <1>8, Sizes DEF Lines
  <2>2. \A c \in Cols : Place(l, c) < Place(s.y, 0)
    BY <1>1, <2>1, PlacesApart
  <2> QED  BY <1>1, <1>4, <1>7, <1>8, <2>2, LineAbove DEF BufferIs
<1>9. s.y >= s.y
  BY <1>1
<1> QED  BY <1>1, <1>2, <1>5, <1>7, <1>8, <1>9 DEF Edited, BufferIs

(* The input's place is kept. *)

\* Every line's first address is reached from the line above, or lies behind the input.
LEMMA PrintedPlaced ==
  ASSUME Kept(s, transcript), Placed(s, input), Printing, NEW v, NEW lines, Kept(v, lines),
         v.amount[v.y] = v.x,
         \/ v.y = s.y /\ v.x = s.x + 1 /\ v.x < MAX_CHARS /\ v.start = s.start
         \/ v.x = 0 /\ v.y > v.start /\ (v.y = s.y + 1 \/ v.y = maxStoredLines - 1)
  PROVE  Placed(v, Printed)
<1>1. /\ s.x \in Int /\ s.y \in Nat /\ v.x \in Int /\ v.y \in Nat /\ v.start \in Nat
      /\ maxStoredLines \in Nat
  BY KeptFacts
<1>2. /\ 0 <= s.x /\ s.x < MAX_CHARS
  BY DEF Placed, AtEnd, Printing
<1>3. AtEnd(v)
  BY <1>1, <1>2, Sizes DEF AtEnd
<1>4. /\ input \in Inputs /\ input.pos <= input.length /\ input.length <= MAX_INPUT
      /\ input.todo > 0 => input.pos = input.length /\ input.todo <= input.length /\ input.phase = "input"
  BY DEF Placed, Counted
<1>5. input.pos \in Nat /\ input.length \in Nat /\ input.todo \in Nat /\ input.start \in Nat
  BY <1>4, Sizes DEF Inputs, Cols
<1>6. PICK todo \in Nat : todo = IF input.todo > 0 THEN input.todo - 1 ELSE input.todo
  BY <1>5
<1>7. PICK in : in = [input EXCEPT !.todo = todo]
  OBVIOUS
<1>8. /\ in \in Inputs /\ in.phase = input.phase /\ in.start = input.start /\ in.pos = input.pos
      /\ in.length = input.length /\ in.todo = todo
  BY <1>4, <1>7 DEF Inputs
<1>9. Printed = in
  BY <1>4, <1>6, <1>7 DEF Printed, Inputs
<1>10. Counted(in)
  BY <1>4, <1>5, <1>6, <1>8 DEF Counted
<1>11. ASSUME input.phase = "input"
       PROVE  /\ Home(v, in) <= in.start /\ 0 <= Place(v.y, 0) + Home(v, in)
              /\ 0 <= Home(v, in) \/ v.y > v.start
              /\ in.todo = 0 => v.amount[v.y] = v.x + in.length - in.pos
  <2>1. input.todo > 0
    BY <1>5, <1>11 DEF Printing
  <2>2. /\ Home(s, input) <= input.start /\ 0 <= Place(s.y, 0) + Home(s, input)
        /\ 0 <= Home(s, input) \/ s.y > s.start
    BY <1>11 DEF Placed
  <2>3. PICK p \in Nat, n \in Nat : p = input.pos /\ n + 1 = input.todo /\ n = todo
    BY <1>5, <1>6, <2>1
  <2>4. Home(s, input) = s.x - (p - (n + 1)) /\ Home(v, in) = v.x - (p - n)
    BY <1>8, <2>3 DEF Home
  <2>5. n + 1 <= p /\ p <= MAX_INPUT
    BY <1>4, <1>5, <2>1, <2>3
  <2>6. v.amount[v.y] = v.x + in.length - in.pos
    <3>1. in.length = p /\ in.pos = p
      BY <1>4, <1>8, <2>1, <2>3
    <3> QED  BY <1>1, <2>3, <3>1
  <2>7. Place(s.y, 0) \in Nat /\ Place(s.y + 1, 0) = Place(s.y, 0) + MAX_CHARS
        /\ Place(v.y, 0) \in Nat
    BY <1>1, Bases
  <2>8. CASE v.y = s.y /\ v.x = s.x + 1 /\ v.start = s.start
    <3>1. Home(v, in) = Home(s, input)
      BY <1>1, <2>3, <2>4, <2>8
    <3> QED  BY <1>8, <2>2, <2>6, <2>8, <3>1
  <2>9. CASE v.x = 0 /\ v.y > v.start /\ (v.y = s.y + 1 \/ v.y = maxStoredLines - 1)
    <3>1. Home(v, in) <= in.start
      BY <1>5, <1>8, <2>3, <2>4, <2>5, <2>9
    <3>2. 0 <= Place(v.y, 0) + Home(v, in)
      <4>1. PICK a \in Nat, b \in Nat, w \in Nat, h \in Int :
              a = Place(s.y, 0) /\ b = Place(v.y, 0) /\ w = MAX_CHARS /\ h = Home(v, in)
        BY <1>1, <2>3, <2>4, <2>7, Sizes
      <4>2. h = n - p
        BY <2>3, <2>4, <2>9, <4>1
      <4>3. CASE v.y = s.y + 1
        <5>1. b = a + w
          BY <2>7, <4>1, <4>3
        <5>2. 0 <= a + (s.x - (p - (n + 1))) /\ s.x < w
          BY <1>2, <2>2, <2>4, <4>1
        <5>3. 0 <= b + h
          BY <1>1, <4>2, <5>1, <5>2
        <5> QED  BY <4>1, <5>3
      <4>4. CASE v.y = maxStoredLines - 1
        <5>1. MAX_INPUT <= b
          BY <4>1, <4>4, AddressesAre
        <5>2. 0 <= b + h
          BY <2>5, <4>2, <5>1, Sizes
        <5> QED  BY <4>1, <5>2
      <4> QED  BY <2>9, <4>3, <4>4
    <3> QED  BY <2>6, <2>9, <3>1, <3>2
  <2> QED  BY <2>8, <2>9
<1> QED  BY <1>3, <1>8, <1>9, <1>10, <1>11 DEF Placed

LEMMA WriteCharIsGood ==
  ASSUME Good(s, input, transcript), NEW char \in Chars, WriteChar(char)
  PROVE  Good(s, input, transcript)'
<1>1. Kept(s, transcript) /\ AtEnd(s) /\ Printing
  BY DEF Good, Placed, WriteChar, Printing
<1>2. PICK lines : lines = Written(StoreAndDraw(s, char), {s.y})
                            \o (IF Wraps(s) THEN <<NewLine>> ELSE <<>>)
  OBVIOUS
<1>3. PICK v : v = print_char(s, char)
  OBVIOUS
<1>4. /\ Kept(v, lines) /\ v.amount[v.y] = v.x
      /\ \/ v.y = s.y /\ v.x = s.x + 1 /\ v.x < MAX_CHARS /\ v.start = s.start
         \/ v.x = 0 /\ v.y > v.start /\ (v.y = s.y + 1 \/ v.y = maxStoredLines - 1)
  BY <1>1, <1>2, <1>3, WriteKeeps
<1>5. Placed(v, Printed)
  BY <1>1, <1>4, PrintedPlaced DEF Good
<1>6. s' = v /\ input' = Printed /\ transcript' = lines
  BY <1>2, <1>3 DEF WriteChar
<1> QED  BY <1>4, <1>5, <1>6 DEF Good

\* The lines after a line feed.
LEMMA LineFeed ==
  ASSUME Kept(s, transcript), WriteNewline
  PROVE  /\ Kept(s, transcript)' /\ s'.x = 0 /\ s'.amount[s'.y] = 0 /\ s'.y > s'.start
         /\ s'.y = s.y + 1 \/ s'.y = maxStoredLines - 1
<1>1. PICK v, more : v = newline(s) /\ more = Append(transcript, NewLine)
  OBVIOUS
<1>2. OneMore(transcript, more)
  BY <1>1, KeptFacts, OneMoreIs
<1>3. /\ Kept(v, more) /\ v.x = 0 /\ v.amount[v.y] = 0 /\ v.y > v.start
      /\ v.y = s.y + 1 \/ v.y = maxStoredLines - 1
  BY <1>1, <1>2, NewlineKeeps
<1>4. s' = v /\ transcript' = more
  BY <1>1 DEF WriteNewline
<1> QED  BY <1>3, <1>4

LEMMA NewlineIsGood ==
  ASSUME Good(s, input, transcript), Newline
  PROVE  Good(s, input, transcript)'
<1>1. PICK v, more : v = s' /\ more = transcript'
  OBVIOUS
<1>2. /\ Kept(v, more) /\ v.x = 0 /\ v.amount[v.y] = 0 /\ v.y > v.start
      /\ v.y = s.y + 1 \/ v.y = maxStoredLines - 1
  BY <1>1, LineFeed DEF Good, Newline
<1>3. Placed(v, Printed)
  BY <1>2, PrintedPlaced DEF Good, Newline
<1> QED  BY <1>1, <1>2, <1>3 DEF Good, Newline

LEMMA LeaveIsGood ==
  ASSUME Good(s, input, transcript), Leave
  PROVE  Good(s, input, transcript)'
<1>1. PICK v, more : v = s' /\ more = transcript'
  OBVIOUS
<1>2. Kept(v, more) /\ v.x = 0 /\ v.amount[v.y] = 0
  BY <1>1, LineFeed DEF Good, Leave
<1>3. AtEnd(v)
  BY <1>2, Sizes DEF AtEnd
<1>4. PICK in : in = input'
  OBVIOUS
<1>5. in \in Inputs /\ in.phase = "print" /\ in.pos = input.pos /\ in.length = input.length /\ in.todo = 0
  <2>1. input \in Inputs
    BY DEF Good, Placed, Counted
  <2> QED  BY <1>4, <2>1 DEF Leave, Editing, Inputs
<1>6. Placed(v, in)
  BY <1>3, <1>5 DEF Good, Placed, Counted
<1> QED  BY <1>1, <1>2, <1>4, <1>6 DEF Good

LEMMA NewInputIsGood ==
  ASSUME Good(s, input, transcript), NEW n \in 0 .. MAX_INPUT, newTerminalInputLine(n)
  PROVE  Good(s, input, transcript)'
<1>1. s' = s /\ transcript' = transcript /\ s.x = s.amount[s.y] /\ AtEnd(s)
  BY DEF newTerminalInputLine, Good, Placed
<1>2. /\ s.x \in Int /\ s.y \in Nat
  BY KeptFacts DEF Good
<1>3. PICK in : in = input'
  OBVIOUS
<1>4. n \in Nat /\ n <= MAX_INPUT /\ s.x \in Cols /\ s.x \in Nat
  BY <1>1, <1>2, Sizes DEF AtEnd, Cols
<1>5. /\ in \in Inputs /\ in.phase = "input" /\ in.start = s.x /\ in.pos = n /\ in.length = n
      /\ in.todo = n
  BY <1>3, <1>4 DEF newTerminalInputLine, Inputs
<1>6. Counted(in)
  BY <1>4, <1>5 DEF Counted
<1>7. Home(s, in) = s.x
  BY <1>2, <1>4, <1>5 DEF Home
<1>8. 0 <= Place(s.y, 0) + s.x
  <2>1. Place(s.y, 0) \in Nat
    BY <1>2, Bases
  <2> QED  BY <1>4, <2>1
<1>9. Placed(s, in)
  BY <1>1, <1>4, <1>5, <1>6, <1>7, <1>8 DEF Placed
<1> QED  BY <1>1, <1>3, <1>9 DEF Good

\* The position in the input and the column move together, and the line's length with
\* the input's.
LEMMA MovedTogether ==
  ASSUME Good(s, input, transcript), Editing, NEW v, NEW in, NEW d \in {-1, 0, 1}, NEW e \in {-1, 0, 1},
         in = [input EXCEPT !.pos = input.pos + d, !.length = input.length + e],
         0 <= input.pos + d, input.pos + d <= input.length + e, input.length + e <= MAX_INPUT,
         v.x = s.x + d, v.y = s.y, v.start = s.start, v.amount[s.y] = s.amount[s.y] + e
  PROVE  Placed(v, in)
<1>1. /\ s.x \in Int /\ input.pos \in Nat /\ input.length \in Nat /\ s.amount[s.y] \in Nat
      /\ s.amount[s.y] = s.x + input.length - input.pos
      /\ s.x - input.pos <= input.start /\ 0 <= Place(s.y, 0) + (s.x - input.pos)
      /\ 0 <= s.x - input.pos \/ s.y > s.start
  BY EditFacts
<1>2. input \in Inputs /\ input.phase = "input" /\ input.todo = 0
  BY DEF Good, Placed, Counted, Editing
<1>3. PICK p \in Nat, n \in Nat : p = input.pos + d /\ n = input.length + e
  BY <1>1
<1>4. /\ in \in Inputs /\ in.phase = "input" /\ in.start = input.start /\ in.pos = p /\ in.length = n
      /\ in.todo = 0
  BY <1>2, <1>3 DEF Inputs
<1>5. Counted(in)
  BY <1>3, <1>4 DEF Counted
<1>6. Home(v, in) = s.x - input.pos
  BY <1>1, <1>3, <1>4 DEF Home
<1>7. v.amount[v.y] = v.x + in.length - in.pos
  BY <1>1, <1>3, <1>4
<1> QED  BY <1>1, <1>4, <1>5, <1>6, <1>7 DEF Placed

LEMMA InsertIsGood ==
  ASSUME Good(s, input, transcript), NEW char \in Chars, insert_char_at_cursor(char)
  PROVE  Good(s, input, transcript)'
<1>1. /\ Editing /\ input.length < MAX_INPUT
      /\ input' = [input EXCEPT !.pos = @ + 1, !.length = @ + 1]
  BY DEF insert_char_at_cursor
<1>2. PICK t, lines, u :
        /\ t = insert_cell(s, char) /\ lines = LinesFrom(Place(s.y, s.x))
        /\ u = [t EXCEPT !.behind = @ \cup (lines \cap 0 .. s.y - 1)]
  OBVIOUS
<1>3. s' = redraw_edited(u, s.x + 1) /\ transcript' = Written(t, lines)
  BY <1>2 DEF insert_char_at_cursor
<1>4. Edited(u, lines) /\ u.amount[s.y] = s.amount[s.y] + 1
  BY <1>1, <1>2, InsertIs
<1>5. Written(t, lines) = Written(u, lines)
  <2>1. t.cell = u.cell /\ t.amount = u.amount /\ t.y = u.y
    BY <1>2 DEF insert_cell
  <2>2. \A l : Shown(t, l) = Shown(u, l)
    BY <2>1, ShownSame
  <2> QED  BY <2>1, <2>2 DEF Written
<1>6. /\ s.x \in Int /\ input.pos \in Nat /\ input.length \in Nat /\ s.amount[s.y] \in Nat
      /\ s.amount[s.y] = s.x + input.length - input.pos /\ input.pos <= input.length
      /\ 0 <= s.x - input.pos \/ s.y > s.start
  BY <1>1, EditFacts
<1>7. PICK x \in Int : x = s.x + 1 /\ x <= u.amount[s.y] /\ (x < 0 => s.y > s.start)
  BY <1>4, <1>6
<1>8. PICK v : v = redraw_edited(u, x)
  OBVIOUS
<1>9. /\ Kept(v, Written(u, lines))
      /\ v.x = x /\ v.y = s.y /\ v.start = s.start /\ v.amount = u.amount
  BY <1>4, <1>7, <1>8, EditKeeps DEF Good
<1>10. Placed(v, input')
  <2>1. input' = [input EXCEPT !.pos = input.pos + 1, !.length = input.length + 1]
    BY <1>1
  <2>2. 0 <= input.pos + 1 /\ input.pos + 1 <= input.length + 1 /\ input.length + 1 <= MAX_INPUT
    BY <1>1, <1>6, Sizes
  <2> QED  BY <1>1, <1>4, <1>7, <1>9, <2>1, <2>2, MovedTogether
<1>11. s' = v /\ transcript' = Written(u, lines)
  BY <1>3, <1>5, <1>7, <1>8
<1> QED  BY <1>9, <1>10, <1>11 DEF Good

LEMMA DeleteIsGood ==
  ASSUME Good(s, input, transcript), handle_input_buffer_deletion
  PROVE  Good(s, input, transcript)'
<1>1. /\ Editing /\ input.pos > 0 /\ s.x > 0
      /\ input' = [input EXCEPT !.pos = @ - 1, !.length = @ - 1]
  BY DEF handle_input_buffer_deletion
<1>2. PICK t : t = delete_cell(s)
  OBVIOUS
<1>3. s' = redraw_edited(t, s.x - 1) /\ transcript' = Written(t, {s.y})
  BY <1>2 DEF handle_input_buffer_deletion
<1>4. Edited(t, {s.y}) /\ t.amount[s.y] = s.amount[s.y] - 1
  BY <1>1, <1>2, DeleteIs
<1>5. /\ s.x \in Int /\ input.pos \in Nat /\ input.length \in Nat /\ s.amount[s.y] \in Nat
      /\ s.amount[s.y] = s.x + input.length - input.pos /\ input.pos <= input.length
      /\ input.length <= MAX_INPUT
  BY <1>1, EditFacts
<1>6. PICK x \in Int : x = s.x - 1 /\ x <= t.amount[s.y] /\ (x < 0 => s.y > s.start)
  BY <1>1, <1>4, <1>5
<1>7. PICK v : v = redraw_edited(t, x)
  OBVIOUS
<1>8. /\ Kept(v, Written(t, {s.y}))
      /\ v.x = x /\ v.y = s.y /\ v.start = s.start /\ v.amount = t.amount
  BY <1>4, <1>6, <1>7, EditKeeps DEF Good
<1>9. Placed(v, input')
  <2>1. input' = [input EXCEPT !.pos = input.pos + (-1), !.length = input.length + (-1)]
    <3>1. input.pos - 1 = input.pos + (-1) /\ input.length - 1 = input.length + (-1)
      BY <1>5
    <3> QED  BY <1>1, <3>1
  <2>2. /\ 0 <= input.pos + (-1) /\ input.pos + (-1) <= input.length + (-1)
        /\ input.length + (-1) <= MAX_INPUT
    BY <1>1, <1>5, Sizes
  <2>3. v.x = s.x + (-1) /\ v.amount[s.y] = s.amount[s.y] + (-1)
    BY <1>4, <1>5, <1>6, <1>8
  <2> QED  BY <1>1, <1>8, <2>1, <2>2, <2>3, MovedTogether
<1>10. s' = v /\ transcript' = Written(t, {s.y})
  BY <1>3, <1>6, <1>7
<1> QED  BY <1>8, <1>9, <1>10 DEF Good

LEMMA HistoryIsGood ==
  ASSUME Good(s, input, transcript), NEW n \in 0 .. MAX_INPUT, handle_show_history(n)
  PROVE  Good(s, input, transcript)'
<1>1. Editing /\ input' = [input EXCEPT !.pos = n, !.length = n, !.todo = n]
  BY DEF handle_show_history
<1>2. PICK t, x : t = cut_line(s, input.start) /\ x = input.start
  OBVIOUS
<1>3. s' = redraw_edited(t, x) /\ transcript' = Written(t, {s.y})
  BY <1>2 DEF handle_show_history
<1>4. Edited(t, {s.y}) /\ t.amount[s.y] = x
  BY <1>1, <1>2, CutIs
<1>5. x \in Nat /\ x < MAX_CHARS /\ Place(s.y, 0) \in Nat
  BY <1>1, <1>2, EditFacts
<1>6. x \in Int /\ (x < 0 => s.y > s.start) /\ x <= t.amount[s.y]
  BY <1>4, <1>5
<1>7. PICK v : v = redraw_edited(t, x)
  OBVIOUS
<1>8. /\ Kept(v, Written(t, {s.y}))
      /\ v.x = x /\ v.y = s.y /\ v.start = s.start /\ v.amount = t.amount
  BY <1>4, <1>6, <1>7, EditKeeps DEF Good
<1>9. PICK in : in = input'
  OBVIOUS
<1>10. n \in Nat /\ n <= MAX_INPUT
  BY Sizes
<1>11. /\ in \in Inputs /\ in.phase = "input" /\ in.start = x /\ in.pos = n /\ in.length = n
       /\ in.todo = n
  <2>1. input \in Inputs /\ input.phase = "input"
    BY <1>1 DEF Good, Placed, Counted, Editing
  <2> QED  BY <1>1, <1>2, <1>9, <1>10, <2>1 DEF Inputs
<1>12. Counted(in)
  BY <1>10, <1>11 DEF Counted
<1>13. Home(v, in) = x
  BY <1>5, <1>8, <1>10, <1>11 DEF Home
<1>14. AtEnd(v) /\ 0 <= Place(v.y, 0) + x /\ v.amount[v.y] = v.x + in.length - in.pos
  BY <1>4, <1>5, <1>8, <1>10, <1>11 DEF AtEnd
<1>15. Placed(v, in)
  BY <1>5, <1>11, <1>12, <1>13, <1>14 DEF Placed
<1> QED  BY <1>3, <1>7, <1>8, <1>9, <1>15 DEF Good

LEMMA MoveIsGood ==
  ASSUME Good(s, input, transcript), cursor_move_inline
  PROVE  Good(s, input, transcript)'
<1>1. PICK d \in {-1, 1} :
        /\ input.pos + d \in 0 .. input.length
        /\ s' = update_cursor_render([s EXCEPT !.x = @ + d])
        /\ input' = [input EXCEPT !.pos = @ + d]
  BY DEF cursor_move_inline
<1>2. Editing /\ transcript' = transcript
  BY DEF cursor_move_inline
<1>3. /\ s.x \in Int /\ input.pos \in Nat /\ input.length \in Nat /\ s.amount[s.y] \in Nat
      /\ s.amount[s.y] = s.x + input.length - input.pos /\ input.length <= MAX_INPUT
      /\ 0 <= s.x - input.pos \/ s.y > s.start
      /\ s \in Screens /\ s.y \in Lines
  BY <1>2, EditFacts
<1>4. 0 <= input.pos + d /\ input.pos + d <= input.length
  BY <1>1, <1>3
<1>5. PICK x \in Int : x = s.x + d /\ x <= s.amount[s.y] /\ (x < 0 => s.y > s.start)
  BY <1>3, <1>4
<1>6. PICK t : t = [s EXCEPT !.x = x]
  OBVIOUS
<1>7. /\ t \in Screens /\ t.cell = s.cell /\ t.amount = s.amount /\ t.start = s.start
      /\ t.x = x /\ t.y = s.y /\ t.rx = s.rx /\ t.ry = s.ry /\ t.visible = s.visible
      /\ t.fb = s.fb /\ t.behind = s.behind
  BY <1>3, <1>5, <1>6, ColumnSetIs
<1>8. Kept(s, transcript) /\ OnScreen(s) /\ s.ry = s.y
  BY KeptFacts DEF Good
<1>9. OnScreen(t) /\ t.ry \in Lines /\ t.x <= t.amount[t.y]
  BY <1>3, <1>5, <1>7, <1>8 DEF OnScreen
<1>10. Shows(t)
  BY <1>7, <1>8 DEF Kept, Settled, Shows, Fine, CharAt, CellAt
<1>11. BarsAt(t)
  BY <1>7, <1>8 DEF Kept, Settled, BarsAt, HasBar, BarOf
<1>12. Holds(t, transcript)
  <2>1. \A l : Shown(t, l) = Shown(s, l)
    BY <1>7, ShownSame
  <2> QED  BY <1>7, <1>8, <2>1 DEF Kept, Holds
<1>13. PICK v : v = update_cursor_render(t)
  OBVIOUS
<1>14. Kept(v, transcript) /\ SameBuffer(t, v)
  BY <1>7, <1>9, <1>10, <1>11, <1>12, <1>13, CursorKeeps
<1>15. Placed(v, input')
  <2>1. input' = [input EXCEPT !.pos = input.pos + d, !.length = input.length + 0]
    <3>1. input \in Inputs /\ input.length + 0 = input.length
      BY <1>3 DEF Good, Placed, Counted
    <3> QED  BY <1>1, <3>1 DEF Inputs
  <2>2. v.x = s.x + d /\ v.y = s.y /\ v.start = s.start /\ v.amount[s.y] = s.amount[s.y] + 0
    BY <1>3, <1>5, <1>7, <1>14 DEF SameBuffer
  <2>3. input.pos + d <= input.length + 0 /\ input.length + 0 <= MAX_INPUT
    BY <1>3, <1>4
  <2> QED  BY <1>2, <1>4, <2>1, <2>2, <2>3, MovedTogether
<1>16. s' = v
  BY <1>1, <1>5, <1>6, <1>13
<1> QED  BY <1>2, <1>14, <1>15, <1>16 DEF Good

(* An empty buffer. *)

LEMMA EmptyIsKept ==
  ASSUME NEW t \in Screens, t.x \in Cols, t.y \in Rows, t.rx = t.x, t.ry = t.y, t.start = 0,
         \A l \in Lines : t.amount[l] = 0,
         \A r \in Rows, c \in Cols :
           ~ HasBar(t, r, c) /\ CharAt(t, r, c) \in {Boot, Blank}
             /\ (r = t.y /\ c < t.x => CharAt(t, r, c) = Boot),
         NEW lines \in Seq(ShownLines), Len(lines) = t.y + 1, \A i \in 1 .. Len(lines) : lines[i] = NewLine
  PROVE  Kept(t, lines) /\ AtEnd(t)
<1>1. t.x \in Nat /\ t.x < MAX_CHARS /\ t.y \in Nat /\ t.y < MAX_LINES
  BY Sizes DEF Cols, Rows
<1>2. t.y \in Lines
  BY <1>1, Sizes DEF Lines
<1>3. OnScreen(t)
  BY <1>1, Sizes DEF OnScreen
<1>4. Shows(t)
  <2> SUFFICES ASSUME NEW r \in Rows, NEW c \in Cols
               PROVE  Fine(t, t.start + r, c, CharAt(t, r, c))
    BY DEF Shows
  <2>1. 0 <= SCROLL_HISTORY_LINES
    BY Sizes
  <2>2. t.start + r \in Lines
    BY <2>1, RowIsLine
  <2>3. CellAt(t, t.start + r, c) = Blank
    BY <2>2, EmptyShown
  <2> QED  BY <2>3 DEF Fine
<1>5. Settled(t)
  BY <1>3, <1>4 DEF Settled, BarsAt
<1>6. BootLeft(t)
  <2>1. t.y - t.start = t.y
    BY <1>1
  <2> QED  BY <2>1 DEF BootLeft
<1>7. Holds(t, lines)
  <2>1. ASSUME NEW l \in 0 .. t.y
        PROVE  Shown(t, l) = lines[Len(lines) - t.y + l]
    <3>1. l \in Lines
      BY <1>1, Sizes DEF Lines
    <3>2. Len(lines) - t.y + l \in 1 .. Len(lines)
      BY <1>1
    <3> QED  BY <3>1, <3>2, EmptyShown
  <2>2. Len(lines) > t.y
    BY <1>1
  <2> QED  BY <2>1, <2>2 DEF Holds
<1>8. AtEnd(t)
  BY <1>1, <1>2 DEF AtEnd
<1> QED  BY <1>5, <1>6, <1>7, <1>8 DEF Kept

LEMMA NewLineIs == NewLine \in ShownLines
BY DEF NewLine, ShownLines, GlyphChars

\* An empty buffer has as many lines and cells as every other.
LEMMA EmptyBuffer ==
  ASSUME NEW e, e = init_empty_screen_buffer
  PROVE  /\ e.cell \in [Addresses -> CellChars] /\ e.amount \in [Lines -> Amounts]
         /\ \A l \in Lines : e.amount[l] = 0
<1>1. e.cell = [a \in Addresses |-> Nul] /\ e.amount = [l \in Lines |-> 0]
  BY DEF init_empty_screen_buffer
<1>2. Nul \in CellChars /\ 0 \in Amounts
  BY Sizes DEF CellChars, Amounts
<1> QED  BY <1>1, <1>2

\* A frame buffer of boot glyphs and blanks.
LEMMA PlainFb ==
  ASSUME NEW fb, fb = [r \in Rows |-> [c \in Cols |-> fb[r][c]]],
         \A r \in Rows, c \in Cols : fb[r][c] \in {Glyph(Boot, NoBar), Glyph(Blank, NoBar)}
  PROVE  /\ fb \in [Rows -> [Cols -> Glyphs]]
         /\ \A r \in Rows, c \in Cols :
              /\ fb[r][c].char \in {Boot, Blank} /\ fb[r][c].bar = NoBar
              /\ fb[r][c] = Glyph(Boot, NoBar) => fb[r][c].char = Boot
<1>1. ASSUME NEW char \in {Boot, Blank}
      PROVE  /\ Glyph(char, NoBar) \in Glyphs
             /\ Glyph(char, NoBar).char = char /\ Glyph(char, NoBar).bar = NoBar
  <2>1. char \in GlyphChars
    BY DEF GlyphChars
  <2>2. NoBar \in Int
    BY Sizes DEF NoBar
  <2> QED  BY <2>1, <2>2, GlyphIs
<1>2. ASSUME NEW r \in Rows, NEW c \in Cols
      PROVE  /\ fb[r][c] \in Glyphs
             /\ fb[r][c].char \in {Boot, Blank} /\ fb[r][c].bar = NoBar
             /\ fb[r][c] = Glyph(Boot, NoBar) => fb[r][c].char = Boot
  BY <1>1
<1> QED  BY <1>2

LEMMA InitIsGood == Init => Good(s, input, transcript)
<1> SUFFICES ASSUME Init
             PROVE  Good(s, input, transcript)
  OBVIOUS
<1>1. PICK x \in Cols, y \in Rows :
        /\ s = [cell |-> init_empty_screen_buffer.cell, amount |-> init_empty_screen_buffer.amount,
                start |-> 0, x |-> x, y |-> y, rx |-> x, ry |-> y, visible |-> FALSE,
                fb |-> [r \in Rows |-> [c \in Cols |->
                         Glyph(IF r < y \/ (r = y /\ c < x) THEN Boot ELSE Blank, NoBar)]],
                behind |-> {}]
        /\ transcript = [l \in 1 .. y + 1 |-> NewLine]
  BY DEF Init
<1>2. PICK e : e = init_empty_screen_buffer
  OBVIOUS
<1>3. /\ e.cell \in [Addresses -> CellChars] /\ e.amount \in [Lines -> Amounts]
      /\ \A l \in Lines : e.amount[l] = 0
  BY <1>2, EmptyBuffer
<1>4. PICK fb : fb = s.fb
  OBVIOUS
<1>5. fb = [r \in Rows |-> [c \in Cols |->
             Glyph(IF r < y \/ (r = y /\ c < x) THEN Boot ELSE Blank, NoBar)]]
  BY <1>1, <1>4
<1>6. /\ fb = [r \in Rows |-> [c \in Cols |-> fb[r][c]]]
      /\ \A r \in Rows, c \in Cols :
           /\ fb[r][c] \in {Glyph(Boot, NoBar), Glyph(Blank, NoBar)}
           /\ r = y /\ c < x => fb[r][c] = Glyph(Boot, NoBar)
  BY <1>5
<1>7. /\ fb \in [Rows -> [Cols -> Glyphs]]
      /\ \A r \in Rows, c \in Cols :
           /\ fb[r][c].char \in {Boot, Blank} /\ fb[r][c].bar = NoBar
           /\ fb[r][c] = Glyph(Boot, NoBar) => fb[r][c].char = Boot
  BY <1>6, PlainFb
<1>8. x \in Int /\ y \in Nat /\ y + 1 \in Nat
  BY Sizes DEF Cols, Rows
<1>9. s \in Screens
  <2>1. s = [cell |-> e.cell, amount |-> e.amount, start |-> 0, x |-> x, y |-> y, rx |-> x, ry |-> y,
             visible |-> FALSE, fb |-> fb, behind |-> {}]
    BY <1>1, <1>2, <1>4, <1>5
  <2> QED  BY <1>3, <1>7, <1>8, <2>1 DEF Screens
<1>10. /\ s.x = x /\ s.y = y /\ s.rx = x /\ s.ry = y /\ s.start = 0 /\ s.amount = e.amount
  BY <1>1, <1>2
<1>11. ASSUME NEW r \in Rows, NEW c \in Cols
       PROVE  /\ ~ HasBar(s, r, c) /\ CharAt(s, r, c) \in {Boot, Blank}
              /\ r = s.y /\ c < s.x => CharAt(s, r, c) = Boot
  <2>1. r = s.y /\ c < s.x => fb[r][c] = Glyph(Boot, NoBar)
    BY <1>6, <1>10
  <2> QED  BY <1>4, <1>7, <2>1 DEF HasBar, BarOf, CharAt
<1>12. /\ transcript \in Seq(ShownLines) /\ Len(transcript) = s.y + 1
       /\ \A i \in 1 .. Len(transcript) : transcript[i] = NewLine
  <2>1. transcript \in [1 .. y + 1 -> ShownLines]
    BY <1>1, NewLineIs
  <2>2. transcript \in Seq(ShownLines) /\ Len(transcript) = y + 1
    BY <1>1, <1>8, <2>1, NewLineIs
  <2> QED  BY <1>1, <1>10, <2>2
<1>13. Kept(s, transcript) /\ AtEnd(s)
  BY <1>3, <1>9, <1>10, <1>11, <1>12, EmptyIsKept
<1>14. Placed(s, input)
  <2>1. 0 \in Cols
    BY Sizes DEF Cols
  <2> QED  BY <1>13, <2>1, Sizes DEF Init, Placed, Counted, Inputs
<1> QED  BY <1>13, <1>14 DEF Good

LEMMA ClearIsGood ==
  ASSUME Good(s, input, transcript), clearScreen
  PROVE  Good(s, input, transcript)'
<1>1. /\ s \in Screens /\ s.visible \in BOOLEAN
  BY KeptFacts DEF Good
<1>2. PICK e : e = init_empty_screen_buffer
  OBVIOUS
<1>3. /\ e.cell \in [Addresses -> CellChars] /\ e.amount \in [Lines -> Amounts]
      /\ \A l \in Lines : e.amount[l] = 0
  BY <1>2, EmptyBuffer
<1>4. PICK fb : fb = [r \in Rows |-> [c \in Cols |-> Glyph(Blank, NoBar)]]
  OBVIOUS
<1>5. /\ fb = [r \in Rows |-> [c \in Cols |-> fb[r][c]]]
      /\ \A r \in Rows, c \in Cols : fb[r][c] \in {Glyph(Boot, NoBar), Glyph(Blank, NoBar)}
  BY <1>4
<1>6. /\ fb \in [Rows -> [Cols -> Glyphs]]
      /\ \A r \in Rows, c \in Cols : fb[r][c].char \in {Boot, Blank} /\ fb[r][c].bar = NoBar
  BY <1>5, PlainFb
<1>8. PICK t : t = [s EXCEPT !.cell = e.cell, !.amount = e.amount, !.start = 0, !.fb = fb,
                             !.x = 0, !.y = 0, !.rx = 0, !.ry = 0, !.behind = {}]
  OBVIOUS
<1>9. s' = t
  BY <1>2, <1>4, <1>8 DEF clearScreen
<1>10. /\ t \in Screens /\ t.x = 0 /\ t.y = 0 /\ t.rx = 0 /\ t.ry = 0 /\ t.start = 0
       /\ t.amount = e.amount /\ t.fb = fb
  <2>1. 0 \in Int /\ 0 \in Nat /\ {} \in SUBSET Lines
    OBVIOUS
  <2> QED  BY <1>1, <1>3, <1>6, <1>8, <2>1 DEF Screens
<1>11. 0 \in Cols /\ 0 \in Rows
  BY Sizes DEF Cols, Rows
<1>12. ASSUME NEW r \in Rows, NEW c \in Cols
       PROVE  /\ ~ HasBar(t, r, c) /\ CharAt(t, r, c) \in {Boot, Blank}
              /\ ~ (c < t.x)
  <2>1. ~ (c < 0)
    BY Sizes DEF Cols
  <2> QED  BY <1>6, <1>10, <2>1 DEF HasBar, BarOf, CharAt
<1>13. PICK lines : lines = <<NewLine>>
  OBVIOUS
<1>14. lines \in Seq(ShownLines) /\ Len(lines) = 1 /\ \A i \in 1 .. 1 : lines[i] = NewLine
  BY <1>13, NewLineIs
<1>15. Kept(t, lines) /\ AtEnd(t)
  <2>1. Len(lines) = t.y + 1 /\ \A i \in 1 .. Len(lines) : lines[i] = NewLine
    BY <1>10, <1>14
  <2> QED  BY <1>3, <1>10, <1>11, <1>12, <1>14, <2>1, EmptyIsKept
<1>16. Placed(t, input)
  BY <1>15 DEF clearScreen, Good, Placed
<1>17. transcript' = lines /\ input' = input
  BY <1>13 DEF clearScreen
<1> QED  BY <1>9, <1>15, <1>16, <1>17 DEF Good

LEMMA TickIsGood ==
  ASSUME Good(s, input, transcript), Tick
  PROVE  Good(s, input, transcript)'
<1>1. /\ s \in Screens /\ s.visible \in BOOLEAN /\ s.y \in Lines /\ s.ry = s.y /\ s.rx = s.x
      /\ OnScreen(s) /\ Kept(s, transcript) /\ s.x \in Int
  BY KeptFacts DEF Good
<1>2. PICK b \in BOOLEAN : b = ~ s.visible
  OBVIOUS
<1>3. PICK t : t = [s EXCEPT !.visible = b]
  OBVIOUS
<1>4. /\ t \in Screens /\ t.cell = s.cell /\ t.amount = s.amount /\ t.start = s.start
      /\ t.x = s.x /\ t.y = s.y /\ t.rx = s.rx /\ t.ry = s.ry
      /\ t.fb = s.fb /\ t.behind = s.behind
  BY <1>1, <1>3 DEF Screens
<1>5. PICK u : u = update_cursor_render(t)
  OBVIOUS
<1>6. s' = u /\ input' = input /\ transcript' = transcript
  BY <1>2, <1>3, <1>5 DEF Tick
<1>7. OnScreen(t) /\ t.ry \in Lines
  BY <1>1, <1>4 DEF OnScreen
<1>8. Shows(t)
  BY <1>1, <1>4 DEF Kept, Settled, Shows, Fine, CharAt, CellAt
<1>9. BarsAt(t)
  BY <1>1, <1>4 DEF Kept, Settled, BarsAt, HasBar, BarOf
<1>10. /\ Settled(u) /\ SameBuffer(t, u)
       /\ \A r \in Rows, c \in Cols :
            \/ CharAt(u, r, c) \in {CharAt(t, r, c), Smeared}
            \/ r = t.ry - t.start /\ c = t.rx
  BY <1>4, <1>5, <1>7, <1>8, <1>9, CursorIs
<1>11. u.cell = s.cell /\ u.amount = s.amount /\ u.start = s.start /\ u.x = s.x /\ u.y = s.y
  BY <1>4, <1>10 DEF SameBuffer
<1>12. BootLeft(u)
  <2> SUFFICES ASSUME NEW r \in Rows, NEW c \in Cols,
                      r = s.y - s.start, s.amount[s.y] <= c, c < s.x
               PROVE  CharAt(u, r, c) \in {Boot, Smeared}
    BY <1>11 DEF BootLeft
  <2>1. CharAt(s, r, c) \in {Boot, Smeared}
    BY <1>1 DEF Kept, BootLeft
  <2>2. c # s.x
    BY <1>1, Sizes DEF Cols
  <2>3. CharAt(t, r, c) = CharAt(s, r, c)
    BY <1>4 DEF CharAt
  <2> QED  BY <1>1, <1>4, <1>10, <2>1, <2>2, <2>3
<1>13. Holds(u, transcript)
  <2>1. \A l : Shown(u, l) = Shown(s, l)
    BY <1>11, ShownSame
  <2> QED  BY <1>1, <1>11, <2>1 DEF Kept, Holds
<1>14. Placed(u, input)
  BY <1>11 DEF Good, Placed, AtEnd, Home
<1> QED  BY <1>6, <1>10, <1>12, <1>13, <1>14 DEF Good, Kept
-----------------------------------------------------------------------------
(* The inductive invariant and the properties that follow from it. *)

IInv == Good(s, input, transcript)

LEMMA IInvNext == IInv /\ [Next]_vars => IInv'
<1> SUFFICES ASSUME IInv, [Next]_vars
             PROVE  IInv'
  OBVIOUS
<1>1. CASE \E char \in Chars : WriteChar(char)
  BY <1>1, WriteCharIsGood DEF IInv
<1>2. CASE Newline
  BY <1>2, NewlineIsGood DEF IInv
<1>3. CASE \E n \in 0 .. MAX_INPUT : newTerminalInputLine(n)
  BY <1>3, NewInputIsGood DEF IInv
<1>4. CASE Leave
  BY <1>4, LeaveIsGood DEF IInv
<1>5. CASE \E char \in Chars : insert_char_at_cursor(char)
  BY <1>5, InsertIsGood DEF IInv
<1>6. CASE handle_input_buffer_deletion
  BY <1>6, DeleteIsGood DEF IInv
<1>7. CASE \E n \in 0 .. MAX_INPUT : handle_show_history(n)
  BY <1>7, HistoryIsGood DEF IInv
<1>8. CASE cursor_move_inline
  BY <1>8, MoveIsGood DEF IInv
<1>9. CASE clearScreen
  BY <1>9, ClearIsGood DEF IInv
<1>10. CASE Tick
  BY <1>10, TickIsGood DEF IInv
<1>11. CASE UNCHANGED vars
  BY <1>11 DEF IInv, Good, Kept, Placed, Settled, vars, OnScreen, Shows, Fine, CellAt, BarsAt, BootLeft,
     Holds, Shown, Counted, AtEnd, Home, CharAt, HasBar, BarOf
<1> QED  BY <1>1, <1>2, <1>3, <1>4, <1>5, <1>6, <1>7, <1>8, <1>9, <1>10, <1>11 DEF Next

LEMMA Reachable == Spec => []IInv
<1>1. Init => IInv
  BY InitIsGood DEF IInv
<1> QED  BY <1>1, IInvNext, PTL DEF Spec
-----------------------------------------------------------------------------
\* The cursor stays within the stored lines, never left of the first cell of the buffer,
\* and no line outgrows the columns the input can give it.
THEOREM ScreenTypeOK == Spec => []TypeOK
<1>1. IInv => TypeOK
  <2> SUFFICES ASSUME IInv
               PROVE  TypeOK
    OBVIOUS
  <2>1. /\ s \in Screens /\ s.y \in Lines /\ s.ry = s.y /\ s.rx = s.x /\ s.x \in Int
        /\ s.start \in Nat /\ s.start <= SCROLL_HISTORY_LINES /\ s.visible \in BOOLEAN
        /\ s.y \in Nat /\ s.amount \in [Lines -> Amounts]
    BY KeptFacts DEF IInv, Good, OnScreen
  <2>2. Placed(s, input)
    BY DEF IInv, Good
  <2>3. /\ input \in Inputs /\ input.pos <= input.length /\ input.length <= MAX_INPUT
        /\ input.todo > 0 => input.pos = input.length /\ input.todo <= input.length
    BY <2>2 DEF Placed, Counted
  <2>4. /\ input.pos \in Nat /\ input.length \in Nat /\ input.todo \in Nat
        /\ input.phase \in {"print", "input"}
    BY <2>3 DEF Inputs
  <2>5. Place(s.y, 0) \in Nat
    BY <2>1, Bases
  <2>6. s.amount[s.y] \in Amounts /\ \A l \in Lines : s.amount[l] \in 0 .. MAX_CHARS + MAX_INPUT
    BY <2>1 DEF Amounts
  <2>7. s.x \in -Place(s.y, 0) .. MAX_CHARS + MAX_INPUT
    <3>1. PICK a \in Nat : a = Place(s.y, 0)
      BY <2>5
    <3>2. CASE input.phase = "print" \/ input.todo > 0
      <4>1. 0 <= s.x /\ s.x < MAX_CHARS
        BY <2>2, <3>2 DEF Placed, AtEnd
      <4> QED  BY <2>1, <3>1, <4>1, Sizes
    <3>3. CASE input.phase = "input" /\ input.todo = 0
      <4>1. /\ 0 <= a + (s.x - input.pos) /\ s.amount[s.y] = s.x + input.length - input.pos
        BY <2>1, <2>2, <2>4, <3>1, <3>3 DEF Placed, Home
      <4>2. s.amount[s.y] <= MAX_CHARS + MAX_INPUT /\ s.amount[s.y] \in Nat
        BY <2>6, Sizes DEF Amounts
      <4>3. -a <= s.x /\ s.x <= MAX_CHARS + MAX_INPUT
        BY <2>1, <2>3, <2>4, <4>1, <4>2, Sizes
      <4> QED  BY <2>1, <3>1, <4>3, Sizes
    <3> QED  BY <2>4, <3>2, <3>3
  <2> QED  BY <2>1, <2>3, <2>4, <2>6, <2>7, Sizes DEF TypeOK
<1> QED  BY <1>1, Reachable, PTL

\* The screen shows the visible part of the buffer: but for what a cursor left of the
\* screen is drawn over and for lines inserted into from the line below, no glyph is left
\* behind when lines wrap, scroll, are dropped, edited, recalled or cleared.
THEOREM ScreenIsBuffer == Spec => []ScreenShowsBuffer
<1>1. IInv => ScreenShowsBuffer
  BY DEF IInv, Good, Kept, Settled, Shows, Fine, CharAt, ScreenShowsBuffer
<1> QED  BY <1>1, Reachable, PTL

\* The cursor's line is on the screen, with a row above it when the cursor is left of the
\* first column, so render_cursor draws within the frame buffer although it checks neither
\* row nor column, and no other bar is left on the screen.
THEOREM CursorIsAlone == Spec => []OneCursor
<1>1. IInv => OneCursor
  <2> SUFFICES ASSUME IInv
               PROVE  OneCursor
    OBVIOUS
  <2>1. /\ s \in Screens /\ OnScreen(s) /\ s.rx = s.x /\ s.ry = s.y /\ BarsAt(s)
        /\ \A r \in Rows, c \in Cols : HasBar(s, r, c) => s.visible = TRUE
    BY DEF IInv, Good, Kept, Settled
  <2>2. s.y - s.start \in Rows
    BY <2>1, LineIs
  <2>3. ASSUME NEW r \in Rows, NEW c \in Cols, s.fb[r][c].bar # NoBar
        PROVE  s.visible /\ s.fb[r][c].bar = s.x /\ c \in Columns(s.x) /\ r = s.y - s.start
    <3>1. HasBar(s, r, c)
      BY <2>3 DEF HasBar, BarOf
    <3>2. s.visible
      <4>1. s.visible = TRUE
        BY <2>1, <3>1
      <4> QED  BY <4>1, Zenon
    <3>3. BarOf(s, r, c) = s.x /\ c \in Columns(s.x) /\ r = s.y - s.start
      BY <2>1, <3>1 DEF BarsAt
    <3> QED  BY <3>2, <3>3 DEF BarOf
  <2>4. s.x < 0 => s.y > s.start
    BY <2>1 DEF OnScreen
  <2> QED  BY <2>2, <2>3, <2>4 DEF OneCursor
<1> QED  BY <1>1, Reachable, PTL

\* The buffer holds the lines written last, in order: scrolling and dropping lose the
\* oldest line and nothing else, and an edit changes only the lines it stores into.
THEOREM BufferHoldsTranscript == Spec => []BufferIsTranscript
<1>1. IInv => BufferIsTranscript
  BY DEF IInv, Good, Kept, Holds, BufferIsTranscript
<1> QED  BY <1>1, Reachable, PTL
-----------------------------------------------------------------------------
=============================================================================
