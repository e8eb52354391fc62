------------------------------- MODULE Screen -------------------------------
(***************************************************************************)
(* The text screen: print.cpp, screenBuffer.cpp, clear.cpp, the cursor     *)
(* blinking of timer_handler and what terminal.cpp does to the screen.     *)
(* The screen buffer keeps more lines than are visible; the frame buffer   *)
(* is written glyph by glyph and cursor bar by cursor bar and never read,  *)
(* so everything on it must have been drawn there.                         *)
(*                                                                         *)
(* The cells of all lines are one block of memory: a column left or right  *)
(* of the screen is a cell of another line.  A typed line may reach beyond *)
(* the right edge; on a recalled command that wrapped the cursor may stand *)
(* left of column 0.                                                       *)
(*                                                                         *)
(* The handlers run with interrupts off and print many characters.  Here   *)
(* every character is a step and the timer may tick between any two.       *)
(***************************************************************************)
EXTENDS Integers, Sequences

CONSTANTS
  Chars,
  MAX_CHARS, MAX_LINES,      \* columns and rows of the frame buffer
  FONT_W, ADJUSTED_WIDTH,    \* pixels in the width of a glyph and of the frame buffer
  SCROLL_HISTORY_LINES,
  MAX_INPUT,                 \* bound: characters of an input line
  MAX_TRANSCRIPT             \* bound: lines written since the screen was cleared

maxStoredLines == MAX_LINES + SCROLL_HISTORY_LINES

\* A wrapped command fits into the buffer and the frame buffer has more than one row.
ASSUME ScreenAssumption ==
  /\ FONT_W \in Nat \ {0} /\ ADJUSTED_WIDTH \in Nat
  /\ MAX_CHARS \in Nat \ {0} /\ MAX_CHARS = ADJUSTED_WIDTH \div FONT_W
  /\ MAX_LINES \in Nat \ {0, 1} /\ SCROLL_HISTORY_LINES \in Nat \ {0}
  /\ MAX_INPUT \in Nat /\ MAX_INPUT <= (maxStoredLines - 1) * MAX_CHARS
  /\ MAX_TRANSCRIPT \in Nat

Nul == "nul"       \* a cell of memory_clear
Blank == " "
Boot == "boot"     \* drawn before there was a screen buffer, and not kept in it
Smeared == "smeared"   \* drawn over by a glyph of a column left of the screen

VARIABLES
  s,           \* the screen, see below
  input,       \* the input line: start (lineInputStart_X), pos (lineInputCursorPos),
               \* length (lineInputLength), todo: characters of a recalled line still
               \* to be printed, phase: "print" while commands and prompts print
  transcript   \* ghost: the lines written since the screen was cleared, as shown

vars == <<s, input, transcript>>

(***************************************************************************)
(* cell: the cells of all lines; amount[l]: amountOfCells of line l;       *)
(* start: startRenderLine; x, y: cursorAt; rx, ry: cursorRendered;         *)
(* visible: cursor_visible; fb[r][c]: the glyph at row r and column c of   *)
(* the frame buffer, and for which column a cursor bar is drawn over it;   *)
(* behind: ghost, the lines stored into and not drawn again.               *)
(***************************************************************************)
Lines == 0 .. maxStoredLines - 1
Rows == 0 .. MAX_LINES - 1
Cols == 0 .. MAX_CHARS - 1

\* The address of lines[l].cells[c].
Place(l, c) == l * MAX_CHARS + c

\* The buffer and what a line that is too long reaches behind it.
Addresses == 0 .. maxStoredLines * MAX_CHARS + MAX_INPUT

init_empty_screen_buffer ==
  [cell |-> [a \in Addresses |-> Nul], amount |-> [l \in Lines |-> 0]]

NoBar == MAX_CHARS
Glyph(c, b) == [char |-> c, bar |-> b]

\* What is drawn of a line: its cells and then blanks.
CellAt(t, l, c) == IF c < t.amount[l] THEN t.cell[Place(l, c)] ELSE Blank

Shown(t, l) == [c \in Cols |-> CellAt(t, l, c)]
-----------------------------------------------------------------------------
(* print.cpp *)

\* The columns that pixels drawn for column c end up in: left of the screen is the right
\* end of the pixel line above.
Columns(c) ==
  IF c >= 0 THEN {c} \cap Cols
  ELSE {((c * FONT_W + p) % ADJUSTED_WIDTH) \div FONT_W : p \in 0 .. FONT_W - 1} \cap Cols

\* A glyph of a column left of the screen: too high by some pixel lines, it also touches
\* the row above; a bar goes away if it is that of the same column.
smear(fb, c, row) ==
  [r \in Rows |-> [k \in Cols |->
     IF r \in {row - 1, row} /\ k \in Columns(c)
     THEN Glyph(Smeared, IF r = row /\ fb[r][k].bar = c THEN NoBar ELSE fb[r][k].bar)
     ELSE fb[r][k]]]

\* The glyph at column c of line l, if that line is on the screen; a column is only
\* compared with the right edge.
draw_char(t, char, c, l) ==
  LET row == l - t.start
  IN  IF row \notin Rows \/ c >= MAX_CHARS THEN t
      ELSE [t EXCEPT !.fb = IF c < 0 THEN smear(@, c, row)
                            ELSE [@ EXCEPT ![row][c] = Glyph(char, NoBar)]]

\* Every column of line l is drawn anew.
redraw_line(t, l) ==
  IF l - t.start \in Rows
  THEN [t EXCEPT !.fb[l - t.start] = [c \in Cols |-> Glyph(CellAt(t, l, c), NoBar)]]
  ELSE t

redraw(t) ==
  [t EXCEPT !.fb = [r \in Rows |-> [c \in Cols |-> Glyph(CellAt(t, t.start + r, c), NoBar)]],
            !.rx = t.x, !.ry = t.y, !.behind = {}]

\* No check that the row and the column are on the screen: OneCursor.
render_cursor(t) ==
  [t EXCEPT !.fb[t.y - t.start] =
     [c \in Cols |-> IF c \in Columns(t.x) THEN Glyph(@[c].char, t.x) ELSE @[c]]]

\* Mutant: the old cursor is not taken away.
update_cursor_only_draws(t) ==
  [(IF t.visible THEN render_cursor(t) ELSE t) EXCEPT !.rx = t.x, !.ry = t.y]

\* The glyph under the old cursor comes back, the new cursor is drawn.
update_cursor_render(t) ==
  LET restored == draw_char(t, CellAt(t, t.ry, t.rx), t.rx, t.ry)
      u == IF t.visible THEN render_cursor(restored) ELSE restored
  IN  [u EXCEPT !.rx = t.x, !.ry = t.y]

\* The cells of all lines are copied, as many as the line has, to the line above.
LinesMovedUp(t) ==
  [a \in Addresses |->
     IF \E l \in Lines : l < maxStoredLines - 1 /\ a - Place(l, 0) \in 0 .. t.amount[l + 1] - 1
     THEN t.cell[a + MAX_CHARS] ELSE t.cell[a]]

\* Mutant: the last line is not emptied for the new one.
drop_line_keeping_last(t) ==
  [t EXCEPT !.cell = LinesMovedUp(t),
            !.amount = [l \in Lines |-> IF l < maxStoredLines - 1 THEN @[l + 1] ELSE @[l]],
            !.start = IF @ > 0 THEN @ - 1 ELSE @,
            !.y = @ - 1]

\* Mutant: the visible part stays where it is.
drop_line_keeping_start(t) ==
  [t EXCEPT !.cell = LinesMovedUp(t),
            !.amount = [l \in Lines |-> IF l < maxStoredLines - 1 THEN @[l + 1] ELSE 0],
            !.y = @ - 1]

\* The oldest line goes, all others move up, the last one is empty.
DropOldestLine(t) ==
  [t EXCEPT !.cell = LinesMovedUp(t),
            !.amount = [l \in Lines |-> IF l < maxStoredLines - 1 THEN @[l + 1] ELSE 0],
            !.start = IF @ > 0 THEN @ - 1 ELSE @,
            !.y = @ - 1]

ShiftLinesUp(t) ==
  IF t.y >= t.start + MAX_LINES THEN redraw([t EXCEPT !.start = @ + 1]) ELSE t

handle_scroll(t) ==
  update_cursor_render(ShiftLinesUp(IF t.y >= maxStoredLines THEN DropOldestLine(t) ELSE t))

newline(t) == handle_scroll([t EXCEPT !.x = 0, !.y = @ + 1])

\* The cell and the glyph at the cursor; cells that were skipped become part of the line.
StoreAndDraw(t, char) ==
  draw_char([t EXCEPT !.cell[Place(t.y, t.x)] = char,
                      !.amount[t.y] = IF t.x + 1 > @ THEN t.x + 1 ELSE @],
            char, t.x, t.y)

Wraps(t) == t.x + 1 >= MAX_CHARS

print_char(t, char) ==
  LET u == update_cursor_render([StoreAndDraw(t, char) EXCEPT !.x = @ + 1])
  IN  IF Wraps(t) THEN newline(u) ELSE u
-----------------------------------------------------------------------------
(* terminal.cpp *)

\* The cells of the cursor's line from the cursor on move one to the right.
insert_cell(t, char) ==
  LET at == Place(t.y, t.x)
  IN  [t EXCEPT !.cell = [a \in Addresses |->
                  CASE a = at -> char
                    [] a \in at + 1 .. Place(t.y, t.amount[t.y]) -> @[a - 1]
                    [] OTHER -> @[a]],
                !.amount[t.y] = @ + 1]

\* The cells behind the cursor move one to the left.
delete_cell(t) ==
  LET last == Place(t.y, t.amount[t.y] - 1)
  IN  [t EXCEPT !.cell = [a \in Addresses |->
                  CASE a = last -> Nul
                    [] a \in Place(t.y, t.x - 1) .. last - 1 -> @[a + 1]
                    [] OTHER -> @[a]],
                !.amount[t.y] = @ - 1]

\* The row ends at column x, also when it is shorter.
cut_line(t, x) ==
  [t EXCEPT !.cell = [a \in Addresses |->
              IF a - Place(t.y, 0) \in x .. t.amount[t.y] - 1 /\ a < Place(t.y, MAX_CHARS)
              THEN Nul ELSE @[a]],
            !.amount[t.y] = x]

\* The edited line is drawn anew and the cursor put to column x.
redraw_edited(t, x) ==
  update_cursor_render([redraw_line(t, t.y) EXCEPT !.x = x, !.behind = @ \ {t.y}])

\* The lines with cells at an address or behind it.
LinesFrom(a) == {l \in Lines : Place(l, MAX_CHARS) > a}
-----------------------------------------------------------------------------
(* The transcript: what is written in the lines of a set is read again. *)

Written(t, lines) ==
  [i \in DOMAIN transcript |->
     LET l == t.y - Len(transcript) + i IN IF l \in lines THEN Shown(t, l) ELSE transcript[i]]

NewLine == [c \in Cols |-> Blank]
-----------------------------------------------------------------------------
\* init_screen_buffer, with what the boot has drawn above and left of the cursor.
Init ==
  /\ \E x0 \in Cols, y0 \in Rows :
       /\ s = [cell |-> init_empty_screen_buffer.cell, amount |-> init_empty_screen_buffer.amount,
               start |-> 0, x |-> x0, y |-> y0, rx |-> x0, ry |-> y0, visible |-> FALSE,
               fb |-> [r \in Rows |-> [c \in Cols |->
                        Glyph(IF r < y0 \/ (r = y0 /\ c < x0) THEN Boot ELSE Blank, NoBar)]],
               behind |-> {}]
       /\ transcript = [l \in 1 .. y0 + 1 |-> NewLine]
  /\ input = [phase |-> "print", start |-> 0, pos |-> 0, length |-> 0, todo |-> 0]

\* Text is printed: by a command, the prompt, or a recalled line.
Printing == input.phase = "print" \/ input.todo > 0
Printed == [input EXCEPT !.todo = IF @ > 0 THEN @ - 1 ELSE @]

\* print_char, and print_chars for one character.
WriteChar(char) ==
  /\ Printing
  /\ Wraps(s) => Len(transcript) < MAX_TRANSCRIPT
  /\ s' = print_char(s, char)
  /\ input' = Printed
  /\ transcript' = Written(StoreAndDraw(s, char), {s.y}) \o (IF Wraps(s) THEN <<NewLine>> ELSE <<>>)

WriteNewline ==
  /\ Len(transcript) < MAX_TRANSCRIPT
  /\ s' = newline(s)
  /\ transcript' = Append(transcript, NewLine)

Newline == Printing /\ WriteNewline /\ input' = Printed

\* newTerminalInputLine after its prompt, and handleTabAutoCompletion that prints the
\* line again, n characters, after the list.
newTerminalInputLine(n) ==
  /\ input.phase = "print" /\ s.x = s.amount[s.y]
  /\ input' = [phase |-> "input", start |-> s.x, pos |-> n, length |-> n, todo |-> n]
  /\ UNCHANGED <<s, transcript>>

Editing == input.phase = "input" /\ input.todo = 0

\* Enter, and Tab before it prints the list: whatever is printed, a newline comes first.
Leave ==
  /\ Editing /\ WriteNewline
  /\ input' = [input EXCEPT !.phase = "print"]

\* Bounds: MAX_INPUT, and rows of at most twice the screen's width.
insert_char_at_cursor(char) ==
  /\ Editing /\ input.length < MAX_INPUT /\ s.amount[s.y] < 2 * MAX_CHARS
  /\ LET t == insert_cell(s, char)
         lines == LinesFrom(Place(s.y, s.x))
         u == [t EXCEPT !.behind = @ \cup (lines \cap 0 .. s.y - 1)]
     IN  /\ s' = redraw_edited(u, s.x + 1)
         /\ transcript' = Written(t, lines)
  /\ input' = [input EXCEPT !.pos = @ + 1, !.length = @ + 1]

handle_input_buffer_deletion ==
  /\ Editing /\ input.pos > 0 /\ s.x > 0
  /\ s' = redraw_edited(delete_cell(s), s.x - 1)
  /\ input' = [input EXCEPT !.pos = @ - 1, !.length = @ - 1]
  /\ transcript' = Written(delete_cell(s), {s.y})

\* handle_show_history with a command of n characters: clear_input_on_screen, and the
\* command is still to be printed.
handle_show_history(n) ==
  /\ Editing
  /\ s' = redraw_edited(cut_line(s, input.start), input.start)
  /\ input' = [input EXCEPT !.pos = n, !.length = n, !.todo = n]
  /\ transcript' = Written(cut_line(s, input.start), {s.y})

\* The position in the input is checked, the column is not.
cursor_move_inline ==
  /\ Editing
  /\ \E d \in {-1, 1} :
       /\ input.pos + d \in 0 .. input.length
       /\ s' = update_cursor_render([s EXCEPT !.x = @ + d])
       /\ input' = [input EXCEPT !.pos = @ + d]
  /\ UNCHANGED transcript

\* cmd_clear
clearScreen ==
  /\ input.phase = "print"
  /\ s' = [s EXCEPT !.cell = init_empty_screen_buffer.cell, !.amount = init_empty_screen_buffer.amount,
                    !.start = 0, !.fb = [r \in Rows |-> [c \in Cols |-> Glyph(Blank, NoBar)]],
                    !.x = 0, !.y = 0, !.rx = 0, !.ry = 0, !.behind = {}]
  /\ transcript' = <<NewLine>>
  /\ UNCHANGED input

\* timer_handler, when the blink interval is over.
Tick ==
  /\ s' = update_cursor_render([s EXCEPT !.visible = ~@])
  /\ UNCHANGED <<input, transcript>>

Next ==
  \/ \E char \in Chars : WriteChar(char)
  \/ Newline
  \/ \E n \in 0 .. MAX_INPUT : newTerminalInputLine(n)
  \/ Leave
  \/ \E char \in Chars : insert_char_at_cursor(char)
  \/ handle_input_buffer_deletion
  \/ \E n \in 0 .. MAX_INPUT : handle_show_history(n)
  \/ cursor_move_inline
  \/ clearScreen
  \/ Tick

Spec == Init /\ [][Next]_vars
-----------------------------------------------------------------------------
\* Type invariant.
TypeOK ==
  /\ s.y \in Lines /\ s.ry \in Lines
  /\ s.x \in -Place(s.y, 0) .. MAX_CHARS + MAX_INPUT /\ s.rx = s.x
  /\ s.start \in 0 .. SCROLL_HISTORY_LINES
  /\ s.visible \in BOOLEAN
  /\ \A l \in Lines : s.amount[l] \in 0 .. MAX_CHARS + MAX_INPUT
  /\ input.pos \in 0 .. input.length /\ input.length \in 0 .. MAX_INPUT

\* The screen shows the visible part of the buffer: no glyph is left behind by
\* wrapping, scrolling, dropping or editing lines ("Stray character rendered at end of
\* line after scrolling output", "History navigation leaving ghost characters").  Two
\* things are excepted: a cell that a cursor left of the screen was drawn over, and the
\* lines a character was inserted into from the line below.
ScreenShowsBuffer ==
  \A r \in Rows, c \in Cols :
    s.start + r \in s.behind \/ s.fb[r][c].char \in {CellAt(s, s.start + r, c), Boot, Smeared}

\* The cursor's line is on the screen, not the first row when the cursor is left of
\* column 0: it is always drawn inside the frame buffer.  There is no cursor bar but the
\* one of the cursor ("Ghost cursor appearing one line above after scroll").
OneCursor ==
  /\ s.y - s.start \in Rows
  /\ s.x < 0 => s.y > s.start
  /\ \A r \in Rows, c \in Cols :
       s.fb[r][c].bar # NoBar =>
         s.visible /\ s.fb[r][c].bar = s.x /\ c \in Columns(s.x) /\ r = s.y - s.start

\* The buffer holds the last lines written, in order, and the cursor is in the last.
BufferIsTranscript ==
  LET n == Len(transcript)
  IN  \A l \in 0 .. s.y : Shown(s, l) = transcript[n - s.y + l]
=============================================================================
