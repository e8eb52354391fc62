------------------------------ MODULE Terminal ------------------------------
(***************************************************************************)
(* The terminal: scan codes (keyboard.cpp), the line being edited and its  *)
(* image in the screen buffer (terminal.cpp), the command history          *)
(* (cmd_history.cpp), the split into command and arguments (args.cpp) and  *)
(* tab completion (autocomplete.cpp).                                      *)
(*                                                                         *)
(* keyboard_handler runs with interrupts off, so a scan code is one step.  *)
(* Of the screen buffer this module keeps the memory around the row the    *)
(* cursor is in.  The rows of the buffer are contiguous: a negative column *)
(* is a cell of a row above, a column from MAX_CHARS on one of a row below.*)
(***************************************************************************)
EXTENDS Integers, SequencesExt

CONSTANTS
  Keymap,                \* the two characters, plain and shifted, of each key
  Space, LF, NoChar,     \* LF is what the Escape key's code is as a char
  Commands,              \* the names in commands[]
  Prompts,               \* lengths a prompt (path and " >> ") can have
  MAX_CHARS,             \* columns of the screen
  TERMINAL_BUFFER_SIZE,
  MAX_COMMAND_HISTORY,
  Entered                \* bound: the lines that Enter is pressed on, besides empty
                         \* and too long ones

ASSUME TerminalAssumption ==
  /\ MAX_CHARS \in Nat \ {0} /\ TERMINAL_BUFFER_SIZE \in Nat \ {0}
  /\ MAX_COMMAND_HISTORY \in Nat \ {0}
  /\ Prompts \subseteq Nat \ {0}
  /\ IsFiniteSet(Commands)
  /\ \A w \in Commands : w \in Seq(Range(w)) /\ Space \notin Range(w)
  /\ NoChar \notin {"prompt", "other"}     \* the marks below are no characters

VARIABLES
  shift, isExtendedScancode,     \* keyboard.cpp
  ed,                            \* the editor, see Editors
  commandHistory,                \* Len is cmdHistCount
  goThroughHistoryCount,
  log                            \* ghost: the last MAX_COMMAND_HISTORY lines entered

vars == <<shift, isExtendedScancode, ed, commandHistory, goThroughHistoryCount, log>>

\* What can be in a line: typed, or filled in from the name of a command.
Chars ==
  ({Keymap[k][i] : k \in DOMAIN Keymap, i \in 1 .. 2} \ {NoChar}) \cup UNION {Range(w) : w \in Commands}

Cell(c, i) == [text |-> c, interactable |-> i]
Blank == Cell(NoChar, FALSE)
Prompt == Cell("prompt", FALSE)
Other == Cell("other", FALSE)     \* what is left of earlier rows

Columns == -TERMINAL_BUFFER_SIZE .. MAX_CHARS + TERMINAL_BUFFER_SIZE

(***************************************************************************)
(* The editor: buf is lineInputBuffer up to lineInputLength, pos           *)
(* lineInputCursorPos, start lineInputStart_X, x cursorAt_X, amount and    *)
(* cell the cells of the row, prompt the length of currentPath and " >> ". *)
(* Ghosts: home is the column of the first character of the line, and      *)
(* exact says that the line was put there without a line feed in it and    *)
(* without a store behind lineInputBuffer.                                 *)
(***************************************************************************)
Fresh(p) ==
  [buf |-> <<>>, pos |-> 0, start |-> 0, x |-> 0, amount |-> 0,
   cell |-> [c \in Columns |-> IF c < 0 THEN Other ELSE Blank],
   prompt |-> p, home |-> 0, exact |-> TRUE]
-----------------------------------------------------------------------------
(* print.cpp, as far as the row of the cursor goes *)

newline(e) ==
  [e EXCEPT !.x = 0, !.amount = 0, !.home = @ - MAX_CHARS,
            !.cell = [c \in Columns |-> IF c + MAX_CHARS \in Columns
                                        THEN e.cell[c + MAX_CHARS] ELSE Blank]]

draw_char(e, cell) ==
  [e EXCEPT !.cell[e.x] = cell,
            !.amount = IF e.x + 1 > @ THEN e.x + 1 ELSE @,
            !.x = @ + 1]

handle_automatic_newline(e) == IF e.x >= MAX_CHARS THEN newline(e) ELSE e

print_cell(e, cell) ==
  IF cell.text = LF THEN [newline(e) EXCEPT !.exact = FALSE]
                    ELSE handle_automatic_newline(draw_char(e, cell))

print_chars(e, cells) == FoldLeft(print_cell, e, cells)

Interactable(text) == [i \in 1 .. Len(text) |-> Cell(text[i], TRUE)]
-----------------------------------------------------------------------------
(* terminal.cpp *)

reset_line_input(e) == [e EXCEPT !.buf = <<>>, !.pos = 0]

\* Mutant: the cursor stays where it was in the old line.
clear_input_keeping_cursor(e) ==
  [e EXCEPT !.cell = [c \in Columns |->
                        IF c >= e.start /\ c < e.amount /\ c < MAX_CHARS
                        THEN Blank ELSE e.cell[c]],
            !.amount = e.start, !.pos = 0, !.home = e.start, !.exact = TRUE]

clear_input_on_screen(e) ==
  [e EXCEPT !.cell = [c \in Columns |->
                        IF c >= e.start /\ c < e.amount /\ c < MAX_CHARS
                        THEN Blank ELSE e.cell[c]],
            !.amount = e.start, !.x = e.start, !.pos = 0,
            !.home = e.start, !.exact = TRUE]

\* The rows above a new prompt are forgotten.
newTerminalInputLine(e) ==
  LET f == [e EXCEPT !.cell = [c \in Columns |-> IF c < 0 THEN Other ELSE e.cell[c]]]
      p == print_chars(f, [i \in 1 .. e.prompt |-> Prompt])
  IN  [p EXCEPT !.start = p.x, !.home = p.x, !.exact = TRUE]

\* The terminating 0 of a line of TERMINAL_BUFFER_SIZE characters is stored behind
\* lineInputBuffer, on a variable of the linker's choice.
insert_char_at_cursor(e, c) ==
  [e EXCEPT
     !.buf = InsertAt(@, e.pos + 1, c),
     !.cell = [k \in Columns |-> CASE k = e.x -> Cell(c, TRUE)
                                   [] k > e.x /\ k <= e.amount -> e.cell[k - 1]
                                   [] OTHER -> e.cell[k]],
     !.amount = @ + 1,
     !.pos = @ + 1,
     !.x = @ + 1,
     !.exact = @ /\ Len(e.buf) + 1 < TERMINAL_BUFFER_SIZE]

cursor_move_inline(e, move_right) ==
  CASE move_right /\ e.pos < Len(e.buf) -> [e EXCEPT !.x = @ + 1, !.pos = @ + 1]
    [] ~move_right /\ e.pos # 0 -> [e EXCEPT !.x = @ - 1, !.pos = @ - 1]
    [] OTHER -> e

\* Mutant: what is left of the cursor is deleted, whatever it is.
deletion_unprotected(e) ==
  IF Len(e.buf) = 0 \/ e.x <= 0
  THEN e
  ELSE [e EXCEPT
          !.buf = RemoveAt(@, e.pos),
          !.cell = [k \in Columns |-> CASE k = e.amount - 1 -> Blank
                                        [] k >= e.x - 1 /\ k < e.amount - 1 -> e.cell[k + 1]
                                        [] OTHER -> e.cell[k]],
          !.amount = @ - 1,
          !.pos = @ - 1,
          !.x = @ - 1]

handle_input_buffer_deletion(e) ==
  IF \/ Len(e.buf) = 0 \/ e.pos = 0
     \/ e.x <= 0 \/ ~e.cell[e.x - 1].interactable
  THEN e
  ELSE [e EXCEPT
          !.buf = RemoveAt(@, e.pos),
          !.cell = [k \in Columns |-> CASE k = e.amount - 1 -> Blank
                                        [] k >= e.x - 1 /\ k < e.amount - 1 -> e.cell[k + 1]
                                        [] OTHER -> e.cell[k]],
          !.amount = @ - 1,
          !.pos = @ - 1,
          !.x = @ - 1]

\* To the end of the token, then as many deletions and insertions as it takes.
replaceCurrentToken(e, oldToken, newToken) ==
  LET right(a, i) == IF a.pos < Len(a.buf) /\ a.buf[a.pos + 1] # Space
                     THEN cursor_move_inline(a, TRUE) ELSE a
      delete(a, i) == handle_input_buffer_deletion(a)
      atEnd == FoldLeftDomain(right, e, e.buf)
  IN  FoldLeft(insert_char_at_cursor, FoldLeftDomain(delete, atEnd, oldToken), newToken)
-----------------------------------------------------------------------------
(* args.cpp.  Positions count from 0 there, from 1 here. *)

\* Mutant: a space under the cursor ends the token before it.
getCurrTokenAtSpace(e) ==
  LET spaces == {i \in 1 .. e.pos : i < Len(e.buf) /\ e.buf[i + 1] = Space}
      from == IF spaces = {} THEN 1 ELSE Max(spaces) + 2
      ends == {i \in from .. Len(e.buf) : e.buf[i] = Space}
  IN  SubSeq(e.buf, from, IF ends = {} THEN Len(e.buf) ELSE Min(ends) - 1)

\* The space that starts the token is looked for from the cursor down to position 1;
\* one under the cursor or at position 0 does not count.
getCurrTokenFromBuffer(e) ==
  LET spaces == {i \in 1 .. e.pos - 1 : e.buf[i + 1] = Space}
      from == IF spaces = {} THEN 1 ELSE Max(spaces) + 2
      ends == {i \in from .. Len(e.buf) : e.buf[i] = Space}
  IN  SubSeq(e.buf, from, IF ends = {} THEN Len(e.buf) ELSE Min(ends) - 1)

\* The line up to the first space: what getInputArgs leaves in lineInputBuffer.
getInputArgs(line) ==
  LET ends == {i \in 1 .. Len(line) : line[i] = Space}
  IN  SubSeq(line, 1, IF ends = {} THEN Len(line) ELSE Min(ends) - 1)
-----------------------------------------------------------------------------
(* cmd_history.cpp *)

\* Mutant: the oldest command stays when the history is full.
add_command_dropping_newest(line) ==
  commandHistory' = Append(IF Len(commandHistory) >= MAX_COMMAND_HISTORY
                           THEN Front(commandHistory) ELSE commandHistory, line)

add_command_to_history(line) ==
  commandHistory' = Append(IF Len(commandHistory) >= MAX_COMMAND_HISTORY
                           THEN Tail(commandHistory) ELSE commandHistory, line)

\* Entry number go from the end becomes the line.
handle_show_history(go) ==
  LET text == commandHistory[Len(commandHistory) - go + 1]
      c == clear_input_on_screen(ed)
  IN  [print_chars([c EXCEPT !.buf = text], Interactable(text)) EXCEPT !.pos = Len(text)]
-----------------------------------------------------------------------------
(* keyboard_handler: the codes that are no key presses *)

Init ==
  /\ shift = FALSE /\ isExtendedScancode = FALSE
  /\ \E p \in Prompts : ed = newTerminalInputLine(Fresh(p))
  /\ commandHistory = <<>> /\ goThroughHistoryCount = 0
  /\ log = <<>>

ShiftCode(down) ==
  /\ shift' = down
  /\ UNCHANGED <<isExtendedScancode, ed, commandHistory, goThroughHistoryCount, log>>

ExtendedPrefix ==
  /\ isExtendedScancode' = TRUE
  /\ UNCHANGED <<shift, ed, commandHistory, goThroughHistoryCount, log>>

KeyRelease ==
  /\ isExtendedScancode' = FALSE
  /\ UNCHANGED <<shift, ed, commandHistory, goThroughHistoryCount, log>>
-----------------------------------------------------------------------------
(* terminal_on_key, after the prefix *)

\* Bound: a line that has overrun lineInputBuffer is followed to Enter or to a recall
\* from the history, and not edited.
InBuffer(e) == Len(e.buf) < TERMINAL_BUFFER_SIZE

Extended == isExtendedScancode /\ isExtendedScancode' = FALSE /\ UNCHANGED shift

ArrowUp ==
  /\ Extended
  /\ \/ /\ commandHistory # <<>> /\ goThroughHistoryCount < Len(commandHistory)
        /\ goThroughHistoryCount' = goThroughHistoryCount + 1
        /\ ed' = handle_show_history(goThroughHistoryCount')
     \/ /\ commandHistory = <<>> \/ goThroughHistoryCount >= Len(commandHistory)
        /\ UNCHANGED <<goThroughHistoryCount, ed>>
  /\ UNCHANGED <<commandHistory, log>>

ArrowDown ==
  /\ Extended
  /\ \/ /\ goThroughHistoryCount = 0
        /\ UNCHANGED <<goThroughHistoryCount, ed>>
     \/ /\ goThroughHistoryCount = 1
        /\ goThroughHistoryCount' = 0
        /\ ed' = reset_line_input(clear_input_on_screen(ed))
     \/ /\ goThroughHistoryCount > 1
        /\ goThroughHistoryCount' = goThroughHistoryCount - 1
        /\ ed' = handle_show_history(goThroughHistoryCount')
  /\ UNCHANGED <<commandHistory, log>>

ArrowSideways(move_right) ==
  /\ Extended /\ InBuffer(ed)
  /\ ed' = cursor_move_inline(ed, move_right)
  /\ UNCHANGED <<goThroughHistoryCount, commandHistory, log>>

OtherExtendedKey ==
  /\ Extended
  /\ UNCHANGED <<ed, goThroughHistoryCount, commandHistory, log>>
-----------------------------------------------------------------------------
(* terminal_on_key, plain keys *)

Plain == ~isExtendedScancode /\ UNCHANGED <<shift, isExtendedScancode>>

Type(k) ==
  LET c == Keymap[k][IF shift THEN 2 ELSE 1]
  IN  /\ Plain /\ InBuffer(ed)
      /\ ed' = IF c = NoChar THEN ed ELSE insert_char_at_cursor(ed, c)
      /\ UNCHANGED <<goThroughHistoryCount, commandHistory, log>>

Backspace ==
  /\ Plain /\ InBuffer(ed)
  /\ ed' = handle_input_buffer_deletion(ed)
  /\ UNCHANGED <<goThroughHistoryCount, commandHistory, log>>

LastN(s, n) == SubSeq(s, Max({1, Len(s) - n + 1}), Len(s))

\* A command prints whole lines, clears the screen or, as cd does, changes the prompt.
executeCommand(e) ==
  {[newline(e) EXCEPT !.prompt = p] : p \in Prompts}
    \cup {newline(newline(e)), Fresh(e.prompt)}

displayTerminalError(e) == reset_line_input(newline(newline(e)))

processLineInputBuffer ==
  \/ /\ Len(ed.buf) = 0
     /\ ed' = newTerminalInputLine(reset_line_input(newline(ed)))
     /\ UNCHANGED <<commandHistory, log>>
  \/ /\ Len(ed.buf) >= TERMINAL_BUFFER_SIZE
     /\ ed' = newTerminalInputLine(displayTerminalError(ed))
     /\ UNCHANGED <<commandHistory, log>>
  \/ /\ Len(ed.buf) \in 1 .. TERMINAL_BUFFER_SIZE - 1
     /\ ed.buf \in Entered
     /\ add_command_to_history(ed.buf)
     /\ log' = LastN(Append(log, ed.buf), MAX_COMMAND_HISTORY)
     /\ IF getInputArgs(ed.buf) \in Commands
        THEN \E e \in executeCommand(ed) : ed' = newTerminalInputLine(reset_line_input(e))
        ELSE ed' = newTerminalInputLine(displayTerminalError(ed))

Enter ==
  /\ Plain
  /\ goThroughHistoryCount' = 0
  /\ processLineInputBuffer

\* The candidates for the token at the cursor: one is filled in, several are listed
\* and the line is shown again.
autoComplete(e) ==
  LET token == getCurrTokenFromBuffer(e)
      cannidates == {w \in Commands : IsPrefix(token, w)}
      again == newTerminalInputLine(newline(newline(e)))
  IN  CASE e.buf = <<>> \/ token = <<>> \/ cannidates = {} -> e
        [] e.buf # <<>> /\ token # <<>> /\ Cardinality(cannidates) = 1 ->
             replaceCurrentToken(e, token, CHOOSE w \in cannidates : TRUE)
        [] e.buf # <<>> /\ token # <<>> /\ Cardinality(cannidates) > 1 ->
             [print_chars(again, Interactable(e.buf)) EXCEPT !.pos = Len(e.buf)]

handleTabAutoCompletion ==
  /\ Plain /\ InBuffer(ed)
  /\ ed' = autoComplete(ed)
  /\ Len(ed'.buf) <= TERMINAL_BUFFER_SIZE
  /\ UNCHANGED <<goThroughHistoryCount, commandHistory, log>>

Next ==
  \/ \E down \in BOOLEAN : ShiftCode(down)
  \/ ExtendedPrefix \/ KeyRelease
  \/ ArrowUp \/ ArrowDown \/ OtherExtendedKey
  \/ \E right \in BOOLEAN : ArrowSideways(right)
  \/ \E k \in DOMAIN Keymap : Type(k)
  \/ Backspace \/ Enter \/ handleTabAutoCompletion

Spec == Init /\ [][Next]_vars
-----------------------------------------------------------------------------
\* Type invariant; the text cursor is in the line.
TypeOK ==
  /\ shift \in BOOLEAN /\ isExtendedScancode \in BOOLEAN
  /\ ed.buf \in Seq(Chars) /\ ed.pos \in 0 .. Len(ed.buf)
  /\ ed.x \in Columns /\ ed.amount \in Columns
  /\ ed.start \in 0 .. MAX_CHARS - 1
  /\ Len(commandHistory) <= MAX_COMMAND_HISTORY
  /\ goThroughHistoryCount \in Nat

\* The line on the screen is the line in the buffer, cell by cell, with the cursor at
\* the same character, through wrapped lines, history and completion.
LineOnScreen ==
  ed.exact =>
    /\ ed.x = ed.home + ed.pos
    /\ ed.amount = ed.home + Len(ed.buf)
    /\ \A i \in 1 .. Len(ed.buf) : ed.cell[ed.home + i - 1] = Cell(ed.buf[i], TRUE)

\* "Protected prompt chars": typing and deleting leave the cells of the prompt alone,
\* also in a line that an Escape typed into it has broken in two on the screen.
PromptProtected ==
  [][(Backspace \/ \E k \in DOMAIN Keymap : Type(k)) =>
       \A c \in Columns : ed.cell[c] = Prompt => ed'.cell[c] = Prompt]_vars

\* The history is the last commands as they were entered, arguments included, and
\* browsing never leaves it.
HistoryIsSuffix ==
  /\ commandHistory = log
  /\ goThroughHistoryCount <= Len(commandHistory)

\* t, between l and r, is the word the cursor is in or right behind.
IsWordAt(l, t, r, e) ==
  /\ e.buf = l \o t \o r
  /\ Len(l) <= e.pos /\ e.pos <= Len(l) + Len(t)
  /\ Space \notin Range(t)
  /\ l = <<>> \/ Last(l) = Space
  /\ r = <<>> \/ Head(r) = Space

Splits(s) ==
  {<<SubSeq(s, 1, i), SubSeq(s, i + 1, j), SubSeq(s, j + 1, Len(s))>> :
     i \in 0 .. Len(s), j \in 0 .. Len(s)}

\* Completion replaces the word at the cursor, also in the middle of a line or with
\* the cursor on the space behind the word, and nothing else.  Behind a single leading
\* space it may do nothing (the word that is looked at is then the empty one).
TabCompletes ==
  ed.exact /\ ed.home >= 0 =>
    \A f \in Splits(ed.buf), w \in Commands :
      LET e == autoComplete(ed)
      IN  /\ f[2] # <<>> /\ IsWordAt(f[1], f[2], f[3], ed)
          /\ {v \in Commands : IsPrefix(f[2], v)} = {w}
          => \/ e.buf = f[1] \o w \o f[3] /\ e.pos = Len(f[1] \o w)
             \/ f[1] = <<Space>> /\ e = ed

\* lineInputBuffer holds the line and its terminating 0 ("Command exceeds ... chars").
LineFitsBuffer == Len(ed.buf) < TERMINAL_BUFFER_SIZE
=============================================================================
