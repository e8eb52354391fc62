----------------------------- MODULE MCTerminal -----------------------------
EXTENDS Terminal

\* A letter with its shifted form, the space bar, Escape and a code without character.
Keys == [letter |-> <<"a", "A">>, space |-> <<Space, Space>>,
         escape |-> <<LF, LF>>, none |-> <<NoChar, NoChar>>]

\* "a" is a prefix of one name, "A" of two.
Names == {<<"a", "b">>, <<"A">>, <<"A", "b">>}

\* A command followed by a space; an Escape and a letter, which is no command.
Lines == {<<"A", Space>>, <<LF, "a">>}
=============================================================================
