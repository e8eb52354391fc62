----------------------------- MODULE MCStrings -----------------------------
EXTENDS Strings

SomeLiterals == {<<>>, <<"a">>, <<" ">>}
SomeNumbers == {-16, 15}
=============================================================================
