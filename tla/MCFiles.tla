------------------------------ MODULE MCFiles ------------------------------
(* Volumes with up to three items in the root and one in a subdirectory.  Clusters of *)
(* two bytes: files that end before, at and behind the end of a cluster.              *)
EXTENDS Files

Disk(signed, types) == [signed |-> signed, types |-> types]

MCMachines ==
  {<<>>,
   <<Disk(TRUE, <<"x07", "x06", "x01", "xEE">>)>>,
   <<Disk(FALSE, <<"x0B", "x0B", "x0B", "x0B">>), Disk(TRUE, <<"x83", "x0C", "x0B", "x00">>)>>}

Item(long, base, ext) ==
  [long |-> long, base |-> base, ext |-> ext, dir |-> FALSE, label |-> FALSE,
   deleted |-> FALSE, first |-> 0, size |-> 0]

File(item, first, size) == [item EXCEPT !.first = first, !.size = size]

OneByte == File(Item(<<>>, <<"A", " ">>, <<" ">>), 3, 1)
ThreeBytes == File(Item(<<>>, <<"A", " ">>, <<"B">>), 4, 3)
LongName == File(Item(<<<<"b">>>>, <<"B", "B">>, <<" ">>), 6, 2)
Sub == [Item(<<>>, <<"D", " ">>, <<" ">>) EXCEPT !.dir = TRUE, !.first = 7]
Label == [Item(<<>>, <<"A", "B">>, <<" ">>) EXCEPT !.label = TRUE]
Empty == Item(<<>>, <<"B", " ">>, <<" ">>)
TwoPieces == File(Item(<<<<"a", "b">>, <<"a">>>>, <<"A", "A">>, <<" ">>), 8, 1)
Deleted == [File(Item(<<<<"a", "b">>>>, <<"B", "A">>, <<" ">>), 4, 1) EXCEPT !.deleted = TRUE]

InSub == File(Item(<<>>, <<"A", " ">>, <<" ">>), 9, 4)

Volume(rootItems, subItems) ==
  [root |-> 2,
   dirs |-> [c \in {2, 7} |-> IF c = 2 THEN rootItems ELSE subItems],
   fat |-> [c \in 2 .. 10 |-> CASE c = 4 -> 5 [] c = 9 -> 10 [] OTHER -> EOC_START],
   data |-> [c \in {3, 4, 5, 6, 8, 9, 10} |-> <<2 * c, 2 * c + 1>>]]

Roots(templates, n) ==
  {s \in UNION {[1 .. k -> templates] : k \in 0 .. n} :
     \A i, j \in DOMAIN s : i # j => s[i] # s[j]}

PlainVolumes ==
  {Volume(r, s) : r \in Roots({OneByte, ThreeBytes, LongName, Sub, Label}, 3), s \in {<<>>, <<InSub>>}}

LongVolumes == {Volume(r, <<>>) : r \in Roots({OneByte, LongName, TwoPieces}, 2)}
DeletedVolumes == {Volume(r, <<>>) : r \in Roots({OneByte, ThreeBytes, Deleted}, 2)}
EmptyVolumes == {Volume(r, <<>>) : r \in Roots({OneByte, Empty}, 2)}

\* Directories of five entries: the last item is cut in two, or is in the second cluster.
WideVolumes ==
  {Volume(r, <<InSub>>) : r \in {<<OneByte, ThreeBytes, Sub, LongName>>,
                                 <<LongName, Sub, OneByte, ThreeBytes>>,
                                 <<LongName, OneByte, ThreeBytes, Sub>>}}


MCVolumes == PlainVolumes \cup LongVolumes \cup DeletedVolumes \cup EmptyVolumes \cup WideVolumes

MCCdArgs == {<<>>, <<"d">>, <<"/", "d">>, <<"/", "d", "/">>, <<"d", "/">>, <<"/", "/", "/">>}
MCReadArgs == {<<>>, <<"a">>, <<"b">>, <<"a", ".", "b">>, <<"d", "/", "a">>, <<"d">>, <<"a", "b">>}

Letters == [A |-> "a", B |-> "b", D |-> "d"]
=============================================================================
