------------------------------- MODULE Fat32 -------------------------------
(***************************************************************************)
(* What is on a FAT32 volume and how the driver of fat32.cpp reads it:     *)
(* directory entries, long and short names, paths.                         *)
(*                                                                         *)
(* Text is a sequence of characters.  A volume is described twice: by its  *)
(* items, what a user put on it, and by the entries that other systems     *)
(* write for them, which is all the driver sees.  Names are ASCII.         *)
(***************************************************************************)
EXTENDS Integers, SequencesExt

CONSTANTS
  LowerCase,       \* upper-case letter -> lower-case letter
  LFN_CHARS,       \* characters of a long-name entry (13)
  DIR_ENTRIES,     \* directory entries of a cluster
  CLUSTER_SIZE,    \* ClusterSizeInBytes
  EOC_START        \* least cluster number that ends a chain

ASSUME Fat32Assumption ==
  /\ LFN_CHARS \in Nat \ {0} /\ DIR_ENTRIES \in Nat \ {0}
  /\ CLUSTER_SIZE \in Nat \ {0} /\ EOC_START \in Nat \ {0, 1, 2}
  /\ "." \notin DOMAIN LowerCase

Slash == "/"
Dot == "."
Space == " "
Pad == "FFFF"      \* what fills the last entry of a long name
E5 == "E5"         \* first byte of the entry of a deleted file
Zero == 0          \* of the bytes of a file
Junk == -2         \* whatever was in memory before

to_lower(c) == IF c \in DOMAIN LowerCase THEN LowerCase[c] ELSE c

str_to_lower(text) == [i \in DOMAIN text |-> to_lower(text[i])]

str_trim(text) ==
  LET ink == {i \in DOMAIN text : text[i] # Space}
  IN  IF ink = {} THEN <<>> ELSE SubSeq(text, Min(ink), Max(ink))

\* str_split at '/': one part more than there are separators.
str_split(text) ==
  LET step(parts, c) ==
        IF c = Slash THEN Append(parts, <<>>)
                     ELSE [parts EXCEPT ![Len(parts)] = Append(@, c)]
  IN  FoldLeft(step, << <<>> >>, text)

\* Up to the end of the name; the rest of the entry is Pad.
utf16_text_to_ascii(text) ==
  LET ends == {i \in DOMAIN text : text[i] = Pad}
  IN  IF ends = {} THEN text ELSE SubSeq(text, 1, Min(ends) - 1)
-----------------------------------------------------------------------------
(***************************************************************************)
(* Items: long is the long name in pieces, empty when there is none; base  *)
(* and ext are the padded short name in capitals; dir, label and deleted   *)
(* say what the item is; first is its first cluster, 0 for an empty file,  *)
(* and size its length in bytes.                                           *)
(***************************************************************************)
ItemName(item) ==
  IF item.long # <<>> THEN FlattenSeq(item.long)
  ELSE LET base == str_to_lower(str_trim(item.base))
           ext == str_to_lower(str_trim(item.ext))
       IN  IF ext = <<>> THEN base ELSE base \o <<Dot>> \o ext

\* A sequence of whatever it holds.
IsText(s) == s \in Seq(Range(s))

\* Long names are ASCII, so without Pad, and the label of a volume has none.
IsItem(item) ==
  /\ item.dir \in BOOLEAN /\ item.label \in BOOLEAN /\ item.deleted \in BOOLEAN
  /\ item.first \in Nat /\ item.size \in Nat
  /\ IsText(item.base) /\ IsText(item.ext) /\ IsText(item.long)
  /\ \A piece \in ToSet(item.long) :
       IsText(piece) /\ Len(piece) <= LFN_CHARS /\ Pad \notin Range(piece)
  /\ item.label => item.long = <<>>

\* The entries of an item: the pieces of a long name, the last one first, and then the
\* short entry.  Deleting an item overwrites the first byte of each.
PieceEntry(piece) ==
  [kind |-> "lfn", text |-> piece \o [i \in 1 .. (LFN_CHARS - Len(piece)) |-> Pad]]

ShortEntry(item) ==
  [kind |-> IF item.label THEN "label" ELSE "short",
   base |-> IF item.deleted THEN <<E5>> \o Tail(item.base) ELSE item.base,
   ext |-> item.ext, dir |-> item.dir, first |-> item.first, size |-> item.size]

ItemEntries(item) ==
  [i \in 1 .. Len(item.long) |-> PieceEntry(Reverse(item.long)[i])]
    \o << ShortEntry(item) >>

\* The entries of a directory; all but the root begin with "." and "..".
DirEntries(volume, cluster) ==
  LET dots == IF cluster = volume.root THEN <<>> ELSE << [kind |-> "dot"], [kind |-> "dot"] >>
      items == volume.dirs[cluster]
  IN  dots \o FlattenSeq([i \in DOMAIN items |-> ItemEntries(items[i])])
-----------------------------------------------------------------------------
(* fat32.cpp *)

\* The name of a short entry, as ls shows it.
ShortName(e) ==
  LET base == str_trim(e.base)
      ext == str_trim(e.ext)
  IN  IF ext = <<>> THEN str_to_lower(base) ELSE str_to_lower(base \o <<Dot>> \o ext)

\* Mutant: gotLongName is not reset.
ScanEntryKeepsLong(scan, e) ==
  IF e.kind \in {"dot", "label"} THEN scan
  ELSE IF e.kind = "lfn"
       THEN [scan EXCEPT !.name = @ \o utf16_text_to_ascii(e.text), !.gotLongName = TRUE]
       ELSE [out |-> Append(scan.out,
                       [Name |-> IF scan.gotLongName THEN scan.name ELSE ShortName(e),
                        Size |-> e.size, IsDirectory |-> e.dir, FirstCluster |-> e.first]),
             name |-> <<>>, gotLongName |-> scan.gotLongName]

\* One round of the loop of get_entries_in_dir; name is outEntries[outEntryCount].Name.
ScanEntry(scan, e) ==
  IF e.kind \in {"dot", "label"} THEN scan
  ELSE IF e.kind = "lfn"
       THEN [scan EXCEPT !.name = @ \o utf16_text_to_ascii(e.text), !.gotLongName = TRUE]
       ELSE [out |-> Append(scan.out,
                       [Name |-> IF scan.gotLongName THEN scan.name ELSE ShortName(e),
                        Size |-> e.size, IsDirectory |-> e.dir, FirstCluster |-> e.first]),
             name |-> <<>>, gotLongName |-> FALSE]

get_entries_in_dir(entries) ==
  FoldLeft(ScanEntry, [out |-> <<>>, name |-> <<>>, gotLongName |-> FALSE], entries).out

\* read_dir_entries reads one cluster of the directory, the first.
FirstClusterOf(entries) == SubSeq(entries, 1, Min({DIR_ENTRIES, Len(entries)}))

IsCluster(c) == c >= 2 /\ c < EOC_START

\* The first entry of the list that has the name (and, inside a path, is a directory),
\* as a sequence of at most one.
Lookup(list, name, onlyDirs) ==
  LET hits == {j \in DOMAIN list : list[j].Name = name /\ (onlyDirs => list[j].IsDirectory)}
  IN  IF hits = {} THEN <<>> ELSE << list[Min(hits)] >>

divide_round_up(a, b) == (a + b - 1) \div b
-----------------------------------------------------------------------------
(***************************************************************************)
(* The reference: what a path names, by the items of the volume.           *)
(***************************************************************************)
Show(list, item) == IF item.deleted \/ item.label THEN list ELSE Append(list, item)

Visible(items) == FoldLeft(Show, <<>>, items)

\* The item of that name in the directory, as a set of at most one.
Children(volume, cluster, name) ==
  {item \in ToSet(Visible(volume.dirs[cluster])) : ItemName(item) = name}

\* The first clusters of the directory reached by the names, a set of at most one.
DirectoryAt(volume, names) ==
  LET step(at, name) ==
        UNION {{item.first : item \in {x \in Children(volume, c, name) : x.dir}} : c \in at}
  IN  FoldLeft(step, {volume.root}, names)

\* The clusters of a chain that has no cycle.
Chain(volume, first) ==
  LET step(chain, i) ==
        IF ~IsCluster(volume.fat[Last(chain)]) THEN chain
        ELSE Append(chain, volume.fat[Last(chain)])
  IN  IF ~IsCluster(first) THEN <<>>
      ELSE FoldLeft(step, <<first>>, [i \in 1 .. Cardinality(DOMAIN volume.fat) |-> i])

Contents(volume, item) ==
  LET chain == Chain(volume, item.first)
  IN  SubSeq(FlattenSeq([i \in DOMAIN chain |-> volume.data[chain[i]]]), 1, item.size)
=============================================================================
