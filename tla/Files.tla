------------------------------- MODULE Files -------------------------------
(***************************************************************************)
(* From the disks to the shell: storage.cpp and mbr.cpp choose a partition *)
(* and a driver, filesystem.cpp keeps the current path, and the commands   *)
(* cd, ls and read go through the FAT32 driver, one disk read per step.    *)
(*                                                                         *)
(* A disk read succeeds, or times out and delivers the cleared buffer, or, *)
(* when no page is left for it, leaves the caller's memory as it was.      *)
(* Neither is reported to the caller (AHCI_READ_DMA_EXT returns nothing).  *)
(* The last cannot happen at boot, before any page has been used up.       *)
(***************************************************************************)
EXTENDS Fat32

CONSTANTS
  Machines,          \* sequences of disks: what sector 0 of each holds
  Volumes,           \* consistent FAT32 volumes
  CdArgs, ReadArgs,  \* what is typed behind cd and read
  MAX_PATH_LENGTH, MAX_PATH_DEPTH

\* The chain of a file ends, has data, and is as long as the file's size needs; only an
\* empty file has none.
FileStored(volume, item) ==
  LET chain == Chain(volume, item.first)
  IN  /\ ToSet(chain) \subseteq DOMAIN volume.data
      /\ chain # <<>> => ~IsCluster(volume.fat[Last(chain)])
      /\ Len(chain) = divide_round_up(item.size, CLUSTER_SIZE)

\* No two items of a directory have one name.
DirectoryStored(volume, d) ==
  LET items == volume.dirs[d]
      there(i) == ~items[i].deleted /\ ~items[i].label
  IN  /\ IsText(items) /\ \A item \in ToSet(items) : IsItem(item)
      /\ \A i, j \in DOMAIN items :
           there(i) /\ there(j) /\ ItemName(items[i]) = ItemName(items[j]) => i = j
      /\ \A i \in DOMAIN items : there(i) =>
           IF items[i].dir THEN items[i].first \in DOMAIN volume.dirs ELSE FileStored(volume, items[i])

\* What other systems keep true of a volume.  Nothing is known of where deleted items lead.
Consistent(volume) ==
  /\ volume.root \in DOMAIN volume.dirs
  /\ \A d \in DOMAIN volume.dirs : d \in Nat /\ IsCluster(d) /\ DirectoryStored(volume, d)
  /\ IsFiniteSet(DOMAIN volume.fat) /\ \A c \in DOMAIN volume.fat : volume.fat[c] \in Nat
  /\ \A c \in DOMAIN volume.data :
       c \in DOMAIN volume.fat /\ IsText(volume.data[c]) /\ Len(volume.data[c]) = CLUSTER_SIZE

ASSUME FilesAssumption ==
  /\ MAX_PATH_LENGTH \in Nat \ {0} /\ MAX_PATH_DEPTH \in Nat \ {0}
  /\ \A v \in Volumes : Consistent(v)
  /\ \A path \in CdArgs \cup ReadArgs : IsText(path)

VARIABLES
  devices,        \* StorageDevices
  volume,         \* the volume on the selected partition
  selected,       \* device and partition, <<0, 0>> when there is none
  activeDriver,   \* "none" is the null pointer
  RootCluster,    \* of the driver's context
  currentPath,
  pc,             \* "boot", "idle", a place in a command, or how the kernel was lost
  call,           \* the command in progress
  shown           \* what the last command has printed

vars == <<devices, volume, selected, activeDriver, RootCluster, currentPath, pc, call, shown>>

NotFound == <<-1>>     \* the error message: no bytes of a file

NoCall == [op |-> "none", path |-> <<>>, sections |-> <<>>, i |-> 0, cluster |-> 0, size |-> 0,
           out |-> <<>>, room |-> 0, failed |-> FALSE, unread |-> FALSE]

Nothing == [op |-> "none", path |-> <<>>, clean |-> FALSE, result |-> <<>>]

Init ==
  /\ devices \in Machines /\ volume \in Volumes
  /\ selected = <<0, 0>> /\ activeDriver = "none" /\ RootCluster = 0
  /\ currentPath = <<>>
  /\ pc = "boot" /\ call = NoCall
  /\ shown = Nothing
-----------------------------------------------------------------------------
(* mbr.cpp, storage.cpp *)

FilesystemTypes == [x00 |-> "Empty", x01 |-> "FAT12", x04 |-> "FAT16", x06 |-> "FAT16",
                    x07 |-> "NTFS", x0B |-> "FAT32", x0C |-> "FAT32", x83 |-> "Ext",
                    xEE |-> "GptProtective"]

FilesystemType(b) == IF b \in DOMAIN FilesystemTypes THEN FilesystemTypes[b] ELSE "Unknown"

\* The partitions of a sector, none without the signature 55 AA.
parse_mbr(sector) ==
  IF sector.signed THEN [p \in 1 .. 4 |-> FilesystemType(sector.types[p])] ELSE <<>>

\* Sector 0 of a disk, or zeros when the read has timed out.
fill_partition_infos(d, read) == IF d \in read THEN parse_mbr(devices[d]) ELSE <<>>

\* The partitions the search can stop at.
search_suitable_storage_partition(read) ==
  {part \in (DOMAIN devices) \X (1 .. 4) :
     /\ part[2] \in DOMAIN fill_partition_infos(part[1], read)
     /\ fill_partition_infos(part[1], read)[part[2]] = "FAT32"}

\* init_storage found a partition: the driver reads its context from the boot sector.
init_fat32(read) ==
  /\ \E part \in search_suitable_storage_partition(read) :
       /\ \A q \in search_suitable_storage_partition(read) :
            part[1] < q[1] \/ (part[1] = q[1] /\ part[2] <= q[2])
       /\ selected' = part
  /\ activeDriver' = "FAT32"
  /\ RootCluster' \in {volume.root, 0}
  /\ currentPath' = <<Slash>>

\* init_filesystem fails: the path stays empty and boot goes on.
NoFilesystem(read) ==
  /\ search_suitable_storage_partition(read) = {}
  /\ UNCHANGED <<selected, activeDriver, RootCluster, currentPath>>

init_filesystem ==
  /\ pc = "boot"
  /\ \E read \in SUBSET DOMAIN devices : init_fat32(read) \/ NoFilesystem(read)
  /\ pc' = "idle"
  /\ UNCHANGED <<devices, volume, call, shown>>
-----------------------------------------------------------------------------
(* filesystem.cpp, commands.cpp.  A path that has overrun currentPath is not followed. *)

Prompt == pc = "idle" /\ Len(currentPath) <= MAX_PATH_LENGTH

\* A relative path of several sections changes nothing, but is split, like any other
\* relative path, into an array of MAX_PATH_DEPTH.
filesystem_change_directory(path) ==
  LET relative == path # <<>> /\ Head(path) # Slash
      sections == str_split(path)
  IN  /\ Prompt
      /\ currentPath' = IF path = <<>> THEN <<Slash>>
                        ELSE IF ~relative THEN path
                        ELSE IF Len(sections) = 1 THEN currentPath \o path \o <<Slash>>
                        ELSE currentPath
      /\ pc' = IF relative /\ Len(sections) > MAX_PATH_DEPTH THEN "deep" ELSE pc
      /\ shown' = Nothing
      /\ UNCHANGED <<devices, volume, selected, activeDriver, RootCluster, call>>

Started(op, path) ==
  [NoCall EXCEPT !.op = op, !.path = path, !.i = 1, !.cluster = RootCluster,
                 !.failed = (RootCluster = 0)]

\* find_entry up to its loop.  The root is found without a look; a path of more than
\* MAX_PATH_DEPTH sections is split past the end of pathSections.
find_entry(op, full, path) ==
  LET normalizedPath == IF path # <<>> /\ Head(path) = Slash THEN Tail(path) ELSE path
      sections == str_split(normalizedPath)
      root == normalizedPath \in {<<>>, <<Slash>>}
  IN  /\ call' = [Started(op, full) EXCEPT !.sections = sections]
      /\ pc' = IF activeDriver = "none" THEN "fault"
               ELSE IF root THEN "list"
               ELSE IF Len(sections) > MAX_PATH_DEPTH THEN "deep"
               ELSE "walk"
      /\ shown' = Nothing
      /\ UNCHANGED <<devices, volume, selected, activeDriver, RootCluster, currentPath>>

\* str_cut_end_malloc(currentPath, 1).
str_cut_end(path) == IF path = <<>> THEN path ELSE Front(path)

filesystem_list ==
  /\ Prompt
  /\ find_entry("ls", currentPath, str_cut_end(currentPath))

cmd_read(args) ==
  /\ Prompt
  /\ find_entry("read", currentPath \o args, currentPath \o args)
-----------------------------------------------------------------------------
(* fat32.cpp *)

Return(c, result) ==
  /\ shown' = [op |-> c.op, path |-> c.path, clean |-> ~c.failed, result |-> result]
  /\ call' = NoCall
  /\ pc' = "idle"

Outcomes == {"ok", "timeout", "unread"}

After(outcome) ==
  [call EXCEPT !.failed = @ \/ outcome # "ok", !.unread = @ \/ outcome = "unread"]

\* The directories whose entries may be in the buffer after a read of the cluster: what
\* is left there by an earlier one when nothing was read.
read_dir_entries(cluster, outcome) ==
  IF ~IsCluster(cluster) THEN {<<>>}
  ELSE LET first(c) == FirstClusterOf(DirEntries(volume, c))
       IN  CASE outcome = "ok" -> {first(cluster)}
             [] outcome = "timeout" -> {<<>>}
             [] outcome = "unread" -> {<<>>} \cup {first(c) : c \in DOMAIN volume.dirs}

\* A section of the path inside: look for a directory of that name.
WalkSection ==
  /\ pc = "walk" /\ call.i < Len(call.sections)
  /\ \E outcome \in Outcomes : \E entries \in read_dir_entries(call.cluster, outcome) :
       LET hit == Lookup(get_entries_in_dir(entries), call.sections[call.i], TRUE)
       IN  \/ /\ hit = <<>>
              /\ Return(After(outcome), IF call.op = "ls" THEN <<>> ELSE NotFound)
           \/ /\ hit # <<>>
              /\ call' = [After(outcome) EXCEPT !.i = @ + 1, !.cluster = hit[1].FirstCluster]
              /\ UNCHANGED <<pc, shown>>
  /\ UNCHANGED <<devices, volume, selected, activeDriver, RootCluster, currentPath>>

\* Mutant: the last cluster of a file is not counted.
room_of_full_clusters(size) == (size \div CLUSTER_SIZE) * CLUSTER_SIZE + 1

\* The buffer for a file: whole clusters and a terminator.
read_cluster_chain_room(size) == divide_round_up(size, CLUSTER_SIZE) * CLUSTER_SIZE + 1

\* The last section.  read_cluster_chain of an empty file returns nullptr, in which
\* fat32_read then stores the terminator.
WalkLast ==
  /\ pc = "walk" /\ call.i = Len(call.sections)
  /\ \E outcome \in Outcomes : \E entries \in read_dir_entries(call.cluster, outcome) :
       LET hit == Lookup(get_entries_in_dir(entries), call.sections[call.i], FALSE)
           wanted == hit # <<>> /\ (hit[1].IsDirectory <=> call.op = "ls")
       IN  \/ /\ ~wanted
              /\ Return(After(outcome), IF call.op = "ls" THEN <<>> ELSE NotFound)
           \/ /\ wanted
              /\ call' = [After(outcome) EXCEPT !.cluster = hit[1].FirstCluster, !.size = hit[1].Size,
                            !.room = IF call.op = "ls" THEN 0 ELSE read_cluster_chain_room(hit[1].Size)]
              /\ pc' = IF call.op = "ls" THEN "list"
                       ELSE IF IsCluster(hit[1].FirstCluster) THEN "chain" ELSE "fault"
              /\ UNCHANGED shown
  /\ UNCHANGED <<devices, volume, selected, activeDriver, RootCluster, currentPath>>

\* get_entries after find_entry; the root is a directory and so nothing to read.
get_entries ==
  /\ pc = "list"
  /\ \/ call.op = "read" /\ Return(call, NotFound)
     \/ /\ call.op = "ls"
        /\ \E outcome \in Outcomes : \E entries \in read_dir_entries(call.cluster, outcome) :
             Return(After(outcome), get_entries_in_dir(entries))
  /\ UNCHANGED <<devices, volume, selected, activeDriver, RootCluster, currentPath>>

\* The next cluster of a chain; the sector of the FAT may not have been read.
get_next_cluster(cluster, outcome) ==
  CASE outcome = "ok" -> {volume.fat[cluster]}
    [] outcome = "timeout" -> {0}
    [] outcome = "unread" -> {0, EOC_START} \cup DOMAIN volume.data

\* A cluster of data.
ClusterData(cluster, outcome) ==
  CASE outcome = "ok" -> {volume.data[cluster]}
    [] outcome = "timeout" -> {[b \in 1 .. CLUSTER_SIZE |-> Zero]}
    [] outcome = "unread" -> {[b \in 1 .. CLUSTER_SIZE |-> Junk]}

\* Mutant: the terminator is not stored.
fat32_read_unterminated(out, size) == out

\* The file as print shows it, up to its size or the first byte 0.  (When a chain broke
\* off after a failed read, what was in the buffer before would follow.)
fat32_read(out, size) ==
  LET text == SubSeq(out, 1, Min({size, Len(out)}))
      zeros == {b \in DOMAIN text : text[b] = Zero}
  IN  IF zeros = {} THEN text ELSE SubSeq(text, 1, Min(zeros) - 1)

\* A round of read_cluster_chain.  The chain, not the size, ends the loop.
read_cluster_chain ==
  /\ pc = "chain"
  /\ \E data, fat \in Outcomes :
       \E bytes \in ClusterData(call.cluster, data), next \in get_next_cluster(call.cluster, fat) :
         LET failed == call.failed \/ data # "ok" \/ fat # "ok"
             c == [call EXCEPT !.failed = failed, !.unread = @ \/ "unread" \in {data, fat},
                               !.out = @ \o bytes, !.cluster = next]
         IN  \/ /\ Len(c.out) > call.room
                /\ call' = [c EXCEPT !.out = <<>>] /\ pc' = "overrun" /\ UNCHANGED shown
             \/ /\ Len(c.out) <= call.room /\ IsCluster(next)
                /\ call' = c /\ UNCHANGED <<pc, shown>>
             \/ /\ Len(c.out) <= call.room /\ ~IsCluster(next)
                /\ Return(c, fat32_read(c.out, c.size))
  /\ UNCHANGED <<devices, volume, selected, activeDriver, RootCluster, currentPath>>

Next ==
  \/ init_filesystem
  \/ \E path \in CdArgs : filesystem_change_directory(path)
  \/ filesystem_list
  \/ \E args \in ReadArgs : cmd_read(args)
  \/ WalkSection \/ WalkLast \/ get_entries \/ read_cluster_chain

Spec == Init /\ [][Next]_vars
-----------------------------------------------------------------------------
\* Type invariant; a driver is only active on a partition marked as FAT32.
TypeOK ==
  /\ pc \in {"boot", "idle", "walk", "list", "chain", "fault", "deep", "overrun"}
  /\ RootCluster \in {0, volume.root}
  /\ activeDriver = "FAT32" <=> selected # <<0, 0>>
  /\ activeDriver = "FAT32" => devices[selected[1]].types[selected[2]] \in {"x0B", "x0C"}
  /\ call.i <= Len(call.sections) + 1

\* Names of one piece, nothing deleted, files without a byte 0: what the driver is made for.
ShortNamed == \A d \in DOMAIN volume.dirs : \A item \in ToSet(volume.dirs[d]) : Len(item.long) <= 1
NoneDeleted == \A d \in DOMAIN volume.dirs : \A item \in ToSet(volume.dirs[d]) : ~item.deleted
TextFiles == \A c \in DOMAIN volume.data : Zero \notin Range(volume.data[c])
OneCluster == \A d \in DOMAIN volume.dirs : Len(DirEntries(volume, d)) <= DIR_ENTRIES

\* The sections of an absolute path; the root may be written with two separators.
Names(path) == IF path \in {<<Slash>>, <<Slash, Slash>>} THEN <<>> ELSE str_split(Tail(path))

\* What ls has shown of a path that ends in '/', item by item, and what the directory of
\* that path holds.
LsShown == [i \in DOMAIN shown.result |-> <<shown.result[i].Name, shown.result[i].IsDirectory>>]

LsWanted ==
  LET at == DirectoryAt(volume, IF Len(shown.path) = 1 THEN <<>> ELSE Names(Front(shown.path)))
      listing(items) == [i \in DOMAIN items |-> <<ItemName(items[i]), items[i].dir>>]
  IN  IF at = {} THEN <<>> ELSE listing(Visible(volume.dirs[CHOOSE c \in at : TRUE]))

CleanLs ==
  shown.op = "ls" /\ shown.clean /\ Head(shown.path) = Slash /\ Last(shown.path) = Slash

\* After any sequence of cd that has left a path ending in a separator, ls shows exactly the
\* directory the path names, or nothing when it names none, unless a read has failed.  Of a
\* directory longer than its first cluster it shows the beginning, and never an item that is
\* cut off in the middle.
LsShowsDirectory ==
  ShortNamed /\ NoneDeleted /\ CleanLs =>
    /\ IsPrefix(LsShown, LsWanted)
    /\ OneCluster => LsShown = LsWanted

\* read shows the contents of exactly the file its path names, to the last byte and not
\* beyond, or reports that there is none, unless a read has failed.  What is behind the
\* first cluster of a directory is not found, and no other file is shown for it.
ReadShowsFile ==
  /\ ShortNamed /\ NoneDeleted /\ TextFiles
  /\ shown.op = "read" /\ shown.clean /\ Head(shown.path) = Slash
  => LET names == Names(shown.path)
         file == IF names = <<>> THEN {}
                 ELSE UNION {{item \in Children(volume, c, Last(names)) : ~item.dir} :
                               c \in DirectoryAt(volume, Front(names))}
     IN  \/ \E item \in file : shown.result = Contents(volume, item)
         \/ (file = {} \/ ~OneCluster) /\ shown.result = NotFound

\* With a disk whose reads succeed only an empty file makes read fault (it has no cluster,
\* so no buffer, and the terminator is stored all the same), and chains are copied inside
\* the buffer, although only the chain ends the copy: it takes a sector that was not read
\* at all, old memory followed as a chain, to write behind it.  Deleted files, which the
\* driver finds too, may do both: their clusters may belong to another file by now.
OnlyKnownLosses ==
  /\ pc = "fault" => activeDriver = "none" \/ call.failed \/ call.size = 0 \/ ~NoneDeleted
  /\ pc = "overrun" => call.unread \/ ~NoneDeleted

\* "FAT32 Driver - read files and directories (8.3 and Long File Names)": names of
\* several pieces are shown as they are.
LongNamesWhole == NoneDeleted /\ OneCluster /\ CleanLs => LsShown = LsWanted
=============================================================================
