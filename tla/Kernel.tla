------------------------------- MODULE Kernel -------------------------------
(***************************************************************************)
(* kernel_main of kernel/kernel.cpp: the stages of the boot, each of which *)
(* prints [OK] or [NOK] and none of which stops the boot, over the PCI     *)
(* scan of Pci; the commands that use what the stages have set up; and     *)
(* fault_handler, which reports a fault through the same heap and screen.  *)
(*                                                                         *)
(* The heap is what is left of it, in units: a text takes one while it is  *)
(* used, a file system buffer TABLE, an entry of the PCI table DEVICE.     *)
(* Every fault here is an access to the page at 0, which is never mapped,  *)
(* so it is a page fault.                                                  *)
(***************************************************************************)
EXTENDS Pci, Sequences

CONSTANTS
  HEAP_ROOM,     \* most units of the heap the screen buffer leaves
  TABLE,         \* units of a directory table or a file's buffer
  DEVICE,        \* units of an entry of the PCI table
  STACK          \* nested faults the stack has room for

ASSUME KernelAssumption ==
  /\ TABLE \in Nat \ {0} /\ DEVICE \in Nat \ {0} /\ HEAP_ROOM \in Nat
  /\ STACK \in Nat \ {0}

VARIABLES
  pc,                     \* the stage, "prompt", "fault", or where everything has stopped;
                          \* "astray" when stores have gone where nobody knows
  status,                 \* the [OK]s and [NOK]s on the screen
  heap,                   \* heapStartPtr is set
  room,                   \* units left of the heap
  useScreenBuffer,
  BAR_IDX_5,              \* the slot whose registers it names, 0, or GarbageBar
  selectedStorageDevice,  \* "nullptr", "identified" or "mute"
  activeDriver,           \* it is set
  report,                 \* what the innermost fault_handler has printed
  nesting,                \* fault_handlers on the stack
  emptyFile                 \* ghost: a file of no bytes was read

bootVars == <<useScreenBuffer, BAR_IDX_5, selectedStorageDevice, activeDriver, heap>>
kernelVars == <<pc, status, room, report, nesting, emptyFile>>
vars == <<pciVars, bootVars, kernelVars>>

Init ==
  /\ PciInit
  /\ pc = "memory" /\ status = <<>>
  /\ heap = FALSE /\ room = 0
  /\ useScreenBuffer = FALSE
  /\ BAR_IDX_5 = 0
  /\ selectedStorageDevice = "nullptr" /\ activeDriver = FALSE
  /\ report = <<>> /\ nesting = 0 /\ emptyFile = FALSE

printLoadingStatus(success) == status' = Append(status, success)

Fault == pc' = "fault" /\ report' = <<>> /\ nesting' = 1
NoFault == UNCHANGED <<report, nesting>>

\* malloc walks the blocks from heapStartPtr on, and its callers write to what it returns.
malloc_succeeds(units) == heap /\ room >= units
-----------------------------------------------------------------------------
(* kernel_main *)

\* memory_init answers false without a vmm or without a heap; without a region for the
\* bitmap it faults.
init_memory ==
  /\ pc = "memory"
  /\ \/ \E success \in BOOLEAN :
          /\ heap' = success
          /\ room' = IF success THEN HEAP_ROOM ELSE 0
          /\ printLoadingStatus(success)
          /\ pc' = "screen" /\ NoFault
     \/ Fault /\ UNCHANGED <<heap, room, status>>
  /\ UNCHANGED <<pciVars, useScreenBuffer, BAR_IDX_5, selectedStorageDevice, activeDriver, emptyFile>>

\* The screen decides how large its buffer is, and so what is left of the heap; without a
\* heap malloc faults.
init_rendering_full ==
  /\ pc = "screen"
  /\ \/ ~heap /\ Fault /\ UNCHANGED <<useScreenBuffer, status, room>>
     \/ /\ heap
        /\ useScreenBuffer' \in BOOLEAN
        /\ room' \in 0 .. HEAP_ROOM
        /\ printLoadingStatus(useScreenBuffer')
        /\ pc' = "pci" /\ NoFault
  /\ UNCHANGED <<pciVars, heap, BAR_IDX_5, selectedStorageDevice, activeDriver, emptyFile>>

\* The table is malloced if a block is as large; what is left may be in pieces too small.
malloc_table(malloced) ==
  LET units == DEVICE * scan.PCIDeviceAmount
  IN  /\ allocate_table(malloced)
      /\ \/ malloced /\ room >= units /\ room' = room - units
         \/ ~malloced /\ room <= units /\ UNCHANGED room

\* One step of the scan, or its end, which may be a fault.
init_pci_layer ==
  /\ pc = "pci"
  /\ \/ passes /\ UNCHANGED <<pc, status, room>> /\ NoFault
     \/ \E malloced \in BOOLEAN : malloc_table(malloced) /\ UNCHANGED <<pc, status>> /\ NoFault
     \/ scan.phase = "fault" /\ Fault /\ UNCHANGED <<pciVars, status, room>>
     \/ /\ scan.phase = "done"
        /\ printLoadingStatus(scan.PCIDeviceAmount > 0)
        /\ pc' = "ahci" /\ NoFault
        /\ UNCHANGED <<pciVars, room>>
  /\ UNCHANGED <<bootVars, emptyFile>>

\* find_ahci_controller reads as many entries as were counted, of a null table too.
ReadsNull == scan.null /\ scan.PCIDeviceAmount > 0

init_drive_layer ==
  /\ pc = "ahci"
  /\ \/ ReadsNull /\ Fault /\ UNCHANGED <<BAR_IDX_5, status>>
     \/ /\ ~ReadsNull /\ find_ahci_controller = {}
        /\ printLoadingStatus(FALSE)
        /\ pc' = "filesystem" /\ NoFault
        /\ UNCHANGED BAR_IDX_5
     \/ /\ ~ReadsNull
        /\ \E i \in find_ahci_controller : BAR_IDX_5' = found_pci_devices[i].bar
        /\ printLoadingStatus(TRUE)
        /\ pc' = "filesystem" /\ NoFault
  /\ UNCHANGED <<pciVars, heap, useScreenBuffer, selectedStorageDevice, activeDriver,
                 room, emptyFile>>

\* find_ready_ports reads the registers BAR 5 names, whatever init_ahci has answered.
\* In memory that is none there are no bits that answer; garbage may name a controller.
Controller ==
  \/ BAR_IDX_5 \in Slots /\ bus[BAR_IDX_5] \in Sata
  \/ BAR_IDX_5 = GarbageBar

\* init_storage with a FAT32 partition found.  (init_fat32 answers true.)
use_partition ==
  /\ Controller
  /\ selectedStorageDevice' \in {"identified", "mute"}
  /\ activeDriver' = TRUE

\* map_pages refuses, no port is ready, or no device has a FAT32 partition.
no_partition == UNCHANGED <<selectedStorageDevice, activeDriver>>

\* Mutant: the answer of search_suitable_storage_partition is not looked at.
init_storage_unchecked(success) == IF success THEN use_partition \/ no_partition ELSE no_partition

init_storage(success) == IF success THEN use_partition ELSE no_partition

\* Mutant: the driver's init is called although no driver was chosen.
init_filesystem_layer_unchecked ==
  /\ pc = "filesystem"
  /\ \/ init_storage(TRUE) /\ printLoadingStatus(TRUE) /\ pc' = "shell" /\ NoFault
     \/ init_storage(FALSE) /\ Fault /\ UNCHANGED status
  /\ UNCHANGED <<pciVars, heap, useScreenBuffer, BAR_IDX_5, room, emptyFile>>

\* Where BAR_IDX_5 names no device preparePort stores in the ports that memory names there,
\* the last two of which are in the page behind: a frame, if there is one.
StoresAstray ==
  /\ BAR_IDX_5 \notin Slots
  /\ pc' = "astray"
  /\ UNCHANGED <<selectedStorageDevice, activeDriver, status>>

init_filesystem_layer ==
  /\ pc = "filesystem"
  /\ \/ /\ \E success \in BOOLEAN : init_storage(success) /\ printLoadingStatus(success)
        /\ pc' = "shell"
     \/ StoresAstray
  /\ UNCHANGED <<pciVars, heap, useScreenBuffer, BAR_IDX_5, room, report, nesting, emptyFile>>

\* newTerminalInputLine makes a text of path and arrows.
newTerminalInputLine(left) ==
  \/ left > 0 /\ pc' = "prompt" /\ NoFault
  \/ left = 0 /\ Fault

init_shell ==
  /\ pc = "shell"
  /\ newTerminalInputLine(room)
  /\ UNCHANGED <<pciVars, bootVars, status, room, emptyFile>>

kernel_main ==
  \/ init_memory \/ init_rendering_full \/ init_pci_layer
  \/ init_drive_layer \/ init_filesystem_layer \/ init_shell
-----------------------------------------------------------------------------
(* The commands, up to the next prompt.  Those that are not here only read.   *)

\* The command has lost that many units, or all that were left.
Done(lost) ==
  /\ room' = IF room > lost THEN room - lost ELSE 0
  /\ newTerminalInputLine(room')

CommandFaults == Fault /\ UNCHANGED room

\* A plain key stores in the line of the screen buffer, also where there is none.
insert_char_at_cursor ==
  /\ pc = "prompt" /\ ~useScreenBuffer
  /\ CommandFaults
  /\ UNCHANGED <<pciVars, bootVars, status, emptyFile>>

\* A command is typed, so there is a screen buffer.
Entered == pc = "prompt" /\ useScreenBuffer

\* A relative path is split, and its sections are not given back.
cmd_cd ==
  /\ Entered
  /\ Done(1)
  /\ UNCHANGED <<pciVars, bootVars, status, emptyFile>>

\* The table of a directory without entries is not given back.
cmd_ls ==
  /\ Entered
  /\ \/ ~activeDriver /\ CommandFaults
     \/ activeDriver /\ ~malloc_succeeds(TABLE) /\ CommandFaults
     \/ activeDriver /\ malloc_succeeds(TABLE) /\ Done(TABLE)
  /\ UNCHANGED <<pciVars, bootVars, status, emptyFile>>

\* A file of no bytes has no buffer, and its terminator is stored all the same (see Files).
cmd_read ==
  /\ Entered
  /\ \/ ~activeDriver /\ CommandFaults /\ UNCHANGED emptyFile
     \/ activeDriver /\ ~malloc_succeeds(TABLE) /\ CommandFaults /\ UNCHANGED emptyFile
     \/ activeDriver /\ malloc_succeeds(TABLE) /\ emptyFile' = TRUE /\ CommandFaults
  /\ UNCHANGED <<pciVars, bootVars, status>>

\* cmd_driveinfo, and cmd_dumpsector with a number.
cmd_driveinfo ==
  /\ Entered
  /\ selectedStorageDevice = "nullptr"
  /\ CommandFaults
  /\ UNCHANGED <<pciVars, bootVars, status, emptyFile>>

cmd_reboot ==
  /\ Entered
  /\ pc' = "reset"
  /\ UNCHANGED <<pciVars, bootVars, status, room, report, nesting, emptyFile>>

Commands ==
  \/ insert_char_at_cursor \/ cmd_cd \/ cmd_ls \/ cmd_read \/ cmd_driveinfo \/ cmd_reboot
-----------------------------------------------------------------------------
(* fault_handler                                                              *)

\* What it prints of a page fault; each takes a text from the heap and gives it back.
Pieces == <<"separator", "cr2", "rip", "rsp", "cs", "error", "separator">>

\* Mutant: hexString is not freed.
print_piece_leaking ==
  /\ report' = Append(report, Pieces[Len(report) + 1])
  /\ room' = IF report' \in {<<"separator">>, Pieces} THEN room ELSE room - 1
  /\ pc' = IF report' = Pieces THEN "panic" ELSE pc
  /\ UNCHANGED nesting

print_piece ==
  /\ report' = Append(report, Pieces[Len(report) + 1])
  /\ pc' = IF report' = Pieces THEN "panic" ELSE pc
  /\ UNCHANGED <<room, nesting>>

\* Without a text the handler faults itself, and in the end the stack overflows: the
\* processor resets, nothing having been reported.
nested_fault ==
  /\ IF nesting < STACK
     THEN nesting' = nesting + 1 /\ report' = <<>> /\ UNCHANGED pc
     ELSE pc' = "lost" /\ UNCHANGED <<nesting, report>>
  /\ UNCHANGED room

fault_handler ==
  /\ pc = "fault"
  /\ IF malloc_succeeds(1) THEN print_piece ELSE nested_fault
  /\ UNCHANGED <<pciVars, bootVars, status, emptyFile>>
-----------------------------------------------------------------------------
Next ==
  \/ kernel_main \/ Commands \/ fault_handler
  \/ Plug /\ UNCHANGED <<bootVars, kernelVars>>

\* The one processor goes on as long as it can; commands and plugs come or do not.
Spec == Init /\ [][Next]_vars /\ WF_vars(kernel_main) /\ WF_vars(fault_handler)
-----------------------------------------------------------------------------
AllOk == Len(status) = 5 /\ \A i \in 1 .. 5 : status[i]

\* The screen promises a working system when every line of it says [OK]: the registers in
\* use are then those of the first SATA controller of the bus, and no pointer a command
\* follows is null, so that afterwards only a heap that cds and lss have eaten up, or a
\* file of no bytes, ends in a fault.  (If nothing was plugged during the scan.)
AllOkIsUsable ==
  AllOk /\ changed = {} =>
    /\ BAR_IDX_5 \in Slots /\ bus[BAR_IDX_5] \in Sata
    /\ \A s \in Slots : bus[s] \in Sata => BAR_IDX_5 <= s
    /\ pc \in {"fault", "panic", "lost"} => room < TABLE \/ emptyFile

\* If the screen buffer leaves room for the table of a full bus and a text, the boot ends at
\* the prompt, whichever stages have failed; only a device plugged in during the scan, or
\* stores to ports where there is no controller, can prevent it.
BootSurvives ==
  (pc = "pci" /\ room > DEVICE * SLOTS)
    ~> (pc \in {"prompt", "astray"} \/ scan.phase = "overrun")

\* A fault with anything left of the heap ends in the whole report on the screen, and the
\* report takes nothing for good that the rest of it needs.
FaultIsReported == (pc = "fault" /\ heap /\ room > 0) ~> (pc = "panic" /\ report = Pieces)
=============================================================================
