-------------------------------- MODULE Ahci --------------------------------
(***************************************************************************)
(* The AHCI driver of kernel/io/ahci/ahci.cpp on one port, with the host   *)
(* bus adapter behind it.  Driver and adapter share the port registers and *)
(* the command list in memory and run at the same time.                    *)
(*                                                                         *)
(* Every command is given fresh pages (a command table and, except for     *)
(* FLUSH, a data buffer) that are never freed; they are named by the       *)
(* number of the command.  The disk is one sector.  Every wait of the      *)
(* driver is a poll loop of TIMEOUT rounds around sleep_ms(1), which is no *)
(* tick of the 100 Hz timer: no time passes between two rounds.            *)
(***************************************************************************)
EXTENDS Integers, FiniteSets

CONSTANTS
  Data,          \* what a sector can hold
  TIMEOUT,       \* rounds of a poll loop (3000 in the code)
  PAGES          \* physical pages the pmm has left for the driver

ASSUME AhciAssumption ==
  TIMEOUT \in Nat \ {0} /\ PAGES \in Nat

VARIABLES
  CMD,        \* port register: ST, FRE set by the driver, CR, FR by the adapter
  sata,       \* SIG is that of a plain SATA drive
  drive,      \* TFD shows a drive that is ready (BSY = 0, DRDY = 1)
  CI,         \* bit 0 of the command issue register
  CLB,        \* the command list has been given a page
  header,     \* the command commandList[0] points to, 0 if none
  tables,      \* tables[c]: the operation built in command c's table ("none" until then)
  buf,        \* buf[c]: contents of command c's data buffer
  engine,     \* what the adapter has fetched: [cmd, op], cmd 0 when idle
  disk,       \* the sector
  place,      \* where the driver is
  op,         \* the command in progress
  cmd,        \* its number; numbers count up
  elapsed,    \* rounds of the poll loop in progress
  pages,      \* pages the pmm still has
  out,        \* the caller's buffer after AHCI_READ_DMA_EXT
  written,    \* ghost: the data of the last AHCI_WRTIE_DMA_EXT that returned
  timedOut    \* ghost: some command has timed out

regs == <<CMD, sata, drive, CI, CLB>>
memory == <<header, tables, buf, pages>>
driver == <<place, op, cmd, elapsed, out, written, timedOut>>
ahciVars == <<regs, memory, engine, disk, driver>>

Ops == {"identify", "read", "write", "flush"}

Cleared == "zero"      \* memory_clear
Junk == "junk"         \* the caller's uninitialised buffer
IdData == "identity"   \* what IDENTIFY DEVICE answers

Set(f, x, y) == [z \in DOMAIN f \cup {x} |-> IF z = x THEN y ELSE f[z]]

\* Firmware may leave the port running; no command is outstanding.
AhciInit ==
  /\ \E on \in {0, 1} : CMD = [ST |-> on, CR |-> on, FRE |-> on, FR |-> on]
  /\ sata \in BOOLEAN /\ drive \in BOOLEAN /\ CI = FALSE /\ CLB = FALSE
  /\ header = 0
  /\ tables = [c \in {} |-> "none"] /\ buf = [c \in {} |-> Cleared]
  /\ engine = [cmd |-> 0, op |-> "none"]
  /\ disk \in Data /\ written = disk
  /\ place = "stop" /\ op = "none" /\ cmd = 0
  /\ elapsed = 0
  /\ pages = PAGES
  /\ out = Junk /\ timedOut = FALSE
-----------------------------------------------------------------------------
(* The poll loops: await_command_list_engine, await_fis_receive_engine,      *)
(* await_drive_ready and Await_AHCI_Task_Finish.                             *)

\* What a loop waits for, and where the driver goes on.  find_ready_ports takes the
\* prepared port if SIG says that it is a plain SATA drive.
Awaited(at) ==
  CASE at = "await_CR_0" -> CMD.CR = 0
    [] at = "await_FR_0" -> CMD.FR = 0
    [] at = "await_FR_1" -> CMD.FR = 1
    [] at = "await_ready" -> drive
    [] at = "await_CR_1" -> CMD.CR = 1
    [] at = "await_CI" -> ~CI
    [] OTHER -> FALSE

Then(at) ==
  CASE at = "await_CR_0" -> "stop_fis"
    [] at = "await_FR_0" -> "memory"
    [] at = "await_FR_1" -> "await_ready"
    [] at = "await_ready" -> "start"
    [] at = "await_CR_1" -> IF sata THEN "idle" ELSE "unusable"
    [] at = "await_CI" -> "finish"

PortLoops == {"await_CR_0", "await_FR_0", "await_FR_1", "await_ready", "await_CR_1"}

Leave(next) == place' = next /\ elapsed' = 0

\* Mutant: the rounds are not counted.
PollUncounted ==
  /\ place \in PortLoops \cup {"await_CI"} /\ ~Awaited(place)
  /\ UNCHANGED <<regs, memory, engine, disk, place, op, cmd, elapsed, out, written, timedOut>>

\* Mutant: the answer of set_sata_port_status(port, false) is not looked at.
PollPortIgnored ==
  /\ place \in PortLoops \cup {"await_CI"} /\ ~Awaited(place)
  /\ elapsed' = elapsed + 1
  /\ \/ elapsed' < TIMEOUT /\ UNCHANGED <<place, timedOut>>
     \/ elapsed' >= TIMEOUT /\ place \in PortLoops /\ place' = Then(place) /\ UNCHANGED timedOut
     \/ elapsed' >= TIMEOUT /\ place = "await_CI" /\ place' = "timeout" /\ timedOut' = TRUE
  /\ UNCHANGED <<regs, memory, engine, disk, op, cmd, out, written>>

\* One round in which the awaited bit has not come: sleep, count, give up at TIMEOUT.
\* A port that times out is not used; a command that does goes on to its caller.
Poll ==
  /\ place \in PortLoops \cup {"await_CI"} /\ ~Awaited(place)
  /\ elapsed' = elapsed + 1
  /\ \/ elapsed' < TIMEOUT /\ UNCHANGED <<place, timedOut>>
     \/ elapsed' >= TIMEOUT /\ place \in PortLoops /\ place' = "unusable" /\ UNCHANGED timedOut
     \/ elapsed' >= TIMEOUT /\ place = "await_CI" /\ place' = "timeout" /\ timedOut' = TRUE
  /\ UNCHANGED <<regs, memory, engine, disk, op, cmd, out, written>>

\* The awaited bit is seen.
Seen ==
  /\ place \in PortLoops \cup {"await_CI"} /\ Awaited(place)
  /\ Leave(Then(place))
  /\ UNCHANGED <<regs, memory, engine, disk, op, cmd, out, written, timedOut>>
-----------------------------------------------------------------------------
(* preparePort *)

\* set_sata_port_status(port, false), first half.  Clearing ST makes the adapter
\* drop the issued commands.
StopCommands ==
  /\ place = "stop"
  /\ CMD' = [CMD EXCEPT !.ST = 0]
  /\ CI' = FALSE
  /\ Leave("await_CR_0")
  /\ UNCHANGED <<sata, drive, CLB, memory, engine, disk, op, cmd, out, written, timedOut>>

StopFis ==
  /\ place = "stop_fis"
  /\ CMD' = [CMD EXCEPT !.FRE = 0]
  /\ Leave("await_FR_0")
  /\ UNCHANGED <<sata, drive, CI, CLB, memory, engine, disk, op, cmd, out, written, timedOut>>

\* Two pages, for the command list and the received FIS; then set_sata_port_status
\* (port, true) up to its first wait.
GiveMemory ==
  /\ place = "memory"
  /\ \/ /\ pages < 2
        /\ pages' = 0
        /\ Leave("unusable")
        /\ UNCHANGED <<CMD, CLB>>
     \/ /\ pages >= 2
        /\ pages' = pages - 2
        /\ CLB' = TRUE
        /\ CMD' = [CMD EXCEPT !.FRE = 1]
        /\ Leave("await_FR_1")
  /\ UNCHANGED <<sata, drive, CI, header, tables, buf, engine, disk, op, cmd, out, written, timedOut>>

StartCommands ==
  /\ place = "start"
  /\ CMD' = [CMD EXCEPT !.ST = 1]
  /\ Leave("await_CR_1")
  /\ UNCHANGED <<sata, drive, CI, CLB, memory, engine, disk, op, cmd, out, written, timedOut>>

-----------------------------------------------------------------------------
(* The commands *)

\* Mutant: a failed allocation is not noticed.
AllocateUnchecked(o) ==
  /\ place = "idle"
  /\ pages' = IF pages >= 2 THEN pages - 2 ELSE 0
  /\ op' = o /\ cmd' = cmd + 1
  /\ Leave("header")
  /\ IF pages > 0 THEN tables' = Set(tables, cmd', "none") ELSE UNCHANGED tables
  /\ IF pages > 1 THEN buf' = Set(buf, cmd', Cleared) ELSE UNCHANGED buf
  /\ out' = Junk
  /\ UNCHANGED <<regs, header, engine, disk, written, timedOut>>

NeedsBuffer(o) == o # "flush"

\* AllocateCommandTable, then AllocateDataBuffer.  If either fails the command is
\* not issued and the page that was had is lost; READ leaves the caller's buffer.
Allocate(o) ==
  LET need == IF NeedsBuffer(o) THEN 2 ELSE 1
  IN  /\ place = "idle"
      /\ out' = Junk
      /\ \/ /\ pages < need
            /\ pages' = 0
            /\ UNCHANGED <<place, elapsed, op, cmd, tables, buf>>
         \/ /\ pages >= need
            /\ pages' = pages - need
            /\ op' = o /\ cmd' = cmd + 1
            /\ tables' = Set(tables, cmd', "none")
            /\ buf' = IF NeedsBuffer(o) THEN Set(buf, cmd', Cleared) ELSE buf
            /\ Leave("header")
      /\ UNCHANGED <<regs, header, engine, disk, written, timedOut>>

SetCommandHeader ==
  /\ place = "header"
  /\ header' = cmd
  /\ Leave("build")
  /\ UNCHANGED <<regs, tables, buf, pages, engine, disk, op, cmd, out, written, timedOut>>

\* BuildCommand, the address and the count, set_ahci_prdt, and for WRITE the caller's
\* data d.
BuildCommand(d) ==
  /\ place = "build"
  /\ tables' = [tables EXCEPT ![cmd] = op]
  /\ buf' = IF op = "write" THEN [buf EXCEPT ![cmd] = d] ELSE buf
  /\ Leave("issue")
  /\ UNCHANGED <<regs, header, pages, engine, disk, op, cmd, out, written, timedOut>>

\* Mutant: READ copies out before the command has finished.
Start_AHCI_Command_NoWait ==
  /\ place = "issue"
  /\ CI' = TRUE
  /\ Leave("finish")
  /\ UNCHANGED <<CMD, sata, drive, CLB, memory, engine, disk, op, cmd, out, written, timedOut>>

Start_AHCI_Command ==
  /\ place = "issue"
  /\ CI' = TRUE
  /\ Leave("await_CI")
  /\ UNCHANGED <<CMD, sata, drive, CLB, memory, engine, disk, op, cmd, out, written, timedOut>>

\* Back in the command: READ copies the buffer out whether RunCommand succeeded or
\* not, IDENTIFY only if it did; WRITE and FLUSH tell their caller nothing.
Finish ==
  /\ place \in {"finish", "timeout"}
  /\ out' = IF op = "read" \/ (op = "identify" /\ place = "finish") THEN buf[cmd] ELSE Junk
  /\ written' = IF op = "write" THEN buf[cmd] ELSE written
  /\ Leave("idle")
  /\ UNCHANGED <<regs, memory, engine, disk, op, cmd, timedOut>>

Driver ==
  \/ Poll \/ Seen
  \/ StopCommands \/ StopFis \/ GiveMemory \/ StartCommands
  \/ SetCommandHeader \/ (\E d \in Data : BuildCommand(d)) \/ Start_AHCI_Command \/ Finish

Request == \E o \in Ops : Allocate(o)
-----------------------------------------------------------------------------
(* The adapter.  It owes nothing: a drive may be absent or hang. *)

EngineSwitches ==
  /\ \/ CMD.CR # CMD.ST /\ (CMD.ST = 0 => engine.cmd = 0) /\ CMD' = [CMD EXCEPT !.CR = CMD.ST]
     \/ CMD.FR # CMD.FRE /\ CMD' = [CMD EXCEPT !.FR = CMD.FRE]
  /\ UNCHANGED <<sata, drive, CI, CLB, memory, engine, disk, driver>>

DriveBecomesReady ==
  /\ ~drive /\ drive' = TRUE
  /\ UNCHANGED <<CMD, sata, CI, CLB, memory, engine, disk, driver>>

\* The command list and table are read when the adapter gets to them.
Fetch ==
  /\ CI /\ CMD.CR = 1 /\ engine.cmd = 0 /\ header # 0
  /\ engine' = [cmd |-> header, op |-> tables[header]]
  /\ UNCHANGED <<regs, memory, disk, driver>>

\* The transfer, then the CI bit is cleared.
Complete ==
  /\ engine.cmd # 0
  /\ buf' = CASE engine.op = "read" -> [buf EXCEPT ![engine.cmd] = disk]
              [] engine.op = "identify" -> [buf EXCEPT ![engine.cmd] = IdData]
              [] OTHER -> buf
  /\ disk' = IF engine.op = "write" THEN buf[engine.cmd] ELSE disk
  /\ engine' = [cmd |-> 0, op |-> "none"]
  /\ CI' = FALSE
  /\ UNCHANGED <<CMD, sata, drive, CLB, header, tables, pages, driver>>

Adapter == EngineSwitches \/ DriveBecomesReady \/ Fetch \/ Complete

AhciNext == Driver \/ Request \/ Adapter

\* The driver's code keeps running; callers and the adapter owe nothing.
AhciSpec == AhciInit /\ [][AhciNext]_ahciVars /\ WF_ahciVars(Driver)
-----------------------------------------------------------------------------
\* Type invariant.
AhciTypeOK ==
  /\ CMD \in [ST : {0, 1}, CR : {0, 1}, FRE : {0, 1}, FR : {0, 1}]
  /\ sata \in BOOLEAN /\ drive \in BOOLEAN /\ CI \in BOOLEAN /\ CLB \in BOOLEAN
  /\ header \in 0 .. cmd
  /\ DOMAIN tables \subseteq 1 .. cmd /\ DOMAIN buf \subseteq 1 .. cmd
  /\ elapsed \in 0 .. TIMEOUT
  /\ pages \in 0 .. PAGES
  /\ disk \in Data

\* The memory of a port is only changed while both of its engines stand still, and
\* its command engine is only started with memory, a running FIS receiver and a drive
\* that has reported ready: the order of preparePort, through every timeout.
PortOrder ==
  [][/\ CLB' # CLB => CMD.CR = 0 /\ CMD.FR = 0
     /\ CMD'.ST > CMD.ST => CLB /\ CMD.FR = 1 /\ drive]_ahciVars

\* A command is only issued on a running port with its pages allocated and its table
\* built ("AHCI now aborts on failed memory allocations"), and as long as no command has
\* timed out, the adapter works on nothing but the command the driver is waiting for: CI
\* going to 0 means that this command is done.
IssuedIsComplete ==
  /\ place \in {"issue", "await_CI"} =>
       /\ CLB /\ CMD.ST = 1 /\ CMD.CR = 1
       /\ header = cmd /\ cmd \in DOMAIN tables /\ tables[cmd] = op
       /\ NeedsBuffer(op) => cmd \in DOMAIN buf
  /\ ~timedOut =>
       /\ CI => place = "await_CI"
       /\ engine.cmd # 0 => engine = [cmd |-> cmd, op |-> op] /\ place = "await_CI"

\* As long as no command has timed out, a read gives its caller what the last write
\* put on the disk (the caller's own buffer when no page was left), and an identify
\* the drive's answer.
ReadSeesLastWrite ==
  place = "idle" /\ ~timedOut /\ out # Junk =>
    out = IF op = "identify" THEN IdData ELSE written

\* Every command and preparePort return, even from a drive that never answers.
EveryCallReturns == place \notin {"idle", "unusable"} ~> place \in {"idle", "unusable"}
=============================================================================
