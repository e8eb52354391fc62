# ESZ-OS in TLA+

ESZ-OS is a hobby x86-64 kernel: Limine starts it, it sets up interrupts, memory,
a text screen, PCI, AHCI and a FAT32 file system, and then lives in two interrupt
handlers, the timer's and the keyboard's.  This directory holds a specification of its
core: what is modelled, what TLC checks on small instances, and what TLAPS proves for
all instances.

## 1. Inventory

### Control

`kernel_main` (kernel.cpp:61) runs the stages in order with interrupts off, draws
`[OK]` or `[NOK]` behind each and goes on either way, and ends with `sti` and `halt`.
After that all code runs in `keyboard_handler` and `timer_handler`.  Every gate is an
interrupt gate (idt.cpp), so a handler runs with interrupts off.  The one `sti` inside
the kernel, in `halt_till_tick`, is only executed by a sleep of a tick or more; the
handlers' only sleeps are `sleep_ms(1)` in AHCI polls, which are of zero ticks.
A handler is therefore atomic for the other one (`HandlersAlone` of `Interrupts`, proved
for every tick frequency below 1000 Hz), and what really runs at the same time is
hardware: the processor's TLB, the AHCI adapter, the timer between two handlers.

### Components

| component | state | operations | talks to | what is hard | correct when |
|---|---|---|---|---|---|
| Heap | list of block headers in one arena | malloc, free, merge | vmm (arena); every user of strings | long sequences, splits at the header size, exhaustion | blocks tile the arena and are merged, callers never share a byte, it refuses only when it must |
| Bitmap | bits | find_free_range, write bits | pmm, vmm | ends of the bitmap, range 0 | it finds the lowest free run or there is none |
| Physical memory | bitmap of frames | malloc and free of pages | Limine's memory map, paging, AHCI | choosing the bitmap's own place, exhaustion | a frame has one user, reserved memory is never handed out |
| Paging | three levels of tables | map, unmap, walk | pmm, TLB | tables made in mid-walk, order of stores and invlpg | tables and TLB agree outside the page being changed |
| Virtual memory | bitmap of virtual pages | malloc and free of ranges | pmm, paging, heap | failure in mid-range | a range handed out stays backed |
| AHCI | port registers, command list and tables | preparePort, IDENTIFY, READ, WRITE, FLUSH | pmm, timer, the adapter | adapter runs at its own speed, timeouts, slot 0 reused | engines switched in order, commands complete, reads see writes, calls return |
| Keyboard, terminal | shift and E0 state, line buffer, cursor, cells | one per key | history, shell, screen | two counters for one cursor, wrapped lines | cells and buffer agree, the prompt is safe |
| History | last commands, browsing index | add, recall | terminal | eviction while browsing | it is the last commands as entered |
| Shell | table of commands | split, execute, complete | terminal, file system | cursor at the edge of a word | completion replaces exactly the word |
| Screen | stored lines, cursor, frame buffer | print, newline, scroll, edit, recall, clear, blink | terminal, timer, heap | everything moves when a line is dropped, blink between two steps, columns left and right of the screen | the frame buffer shows the stored lines and one cursor, drawn inside it |
| Timer | ticks | tick, sleep | PIT, AHCI, screen | sleeps of less than a tick, `sti` inside a sleep | a sleep lets no handler in |
| Interrupts, faults | IDT, PIC, interrupt flag, interrupted code | set up, EOI, report and halt | all handlers | nesting, missing EOI, a full keyboard port at boot, frames of 32 stubs | handlers run alone, no scan code is stuck, frames are as declared |
| Storage, MBR | devices, partitions, active driver | init | AHCI, FAT32 | failed reads, no driver | a driver is active only on a FAT32 partition |
| FAT32, file system | volume context, current path | find, list, read, cd | AHCI, heap, strings | empty files, chains, long names, reads that fail silently | ls and read show what the volume holds at the path |
| PCI | table of devices | count, fill | heap, AHCI | a bus that changes between two passes | the table is the bus, and no entry is stored behind it |
| Boot | progress, `[OK]`s | the stages | all of them | a stage fails and the next goes on, a table that malloc refused | with room in the heap it ends at the prompt; five `[OK]`s mean that everything is usable |
| Strings, integers | a block for each String | construct, copy, assign, add, destroy; functions on texts | heap, everything | aliases, hits that move while they are replaced, refused allocations | a String owns its block and has its text, numbers read back |
| Memory reports | none | graph of the heap, page counts, bar | heap, pmm, strings | the heap is walked while texts are taken from it | the graph shows the heap as it was, the bar fits |

`PROJECT.json` lists the same parts with their status, and the hazards line by line.

## 2. Modules

| module | models | composed of |
|---|---|---|
| `AbstractAllocator` | what callers of malloc and free may rely on | |
| `Heap`, `HeapProofs` | heap.cpp | refines `AbstractAllocator` |
| `HeapGraph` | the walk of print_memory_fragmentation_graph between mallocs and frees; proved about in `HeapProofs` | `Heap` |
| `Bitmap` | bitmap.cpp as a set of bits | |
| `FreeRangeSearch` | the loop of find_free_range, bit by bit; proved about in `MemoryProofs` | `Bitmap` |
| `Memory`, `MemoryProofs` | pmm, pmm_bitmap, paging, vmm, memory_init, the TLB; the numbers of print_memory_info | `Bitmap` |
| `Ahci` | ahci.cpp on one port, and the adapter; proved about in `KernelProofs` | |
| `Terminal`, `TerminalProofs` | keyboard, terminal, history, args, autocomplete | |
| `Screen`, `ScreenProofs` | print, screenBuffer, clear, the blink of the timer, what terminal.cpp's edits do to the screen | |
| `Fat32` | fat32.cpp without its disk reads: entries, names, lookup; the string functions it uses | |
| `Files`, `FilesProofs` | storage, mbr, filesystem, fat32.cpp's reads, cd, ls, read | `Fat32` |
| `Pci` | the two passes of pci.cpp, find_ahci_controller | |
| `Kernel`, `KernelProofs` | kernel_main's stages, commands that depend on them, fault_handler | `Pci` |
| `Strings`, `StringsProofs` | the String class, string.cpp, integer.cpp | |
| `SequenceFolds` | lemmas on any left fold and on `FlattenSeq`, for the proofs of `Strings` and `Files` | |
| `Interrupts` | IDT, PIC, flag, stubs, sleeps, the two handlers, faults; proved about in `KernelProofs` | |

`KernelProofs` and `MemoryProofs` have theorems of several components and extend them all, so
the specifications of `Interrupts`, `Ahci` and `FreeRangeSearch` carry names of their own
(`InterruptsSpec`, `AhciSpec`, `SearchSpec`).

`MC*` modules give the constants their values; the `.cfg` files name what is checked.

**Heap.** `headers` maps the offset of each block header to its `Length` and `Used`;
`live` is a ghost, the pointers callers hold with the sizes they asked for.  `malloc`
and `free` are one step each (nothing interrupts them), the split and both merges
included.  Callers free only what they hold.

**HeapGraph.** The fragmentation graph prints one block of the list after the other, and
each text it prints is allocated in the list it walks.  A text is a few blocks taken and
given back in an order of their own (`MAX_TEMPS` at once, of `TempSizes`); between two
visits anything of that kind may happen, by the graph's own calls only.  `shown` is the
sequence of the blocks shown, and `GraphShowsHeap` says of it that it is the list as it
was before the command: each block as it was, each once, in order and none left out.

**FreeRangeSearch.** One step per round of the loop, so that its invariant can be
stated and proved; `Memory` uses the result, the lowest free run, as an operator.

**Memory.** Pages are numbers.  `call` is the kernel call in progress; the loops take
several steps because the processor may fill its TLB from any present entry at any
moment, also between the stores to `Present` and `Address` and between the store and
`invlpg`.  The two stores are steps of their own for the entry of a page
(`map_page_present`, `map_page_address`) and for the entry of a new table
(`get_or_create_next_table`, `set_next_table_address`).  In between the table's entry
leads to physical page 0: `stale` are the tables for which the processor may have seen
that and may still remember it, and `TlbFillAstray` fills translations of any page below
them (`stray`), leading to any of `StrayFrames`.  `Invlpg` drops what is remembered of one
page and of the entries on the way to it, which is less than processors do.  What is left
are translations of pages that are not mapped: an access to one of those, which should
fault, need not.  That the processor sets accessed flags in memory it takes for a table,
and what it remembers of pages outside `KernelPages`, is left out.  The failure paths are as in the code: frames that are not given back, bits
that are cleared while mappings stay, a loop that skips `currPage++`.  `FrameExclusive`
and `OwnedIsBacked` hold in spite of them; what is lost is stated by
`LeakOnlyAfterRefusal`.  Callers free whole ranges of theirs, and also pages
that are nobody's.  Entry flags are left out.  `ReportAddsUp` ties the totals of the
memory map to the bitmap: used bytes never wrap, and the bar stays in its text.  The top
table is Limine's.

**Ahci.** `CMD`, `CI` and the command list are shared by the driver, whose position is
`place`, and the adapter, whose actions (start and stop of engines, fetch, completion, a
drive that becomes ready) come at any time or never.  Every command has fresh pages
that are never freed, as in the code; `PAGES` bounds them.  After a timeout slot 0 is
reused while the adapter may still be at the old command: `IssuedIsComplete` and
`ReadSeesLastWrite` say precisely until when they hold.  The adapter is not part of the
repository and is marked external.

**Terminal.** A scan code is a step.  The editor's record keeps the line, both cursors
and the cells around the row the cursor is in; rows are contiguous in memory, so cells
beyond the right edge belong to the next row and negative columns to rows above.
Two ghosts: `home`, the column of the line's first character, and `exact`, false once a
line with a line feed in it (Escape types one) has been shown again or a line has
overrun the buffer.  A line that has overrun `lineInputBuffer` is followed to Enter or
to a recall, not through further edits, since what lies behind the array is not
modelled.  Rows above a new prompt are forgotten.  `Entered` bounds the lines Enter
is pressed on, and a third ghost keeps as many of the last lines as the history holds.

**Screen.** The whole state is one record: cells, lengths of lines, first visible line,
cursor, place of the drawn cursor, frame buffer.  The frame buffer is never read by the
code, so `ScreenShowsBuffer` is a statement about everything drawn before.  Every character
is a step with the timer free to tick in between: more interleavings than the handlers
allow.  Text drawn during early boot is `Boot`, as it is not in the buffer.

The cells of all lines are one block (`Place`, as screenBuffer.cpp:50 lays them out), so a
column left or right of the screen is a cell of another line or lies behind the buffer.
Typed lines reach beyond the right edge.  On a recalled command that wrapped,
`cursor_move_inline` compares only the position in the input, and the column becomes
negative: the cursor is drawn where the pixel arithmetic of `draw_char` leads, the right
end of the pixel line above (`Columns`), the glyph it takes away is drawn there too
(`Smeared`), and an insert stores in cells of the lines above, which are not drawn again
(`behind`).  These are the exceptions `ScreenShowsBuffer` makes.  What it does show is that
nothing else goes wrong: the bar that was drawn in the wrong place goes away again, a
negative column only occurs with a row above it (`OneCursor`; in the first row it would be
drawn before the frame buffer), and every store is into the buffer or its `MAX_INPUT` cells
behind.  `clear_input_on_screen` sets the length of a row to `lineInputStart_X` also when
the row is shorter, so what is in the cells between becomes part of the line.

`input` has what the two modules share of the terminal: where its line starts, position,
length, and how much of a recalled line is still to be printed.  The check that a cell is
`interactable` before it is deleted is left out, which allows more deletions.  A shift by
pixel lines is assumed smaller than a glyph's height without its cursor bar, that is a
wrapped command has fewer rows than that.  Memory behind the buffer is kept as if nobody
else stored there (see the hazard).  `prevline` and `clear_char` have no caller and are left
out.

**Fat32, Files.** A volume is a tree of items, laid out by `DirEntries` the way other
systems write FAT32 (pieces of long names last first, deleted items marked); the driver
sees only entries, chains and clusters.  `ls` and `read` take one step per disk read.  A
read succeeds, or times out and delivers zeros, or, without a free page, leaves the
buffer as it was; none of this is reported to the caller.  At boot a page is always
free.  `cd` checks nothing, as in the code.  A behaviour ends where the code leaves what
is modelled: `pc` is `fault` after a null pointer is used, `deep` when a path has more
sections than their array, `overrun` when a copy would leave its buffer.  A path longer
than its array takes no more commands.  Names are ASCII, and the heap is assumed to
have room.

`Consistent` is what other systems keep true of a volume, and what the proofs assume of
every volume: no two items of a directory share a name, a directory leads to one, a
file's chain ends and is as long as its size needs.  Nothing is assumed of where deleted
items lead.  `LsShowsDirectory` and `ReadShowsFile` are stated for what the driver can
do: names of one piece, nothing deleted, and for `read`, which ends at the first byte 0,
files without one (`TextFiles`); of a directory longer than its first cluster `ls` shows a
beginning, and `read` finds either the right file or none.  A path of the separator
twice (`cd ///`) is the root's too (`Names`).  `ls` of a path that does not end in `/` is not
claimed to show anything in particular.  `OnlyKnownLosses` needs nothing but that no item
is deleted: the driver does not look at the mark of a deleted entry, and follows its
chain into whatever has its clusters now.

**Pci, Kernel.** The bus is a function from slots to kinds of devices.  A device may be
plugged in or out between any two accesses of the scan; what is stored behind the table
would be a header of the heap, so the behaviour ends there (`overrun`).  `malloc` may
refuse the table (`null`): the second pass then faults at the first device, and
`find_ahci_controller` faults if devices were counted and are gone by the second pass.
`Kernel` takes the stages as far as others depend on them: whether there is a heap, a
screen buffer, a controller, a device, a driver.  `init_storage` reads the registers
`BAR_IDX_5` names also when `init_ahci` has found no controller, or an entry that was
never written or was read from an empty slot.  These are then two pages of memory, of
which the first, at 0 when there was no controller, decides which ports there are.  If
it names none the boot goes on; if it names any, `preparePort` stores in them, the last
two of them in the second page, which may be a frame in use, and the behaviour ends
(`astray`).  The heap is a number of units, and how many the screen buffer leaves of it
is open: an entry of the PCI table needs `DEVICE`, a text one while it is used, a
directory's table or a file's buffer `TABLE`; a relative `cd` loses its sections (one
unit), `ls` of an empty directory its table.  Commands that leave this state alone are
not actions, nor are the successful outcomes of `ls` and `read`.  Every fault is an
access to the page at 0, which nothing maps; `fault_handler` takes each text of its
report from the same heap and, when it gets none, faults itself until the stack
(`STACK`) is full.

**Strings.** The heap is a function from blocks to texts, so a text that is read after
it has been freed, or after the block has a new owner, is seen.  Constructors take up to
two arguments of any kind, aliases included; a negative number loses the block of its
digits (string.cpp:270), which `leaks` counts.  Numbers are in base 10 and wrap at
`WIDTH` bits.  The functions on texts are operators without state; `TextFunctionsRight`
applies them to the texts of any two objects.

**Interrupts.** `stack` is the interrupted code, the running one last; of what code does
only its sleeps are kept, since they alone touch the flag.  A handler's return, EOI and
work are separate steps, so that requests may come in between.  The PIC and the keyboard
controller are external: a request for a scan code that has been read may stay or be
withdrawn, a second period of the timer during a pending one is lost.  Frames are
sequences of named words, compared with `struct Registers`.  A fault before there are
gates resets the machine and is left out, as are the error codes of vectors 29 and 30,
which the stubs treat as having none (these exceptions belong to virtual machines with
encrypted memory).

## 3. Runs

| run | instance | shows |
|---|---|---|
| `heap` | 16 bytes, header 2, requests 0, 1, 2, 3, 5; the graph with texts of up to two blocks | layout, merging, ownership, honest failure, refinement; the graph shows the heap |
| `free_range` | all bitmaps of 7 bits, ranges 0 to 8 | lowest run found, failure honest |
| `memory` | four maps of up to 15 pages, tables of 4 entries, requests of up to 2 pages, 1 TLB slot, one stray frame, a bar of 5 | frames have one user, owned ranges stay mapped, the TLB agrees for mapped pages and what it holds of entries never leads to a free frame, every call returns, the report adds up |
| `ahci` | 2 data values, timeout of 2 rounds, 9 pages | order of the engines, complete commands, reads see writes, calls return |
| `terminal` | 3 columns, a buffer of 3, a prompt of 1, history of 2, keys without end | buffer, cursors and cells agree; the prompt is safe; recall, eviction and completion |
| `terminal_long` | the same with a prompt of 2 | violation, see below |
| `screen` | 2 by 2, one stored line more, 4 lines of text of 2 characters, inputs of 2, a glyph of 2 pixels and pixel lines of 5 | the screen shows the buffer, one cursor, drawn inside the frame buffer, lines in order |
| `files` | three machines, volumes with up to three items in the root and one in a subdirectory, directories of one and of two clusters, clusters of 2 bytes | ls and read show what is there, losses are the known ones |
| `files_long` | names of two pieces | violation, see below |
| `interrupts` | 100 Hz, five exceptions, 2 ticks, 2 scan codes, 1 sleep, 4 nested pieces of code | handlers run alone, no scan code is stuck, frames match, keys are handled |
| `kernel` | 3 slots, 2 of which change during the scan, 2 kinds of devices, a heap of up to 4 units, tables of 2, entries of 1, 3 nested faults | the table is the bus, five [OK]s mean usable pointers, with room for the table and a text the boot reaches the prompt, a fault is reported in full |
| `strings` | two objects, texts of up to 4 characters, numbers of 5 bits, one lost block | Strings own their blocks and texts, functions on texts agree with their definitions |

*Bounds.* The heap's arena takes three to five blocks, so that a freed block has free,
used and no neighbours on both sides, remainders are below, at and above the header's
size, and requests fail.  Seven bits hold runs at both ends and two runs with the better
one second.  The memory maps make the bitmap's region the first, the second and none,
and let the vmm bitmap find no place; the pool is small enough for every allocation
inside every call to be the one that fails, and 4 entries per table give walks that need
one, two or three new tables.  What `TlbCoherent` says is said of one translation at a
time, so one slot is enough.  Nine pages are four commands and the one that fails.  The
terminal's lines with the prompt are longer than a row: typed ones end at its edge,
recalled ones run over it; three commands overflow a history of two.  The screen drops,
scrolls and wraps within four lines; an input of two characters wraps, after a prompt of
one, so its recall reaches columns 0, -1 and -2, a typed one reaches columns 2 and 3,
and rows grow to 4 cells and are cut to lengths they do not have.  Two interchangeable
characters (`Symmetry`) are told apart from each other and from what the code writes.  A
pixel line of 5 is no multiple of a glyph's width, so a glyph at a negative column
touches two columns.  `MAX_INPUT`, `MAX_PAGES`, `TLB_SLOTS`, `PAGES`, `Entered`,
`MAX_TEMPS`, `MAX_PLUGS`, `MAX_TEXT`, `MAX_LEAKS` and `MAX_TRANSCRIPT` are bounds of the
model only.  Three slots hold two controllers in either order with and without a device
between them, and two changes let one device come and another go while the count stays.
Four units hold the table of a full bus and a text, fewer do not; of what the boot
leaves one `cd` or two leave too little for a table, four leave nothing, and a fault
report that did not free its texts would need more.  Texts of four characters hold two
hits of two, blanks on both sides, and the least number of 5 bits.  Files end before, at
and behind the end of a cluster; a directory with four items, one with a long name,
needs a second cluster; paths of 3 characters and 2 sections are exceeded by two `cd`.
`MAX_TICKS`, `MAX_KEYS`, `MAX_SLEEPS` and `MAX_DEPTH` let a tick and a key be pending at
once, a scan code arrive while another is being handled, and a fault come on top of a
handler and of a fault's report.  With `PIT_TICK_HZ` at 1000 TLC refutes
`HandlersAlone`: the AHCI polls' sleeps then execute `sti`.

*Deadlock* is not checked where a run ends by a bound or a halted kernel
(`CHECK_DEADLOCK FALSE`); the screen and the strings are checked for it.

*Fairness.*  Only the kernel's own steps are fair: `BootStep` and `CallStep` of
`Memory`, `Driver` of `Ahci`, `Kernel` of `Interrupts`, `kernel_main` and
`fault_handler` of `Kernel`.  They run on a processor with
interrupts off and nothing can stop them.  `Interrupt`, the delivery of a request the
flag and the PIC allow, is fair too: the processor looks for one before every
instruction.  Callers, the TLB, the adapter, the timer and the user owe nothing:
`EveryCallReturns` of `Ahci` holds for a drive that never answers.  `KeysAreHandled`
holds for finitely many ticks (`MAX_TICKS`); timer interrupts without end could keep the
keyboard's, of lower priority, waiting on a slow enough machine.

### Disagreements

* `terminal_long`: a line that is too long is refused at Enter (terminal.cpp:60), but
  its terminator has been stored one past the array when the 256th character was typed
  (terminal.cpp:87).
* `files_long`: CHANGELOG.md:78 promises "8.3 and Long File Names".  `get_entries_in_dir`
  appends the pieces of a name in the order of their entries (fat32.cpp:60), which is
  last first: a name of more than 13 characters is shown and found with its pieces
  swapped.

Met on the way and kept as conditions of passing properties or as notes of hazards: the
mark of a deleted entry is not looked at, only the first cluster of a directory is read,
`read` of an empty file stores through a null pointer (`OnlyKnownLosses` shows it is the
only file that does), `cd` does not compare lengths with `MAX_PATH_LENGTH` and
`MAX_PATH_DEPTH`, `clear_input_on_screen` clears one row of a recalled command that
takes two and may lengthen it, the cursor on such a command goes left of column 0, the
poll loops' `// 3 sec` (ahci.cpp:22) are 3000 register reads in a row because
`sleep_ms(1)` is 1 * 100 / 1000 = 0 ticks, the sections of a relative `cd` and the
digits of a negative number are never freed, `str_replace` goes wrong when hits overlap
or there are more than 1024, nothing looks whether the table of the PCI scan was
allocated (a fault during the boot), and a `[NOK]` of the file system leaves null
pointers that `ls`, `read`, `driveinfo` and `dumpsector` follow.

Each property of a passing run has a mutant in `PROJECT.json`: a plausible bug in a
mapped definition under which TLC finds the property violated.

## 4. Proofs

`HeapProofs` assumes `SizesAssumption`: natural sizes and a header of at least a byte
that fits the arena.  For every such arena and every set of request sizes:

* `HeapInvariant`: `IInv` = `TypeOK /\ Tiling /\ Covering /\ NoAdjacentFree /\
  LiveIsUsed` is inductive.  `Tiling` alone is not: to know that the block on the left
  of a freed one is what `get_prev_heap_block`'s walk ends at, one must know that there
  is a block that ends there.  `Covering` says so for every byte, which replaces an
  induction along the list by one quantifier; `NoAdjacentFree` is needed for one merge
  on each side to be enough.  The lemmas treat absorbing a neighbour, splitting and
  changing `Used` as operations on any well-formed layout; malloc and free are composed
  of them.
* `HeapTypes`, `HeapIsTiled`, `HeapIsMerged`, `HeapOwnership` are its parts as
  invariants of `Spec`; `HeapRestored` and `HeapFailsHonestly` follow from it state by
  state, `HeapFreedFitsAgain` step by step.
* `HeapImplementsAllocator`: `Spec => Abstract!Spec`, with the identity on `live`.

`KernelProofs` on the interrupts assumes `InterruptsAssumption` and, for the first two theorems,
`SleepsEndAtOnce`, that is `PIT_TICK_HZ < 1000` (config.h: 100).  For every set of
exceptions and all bounds:

* `HandlersRunAlone`.  `HandlersAlone` is not inductive: one must know that interrupts
  are on only in the final halt (`OnlyInHalt`), which rests on no sleep having a target
  in the future, on the gates leading where they should (`Gates`) and on `kernel_main`
  being at the bottom of the stack and nowhere else (`Shape`).  Together they are `IInv`.
  Steps that go on with the running code are treated by one lemma, `LocalStep`.
* `KeyIsNotStuck` adds `PicBeforeDrain`: while the PIC is not set up, the boot has not
  yet emptied the port.  So a scan code that arrives without a request, because the PIC
  was off, is thrown away later.

`KernelProofs` on the driver assumes nothing of its constants and shows, for any data, any
length of the poll loops and any number of pages:

* `PortIsPreparedInOrder`, from `PortInv`: what the four bits of `CMD` are at every
  place of `preparePort`.  `PortOrder` needs it because what a poll loop has seen must
  still hold some steps later, while the adapter goes on switching its engines.
* `IssuedCommandsAreComplete`, from `CommandInv`, which adds to `IssuedIsComplete` what
  is built at the places before a command is issued, and that an adapter at work has
  `CI` set; without it the adapter could still be busy when the driver goes on.
* `ReadsSeeTheLastWrite`, from `DataInv`, which says what the disk and the data buffer
  hold between the adapter's transfer and the driver's return, and before it.  Its step
  uses `CommandInv`: what the adapter completes is the command in progress.

`KernelProofs` on the boot assumes `PciAssumption` (at least one slot, and no kind of device is called
like what is read of none) and `KernelAssumption`, and shows, for any bus, any changes
during the scan, any heap and any stack:

* `TableIsTheBus`, in two parts.  `ScanInv` holds whatever is plugged: written entries
  name passed slots in order, and every device that was passed and has stayed is in one.
  `CountInv` is conditional on nothing having changed: the counter of the second pass is
  the number of devices below its slot, and the first pass has counted those of the whole
  bus, so the table is long enough.  This is where cardinalities are needed
  (`BelowNext`, `BelowBounded`).
* `FiveOksMeanUsable`, from `BootInv`: each line on the screen is tied to the variable its
  stage sets, and a fault after five `[OK]`s to its two possible reasons.  `Later` treats
  all steps that leave the screen alone.

`MemoryProofs` assumes `MemoryAssumption` (the register window is below the pages of the
vmm, page 0 and the registers are not usable) and, for the report, `ReportAssumption`
(usable regions are not empty and apart from each other, as Limine promises).  For every
memory map and all sizes its invariant is `IInv` = `BootInv`, `CallInv`, `PteInv`,
`FrameInv`, `OneUser`, `OwnedInv`, `CallPagesInv`, `NoLeakInv`, `TlbInv`, with a
lemma `...Keeps` for every action:

* `FramesAreExclusive` needs more than itself.  A frame that is in an entry may be given
  out again unless every entry leads to a marked frame or beyond the bitmap (`PteInv`),
  and a frame is marked wherever it is outside `Usable` (`BootInv`).  An entry whose two
  stores are apart (`HalfWritten`) counts for nothing.  `Users` is stated for all frames in
  the run; outside `Usable` only the registers have users, and one each, since `map_pages`
  is only asked for one window.
* `OwnedRangesAreBacked` and `OwnedPagesStay` rest on a call keeping out of owned ranges
  (`CallPagesInv`): `vmm_malloc_pages` has reserved its range before it maps a page of
  it, and a range becomes its caller's only when every page of it has been mapped.  What a
  call leaves behind when it fails in mid-range belongs to nobody.
* `TlbIsCoherent` is inductive with `PteInv`: the only page whose translation may be
  outdated is the one whose entry is being changed, and its old frame stays marked in the
  pmm bitmap until `invlpg` is done.  For what comes by way of a half-written table entry it
  needs `StrayInv`: below an entry the processor may still take for half written no page is
  mapped but the one in the making, because a new table is empty, the first page mapped
  below it is the one whose walk made it, or a later one after a walk that failed, and the
  `invlpg` of that page drops the entry.
* `LeaksFollowRefusal`, from `NoLeakInv`: until a `pmm_malloc` fails no entry is
  overwritten, since the pages ahead of a call are not mapped.
* `TheReportAddsUp`.  The total is a sum over a set in an order that nobody chose.  The
  recursive function behind it exists because the numbers of pages are one (`PagesAreSums`),
  and there is only one, since two would differ first at a smallest set (`SumsAreOne`).

The search of a bitmap assumes that `Count` and `MaxRange` are naturals.  The
loop invariant is `SearchInvariant` (the counter is the length of the free run that ends
at `i` and no run long enough ended earlier), from which `SearchFindsLowest` and
`SearchFailsHonestly` follow.

`FramesMatch` of `Interrupts` needs no hypothesis on the sleeps: the words below
any piece of interrupted code are those that its stub declares, because what is above is
taken off in the order in which it was put there.

`GraphIsTheHeap` of `HeapProofs`: the blocks the graph has passed are those of the
list before the command, and so is the whole list whenever no piece of a text is in use.
The key is that two well-formed and merged lists with the same used blocks are equal, so
it does not matter in which order pieces were taken and given back.

`ScreenProofs` assumes `ScreenAssumption` (sizes of at least one, two rows, and an input
that fits into the buffer when it wraps).  `ScreenIsBuffer`, `CursorIsAlone`,
`BufferHoldsTranscript` and `ScreenTypeOK` follow from one predicate, `Good`.  Its first
part, `Kept`, is about the screen: every cell shows its character but for the lines behind
(`Settled`), the only bar is the cursor's and is where `rx` and `ry` say, what lies between
the end of a line and the cursor is as the boot has left it (`BootLeft`: `draw_char` stores
there without drawing), and the stored lines are the end of the transcript (`Holds`).  Its
second, `Placed`, is what keeps a negative column inside the frame buffer and the block of
cells: the column of the input's first character (`Home`, the column less the position)
never moves right of the prompt's end, is a cell of the block, and when it is left of the
screen there is a row above.  Moving, inserting and deleting leave `Home` where it is
(`MovedTogether`); printing a recalled line moves it left by a row with every newline, which
`PrintedPlaced` shows to stay in the block, also when the oldest line is dropped, because an
input fits into all rows but the last.  An operation of the code draws while rows move; the
lemmas take it apart at the points where `Kept` holds of a screen half done.

`TerminalProofs` assumes `TerminalAssumption`: sizes of at least one, prompts of at least
a character, finitely many commands without a space in their names.  Printing and
completion are folds over texts.  `FoldLeft` is made of a recursive function; `FoldExists`
shows that there is one, and `RoundsOf` that it goes through the elements in order, each
by taking the least round at which it would fail (`UpTo`; the library has the
well-foundedness of the naturals, from which this follows without its induction rules).

* `IInv` is `Sound(ed)`, a line that fits `lineInputBuffer`, and a history that is the
  ghost's.  `Sound` says of lines of any length that the text cursor is in the line, that
  `amount` and the two cursors differ by what they should, and that all cells of the prompt
  are left of `home`.  While a line is `exact` it adds `Shown`: buffer and cells agree.
  The latter alone would not be inductive, since a line that an Escape has broken can be
  edited and recalled before it is exact again.
* `TerminalLineOnScreen`, `TerminalPromptProtected`, `TerminalTypeOK` and
  `TerminalHistoryIsSuffix` follow.  What the proof of the second shows is why
  `handle_input_buffer_deletion` is safe in a broken line: `home` only moves left with the
  rows, and the cursor never gets left of it while `pos` is positive.
* `TerminalTabCompletes`: `TokenIs` shows what the two searches of
  `getCurrTokenFromBuffer` find, also behind a single leading space; `StepsRightAre`,
  `DeletionsAre` and `InsertionsAre` say what the three loops of `replaceCurrentToken`
  leave, and `PartsMake` puts the line together.

`SequenceFolds` has the lemmas that need an induction over a sequence: what is true of the
start of a fold and kept by every step is true of its end (`FoldKeeps`), a fold over
`Append` is a step more (`FoldAppend`), and the same for `FlattenSeq`.  The step is a
constant operator of the module, so `StringsProofs` and `FilesProofs` take an instance for
every fold they speak of, instead of a rule with an operator as its parameter, which the
provers could not use.

`StringsProofs` assumes `StringsAssumption` (at least two bits, numbers that fit them,
literals that are sequences).

* `StringsAreOwned`: `IInv` is `StringsOwned` without its last part, which is replaced by
  `value[x] = NumberText(n)`, and with types.  `Composed` follows the constructor's two
  loops: what `convert` makes and what `combine` frees add up to one new block and one
  lost block for every negative number, and to the arguments' texts end to end.
* That a number reads as itself (`NumberIsRead`) is arithmetic: `Decimal` is a recursive
  function whose existence must be shown first (`RecursionExists`), reading is a fold that
  wraps at each digit, and wrapping at the end gives the same (`DigitsAreRead`), also for the
  least integer, whose negation wraps to itself.
* `TextFunctionsAreRight`: `FindingsList` shows that the first loop of `str_replace` lists
  all hits in order, `HitsApart` that two hits of a text that does not overlap itself are
  its length apart.  With `J[e]` the first `e` characters with their hits replaced,
  `Half(e)` is `J[e]` and the rest of the text, with the offset `Len(J[e]) - e`: it is the
  same up to the next hit (`HalfStays`), and a round at a hit leads to the `Half` behind it
  (`ReplaceStepIs`).  `str_split` is a fold whose parts, a blank before each, are the text
  so far with a blank before it (`SplitOneMore`).  Trimming and searching are compared
  character by character.  The proof has shown that two cases of `Replaced`, the reference
  for `str_replace`, were both true at a hit; they are now disjoint.

`FilesProofs` assumes `FilesAssumption`: every volume is `Consistent`, what is typed is a
sequence, limits are positive; and `Fat32Assumption` on names and sizes.

* `ScanIs`, `DirectoryRead`: the scan of the entries of a directory, as other systems have
  laid them out, gives its items in order, each with its name, and of a directory cut off
  at the end of a cluster a beginning.  `LookupIs` and `ChildrenAre` say that a lookup finds
  the one item of that name, or that there is none (of its kind).
* `FilesInvariant`: `IInv` adds to the three properties `PathOK` (a path typed once there
  is a driver begins with the separator) and `CallOK`, what is known of a call between two
  reads.  In a walk the cluster is that of the directory which the sections so far name
  (`DirectoryAt`); a root that was read as 0 counts as a failed read.  In a copy
  (`Copying`) there is a file of the volume and a number of its clusters that have been
  copied, the bytes so far are theirs, and the buffer has room for the rest: that is why
  the chain may end the loop although the size made the buffer.  Once a sector was not read
  at all nothing more is known, and neither property claims anything.
* `LsIsRight`, `ReadIsRight` and `LossesAreKnown` follow.  Trying to prove them has shown
  three conditions that the properties had lacked, none of which the first instances met:
  a byte 0 in a file, deleted files that are found, and the path `//`.

`Covering`, `SeriesInvariant` and `AllFreedRestores` are stated for the proofs and are no
properties of a run; nor are the type invariants of `Heap` (proved as `HeapTypes`),
`FreeRangeSearch`, `Memory`, `Ahci`, `Terminal`, `Screen`, `Interrupts` and `Files`.
Before they were proved TLC has checked inductive invariants on the instances of the
runs: the graph's on 191,365 states, `Memory`'s on 317,932, `Screen`'s on 421,586 (one character, inputs of 3),
`Terminal`'s on 1,072,864, that of `Files` on 151,360.

Only model-checked: all liveness (`EveryCallReturns`, `BootSurvives`, `FaultIsReported`,
`KeysAreHandled`), for the prover has no fairness or ENABLED.  Every safety invariant of a
passing run but the type invariants named above is the statement of a theorem.

## 5. Not modelled

* Colours, pixels, fonts (`font8x16.h`), the table of PCI class names
  (`pci_class_names.cpp`), and the wording of messages: they hold no state and no
  property is about them.  The commands that only print what they read (`pciinfo`,
  `uptime`, `help`, `sysinfo` and the like) are therefore left out; those that use a
  pointer or lose memory are in `Kernel` and `Files`.
* The copy loops of `memory.cpp`, the operators of `math.h`, and numbers in bases other
  than 10: they are used as what they return.
* What a store through a null pointer or behind an array destroys.  Page 0 is never
  mapped, so the former is a page fault; the latter is where a model ends
  (`overrun` of `Pci`) or a condition of a property (`terminal_long`).  So do the stores of
  `preparePort` where there is no controller (`astray` of `Kernel`).
* A fault while `malloc` or `free` is in the middle of the block list: no access of
  theirs faults as long as the list is what `Heap` shows it to be.
* Entry flags of the page tables other than present; more than one AHCI port (ports
  share nothing but the pmm); the order of the scan codes a keyboard may send, so whether
  an extended code can really stay pending over a shift (keyboard.cpp:15).
* limine, the CPU, the PIC, the adapter and the disk are modelled from how the code uses
  them and marked external.

## 6. Plan

1. `Files` with a heap that refuses a string in the middle of a path.
2. Numbers in bases 2 and 16, and the E0 sequences of a real keyboard.
