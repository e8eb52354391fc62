-------------------------------- MODULE Pci --------------------------------
(***************************************************************************)
(* The PCI scan of kernel/io/pci/pci.cpp: a first pass over the bus counts *)
(* the devices, a table of that length is asked for, and a second pass     *)
(* fills it, whether malloc has returned a table or null.  Between two     *)
(* reads of the configuration space a device may be plugged in or out, and *)
(* nothing ties the second pass to the first.                              *)
(*                                                                         *)
(* A slot is a bus, device and function number.  A device is its kind; its *)
(* BAR 5 names the slot it is in.                                          *)
(***************************************************************************)
EXTENDS Integers, FiniteSets

CONSTANTS
  Kinds,        \* the devices there are
  Sata,         \* those of class 1, subclass 6
  SLOTS,        \* slots of the bus (65536 in the code)
  MAX_PLUGS     \* bound: slots that change during a scan

Slots == 1 .. SLOTS
Absent == "absent"
Ones == "ones"         \* what is read where there is no device
Garbage == "garbage"   \* what malloc returns is not cleared
OnesBar == -1          \* a BAR of them names no slot, and may name any address
GarbageBar == -2

ASSUME PciAssumption ==
  /\ Sata \subseteq Kinds /\ SLOTS \in Nat \ {0} /\ MAX_PLUGS \in Nat
  /\ {Absent, Ones, Garbage} \cap Kinds = {}

VARIABLES
  bus,                 \* slot -> the device in it
  scan,                \* phase, the slot it is at, deviceCounter, PCIDeviceAmount, and
                       \* null: found_pci_devices is
  found_pci_devices,   \* the table behind it
  changed              \* ghost: the slots that changed during the scan

pciVars == <<bus, scan, found_pci_devices, changed>>

PciInit ==
  /\ bus \in [Slots -> Kinds \cup {Absent}]
  /\ scan = [phase |-> "count", slot |-> 1, deviceCounter |-> 0, PCIDeviceAmount |-> 0,
              null |-> FALSE]
  /\ found_pci_devices = <<>>
  /\ changed = {}

is_device_present == bus[scan.slot] # Absent

\* Mutant: the last slot is not counted.
count_pci_devices_short ==
  /\ scan.phase = "count" /\ scan.slot \in Slots
  /\ scan' = [scan EXCEPT !.slot = @ + 1,
                          !.PCIDeviceAmount = IF is_device_present /\ scan.slot < SLOTS
                                              THEN @ + 1 ELSE @]
  /\ UNCHANGED <<bus, found_pci_devices, changed>>

count_pci_devices ==
  /\ scan.phase = "count" /\ scan.slot \in Slots
  /\ scan' = [scan EXCEPT !.slot = @ + 1,
                          !.PCIDeviceAmount = IF is_device_present THEN @ + 1 ELSE @]
  /\ UNCHANGED <<bus, found_pci_devices, changed>>

\* The table, not cleared, or none: the second pass begins either way.  (malloc of no
\* bytes returns a block as well.)
allocate_table(malloced) ==
  /\ scan.phase = "count" /\ scan.slot \notin Slots
  /\ scan' = [scan EXCEPT !.phase = "reg0", !.slot = 1, !.null = ~malloced]
  /\ found_pci_devices' =
       [i \in IF malloced THEN 1 .. scan.PCIDeviceAmount ELSE {} |->
          [id |-> Garbage, class |-> Garbage, bar |-> GarbageBar]]
  /\ UNCHANGED <<bus, changed>>

\* Register 0 tells whether there is a device, and its number goes into the table.  What
\* is stored behind the table is the header of the next block of the heap; a store
\* through null is a page fault.
read_reg0 ==
  /\ scan.phase = "reg0" /\ scan.slot \in Slots
  /\ LET i == scan.deviceCounter + 1
     IN  \/ /\ ~is_device_present
            /\ scan' = [scan EXCEPT !.slot = @ + 1]
            /\ UNCHANGED found_pci_devices
         \/ /\ is_device_present /\ scan.null
            /\ scan' = [scan EXCEPT !.phase = "fault"]
            /\ UNCHANGED found_pci_devices
         \/ /\ is_device_present /\ ~scan.null /\ i <= scan.PCIDeviceAmount
            /\ found_pci_devices' = [found_pci_devices EXCEPT
                 ![i] = [id |-> bus[scan.slot], class |-> @.class, bar |-> @.bar]]
            /\ scan' = [scan EXCEPT !.phase = "reg2"]
         \/ /\ is_device_present /\ ~scan.null /\ i > scan.PCIDeviceAmount
            /\ scan' = [scan EXCEPT !.phase = "overrun"]
            /\ UNCHANGED found_pci_devices
  /\ UNCHANGED <<bus, changed>>

\* The other registers, of whatever is in the slot by now.
read_registers ==
  LET here == scan.slot
  IN  /\ scan.phase = "reg2"
      /\ found_pci_devices' = [found_pci_devices EXCEPT
           ![scan.deviceCounter + 1] =
              [id |-> @.id,
               class |-> IF is_device_present THEN bus[here] ELSE Ones,
               bar |-> IF is_device_present THEN here ELSE OnesBar]]
      /\ scan' = [scan EXCEPT !.phase = "reg0", !.slot = @ + 1, !.deviceCounter = @ + 1]
      /\ UNCHANGED <<bus, changed>>

scan_done ==
  /\ scan.phase = "reg0" /\ scan.slot \notin Slots
  /\ scan' = [scan EXCEPT !.phase = "done"]
  /\ UNCHANGED <<bus, found_pci_devices, changed>>

passes == count_pci_devices \/ read_reg0 \/ read_registers \/ scan_done

init_pci == passes \/ \E malloced \in BOOLEAN : allocate_table(malloced)

\* A device is plugged in, out, or replaced.
Plug ==
  /\ scan.phase \in {"count", "reg0", "reg2"}
  /\ \E s \in Slots, d \in Kinds \cup {Absent} :
       /\ d # bus[s]
       /\ Cardinality(changed \cup {s}) <= MAX_PLUGS
       /\ bus' = [bus EXCEPT ![s] = d]
       /\ changed' = changed \cup {s}
  /\ UNCHANGED <<scan, found_pci_devices>>

\* The entries find_ahci_controller may return: the first of the class, as a set of at
\* most one, or an entry never written that happens to look like it.
find_ahci_controller ==
  LET table == found_pci_devices
      hits == {i \in DOMAIN table : table[i].class \in Sata}
  IN  {i \in hits : \A j \in hits : i <= j}
        \cup (IF hits = {} THEN {i \in DOMAIN table : table[i].class = Garbage} ELSE {})
-----------------------------------------------------------------------------
\* Whatever is plugged in and out meanwhile, each device that stays in its slot is in the
\* table once and as it is, in the order of the bus, when the scan ends; without a change
\* that is the whole table, and without a change no entry is stored behind the table.
TableIsBus ==
  LET At(s) == {i \in DOMAIN found_pci_devices : found_pci_devices[i].bar = s}
      Stable == {s \in Slots \ changed : bus[s] # Absent}
  IN  /\ scan.phase = "done" =>
           /\ \A s \in Stable : \E i \in At(s) :
                /\ At(s) = {i}
                /\ found_pci_devices[i].id = bus[s] /\ found_pci_devices[i].class = bus[s]
           /\ \A s, t \in Stable : s < t => \A i \in At(s), j \in At(t) : i < j
      /\ changed = {} =>
           /\ scan.phase # "overrun"
           /\ scan.phase = "done" => scan.PCIDeviceAmount = Cardinality(Stable)
=============================================================================
