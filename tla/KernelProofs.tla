---------------------------- MODULE KernelProofs ----------------------------
(***************************************************************************)
(* Proofs about the boot with its PCI scan, for any number of slots, kinds *)
(* of devices and changes during the scan, any heap and any stack; about   *)
(* the interrupts; and about the disk driver.                              *)
(*                                                                         *)
(* ScanInv is what the scan has found when it is at a slot, however the    *)
(* bus changes meanwhile; CountInv what it has counted if it does not.     *)
(* BootInv ties the lines on the screen to what the stages have set up.    *)
(***************************************************************************)
EXTENDS Kernel, Interrupts, Ahci, FiniteSetTheorems, TLAPS

Entry == [id : Kinds \cup {Garbage}, class : Kinds \cup {Ones, Garbage},
          bar : Slots \cup {OnesBar, GarbageBar}]

Filling == scan.phase \in {"reg0", "reg2", "done"}

ScanTypes ==
  /\ bus \in [Slots -> Kinds \cup {Absent}]
  /\ scan \in [phase : {"count", "reg0", "reg2", "done", "overrun", "fault"},
               slot : 1 .. SLOTS + 1, deviceCounter : Nat, PCIDeviceAmount : Nat, null : BOOLEAN]
  /\ found_pci_devices \in [DOMAIN found_pci_devices -> Entry]
  /\ changed \subseteq Slots
  /\ scan.phase = "count" => found_pci_devices = <<>> /\ scan.deviceCounter = 0
  /\ Filling => /\ DOMAIN found_pci_devices = IF scan.null THEN {} ELSE 1 .. scan.PCIDeviceAmount
                /\ scan.deviceCounter <= scan.PCIDeviceAmount
                /\ scan.null => scan.deviceCounter = 0
  /\ scan.phase = "reg2" => /\ scan.slot \in Slots /\ ~scan.null
                            /\ scan.deviceCounter < scan.PCIDeviceAmount
  /\ scan.phase = "done" => scan.slot = SLOTS + 1

Filled == 1 .. scan.deviceCounter

\* Written entries name slots the scan has passed, in order; the others name none; and each
\* device passed that has stayed in its slot is in an entry.
ScanInv ==
  LET table == found_pci_devices
  IN  Filling =>
        /\ \A i \in Filled : table[i].bar \in Slots \cup {OnesBar} /\ table[i].bar < scan.slot
        /\ \A i \in DOMAIN table \ Filled : table[i].bar = GarbageBar
        /\ \A i, j \in Filled :
             i < j /\ table[i].bar \in Slots /\ table[j].bar \in Slots => table[i].bar < table[j].bar
        /\ \A s \in Slots \ changed : s < scan.slot /\ bus[s] # Absent =>
             \E i \in Filled : table[i].bar = s /\ table[i].id = bus[s] /\ table[i].class = bus[s]
        /\ scan.phase = "reg2" /\ scan.slot \notin changed =>
             bus[scan.slot] # Absent /\ table[scan.deviceCounter + 1].id = bus[scan.slot]

\* The devices in the slots below k.
Below(k) == {s \in 1 .. k - 1 : bus[s] # Absent}

CountInv ==
  changed = {} =>
    /\ scan.phase # "overrun"
    /\ scan.phase = "count" => scan.PCIDeviceAmount = Cardinality(Below(scan.slot))
    /\ Filling => /\ scan.deviceCounter = Cardinality(Below(scan.slot))
                  /\ scan.PCIDeviceAmount = Cardinality(Below(SLOTS + 1))
                  /\ \A i \in Filled : /\ found_pci_devices[i].bar \in Slots
                                       /\ found_pci_devices[i].class = bus[found_pci_devices[i].bar]

\* A step of the scan, of whoever plugs, or of anything else.
ScanStep == init_pci \/ Plug \/ UNCHANGED pciVars
-----------------------------------------------------------------------------
(* The scan *)

\* The kernel and whoever plugs take no other steps of the scan.
LEMMA NextIsScanStep == [Next]_vars => ScanStep
  BY DEF Next, ScanStep, vars, init_pci, malloc_table, StoresAstray, kernel_main, init_memory,
     init_rendering_full, init_pci_layer,
     init_drive_layer, init_filesystem_layer, init_shell, Commands, insert_char_at_cursor,
     cmd_cd, cmd_ls, cmd_read, cmd_driveinfo, cmd_reboot, fault_handler

\* At first nothing is counted and there is no table.
LEMMA ScanTypesInit == Init => ScanTypes
  BY PciAssumption DEF Init, PciInit, ScanTypes, Filling, Slots

\* What a step of the scan does, field by field.
LEMMA CountStep ==
  ASSUME ScanTypes, count_pci_devices
  PROVE  /\ scan.phase = "count" /\ scan.slot \in Slots
         /\ scan' = [phase |-> "count", slot |-> scan.slot + 1,
                     deviceCounter |-> scan.deviceCounter,
                     PCIDeviceAmount |-> IF bus[scan.slot] # Absent THEN scan.PCIDeviceAmount + 1
                                         ELSE scan.PCIDeviceAmount,
                     null |-> scan.null]
         /\ UNCHANGED <<bus, found_pci_devices, changed>>
  BY DEF ScanTypes, count_pci_devices, is_device_present

LEMMA AllocateStep ==
  ASSUME ScanTypes, NEW malloced \in BOOLEAN, allocate_table(malloced)
  PROVE  /\ scan.phase = "count" /\ scan.slot = SLOTS + 1
         /\ scan' = [phase |-> "reg0", slot |-> 1, deviceCounter |-> scan.deviceCounter,
                     PCIDeviceAmount |-> scan.PCIDeviceAmount, null |-> ~malloced]
         /\ found_pci_devices' = [i \in IF malloced THEN 1 .. scan.PCIDeviceAmount ELSE {} |->
                                    [id |-> Garbage, class |-> Garbage, bar |-> GarbageBar]]
         /\ UNCHANGED <<bus, changed>>
<1>1. scan.slot = SLOTS + 1 /\ scan.phase = "count"
  BY PciAssumption DEF ScanTypes, allocate_table, Slots
<1>2. scan' = [phase |-> "reg0", slot |-> 1, deviceCounter |-> scan.deviceCounter,
               PCIDeviceAmount |-> scan.PCIDeviceAmount, null |-> ~malloced]
  BY DEF ScanTypes, allocate_table
<1> QED
  BY <1>1, <1>2, Zenon DEF allocate_table

\* Register 0 of an empty slot, of a device without a table, with room in it, and without.
LEMMA Reg0Step ==
  ASSUME ScanTypes, read_reg0
  PROVE  /\ scan.phase = "reg0" /\ scan.slot \in Slots
         /\ UNCHANGED <<bus, changed>>
         /\ \/ /\ bus[scan.slot] = Absent
               /\ scan' = [phase |-> "reg0", slot |-> scan.slot + 1,
                           deviceCounter |-> scan.deviceCounter,
                           PCIDeviceAmount |-> scan.PCIDeviceAmount, null |-> scan.null]
               /\ UNCHANGED found_pci_devices
            \/ /\ bus[scan.slot] # Absent /\ scan.null
               /\ scan' = [phase |-> "fault", slot |-> scan.slot,
                           deviceCounter |-> scan.deviceCounter,
                           PCIDeviceAmount |-> scan.PCIDeviceAmount, null |-> scan.null]
               /\ UNCHANGED found_pci_devices
            \/ /\ bus[scan.slot] # Absent /\ ~scan.null /\ scan.deviceCounter < scan.PCIDeviceAmount
               /\ scan' = [phase |-> "reg2", slot |-> scan.slot,
                           deviceCounter |-> scan.deviceCounter,
                           PCIDeviceAmount |-> scan.PCIDeviceAmount, null |-> scan.null]
               /\ found_pci_devices' = [i \in DOMAIN found_pci_devices |->
                    IF i = scan.deviceCounter + 1
                    THEN [id |-> bus[scan.slot], class |-> found_pci_devices[i].class,
                          bar |-> found_pci_devices[i].bar]
                    ELSE found_pci_devices[i]]
            \/ /\ bus[scan.slot] # Absent /\ ~scan.null /\ scan.deviceCounter = scan.PCIDeviceAmount
               /\ scan' = [phase |-> "overrun", slot |-> scan.slot,
                           deviceCounter |-> scan.deviceCounter,
                           PCIDeviceAmount |-> scan.PCIDeviceAmount, null |-> scan.null]
               /\ UNCHANGED found_pci_devices
<1> DEFINE n == scan.deviceCounter + 1
<1>1. n \in Nat /\ (n <= scan.PCIDeviceAmount <=> scan.deviceCounter < scan.PCIDeviceAmount)
      /\ (n > scan.PCIDeviceAmount => scan.deviceCounter = scan.PCIDeviceAmount)
  BY DEF ScanTypes, Filling, read_reg0
<1>2. scan.phase = "reg0" /\ scan.slot \in Slots /\ UNCHANGED <<bus, changed>>
  BY DEF read_reg0
<1>3. CASE bus[scan.slot] = Absent
  BY <1>2, <1>3 DEF read_reg0, is_device_present, ScanTypes
<1>6. CASE bus[scan.slot] # Absent /\ scan.null
  <2>1. scan' = [scan EXCEPT !.phase = "fault"] /\ UNCHANGED found_pci_devices
    BY <1>6, Zenon DEF read_reg0, is_device_present
  <2>2. scan' = [phase |-> "fault", slot |-> scan.slot, deviceCounter |-> scan.deviceCounter,
                 PCIDeviceAmount |-> scan.PCIDeviceAmount, null |-> scan.null]
    BY <2>1 DEF ScanTypes
  <2> QED
    BY <1>2, <1>6, <2>1, <2>2
<1>4. CASE bus[scan.slot] # Absent /\ ~scan.null /\ scan.deviceCounter < scan.PCIDeviceAmount
  <2>0. ~(scan.deviceCounter + 1 > scan.PCIDeviceAmount)
    BY <1>4 DEF ScanTypes
  <2>1. /\ found_pci_devices' = [found_pci_devices EXCEPT
             ![n] = [id |-> bus[scan.slot], class |-> @.class, bar |-> @.bar]]
        /\ scan' = [scan EXCEPT !.phase = "reg2"]
    BY <1>4, <2>0, Zenon DEF read_reg0, is_device_present
  <2>2. n \in DOMAIN found_pci_devices
    BY <1>1, <1>2, <1>4 DEF ScanTypes, Filling
  <2>3. found_pci_devices[n] \in Entry
    BY <2>2 DEF ScanTypes
  <2>4. found_pci_devices' = [i \in DOMAIN found_pci_devices |->
          IF i = n THEN [id |-> bus[scan.slot], class |-> found_pci_devices[i].class,
                         bar |-> found_pci_devices[i].bar]
          ELSE found_pci_devices[i]]
    BY <2>1, <2>2, <2>3 DEF Entry
  <2>5. scan' = [phase |-> "reg2", slot |-> scan.slot, deviceCounter |-> scan.deviceCounter,
                 PCIDeviceAmount |-> scan.PCIDeviceAmount, null |-> scan.null]
    BY <2>1 DEF ScanTypes
  <2> QED
    BY <1>2, <1>4, <2>4, <2>5
<1>5. CASE bus[scan.slot] # Absent /\ ~scan.null /\ scan.deviceCounter = scan.PCIDeviceAmount
  <2>0. ~(scan.deviceCounter + 1 <= scan.PCIDeviceAmount)
    BY <1>5 DEF ScanTypes
  <2>1. scan' = [scan EXCEPT !.phase = "overrun"] /\ UNCHANGED found_pci_devices
    BY <1>5, <2>0, Zenon DEF read_reg0, is_device_present
  <2>2. scan' = [phase |-> "overrun", slot |-> scan.slot, deviceCounter |-> scan.deviceCounter,
                 PCIDeviceAmount |-> scan.PCIDeviceAmount, null |-> scan.null]
    BY <2>1 DEF ScanTypes
  <2> QED
    BY <1>2, <1>5, <2>1, <2>2
<1> QED
  BY <1>1, <1>2, <1>3, <1>4, <1>5, <1>6 DEF read_reg0, is_device_present, ScanTypes, Filling

\* The other registers, of whatever is in the slot.
LEMMA RegistersStep ==
  ASSUME ScanTypes, read_registers
  PROVE  /\ scan.phase = "reg2"
         /\ UNCHANGED <<bus, changed>>
         /\ scan' = [phase |-> "reg0", slot |-> scan.slot + 1,
                     deviceCounter |-> scan.deviceCounter + 1,
                     PCIDeviceAmount |-> scan.PCIDeviceAmount, null |-> scan.null]
         /\ found_pci_devices' = [i \in DOMAIN found_pci_devices |->
              IF i = scan.deviceCounter + 1
              THEN [id |-> found_pci_devices[i].id,
                    class |-> IF bus[scan.slot] # Absent THEN bus[scan.slot] ELSE Ones,
                    bar |-> IF bus[scan.slot] # Absent THEN scan.slot ELSE OnesBar]
              ELSE found_pci_devices[i]]
<1> DEFINE n == scan.deviceCounter + 1
           c == IF bus[scan.slot] # Absent THEN bus[scan.slot] ELSE Ones
           b == IF bus[scan.slot] # Absent THEN scan.slot ELSE OnesBar
<1>1. n \in DOMAIN found_pci_devices /\ found_pci_devices[n] \in Entry
  BY DEF ScanTypes, Filling, read_registers
<1>2. found_pci_devices' = [found_pci_devices EXCEPT
        ![n] = [id |-> @.id, class |-> c, bar |-> b]]
  BY Zenon DEF read_registers, is_device_present
<1>3. found_pci_devices' = [i \in DOMAIN found_pci_devices |->
        IF i = n THEN [id |-> found_pci_devices[i].id, class |-> c, bar |-> b]
        ELSE found_pci_devices[i]]
  <2> HIDE DEF c, b, n
  <2> QED
    BY <1>1, <1>2 DEF Entry
<1>4. scan' = [phase |-> "reg0", slot |-> scan.slot + 1,
               deviceCounter |-> scan.deviceCounter + 1,
               PCIDeviceAmount |-> scan.PCIDeviceAmount, null |-> scan.null]
  BY DEF ScanTypes, read_registers
<1> QED
  BY <1>3, <1>4 DEF read_registers

\* The scan stays on the bus and in its table.
LEMMA ScanTypesNext == ScanTypes /\ ScanStep => ScanTypes'
<1> SUFFICES ASSUME ScanTypes, ScanStep PROVE ScanTypes'
  OBVIOUS
<1> USE PciAssumption DEF ScanTypes, Filling, Slots
<1>1. CASE count_pci_devices
  BY <1>1, CountStep
<1>2. ASSUME NEW malloced \in BOOLEAN, allocate_table(malloced) PROVE ScanTypes'
  <2> DEFINE D == IF malloced THEN 1 .. scan.PCIDeviceAmount ELSE {}
  <2>1. found_pci_devices' \in [D -> Entry]
    BY <1>2, AllocateStep DEF Entry
  <2>2. DOMAIN found_pci_devices' = D
    BY <2>1
  <2>6. scan' = [phase |-> "reg0", slot |-> 1, deviceCounter |-> 0,
                 PCIDeviceAmount |-> scan.PCIDeviceAmount, null |-> ~malloced]
    BY <1>2, AllocateStep
  <2>3. /\ scan'.phase = "reg0" /\ scan'.slot = 1 /\ scan'.deviceCounter = 0
        /\ scan'.PCIDeviceAmount = scan.PCIDeviceAmount /\ scan'.null = ~malloced
        /\ scan' \in [phase : {"count", "reg0", "reg2", "done", "overrun", "fault"},
                      slot : 1 .. SLOTS + 1, deviceCounter : Nat, PCIDeviceAmount : Nat,
                      null : BOOLEAN]
    BY <2>6
  <2>4. UNCHANGED <<bus, changed>>
    BY <1>2, AllocateStep
  <2>5. D = IF scan'.null THEN {} ELSE 1 .. scan'.PCIDeviceAmount
    BY <2>3
  <2> HIDE DEF D
  <2> QED
    BY <2>1, <2>2, <2>3, <2>4, <2>5
<1>3. CASE read_reg0
  BY <1>3, Reg0Step DEF Entry
<1>4. CASE read_registers
  BY <1>4, RegistersStep DEF Entry
<1>5. CASE scan_done
  BY <1>5 DEF scan_done
<1>6. CASE Plug
  BY <1>6 DEF Plug
<1>7. CASE UNCHANGED pciVars
  BY <1>7 DEF pciVars
<1> QED
  BY <1>1, <1>2, <1>3, <1>4, <1>5, <1>6, <1>7 DEF ScanStep, init_pci, passes

\* At first there is no table.
LEMMA ScanInvInit == Init => ScanInv
  BY DEF Init, PciInit, ScanInv, Filling

\* A device that stays in its slot while the scan passes it is in the table from then on,
\* whatever is plugged elsewhere.
LEMMA ScanInvNext == ScanTypes /\ ScanInv /\ ScanStep => ScanInv'
<1> SUFFICES ASSUME ScanTypes, ScanInv, ScanStep PROVE ScanInv'
  OBVIOUS
<1> USE PciAssumption
<1>1. CASE count_pci_devices
  BY <1>1, CountStep DEF ScanInv, Filling
<1>2. ASSUME NEW malloced \in BOOLEAN, allocate_table(malloced) PROVE ScanInv'
  <2>1. scan'.phase = "reg0" /\ scan'.slot = 1 /\ scan'.deviceCounter = 0
    BY <1>2, AllocateStep DEF ScanTypes
  <2>2. Filled' = {}
    BY <2>1 DEF Filled
  <2>3. \A i \in DOMAIN found_pci_devices' : found_pci_devices'[i].bar = GarbageBar
    <3> DEFINE D == IF malloced THEN 1 .. scan.PCIDeviceAmount ELSE {}
    <3>1. found_pci_devices' = [i \in D |-> [id |-> Garbage, class |-> Garbage, bar |-> GarbageBar]]
      BY <1>2, AllocateStep
    <3> HIDE DEF D
    <3> QED
      BY <3>1
  <2> QED
    BY <2>1, <2>2, <2>3 DEF ScanInv, Slots
<1>3. CASE read_reg0
  <2>0. /\ scan.phase = "reg0" /\ scan.slot \in Slots /\ UNCHANGED <<bus, changed>>
        /\ Filled' = Filled /\ Filling /\ scan.slot \in Nat
    BY <1>3, Reg0Step DEF Filled, Filling, Slots
  <2>1. CASE bus[scan.slot] = Absent
    <3>1. scan'.phase = "reg0" /\ scan'.slot = scan.slot + 1 /\ UNCHANGED found_pci_devices
      BY <1>3, <2>1, Reg0Step
    <3>2. \A i \in Filled : found_pci_devices[i].bar < scan.slot + 1
      BY <2>0 DEF ScanInv, Slots, OnesBar
    <3>3. \A s \in Slots : s < scan.slot + 1 /\ bus[s] # Absent => s < scan.slot
      BY <2>0, <2>1 DEF Slots
    <3> QED
      BY <2>0, <3>1, <3>2, <3>3 DEF ScanInv
  <2>4. CASE bus[scan.slot] # Absent /\ scan.null
    <3>1. scan'.phase = "fault"
      BY <1>3, <2>4, Reg0Step DEF ScanTypes
    <3> QED
      BY <3>1 DEF ScanInv, Filling
  <2>2. CASE bus[scan.slot] # Absent /\ ~scan.null /\ scan.deviceCounter < scan.PCIDeviceAmount
    <3> DEFINE n == scan.deviceCounter + 1
               table == found_pci_devices
    <3>1. /\ scan'.phase = "reg2" /\ scan'.slot = scan.slot
          /\ scan'.deviceCounter = scan.deviceCounter
          /\ DOMAIN table' = DOMAIN table /\ n \in DOMAIN table
          /\ \A i \in DOMAIN table \ {n} : table'[i] = table[i]
          /\ table'[n].id = bus[scan.slot] /\ table'[n].bar = table[n].bar
      BY <1>3, <2>0, <2>2, Reg0Step DEF ScanTypes, Filling
    <3>2. \A i \in Filled : i \in DOMAIN table \ {n}
      BY <2>0 DEF ScanTypes, Filling, Filled
    <3>3. \A i \in DOMAIN table : table'[i].bar = table[i].bar
      BY <3>1
    <3>4. \A i \in Filled : table'[i] = table[i]
      BY <3>1, <3>2
    <3> HIDE DEF table, n
    <3>5. found_pci_devices = table /\ scan.deviceCounter + 1 = n
      BY DEF table, n
    <3>6. found_pci_devices' = table'
      BY DEF table
    <3>7. /\ \A i \in Filled' : table'[i].bar \in Slots \cup {OnesBar} /\ table'[i].bar < scan'.slot
          /\ \A i \in DOMAIN table' \ Filled' : table'[i].bar = GarbageBar
      BY <2>0, <3>1, <3>3, <3>4, <3>5 DEF ScanInv
    <3>8. \A i, j \in Filled' : i < j /\ table'[i].bar \in Slots /\ table'[j].bar \in Slots =>
                              table'[i].bar < table'[j].bar
      BY <2>0, <3>4, <3>5 DEF ScanInv
    <3>9. \A s \in Slots \ changed' : s < scan'.slot /\ bus'[s] # Absent =>
            \E i \in Filled' : table'[i].bar = s /\ table'[i].id = bus'[s] /\ table'[i].class = bus'[s]
      BY <2>0, <3>1, <3>4, <3>5 DEF ScanInv
    <3> QED
      BY <2>0, <2>2, <3>1, <3>5, <3>6, <3>7, <3>8, <3>9 DEF ScanInv
  <2>3. CASE bus[scan.slot] # Absent /\ ~scan.null /\ scan.deviceCounter = scan.PCIDeviceAmount
    <3>1. scan'.phase = "overrun"
      BY <1>3, <2>3, Reg0Step DEF ScanTypes
    <3> QED
      BY <3>1 DEF ScanInv, Filling
  <2> QED
    BY <1>3, <2>1, <2>2, <2>3, <2>4, Reg0Step
<1>4. CASE read_registers
  <2> DEFINE n == scan.deviceCounter + 1
             table == found_pci_devices
  <2>1. /\ scan'.phase = "reg0" /\ scan'.slot = scan.slot + 1 /\ scan'.deviceCounter = n
        /\ scan.phase = "reg2" /\ UNCHANGED <<bus, changed>>
    BY <1>4, RegistersStep
  <2>2. /\ n \in 1 .. scan.PCIDeviceAmount /\ DOMAIN table = 1 .. scan.PCIDeviceAmount
        /\ scan.slot \in Slots
    BY <2>1 DEF ScanTypes, Filling
  <2>3. Filled' = Filled \cup {n} /\ n \notin Filled
    BY <2>1 DEF Filled, ScanTypes
  <2>4. /\ DOMAIN table' = DOMAIN table
        /\ \A i \in DOMAIN table \ {n} : table'[i] = table[i]
        /\ table'[n].id = table[n].id
        /\ table'[n].class = IF bus[scan.slot] # Absent THEN bus[scan.slot] ELSE Ones
        /\ table'[n].bar = IF bus[scan.slot] # Absent THEN scan.slot ELSE OnesBar
    BY <1>4, <2>2, RegistersStep
  <2>5. \A i \in Filled : i \in DOMAIN table /\ i < n /\ i # n
    BY <2>2 DEF Filled, ScanTypes
  <2>6. \A i \in Filled' : table'[i].bar \in Slots \cup {OnesBar} /\ table'[i].bar < scan'.slot
    <3>1. \A i \in Filled : table'[i].bar \in Slots \cup {OnesBar} /\ table'[i].bar < scan.slot
      BY <2>1, <2>4, <2>5 DEF ScanInv, Filling
    <3>2. table'[n].bar \in Slots \cup {OnesBar} /\ table'[n].bar <= scan.slot
      BY <2>2, <2>4 DEF OnesBar, Slots
    <3> HIDE DEF table, n
    <3> QED
      BY <2>1, <2>2, <2>3, <3>1, <3>2 DEF Slots, OnesBar
  <2>7. \A i \in DOMAIN table' \ Filled' : table'[i].bar = GarbageBar
    BY <2>1, <2>3, <2>4 DEF ScanInv, Filling
  <2>8. \A i, j \in Filled' :
          i < j /\ table'[i].bar \in Slots /\ table'[j].bar \in Slots => table'[i].bar < table'[j].bar
    <3> SUFFICES ASSUME NEW i \in Filled', NEW j \in Filled', i < j,
                        table'[i].bar \in Slots, table'[j].bar \in Slots
                 PROVE  table'[i].bar < table'[j].bar
      OBVIOUS
    <3>1. i \in Filled
      BY <2>3, <2>5 DEF Filled, ScanTypes
    <3>2. table'[i] = table[i] /\ table[i].bar < scan.slot
      BY <2>1, <2>4, <2>5, <3>1 DEF ScanInv, Filling
    <3>3. CASE j = n
      BY <2>4, <3>2, <3>3 DEF Slots, OnesBar
    <3>4. CASE j \in Filled
      BY <2>1, <2>4, <2>5, <3>1, <3>2, <3>4 DEF ScanInv, Filling
    <3> QED
      BY <2>3, <3>3, <3>4
  <2>9. \A s \in Slots \ changed' : s < scan'.slot /\ bus'[s] # Absent =>
          \E i \in Filled' : table'[i].bar = s /\ table'[i].id = bus'[s] /\ table'[i].class = bus'[s]
    <3> SUFFICES ASSUME NEW s \in Slots \ changed, s < scan.slot + 1, bus[s] # Absent
                 PROVE  \E i \in Filled' :
                          table'[i].bar = s /\ table'[i].id = bus[s] /\ table'[i].class = bus[s]
      BY <2>1
    <3>1. CASE s = scan.slot
      <4>1. table'[n].bar = s /\ table'[n].id = bus[s] /\ table'[n].class = bus[s]
        BY <2>1, <2>4, <3>1 DEF ScanInv, Filling
      <4> QED
        BY <2>3, <4>1
    <3>2. CASE s # scan.slot
      <4>1. s < scan.slot
        BY <2>2, <3>2 DEF Slots
      <4>2. PICK i \in Filled : table[i].bar = s /\ table[i].id = bus[s] /\ table[i].class = bus[s]
        BY <2>1, <4>1 DEF ScanInv, Filling
      <4> QED
        BY <2>3, <2>4, <2>5, <4>2
    <3> QED
      BY <3>1, <3>2
  <2> HIDE DEF n
  <2> QED
    BY <2>1, <2>6, <2>7, <2>8, <2>9 DEF ScanInv
<1>5. CASE scan_done
  <2>1. scan' = [phase |-> "done", slot |-> scan.slot, deviceCounter |-> scan.deviceCounter,
                 PCIDeviceAmount |-> scan.PCIDeviceAmount, null |-> scan.null]
        /\ scan.phase = "reg0" /\ UNCHANGED <<bus, found_pci_devices, changed>>
    BY <1>5 DEF scan_done, ScanTypes
  <2> QED
    BY <2>1 DEF ScanInv, Filling, Filled
<1>6. CASE Plug
  <2>1. UNCHANGED <<scan, found_pci_devices>> /\ changed \subseteq changed'
    BY <1>6 DEF Plug
  <2>2. \A s \in Slots \ changed' : bus'[s] = bus[s]
    BY <1>6 DEF Plug, ScanTypes
  <2>3. Filling /\ scan.phase = "reg2" => scan.slot \in Slots
    BY DEF ScanTypes
  <2> QED
    BY <2>1, <2>2, <2>3 DEF ScanInv, Filling, Filled
<1>7. CASE UNCHANGED pciVars
  BY <1>7 DEF pciVars, ScanInv, Filling, Filled
<1> QED
  BY <1>1, <1>2, <1>3, <1>4, <1>5, <1>6, <1>7 DEF ScanStep, init_pci, passes
-----------------------------------------------------------------------------
(* The count *)

\* Going past a slot counts the device in it.
LEMMA BelowNext ==
  ASSUME NEW k \in Slots
  PROVE  Cardinality(Below(k + 1)) =
           IF bus[k] # Absent THEN Cardinality(Below(k)) + 1 ELSE Cardinality(Below(k))
<1>1. Below(k + 1) = IF bus[k] # Absent THEN Below(k) \cup {k} ELSE Below(k)
  BY PciAssumption DEF Below, Slots
<1>2. IsFiniteSet(1 .. k - 1) /\ Below(k) \in SUBSET (1 .. k - 1)
  BY FS_Interval DEF Below, Slots
<1>3. IsFiniteSet(Below(k)) /\ k \notin Below(k)
  BY <1>2, FS_Subset DEF Slots
<1> QED
  BY <1>1, <1>3, FS_AddElement

\* No part of the bus holds more devices than all of it.
LEMMA BelowBounded ==
  ASSUME NEW k \in 1 .. SLOTS + 1
  PROVE  /\ Cardinality(Below(k)) \in Nat /\ Cardinality(Below(SLOTS + 1)) \in Nat
         /\ Cardinality(Below(k)) <= Cardinality(Below(SLOTS + 1))
<1>1. IsFiniteSet(1 .. SLOTS) /\ Below(SLOTS + 1) \in SUBSET (1 .. SLOTS)
  BY PciAssumption, FS_Interval DEF Below
<1>2. IsFiniteSet(Below(SLOTS + 1))
  BY <1>1, FS_Subset
<1>3. Below(k) \in SUBSET Below(SLOTS + 1)
  BY PciAssumption DEF Below
<1> QED
  BY <1>2, <1>3, FS_Subset, FS_CardinalityType

\* Nothing is counted before the first slot.
LEMMA BelowFirst == Cardinality(Below(1)) = 0
<1>1. Below(1) = {}
  BY DEF Below
<1> QED
  BY <1>1, FS_EmptySet

\* At first the count is that of the slots passed.
LEMMA CountInvInit == Init => CountInv
  BY BelowFirst DEF Init, PciInit, CountInv, Filling

\* Without a change the passes agree, slot by slot, so no entry is stored behind the table.
LEMMA CountInvNext == ScanTypes /\ ScanInv /\ CountInv /\ ScanStep => CountInv'
<1> SUFFICES ASSUME ScanTypes, ScanInv, CountInv, ScanStep, changed' = {} PROVE CountInv'
  BY DEF CountInv
<1>0. changed = {} /\ (bus' = bus) /\ ~Plug
  BY DEF ScanStep, init_pci, passes, count_pci_devices, allocate_table, read_reg0, read_registers,
     scan_done, Plug, pciVars
<1>b. UNCHANGED Below(SLOTS + 1)
  BY <1>0 DEF Below
<1>c. ASSUME NEW k, scan'.slot = k PROVE Below(scan.slot)' = Below(k)
  BY <1>0, <1>c DEF Below
<1>1. CASE count_pci_devices
  <2>1. scan.slot \in Slots /\ scan.phase = "count" /\ scan'.slot = scan.slot + 1 /\ scan'.phase = "count"
        /\ scan'.PCIDeviceAmount = IF bus[scan.slot] # Absent THEN scan.PCIDeviceAmount + 1
                                   ELSE scan.PCIDeviceAmount
    BY <1>1, CountStep
  <2>2. scan'.PCIDeviceAmount = Cardinality(Below(scan.slot + 1))
    BY <1>0, <2>1, BelowNext DEF CountInv
  <2>3. Below(scan.slot)' = Below(scan.slot + 1)
    BY <1>c, <2>1
  <2> QED
    BY <2>1, <2>2, <2>3 DEF CountInv, Filling
<1>2. ASSUME NEW malloced \in BOOLEAN, allocate_table(malloced) PROVE CountInv'
  <2>1. scan.slot = SLOTS + 1 /\ scan.phase = "count" /\ scan'.slot = 1 /\ scan'.phase = "reg0"
        /\ scan'.PCIDeviceAmount = scan.PCIDeviceAmount /\ scan'.deviceCounter = 0
    BY <1>2, AllocateStep DEF ScanTypes
  <2>2. scan'.PCIDeviceAmount = Cardinality(Below(SLOTS + 1))
    BY <1>0, <2>1 DEF CountInv
  <2>3. Below(scan.slot)' = Below(1)
    BY <1>c, <2>1
  <2>4. Filled' = {}
    BY <2>1 DEF Filled
  <2> QED
    BY <1>b, <2>1, <2>2, <2>3, <2>4, BelowFirst DEF CountInv
<1>3. CASE read_reg0
  <2>1. scan.slot \in Slots /\ scan.phase = "reg0" /\ Filling
    BY <1>3, Reg0Step DEF Filling
  <2>2. /\ scan.deviceCounter = Cardinality(Below(scan.slot))
        /\ scan.PCIDeviceAmount = Cardinality(Below(SLOTS + 1))
        /\ \A i \in Filled : found_pci_devices[i].bar \in Slots
                            /\ found_pci_devices[i].class = bus[found_pci_devices[i].bar]
    BY <1>0, <2>1 DEF CountInv
  <2>3. CASE bus[scan.slot] = Absent
    <3>1. scan'.phase = "reg0" /\ scan'.slot = scan.slot + 1 /\ UNCHANGED found_pci_devices
          /\ scan'.deviceCounter = scan.deviceCounter /\ scan'.PCIDeviceAmount = scan.PCIDeviceAmount
      BY <1>3, <2>3, Reg0Step
    <3>2. Below(scan.slot)' = Below(scan.slot + 1) /\ Filled' = Filled
      BY <1>c, <3>1 DEF Filled
    <3>3. Cardinality(Below(scan.slot + 1)) = Cardinality(Below(scan.slot))
      BY <2>1, <2>3, BelowNext
    <3> QED
      BY <1>0, <1>b, <2>2, <3>1, <3>2, <3>3 DEF CountInv
  <2>5. CASE bus[scan.slot] # Absent /\ scan.null
    <3>1. scan'.phase = "fault"
      BY <1>3, <2>5, Reg0Step DEF ScanTypes
    <3> QED
      BY <3>1 DEF CountInv, Filling
  <2>4. CASE bus[scan.slot] # Absent /\ ~scan.null
    <3>1. scan.deviceCounter < scan.PCIDeviceAmount
      <4>1. scan.slot + 1 \in 1 .. SLOTS + 1 /\ scan.slot \in 1 .. SLOTS + 1
        BY <2>1, PciAssumption DEF Slots
      <4>2. Cardinality(Below(scan.slot + 1)) = Cardinality(Below(scan.slot)) + 1
        BY <2>1, <2>4, BelowNext
      <4>3. Cardinality(Below(scan.slot + 1)) <= Cardinality(Below(SLOTS + 1))
        BY <4>1, BelowBounded
      <4>4. Cardinality(Below(scan.slot)) \in Nat /\ Cardinality(Below(SLOTS + 1)) \in Nat
        BY <4>1, BelowBounded
      <4> QED
        BY <2>2, <4>2, <4>3, <4>4
    <3>2. scan'.phase = "reg2" /\ scan'.slot = scan.slot
          /\ scan'.deviceCounter = scan.deviceCounter /\ scan'.PCIDeviceAmount = scan.PCIDeviceAmount
          /\ \A i \in DOMAIN found_pci_devices \ {scan.deviceCounter + 1} :
                found_pci_devices'[i] = found_pci_devices[i]
      BY <1>3, <2>4, <3>1, Reg0Step DEF ScanTypes
    <3>3. Below(scan.slot)' = Below(scan.slot) /\ Filled' = Filled
      BY <1>c, <3>2 DEF Filled
    <3>4. \A i \in Filled : found_pci_devices'[i] = found_pci_devices[i]
      BY <2>1, <3>2 DEF Filled, ScanTypes, Filling
    <3> QED
      BY <1>0, <1>b, <2>2, <3>2, <3>3, <3>4 DEF CountInv
  <2> QED
    BY <2>3, <2>4, <2>5
<1>4. CASE read_registers
  <2> DEFINE n == scan.deviceCounter + 1
             table == found_pci_devices
  <2>1. /\ scan'.phase = "reg0" /\ scan'.slot = scan.slot + 1 /\ scan'.deviceCounter = n
        /\ scan'.PCIDeviceAmount = scan.PCIDeviceAmount /\ scan.phase = "reg2" /\ Filling
    BY <1>4, RegistersStep DEF Filling
  <2>2. /\ n \in DOMAIN table /\ scan.slot \in Slots /\ bus[scan.slot] # Absent
    BY <1>0, <2>1 DEF ScanTypes, ScanInv
  <2>3. Filled' = Filled \cup {n} /\ Filled \subseteq DOMAIN table \ {n}
    BY <2>1 DEF Filled, ScanTypes
  <2>4. /\ \A i \in DOMAIN table \ {n} : table'[i] = table[i]
        /\ table'[n].bar = scan.slot /\ table'[n].class = bus[scan.slot]
    BY <1>4, <2>2, RegistersStep
  <2>5. /\ scan.deviceCounter = Cardinality(Below(scan.slot))
        /\ scan.PCIDeviceAmount = Cardinality(Below(SLOTS + 1))
        /\ \A i \in Filled : table[i].bar \in Slots /\ table[i].class = bus[table[i].bar]
    BY <1>0, <2>1 DEF CountInv
  <2>6. n = Cardinality(Below(scan.slot + 1)) /\ Below(scan.slot)' = Below(scan.slot + 1)
    BY <1>c, <2>1, <2>2, <2>5, BelowNext
  <2>7. \A i \in Filled' : table'[i].bar \in Slots /\ table'[i].class = bus[table'[i].bar]
    BY <2>2, <2>3, <2>4, <2>5
  <2> HIDE DEF n
  <2> QED
    BY <1>0, <1>b, <2>1, <2>5, <2>6, <2>7 DEF CountInv
<1>5. CASE scan_done
  <2>1. scan' = [phase |-> "done", slot |-> scan.slot, deviceCounter |-> scan.deviceCounter,
                 PCIDeviceAmount |-> scan.PCIDeviceAmount, null |-> scan.null]
        /\ scan.phase = "reg0" /\ UNCHANGED <<bus, found_pci_devices, changed>>
    BY <1>5 DEF scan_done, ScanTypes
  <2>2. UNCHANGED Below(scan.slot) /\ UNCHANGED Filled
    BY <2>1 DEF Filled, Below
  <2> QED
    BY <1>0, <1>b, <2>1, <2>2 DEF CountInv, Filling
<1>6. CASE UNCHANGED pciVars
  <2>1. UNCHANGED Below(scan.slot) /\ UNCHANGED Filled /\ UNCHANGED Filling
    BY <1>6 DEF pciVars, Filled, Below, Filling
  <2> QED
    BY <1>0, <1>6, <1>b, <2>1 DEF CountInv, pciVars
<1> QED
  BY <1>0, <1>1, <1>2, <1>3, <1>4, <1>5, <1>6 DEF ScanStep, init_pci, passes

\* The scan is always as the three say.
LEMMA ScanInvariant == Spec => [](ScanTypes /\ ScanInv /\ CountInv)
<1>1. Init => ScanTypes /\ ScanInv /\ CountInv
  BY ScanTypesInit, ScanInvInit, CountInvInit
<1>2. ScanTypes /\ ScanInv /\ CountInv /\ [Next]_vars => (ScanTypes /\ ScanInv /\ CountInv)'
  BY NextIsScanStep, ScanTypesNext, ScanInvNext, CountInvNext
<1> QED
  BY <1>1, <1>2, PTL DEF Spec

\* Whatever is plugged in and out during the scan, each device that stays is in the table
\* once and in order; without a change the table is the bus and nothing is stored behind it.
THEOREM TableIsTheBus == Spec => []TableIsBus
<1> DEFINE table == found_pci_devices
           EntriesOf(s) == {i \in DOMAIN table : table[i].bar = s}
           Stable == {s \in Slots \ changed : bus[s] # Absent}
<1>1. ASSUME ScanTypes, ScanInv, CountInv, scan.phase = "done"
      PROVE  /\ \A s \in Stable : \E i \in EntriesOf(s) :
                  EntriesOf(s) = {i} /\ table[i].id = bus[s] /\ table[i].class = bus[s]
             /\ \A s, t \in Stable : s < t => \A i \in EntriesOf(s), j \in EntriesOf(t) : i < j
             /\ changed = {} => scan.PCIDeviceAmount = Cardinality(Stable)
  <2>1. Filling /\ scan.slot = SLOTS + 1 /\ Filled \subseteq DOMAIN table
    BY <1>1 DEF Filling, ScanTypes, Filled
  <2>2. ASSUME NEW s \in Slots, NEW i \in EntriesOf(s) PROVE i \in Filled /\ i \in Nat
    <3>1. i \in Filled
      BY <1>1, <2>1, PciAssumption DEF ScanInv, Slots, GarbageBar
    <3> QED
      BY <3>1 DEF Filled
  <2>3. ASSUME NEW s \in Slots, NEW t \in Slots, NEW i \in EntriesOf(s), NEW j \in EntriesOf(t), i < j
        PROVE  s < t
    BY <1>1, <2>1, <2>2, <2>3 DEF ScanInv
  <2>4. ASSUME NEW s \in Slots, NEW i \in EntriesOf(s), NEW j \in EntriesOf(s) PROVE i = j
    <3>1. ~(i < j) /\ ~(j < i)
      BY <2>3, PciAssumption DEF Slots
    <3> QED
      BY <2>2, <3>1
  <2>5. ASSUME NEW s \in Stable
        PROVE  \E i \in EntriesOf(s) : EntriesOf(s) = {i} /\ table[i].id = bus[s] /\ table[i].class = bus[s]
    <3>1. s \in Slots /\ s < scan.slot
      BY <2>1, PciAssumption DEF Slots
    <3>2. PICK i \in Filled : table[i].bar = s /\ table[i].id = bus[s] /\ table[i].class = bus[s]
      BY <1>1, <2>1, <3>1 DEF ScanInv
    <3>3. i \in EntriesOf(s)
      BY <2>1, <3>2
    <3>4. EntriesOf(s) = {i}
      BY <2>4, <3>1, <3>3
    <3> HIDE DEF EntriesOf
    <3> QED
      BY <3>2, <3>3, <3>4
  <2>6. ASSUME NEW s \in Stable, NEW t \in Stable, s < t, NEW i \in EntriesOf(s), NEW j \in EntriesOf(t)
        PROVE  i < j
    <3>1. s \in Slots /\ t \in Slots /\ s # t /\ ~(t < s)
      BY <2>6, PciAssumption DEF Slots
    <3>2. i # j
      BY <3>1
    <3>3. ~(j < i)
      BY <2>3, <3>1
    <3> QED
      BY <2>2, <3>1, <3>2, <3>3
  <2>7. changed = {} => scan.PCIDeviceAmount = Cardinality(Stable)
    <3>1. changed = {} => Stable = Below(SLOTS + 1)
      BY PciAssumption DEF Below, Slots
    <3> QED
      BY <1>1, <2>1, <3>1 DEF CountInv
  <2> HIDE DEF EntriesOf, Stable
  <2> QED
    BY <2>5, <2>6, <2>7
<1>2. CountInv /\ changed = {} => scan.phase # "overrun"
  BY DEF CountInv
<1>3. ScanTypes /\ ScanInv /\ CountInv => TableIsBus
  BY <1>1, <1>2 DEF TableIsBus
<1> QED
  BY <1>3, ScanInvariant, PTL
-----------------------------------------------------------------------------
(* The boot and the commands *)

Stopped == {"fault", "panic", "lost"}

\* A line of the screen says [OK] only if what the stage sets up is there.
BootInv ==
  /\ status \in Seq(BOOLEAN)
  /\ room \in Nat
  /\ pc = "memory" => Len(status) = 0
  /\ pc = "screen" => Len(status) = 1
  /\ pc = "pci" => Len(status) = 2
  /\ pc = "ahci" => Len(status) = 3
  /\ pc = "filesystem" => Len(status) = 4
  /\ Len(status) >= 3 => scan.phase = "done"
  /\ Len(status) >= 1 /\ status[1] = TRUE => heap = TRUE
  /\ Len(status) >= 2 /\ status[2] = TRUE => useScreenBuffer = TRUE
  /\ Len(status) >= 4 /\ status[4] = TRUE =>
       \E i \in find_ahci_controller : BAR_IDX_5 = found_pci_devices[i].bar
  /\ Len(status) >= 5 /\ status[5] = TRUE =>
       activeDriver = TRUE /\ selectedStorageDevice # "nullptr"
  /\ Len(status) = 5 /\ (\A i \in 1 .. 5 : status[i] = TRUE) /\ pc \in Stopped =>
       room < TABLE \/ emptyFile = TRUE

\* Nothing is on the screen at first.
LEMMA BootInvInit == Init => BootInv
  BY DEF Init, BootInv, Stopped

\* A new line of the screen leaves the others.
LEMMA NewLine ==
  ASSUME status \in Seq(BOOLEAN), NEW success \in BOOLEAN, printLoadingStatus(success)
  PROVE  /\ status' \in Seq(BOOLEAN) /\ Len(status') = Len(status) + 1 /\ Len(status) \in Nat
         /\ \A i \in 1 .. Len(status) : status'[i] = status[i]
         /\ status'[Len(status) + 1] = success
<1>1. status' = Append(status, success)
  BY DEF printLoadingStatus
<1> QED
  BY <1>1

\* The table stays when the scan is done.
LEMMA ScanIsOver ==
  ASSUME scan.phase = "done", ScanStep
  PROVE  UNCHANGED pciVars
  BY DEF ScanStep, init_pci, passes, count_pci_devices, allocate_table, read_reg0, read_registers,
     scan_done, Plug

\* The steps that leave the screen and what the stages have set up.
LEMMA Later ==
  ASSUME BootInv, ScanStep, UNCHANGED <<status, bootVars>>, room' \in Nat,
         pc' \in {"prompt", "reset"} \cup Stopped,
         AllOk /\ pc' \in Stopped => room' < TABLE \/ emptyFile' = TRUE
  PROVE  BootInv'
<1>1. Len(status) >= 3 => UNCHANGED pciVars
  BY ScanIsOver DEF BootInv
<1>2. Len(status) \in Nat
  BY DEF BootInv
<1>3. Len(status) >= 4 => UNCHANGED find_ahci_controller /\ UNCHANGED found_pci_devices
  BY <1>1, <1>2 DEF pciVars, find_ahci_controller
<1>4. Len(status) >= 3 => scan'.phase = scan.phase
  BY <1>1 DEF pciVars
<1>5. Len(status) = 5 /\ (\A i \in 1 .. 5 : status[i] = TRUE) => AllOk
  BY DEF AllOk
<1> QED
  BY <1>2, <1>3, <1>4, <1>5 DEF BootInv, bootVars, Stopped

\* Five [OK]s mean what the stages say they mean.
LEMMA AllOkMeans ==
  ASSUME BootInv, AllOk
  PROVE  /\ Len(status) = 5 /\ \A i \in 1 .. 5 : status[i] = TRUE
         /\ heap = TRUE /\ useScreenBuffer = TRUE /\ activeDriver = TRUE
         /\ selectedStorageDevice # "nullptr" /\ scan.phase = "done"
         /\ \E i \in find_ahci_controller : BAR_IDX_5 = found_pci_devices[i].bar
         /\ pc \in Stopped => room < TABLE \/ emptyFile = TRUE
<1>1. Len(status) = 5 /\ \A i \in 1 .. 5 : status[i] = TRUE
  <2>1. Len(status) = 5 /\ \A i \in 1 .. 5 : status[i]
    BY DEF AllOk
  <2>2. \A i \in 1 .. 5 : status[i] \in BOOLEAN
    BY <2>1 DEF BootInv
  <2> QED
    BY <2>1, <2>2, Zenon
<1>2. status[1] = TRUE /\ status[2] = TRUE /\ status[4] = TRUE /\ status[5] = TRUE
  BY <1>1
<1> QED
  BY <1>1, <1>2 DEF BootInv

\* The table takes no more of the heap than there is.
LEMMA TableFits ==
  ASSUME ScanTypes, room \in Nat, NEW malloced \in BOOLEAN, malloc_table(malloced)
  PROVE  room' \in Nat
<1>1. PICK units \in Nat : units = DEVICE * scan.PCIDeviceAmount
  BY KernelAssumption DEF ScanTypes
<1>2. \/ room >= units /\ room' = room - units
      \/ room' = room
  BY <1>1 DEF malloc_table
<1> QED
  BY <1>2

\* The stages of the boot.
LEMMA BootStages == ScanTypes /\ BootInv /\ ScanStep /\ kernel_main => BootInv'
<1> SUFFICES ASSUME ScanTypes, BootInv, ScanStep, kernel_main PROVE BootInv'
  OBVIOUS
<1>0. status \in Seq(BOOLEAN) /\ Len(status) \in Nat /\ room \in Nat
  BY DEF BootInv
<1>1. CASE init_memory
  <2>1. Len(status) = 0 /\ UNCHANGED pciVars
    BY <1>1 DEF init_memory, BootInv
  <2>2. CASE Fault /\ UNCHANGED <<heap, room, status>>
    BY <1>0, <2>1, <2>2 DEF Fault, BootInv
  <2>3. CASE \E success \in BOOLEAN :
               /\ heap' = success /\ room' = (IF success THEN HEAP_ROOM ELSE 0)
               /\ printLoadingStatus(success) /\ pc' = "screen"
    <3>1. PICK success \in BOOLEAN :
               /\ heap' = success /\ room' = (IF success THEN HEAP_ROOM ELSE 0)
               /\ printLoadingStatus(success) /\ pc' = "screen"
      BY <2>3
    <3>2. status' \in Seq(BOOLEAN) /\ Len(status') = 1 /\ status'[1] = heap'
      BY <1>0, <2>1, <3>1, NewLine
    <3>3. room' \in Nat
      BY <3>1, KernelAssumption
    <3> QED
      BY <3>1, <3>2, <3>3 DEF BootInv, Stopped
  <2> QED
    BY <1>1, <2>2, <2>3 DEF init_memory
<1>2. CASE init_rendering_full
  <2>1. Len(status) = 1 /\ UNCHANGED <<pciVars, heap>>
    BY <1>2 DEF init_rendering_full, BootInv
  <2>2. CASE Fault /\ UNCHANGED <<useScreenBuffer, status, room>>
    <3>1. /\ status' \in Seq(BOOLEAN) /\ Len(status') = 1 /\ room' \in Nat /\ pc' = "fault"
          /\ status'[1] = TRUE => heap' = TRUE
      BY <1>0, <2>1, <2>2 DEF Fault, BootInv
    <3> QED
      BY <3>1 DEF BootInv
  <2>3. CASE /\ heap /\ useScreenBuffer' \in BOOLEAN /\ room' \in 0 .. HEAP_ROOM
             /\ printLoadingStatus(useScreenBuffer') /\ pc' = "pci"
    <3>1. /\ status' \in Seq(BOOLEAN) /\ Len(status') = 2 /\ room' \in Nat
          /\ status'[1] = status[1] /\ status'[2] = useScreenBuffer'
      BY <1>0, <2>1, <2>3, NewLine
    <3> QED
      BY <1>0, <2>1, <2>3, <3>1 DEF BootInv, Stopped
  <2> QED
    BY <1>2, <2>2, <2>3 DEF init_rendering_full
<1>3. CASE init_pci_layer
  <2>1. Len(status) = 2 /\ UNCHANGED bootVars /\ pc = "pci" /\ room' \in Nat
    <3>1. ASSUME \E malloced \in BOOLEAN : malloc_table(malloced) PROVE room' \in Nat
      <4>1. PICK malloced \in BOOLEAN : malloc_table(malloced)
        BY <3>1
      <4>2. room \in Nat
        BY <1>0
      <4> QED
        BY <4>1, <4>2, TableFits
    <3>2. room' = room \/ \E malloced \in BOOLEAN : malloc_table(malloced)
      BY <1>3 DEF init_pci_layer
    <3>3. room' \in Nat
      BY <1>0, <3>1, <3>2
    <3>4. UNCHANGED bootVars /\ pc = "pci"
      BY <1>3 DEF init_pci_layer
    <3> QED
      BY <3>3, <3>4 DEF BootInv
  <2>2. CASE UNCHANGED status /\ pc' \in {"pci", "fault"}
    <3>1. /\ status' \in Seq(BOOLEAN) /\ Len(status') = 2
          /\ status'[1] = TRUE => heap' = TRUE
          /\ status'[2] = TRUE => useScreenBuffer' = TRUE
      BY <1>0, <2>1, <2>2 DEF bootVars, BootInv
    <3>2. CASE pc' = "pci"
      BY <2>1, <3>1, <3>2 DEF BootInv, Stopped
    <3>3. CASE pc' = "fault"
      BY <2>1, <3>1, <3>3 DEF BootInv, Stopped
    <3> QED
      BY <2>2, <3>2, <3>3
  <2>3. CASE scan.phase = "done" /\ printLoadingStatus(scan.PCIDeviceAmount > 0)
             /\ pc' = "ahci" /\ UNCHANGED pciVars
    <3>1. /\ status' \in Seq(BOOLEAN) /\ Len(status') = 3
          /\ status'[1] = status[1] /\ status'[2] = status[2]
      <4> DEFINE success == scan.PCIDeviceAmount > 0
      <4>1. printLoadingStatus(success)
        BY <2>3
      <4>2. success \in BOOLEAN
        OBVIOUS
      <4> HIDE DEF success
      <4> QED
        BY <1>0, <2>1, <4>1, <4>2, NewLine
    <3>2. scan'.phase = "done"
      BY <2>3 DEF pciVars
    <3> QED
      BY <1>0, <2>1, <2>3, <3>1, <3>2 DEF BootInv, bootVars, Stopped
  <2> QED
    BY <1>3, <2>1, <2>2, <2>3 DEF init_pci_layer, Fault
<1>4. CASE init_drive_layer
  <2>1. Len(status) = 3 /\ UNCHANGED <<pciVars, heap, useScreenBuffer, room>>
    BY <1>4 DEF init_drive_layer, BootInv
  <2>2. CASE Fault /\ UNCHANGED <<BAR_IDX_5, status>>
    <3>1. /\ status' \in Seq(BOOLEAN) /\ Len(status') = 3 /\ room' \in Nat /\ pc' = "fault"
          /\ scan'.phase = "done"
          /\ status'[1] = TRUE => heap' = TRUE
          /\ status'[2] = TRUE => useScreenBuffer' = TRUE
      BY <1>0, <2>1, <2>2 DEF Fault, BootInv, pciVars
    <3> QED
      BY <3>1 DEF BootInv
  <2>3. ASSUME NEW success \in BOOLEAN, printLoadingStatus(success), pc' = "filesystem",
               success = TRUE => \E i \in find_ahci_controller : BAR_IDX_5' = found_pci_devices[i].bar
        PROVE  BootInv'
    <3>1. /\ status' \in Seq(BOOLEAN) /\ Len(status') = 4
          /\ status'[1] = status[1] /\ status'[2] = status[2] /\ status'[4] = success
      BY <1>0, <2>1, <2>3, NewLine
    <3>2. UNCHANGED find_ahci_controller /\ UNCHANGED found_pci_devices /\ UNCHANGED scan
      BY <2>1 DEF pciVars, find_ahci_controller
    <3> QED
      BY <1>0, <2>1, <2>3, <3>1, <3>2 DEF BootInv, Stopped
  <2> QED
    BY <1>4, <2>2, <2>3 DEF init_drive_layer
<1>5. CASE init_filesystem_layer
  <2>1. /\ Len(status) = 4
        /\ UNCHANGED <<pciVars, heap, useScreenBuffer, room, BAR_IDX_5>>
    BY <1>5 DEF init_filesystem_layer, BootInv
  <2>2. UNCHANGED find_ahci_controller /\ UNCHANGED found_pci_devices /\ UNCHANGED scan
    BY <2>1 DEF pciVars, find_ahci_controller
  <2>3. CASE StoresAstray
    BY <1>0, <2>1, <2>2, <2>3 DEF BootInv, StoresAstray, Stopped
  <2>4. ASSUME NEW success \in BOOLEAN, init_storage(success), printLoadingStatus(success), pc' = "shell"
        PROVE  BootInv'
    <3>1. success = TRUE => activeDriver' = TRUE /\ selectedStorageDevice' # "nullptr"
      BY <2>4 DEF init_storage, use_partition
    <3>2. /\ status' \in Seq(BOOLEAN) /\ Len(status') = 5
          /\ status'[1] = status[1] /\ status'[2] = status[2] /\ status'[4] = status[4]
          /\ status'[5] = success
      BY <1>0, <2>1, <2>4, NewLine
    <3> QED
      BY <1>0, <2>1, <2>2, <2>4, <3>1, <3>2 DEF BootInv, Stopped
  <2> QED
    BY <1>5, <2>3, <2>4 DEF init_filesystem_layer
<1>6. CASE init_shell
  <2>1. UNCHANGED <<status, bootVars, room>> /\ newTerminalInputLine(room)
    BY <1>6 DEF init_shell
  <2>2. pc' = "prompt" \/ (pc' = "fault" /\ room < TABLE)
    BY <1>0, <2>1, KernelAssumption DEF newTerminalInputLine, Fault
  <2> QED
    BY <1>0, <2>1, <2>2, Later DEF Stopped
<1> QED
  BY <1>1, <1>2, <1>3, <1>4, <1>5, <1>6 DEF kernel_main

\* What a command that returns leaves: the prompt, or an empty heap.
LEMMA DoneLeaves ==
  ASSUME room \in Nat, NEW lost \in Nat, Done(lost)
  PROVE  /\ room' \in Nat
         /\ pc' = "prompt" \/ (pc' = "fault" /\ room' < TABLE)
<1>1. room' \in Nat
  BY DEF Done
<1>2. newTerminalInputLine(room')
  BY DEF Done
<1> QED
  BY <1>1, <1>2, KernelAssumption DEF newTerminalInputLine, Fault

\* With five [OK]s a command finds what it needs, except for memory.
LEMMA CommandSteps == BootInv /\ ScanStep /\ Commands => BootInv'
<1> SUFFICES ASSUME BootInv, ScanStep, Commands PROVE BootInv'
  OBVIOUS
<1>0. room \in Nat /\ TABLE \in Nat
  BY KernelAssumption DEF BootInv
<1>1. UNCHANGED <<status, bootVars>>
  BY DEF Commands, insert_char_at_cursor, cmd_cd, cmd_ls, cmd_read, cmd_driveinfo, cmd_reboot
<1>2. CASE insert_char_at_cursor
  <2>1. ~AllOk
    BY <1>2, AllOkMeans DEF insert_char_at_cursor
  <2> QED
    BY <1>0, <1>1, <1>2, <2>1, Later DEF insert_char_at_cursor, CommandFaults, Fault, Stopped
<1>3. CASE cmd_cd
  BY <1>0, <1>1, <1>3, DoneLeaves, Later DEF cmd_cd, Stopped
<1>4. CASE cmd_ls
  <2>1. CASE ~activeDriver /\ CommandFaults
    <3>1. ~AllOk
      BY <2>1, AllOkMeans
    <3> QED
      BY <1>0, <1>1, <2>1, <3>1, Later DEF CommandFaults, Fault, Stopped
  <2>2. CASE ~malloc_succeeds(TABLE) /\ CommandFaults
    <3>1. AllOk => room < TABLE
      BY <1>0, <2>2, AllOkMeans DEF malloc_succeeds
    <3> QED
      BY <1>0, <1>1, <2>2, <3>1, Later DEF CommandFaults, Fault, Stopped
  <2>3. CASE Done(TABLE)
    BY <1>0, <1>1, <2>3, DoneLeaves, Later DEF Stopped
  <2> QED
    BY <1>4, <2>1, <2>2, <2>3 DEF cmd_ls
<1>5. CASE cmd_read
  <2>1. CASE ~activeDriver /\ CommandFaults
    <3>1. ~AllOk
      BY <2>1, AllOkMeans
    <3> QED
      BY <1>0, <1>1, <2>1, <3>1, Later DEF CommandFaults, Fault, Stopped
  <2>2. CASE ~malloc_succeeds(TABLE) /\ CommandFaults
    <3>1. AllOk => room < TABLE
      BY <1>0, <2>2, AllOkMeans DEF malloc_succeeds
    <3> QED
      BY <1>0, <1>1, <2>2, <3>1, Later DEF CommandFaults, Fault, Stopped
  <2>3. CASE emptyFile' = TRUE /\ CommandFaults
    BY <1>0, <1>1, <2>3, Later DEF CommandFaults, Fault, Stopped
  <2> QED
    BY <1>5, <2>1, <2>2, <2>3 DEF cmd_read
<1>6. CASE cmd_driveinfo
  <2>1. ~AllOk
    BY <1>6, AllOkMeans DEF cmd_driveinfo
  <2> QED
    BY <1>0, <1>1, <1>6, <2>1, Later DEF cmd_driveinfo, CommandFaults, Fault, Stopped
<1>7. CASE cmd_reboot
  BY <1>0, <1>1, <1>7, Later DEF cmd_reboot, Stopped
<1> QED
  BY <1>2, <1>3, <1>4, <1>5, <1>6, <1>7 DEF Commands

\* fault_handler sets nothing up and takes nothing from the heap.
LEMMA FaultSteps == BootInv /\ ScanStep /\ fault_handler => BootInv'
<1> SUFFICES ASSUME BootInv, ScanStep, fault_handler PROVE BootInv'
  OBVIOUS
<1>1. /\ UNCHANGED <<status, bootVars, emptyFile, room>>
      /\ pc \in Stopped /\ pc' \in Stopped
  BY DEF fault_handler, print_piece, nested_fault, Stopped
<1>2. room \in Nat /\ (AllOk => room < TABLE \/ emptyFile = TRUE)
  BY <1>1, AllOkMeans DEF BootInv
<1> QED
  BY <1>1, <1>2, Later

\* What is plugged during the scan changes nothing the stages have set up.
LEMMA PlugStep == BootInv /\ ScanStep /\ Plug /\ UNCHANGED <<bootVars, kernelVars>> => BootInv'
<1> SUFFICES ASSUME BootInv, ScanStep, Plug, UNCHANGED <<bootVars, kernelVars>> PROVE BootInv'
  OBVIOUS
<1>1. Len(status) \in Nat /\ ~(Len(status) >= 3)
  BY DEF BootInv, Plug
<1> QED
  BY <1>1 DEF BootInv, bootVars, kernelVars, Stopped

\* A step that changes nothing.
LEMMA BootStutters == BootInv /\ UNCHANGED vars => BootInv'
<1> SUFFICES ASSUME BootInv, UNCHANGED vars PROVE BootInv'
  OBVIOUS
<1>1. UNCHANGED find_ahci_controller
  BY DEF vars, pciVars, find_ahci_controller
<1> QED
  BY <1>1 DEF BootInv, vars, pciVars, bootVars, kernelVars, Stopped

\* The lines on the screen always say what is there.
LEMMA BootInvariant == Spec => [](ScanTypes /\ ScanInv /\ CountInv /\ BootInv)
<1>1. ScanTypes /\ BootInv /\ [Next]_vars => BootInv'
  BY NextIsScanStep, BootStages, CommandSteps, FaultSteps, PlugStep, BootStutters DEF Next
<1> QED
  BY <1>1, BootInvInit, ScanInvariant, PTL DEF Spec

\* When every line says [OK] and nothing was plugged during the scan, the registers in use are
\* those of the first SATA controller of the bus, and nothing but a used up heap or a file of no
\* bytes leads a command into a fault.
THEOREM FiveOksMeanUsable == Spec => []AllOkIsUsable
<1>1. ASSUME ScanTypes, ScanInv, CountInv, BootInv, AllOk, changed = {}
      PROVE  /\ BAR_IDX_5 \in Slots /\ bus[BAR_IDX_5] \in Sata
             /\ \A s \in Slots : bus[s] \in Sata => BAR_IDX_5 <= s
             /\ pc \in {"fault", "panic", "lost"} => room < TABLE \/ emptyFile
  <2> DEFINE table == found_pci_devices
  <2>1. scan.phase = "done" /\ Filling /\ scan.slot = SLOTS + 1
    BY <1>1, AllOkMeans DEF Filling, ScanTypes
  <2>2. DOMAIN table = Filled
    BY <1>1, <2>1 DEF ScanTypes, CountInv, Filled
  <2>3. \A i \in DOMAIN table : table[i].bar \in Slots /\ table[i].class = bus[table[i].bar]
    BY <1>1, <2>1, <2>2 DEF CountInv
  <2>4. \A i \in DOMAIN table : table[i].class # Garbage
    BY <1>1, <2>3, PciAssumption DEF ScanTypes, Garbage, Absent
  <2>5. PICK i \in find_ahci_controller : BAR_IDX_5 = table[i].bar
    BY <1>1, AllOkMeans
  <2>6. /\ i \in DOMAIN table /\ table[i].class \in Sata
        /\ \A j \in DOMAIN table : table[j].class \in Sata => i <= j
    BY <2>4, <2>5 DEF find_ahci_controller
  <2>7. BAR_IDX_5 \in Slots /\ bus[BAR_IDX_5] \in Sata
    BY <2>3, <2>5, <2>6
  <2>8. ASSUME NEW s \in Slots, bus[s] \in Sata PROVE BAR_IDX_5 <= s
    <3>1. bus[s] # Absent /\ s < scan.slot
      BY <2>1, <2>8, PciAssumption DEF Slots
    <3>2. PICK j \in Filled : table[j].bar = s /\ table[j].class = bus[s]
      BY <1>1, <2>1, <3>1 DEF ScanInv
    <3>3. i <= j /\ i \in Filled /\ i \in Nat /\ j \in Nat
      BY <2>2, <2>6, <2>8, <3>2 DEF Filled
    <3>4. i < j => BAR_IDX_5 < s
      BY <1>1, <2>1, <2>5, <2>7, <3>2, <3>3 DEF ScanInv
    <3> QED
      BY <2>5, <2>7, <3>2, <3>3, <3>4 DEF Slots
  <2> QED
    BY <1>1, <2>7, <2>8, AllOkMeans DEF Stopped
<1>2. ScanTypes /\ ScanInv /\ CountInv /\ BootInv => AllOkIsUsable
  BY <1>1 DEF AllOkIsUsable
<1> QED
  BY <1>2, BootInvariant, PTL

-----------------------------------------------------------------------------
(* Interrupts, for every set of exceptions and all bounds.  HandlersRunAlone  *)
(* and KeyIsNotStuck need a tick frequency below 1000 Hz, FramesMatch does    *)
(* not.                                                                       *)

\* sleep_ms(1) is of zero ticks (config.h has 100 Hz).
SleepsEndAtOnce == PIT_TICK_HZ < 1000

Handlers == {"timer", "keyboard"}

Contexts ==
  [code : Handlers \cup {"kernel_main", "fault"},
   pc : {"idt_init", "populate", "pic_init", "drain", "work", "sleep", "hlt", "halt",
         "entry", "eoi", "iret", "panic"},
   left : Nat, target : Nat, saved : BOOLEAN,
   frame : {<<>>} \cup {FaultFrame(v) : v \in 0 .. 31} \cup {IrqFrame(v) : v \in {32, 33}}]

PicType == [on : BOOLEAN, irr : SUBSET {0, 1}, isr : SUBSET {0, 1}]
KbdType == [full : BOOLEAN, queue : Nat]

\* What is known of the state's parts; kernel_main is at the bottom and nowhere else.
Shape ==
  /\ iflag \in BOOLEAN
  /\ pic \in PicType
  /\ kbd \in KbdType
  /\ ticks \in Nat
  /\ stack \in Seq(Contexts) /\ Len(stack) >= 1
  /\ stack[1].code = "kernel_main"
  /\ \A i \in 2 .. Len(stack) : stack[i].code \in Handlers \cup {"fault"}

Gates ==
  \A v \in DOMAIN idt :
    v \in 0 .. 33 /\ idt[v] = IF v = 32 THEN "timer" ELSE IF v = 33 THEN "keyboard" ELSE "fault"

\* Interrupts are on nowhere but in the final halt of kernel_main, as no sleep lasts.
OnlyInHalt ==
  /\ iflag => Len(stack) = 1 /\ stack[1].pc = "halt"
  /\ \A i \in DOMAIN stack :
       /\ stack[i].pc # "hlt"
       /\ stack[i].pc = "sleep" => stack[i].target <= ticks

Early == {"idt_init", "populate", "pic_init", "drain"}

\* The PIC is set up before the port is emptied.
PicBeforeDrain == ~pic.on => stack[1].pc \in Early \ {"drain"}

IInv == Shape /\ Gates /\ OnlyInHalt /\ HandlersAlone
KInv == IInv /\ PicBeforeDrain /\ KeyNotStuck
-----------------------------------------------------------------------------
LEMMA SleepIsZero ==
  ASSUME SleepsEndAtOnce PROVE (1 * PIT_TICK_HZ) \div 1000 = 0
BY InterruptsAssumption DEF SleepsEndAtOnce

LEMMA InitIInv == InterruptsInit => IInv
<1> SUFFICES ASSUME InterruptsInit PROVE IInv
  OBVIOUS
<1>1. Context("kernel_main", "idt_init", FALSE, <<>>) \in Contexts
  BY DEF Context, Contexts
<1>2. Shape
  <2>1. pic \in PicType
    BY DEF InterruptsInit, PicType
  <2>2. kbd \in KbdType
    BY DEF InterruptsInit, KbdType
  <2>3. stack \in Seq(Contexts) /\ Len(stack) = 1 /\ stack[1].code = "kernel_main"
    BY <1>1 DEF InterruptsInit, Context
  <2>4. iflag \in BOOLEAN /\ ticks \in Nat
    BY DEF InterruptsInit
  <2>5. \A i \in 2 .. Len(stack) : stack[i].code \in Handlers \cup {"fault"}
    BY <2>3
  <2>. QED  BY <2>1, <2>2, <2>3, <2>4, <2>5 DEF Shape
<1>3. Gates
  BY DEF InterruptsInit, Gates
<1>4. OnlyInHalt /\ HandlersAlone
  BY DEF InterruptsInit, OnlyInHalt, HandlersAlone, Context
<1>. QED  BY <1>2, <1>3, <1>4 DEF IInv
-----------------------------------------------------------------------------
\* The running context becomes c.
ChangesTop(c) ==
  c \in Contexts /\ c.code = Top.code /\ stack' = [stack EXCEPT ![Len(stack)] = c]

\* Such a step leaves the shape of the stack.
LEMMA TopChanges ==
  ASSUME Shape, NEW c, ChangesTop(c)
  PROVE  /\ stack' \in Seq(Contexts) /\ Len(stack') = Len(stack)
         /\ \A i \in DOMAIN stack : stack'[i].code = stack[i].code
         /\ stack'[Len(stack)] = c
         /\ \A i \in DOMAIN stack : i # Len(stack) => stack'[i] = stack[i]
BY DEF Shape, Top, ChangesTop

LEMMA GotoIsChange ==
  ASSUME Shape, NEW p \in {"idt_init", "populate", "pic_init", "drain", "work", "sleep", "hlt",
                           "halt", "entry", "eoi", "iret", "panic"},
         Goto(p)
  PROVE  \E c : ChangesTop(c) /\ c.pc = p /\ c.target = Top.target /\ c.frame = Top.frame
<1> DEFINE c == [Top EXCEPT !.pc = p]
<1>1. Top \in Contexts
  BY DEF Shape, Top
<1>2. /\ c \in Contexts /\ c.code = Top.code /\ c.pc = p /\ c.target = Top.target
      /\ c.frame = Top.frame
  <2>1. PICK t \in Contexts : t = Top
    BY <1>1
  <2>2. PICK u : u = [t EXCEPT !.pc = p]
    OBVIOUS
  <2>3. u \in Contexts /\ u.code = t.code /\ u.pc = p /\ u.target = t.target /\ u.frame = t.frame
    BY <2>2 DEF Contexts
  <2>4. c = u
    BY <2>1, <2>2
  <2>. QED  BY <2>1, <2>3, <2>4
<1>3. stack' = [stack EXCEPT ![Len(stack)] = c]
  BY DEF Goto, Top, Shape
<1>4. ChangesTop(c)
  BY <1>2, <1>3 DEF ChangesTop
<1>. QED  BY <1>2, <1>4

LEMMA WorkIsChange ==
  ASSUME Shape, NEW n \in Nat, StartWork(n)
  PROVE  \E c : ChangesTop(c) /\ c.pc = "work" /\ c.frame = Top.frame
<1>1. Top \in Contexts
  BY DEF Shape, Top
<1>2. [Top EXCEPT !.pc = "work", !.left = n] \in Contexts
  BY <1>1 DEF Contexts
<1>3. stack' = [stack EXCEPT ![Len(stack)] = [Top EXCEPT !.pc = "work", !.left = n]]
  BY DEF StartWork, Top, Shape
<1>. QED  BY <1>1, <1>2, <1>3 DEF Contexts, ChangesTop
-----------------------------------------------------------------------------
\* Code that is not halted goes on, with the flag as it is, and does not start a sleep
\* that lasts.
LEMMA LocalStep ==
  ASSUME IInv, Gates',
         pic' \in PicType,
         kbd' \in KbdType,
         iflag' = iflag, ticks' \in Nat, ticks' >= ticks,
         NEW c, ChangesTop(c), Top.pc # "halt",
         c.pc # "hlt", c.pc = "sleep" => c.target <= ticks'
  PROVE  IInv'
<1>1. /\ stack' \in Seq(Contexts) /\ Len(stack') = Len(stack)
      /\ \A i \in DOMAIN stack : stack'[i].code = stack[i].code
      /\ stack'[Len(stack)] = c
      /\ \A i \in DOMAIN stack : i # Len(stack) => stack'[i] = stack[i]
  BY TopChanges DEF IInv
<1>2. stack \in Seq(Contexts) /\ Len(stack) >= 1
  BY DEF IInv, Shape
<1>3. Shape'
  <2>1. iflag' \in BOOLEAN
    BY DEF IInv, Shape
  <2>2. stack'[1].code = "kernel_main"
    BY <1>1, <1>2 DEF IInv, Shape
  <2>3. \A i \in 2 .. Len(stack') : stack'[i].code \in Handlers \cup {"fault"}
    <3>1. \A i \in 2 .. Len(stack) : stack[i].code \in Handlers \cup {"fault"} /\ i \in DOMAIN stack
      BY <1>2 DEF IInv, Shape
    <3>. QED  BY <1>1, <3>1
  <2>. QED  BY <1>1, <1>2, <2>1, <2>2, <2>3 DEF Shape
<1>4. ~iflag
  BY <1>2 DEF IInv, OnlyInHalt, Top
<1>5. OnlyInHalt'
  <2> SUFFICES ASSUME NEW i \in DOMAIN stack'
               PROVE  stack'[i].pc # "hlt" /\ (stack'[i].pc = "sleep" => stack'[i].target <= ticks')
    BY <1>4 DEF OnlyInHalt
  <2>1. i \in DOMAIN stack /\ i \in 1 .. Len(stack)
    BY <1>1, <1>2
  <2>2. CASE i = Len(stack)
    BY <1>1, <2>2
  <2>3. CASE i # Len(stack)
    <3>1. stack'[i] = stack[i] /\ stack[i] \in Contexts
      BY <1>1, <1>2, <2>1, <2>3
    <3>2. stack[i].pc # "hlt" /\ (stack[i].pc = "sleep" => stack[i].target <= ticks)
      BY <2>1 DEF IInv, OnlyInHalt
    <3>3. stack[i].target \in Nat /\ ticks \in Nat
      BY <3>1 DEF Contexts, IInv, Shape
    <3>. QED  BY <3>1, <3>2, <3>3
  <2>. QED  BY <2>2, <2>3
<1>6. HandlersAlone'
  <2> SUFFICES ASSUME NEW i \in DOMAIN stack', stack'[i].code \in Handlers
               PROVE  i = 2 /\ stack'[1].pc = "halt"
    BY DEF HandlersAlone, Handlers
  <2>1. i \in DOMAIN stack /\ stack[i].code \in Handlers
    BY <1>1, <1>2
  <2>2. i = 2 /\ stack[1].pc = "halt"
    BY <2>1 DEF IInv, HandlersAlone, Handlers
  <2>3. 1 # Len(stack) /\ 1 \in DOMAIN stack
    BY <1>2, <2>1, <2>2
  <2>. QED  BY <1>1, <2>2, <2>3
<1>. QED  BY <1>3, <1>5, <1>6 DEF IInv
-----------------------------------------------------------------------------
\* What is waiting stays a set of the two lines.
LEMMA PicTypes ==
  ASSUME Shape
  PROVE  /\ \A irr \in AfterRead :
              [pic EXCEPT !.irr = irr] \in PicType /\ [pic EXCEPT !.irr = irr].on = pic.on
         /\ OutEoi => pic' \in PicType /\ pic'.on = pic.on /\ pic'.irr = pic.irr
BY DEF Shape, AfterRead, OutEoi, IRQ_KEYBOARD, PicType

\* The steps of the boot before its work.
LEMMA EarlySteps ==
  ASSUME IInv, idt_init \/ populate_idt_entries \/ pic_init \/ init_interrupts_drain
  PROVE  IInv'
<1>0. /\ Shape /\ ticks \in Nat /\ kbd \in KbdType
      /\ pic \in PicType
  BY DEF IInv, Shape
<1>g. Gates
  BY DEF IInv
<1>1. CASE idt_init
  <2>1. Goto("populate") /\ Top.pc = "idt_init" /\ Gates'
    BY <1>g, <1>1 DEF idt_init, At, Gates
  <2>2. PICK c : ChangesTop(c) /\ c.pc = "populate"
    BY <1>0, <2>1, GotoIsChange
  <2>3. UNCHANGED <<iflag, pic, kbd, ticks>>
    BY <1>1 DEF idt_init
  <2>. QED  BY <1>0, <2>1, <2>2, <2>3, LocalStep
<1>2. CASE populate_idt_entries
  <2>1. Goto("pic_init") /\ Top.pc = "populate" /\ Gates'
    BY <1>g, <1>2 DEF populate_idt_entries, At, Gates
  <2>2. PICK c : ChangesTop(c) /\ c.pc = "pic_init"
    BY <1>0, <2>1, GotoIsChange
  <2>3. UNCHANGED <<iflag, pic, kbd, ticks>>
    BY <1>2 DEF populate_idt_entries
  <2>. QED  BY <1>0, <2>1, <2>2, <2>3, LocalStep
<1>3. CASE pic_init
  <2>1. Goto("drain") /\ Top.pc = "pic_init" /\ Gates'
    BY <1>g, <1>3 DEF pic_init, At, Gates
  <2>2. PICK c : ChangesTop(c) /\ c.pc = "drain"
    BY <1>0, <2>1, GotoIsChange
  <2>3. pic' \in PicType
    BY <1>3 DEF pic_init, PicType
  <2>4. UNCHANGED <<iflag, kbd, ticks>>
    BY <1>3 DEF pic_init
  <2>. QED  BY <1>0, <2>1, <2>2, <2>3, <2>4, LocalStep
<1>4. CASE init_interrupts_drain
  <2>1. Top.pc = "drain" /\ Gates' /\ UNCHANGED <<iflag, ticks>>
    BY <1>g, <1>4 DEF init_interrupts_drain, At, Gates
  <2>2. CASE kbd.full
    <3>1. /\ kbd' = [kbd EXCEPT !.full = FALSE] /\ UNCHANGED stack
          /\ pic' \in PicType
      BY <1>0, <1>4, <2>2, PicTypes DEF init_interrupts_drain
    <3>2. kbd' \in KbdType
      BY <1>0, <3>1 DEF KbdType
    <3>. QED  BY <2>1, <3>1, <3>2 DEF IInv, Shape, OnlyInHalt, HandlersAlone
  <2>3. CASE ~kbd.full
    <3>1. PICK n \in 0 .. MAX_SLEEPS : StartWork(n)
      BY <1>4, <2>3 DEF init_interrupts_drain
    <3>2. PICK c : ChangesTop(c) /\ c.pc = "work"
      BY <1>0, <3>1, WorkIsChange, InterruptsAssumption
    <3>3. UNCHANGED <<kbd, pic>>
      BY <1>4, <2>3 DEF init_interrupts_drain
    <3>. QED  BY <1>0, <2>1, <3>2, <3>3, LocalStep
  <2>. QED  BY <2>2, <2>3
<1>. QED  BY <1>1, <1>2, <1>3, <1>4

\* The running code goes on as c: no sleep lasts, and a scan code waiting in the port
\* is read or left to those who are to read it.
Runs(c) ==
  /\ ChangesTop(c) /\ Top.pc \notin Early \cup {"halt"}
  /\ c.pc # "hlt" /\ (c.pc = "sleep" => c.target <= ticks')
  /\ UNCHANGED <<idt, iflag>> /\ ticks' \in Nat /\ ticks' >= ticks
  /\ kbd' \in KbdType /\ pic' \in PicType /\ pic'.on = pic.on
  /\ ~kbd'.full \/ (kbd' = kbd /\ pic'.irr = pic.irr /\ ~At("keyboard", "entry"))

\* The steps of sleeps and handlers that go on with the same code.
LEMMA RunningSteps ==
  ASSUME SleepsEndAtOnce, IInv,
         sleep_ms \/ halt_till_tick \/ timer_handler \/ EIO_Finished_Interrupt
           \/ keyboard_inb \/ keyboard_handler \/ keyboard_handler_returns \/ fault_handler_halts
  PROVE  \E c : Runs(c)
<1>0. Shape /\ ticks \in Nat /\ kbd \in KbdType /\ pic \in PicType /\ Top \in Contexts
  BY DEF IInv, Shape, Top
<1>1. CASE sleep_ms
  <2>1. Top.pc = "work" /\ Top.left > 0 /\ UNCHANGED <<idt, iflag, pic, kbd, ticks>>
    BY <1>1 DEF sleep_ms
  <2>2. Top.left - 1 \in Nat /\ ticks + (1 * PIT_TICK_HZ) \div 1000 = ticks
    BY <1>0, <2>1, SleepIsZero DEF Contexts
  <2>3. Asleep(Top) = [code |-> Top.code, pc |-> "sleep", left |-> Top.left - 1,
                       target |-> ticks, saved |-> Top.saved, frame |-> Top.frame]
    BY <2>2 DEF Asleep
  <2>4. Asleep(Top) \in Contexts
    BY <1>0, <2>2, <2>3 DEF Contexts
  <2>5. Asleep(Top).code = Top.code /\ Asleep(Top).pc = "sleep" /\ Asleep(Top).target = ticks
    BY <2>3
  <2>6. ChangesTop(Asleep(Top))
    BY <1>1, <2>4, <2>5 DEF ChangesTop, sleep_ms
  <2>. QED  BY <1>0, <2>1, <2>5, <2>6 DEF Runs, Early, At
<1>2. CASE halt_till_tick
  <2>1. Top.pc = "sleep" /\ Top.target <= ticks
    BY <1>0, <1>2 DEF halt_till_tick, Top, IInv, OnlyInHalt, Shape
  <2>2. Goto("work") /\ UNCHANGED <<idt, iflag, pic, kbd, ticks>>
    BY <1>0, <1>2, <2>1 DEF halt_till_tick, Contexts, IInv, Shape
  <2>3. PICK c : ChangesTop(c) /\ c.pc = "work"
    BY <1>0, <2>2, GotoIsChange
  <2>9. Runs(c)
    BY <1>0, <2>1, <2>2, <2>3 DEF Runs, Early, At
  <2>. QED  BY <2>9
<1>3. CASE timer_handler
  <2>1. Top.pc = "entry" /\ Goto("eoi") /\ ticks' = ticks + 1 /\ UNCHANGED <<idt, iflag, pic, kbd>>
        /\ ~At("keyboard", "entry")
    BY <1>3 DEF timer_handler, At
  <2>2. PICK c : ChangesTop(c) /\ c.pc = "eoi"
    BY <1>0, <2>1, GotoIsChange
  <2>9. Runs(c)
    BY <1>0, <2>1, <2>2 DEF Runs, Early, At
  <2>. QED  BY <2>9
<1>4. CASE EIO_Finished_Interrupt
  <2>1. Top.pc = "eoi" /\ Goto("iret") /\ OutEoi /\ UNCHANGED <<idt, iflag, kbd, ticks>>
    BY <1>4 DEF EIO_Finished_Interrupt, At
  <2>2. PICK c : ChangesTop(c) /\ c.pc = "iret"
    BY <1>0, <2>1, GotoIsChange
  <2>9. Runs(c)
    BY <1>0, <2>1, <2>2, PicTypes DEF Runs, Early, At
  <2>. QED  BY <2>9
<1>5. CASE keyboard_inb
  <2>1. Top.pc = "entry" /\ Goto("eoi") /\ UNCHANGED <<idt, iflag, ticks>>
    BY <1>5 DEF keyboard_inb, At
  <2>2. kbd' \in KbdType /\ ~kbd'.full /\ pic' \in PicType /\ pic'.on = pic.on
    BY <1>0, <1>5, PicTypes DEF keyboard_inb, KbdType
  <2>3. PICK c : ChangesTop(c) /\ c.pc = "eoi"
    BY <1>0, <2>1, GotoIsChange
  <2>9. Runs(c)
    BY <1>0, <2>1, <2>2, <2>3 DEF Runs, Early, At
  <2>. QED  BY <2>9
<1>6. CASE keyboard_handler
  <2>1. Top.pc = "eoi" /\ OutEoi /\ UNCHANGED <<idt, iflag, kbd, ticks>>
    BY <1>6 DEF keyboard_handler, At
  <2>2. PICK c : ChangesTop(c) /\ c.pc \in {"iret", "work"}
    <3>1. CASE Goto("iret")
      BY <1>0, <3>1, GotoIsChange
    <3>2. CASE \E n \in 0 .. MAX_SLEEPS : StartWork(n)
      BY <1>0, <3>2, WorkIsChange, InterruptsAssumption
    <3>. QED  BY <1>6, <3>1, <3>2 DEF keyboard_handler
  <2>9. Runs(c)
    BY <1>0, <2>1, <2>2, PicTypes DEF Runs, Early, At
  <2>. QED  BY <2>9
<1>7. CASE keyboard_handler_returns
  <2>1. Top.pc = "work" /\ Goto("iret") /\ UNCHANGED <<idt, iflag, pic, kbd, ticks>>
    BY <1>7 DEF keyboard_handler_returns, At
  <2>2. PICK c : ChangesTop(c) /\ c.pc = "iret"
    BY <1>0, <2>1, GotoIsChange
  <2>9. Runs(c)
    BY <1>0, <2>1, <2>2 DEF Runs, Early, At
  <2>. QED  BY <2>9
<1>8. CASE fault_handler_halts
  <2>1. Top.pc = "entry" /\ Goto("panic") /\ UNCHANGED <<idt, iflag, pic, kbd, ticks>>
        /\ ~At("keyboard", "entry")
    BY <1>8 DEF fault_handler_halts, At
  <2>2. PICK c : ChangesTop(c) /\ c.pc = "panic"
    BY <1>0, <2>1, GotoIsChange
  <2>9. Runs(c)
    BY <1>0, <2>1, <2>2 DEF Runs, Early, At
  <2>. QED  BY <2>9
<1>. QED  BY <1>1, <1>2, <1>3, <1>4, <1>5, <1>6, <1>7, <1>8
-----------------------------------------------------------------------------
\* sti at the end of the boot finds no handler on the stack.
LEMMA StiStep ==
  ASSUME IInv, kernel_main_sti PROVE IInv'
<1>0. Shape /\ Gates /\ Top.code = "kernel_main" /\ Len(stack) \in Nat /\ Len(stack) >= 1
  BY DEF IInv, Shape, kernel_main_sti, At
<1>1. Len(stack) = 1
  <2> SUFFICES ASSUME Len(stack) # 1 PROVE FALSE
    OBVIOUS
  <2> DEFINE n == Len(stack)
  <2>0. n \in Nat /\ n >= 1 /\ n # 1
    BY <1>0
  <2>1. n \in 2 .. n
    <3>. HIDE DEF n
    <3>. QED  BY <2>0
  <2>. QED  BY <1>0, <2>1 DEF Shape, Top, Handlers
<1>2. Goto("halt") /\ iflag' = TRUE /\ UNCHANGED <<idt, pic, kbd, ticks>>
  BY DEF kernel_main_sti
<1>3. PICK c : ChangesTop(c) /\ c.pc = "halt"
  BY <1>0, <1>2, GotoIsChange
<1>4. stack' \in Seq(Contexts) /\ Len(stack') = 1 /\ stack'[1] = c /\ c.code = "kernel_main"
  BY <1>0, <1>1, <1>3, TopChanges DEF ChangesTop
<1>5. Shape'
  BY <1>0, <1>2, <1>4 DEF Shape
<1>6. Gates'
  BY <1>0, <1>2 DEF Gates
<1>7. OnlyInHalt' /\ HandlersAlone'
  BY <1>2, <1>3, <1>4 DEF OnlyInHalt, HandlersAlone
<1>. QED  BY <1>5, <1>6, <1>7 DEF IInv

\* A handler starts on top of the halted kernel_main.
LEMMA DeliverStep ==
  ASSUME IInv, NEW n \in {IRQ_TIMER, IRQ_KEYBOARD}, Deliver(n) PROVE IInv'
<1>v. PICK v \in {32, 33} : v = MASTER_IRQ_OFFSET + n
  BY DEF IRQ_TIMER, IRQ_KEYBOARD, MASTER_IRQ_OFFSET
<1> DEFINE c == Context(idt[v], "entry", iflag, IrqFrame(v))
<1>0. Shape /\ Gates /\ n \in {0, 1} /\ v \in DOMAIN idt
  BY <1>v DEF IInv, Deliver, IRQ_TIMER, IRQ_KEYBOARD, MASTER_IRQ_OFFSET
<1>1. iflag = TRUE /\ Len(stack) = 1 /\ stack[1].pc = "halt" /\ stack[1] \in Contexts
      /\ stack = <<stack[1]>>
  BY DEF IInv, Shape, OnlyInHalt, Deliver
<1>2. idt[v] \in Handlers
  BY <1>0 DEF Gates, Handlers
<1>3. c \in Contexts /\ c.code = idt[v] /\ c.pc = "entry"
  <2>1. IrqFrame(v) \in {IrqFrame(w) : w \in {32, 33}}
    OBVIOUS
  <2>. QED  BY <1>1, <1>2, <2>1 DEF Context, Contexts
<1>. HIDE DEF c
<1>4. [stack EXCEPT ![Len(stack)].pc = IF @ = "hlt" THEN "sleep" ELSE @] = stack
  BY <1>1 DEF Contexts
<1>5. stack' = Append(stack, c)
  BY <1>v, <1>4 DEF Deliver, c
<1>6. /\ stack' \in Seq(Contexts) /\ Len(stack') = 2
      /\ stack'[1] = stack[1] /\ stack'[2] = c
  <2>1. stack \in Seq(Contexts) /\ Len(stack) \in Nat /\ Len(stack) >= 1
    BY <1>0 DEF Shape
  <2>2. /\ stack' \in Seq(Contexts) /\ Len(stack') = Len(stack) + 1
        /\ stack'[Len(stack) + 1] = c
        /\ \A i \in 1 .. Len(stack) : stack'[i] = stack[i]
    BY <1>3, <1>5, <2>1
  <2>. QED  BY <1>1, <2>2
<1>7. Shape'
  <2>1. pic' \in PicType /\ iflag' = FALSE /\ UNCHANGED <<kbd, ticks>>
    BY <1>0 DEF Deliver, Shape, PicType
  <2>2. stack'[1].code = "kernel_main"
    BY <1>0, <1>6 DEF Shape
  <2>3. \A i \in 2 .. Len(stack') : stack'[i].code \in Handlers \cup {"fault"}
    BY <1>2, <1>3, <1>6
  <2>4. kbd \in KbdType /\ ticks \in Nat
    BY <1>0 DEF Shape
  <2>5. iflag' \in BOOLEAN /\ pic' \in PicType /\ kbd' \in KbdType /\ ticks' \in Nat
    BY <2>1, <2>4
  <2>6. stack' \in Seq(Contexts) /\ Len(stack') >= 1
    BY <1>6
  <2>. QED  BY <2>2, <2>3, <2>5, <2>6 DEF Shape
<1>8. Gates'
  BY <1>0 DEF Gates, Deliver
<1>9. OnlyInHalt' /\ HandlersAlone'
  <2>1. iflag' = FALSE /\ stack'[1].pc = "halt" /\ stack'[2].pc = "entry"
    BY <1>1, <1>3, <1>6 DEF Deliver
  <2>2. stack'[1].code = "kernel_main"
    BY <1>0, <1>6 DEF Shape
  <2>3. \A i \in DOMAIN stack' : i = 1 \/ i = 2
    BY <1>6
  <2>. QED  BY <2>1, <2>2, <2>3 DEF OnlyInHalt, HandlersAlone
<1>. QED  BY <1>7, <1>8, <1>9 DEF IInv

\* An exception puts fault_handler on top of what runs.
LEMMA FaultStep ==
  ASSUME IInv, NEW v \in Faults, Exception(v) PROVE IInv'
<1> DEFINE c == Context(idt[v], "entry", iflag, FaultFrame(v))
<1>0. Shape /\ Gates /\ v \in 0 .. 31 /\ v \in DOMAIN idt
  BY InterruptsAssumption DEF IInv, Exception
<1>1. idt[v] = "fault"
  BY <1>0 DEF Gates
<1>2. c \in Contexts /\ c.code = "fault" /\ c.pc = "entry"
  <2>1. FaultFrame(v) \in {FaultFrame(w) : w \in 0 .. 31} /\ iflag \in BOOLEAN
    BY <1>0 DEF Shape
  <2>. QED  BY <1>1, <2>1 DEF Context, Contexts
<1>3. stack' = Append(stack, c) /\ iflag' = FALSE /\ UNCHANGED <<idt, pic, kbd, ticks>>
  BY DEF Exception
<1>. HIDE DEF c
<1>4. stack \in Seq(Contexts) /\ Len(stack) \in Nat /\ Len(stack) >= 1
  BY <1>0 DEF Shape
<1>5. /\ stack' \in Seq(Contexts) /\ Len(stack') = Len(stack) + 1
      /\ stack'[Len(stack) + 1] = c
      /\ \A i \in 1 .. Len(stack) : stack'[i] = stack[i]
  BY <1>2, <1>3, <1>4
<1>6. \A i \in 1 .. Len(stack') : i \in 1 .. Len(stack) \/ i = Len(stack) + 1
  BY <1>4, <1>5
<1>7. Shape'
  <2>1. \A i \in 2 .. Len(stack') : stack'[i].code \in Handlers \cup {"fault"}
    <3> SUFFICES ASSUME NEW i \in 2 .. Len(stack') PROVE stack'[i].code \in Handlers \cup {"fault"}
      OBVIOUS
    <3>1. CASE i = Len(stack) + 1
      BY <1>2, <1>5, <3>1
    <3>2. CASE i # Len(stack) + 1
      BY <1>0, <1>4, <1>5, <3>2 DEF Shape
    <3>. QED  BY <3>1, <3>2
  <2>2. stack'[1].code = "kernel_main"
    BY <1>0, <1>4, <1>5 DEF Shape
  <2>3. pic \in PicType /\ kbd \in KbdType /\ ticks \in Nat
    BY <1>0 DEF Shape
  <2>4. iflag' \in BOOLEAN /\ pic' \in PicType /\ kbd' \in KbdType /\ ticks' \in Nat
    BY <1>3, <2>3
  <2>5. stack' \in Seq(Contexts) /\ Len(stack') >= 1
    BY <1>4, <1>5
  <2>. QED  BY <2>1, <2>2, <2>4, <2>5 DEF Shape
<1>8. Gates'
  BY <1>0, <1>3 DEF Gates
<1>9. OnlyInHalt'
  <2> SUFFICES ASSUME NEW i \in 1 .. Len(stack')
               PROVE  stack'[i].pc # "hlt" /\ (stack'[i].pc = "sleep" => stack'[i].target <= ticks)
    BY <1>3, <1>4, <1>5 DEF OnlyInHalt
  <2>1. CASE i = Len(stack) + 1
    BY <1>2, <1>5, <2>1
  <2>2. CASE i \in 1 .. Len(stack)
    BY <1>4, <1>5, <2>2 DEF IInv, OnlyInHalt
  <2>. QED  BY <1>6, <2>1, <2>2
<1>10. HandlersAlone'
  <2> SUFFICES ASSUME NEW i \in 1 .. Len(stack'), stack'[i].code \in Handlers
               PROVE  i = 2 /\ stack'[1].pc = "halt"
    BY <1>4, <1>5 DEF HandlersAlone, Handlers
  <2>1. i \in 1 .. Len(stack)
    BY <1>2, <1>5, <1>6 DEF Handlers
  <2>. QED  BY <1>4, <1>5, <2>1 DEF IInv, HandlersAlone, Handlers
<1>. QED  BY <1>7, <1>8, <1>9, <1>10 DEF IInv

\* A handler returns to the halted kernel_main.
LEMMA IretqStep ==
  ASSUME IInv, iretq PROVE IInv'
<1>0. Shape /\ Gates /\ Top.code \in Handlers
  BY DEF IInv, iretq, Handlers
<1>1. stack \in Seq(Contexts) /\ Len(stack) \in Nat /\ Len(stack) >= 1
  BY <1>0 DEF Shape
<1>2. Len(stack) = 2 /\ stack[1].pc = "halt"
  <2>1. Len(stack) \in DOMAIN stack /\ stack[Len(stack)].code \in {"timer", "keyboard"}
    BY <1>0, <1>1 DEF Handlers, Top
  <2>. QED  BY <2>1 DEF IInv, HandlersAlone
<1>3. stack' \in Seq(Contexts) /\ Len(stack') = 1 /\ stack'[1] = stack[1]
  BY <1>1, <1>2 DEF iretq
<1>4. iflag' \in BOOLEAN /\ UNCHANGED <<idt, pic, kbd, ticks>>
  <2>1. Top \in Contexts
    BY <1>1 DEF Top
  <2>. QED  BY <2>1 DEF iretq, Contexts
<1>5. Shape' /\ Gates'
  BY <1>0, <1>3, <1>4 DEF Shape, Gates
<1>6. OnlyInHalt' /\ HandlersAlone'
  BY <1>0, <1>2, <1>3 DEF OnlyInHalt, HandlersAlone, Shape
<1>. QED  BY <1>5, <1>6 DEF IInv

\* The devices leave the stack and the flag alone.
LEMMA DeviceSteps ==
  ASSUME IInv, PitPeriod \/ Press \/ Send \/ UNCHANGED interruptsVars PROVE IInv'
<1>1. UNCHANGED <<idt, iflag, ticks, stack>>
  BY DEF PitPeriod, Press, Send, interruptsVars
<1>2. Shape /\ pic \in PicType /\ kbd \in KbdType
  BY DEF IInv, Shape
<1>3. pic' \in PicType
  BY <1>2 DEF PitPeriod, Press, Send, interruptsVars, PicType, IRQ_TIMER, IRQ_KEYBOARD
<1>4. kbd' \in KbdType
  <2>1. CASE Press
    BY <1>2, <2>1 DEF Press, KbdType
  <2>2. CASE Send
    BY <1>2, <2>2 DEF Send, KbdType
  <2>3. CASE UNCHANGED kbd
    BY <1>2, <2>3
  <2>. QED  BY <2>1, <2>2, <2>3 DEF PitPeriod, interruptsVars
<1>. QED  BY <1>1, <1>2, <1>3, <1>4 DEF IInv, Shape, Gates, OnlyInHalt, HandlersAlone

LEMMA NextIInv == ASSUME SleepsEndAtOnce, IInv, [InterruptsNext]_interruptsVars PROVE IInv'
<1>1. ASSUME NEW c, Runs(c) PROVE IInv'
  <2>1. Gates'
    BY <1>1 DEF Runs, IInv, Gates
  <2>. QED  BY <1>1, <2>1, LocalStep DEF Runs
<1>. QED
  BY <1>1, EarlySteps, RunningSteps, StiStep, DeliverStep, FaultStep, IretqStep, DeviceSteps
     DEF InterruptsNext, Kernel, Interrupt

\* With sleeps of no ticks a handler never interrupts the boot, another handler or a
\* panic, whatever the devices do: sti in sleep_ms is never reached.
THEOREM HandlersRunAlone == ASSUME SleepsEndAtOnce PROVE InterruptsSpec => []HandlersAlone
<1>1. IInv => HandlersAlone
  BY DEF IInv
<1>. QED  BY <1>1, InitIInv, NextIInv, PTL DEF InterruptsSpec
-----------------------------------------------------------------------------
\* kernel_main runs only when nothing has interrupted it.
LEMMA KernelAlone == ASSUME Shape, Top.code = "kernel_main" PROVE Len(stack) = 1
<1> DEFINE n == Len(stack)
<1>1. n \in Nat /\ n >= 1
  BY DEF Shape
<1>2. ASSUME n # 1 PROVE n \in 2 .. n
  <2>. HIDE DEF n
  <2>. QED  BY <1>1, <1>2
<1>. QED  BY <1>2 DEF Shape, Top, Handlers

\* Code past the boot's first stages goes on.
LEMMA KeyRuns ==
  ASSUME KInv, NEW c, Runs(c) PROVE PicBeforeDrain' /\ KeyNotStuck'
<1>1. /\ Shape /\ PicBeforeDrain /\ KeyNotStuck /\ ChangesTop(c) /\ Top.pc \notin Early
      /\ pic'.on = pic.on
  BY DEF KInv, IInv, Runs
<1>2. /\ stack' \in Seq(Contexts) /\ Len(stack') = Len(stack)
      /\ \A i \in DOMAIN stack : stack'[i].code = stack[i].code
      /\ \A i \in DOMAIN stack : i # Len(stack) => stack'[i] = stack[i]
  BY <1>1, TopChanges
<1>3. stack \in Seq(Contexts) /\ 1 \in DOMAIN stack /\ DOMAIN stack' = DOMAIN stack
  BY <1>1, <1>2 DEF Shape
<1>4. stack[1].pc \in Early => stack'[1] = stack[1]
  BY <1>1, <1>2, <1>3 DEF Top
<1>5. PicBeforeDrain'
  BY <1>1, <1>4 DEF PicBeforeDrain, Early
<1>6. KeyNotStuck'
  <2> SUFFICES ASSUME kbd'.full PROVE KeyNotStuck'
    BY DEF KeyNotStuck
  <2>1. kbd.full /\ pic'.irr = pic.irr /\ ~At("keyboard", "entry")
    BY DEF Runs
  <2>2. CASE IRQ_KEYBOARD \in pic.irr
    BY <2>1, <2>2 DEF KeyNotStuck
  <2>3. CASE \E i \in DOMAIN stack : stack[i].code = "keyboard" /\ stack[i].pc = "entry"
    <3>1. PICK i \in DOMAIN stack : stack[i].code = "keyboard" /\ stack[i].pc = "entry"
      BY <2>3
    <3>2. i # Len(stack)
      BY <2>1, <3>1 DEF At, Top
    <3>. QED  BY <1>2, <1>3, <3>1, <3>2 DEF KeyNotStuck
  <2>4. CASE stack[1].pc \in Early
    BY <1>4, <2>4 DEF KeyNotStuck, Early
  <2>5. CASE Panicked
    BY <1>2, <1>3, <2>5 DEF KeyNotStuck, Panicked
  <2>. QED  BY <1>1, <2>1, <2>2, <2>3, <2>4, <2>5 DEF KeyNotStuck, Early
<1>. QED  BY <1>5, <1>6

\* The boot's own steps.
LEMMA KeyBoot ==
  ASSUME KInv,
         idt_init \/ populate_idt_entries \/ pic_init \/ init_interrupts_drain \/ kernel_main_sti
  PROVE  PicBeforeDrain' /\ KeyNotStuck'
<1>1. Shape /\ PicBeforeDrain /\ KeyNotStuck /\ Top.code = "kernel_main"
  BY DEF KInv, IInv, idt_init, populate_idt_entries, pic_init, init_interrupts_drain,
         kernel_main_sti, At
<1>2. Len(stack) = 1 /\ stack[1] = Top
  BY <1>1, KernelAlone DEF Top
<1>3. \A p \in {"populate", "pic_init", "drain", "halt"} : Goto(p) => stack'[1].pc = p
  BY <1>1, <1>2, GotoIsChange, TopChanges
<1>4. CASE idt_init
  BY <1>3, <1>4 DEF idt_init, PicBeforeDrain, KeyNotStuck, Early
<1>5. CASE populate_idt_entries
  BY <1>3, <1>5 DEF populate_idt_entries, PicBeforeDrain, KeyNotStuck, Early
<1>6. CASE pic_init
  BY <1>3, <1>6 DEF pic_init, PicBeforeDrain, KeyNotStuck, Early
<1>7. CASE init_interrupts_drain
  <2>1. pic.on /\ pic \in PicType
    BY <1>1, <1>2, <1>7 DEF init_interrupts_drain, At, PicBeforeDrain, Early, Shape
  <2>2. pic'.on
    BY <1>1, <1>7, <2>1, PicTypes DEF init_interrupts_drain
  <2>3. ~kbd'.full
    BY <1>1, <1>7 DEF init_interrupts_drain, Shape, KbdType
  <2>. QED  BY <2>2, <2>3 DEF PicBeforeDrain, KeyNotStuck
<1>8. CASE kernel_main_sti
  <2>1. Top.pc = "work" /\ Goto("halt") /\ UNCHANGED <<pic, kbd>>
    BY <1>8 DEF kernel_main_sti, At
  <2>2. pic.on
    BY <1>1, <1>2, <2>1 DEF PicBeforeDrain, Early
  <2>3. kbd.full => IRQ_KEYBOARD \in pic.irr
    <3>1. \A i \in DOMAIN stack : stack[i].code = "kernel_main"
      BY <1>1, <1>2 DEF Shape
    <3>. QED  BY <1>1, <1>2, <2>1, <3>1 DEF KeyNotStuck, Panicked
  <2>. QED  BY <2>1, <2>2, <2>3 DEF PicBeforeDrain, KeyNotStuck
<1>. QED  BY <1>4, <1>5, <1>6, <1>7, <1>8

\* A handler starts: that of the keyboard finds the scan code in the port.
LEMMA KeyDeliver ==
  ASSUME KInv, NEW n \in {IRQ_TIMER, IRQ_KEYBOARD}, Deliver(n)
  PROVE  PicBeforeDrain' /\ KeyNotStuck'
<1>1. /\ Shape /\ Gates /\ PicBeforeDrain /\ KeyNotStuck /\ Len(stack) = 1
      /\ stack[1].pc = "halt" /\ stack[1] \in Contexts /\ pic \in PicType
  BY DEF KInv, IInv, OnlyInHalt, Shape, Deliver
<1>2. pic.on /\ pic'.on
  BY <1>1 DEF PicBeforeDrain, Early, Deliver, PicType
<1>3. CASE n = IRQ_TIMER
  <2>1. kbd.full => IRQ_KEYBOARD \in pic.irr
    <3>1. \A i \in DOMAIN stack : stack[i].code = "kernel_main"
      BY <1>1 DEF Shape
    <3>. QED  BY <1>1, <3>1 DEF KeyNotStuck, Panicked
  <2>2. kbd' = kbd /\ (IRQ_KEYBOARD \in pic.irr => IRQ_KEYBOARD \in pic'.irr)
    BY <1>1, <1>3 DEF Deliver, PicType, IRQ_TIMER, IRQ_KEYBOARD
  <2>. QED  BY <1>2, <2>1, <2>2 DEF PicBeforeDrain, KeyNotStuck
<1>4. CASE n = IRQ_KEYBOARD
  <2> DEFINE c == Context(idt[33], "entry", iflag, IrqFrame(33))
             under == [stack EXCEPT ![Len(stack)].pc = IF @ = "hlt" THEN "sleep" ELSE @]
  <2>1. c.code = "keyboard" /\ c.pc = "entry"
    BY <1>1, <1>4 DEF Gates, Deliver, Context, IRQ_KEYBOARD, MASTER_IRQ_OFFSET
  <2>2. stack' = Append(under, c)
    BY <1>4 DEF Deliver, IRQ_KEYBOARD, MASTER_IRQ_OFFSET
  <2>3. under = stack
    <3>1. stack \in Seq(Contexts)
      BY <1>1 DEF Shape
    <3>2. stack = <<stack[1]>>
      BY <1>1, <3>1
    <3>. QED  BY <1>1, <3>2 DEF Contexts
  <2>. HIDE DEF c, under
  <2>4. 2 \in DOMAIN stack' /\ stack'[2] = c
    <3>1. stack \in Seq(Contexts) /\ Len(stack) \in Nat
      BY <1>1 DEF Shape
    <3>2. Len(stack') = Len(stack) + 1 /\ stack'[Len(stack) + 1] = c
          /\ DOMAIN stack' = 1 .. (Len(stack) + 1)
      BY <2>2, <2>3, <3>1
    <3>. QED  BY <1>1, <3>2
  <2>. QED  BY <1>2, <2>1, <2>4 DEF PicBeforeDrain, KeyNotStuck
<1>. QED  BY <1>3, <1>4

\* An exception ends in a panic.
LEMMA KeyFault ==
  ASSUME KInv, NEW v \in Faults, Exception(v) PROVE PicBeforeDrain' /\ KeyNotStuck'
<1> DEFINE c == Context(idt[v], "entry", iflag, FaultFrame(v))
<1>1. Shape /\ Gates /\ PicBeforeDrain /\ v \in 0 .. 31 /\ v \in DOMAIN idt
  BY InterruptsAssumption DEF KInv, IInv, Exception
<1>2. c.code = "fault"
  BY <1>1 DEF Gates, Context
<1>3. stack' = Append(stack, c) /\ pic' = pic
  BY DEF Exception
<1>. HIDE DEF c
<1>4. stack \in Seq(Contexts) /\ Len(stack) \in Nat /\ Len(stack) >= 1
  BY <1>1 DEF Shape
<1>5. /\ DOMAIN stack' = 1 .. (Len(stack) + 1)
      /\ stack'[Len(stack) + 1] = c /\ stack'[1] = stack[1]
  BY <1>3, <1>4
<1>6. PicBeforeDrain'
  BY <1>1, <1>3, <1>5 DEF PicBeforeDrain
<1>7. Panicked'
  BY <1>2, <1>4, <1>5 DEF Panicked
<1>. QED  BY <1>6, <1>7 DEF KeyNotStuck

\* A handler that returns has read the port.
LEMMA KeyIretq == ASSUME KInv, iretq PROVE PicBeforeDrain' /\ KeyNotStuck'
<1>1. /\ Shape /\ HandlersAlone /\ PicBeforeDrain /\ KeyNotStuck /\ Top.code \in Handlers
      /\ Top.pc = "iret" /\ UNCHANGED <<pic, kbd>>
  BY DEF KInv, IInv, iretq, Handlers
<1>2. stack \in Seq(Contexts) /\ Len(stack) \in Nat /\ Len(stack) >= 1
  BY <1>1 DEF Shape
<1>3. Len(stack) = 2 /\ stack[1].pc = "halt"
  <2>1. Len(stack) \in DOMAIN stack /\ stack[Len(stack)].code \in {"timer", "keyboard"}
    BY <1>1, <1>2 DEF Handlers, Top
  <2>. QED  BY <1>1, <2>1 DEF HandlersAlone
<1>4. stack'[1] = stack[1]
  BY <1>2, <1>3 DEF iretq
<1>5. kbd.full => IRQ_KEYBOARD \in pic.irr
  <2>1. \A i \in DOMAIN stack : i = 1 \/ i = 2
    BY <1>2, <1>3
  <2>2. stack[1].code = "kernel_main" /\ stack[2].code \in Handlers /\ stack[2].pc = "iret"
    BY <1>1, <1>3 DEF Shape, Top
  <2>. QED  BY <1>1, <1>3, <2>1, <2>2 DEF KeyNotStuck, Panicked, Handlers
<1>. QED  BY <1>1, <1>4, <1>5 DEF PicBeforeDrain, KeyNotStuck

\* The keyboard requests an interrupt with every scan code it puts into the port.
LEMMA KeyDevices ==
  ASSUME KInv, PitPeriod \/ Press \/ Send \/ UNCHANGED interruptsVars
  PROVE  PicBeforeDrain' /\ KeyNotStuck'
<1>1. /\ PicBeforeDrain /\ KeyNotStuck /\ pic \in PicType /\ kbd \in KbdType
      /\ stack' = stack
  BY DEF KInv, IInv, Shape, PitPeriod, Press, Send, interruptsVars
<1>2. CASE PitPeriod
  BY <1>1, <1>2 DEF PitPeriod, PicType, PicBeforeDrain, KeyNotStuck, Panicked
<1>3. CASE Press
  BY <1>1, <1>3 DEF Press, KbdType, PicBeforeDrain, KeyNotStuck, Panicked
<1>4. CASE Send
  <2>1. pic'.on = pic.on /\ (pic.on => IRQ_KEYBOARD \in pic'.irr)
    BY <1>1, <1>4 DEF Send, PicType
  <2>2. ~pic.on => stack'[1].pc \in {"idt_init", "populate", "pic_init"}
    BY <1>1 DEF PicBeforeDrain, Early
  <2>. QED  BY <2>1, <2>2 DEF PicBeforeDrain, KeyNotStuck, Early
<1>5. CASE UNCHANGED interruptsVars
  BY <1>1, <1>5 DEF interruptsVars, PicBeforeDrain, KeyNotStuck, Panicked
<1>. QED  BY <1>2, <1>3, <1>4, <1>5

\* A scan code in port 0x60 is never without somebody who is going to read it, so that
\* the keyboard goes on sending.
THEOREM KeyIsNotStuck == ASSUME SleepsEndAtOnce PROVE InterruptsSpec => []KeyNotStuck
<1>1. InterruptsInit => KInv
  <2>1. InterruptsInit => PicBeforeDrain /\ KeyNotStuck
    BY DEF InterruptsInit, PicBeforeDrain, KeyNotStuck, Early, Context
  <2>. QED  BY <2>1, InitIInv DEF KInv
<1>2. KInv /\ [InterruptsNext]_interruptsVars => KInv'
  <2> SUFFICES ASSUME KInv, [InterruptsNext]_interruptsVars PROVE KInv'
    OBVIOUS
  <2>1. IInv /\ IInv'
    BY NextIInv DEF KInv
  <2>2. PicBeforeDrain' /\ KeyNotStuck'
    BY <2>1, KeyBoot, RunningSteps, KeyRuns, KeyDeliver, KeyFault, KeyIretq, KeyDevices
       DEF InterruptsNext, Kernel, Interrupt
  <2>. QED  BY <2>1, <2>2 DEF KInv
<1>3. KInv => KeyNotStuck
  BY DEF KInv
<1>. QED  BY <1>1, <1>2, <1>3, PTL DEF InterruptsSpec
-----------------------------------------------------------------------------
\* The frame of a fault, whether the processor or the stub has pushed the error code.
LEMMA FaultFrameIs ==
  ASSUME NEW v, NEW p, p = FaultFrame(v)
  PROVE  /\ Len(p) = 22 /\ DOMAIN p = 1 .. 22
         /\ p[1] = "ss" /\ p[2] = "rsp" /\ p[3] = "rflags" /\ p[4] = "cs" /\ p[5] = "rip"
         /\ p[6] = "error_code" /\ p[7] = v
         /\ p[8] = "rax" /\ p[9] = "rbx" /\ p[10] = "rcx" /\ p[11] = "rdx" /\ p[12] = "rbp"
         /\ p[13] = "rsi" /\ p[14] = "rdi" /\ p[15] = "r8" /\ p[16] = "r9" /\ p[17] = "r10"
         /\ p[18] = "r11" /\ p[19] = "r12" /\ p[20] = "r13" /\ p[21] = "r14" /\ p[22] = "r15"
<1>1. CASE v \in PushesErrorCode
  <2>1. p = <<"ss", "rsp", "rflags", "cs", "rip">> \o <<"error_code">> \o (<<>> \o <<v>>)
              \o isr_common
    BY <1>1, Zenon DEF CpuPushes, isr_stub, FaultFrame, PushesErrorCode
  <2> QED  BY <2>1, SMT DEF isr_common
<1>2. CASE v \notin PushesErrorCode
  <2>1. p = <<"ss", "rsp", "rflags", "cs", "rip">> \o <<>> \o (<<"error_code">> \o <<v>>)
              \o isr_common
    BY <1>2, Zenon DEF CpuPushes, isr_stub, FaultFrame, PushesErrorCode
  <2> QED  BY <2>1, SMT DEF isr_common
<1> QED  BY <1>1, <1>2

\* The C++ code finds what was pushed for it (FrameMatches, for one frame).
Matches(code, frame) ==
  /\ Len(frame) % 2 = 0
  /\ code = "fault" =>
       /\ Len(frame) = Len(Registers)
       /\ \A k \in DOMAIN frame :
            LET field == Registers[Len(frame) + 1 - k]
            IN  IF field = "interrupt_number" THEN frame[k] \in Faults ELSE frame[k] = field
  /\ code # "fault" =>
       {"rax", "rcx", "rdx", "rsi", "rdi", "r8", "r9", "r10", "r11"}
         \subseteq {frame[k] : k \in DOMAIN frame}

\* isr_stub_v and isr_common build a struct Registers.
LEMMA FaultMatches ==
  ASSUME NEW v \in Faults
  PROVE  Matches("fault", FaultFrame(v))
<1>1. PICK p : p = FaultFrame(v)
  OBVIOUS
<1> SUFFICES /\ Len(p) % 2 = 0 /\ Len(p) = Len(Registers)
             /\ \A k \in DOMAIN p :
                  LET field == Registers[Len(p) + 1 - k]
                  IN  IF field = "interrupt_number" THEN p[k] \in Faults
                      ELSE p[k] = field
  BY <1>1 DEF Matches
<1>2. Len(p) = 22 /\ DOMAIN p = 1 .. 22
  BY <1>1, FaultFrameIs
<1>3. Len(Registers) = 22
  BY DEF Registers
<1>4. ASSUME NEW k \in 1 .. 22
      PROVE  LET field == Registers[23 - k]
             IN  IF field = "interrupt_number" THEN p[k] \in Faults ELSE p[k] = field
  <2>1. CASE k \in 1 .. 11
    BY <1>1, <2>1, FaultFrameIs DEF Registers
  <2>2. CASE k \in 12 .. 22
    BY <1>1, <2>2, FaultFrameIs DEF Registers
  <2> QED  BY <2>1, <2>2
<1>5. \A k \in 1 .. 22 : Len(p) + 1 - k = 23 - k
  BY <1>2
<1>6. Len(p) % 2 = 0
  BY <1>2
<1> QED  BY <1>2, <1>3, <1>4, <1>5, <1>6

\* timer_isr and keyboard_isr save every register the C++ code may change.
LEMMA IrqMatches ==
  ASSUME NEW v \in {32, 33}, NEW c, c # "fault"
  PROVE  Matches(c, IrqFrame(v))
<1>1. PICK p : p = IrqFrame(v)
  OBVIOUS
<1>2. v \notin PushesErrorCode
  BY DEF PushesErrorCode
<1>3. p = <<"ss", "rsp", "rflags", "cs", "rip">> \o <<>> \o isr_pushes
  BY <1>1, <1>2, Zenon DEF CpuPushes, IrqFrame
<1>4. /\ Len(p) = 14 /\ DOMAIN p = 1 .. 14
      /\ p[6] = "rax" /\ p[7] = "rcx" /\ p[8] = "rdx" /\ p[9] = "rsi" /\ p[10] = "rdi"
      /\ p[11] = "r8" /\ p[12] = "r9" /\ p[13] = "r10" /\ p[14] = "r11"
  BY <1>3, SMT DEF isr_pushes
<1>5. Len(p) % 2 = 0
  BY <1>4
<1>6. \A k \in 6 .. 14 : p[k] \in {p[i] : i \in DOMAIN p}
  BY <1>4
<1>7. {"rax", "rcx", "rdx", "rsi", "rdi", "r8", "r9", "r10", "r11"} \subseteq {p[k] : k \in DOMAIN p}
  BY <1>4, <1>6
<1> QED  BY <1>1, <1>5, <1>7 DEF Matches

\* The typing of everything but the stack.
LEMMA TypesStay ==
  ASSUME Shape, [InterruptsNext]_interruptsVars
  PROVE  iflag' \in BOOLEAN /\ pic' \in PicType /\ kbd' \in KbdType /\ ticks' \in Nat
<1>1. /\ iflag \in BOOLEAN /\ pic \in PicType /\ kbd \in KbdType /\ ticks \in Nat
      /\ Top \in Contexts
  BY DEF Shape, Top
<1>2. iflag' \in BOOLEAN
  BY <1>1 DEF InterruptsNext, Kernel, Interrupt, idt_init, populate_idt_entries, pic_init,
     init_interrupts_drain, kernel_main_sti, sleep_ms, halt_till_tick, timer_handler,
     EIO_Finished_Interrupt, keyboard_inb, keyboard_handler, keyboard_handler_returns,
     fault_handler_halts, iretq, Deliver, Exception, PitPeriod, Press, Send, interruptsVars, Contexts
<1>3. ticks' \in Nat
  BY <1>1 DEF InterruptsNext, Kernel, Interrupt, idt_init, populate_idt_entries, pic_init,
     init_interrupts_drain, kernel_main_sti, sleep_ms, halt_till_tick, timer_handler,
     EIO_Finished_Interrupt, keyboard_inb, keyboard_handler, keyboard_handler_returns,
     fault_handler_halts, iretq, Deliver, Exception, PitPeriod, Press, Send, interruptsVars
<1>4. kbd' \in KbdType
  <2>1. /\ kbd' = kbd \/ kbd' = [kbd EXCEPT !.full = FALSE] \/ Press \/ Send
    BY DEF InterruptsNext, Kernel, Interrupt, idt_init, populate_idt_entries, pic_init,
       init_interrupts_drain, kernel_main_sti, sleep_ms, halt_till_tick, timer_handler,
       EIO_Finished_Interrupt, keyboard_inb, keyboard_handler, keyboard_handler_returns,
       fault_handler_halts, iretq, Deliver, Exception, PitPeriod, interruptsVars
  <2>2. CASE Press
    BY <1>1, <2>2 DEF Press, KbdType
  <2>3. CASE Send
    BY <1>1, <2>3 DEF Send, KbdType
  <2>4. CASE kbd' = [kbd EXCEPT !.full = FALSE]
    BY <1>1, <2>4 DEF KbdType
  <2> QED  BY <1>1, <2>1, <2>2, <2>3, <2>4
<1>5. pic' \in PicType
  <2>1. \/ pic' = pic \/ OutEoi \/ PitPeriod \/ Send \/ pic_init
        \/ \E irr \in AfterRead : pic' = [pic EXCEPT !.irr = irr]
        \/ \E n \in {IRQ_TIMER, IRQ_KEYBOARD} :
             pic' = [pic EXCEPT !.irr = @ \ {n}, !.isr = @ \cup {n}]
    BY DEF InterruptsNext, Kernel, Interrupt, idt_init, populate_idt_entries,
       init_interrupts_drain, kernel_main_sti, sleep_ms, halt_till_tick, timer_handler,
       EIO_Finished_Interrupt, keyboard_inb, keyboard_handler, keyboard_handler_returns,
       fault_handler_halts, iretq, Deliver, Exception, Press, interruptsVars
  <2>2. CASE PitPeriod \/ Send
    BY <1>1, <2>2 DEF PitPeriod, Send, PicType, IRQ_TIMER, IRQ_KEYBOARD
  <2>3. CASE pic_init
    BY <2>3 DEF pic_init, PicType
  <2>4. CASE \E n \in {IRQ_TIMER, IRQ_KEYBOARD} :
               pic' = [pic EXCEPT !.irr = @ \ {n}, !.isr = @ \cup {n}]
    <3>1. PICK n \in {0, 1} : pic' = [pic EXCEPT !.irr = @ \ {n}, !.isr = @ \cup {n}]
      BY <2>4 DEF IRQ_TIMER, IRQ_KEYBOARD
    <3>2. pic' = [on |-> pic.on, irr |-> pic.irr \ {n}, isr |-> pic.isr \cup {n}]
      BY <1>1, <3>1 DEF PicType
    <3>3. pic.on \in BOOLEAN /\ pic.irr \ {n} \in SUBSET {0, 1}
          /\ pic.isr \cup {n} \in SUBSET {0, 1}
      BY <1>1 DEF PicType
    <3> QED  BY <3>2, <3>3 DEF PicType
  <2> QED  BY <1>1, <2>1, <2>2, <2>3, <2>4, PicTypes
<1> QED  BY <1>2, <1>3, <1>4, <1>5

FInv == Shape /\ Gates /\ FrameMatches

\* The running code goes on with the frame it was given.
LEMMA FrameKept ==
  ASSUME FInv, NEW c, ChangesTop(c), c.frame = Top.frame
  PROVE  /\ stack' \in Seq(Contexts) /\ Len(stack') >= 1
         /\ stack'[1].code = "kernel_main"
         /\ \A i \in 2 .. Len(stack') :
              stack'[i].code \in Handlers \cup {"fault"} /\ Matches(stack'[i].code, stack'[i].frame)
<1>1. Shape /\ FrameMatches /\ stack \in Seq(Contexts) /\ Len(stack) \in Nat /\ Len(stack) >= 1
  BY DEF FInv, Shape
<1>2. /\ stack' \in Seq(Contexts) /\ Len(stack') = Len(stack)
      /\ \A i \in DOMAIN stack : stack'[i].code = stack[i].code
      /\ stack'[Len(stack)] = c
      /\ \A i \in DOMAIN stack : i # Len(stack) => stack'[i] = stack[i]
  BY <1>1, TopChanges
<1>3. ASSUME NEW i \in 1 .. Len(stack)
      PROVE  stack'[i].code = stack[i].code /\ stack'[i].frame = stack[i].frame
  <2>1. i \in DOMAIN stack
    BY <1>1
  <2> QED  BY <1>2, <2>1 DEF Top
<1>4. ASSUME NEW i \in 2 .. Len(stack)
      PROVE  stack[i].code \in Handlers \cup {"fault"} /\ Matches(stack[i].code, stack[i].frame)
  BY <1>1 DEF Shape, FrameMatches, Matches
<1> QED  BY <1>1, <1>2, <1>3, <1>4 DEF Shape

\* The processor calls code through a gate, on top of what ran.
LEMMA FramePushed ==
  ASSUME FInv, NEW c \in Contexts, c.code \in Handlers \cup {"fault"}, Matches(c.code, c.frame),
         NEW t, t \in Contexts, t.code = Top.code, t.frame = Top.frame,
         stack' = Append([stack EXCEPT ![Len(stack)] = t], c)
  PROVE  /\ stack' \in Seq(Contexts) /\ Len(stack') >= 1
         /\ stack'[1].code = "kernel_main"
         /\ \A i \in 2 .. Len(stack') :
              stack'[i].code \in Handlers \cup {"fault"} /\ Matches(stack'[i].code, stack'[i].frame)
<1> DEFINE under == [stack EXCEPT ![Len(stack)] = t]
           n == Len(stack)
<1>1. Shape /\ FrameMatches /\ stack \in Seq(Contexts) /\ n \in Nat /\ n >= 1
  BY DEF FInv, Shape
<1>2. /\ under \in Seq(Contexts) /\ Len(under) = n
      /\ \A i \in 1 .. n : under[i].code = stack[i].code /\ under[i].frame = stack[i].frame
  BY <1>1 DEF Top
<1>3. stack' = Append(under, c)
  OBVIOUS
<1> HIDE DEF under
<1>4. /\ stack' \in Seq(Contexts) /\ Len(stack') = n + 1 /\ stack'[n + 1] = c
      /\ \A i \in 1 .. n : stack'[i] = under[i]
  BY <1>1, <1>2, <1>3
<1>5. ASSUME NEW i \in 2 .. n
      PROVE  stack[i].code \in Handlers \cup {"fault"} /\ Matches(stack[i].code, stack[i].frame)
  BY <1>1 DEF Shape, FrameMatches, Matches
<1> HIDE DEF n
<1>6. \A i \in 2 .. (n + 1) : i \in 2 .. n \/ i = n + 1
  BY <1>1
<1>7. ASSUME NEW i \in 2 .. n
      PROVE  stack'[i].code = stack[i].code /\ stack'[i].frame = stack[i].frame
  BY <1>1, <1>2, <1>4
<1>8. stack'[1].code = "kernel_main"
  BY <1>1, <1>2, <1>4 DEF Shape
<1> QED  BY <1>1, <1>4, <1>5, <1>6, <1>7, <1>8

\* Every step.
LEMMA FramesNext == ASSUME FInv, [InterruptsNext]_interruptsVars PROVE FInv'
<1>0. /\ Shape /\ Gates /\ FrameMatches /\ Top \in Contexts /\ stack \in Seq(Contexts)
      /\ Len(stack) \in Nat /\ Len(stack) >= 1 /\ iflag \in BOOLEAN /\ ticks \in Nat
  BY DEF FInv, Shape, Top
<1>1. Gates'
  <2>1. idt' = idt \/ idt_init \/ populate_idt_entries
    BY DEF InterruptsNext, Kernel, Interrupt, pic_init, init_interrupts_drain, kernel_main_sti, sleep_ms,
       halt_till_tick, timer_handler, EIO_Finished_Interrupt, keyboard_inb, keyboard_handler,
       keyboard_handler_returns, fault_handler_halts, iretq, Deliver, Exception, PitPeriod, Press, Send,
       interruptsVars
  <2>2. CASE idt' = idt
    BY <1>0, <2>2 DEF Gates
  <2>3. CASE idt_init
    BY <2>3 DEF idt_init, Gates
  <2>4. CASE populate_idt_entries
    BY <2>4 DEF populate_idt_entries, Gates
  <2> QED  BY <2>1, <2>2, <2>3, <2>4
<1>0a. ASSUME NEW i \in 2 .. Len(stack)
      PROVE  stack[i].code \in Handlers \cup {"fault"} /\ Matches(stack[i].code, stack[i].frame)
  BY <1>0 DEF Shape, FrameMatches, Matches
<1> DEFINE Good == /\ stack' \in Seq(Contexts) /\ Len(stack') >= 1
                   /\ stack'[1].code = "kernel_main"
                   /\ \A i \in 2 .. Len(stack') :
                        /\ stack'[i].code \in Handlers \cup {"fault"}
                        /\ Matches(stack'[i].code, stack'[i].frame)
<1>2. ASSUME stack' = stack
      PROVE  Good
  BY <1>0, <1>0a, <1>2 DEF Shape
<1>3. ASSUME \E p \in {"populate", "pic_init", "drain", "work", "hlt", "halt", "eoi", "iret", "panic"} :
               Goto(p)
      PROVE  Good
  BY <1>0, <1>3, GotoIsChange, FrameKept
<1>4. ASSUME \E n \in 0 .. MAX_SLEEPS : StartWork(n)
      PROVE  Good
  BY <1>0, <1>4, WorkIsChange, FrameKept, InterruptsAssumption
<1>5. ASSUME sleep_ms
      PROVE  Good
  <2>1. Top.left - 1 \in Nat /\ ticks + (1 * PIT_TICK_HZ) \div 1000 \in Nat
    BY <1>0, <1>5, InterruptsAssumption DEF sleep_ms, Contexts
  <2>2. Asleep(Top) \in Contexts /\ Asleep(Top).code = Top.code /\ Asleep(Top).frame = Top.frame
    BY <1>0, <2>1 DEF Asleep, Contexts
  <2>3. ChangesTop(Asleep(Top))
    BY <1>5, <2>2 DEF ChangesTop, sleep_ms
  <2> QED  BY <2>2, <2>3, FrameKept
<1>6. ASSUME NEW n \in {IRQ_TIMER, IRQ_KEYBOARD}, Deliver(n)
      PROVE  Good
  <2> DEFINE v == MASTER_IRQ_OFFSET + n
             c == Context(idt[v], "entry", iflag, IrqFrame(v))
             t == [Top EXCEPT !.pc = IF @ = "hlt" THEN "sleep" ELSE @]
  <2>1. v \in {32, 33} /\ v \in DOMAIN idt
    BY <1>6 DEF Deliver, MASTER_IRQ_OFFSET, IRQ_TIMER, IRQ_KEYBOARD
  <2>2. idt[v] \in Handlers
    BY <1>0, <2>1 DEF Gates, Handlers
  <2>3. c \in Contexts /\ c.code \in Handlers /\ Matches(c.code, c.frame)
    <3>1. IrqFrame(v) \in {IrqFrame(w) : w \in {32, 33}}
      BY <2>1
    <3>2. idt[v] # "fault" /\ Matches(idt[v], IrqFrame(v))
      BY <2>1, <2>2, IrqMatches DEF Handlers
    <3> QED  BY <1>0, <2>2, <3>1, <3>2 DEF Context, Contexts
  <2>4. t \in Contexts /\ t.code = Top.code /\ t.frame = Top.frame
    BY <1>0 DEF Contexts
  <2>5. stack' = Append([stack EXCEPT ![Len(stack)] = t], c)
    BY <1>0, <1>6 DEF Deliver, Top
  <2> HIDE DEF c, t
  <2> QED  BY <2>3, <2>4, <2>5, FramePushed
<1>7. ASSUME NEW v \in Faults, Exception(v)
      PROVE  Good
  <2> DEFINE c == Context(idt[v], "entry", iflag, FaultFrame(v))
  <2>1. v \in 0 .. 31 /\ idt[v] = "fault"
    <3>1. v \in 0 .. 31 /\ v \in DOMAIN idt
      BY <1>7, InterruptsAssumption DEF Exception
    <3> QED  BY <1>0, <3>1 DEF Gates
  <2>2. c \in Contexts /\ c.code = "fault" /\ Matches(c.code, c.frame)
    <3>1. FaultFrame(v) \in {FaultFrame(w) : w \in 0 .. 31}
      BY <2>1
    <3> QED  BY <1>0, <2>1, <3>1, FaultMatches DEF Context, Contexts
  <2>3. stack' = Append(stack, c) /\ [stack EXCEPT ![Len(stack)] = Top] = stack
    BY <1>0, <1>7 DEF Exception, Top
  <2> HIDE DEF c
  <2> QED  BY <1>0, <2>2, <2>3, FramePushed
<1>8. ASSUME iretq
      PROVE  Good
  <2>1. Len(stack) >= 2
    BY <1>0, <1>8 DEF iretq, Shape, Top
  <2>2. stack' = SubSeq(stack, 1, Len(stack) - 1)
    BY <1>8 DEF iretq
  <2>3. /\ stack' \in Seq(Contexts) /\ Len(stack') = Len(stack) - 1
        /\ \A i \in 1 .. (Len(stack) - 1) : stack'[i] = stack[i]
    BY <1>0, <2>1, <2>2
  <2> QED  BY <1>0, <1>0a, <2>1, <2>3 DEF Shape
<1>9. Good
  BY <1>2, <1>3, <1>4, <1>5, <1>6, <1>7, <1>8
  DEF InterruptsNext, Kernel, Interrupt, idt_init, populate_idt_entries, pic_init,
     init_interrupts_drain, kernel_main_sti, halt_till_tick, timer_handler,
     EIO_Finished_Interrupt, keyboard_inb, keyboard_handler, keyboard_handler_returns,
     fault_handler_halts, PitPeriod, Press, Send, interruptsVars
<1>10. Shape'
  BY <1>0, <1>9, TypesStay DEF Shape
<1>11. FrameMatches'
  BY <1>9 DEF FrameMatches, Matches
<1> QED  BY <1>1, <1>10, <1>11 DEF FInv

\* What the C++ code finds on the stack is what it declares, whatever interrupts what and
\* however deep: struct Registers after a fault, aligned, with or without an error code of
\* the processor's, and every register that a handler may change saved.
THEOREM FramesMatch == InterruptsSpec => []FrameMatches
<1>1. InterruptsInit => FInv
  <2>1. InterruptsInit => FrameMatches
    BY DEF InterruptsInit, FrameMatches
  <2> QED  BY <2>1, InitIInv DEF FInv, IInv
<1>2. FInv => FrameMatches
  BY DEF FInv
<1> QED  BY <1>1, <1>2, FramesNext, PTL DEF InterruptsSpec

-----------------------------------------------------------------------------
(* The AHCI driver, for any contents of a sector, any length of the poll      *)
(* loops and any number of pages.                                             *)
(*                                                                            *)
(* Three invariants, each resting on the one before: PortInv says what the    *)
(* port registers are at every place of preparePort, CommandInv what has been *)
(* built at every place of a command and what the adapter can be working on,  *)
(* DataInv what the disk and the data buffer hold meanwhile.                  *)

InCommand == {"header", "build", "issue", "await_CI", "finish", "timeout"}
Prepared == InCommand \cup {"idle"}

PortInv ==
  /\ CMD \in [ST : {0, 1}, CR : {0, 1}, FRE : {0, 1}, FR : {0, 1}]
  /\ place \in {"await_CR_0", "stop_fis", "await_FR_0", "memory"} => CMD.ST = 0
  /\ place \in {"stop_fis", "await_FR_0", "memory"} => CMD.CR = 0
  /\ place \in {"await_FR_0", "memory"} => CMD.FRE = 0
  /\ place = "memory" => CMD.FR = 0
  /\ place \in {"await_FR_1", "await_ready", "start", "await_CR_1"} \cup Prepared =>
       CLB /\ CMD.FRE = 1
  /\ place \in {"await_ready", "start", "await_CR_1"} \cup Prepared => CMD.FR = 1
  /\ place = "start" => drive
  /\ place \in {"await_CR_1"} \cup Prepared => CMD.ST = 1
  /\ place \in Prepared => CMD.CR = 1

CommandInv ==
  /\ cmd \in Nat
  /\ place \in InCommand => /\ cmd # 0 /\ cmd \in DOMAIN tables
                            /\ NeedsBuffer(op) => cmd \in DOMAIN buf
  /\ place \in InCommand \ {"header"} => header = cmd
  /\ place \in InCommand \ {"header", "build"} => tables[cmd] = op
  /\ place = "timeout" => timedOut
  /\ ~timedOut => /\ CI => place = "await_CI"
                  /\ engine.cmd # 0 => engine = [cmd |-> cmd, op |-> op] /\ CI

\* The adapter has done the command in progress.
CommandDone == place = "finish" \/ (place = "await_CI" /\ ~CI)

DataInv ==
  ~timedOut =>
    /\ disk = IF CommandDone /\ op = "write" THEN buf[cmd] ELSE written
    /\ CommandDone /\ op = "read" => buf[cmd] = disk
    /\ CommandDone /\ op = "identify" => buf[cmd] = IdData
    /\ place # "idle" => out = Junk
    /\ place = "idle" /\ out # Junk => out = IF op = "identify" THEN IdData ELSE written
-----------------------------------------------------------------------------
(* The port *)

\* The registers are as PortInv says, whatever state firmware left the port in.
LEMMA PortInvInit == AhciInit => PortInv
  BY DEF AhciInit, PortInv, Prepared, InCommand

\* Every step of driver, callers and adapter keeps the registers as PortInv says.
LEMMA PortInvNext == PortInv /\ [AhciNext]_ahciVars => PortInv'
<1> SUFFICES ASSUME PortInv, [AhciNext]_ahciVars PROVE PortInv'
  OBVIOUS
<1> USE DEF PortInv, Prepared, InCommand
<1>1. CASE Poll
  BY <1>1 DEF Poll, PortLoops, Awaited, regs
<1>2. CASE Seen
  BY <1>2 DEF Seen, PortLoops, Awaited, Then, Leave, regs
<1>3. CASE StopCommands
  BY <1>3 DEF StopCommands, Leave
<1>4. CASE StopFis
  BY <1>4 DEF StopFis, Leave
<1>5. CASE GiveMemory
  BY <1>5 DEF GiveMemory, Leave
<1>6. CASE StartCommands
  BY <1>6 DEF StartCommands, Leave
<1>7. CASE SetCommandHeader
  BY <1>7 DEF SetCommandHeader, Leave, regs
<1>8. CASE \E d \in Data : BuildCommand(d)
  BY <1>8 DEF BuildCommand, Leave, regs
<1>9. CASE Start_AHCI_Command
  BY <1>9 DEF Start_AHCI_Command, Leave
<1>10. CASE Finish
  BY <1>10 DEF Finish, Leave, regs
<1>11. CASE Request
  BY <1>11 DEF Request, Allocate, Leave, regs
<1>12. CASE EngineSwitches
  BY <1>12 DEF EngineSwitches, driver
<1>13. CASE DriveBecomesReady
  BY <1>13 DEF DriveBecomesReady, driver
<1>14. CASE Fetch
  BY <1>14 DEF Fetch, regs, driver
<1>15. CASE Complete
  BY <1>15 DEF Complete, driver
<1>16. CASE UNCHANGED ahciVars
  BY <1>16 DEF ahciVars, regs, driver
<1> QED
  BY <1>1, <1>2, <1>3, <1>4, <1>5, <1>6, <1>7, <1>8, <1>9, <1>10, <1>11, <1>12, <1>13,
     <1>14, <1>15, <1>16 DEF AhciNext, Driver, Adapter

\* Of all steps only GiveMemory gives the port its memory and only StartCommands sets ST.
LEMMA PortOrderStep ==
  ASSUME PortInv, [AhciNext]_ahciVars
  PROVE  /\ CLB' # CLB => CMD.CR = 0 /\ CMD.FR = 0
         /\ CMD'.ST > CMD.ST => CLB /\ CMD.FR = 1 /\ drive
<1> USE DEF PortInv, Prepared, InCommand
<1>1. CASE Poll \/ Seen
  BY <1>1 DEF Poll, Seen, regs
<1>2. CASE StopCommands \/ StopFis
  BY <1>2 DEF StopCommands, StopFis
<1>3. CASE GiveMemory
  BY <1>3 DEF GiveMemory
<1>4. CASE StartCommands
  BY <1>4 DEF StartCommands
<1>5. CASE SetCommandHeader \/ (\E d \in Data : BuildCommand(d)) \/ Start_AHCI_Command \/ Finish
  BY <1>5 DEF SetCommandHeader, BuildCommand, Start_AHCI_Command, Finish, regs
<1>6. CASE Request
  BY <1>6 DEF Request, Allocate, regs
<1>7. CASE Adapter
  BY <1>7 DEF Adapter, EngineSwitches, DriveBecomesReady, Fetch, Complete, regs
<1>8. CASE UNCHANGED ahciVars
  BY <1>8 DEF ahciVars, regs
<1> QED
  BY <1>1, <1>2, <1>3, <1>4, <1>5, <1>6, <1>7, <1>8 DEF AhciNext, Driver

\* The registers are always as PortInv says.
LEMMA PortInvariant == AhciSpec => []PortInv
  BY PortInvInit, PortInvNext, PTL DEF AhciSpec

\* preparePort changes the memory of a port only while both engines stand still, and starts
\* its command engine only with memory, a running FIS receiver and a ready drive.
THEOREM PortIsPreparedInOrder == AhciSpec => PortOrder
<1>1. PortInv /\ [AhciNext]_ahciVars =>
        [/\ CLB' # CLB => CMD.CR = 0 /\ CMD.FR = 0
         /\ CMD'.ST > CMD.ST => CLB /\ CMD.FR = 1 /\ drive]_ahciVars
  BY PortOrderStep
<1> QED
  BY <1>1, PortInvariant, PTL DEF AhciSpec, PortOrder
-----------------------------------------------------------------------------
(* The commands *)

\* Before the port is prepared there is no command.
LEMMA CommandInvInit == AhciInit => CommandInv
  BY DEF AhciInit, CommandInv, InCommand

\* No step of driver, callers or adapter breaks CommandInv: the adapter cannot fetch
\* anything but the command in progress, as CI is only set while the driver waits for it.
LEMMA CommandInvNext == PortInv /\ CommandInv /\ [AhciNext]_ahciVars => CommandInv'
<1> SUFFICES ASSUME PortInv, CommandInv, [AhciNext]_ahciVars PROVE CommandInv'
  OBVIOUS
<1> USE DEF CommandInv, InCommand
<1>1. CASE Poll
  BY <1>1 DEF Poll, PortLoops, Awaited, regs, memory, NeedsBuffer
<1>2. CASE Seen
  BY <1>2 DEF Seen, PortLoops, Awaited, Then, Leave, regs, memory, NeedsBuffer
<1>3. CASE StopCommands
  BY <1>3 DEF StopCommands, Leave, memory, NeedsBuffer
<1>4. CASE StopFis
  BY <1>4 DEF StopFis, Leave, memory, NeedsBuffer
<1>5. CASE GiveMemory
  BY <1>5 DEF GiveMemory, Leave, NeedsBuffer
<1>6. CASE StartCommands
  BY <1>6 DEF StartCommands, Leave, memory, NeedsBuffer
<1>7. CASE SetCommandHeader
  BY <1>7 DEF SetCommandHeader, Leave, regs, NeedsBuffer
<1>8. CASE \E d \in Data : BuildCommand(d)
  BY <1>8 DEF BuildCommand, Leave, regs, NeedsBuffer
<1>9. CASE Start_AHCI_Command
  BY <1>9 DEF Start_AHCI_Command, Leave, memory, NeedsBuffer
<1>10. CASE Finish
  BY <1>10 DEF Finish, Leave, regs, memory, NeedsBuffer
<1>11. CASE Request
  <2> PICK o \in Ops : Allocate(o)
    BY <1>11 DEF Request
  <2>1. CASE UNCHANGED <<place, elapsed, op, cmd, tables, buf>>
    BY <2>1 DEF Allocate, regs, NeedsBuffer
  <2>2. CASE place' = "header"
    <3>1. op' = o /\ cmd' = cmd + 1 /\ tables' = Set(tables, cmd', "none")
      BY <2>2 DEF Allocate, Leave
    <3>2. cmd' \in DOMAIN tables' /\ cmd' # 0 /\ cmd' \in Nat
      BY <3>1 DEF Set
    <3>3. NeedsBuffer(o) => cmd' \in DOMAIN buf'
      BY <2>2 DEF Allocate, Leave, Set
    <3>4. place = "idle" /\ UNCHANGED <<CI, engine, timedOut>>
      BY DEF Allocate, regs
    <3> QED
      BY <2>2, <3>1, <3>2, <3>3, <3>4 DEF NeedsBuffer
  <2> QED
    BY <2>1, <2>2 DEF Allocate, Leave
<1>12. CASE EngineSwitches
  BY <1>12 DEF EngineSwitches, driver, memory, NeedsBuffer
<1>13. CASE DriveBecomesReady
  BY <1>13 DEF DriveBecomesReady, driver, memory, NeedsBuffer
<1>14. CASE Fetch
  BY <1>14 DEF Fetch, regs, driver, memory, NeedsBuffer
<1>15. CASE Complete
  <2>1. DOMAIN buf' = DOMAIN buf
    <3>1. CASE engine.op = "read"
      BY <1>15, <3>1 DEF Complete
    <3>2. CASE engine.op = "identify"
      BY <1>15, <3>2 DEF Complete
    <3>3. CASE engine.op \notin {"read", "identify"}
      BY <1>15, <3>3 DEF Complete
    <3> QED
      BY <3>1, <3>2, <3>3
  <2>2. UNCHANGED <<header, tables, place, op, cmd, timedOut>> /\ engine'.cmd = 0 /\ CI' = FALSE
    BY <1>15 DEF Complete, driver
  <2> QED
    BY <2>1, <2>2 DEF NeedsBuffer
<1>16. CASE UNCHANGED ahciVars
  BY <1>16 DEF ahciVars, regs, driver, memory, NeedsBuffer
<1> QED
  BY <1>1, <1>2, <1>3, <1>4, <1>5, <1>6, <1>7, <1>8, <1>9, <1>10, <1>11, <1>12, <1>13,
     <1>14, <1>15, <1>16 DEF AhciNext, Driver, Adapter

\* Registers and commands are always as PortInv and CommandInv say.
LEMMA CommandInvariant == AhciSpec => [](PortInv /\ CommandInv)
  BY PortInvInit, PortInvNext, CommandInvInit, CommandInvNext, PTL DEF AhciSpec

\* Only complete commands are issued on a port that is up, and until a command has timed
\* out the adapter works on nothing but the one the driver waits for.
THEOREM IssuedCommandsAreComplete == AhciSpec => []IssuedIsComplete
<1>1. PortInv /\ CommandInv => IssuedIsComplete
  BY DEF PortInv, CommandInv, IssuedIsComplete, Prepared, InCommand
<1> QED
  BY <1>1, CommandInvariant, PTL
-----------------------------------------------------------------------------
(* The data *)

\* At first the disk counts as written and no caller has an answer.
LEMMA DataInvInit == AhciInit => DataInv
  BY DEF AhciInit, DataInv, CommandDone

\* Every step keeps the disk what the last finished write made it, and the buffer of a
\* finished command what the disk answered.
LEMMA DataInvNext == CommandInv /\ CommandInv' /\ DataInv /\ [AhciNext]_ahciVars => DataInv'
<1> SUFFICES ASSUME CommandInv, CommandInv', DataInv, [AhciNext]_ahciVars, ~timedOut' PROVE DataInv'
  BY DEF DataInv
<1>0. ~timedOut
  BY DEF AhciNext, Driver, Poll, Seen, StopCommands, StopFis, GiveMemory, StartCommands,
     SetCommandHeader, BuildCommand, Start_AHCI_Command, Finish, Request, Allocate, Adapter,
     EngineSwitches, DriveBecomesReady, Fetch, Complete, ahciVars, driver
<1> USE <1>0 DEF DataInv, CommandDone
<1>1. CASE Poll
  BY <1>1 DEF Poll, PortLoops, Awaited, regs, memory
<1>2. CASE Seen
  BY <1>2 DEF Seen, PortLoops, Awaited, Then, Leave, regs, memory
<1>3. CASE StopCommands
  BY <1>3 DEF StopCommands, Leave, memory
<1>4. CASE StopFis
  BY <1>4 DEF StopFis, Leave, memory
<1>5. CASE GiveMemory
  BY <1>5 DEF GiveMemory, Leave
<1>6. CASE StartCommands
  BY <1>6 DEF StartCommands, Leave, memory
<1>7. CASE SetCommandHeader
  BY <1>7 DEF SetCommandHeader, Leave, regs
<1>8. CASE \E d \in Data : BuildCommand(d)
  BY <1>8 DEF BuildCommand, Leave, regs
<1>9. CASE Start_AHCI_Command
  BY <1>9 DEF Start_AHCI_Command, Leave, memory
<1>10. CASE Finish
  <2>1. place = "finish"
    BY <1>10 DEF Finish, CommandInv
  <2> QED
    BY <1>10, <2>1 DEF Finish, Leave, regs, memory
<1>11. CASE Request
  BY <1>11 DEF Request, Allocate, Leave, regs
<1>12. CASE EngineSwitches
  BY <1>12 DEF EngineSwitches, driver, memory
<1>13. CASE DriveBecomesReady
  BY <1>13 DEF DriveBecomesReady, driver, memory
<1>14. CASE Fetch
  BY <1>14 DEF Fetch, regs, driver, memory
<1>15. CASE Complete
  <2>1. engine.cmd = cmd /\ engine.op = op /\ CI /\ place = "await_CI"
    BY <1>15 DEF Complete, CommandInv
  <2>2. op \in {"read", "identify"} => cmd \in DOMAIN buf
    BY <2>1 DEF CommandInv, InCommand, NeedsBuffer
  <2>3. UNCHANGED driver /\ CI' = FALSE /\ disk = written /\ out = Junk
    BY <1>15, <2>1 DEF Complete
  <2>4. CASE op = "read"
    BY <1>15, <2>1, <2>2, <2>3, <2>4 DEF Complete, driver
  <2>5. CASE op = "identify"
    BY <1>15, <2>1, <2>2, <2>3, <2>5 DEF Complete, driver
  <2>6. CASE op \notin {"read", "identify"}
    BY <1>15, <2>1, <2>3, <2>6 DEF Complete, driver
  <2> QED
    BY <2>4, <2>5, <2>6
<1>16. CASE UNCHANGED ahciVars
  BY <1>16 DEF ahciVars, regs, driver, memory
<1> QED
  BY <1>1, <1>2, <1>3, <1>4, <1>5, <1>6, <1>7, <1>8, <1>9, <1>10, <1>11, <1>12, <1>13,
     <1>14, <1>15, <1>16 DEF AhciNext, Driver, Adapter

\* Until a command has timed out, a read gives its caller what the last write put on the
\* disk, however slow the adapter is and however often the memory runs out.
THEOREM ReadsSeeTheLastWrite == AhciSpec => []ReadSeesLastWrite
<1>1. AhciInit => PortInv /\ CommandInv /\ DataInv
  BY PortInvInit, CommandInvInit, DataInvInit
<1>2. PortInv /\ CommandInv /\ DataInv /\ [AhciNext]_ahciVars => (PortInv /\ CommandInv /\ DataInv)'
  BY PortInvNext, CommandInvNext, DataInvNext
<1>3. DataInv => ReadSeesLastWrite
  BY DEF DataInv, ReadSeesLastWrite
<1> QED
  BY <1>1, <1>2, <1>3, PTL DEF AhciSpec
=============================================================================
