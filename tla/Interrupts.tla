----------------------------- MODULE Interrupts -----------------------------
(***************************************************************************)
(* Who runs when: the interrupt flag, the PIC, the IDT, the stack of       *)
(* interrupted code (idt.cpp, idt_faults.cpp, pic.cpp, timer.cpp,          *)
(* keyboard.cpp, interrupts.asm, kernel.cpp).                              *)
(*                                                                         *)
(* Of what the interrupted code does only its sleeps are kept: the other   *)
(* modules describe the rest, and rely on HandlersAlone when they take a   *)
(* handler as one step.  A fault before there are gates resets the machine *)
(* and is left out.                                                        *)
(***************************************************************************)
EXTENDS Integers, Sequences

CONSTANTS
  PIT_TICK_HZ,
  Faults,       \* the exceptions that occur, vectors below 32
  MAX_SLEEPS,   \* bound: sleeps of a handler or of the boot
  MAX_TICKS,    \* bound: ticks
  MAX_KEYS,     \* bound: scan codes waiting in the keyboard
  MAX_DEPTH     \* bound: interrupted pieces of code on the stack

ASSUME InterruptsAssumption ==
  /\ PIT_TICK_HZ \in Nat \ {0}
  /\ Faults \subseteq 0 .. 31
  /\ MAX_SLEEPS \in Nat /\ MAX_TICKS \in Nat /\ MAX_KEYS \in Nat /\ MAX_DEPTH \in Nat

VARIABLES
  idt,      \* vector -> routine, for the gates that are present
  iflag,    \* RFLAGS.IF
  pic,      \* on: initialised; irr: requested, isr: in service, sets of lines
  kbd,      \* full: a scan code is in port 0x60; queue: how many wait behind it
  ticks,
  stack     \* the running code is last

interruptsVars == <<idt, iflag, pic, kbd, ticks, stack>>

IRQ_TIMER == 0
IRQ_KEYBOARD == 1
MASTER_IRQ_OFFSET == 32

\* left: sleeps still to come; target: of the sleep in progress; saved: the flag iretq
\* restores; frame: what lies on the stack when the C++ code is called, as pushed.
Context(code, pc, saved, frame) ==
  [code |-> code, pc |-> pc, left |-> 0, target |-> 0, saved |-> saved, frame |-> frame]

InterruptsInit ==
  /\ idt = <<>> /\ iflag = FALSE
  /\ pic = [on |-> FALSE, irr |-> {}, isr |-> {}]
  /\ kbd \in [full : BOOLEAN, queue : {0}]
  /\ ticks = 0
  /\ stack = << Context("kernel_main", "idt_init", FALSE, <<>>) >>

Top == stack[Len(stack)]
At(code, pc) == Top.code = code /\ Top.pc = pc
Goto(pc) == stack' = [stack EXCEPT ![Len(stack)].pc = pc]
-----------------------------------------------------------------------------
(* What is pushed.  Words are named by what they are for. *)

\* The processor adds an error code for some exceptions.
PushesErrorCode == {8, 10, 11, 12, 13, 14, 17, 21}

CpuPushes(v) ==
  <<"ss", "rsp", "rflags", "cs", "rip">>
    \o (IF v \in PushesErrorCode THEN <<"error_code">> ELSE <<>>)

\* Mutant: the stub for control protection exceptions pushes a zero of its own.
stub_zero_too_many(v) ==
  (IF v \in {8, 10, 11, 12, 13, 14, 17} THEN <<>> ELSE <<"error_code">>) \o <<v>>

\* isr_stub_v: a zero in place of the error code where there is none, and the vector.
isr_stub(v) ==
  (IF v \in {8, 10, 11, 12, 13, 14, 17, 21} THEN <<>> ELSE <<"error_code">>) \o <<v>>

isr_common ==
  <<"rax", "rbx", "rcx", "rdx", "rbp", "rsi", "rdi",
    "r8", "r9", "r10", "r11", "r12", "r13", "r14", "r15">>

\* timer_isr and keyboard_isr.
isr_pushes == <<"rax", "rcx", "rdx", "rsi", "rdi", "r8", "r9", "r10", "r11">>

\* The fields of struct Registers, from the lowest address up.
Registers ==
  <<"r15", "r14", "r13", "r12", "r11", "r10", "r9", "r8",
    "rdi", "rsi", "rbp", "rdx", "rcx", "rbx", "rax",
    "interrupt_number", "error_code", "rip", "cs", "rflags", "rsp", "ss">>

FaultFrame(v) == CpuPushes(v) \o isr_stub(v) \o isr_common
IrqFrame(v) == CpuPushes(v) \o isr_pushes
-----------------------------------------------------------------------------
(* kernel.cpp: the boot, with interrupts off *)

idt_init ==
  /\ At("kernel_main", "idt_init")
  /\ idt' = <<>> /\ Goto("populate")
  /\ UNCHANGED <<iflag, pic, kbd, ticks>>

populate_idt_entries ==
  /\ At("kernel_main", "populate")
  /\ idt' = [v \in 0 .. 33 |-> CASE v = 32 -> "timer" [] v = 33 -> "keyboard" [] OTHER -> "fault"]
  /\ Goto("pic_init")
  /\ UNCHANGED <<iflag, pic, kbd, ticks>>

\* What was requested before is forgotten; only timer and keyboard are unmasked.
pic_init ==
  /\ At("kernel_main", "pic_init")
  /\ pic' = [on |-> TRUE, irr |-> {}, isr |-> {}]
  /\ Goto("drain")
  /\ UNCHANGED <<idt, iflag, kbd, ticks>>

\* The request for a scan code that has been read may stay or be withdrawn.
AfterRead == {pic.irr, pic.irr \ {IRQ_KEYBOARD}}

StartWork(n) == stack' = [stack EXCEPT ![Len(stack)].pc = "work", ![Len(stack)].left = n]

\* Mutant: what is in port 0x60 is not looked at.
init_interrupts_no_drain ==
  /\ At("kernel_main", "drain")
  /\ \E n \in 0 .. MAX_SLEEPS : StartWork(n)
  /\ UNCHANGED <<idt, iflag, pic, kbd, ticks>>

\* A round of while (inb(0x64) & 1) inb(0x60), and after it the stages of the boot.
init_interrupts_drain ==
  /\ At("kernel_main", "drain")
  /\ \/ /\ kbd.full
        /\ kbd' = [kbd EXCEPT !.full = FALSE]
        /\ \E irr \in AfterRead : pic' = [pic EXCEPT !.irr = irr]
        /\ UNCHANGED stack
     \/ /\ ~kbd.full
        /\ \E n \in 0 .. MAX_SLEEPS : StartWork(n)
        /\ UNCHANGED <<kbd, pic>>
  /\ UNCHANGED <<idt, iflag, ticks>>

\* sti, and the halt for good.
kernel_main_sti ==
  /\ At("kernel_main", "work") /\ Top.left = 0
  /\ iflag' = TRUE /\ Goto("halt")
  /\ UNCHANGED <<idt, pic, kbd, ticks>>
-----------------------------------------------------------------------------
(* timer.cpp: sleeps, of the boot and of commands *)

\* sleep_ms(1), the sleep of the AHCI poll loops.
Asleep(c) ==
  [code |-> c.code, pc |-> "sleep", left |-> c.left - 1,
   target |-> ticks + (1 * PIT_TICK_HZ) \div 1000, saved |-> c.saved, frame |-> c.frame]

sleep_ms ==
  /\ Top.pc = "work" /\ Top.left > 0
  /\ stack' = [stack EXCEPT ![Len(stack)] = Asleep(Top)]
  /\ UNCHANGED <<idt, iflag, pic, kbd, ticks>>

\* Mutant: sleep first, look at the clock then.
halt_till_tick_at_least_once ==
  /\ Top.pc = "sleep"
  /\ iflag' = TRUE /\ Goto("hlt")
  /\ UNCHANGED <<idt, pic, kbd, ticks>>

\* The head of the loop.  sti takes effect after the hlt; nothing turns the flag off again.
halt_till_tick ==
  /\ Top.pc = "sleep"
  /\ iflag' = (iflag \/ ticks < Top.target)
  /\ Goto(IF ticks < Top.target THEN "hlt" ELSE "work")
  /\ UNCHANGED <<idt, pic, kbd, ticks>>
-----------------------------------------------------------------------------
(* The processor and the PIC *)

\* An interrupt comes through an interrupt gate and wakes a hlt.
Deliver(n) ==
  /\ iflag /\ n \in pic.irr
  /\ \A m \in pic.irr : n <= m
  /\ \A m \in pic.isr : n < m
  /\ MASTER_IRQ_OFFSET + n \in DOMAIN idt
  /\ pic' = [pic EXCEPT !.irr = @ \ {n}, !.isr = @ \cup {n}]
  /\ iflag' = FALSE
  /\ stack' = Append([stack EXCEPT ![Len(stack)].pc = IF @ = "hlt" THEN "sleep" ELSE @],
                     Context(idt[MASTER_IRQ_OFFSET + n], "entry", iflag,
                             IrqFrame(MASTER_IRQ_OFFSET + n)))
  /\ UNCHANGED <<idt, kbd, ticks>>

\* An exception, in any code that is not halted.
Exception(v) ==
  /\ v \in DOMAIN idt /\ Top.pc \notin {"halt", "hlt", "panic"} /\ Len(stack) < MAX_DEPTH
  /\ iflag' = FALSE
  /\ stack' = Append(stack, Context(idt[v], "entry", iflag, FaultFrame(v)))
  /\ UNCHANGED <<idt, pic, kbd, ticks>>

\* The end-of-interrupt command ends the most urgent interrupt in service.
OutEoi == pic' = [pic EXCEPT !.isr = {m \in pic.isr : \E n \in pic.isr : n < m}]

iretq ==
  /\ Top.code \in {"timer", "keyboard"} /\ Top.pc = "iret"
  /\ iflag' = Top.saved
  /\ stack' = SubSeq(stack, 1, Len(stack) - 1)
  /\ UNCHANGED <<idt, pic, kbd, ticks>>
-----------------------------------------------------------------------------
(* The handlers *)

timer_handler ==
  /\ At("timer", "entry")
  /\ ticks' = ticks + 1 /\ Goto("eoi")
  /\ UNCHANGED <<idt, iflag, pic, kbd>>

EIO_Finished_Interrupt ==
  /\ At("timer", "eoi")
  /\ OutEoi /\ Goto("iret")
  /\ UNCHANGED <<idt, iflag, kbd, ticks>>

\* inb(0x60); the keyboard may send the next scan code from here on.
keyboard_inb ==
  /\ At("keyboard", "entry")
  /\ kbd' = [kbd EXCEPT !.full = FALSE]
  /\ \E irr \in AfterRead : pic' = [pic EXCEPT !.irr = irr]
  /\ Goto("eoi")
  /\ UNCHANGED <<idt, iflag, ticks>>

\* Mutant: a released key is forgotten without an end of interrupt.
keyboard_handler_eoi_last ==
  /\ At("keyboard", "eoi")
  /\ \/ Goto("iret") /\ UNCHANGED pic
     \/ (\E n \in 0 .. MAX_SLEEPS : StartWork(n)) /\ OutEoi
  /\ UNCHANGED <<idt, iflag, kbd, ticks>>

\* Then the end of the interrupt, and either nothing more (shift, 0xE0, a released key)
\* or all that a key can start.
keyboard_handler ==
  /\ At("keyboard", "eoi")
  /\ OutEoi
  /\ Goto("iret") \/ \E n \in 0 .. MAX_SLEEPS : StartWork(n)
  /\ UNCHANGED <<idt, iflag, kbd, ticks>>

keyboard_handler_returns ==
  /\ At("keyboard", "work") /\ Top.left = 0
  /\ Goto("iret")
  /\ UNCHANGED <<idt, iflag, pic, kbd, ticks>>

\* Reports and halts with the flag as it is.
fault_handler_halts ==
  /\ At("fault", "entry")
  /\ Goto("panic")
  /\ UNCHANGED <<idt, iflag, pic, kbd, ticks>>
-----------------------------------------------------------------------------
(* The devices *)

\* A period of the timer; a request that is still waiting swallows it.
PitPeriod ==
  /\ pic.on /\ IRQ_TIMER \notin pic.irr /\ ticks < MAX_TICKS
  /\ pic' = [pic EXCEPT !.irr = @ \cup {IRQ_TIMER}]
  /\ UNCHANGED <<idt, iflag, kbd, ticks, stack>>

Press ==
  /\ kbd.queue < MAX_KEYS
  /\ kbd' = [kbd EXCEPT !.queue = @ + 1]
  /\ UNCHANGED <<idt, iflag, pic, ticks, stack>>

\* The next scan code is put into port 0x60 when that is empty, and only this requests
\* an interrupt.
Send ==
  /\ kbd.queue > 0 /\ ~kbd.full
  /\ kbd' = [full |-> TRUE, queue |-> kbd.queue - 1]
  /\ pic' = IF pic.on THEN [pic EXCEPT !.irr = @ \cup {IRQ_KEYBOARD}] ELSE pic
  /\ UNCHANGED <<idt, iflag, ticks, stack>>
-----------------------------------------------------------------------------
Kernel ==
  \/ idt_init \/ populate_idt_entries \/ pic_init \/ init_interrupts_drain \/ kernel_main_sti
  \/ sleep_ms \/ halt_till_tick
  \/ timer_handler \/ EIO_Finished_Interrupt
  \/ keyboard_inb \/ keyboard_handler \/ keyboard_handler_returns
  \/ fault_handler_halts \/ iretq

Interrupt == \E n \in {IRQ_TIMER, IRQ_KEYBOARD} : Deliver(n)

InterruptsNext ==
  \/ Kernel \/ Interrupt
  \/ \E v \in Faults : Exception(v)
  \/ PitPeriod \/ Press \/ Send

InterruptsSpec == InterruptsInit /\ [][InterruptsNext]_interruptsVars

\* The processor goes on with the code it runs and takes interrupts when it may.
FairSpec == InterruptsSpec /\ WF_interruptsVars(Kernel) /\ WF_interruptsVars(Interrupt)
-----------------------------------------------------------------------------
\* Type invariant.
InterruptsTypeOK ==
  /\ iflag \in BOOLEAN
  /\ pic \in [on : BOOLEAN, irr : SUBSET {IRQ_TIMER, IRQ_KEYBOARD},
              isr : SUBSET {IRQ_TIMER, IRQ_KEYBOARD}]
  /\ kbd \in [full : BOOLEAN, queue : 0 .. MAX_KEYS]
  /\ ticks \in Nat
  /\ Len(stack) >= 1

Panicked == \E i \in DOMAIN stack : stack[i].code = "fault"

\* A handler only ever interrupts the halted kernel_main: not the boot, not another
\* handler and not a panic.  This is what lets each handler count as one step of the
\* terminal, the screen, the disks and the heap.
HandlersAlone ==
  \A i \in DOMAIN stack :
    stack[i].code \in {"timer", "keyboard"} => i = 2 /\ stack[1].pc = "halt"

\* A scan code in port 0x60 is never forgotten: its interrupt is still to come, or the
\* handler is about to read it, or the boot to throw it away.  (No further one would be
\* requested and the keyboard would be dead.)
KeyNotStuck ==
  kbd.full =>
    \/ IRQ_KEYBOARD \in pic.irr
    \/ \E i \in DOMAIN stack : stack[i].code = "keyboard" /\ stack[i].pc = "entry"
    \/ stack[1].pc \in {"idt_init", "populate", "pic_init", "drain"}
    \/ Panicked

\* What the C++ code finds on the stack is what was pushed for it: struct Registers after
\* a fault, every register it may change before a handler; and the stack is aligned.
FrameMatches ==
  \A i \in 2 .. Len(stack) :
    LET frame == stack[i].frame
    IN  /\ Len(frame) % 2 = 0
        /\ stack[i].code = "fault" =>
             /\ Len(frame) = Len(Registers)
             /\ \A k \in DOMAIN frame :
                  LET field == Registers[Len(frame) + 1 - k]
                  IN  IF field = "interrupt_number" THEN frame[k] \in Faults
                      ELSE frame[k] = field
        /\ stack[i].code # "fault" =>
             {"rax", "rcx", "rdx", "rsi", "rdi", "r8", "r9", "r10", "r11"}
               \subseteq {frame[k] : k \in DOMAIN frame}

\* Every scan code is taken out of port 0x60, unless the kernel has panicked.
KeysAreHandled == kbd.full ~> (~kbd.full \/ Panicked)
=============================================================================
