----------------------------- MODULE Interrupts -----------------------------
(***************************************************************************)
(* The kernel's way from the firmware to its idle loop as interrupts see   *)
(* it: k_init (Kernel/src/kernel.c) fills the IDT, programs the two        *)
(* interrupt controllers, lets interrupts in, sets the memory managers up  *)
(* and sleeps; pit_handler (Include/pit.c) counts the ticks ksleep waits   *)
(* for.  Devices raise their lines whenever they like.                     *)
(*                                                                         *)
(* One action is what runs without an interrupt in between, or could as    *)
(* well: interrupts are off up to enable_sti and in handlers (all gates    *)
(* are interrupt gates, type 0x8E).  The work between enable_sti and       *)
(* ksleep is steps that touch nothing here; the PIT runs, at the rate of   *)
(* the firmware or of init_pit.                                            *)
(***************************************************************************)
EXTENDS PIC8259

CONSTANTS Ticks,       \* 2^32: system_ticks is a uint32
          MS,          \* what k_init passes to ksleep
          Masks,       \* masks the firmware may leave in the controllers
          Devices1,    \* lines of PIC1 a device raises, the timer's aside
          Devices2     \* lines of PIC2 a device raises

ASSUME InterruptAssumption ==
    /\ Ticks \in Nat \ {0} /\ MS \in 0 .. (Ticks - 1)
    /\ Masks \subseteq 0 .. 255
    /\ Devices1 \subseteq Lines \ {0, 2} /\ Devices2 \subseteq Lines

VARIABLES pc,           \* where k_init is
          idt,          \* the IDT is filled and loaded
          PIC1, PIC2,   \* the controllers
          enabled,      \* the processor's interrupt flag
          handler,      \* the handler that runs, "none" for k_init
          system_ticks,
          target,       \* ksleep's
          slept,        \* ticks since ksleep was called, and its first value
          started,      \*   of system_ticks: for the properties only
          ran           \* k_init has run since the timer raised its line

machine == <<idt, PIC1, PIC2, enabled, handler>>
sleep == <<target, slept, started>>
vars == <<pc, machine, system_ticks, sleep, ran>>

TIMER == 0
CASCADE == 2

\* The count of a sleep stops here, beyond what SleepLength allows.
MaxSlept == MS + 2

Init == /\ pc = "idt_init"
        /\ idt = FALSE
        /\ \E m1, m2 \in Masks : PIC1 = Chip(8, m1) /\ PIC2 = Chip(112, m2)
        /\ enabled = FALSE /\ handler = "none"
        /\ system_ticks = 0 /\ target = 0 /\ slept = 0 /\ started = 0
        /\ ran = TRUE

-----------------------------------------------------------------------------
\* PIC1 with PIC2 on its line 2.
Cascade == IF Raised(PIC2) = {} THEN PIC1 ELSE Request(PIC1, CASCADE)

BySlave == Min(Raised(Cascade)) = CASCADE

Pending == enabled /\ Raised(Cascade) # {}

\* k_init goes on; an interrupt is taken before the next instruction.
Step(from, to) == /\ pc = from /\ handler = "none" /\ ~Pending
                  /\ pc' = to /\ ran' = TRUE

\* The handler idt_init sets for a vector.
Gate(v) == CASE v = 0  -> "divide_by_zero"
             [] v = 32 -> "pit_handler"
             [] v = 14 -> "page_fault_handler"
             [] OTHER  -> "dummy_isr"

idt_init == /\ Step("idt_init", "remap_pic") /\ idt' = TRUE
            /\ UNCHANGED <<PIC1, PIC2, enabled, handler, system_ticks, sleep>>

\* Mutant: the masks of the firmware come back.
Remap1Restored(c) == Data(Initialise(c, 17, 32, 4, 1), c.imr)

\* The writes to PIC1: ICW1 to ICW4, the mask as it was, all but the timer.
Remap1(c) == Data(Data(Initialise(c, 17, 32, 4, 1), c.imr), 254)

\* To PIC2; its old mask goes to the command port.
Remap2(c) == Data(Command(Initialise(c, 17, 40, 2, 1), c.imr), 255)

remap_pic == /\ Step("remap_pic", "enable_sti")
             /\ PIC1' = Remap1(PIC1)
             /\ PIC2' = Remap2(PIC2)
             /\ UNCHANGED <<idt, enabled, handler, system_ticks, sleep>>

enable_sti == /\ Step("enable_sti", "memory") /\ enabled' = TRUE
              /\ UNCHANGED <<idt, PIC1, PIC2, handler, system_ticks, sleep>>

\* pmm_init, pmm_test, vmm_init, vmm_enable and their prints.
Memory == /\ Step("memory", "memory")
          /\ UNCHANGED <<machine, system_ticks, sleep>>

\* Mutant: a sleep that is one tick short.
TargetShort == (system_ticks + MS - 1) % Ticks

Target == (system_ticks + MS) % Ticks

\* ksleep(MS)
Ksleep == /\ Step("memory", "test")
          /\ target' = Target /\ slept' = 0 /\ started' = system_ticks
          /\ UNCHANGED <<machine, system_ticks>>

Awake == target <= system_ticks /\ Step("test", "awake")
         /\ UNCHANGED <<machine, system_ticks, sleep>>

\* The loop goes on to its hlt: a tick may come before that is executed.
Again == target > system_ticks /\ Step("test", "hlt")
         /\ UNCHANGED <<machine, system_ticks, sleep>>

Hlt == Step("hlt", "halted") /\ UNCHANGED <<machine, system_ticks, sleep>>

\* The loop k_init ends in.
Idle == Step("awake", "awake") /\ UNCHANGED <<machine, system_ticks, sleep>>

-----------------------------------------------------------------------------
(***************************************************************************)
(* The hardware.  A tick is longer than a few instructions of k_init: the  *)
(* timer raises its line again once k_init has run.                        *)
(***************************************************************************)
Timer == /\ ran /\ ran' = FALSE
         /\ TIMER \notin PIC1.irr
         /\ PIC1' = Request(PIC1, TIMER)
         /\ UNCHANGED <<pc, idt, PIC2, enabled, handler, system_ticks, sleep>>

Device1 == /\ \E l \in Devices1 \ PIC1.irr : PIC1' = Request(PIC1, l)
           /\ UNCHANGED <<pc, idt, PIC2, enabled, handler, system_ticks,
                          sleep, ran>>

Device2 == /\ \E l \in Devices2 \ PIC2.irr : PIC2' = Request(PIC2, l)
           /\ UNCHANGED <<pc, idt, PIC1, enabled, handler, system_ticks,
                          sleep, ran>>

\* The processor takes an interrupt and enters the vector's handler.
Interrupt ==
    /\ Pending
    /\ LET line   == Min(Raised(Cascade))
           vector == IF BySlave THEN PIC2.base + Min(Raised(PIC2))
                                ELSE PIC1.base + line
       IN  handler' = IF idt THEN Gate(vector) ELSE "reset"
    /\ PIC1' = Acknowledge(Cascade)
    /\ PIC2' = IF BySlave THEN Acknowledge(PIC2) ELSE PIC2
    /\ enabled' = FALSE
    /\ UNCHANGED <<pc, idt, system_ticks, sleep, ran>>

\* Mutant: no end of interrupt.
EoiNever(c) == c

Eoi(c) == Command(c, 32)

Tick == (system_ticks + 1) % Ticks

\* Count, end the interrupt, iret; a hlt that was left is over.
pit_handler ==
    /\ handler = "pit_handler" /\ handler' = "none"
    /\ system_ticks' = Tick
    /\ PIC1' = Eoi(PIC1)
    /\ enabled' = TRUE
    /\ slept' = IF pc \in {"test", "hlt", "halted"} /\ slept < MaxSlept
                THEN slept + 1 ELSE slept
    /\ pc' = IF pc = "halted" THEN "test" ELSE pc
    /\ UNCHANGED <<idt, PIC2, target, started, ran>>

-----------------------------------------------------------------------------
Run == idt_init \/ remap_pic \/ enable_sti \/ Ksleep \/ Awake \/ Again
            \/ Hlt

Next == Run \/ Memory \/ Idle \/ Timer \/ Device1 \/ Device2 \/ Interrupt
        \/ pit_handler

\* The processor executes, answers interrupts, and the timer oscillates.
Fairness == /\ WF_vars(Run) /\ WF_vars(Interrupt) /\ WF_vars(pit_handler)
            /\ WF_vars(Timer)

Spec == Init /\ [][Next]_vars

FairSpec == Spec /\ Fairness

-----------------------------------------------------------------------------
(***************************************************************************)
(* Whatever the firmware left in the controllers and whichever device asks *)
(* for attention, the only handler an interrupt ever enters is the         *)
(* timer's: dummy_isr, which stops the kernel (idt.c:41), is never reached *)
(* and no vector is empty.  The timer's line is in service only while its  *)
(* handler runs, so that no tick is blocked by an earlier one.             *)
(***************************************************************************)
OnlyTimer ==
    /\ handler \in {"none", "pit_handler"}
    /\ enabled => PIC1.isr = {}
    /\ PIC2.isr = {}

(***************************************************************************)
(* ksleep(ms) lasts at least ms ticks, and at most one more (for a tick    *)
(* that slips between the test of the loop and its hlt), if the target     *)
(* does not come too close to the end of the counter.                      *)
(***************************************************************************)
NoWrap == started + MS < Ticks - 1

SleepLength == pc = "awake" /\ NoWrap => slept \in MS .. (MS + 1)

(***************************************************************************)
(* k_init wakes up from its sleep, although a tick may slip in before the  *)
(* hlt, unless the target comes too close to the end of the counter.       *)
(***************************************************************************)
Wakes == pc = "test" /\ NoWrap ~> pc = "awake"
=============================================================================
