----------------------------- MODULE LegacyKernel ---------------------------
(***************************************************************************)
(* The first kernel from kernel_main (old/KERNEL.c) on: it fills the IDT,  *)
(* programs the interrupt controllers, sets the keyboard up by polling,    *)
(* lets interrupts in and prints, while the keyboard's handler scrolls.    *)
(* LegacyConsole is the console both use, Keyboard the rest of what the    *)
(* handler does with a code.                                               *)
(*                                                                         *)
(* The keyboard sends whenever it may, answers late or, for a time, not at *)
(* all.  With interrupts off a step is one exchange with a controller; the *)
(* memory managers' start and the prints before sti meet nobody.           *)
(***************************************************************************)
EXTENDS LegacyConsole, PIC8259, PS2Controller

CONSTANTS Masks,     \* masks the firmware may leave in the controllers
          Devices1,  \* lines of PIC1 other devices raise
          TIMEOUT,   \* 100000: how often the answer to 0xF4 is looked for
          Early      \* codes the keyboard sends before sti, at most

ASSUME LegacyKernelAssumption ==
    /\ Masks \subseteq 0 .. 255 /\ Devices1 \subseteq Lines \ {1, 2}
    /\ TIMEOUT \in Nat \ {0} /\ Early \in Nat

VARIABLES pc,           \* where kernel_main is
          gates,        \* vectors with a handler: "none", "safe", "ps2"
          PIC1, PIC2, enabled,
          kbc,          \* the 8042
          config,       \* PS2_KB_INIT's
          timeout,
          e0_prefix, ctrlPressed,
          entered,      \* the handler an interrupt entered last
          early         \* codes sent before sti

cpu == <<PIC2, enabled, gates, entered>>
driver == <<config, timeout>>
keys == <<e0_prefix, ctrlPressed>>
vars == <<pc, PIC1, kbc, cpu, driver, keys, early, consoleVars>>

KEYBOARD == 1

\* Before and after PS2_KB_INIT its locals are nothing.
NoConfig == [irq |-> FALSE, off |-> FALSE]

Init == /\ pc = "IDT_INIT" /\ gates = "none"
        /\ \E m \in Masks : PIC1 = Chip(8, m) /\ PIC2 = Chip(112, m)
        /\ enabled = FALSE
        /\ \E irq, scanning \in BOOLEAN, out \in {EMPTY, "key"} :
              kbc = Controller([irq |-> irq, off |-> FALSE],
                               out, scanning)
        /\ config = NoConfig /\ timeout = TIMEOUT
        /\ e0_prefix = FALSE /\ ctrlPressed = FALSE
        /\ entered = "none" /\ early = 0
        /\ InitConsole

-----------------------------------------------------------------------------
(***************************************************************************)
(* The keyboard's line to PIC1 is edge-triggered: a request is made when   *)
(* the line rises, and may or may not last when the line falls again       *)
(* before it is answered.                                                  *)
(***************************************************************************)
Edge(old, new, pic) ==
    CASE ~Line(old) /\ Line(new) -> {Request(pic, KEYBOARD)}
      [] Line(old) /\ ~Line(new) -> {pic, [pic EXCEPT !.irr = @ \ {KEYBOARD}]}
      [] OTHER                   -> {pic}

Drive(new) == kbc' = new /\ PIC1' \in Edge(kbc, new, PIC1)

Pending == enabled /\ Raised(PIC1) # {}

\* An interrupt is taken before the next instruction of kernel_main.
Step(from, to) == pc = from /\ pc' = to /\ ~Pending

\* A step that is one exchange with the 8042.
Exchange(from, to, new) ==
    /\ Step(from, to) /\ Drive(new)
    /\ UNCHANGED <<cpu, driver, keys, early, consoleVars>>

-----------------------------------------------------------------------------
IDT_INIT ==
    /\ Step("IDT_INIT", "pic_init") /\ gates' = "ps2"
    /\ UNCHANGED <<PIC1, PIC2, enabled, entered, kbc, driver, keys, early,
                   consoleVars>>

\* Mutant: the timer is let in as well.
PicTimer(c) == Data(Initialise(Data(c, 255), 17, 32, 4, 1), 252)

\* The writes to PIC1: nothing, ICW1 to ICW4, all but the keyboard; to PIC2.
Pic1Writes(c) == Data(Initialise(Data(c, 255), 17, 32, 4, 1), 253)

Pic2Writes(c) == Data(Initialise(Data(c, 255), 17, 40, 2, 1), 255)

\* ICW1 forgets the requests there were; the other devices ask again at
\* once and, being masked, for ever.
pic_init ==
    /\ Step("pic_init", "flush")
    /\ PIC1' = [Pic1Writes(PIC1) EXCEPT !.irr = Devices1]
    /\ PIC2' = Pic2Writes(PIC2)
    /\ UNCHANGED <<enabled, gates, entered, kbc, driver, keys, early,
                   consoleVars>>

(***************************************************************************)
(* PS2_KB_INIT.  Flushing is a loop: read while there is something.        *)
(***************************************************************************)
Flush(here, to) == Exchange(here, IF Full(kbc) THEN here ELSE to, Taken(kbc))

\* The byte of line 97 is what the buffer holds first, which may be a code
\* that came between the flush and 0xAD: any bits.
ReadConfig ==
    /\ Step("wait config", "write config") /\ Full(kbc)
    /\ Drive(Taken(kbc))
    /\ config' \in IF kbc.out = "config" THEN {kbc.config} ELSE Configs
    /\ UNCHANGED <<cpu, timeout, keys, early, consoleVars>>

\* Mutant: IRQ 1 stays as the firmware had it.
IrqAsRead(byte) == byte

IrqOn(byte) == [byte EXCEPT !.irq = TRUE]

\* The loop that waits for the answer, and what is made of its end: the
\* byte is read unless the count has just run out.
WaitAck ==
    /\ Step("wait ack", "wait ack") /\ ~Full(kbc) /\ timeout > 0
    /\ timeout' = timeout - 1
    /\ UNCHANGED <<PIC1, kbc, cpu, config, keys, early, consoleVars>>

GotAck ==
    /\ Full(kbc) \/ timeout = 0
    /\ Step("wait ack", "gate")
    /\ Drive(IF Full(kbc) /\ timeout > 0 THEN Taken(kbc) ELSE kbc)
    /\ config' = NoConfig /\ timeout' = TIMEOUT
    /\ UNCHANGED <<cpu, keys, early, consoleVars>>

PS2_KB_INIT ==
    \/ Flush("flush", "disable")
    \/ Exchange("disable", "ask config", Disable(kbc))
    \/ Exchange("ask config", "wait config", AskConfig(kbc))
    \/ ReadConfig
    \/ Exchange("write config", "enable", WriteConfig(kbc, IrqOn(config)))
    \/ Exchange("enable", "flush again", Enable(kbc))
    \/ Flush("flush again", "scan")
    \/ Exchange("scan", "wait ack", EnableScanning(kbc))
    \/ WaitAck
    \/ GotAck

\* PS2_KB_INSTALL after PS2_KB_INIT: the gate again, pic_enable_irq(1).
Unmasked(mask, irq) == IF Bit(mask, irq) THEN mask - Weight[irq + 1] ELSE mask

PS2_KB_INSTALL ==
    /\ Step("gate", "sti") /\ gates' = "ps2"
    /\ PIC1' = Data(PIC1, Unmasked(PIC1.imr, KEYBOARD))
    /\ UNCHANGED <<PIC2, enabled, entered, kbc, driver, keys, early,
                   consoleVars>>

sti ==
    /\ Step("sti", "print") /\ enabled' = TRUE /\ early' = 0
    /\ UNCHANGED <<PIC1, PIC2, gates, entered, kbc, driver, keys,
                   consoleVars>>

\* vga_print, or PS2_KB_READ_LN's echo; or the empty loop of kernel_main.
Prints ==
    /\ Step("print", "print")
    /\ (\E c \in Chars : vga_char(c)) \/ Printing
    /\ UNCHANGED <<PIC1, kbc, cpu, driver, keys, early>>

-----------------------------------------------------------------------------
(***************************************************************************)
(* PS2_KB_HANDLER: what a byte does to the prefix, to Ctrl and to the      *)
(* console.  An answer that comes late is a release of no key.             *)
(***************************************************************************)
ScrollKey(b) ==
    CASE b = "page up"               -> vga_scroll_up
      [] b = "page down"             -> vga_scroll_down
      [] b = "home" /\ ctrlPressed -> vga_set_scroll_offset(vga_get_scroll_max)
      [] b = "end" /\ ctrlPressed    -> vga_set_scroll_offset(0)
      [] OTHER                       -> UNCHANGED consoleVars

Handle(b) ==
    \/ /\ b = "e0" /\ e0_prefix' = TRUE
       /\ UNCHANGED <<ctrlPressed, consoleVars>>
    \/ /\ b # "e0" /\ e0_prefix /\ e0_prefix' = FALSE
       /\ ScrollKey(b)
       /\ UNCHANGED ctrlPressed
    \/ /\ b # "e0" /\ ~e0_prefix
       /\ ctrlPressed' = (b = "ctrl" \/ (ctrlPressed /\ b # "ctrl off"))
       /\ UNCHANGED <<e0_prefix, consoleVars>>

\* The processor takes an interrupt, its handler runs and ends it.  With the
\* buffer empty (a request that outlived the byte) port 0x60 reads as
\* whatever was there last.
Interrupt ==
    /\ Pending
    /\ LET served == Acknowledge(PIC1)
           vector == PIC1.base + Min(Raised(PIC1))
       IN  /\ PIC1' = Command(served, 32)
           /\ entered' = IF vector = 33 THEN gates ELSE "safe"
    /\ IF entered' = "ps2"
       THEN /\ kbc' = Taken(kbc)
            /\ \E b \in IF Full(kbc) THEN {kbc.out} ELSE Codes : Handle(b)
       ELSE UNCHANGED <<kbc, keys, consoleVars>>
    /\ UNCHANGED <<pc, PIC2, enabled, gates, driver, early>>

-----------------------------------------------------------------------------
\* The keyboard sends a code; controller and keyboard answer.
Code == /\ \E new \in Arrivals(kbc) : Drive(new)
        /\ IF enabled THEN UNCHANGED early
           ELSE early < Early /\ early' = early + 1
        /\ UNCHANGED <<pc, cpu, driver, keys, consoleVars>>

Answer == /\ \E new \in Answers(kbc) : Drive(new)
          /\ UNCHANGED <<pc, cpu, driver, keys, early, consoleVars>>

Start == IDT_INIT \/ pic_init \/ PS2_KB_INIT \/ PS2_KB_INSTALL \/ sti

Next == Start \/ Prints \/ Interrupt \/ Code \/ Answer

Spec == Init /\ [][Next]_vars

\* The processor runs and takes interrupts; what is asked is answered.
FairSpec == Spec /\ WF_vars(Start) /\ WF_vars(Interrupt) /\ WF_vars(Answer)

-----------------------------------------------------------------------------
(***************************************************************************)
(* Whatever the firmware left behind and whatever byte PS2_KB_INIT took    *)
(* for the configuration, once interrupts are let in the keyboard's is the *)
(* only one, it has its handler, and the port and its interrupt are on; a  *)
(* byte in the buffer always has its request: no edge was missed.          *)
(***************************************************************************)
OnlyKeyboard ==
    /\ entered \in {"none", "ps2"}
    /\ enabled => /\ PIC1.isr = {} /\ PIC2.isr = {}
                  /\ kbc.config.irq /\ ~kbc.config.off
                  /\ Full(kbc) => KEYBOARD \in Raised(PIC1)

(***************************************************************************)
(* kernel_main gets to its prints, although a key can keep it in a loop    *)
(* and the answer to 0xF4 may not come in time; and every byte that comes  *)
(* is read, the late answer too, so that the keyboard never falls silent.  *)
(***************************************************************************)
KeysHeard == pc # "print" \/ Full(kbc) ~> pc = "print" /\ ~Full(kbc)
=============================================================================
