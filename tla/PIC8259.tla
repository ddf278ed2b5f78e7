------------------------------ MODULE PIC8259 -------------------------------
(***************************************************************************)
(* The 8259A interrupt controller, as far as the kernel drives it: what a  *)
(* write to its command and data ports does, which request it passes on,   *)
(* and its part in an interrupt acknowledge.  The controller is hardware;  *)
(* a write is the number the kernel's outb sends.                          *)
(*                                                                         *)
(* Left out: rotating priorities, polling, level triggering, and the       *)
(* spurious IRQ 7 of a line that drops while it is acknowledged.           *)
(***************************************************************************)
EXTENDS Integers, Sequences, FiniteSetsExt

Lines == 0 .. 7

Weight == <<1, 2, 4, 8, 16, 32, 64, 128>>

Bit(v, i) == (v \div Weight[i + 1]) % 2 = 1

\* A controller as the firmware leaves it.
Chip(base, imr) == [base |-> base,    \* vector of line 0
                    imr  |-> imr,     \* mask register
                    irr  |-> {},      \* lines that request
                    isr  |-> {},      \* lines in service
                    icw  |-> 0,       \* initialisation word it waits for, or 0
                    icw1 |-> 17]      \* the last ICW1

Command(c, v) ==
    CASE Bit(v, 4) -> [c EXCEPT !.icw1 = v, !.icw = 2, !.imr = 0,
                                !.irr = {}, !.isr = {}]
      [] ~Bit(v, 4) /\ ~Bit(v, 3) /\ Bit(v, 5) /\ c.isr # {} ->
             [c EXCEPT !.isr = @ \ {Min(@)}]                      \* EOI
      [] OTHER -> c

\* ICW3 is skipped by a single controller, ICW4 unless ICW1 asks for it.
AfterIcw3(c) == IF Bit(c.icw1, 0) THEN 4 ELSE 0

Data(c, v) ==
    CASE c.icw = 0 -> [c EXCEPT !.imr = v]
      [] c.icw = 2 -> [c EXCEPT !.base = v - (v % 8),
                                !.icw = IF Bit(c.icw1, 1) THEN AfterIcw3(c) ELSE 3]
      [] c.icw = 3 -> [c EXCEPT !.icw = AfterIcw3(c)]
      [] c.icw = 4 -> [c EXCEPT !.icw = 0]

\* The initialisation words one after the other, the first to the command
\* port.
Initialise(c, icw1, icw2, icw3, icw4) ==
    Data(Data(Data(Command(c, icw1), icw2), icw3), icw4)

Request(c, l) == [c EXCEPT !.irr = @ \cup {l}]

\* Lines it would interrupt for: not masked, above all that are in service.
Raised(c) == {l \in c.irr : ~Bit(c.imr, l) /\ \A s \in c.isr : l < s}

Acknowledge(c) == LET l == Min(Raised(c))
                  IN  [c EXCEPT !.irr = @ \ {l}, !.isr = @ \cup {l}]
=============================================================================
