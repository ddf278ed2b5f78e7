---------------------------- MODULE PS2Controller ---------------------------
(***************************************************************************)
(* The 8042 keyboard controller and the keyboard behind it, as far as      *)
(* old/Include/PS2KB.c drives them: an output buffer of one byte, the      *)
(* configuration byte, and the keyboard's answer, which comes when it      *)
(* comes.  Hardware; a byte is a name.                                     *)
(***************************************************************************)
EXTENDS Integers

\* What a keyboard sends, the answers aside: "key" is every code that is
\* nothing to the handler but a character or a release.
Codes == {"e0", "page up", "page down", "home", "end", "ctrl", "ctrl off",
          "key"}

EMPTY == "empty"

\* Of the configuration: interrupt enable, port disabled.
Configs == [irq : BOOLEAN, off : BOOLEAN]

Controller(config, out, scanning) ==
    [config |-> config,
     out    |-> out,         \* the output buffer
     asked  |-> FALSE,       \* the configuration byte waits behind it
     owes   |-> FALSE,       \* the keyboard owes the answer to 0xF4
     scanning |-> scanning]  \* the keyboard sends codes

Full(c) == c.out # EMPTY

\* A read of the buffer; the configuration byte follows if it had to wait.
Taken(c) == [c EXCEPT !.out = IF c.asked THEN "config" ELSE EMPTY,
                      !.asked = FALSE]

\* IRQ 1.
Line(c) == Full(c) /\ c.config.irq

\* The commands 0xAD, 0x20, 0x60 with its byte, 0xAE; and 0xF4 to the
\* keyboard.
Disable(c) == [c EXCEPT !.config.off = TRUE]
AskConfig(c) == IF Full(c) THEN [c EXCEPT !.asked = TRUE]
                           ELSE [c EXCEPT !.out = "config"]
WriteConfig(c, byte) == [c EXCEPT !.config = byte]
Enable(c) == [c EXCEPT !.config.off = FALSE]
EnableScanning(c) == [c EXCEPT !.owes = TRUE]

\* What comes into the buffer when it is empty.
Arrivals(c) ==
    IF Full(c) THEN {}
    ELSE {[c EXCEPT !.out = b] :
              b \in IF c.scanning /\ ~c.config.off THEN Codes ELSE {}}

Answers(c) ==
    IF c.owes /\ ~Full(c) /\ ~c.config.off
    THEN {[c EXCEPT !.owes = FALSE, !.scanning = TRUE, !.out = "ack"]}
    ELSE {}
=============================================================================
