---------------------------- MODULE MCInterrupts ----------------------------
(***************************************************************************)
(* A counter of three bits; masks with and without the bits that make a    *)
(* command of PIC2's old mask: 159 is an ICW1, 142 and 184 are the usual   *)
(* ones, 32 an end of interrupt.                                           *)
(***************************************************************************)
EXTENDS Interrupts
=============================================================================
