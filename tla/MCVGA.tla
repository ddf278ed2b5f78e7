------------------------------- MODULE MCVGA --------------------------------
(***************************************************************************)
(* Two columns, two rows, four lines of history: the history outgrows the  *)
(* screen by two lines, and goes round.                                    *)
(***************************************************************************)
EXTENDS VGA
=============================================================================
