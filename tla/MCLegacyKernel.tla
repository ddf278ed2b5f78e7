--------------------------- MODULE MCLegacyKernel ---------------------------
(* A screen of two columns and two lines with three lines of history, the  *)
(* firmware's masks all and none, and a timer that asks.                   *)
EXTENDS LegacyKernel
=============================================================================
