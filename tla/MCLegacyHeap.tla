---------------------------- MODULE MCLegacyHeap ----------------------------
(* A heap for up to four blocks of the smallest size, with the code's      *)
(* header, rounding and split threshold.                                   *)
EXTENDS LegacyHeap
=============================================================================
