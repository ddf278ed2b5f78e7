------------------------------- MODULE MCPMM -------------------------------
(* Two kernel frames and six others, two bytes a frame: enough to fill the *)
(* memory, wrap the hint, release on both sides of it and release twice.   *)
(* With three bits to a word the kernel's frames share one with a free     *)
(* frame and the last word is partly used.                                 *)
EXTENDS PMMPair
=============================================================================
