----------------------------- MODULE MCPageFault ----------------------------
(***************************************************************************)
(* Five pages a window and five windows, the last two the kernel's, laid   *)
(* out as config.h does: the bitmap from KERNEL_END on, the directory      *)
(* above it.  k_init maps no page but vmm_init's.                          *)
(***************************************************************************)
EXTENDS PageFault
=============================================================================
