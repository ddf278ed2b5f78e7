--------------------------- MODULE MCKernelMemory ---------------------------
(***************************************************************************)
(* Five pages a window and five windows, the last the first one's alias,   *)
(* and a bitmap of two frames.  Its first one is the last that pmm_test    *)
(* keeps, the second is handed out, as with the addresses of config.h.     *)
(* UserPages are where the kernel maps: in its own memory (page 5 or 6, as *)
(* 0xA00000), in the shared window (1) and in its alias, beyond the memory *)
(* (21, as 0xC0100000).                                                    *)
(***************************************************************************)
EXTENDS KernelMemory
=============================================================================
