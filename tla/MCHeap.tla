------------------------------- MODULE MCHeap -------------------------------
(***************************************************************************)
(* The kernel heap on pages of 20 bytes with headers of 4: a page holds    *)
(* one block or two, the sizes asked for leave a tail or not, or span      *)
(* pages, and the header added to the last one comes to WORD: no page is   *)
(* needed for it.  Everything finite is given its value by the cfg files.  *)
(***************************************************************************)
EXTENDS Heap
=============================================================================
