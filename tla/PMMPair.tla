------------------------------ MODULE PMMPair -------------------------------
(***************************************************************************)
(* The two frame allocators side by side: module PMM for the second        *)
(* kernel's (Kernel/src/Include/PMM.c), LegacyPMM for the first's          *)
(* (old/Include/PMM.c), which it replaced.  Both are given the same        *)
(* memory and the same calls; only the first kernel's is also called with  *)
(* addresses behind the last frame, which it tests for and the other does  *)
(* not.                                                                    *)
(***************************************************************************)
EXTENDS PMM

CONSTANT BITS  \* bits of a bitmap word of the first kernel, 32

VARIABLES pmm_bitmap, pmm_used_pages,
          old_ret  \* what the last PMM_ALLOC_PAGE returned

Old == INSTANCE LegacyPMM WITH ret <- old_ret

ASSUME PairAssumption == Old!LegacyPMMAssumption

pairVars == <<vars, Old!vars>>

PairInit == Init /\ Old!Init

Alloc == alloc_page /\ Old!PMM_ALLOC_PAGE

Free == \E a \in Addresses : pmm_free_page(a) /\ Old!PMM_FREE_PAGE(a)

FreeBeyond == /\ \E a \in Old!Addresses \ Addresses : Old!PMM_FREE_PAGE(a)
              /\ UNCHANGED vars

PairNext == Alloc \/ Free \/ FreeBeyond

PairSpec == PairInit /\ [][PairNext]_pairVars

-----------------------------------------------------------------------------
(***************************************************************************)
(* Whatever is asked of them, the two give the same answers and hold the   *)
(* same frames: a byte a frame and a hint that moves, or a bit a frame and *)
(* a search that always starts below, make no difference to a caller.      *)
(***************************************************************************)
SameAnswers ==
    /\ ret = old_ret
    /\ Old!Held = InUse \ (0 .. (FirstPage - 1))

(***************************************************************************)
(* PMM_GET_FREE_PAGES, which PMM_INIT and PMM_PRINT_STATUS report, is the  *)
(* number of frames PMM_ALLOC_PAGE can still hand out: the guard on the    *)
(* decrement in PMM_FREE_PAGE never swallows a release, and an address     *)
(* behind the memory frees nothing.                                        *)
(***************************************************************************)
FreePages == Old!FreePages
=============================================================================
