----------------------------- MODULE LegacyPMM -----------------------------
(***************************************************************************)
(* The frame allocator of the first kernel, old/Include/PMM.c: one bit per *)
(* frame, BITS bits to a word, and a count of the frames in use from which *)
(* PMM_GET_FREE_PAGES is computed.  Every search starts at FirstPage.  A   *)
(* word is the set of its bits that are 1.                                 *)
(*                                                                         *)
(* kernel_main runs with its calls in sequence and no interrupt handler    *)
(* of old/ allocates, so a call is one action.                             *)
(***************************************************************************)
EXTENDS Integers, FiniteSets

CONSTANTS FirstPage,   \* 4096: the first 16 MB are the kernel's
          TotalPages,  \* pmm_total_pages as PMM_INIT computes it
          PageSize,    \* PAGE_SIZE
          BITS         \* 32

\* What is assumed of them: PMMPair, which instantiates this module, and the
\* theorems about it say so.
LegacyPMMAssumption ==
    /\ FirstPage \in Nat \ {0} /\ TotalPages \in Nat
    /\ FirstPage < TotalPages
    /\ PageSize \in Nat \ {0} /\ BITS \in Nat \ {0}

VARIABLES pmm_bitmap, pmm_used_pages,
          ret          \* what the last PMM_ALLOC_PAGE returned

vars == <<pmm_bitmap, pmm_used_pages, ret>>

\* pmm_bitmap_size: words enough for every frame.
Words == 0 .. (((TotalPages + BITS - 1) \div BITS) - 1)

Word(i) == i \div BITS
Bit(i)  == i % BITS

IsSet(i) == Bit(i) \in pmm_bitmap[Word(i)]

PMM_INIT ==
    /\ pmm_bitmap = [w \in Words |->
                        {b \in 0 .. (BITS - 1) : w * BITS + b < FirstPage}]
    /\ pmm_used_pages = FirstPage

Init == PMM_INIT /\ ret = 0

-----------------------------------------------------------------------------
\* (Mutant: a search that starts one frame late.)
UnsetPastFirst == {i \in (FirstPage + 1) .. (TotalPages - 1) : ~IsSet(i)}

Unset == {i \in FirstPage .. (TotalPages - 1) : ~IsSet(i)}

PMM_ALLOC_PAGE ==
    \/ \E i \in Unset :
          /\ \A j \in Unset : i <= j
          /\ pmm_bitmap' = [pmm_bitmap EXCEPT ![Word(i)] = @ \cup {Bit(i)}]
          /\ pmm_used_pages' = pmm_used_pages + 1
          /\ ret' = i * PageSize
    \/ /\ Unset = {}
       /\ ret' = 0
       /\ UNCHANGED <<pmm_bitmap, pmm_used_pages>>

\* Clear is what PMM_FREE_PAGE does to a frame inside the bitmap.  The
\* mutant takes the count down without looking at the bit.
ClearUnchecked(i) ==
    /\ pmm_bitmap' = [pmm_bitmap EXCEPT ![Word(i)] = @ \ {Bit(i)}]
    /\ pmm_used_pages' = IF pmm_used_pages > FirstPage
                         THEN pmm_used_pages - 1 ELSE pmm_used_pages

Clear(i) ==
    IF IsSet(i)
    THEN /\ pmm_bitmap' = [pmm_bitmap EXCEPT ![Word(i)] = @ \ {Bit(i)}]
         /\ pmm_used_pages' = IF pmm_used_pages > FirstPage
                              THEN pmm_used_pages - 1 ELSE pmm_used_pages
    ELSE UNCHANGED <<pmm_bitmap, pmm_used_pages>>

PMM_FREE_PAGE(page) ==
    LET page_index == page \div PageSize
    IN  /\ page_index >= FirstPage
        /\ Word(page_index) \in Words
        /\ Clear(page_index)
        /\ UNCHANGED ret

PMM_GET_FREE_PAGES == IF TotalPages > pmm_used_pages
                      THEN TotalPages - pmm_used_pages ELSE 0

-----------------------------------------------------------------------------
\* Addresses a caller may name, the frames past the last one included.
Addresses == 0 .. ((TotalPages + BITS) * PageSize)

Next == PMM_ALLOC_PAGE \/ \E page \in Addresses : PMM_FREE_PAGE(page)

Spec == Init /\ [][Next]_vars

-----------------------------------------------------------------------------
(***************************************************************************)
(* Types; the bits behind the last frame stay 0 and the kernel's bits 1.   *)
(***************************************************************************)
TypeOK ==
    /\ pmm_bitmap \in [Words -> SUBSET (0 .. (BITS - 1))]
    /\ pmm_used_pages \in FirstPage .. TotalPages
    /\ \A w \in Words : \A b \in pmm_bitmap[w] : w * BITS + b < TotalPages
    /\ \A i \in 0 .. (FirstPage - 1) : IsSet(i)

(***************************************************************************)
(* PMM_GET_FREE_PAGES, which PMM_INIT and PMM_PRINT_STATUS report, is the  *)
(* number of frames PMM_ALLOC_PAGE can still hand out.  In particular the  *)
(* guard on the decrement in PMM_FREE_PAGE never swallows a release.       *)
(***************************************************************************)
FreePages == PMM_GET_FREE_PAGES = Cardinality(Unset)

(***************************************************************************)
(* The two kernels' allocators make the same promise: this one, too, is    *)
(* the lowest-first FrameAllocator.                                        *)
(***************************************************************************)
Held == {i \in FirstPage .. (TotalPages - 1) : IsSet(i)}

Frames == INSTANCE FrameAllocator WITH held <- Held

LowestFirst == Frames!Spec
=============================================================================
