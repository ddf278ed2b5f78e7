-------------------------------- MODULE PMM --------------------------------
(***************************************************************************)
(* The physical memory manager, Kernel/src/Include/PMM.c: a byte per frame *)
(* (bitmap), a count of the bytes that are set (used_pages) and a hint,    *)
(* last_alloc_index, from which alloc_page starts to search.  Frames below *)
(* FirstPage (KERNEL_END / PAGE_SIZE, and the literal 4096 of the code)    *)
(* belong to the kernel.                                                   *)
(*                                                                         *)
(* Each call is one action: nothing on the machine runs alloc_page or      *)
(* pmm_free_page while another call of them is in progress (the only       *)
(* enabled interrupt handler, pit_handler, calls neither).                 *)
(***************************************************************************)
EXTENDS Integers, FiniteSets

CONSTANTS FirstPage,   \* 4096 in the code: frames of the first 16 MB
          TotalPages,  \* total_pages as pmm_init computes it, 131072 for 512 MB
          PageSize     \* PAGE_SIZE, 4096

\* k_init calls pmm_init(512): there is memory above the kernel's 16 MB.
ASSUME PMMAssumption ==
    /\ FirstPage \in Nat \ {0}
    /\ TotalPages \in Nat
    /\ FirstPage < TotalPages
    /\ PageSize \in Nat \ {0}

VARIABLES bitmap,            \* 1 where a frame is in use
          used_pages,        \* how many are
          last_alloc_index,  \* where the next search starts
          ret                \* what the last alloc_page returned

vars == <<bitmap, used_pages, last_alloc_index, ret>>

Pages == 0 .. (TotalPages - 1)

(***************************************************************************)
(* pmm_init: every frame free, then the kernel's frames taken.  It does    *)
(* not touch last_alloc_index, which still has its static initial value.   *)
(***************************************************************************)
pmm_init ==
    /\ bitmap = [i \in Pages |-> IF i < FirstPage THEN 1 ELSE 0]
    /\ used_pages = FirstPage

Init == /\ pmm_init
        /\ last_alloc_index = FirstPage
        /\ ret = 0

-----------------------------------------------------------------------------
(***************************************************************************)
(* alloc_page.                                                             *)
(***************************************************************************)
FreeIn(lo, hi) == {i \in lo .. (hi - 1) : bitmap[i] = 0}

\* The first loop searches from the hint to the end, the second, reached
\* only when the first found nothing, from FirstPage up to the hint.
Candidates ==
    LET ahead == FreeIn(last_alloc_index, TotalPages)
    IN  IF ahead # {} THEN ahead ELSE FreeIn(FirstPage, last_alloc_index)

\* A plausible slip for the run's mutants: a hint that may leave the bitmap.
NextIndexNoWrap(i) == i + 1

NextIndex(i) == IF i + 1 >= TotalPages THEN FirstPage ELSE i + 1

alloc_page ==
    \/ \E i \in Candidates :
          /\ \A j \in Candidates : i <= j
          /\ bitmap' = [bitmap EXCEPT ![i] = 1]
          /\ used_pages' = used_pages + 1
          /\ last_alloc_index' = NextIndex(i)
          /\ ret' = i * PageSize
    \/ /\ Candidates = {}
       /\ ret' = 0
       /\ UNCHANGED <<bitmap, used_pages, last_alloc_index>>

-----------------------------------------------------------------------------
(***************************************************************************)
(* pmm_free_page(physical_addr): any address of the frame names it.  The   *)
(* kernel's frames are refused, and so is a frame that is already free,    *)
(* whose index moves the hint all the same.                                *)
(***************************************************************************)
page_index(physical_addr) == physical_addr \div PageSize

\* Mutants of the release below: one forgets the hint, one the check that
\* the frame is in use.
ReleaseKeepsHint(i) ==
    /\ bitmap' = [bitmap EXCEPT ![i] = 0]
    /\ used_pages' = IF bitmap[i] = 1 THEN used_pages - 1 ELSE used_pages
    /\ UNCHANGED last_alloc_index

ReleaseUnchecked(i) ==
    /\ bitmap' = [bitmap EXCEPT ![i] = 0]
    /\ used_pages' = used_pages - 1
    /\ last_alloc_index' = IF i < last_alloc_index THEN i ELSE last_alloc_index

Release(i) ==
    /\ IF bitmap[i] = 1
       THEN /\ bitmap' = [bitmap EXCEPT ![i] = 0]
            /\ used_pages' = used_pages - 1
       ELSE UNCHANGED <<bitmap, used_pages>>
    /\ last_alloc_index' = IF i < last_alloc_index THEN i ELSE last_alloc_index

pmm_free_page(physical_addr) ==
    /\ page_index(physical_addr) >= FirstPage
    /\ Release(page_index(physical_addr))
    /\ UNCHANGED ret

-----------------------------------------------------------------------------
\* Callers pass addresses of the machine's memory.
Addresses == 0 .. (TotalPages * PageSize - 1)

Next == alloc_page \/ \E a \in Addresses : pmm_free_page(a)

Spec == Init /\ [][Next]_vars

-----------------------------------------------------------------------------
(***************************************************************************)
(* Every variable keeps its type; the hint stays inside the bitmap and     *)
(* above the kernel's frames, so that alloc_page's two loops index only    *)
(* bytes pmm_init wrote.                                                   *)
(***************************************************************************)
TypeOK ==
    /\ bitmap \in [Pages -> {0, 1}]
    /\ used_pages \in Nat
    /\ last_alloc_index \in FirstPage .. (TotalPages - 1)
    /\ ret \in {0} \cup {i * PageSize : i \in FirstPage .. (TotalPages - 1)}

(***************************************************************************)
(* used_pages, which pmm_init reports and alloc_page and pmm_free_page     *)
(* adjust in step with the bitmap, is the number of frames in use, through *)
(* every order of requests, releases and repeated releases.                *)
(***************************************************************************)
InUse == {i \in Pages : bitmap[i] = 1}

UsedCount == used_pages = Cardinality(InUse)

(***************************************************************************)
(* No frame below the hint is free: a release below it moves it down, and  *)
(* the wrap at the end of the bitmap restarts it at FirstPage.  Hence the  *)
(* second loop of alloc_page never finds anything.                         *)
(***************************************************************************)
NoFreeBelowHint ==
    \A i \in FirstPage .. (last_alloc_index - 1) : bitmap[i] = 1

\* The kernel's frames stay in use: pmm_free_page refuses to release them.
KernelKept == \A i \in 0 .. (FirstPage - 1) : bitmap[i] = 1

(***************************************************************************)
(* alloc_page and pmm_free_page are the lowest-first frame allocator: the  *)
(* hint changes where the search starts and never which frame it finds,    *)
(* and 0 is returned only when no frame is free.  pmm_test relies on this  *)
(* when it expects the frame it freed to come back next.                   *)
(***************************************************************************)
Frames == INSTANCE FrameAllocator WITH held <- InUse \ (0 .. (FirstPage - 1))

LowestFirst == Frames!Spec
=============================================================================
