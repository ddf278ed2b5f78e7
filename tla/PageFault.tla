----------------------------- MODULE PageFault ------------------------------
(***************************************************************************)
(* The kernel after vmm_enable: an access to a page the tables do not map  *)
(* enters page_fault_handler (Kernel/src/Include/idt.c).  The pointers of  *)
(* PMM.c and VMM.c are virtual addresses now: the handler itself may fault *)
(* in alloc_page, on the bitmap's page.                                    *)
(*                                                                         *)
(* The handler is a plain function on the processor's interrupt frame: it  *)
(* takes what it finds in place of its argument for the saved registers,   *)
(* so err_code is whatever lies there.                                     *)
(***************************************************************************)
EXTENDS KernelMemory, Sequences

VARIABLES paging,  \* the PG bit of cr0
          faults,  \* the pages being handled, the first access first
          cpu      \* "runs", or "halted" by the handler's cli; hlt

faultVars == <<paging, faults, cpu>>

KERNEL_PAGE == AliasEntry * Entries  \* of address 0xC0000000

Reachable(v) == vmm_v_to_p(mem, v) # NONE

FaultInit == Init /\ paging = FALSE /\ faults = <<>> /\ cpu = "runs"

\* What k_init calls before vmm_enable.
Before == ~paging /\ (pmm_test \/ vmm_init) /\ UNCHANGED faultVars

vmm_enable == /\ ready /\ ~paging /\ paging' = TRUE
              /\ UNCHANGED <<vars, faults, cpu>>

\* Kernel code uses an address.
Access(v) == /\ paging /\ cpu = "runs" /\ faults = <<>>
             /\ ~Reachable(v)
             /\ faults' = <<v>>
             /\ UNCHANGED <<vars, paging, cpu>>

Handling == paging /\ cpu = "runs" /\ faults # <<>>

Fault == faults[Len(faults)]

\* The page of the bitmap that alloc_page reads first.
BitmapPage == ByteFrame(last_alloc_index)

\* The garbage in err_code says "not present" and "kernel": the handler goes
\* to map the page, and its alloc_page faults.  (Nobody maps the bitmap's
\* pages, so it never gets further.)
NestedFault ==
    /\ Handling /\ Fault >= KERNEL_PAGE
    /\ ~Reachable(BitmapPage) /\ faults' = Append(faults, BitmapPage)
    /\ UNCHANGED <<vars, paging, cpu>>

\* A page below the kernel's, or the garbage says otherwise.
Panic == /\ Handling /\ cpu' = "halted"
         /\ UNCHANGED <<vars, paging, faults>>

FaultNext == Before \/ vmm_enable \/ (\E v \in VPages : Access(v))
                \/ NestedFault \/ Panic

FaultSpec == FaultInit /\ [][FaultNext]_<<vars, faultVars>>

-----------------------------------------------------------------------------
(***************************************************************************)
(* A fault on a kernel page that the handler sets out to map ("Attempting  *)
(* to map kernel page", idt.c:71) ends in the panic only if there is no    *)
(* frame to map.                                                           *)
(***************************************************************************)
FaultMapped == cpu = "halted" /\ Len(faults) > 1 => Found(mem, last_alloc_index) = 0
=============================================================================
