--------------------------- MODULE FrameAllocator ---------------------------
(***************************************************************************)
(* What Core86 promises of physical page frames, whichever of its two      *)
(* allocators provides them (Kernel/src/Include/PMM.c or old/Include/      *)
(* PMM.c): the frames at and above FirstPage are handed out one at a time, *)
(* lowest free address first; a request fails (address 0) only when every  *)
(* frame is held; a frame comes back only through a call that names it.    *)
(* The frames below FirstPage are the kernel's and never move.             *)
(***************************************************************************)
EXTENDS Integers

CONSTANTS FirstPage,   \* first frame that may be handed out
          TotalPages,  \* number of frames of the machine
          PageSize     \* bytes in a frame

VARIABLES held,        \* frames handed out and not given back
          ret          \* address the last request returned, 0 for none

vars == <<held, ret>>

Frames == FirstPage .. (TotalPages - 1)

Free == Frames \ held

TypeOK == /\ held \subseteq Frames
          /\ ret \in {0} \cup {i * PageSize : i \in Frames}

Init == held = {} /\ ret = 0

(***************************************************************************)
(* The lowest free frame is handed out.                                    *)
(***************************************************************************)
Alloc == \E i \in Free :
            /\ \A j \in Free : i <= j
            /\ held' = held \cup {i}
            /\ ret' = i * PageSize

(***************************************************************************)
(* A request fails only when there is nothing left to hand out.            *)
(***************************************************************************)
Exhausted == /\ Free = {}
             /\ ret' = 0
             /\ UNCHANGED held

Release(i) == /\ held' = held \ {i}
              /\ UNCHANGED ret

Next == Alloc \/ Exhausted \/ \E i \in held : Release(i)

Spec == Init /\ [][Next]_vars
=============================================================================
