----------------------------- MODULE Allocator ------------------------------
(***************************************************************************)
(* What a heap promises its callers: a request is answered by a region of  *)
(* at least the size asked for, inside the memory the heap has, disjoint   *)
(* from every other region granted; a region stays granted, where it is    *)
(* and as large as it is, until its holder returns it.  There is no        *)
(* refusal: a request that cannot be met stays open.                       *)
(***************************************************************************)
EXTENDS Integers

CONSTANT Sizes     \* what callers ask for, no 0 among them

VARIABLES asked,   \* the request that is open, 0 for none
          granted, \* address -> size of the regions granted
          brk      \* end of the memory the heap has

vars == <<asked, granted, brk>>

Init == asked = 0 /\ brk = 0 /\ granted = [p \in {} |-> 0]

Ask == /\ asked = 0
       /\ asked' \in Sizes
       /\ UNCHANGED <<granted, brk>>

Disjoint(p, s) ==
    \A q \in DOMAIN granted : q + granted[q] <= p \/ p + s <= q

Grant == /\ asked # 0
         /\ \E p \in (0 .. brk) \ DOMAIN granted : \E s \in asked .. (brk - p) :
               /\ Disjoint(p, s)
               /\ granted' = [q \in DOMAIN granted \cup {p} |->
                                 IF q = p THEN s ELSE granted[q]]
         /\ asked' = 0
         /\ UNCHANGED brk

Return == /\ \E p \in DOMAIN granted :
                granted' = [q \in DOMAIN granted \ {p} |-> granted[q]]
          /\ UNCHANGED <<asked, brk>>

Extend == /\ brk' \in Nat /\ brk' > brk
          /\ UNCHANGED <<asked, granted>>

Next == Ask \/ Grant \/ Return \/ Extend

Spec == Init /\ [][Next]_vars
=============================================================================
