---------------------------- MODULE AddressSpace ----------------------------
(***************************************************************************)
(* What the virtual memory manager promises: a translation from virtual    *)
(* pages to frames that changes for one page at a time, the page that is   *)
(* asked for.  A page that is mapped keeps its frame until it is unmapped. *)
(* The first window of the space and the kernel's window are one and the   *)
(* same: their pages change together.                                      *)
(***************************************************************************)
EXTENDS Integers

CONSTANTS Entries,     \* pages in a window, and windows in the space
          AliasEntry   \* the window that shares the first one's pages

VARIABLE map           \* page -> frame, NONE for a page that is not mapped

NONE == -1

VPages == 0 .. (Entries * Entries - 1)

Window(v) == v \div Entries

\* The pages that are the same page as v.
Same(v) == IF Window(v) \in {0, AliasEntry}
           THEN {v % Entries, AliasEntry * Entries + (v % Entries)}
           ELSE {v}

Init == map = [v \in VPages |-> NONE]

\* The space as it is handed to its users: the first frames, twice.
Start == /\ \A v \in VPages : map[v] = NONE
         /\ map' = [v \in VPages |-> IF Window(v) \in {0, AliasEntry}
                                     THEN v % Entries ELSE NONE]

With(v, p) == [w \in VPages |-> IF w \in Same(v) THEN p ELSE map[w]]

\* The user asks for frame p at page v; a page that is mapped stays.
Map(v, p) == map' = IF map[v] = NONE THEN With(v, p) ELSE map

\* The user gives page v up.
Unmap(v) == map' = With(v, NONE)

Next == Start \/ \E v \in VPages : Unmap(v) \/ \E p \in Nat : Map(v, p)

Spec == Init /\ [][Next]_map
=============================================================================
