--------------------------- MODULE PMMPair_proofs ---------------------------
(***************************************************************************)
(* Proofs about the frame allocators, for every number of frames and every *)
(* frame size: the second kernel's, the first kernel's (all that is about  *)
(* it is called Old), and then the two side by side.  They give the same   *)
(* answers for every memory: both are lowest-first, and what one holds the *)
(* other holds.                                                            *)
(***************************************************************************)
EXTENDS PMMPair, FiniteSetTheorems, TLAPS

\* The inductive invariant: the type, the count, and the two facts that say
\* where no frame is free.
IInv == TypeOK /\ UsedCount /\ NoFreeBelowHint /\ KernelKept

-----------------------------------------------------------------------------
(***************************************************************************)
(* Facts about the arithmetic of frames and about the set of frames in use.*)
(***************************************************************************)

\* An address of the memory names a frame of the bitmap (PMM.c:95).
LEMMA PageOfAddress ==
    ASSUME NEW a \in Addresses
    PROVE  page_index(a) \in Pages
<1>1. PageSize \in Nat \ {0} /\ TotalPages \in Nat BY PMMAssumption
<1>2. a \in Nat /\ a < TotalPages * PageSize BY <1>1 DEF Addresses
<1>3. a \div PageSize \in Nat BY <1>1, <1>2
<1>4. (a \div PageSize) * PageSize <= a BY <1>1, <1>2
<1>5. a \div PageSize < TotalPages BY <1>1, <1>2, <1>3, <1>4
<1> QED BY <1>1, <1>3, <1>5 DEF page_index, Pages

\* There are finitely many frames in use, whatever the bitmap holds.
LEMMA InUseFinite == IsFiniteSet(InUse)
<1>1. IsFiniteSet(Pages) BY FS_Interval, PMMAssumption DEF Pages
<1> QED BY <1>1, FS_Subset DEF InUse

\* Taking a free frame adds exactly it to the frames in use, and one to
\* their number (PMM.c:53-56, 74-77).
LEMMA TakeFrame ==
    ASSUME TypeOK, NEW i \in Pages, bitmap[i] = 0,
           bitmap' = [bitmap EXCEPT ![i] = 1]
    PROVE  /\ InUse' = InUse \cup {i}
           /\ i \notin InUse
           /\ Cardinality(InUse') = Cardinality(InUse) + 1
<1>1. InUse' = InUse \cup {i} BY DEF TypeOK, InUse
<1>2. i \notin InUse BY DEF InUse
<1> QED BY <1>1, <1>2, InUseFinite, FS_AddElement

\* Giving back a frame in use removes exactly it, and one from their number
\* (PMM.c:103-107).
LEMMA GiveFrame ==
    ASSUME TypeOK, NEW i \in Pages, bitmap[i] = 1,
           bitmap' = [bitmap EXCEPT ![i] = 0]
    PROVE  /\ InUse' = InUse \ {i}
           /\ i \in InUse
           /\ Cardinality(InUse') = Cardinality(InUse) - 1
<1>1. InUse' = InUse \ {i} BY DEF TypeOK, InUse
<1>2. i \in InUse BY DEF InUse
<1> QED BY <1>1, <1>2, InUseFinite, FS_RemoveElement

\* The candidates are frames of the bitmap, free, above the kernel's.
LEMMA CandidateFacts ==
    ASSUME TypeOK, NEW i \in Candidates
    PROVE  i \in Pages /\ i >= FirstPage /\ bitmap[i] = 0
BY PMMAssumption DEF TypeOK, Candidates, FreeIn, Pages

\* With no free frame below the hint, the candidates are all the free frames
\* above the kernel's: alloc_page's second loop (PMM.c:72-86) finds nothing.
LEMMA CandidatesAreFree ==
    ASSUME TypeOK, NoFreeBelowHint
    PROVE  Candidates = {i \in Pages : i >= FirstPage /\ bitmap[i] = 0}
<1>1. FreeIn(FirstPage, last_alloc_index) = {}
      BY PMMAssumption DEF TypeOK, NoFreeBelowHint, FreeIn
<1>2. FreeIn(last_alloc_index, TotalPages)
        = {i \in Pages : i >= FirstPage /\ bitmap[i] = 0}
      BY PMMAssumption DEF TypeOK, NoFreeBelowHint, FreeIn, Pages
<1> QED BY <1>1, <1>2 DEF Candidates

-----------------------------------------------------------------------------
(***************************************************************************)
(* The invariant holds after pmm_init and is kept by every call.           *)
(***************************************************************************)
LEMMA InitIInv == Init => IInv
<1> SUFFICES ASSUME Init PROVE IInv OBVIOUS
<1> USE PMMAssumption
<1>1. TypeOK BY DEF Init, pmm_init, TypeOK, Pages
<1>2. InUse = 0 .. (FirstPage - 1)
      BY DEF Init, pmm_init, InUse, Pages
<1>3. Cardinality(0 .. (FirstPage - 1)) = FirstPage BY FS_Interval
<1>4. UsedCount BY <1>2, <1>3 DEF UsedCount, Init, pmm_init
<1>5. NoFreeBelowHint BY DEF NoFreeBelowHint, Init
<1>6. KernelKept BY DEF KernelKept, Init, pmm_init, Pages
<1> QED BY <1>1, <1>4, <1>5, <1>6 DEF IInv

\* alloc_page keeps the invariant: it takes the lowest candidate, so that
\* everything below the new hint is in use.
LEMMA AllocIInv == IInv /\ alloc_page => IInv'
<1> SUFFICES ASSUME IInv, alloc_page PROVE IInv' OBVIOUS
<1> USE PMMAssumption DEF IInv
<1>1. CASE Candidates = {} /\ ret' = 0
             /\ UNCHANGED <<bitmap, used_pages, last_alloc_index>>
  <2>1. TypeOK' BY <1>1 DEF TypeOK, Pages
  <2>2. InUse' = InUse BY <1>1 DEF InUse, Pages
  <2>3. UsedCount' BY <1>1, <2>2 DEF UsedCount
  <2> QED BY <1>1, <2>1, <2>3 DEF NoFreeBelowHint, KernelKept
<1>2. ASSUME NEW i \in Candidates,
             \A j \in Candidates : i <= j,
             bitmap' = [bitmap EXCEPT ![i] = 1],
             used_pages' = used_pages + 1,
             last_alloc_index' = NextIndex(i),
             ret' = i * PageSize
      PROVE  IInv'
  <2>1. i \in Pages /\ i >= FirstPage /\ bitmap[i] = 0
        BY CandidateFacts
  <2>2. TypeOK'
    <3>1. bitmap' \in [Pages -> {0, 1}] BY <1>2, <2>1 DEF TypeOK
    <3>2. used_pages' \in Nat BY <1>2 DEF TypeOK
    <3>3. last_alloc_index' \in FirstPage .. (TotalPages - 1)
          BY <1>2, <2>1 DEF NextIndex, Pages
    <3>4. ret' \in {i_1 * PageSize : i_1 \in FirstPage .. (TotalPages - 1)}
          BY <1>2, <2>1 DEF Pages
    <3> QED BY <3>1, <3>2, <3>3, <3>4 DEF TypeOK
  <2>3. UsedCount' BY <1>2, <2>1, TakeFrame DEF UsedCount
  <2>4. NoFreeBelowHint'
    <3> SUFFICES ASSUME NEW k \in FirstPage .. (last_alloc_index' - 1)
                 PROVE  bitmap'[k] = 1
        BY DEF NoFreeBelowHint
    <3>1. k \in Pages /\ k <= i
          BY <1>2, <2>1, <2>2 DEF NextIndex, Pages, TypeOK
    <3>2. CASE k = i BY <1>2, <2>1, <3>2 DEF TypeOK
    <3>3. CASE k # i
      <4>1. k \notin Candidates BY <1>2, <3>1, <3>3, <2>1 DEF Pages
      <4>2. bitmap[k] # 0 BY <4>1, <3>1, CandidatesAreFree
      <4>3. bitmap[k] = 1 BY <4>2, <3>1 DEF TypeOK
      <4> QED BY <1>2, <2>1, <3>1, <3>3, <4>3 DEF TypeOK
    <3> QED BY <3>2, <3>3
  <2>5. KernelKept' BY <1>2, <2>1 DEF KernelKept, TypeOK, Pages
  <2> QED BY <2>2, <2>3, <2>4, <2>5
<1> QED BY <1>1, <1>2 DEF alloc_page

\* pmm_free_page keeps the invariant: a release below the hint moves it down
\* to the frame that became free.
LEMMA FreeIInv ==
    ASSUME IInv, NEW a \in Addresses, pmm_free_page(a)
    PROVE  IInv'
<1> USE PMMAssumption DEF IInv
<1> DEFINE i == page_index(a)
<1>1. i \in Pages BY PageOfAddress
<1>2. i >= FirstPage /\ Release(i) /\ ret' = ret BY DEF pmm_free_page
<1> HIDE DEF i
<1>3. last_alloc_index' = IF i < last_alloc_index THEN i ELSE last_alloc_index
      BY <1>2 DEF Release
<1>4. bitmap' \in [Pages -> {0, 1}]
        /\ \A k \in Pages : k # i => bitmap'[k] = bitmap[k]
      BY <1>1, <1>2 DEF Release, TypeOK
<1>5. UsedCount' /\ used_pages' \in Nat
  <2>1. CASE bitmap[i] = 1
    <3>1. bitmap' = [bitmap EXCEPT ![i] = 0] /\ used_pages' = used_pages - 1
          BY <1>2, <2>1 DEF Release
    <3>2. UsedCount' BY <1>1, <2>1, <3>1, GiveFrame DEF UsedCount
    <3>3. i \in InUse BY <1>1, <2>1 DEF InUse
    <3>4. Cardinality(InUse) # 0 BY <3>3, InUseFinite, FS_EmptySet
    <3> QED BY <3>1, <3>2, <3>4 DEF UsedCount, TypeOK
  <2>2. CASE bitmap[i] # 1
    <3>1. bitmap' = bitmap /\ used_pages' = used_pages
          BY <1>2, <2>2 DEF Release
    <3>2. InUse' = InUse BY <3>1 DEF InUse, Pages
    <3> QED BY <3>1, <3>2 DEF UsedCount, TypeOK
  <2> QED BY <2>1, <2>2
<1>6. TypeOK'
  <2>1. last_alloc_index' \in FirstPage .. (TotalPages - 1)
        BY <1>1, <1>2, <1>3 DEF TypeOK, Pages
  <2> QED BY <1>2, <1>4, <1>5, <2>1 DEF TypeOK, Pages
<1>7. NoFreeBelowHint'
      BY <1>1, <1>2, <1>3, <1>4 DEF NoFreeBelowHint, TypeOK, Pages
<1>8. KernelKept' BY <1>1, <1>2, <1>4 DEF KernelKept, Pages
<1> QED BY <1>5, <1>6, <1>7, <1>8

LEMMA NextIInv == IInv /\ [Next]_vars => IInv'
<1> SUFFICES ASSUME IInv, [Next]_vars PROVE IInv' OBVIOUS
<1>1. CASE alloc_page BY <1>1, AllocIInv
<1>2. CASE \E a \in Addresses : pmm_free_page(a) BY <1>2, FreeIInv
<1>3. CASE UNCHANGED vars
  <2>1. InUse' = InUse BY <1>3 DEF InUse, vars, Pages
  <2> QED BY <1>3, <2>1 DEF IInv, TypeOK, UsedCount, NoFreeBelowHint,
                            KernelKept, vars, Pages
<1> QED BY <1>1, <1>2, <1>3 DEF Next

LEMMA Invariance == Spec => []IInv
BY InitIInv, NextIInv, PTL DEF Spec

(***************************************************************************)
(* Type correctness; in particular the hint never leaves the part of the   *)
(* bitmap above the kernel's frames, so alloc_page indexes only bytes that *)
(* pmm_init wrote.                                                         *)
(***************************************************************************)
THEOREM TypeCorrect == Spec => []TypeOK
BY Invariance, PTL DEF IInv

(***************************************************************************)
(* used_pages is the number of frames in use, however requests, releases   *)
(* and repeated releases follow one another (PMM.c:54, 75, 106).           *)
(***************************************************************************)
THEOREM CountCorrect == Spec => []UsedCount
BY Invariance, PTL DEF IInv

(***************************************************************************)
(* No frame below the hint is free, so the second loop of alloc_page       *)
(* (PMM.c:72-86) is never left through its body.                           *)
(***************************************************************************)
THEOREM HintCorrect == Spec => []NoFreeBelowHint
BY Invariance, PTL DEF IInv

-----------------------------------------------------------------------------
(***************************************************************************)
(* The refinement: a call of the code is a step of the lowest-first        *)
(* allocator, or a stutter of it.                                          *)
(***************************************************************************)
Held == InUse \ (0 .. (FirstPage - 1))

\* What the abstract allocator calls free is what the bitmap says is free.
LEMMA FreeFrames ==
    ASSUME TypeOK
    PROVE  Frames!Free = {i \in Pages : i >= FirstPage /\ bitmap[i] = 0}
BY PMMAssumption DEF Frames!Free, Frames!Frames, InUse, Pages, TypeOK

LEMMA InitRefines == Init => Frames!Init
<1> SUFFICES ASSUME Init PROVE Frames!Init OBVIOUS
<1>1. InUse = 0 .. (FirstPage - 1)
      BY PMMAssumption DEF Init, pmm_init, InUse, Pages
<1> QED BY <1>1 DEF Init, Frames!Init

LEMMA AllocRefines ==
    ASSUME IInv, alloc_page
    PROVE  Frames!Alloc \/ Frames!Exhausted
<1> USE PMMAssumption DEF IInv
<1>1. Candidates = Frames!Free BY FreeFrames, CandidatesAreFree
<1>2. CASE Candidates = {} /\ ret' = 0
             /\ UNCHANGED <<bitmap, used_pages, last_alloc_index>>
  <2>1. InUse' = InUse BY <1>2 DEF InUse, Pages
  <2> QED BY <1>1, <1>2, <2>1 DEF Frames!Exhausted
<1>3. ASSUME NEW i \in Candidates,
             \A j \in Candidates : i <= j,
             bitmap' = [bitmap EXCEPT ![i] = 1],
             ret' = i * PageSize
      PROVE  Frames!Alloc
  <2>1. i \in Pages /\ i >= FirstPage /\ bitmap[i] = 0
        BY CandidateFacts
  <2>2. InUse' = InUse \cup {i} BY <1>3, <2>1, TakeFrame
  <2>3. (InUse \ (0 .. (FirstPage - 1)))'
          = (InUse \ (0 .. (FirstPage - 1))) \cup {i}
        BY <2>1, <2>2 DEF Pages
  <2>4. i \in Frames!Free /\ \A j \in Frames!Free : i <= j
        BY <1>1, <1>3
  <2> QED BY <1>3, <2>3, <2>4 DEF Frames!Alloc
<1> QED BY <1>2, <1>3 DEF alloc_page

LEMMA FreeRefines ==
    ASSUME IInv, NEW a \in Addresses, pmm_free_page(a)
    PROVE  \/ \E i \in Held : Frames!Release(i)
           \/ UNCHANGED <<Held, ret>>
<1> USE PMMAssumption DEF IInv
<1> DEFINE i == page_index(a)
<1>1. i \in Pages BY PageOfAddress
<1>2. i >= FirstPage /\ Release(i) /\ ret' = ret BY DEF pmm_free_page
<1> HIDE DEF i
<1>3. CASE bitmap[i] = 1
  <2>1. bitmap' = [bitmap EXCEPT ![i] = 0] BY <1>2, <1>3 DEF Release
  <2>2. InUse' = InUse \ {i} /\ i \in InUse BY <1>1, <1>3, <2>1, GiveFrame
  <2>3. i \in Held /\ Held' = Held \ {i}
        BY <1>1, <1>2, <2>2 DEF Held, Pages
  <2> QED BY <1>2, <2>3 DEF Frames!Release, Held
<1>4. CASE bitmap[i] # 1
  <2>1. bitmap' = bitmap BY <1>2, <1>4 DEF Release
  <2> QED BY <1>2, <2>1 DEF Held, InUse, Pages
<1> QED BY <1>3, <1>4

LEMMA NextRefines == IInv /\ [Next]_vars => [Frames!Next]_(Frames!vars)
<1> SUFFICES ASSUME IInv, [Next]_vars
             PROVE  [Frames!Next]_(Frames!vars)
    OBVIOUS
<1>1. CASE alloc_page BY <1>1, AllocRefines DEF Frames!Next
<1>2. CASE \E a \in Addresses : pmm_free_page(a)
      BY <1>2, FreeRefines DEF Frames!Next, Frames!vars, Held
<1>3. CASE UNCHANGED vars
      BY <1>3 DEF vars, Frames!vars, InUse, Pages
<1> QED BY <1>1, <1>2, <1>3 DEF Next

(***************************************************************************)
(* alloc_page and pmm_free_page implement the lowest-first allocator: the  *)
(* frame handed out is always the lowest free one, and a request fails     *)
(* only when every frame above the kernel's is in use (PMM.c:46-113).      *)
(***************************************************************************)
THEOREM Refinement == Spec => LowestFirst
BY InitRefines, NextRefines, Invariance, PTL
   DEF Spec, LowestFirst, Frames!Spec

-----------------------------------------------------------------------------
(***************************************************************************)
(* The first kernel's allocator, for every number of frames, every frame   *)
(* size and every width of a bitmap word.                                  *)
(***************************************************************************)
LEMMA OldAssumption == Old!LegacyPMMAssumption
BY PairAssumption

\* The inductive invariant: the count is stated without the guard of
\* PMM_GET_FREE_PAGES.
Counted == pmm_used_pages + Cardinality(Old!Unset) = TotalPages

OldIInv == Old!TypeOK /\ Counted

-----------------------------------------------------------------------------
(***************************************************************************)
(* The arithmetic of the bitmap (old/Include/PMM.c:40, 57, 78): a frame is *)
(* its word and its bit, and every frame of the memory has a word.         *)
(***************************************************************************)
LEMMA PlaceOfFrame ==
    ASSUME Old!LegacyPMMAssumption, NEW i \in Nat
    PROVE  /\ Old!Word(i) \in Nat /\ Old!Bit(i) \in 0 .. (BITS - 1)
           /\ i = Old!Word(i) * BITS + Old!Bit(i)
<1>1. BITS \in Nat /\ BITS > 0 BY DEF Old!LegacyPMMAssumption
<1>2. i \div BITS \in Nat /\ i % BITS \in 0 .. (BITS - 1) BY <1>1
<1>3. i = (i \div BITS) * BITS + (i % BITS) BY <1>1
<1> QED BY <1>2, <1>3 DEF Old!Word, Old!Bit

LEMMA PlaceInjective ==
    ASSUME Old!LegacyPMMAssumption, NEW i \in Nat, NEW j \in Nat,
           Old!Word(i) = Old!Word(j), Old!Bit(i) = Old!Bit(j)
    PROVE  i = j
<1>1. i = Old!Word(i) * BITS + Old!Bit(i) BY PlaceOfFrame
<1>2. j = Old!Word(j) * BITS + Old!Bit(j) BY PlaceOfFrame
<1> QED BY <1>1, <1>2

LEMMA WordOfFrame ==
    ASSUME Old!LegacyPMMAssumption, NEW i \in 0 .. (TotalPages - 1)
    PROVE  i \in Nat /\ Old!Word(i) \in Old!Words
<1> DEFINE n == TotalPages + BITS - 1
           q == n \div BITS
           k == Old!Word(i)
<1>1. /\ BITS \in Nat /\ BITS > 0 /\ TotalPages \in Nat
      /\ i \in Nat /\ i < TotalPages
      BY DEF Old!LegacyPMMAssumption
<1>2. n \in Nat BY <1>1
<1>3. q \in Nat /\ n % BITS \in 0 .. (BITS - 1)
      /\ n = q * BITS + (n % BITS)
  <2> HIDE DEF n
  <2> QED BY <1>1, <1>2
<1>4. q * BITS >= TotalPages
  <2>1. q * BITS \in Nat BY <1>1, <1>3
  <2> QED BY <1>1, <1>3, <2>1
<1>5. k \in Nat /\ k * BITS <= i
  <2>1. k \in Nat /\ Old!Bit(i) \in Nat /\ i = k * BITS + Old!Bit(i)
        BY <1>1, PlaceOfFrame
  <2>2. k * BITS \in Nat BY <1>1, <2>1
  <2> HIDE DEF k
  <2> QED BY <2>1, <2>2
<1> HIDE DEF q, k, n
<1>6. k < q
  <2> SUFFICES ASSUME k >= q PROVE FALSE BY <1>3, <1>5
  <2>1. k * BITS >= q * BITS BY <1>1, <1>3, <1>5
  <2>2. k * BITS \in Nat /\ q * BITS \in Nat BY <1>1, <1>3, <1>5
  <2> QED BY <1>1, <1>4, <1>5, <2>1, <2>2
<1>7. k \in 0 .. (q - 1) BY <1>3, <1>5, <1>6
<1> QED BY <1>1, <1>7 DEF k, q, n, Old!Words

\* The frames that can be handed out are frames of the bitmap.
LEMMA UnsetFacts ==
    ASSUME Old!LegacyPMMAssumption
    PROVE  /\ Old!Unset \subseteq FirstPage .. (TotalPages - 1)
           /\ IsFiniteSet(Old!Unset)
<1>1. IsFiniteSet(FirstPage .. (TotalPages - 1))
      BY FS_Interval DEF Old!LegacyPMMAssumption
<1> QED BY <1>1, FS_Subset DEF Old!Unset

\* Setting the bit of a frame changes that frame only (old/Include/PMM.c:61).
LEMMA SetBit ==
    ASSUME Old!LegacyPMMAssumption, Old!TypeOK,
           NEW i \in Nat, Old!Word(i) \in Old!Words,
           pmm_bitmap' = [pmm_bitmap EXCEPT
                             ![Old!Word(i)] = @ \cup {Old!Bit(i)}]
    PROVE  /\ pmm_bitmap' \in [Old!Words -> SUBSET (0 .. (BITS - 1))]
           /\ \A j \in Nat : Old!Word(j) \in Old!Words
                => (Old!IsSet(j)' <=> Old!IsSet(j) \/ j = i)
<1>1. Old!Bit(i) \in 0 .. (BITS - 1) BY PlaceOfFrame
<1>2. pmm_bitmap \in [Old!Words -> SUBSET (0 .. (BITS - 1))] BY DEF Old!TypeOK
<1>3. pmm_bitmap' \in [Old!Words -> SUBSET (0 .. (BITS - 1))] BY <1>1, <1>2
<1>4. ASSUME NEW j \in Nat, Old!Word(j) \in Old!Words
      PROVE  Old!IsSet(j)' <=> Old!IsSet(j) \/ j = i
  <2>1. CASE Old!Word(j) = Old!Word(i)
    <3>1. pmm_bitmap'[Old!Word(j)] = pmm_bitmap[Old!Word(j)] \cup {Old!Bit(i)}
          BY <1>2, <2>1
    <3>2. Old!Bit(j) = Old!Bit(i) <=> j = i BY <2>1, PlaceInjective
    <3> QED BY <3>1, <3>2 DEF Old!IsSet
  <2>2. CASE Old!Word(j) # Old!Word(i)
    <3>1. pmm_bitmap'[Old!Word(j)] = pmm_bitmap[Old!Word(j)]
          BY <1>2, <1>4, <2>2
    <3> QED BY <2>2, <3>1 DEF Old!IsSet
  <2> QED BY <2>1, <2>2
<1> QED BY <1>3, <1>4

\* Clearing the bit of a frame changes that frame only (old/Include/PMM.c:85).
LEMMA ClearBit ==
    ASSUME Old!LegacyPMMAssumption, Old!TypeOK,
           NEW i \in Nat, Old!Word(i) \in Old!Words,
           pmm_bitmap' = [pmm_bitmap EXCEPT
                             ![Old!Word(i)] = @ \ {Old!Bit(i)}]
    PROVE  /\ pmm_bitmap' \in [Old!Words -> SUBSET (0 .. (BITS - 1))]
           /\ \A j \in Nat : Old!Word(j) \in Old!Words
                => (Old!IsSet(j)' <=> Old!IsSet(j) /\ j # i)
<1>2. pmm_bitmap \in [Old!Words -> SUBSET (0 .. (BITS - 1))] BY DEF Old!TypeOK
<1>3. pmm_bitmap' \in [Old!Words -> SUBSET (0 .. (BITS - 1))] BY <1>2
<1>4. ASSUME NEW j \in Nat, Old!Word(j) \in Old!Words
      PROVE  Old!IsSet(j)' <=> Old!IsSet(j) /\ j # i
  <2>1. CASE Old!Word(j) = Old!Word(i)
    <3>1. pmm_bitmap'[Old!Word(j)] = pmm_bitmap[Old!Word(j)] \ {Old!Bit(i)}
          BY <1>2, <2>1
    <3>2. Old!Bit(j) = Old!Bit(i) <=> j = i BY <2>1, PlaceInjective
    <3> QED BY <3>1, <3>2 DEF Old!IsSet
  <2>2. CASE Old!Word(j) # Old!Word(i)
    <3>1. pmm_bitmap'[Old!Word(j)] = pmm_bitmap[Old!Word(j)]
          BY <1>2, <1>4, <2>2
    <3> QED BY <2>2, <3>1 DEF Old!IsSet
  <2> QED BY <2>1, <2>2
<1> QED BY <1>3, <1>4

\* A 1 in the bitmap is a frame of the memory (the bits behind the last
\* frame stay 0): what lets PMM_FREE_PAGE do without a test of
\* pmm_total_pages.
LEMMA SetIsFrame ==
    ASSUME Old!LegacyPMMAssumption, Old!TypeOK,
           NEW i \in Nat, Old!Word(i) \in Old!Words,
           Old!IsSet(i)
    PROVE  i < TotalPages
<1>1. i = Old!Word(i) * BITS + Old!Bit(i) BY PlaceOfFrame
<1>2. Old!Word(i) * BITS + Old!Bit(i) < TotalPages BY DEF Old!TypeOK, Old!IsSet
<1> QED BY <1>1, <1>2

-----------------------------------------------------------------------------
(***************************************************************************)
(* The invariant holds after PMM_INIT and is kept by every call.           *)
(***************************************************************************)
LEMMA OldInitIInv ==
    ASSUME Old!LegacyPMMAssumption, Old!Init
    PROVE  OldIInv /\ Old!Unset = FirstPage .. (TotalPages - 1)
<1>1. /\ FirstPage \in Nat /\ TotalPages \in Nat /\ FirstPage < TotalPages
      /\ BITS \in Nat /\ BITS > 0
      BY DEF Old!LegacyPMMAssumption
<1>2. /\ pmm_bitmap = [w \in Old!Words |->
                          {b \in 0 .. (BITS - 1) : w * BITS + b < FirstPage}]
      /\ pmm_used_pages = FirstPage
      BY DEF Old!Init, Old!PMM_INIT
<1>3. ASSUME NEW i \in 0 .. (TotalPages - 1)
      PROVE  Old!IsSet(i) <=> i < FirstPage
  <2>1. i \in Nat /\ Old!Word(i) \in Old!Words BY WordOfFrame
  <2>2. Old!Bit(i) \in 0 .. (BITS - 1) /\ i = Old!Word(i) * BITS + Old!Bit(i)
        BY <2>1, PlaceOfFrame
  <2>3. Old!IsSet(i) <=> Old!Word(i) * BITS + Old!Bit(i) < FirstPage
        BY <1>2, <2>1, <2>2 DEF Old!IsSet
  <2> QED BY <2>2, <2>3
<1>4. Old!Unset = FirstPage .. (TotalPages - 1)
      BY <1>1, <1>3 DEF Old!Unset
<1>5. Cardinality(FirstPage .. (TotalPages - 1)) = TotalPages - FirstPage
  <2>1. Cardinality(FirstPage .. (TotalPages - 1))
          = (TotalPages - 1) - FirstPage + 1
        BY <1>1, FS_Interval
  <2> QED BY <1>1, <2>1
<1>6. Counted BY <1>1, <1>2, <1>4, <1>5 DEF Counted
<1>7. Old!TypeOK
  <2>1. pmm_bitmap \in [Old!Words -> SUBSET (0 .. (BITS - 1))] BY <1>2
  <2>2. pmm_used_pages \in FirstPage .. TotalPages BY <1>1, <1>2
  <2>3. ASSUME NEW w \in Old!Words, NEW b \in pmm_bitmap[w]
        PROVE  w * BITS + b < TotalPages
    <3>1. w * BITS + b < FirstPage /\ b \in 0 .. (BITS - 1) BY <1>2
    <3>2. w \in Int BY DEF Old!Words
    <3>3. w * BITS \in Int BY <1>1, <3>2
    <3> QED BY <1>1, <3>1, <3>3
  <2>4. \A i \in 0 .. (FirstPage - 1) : Old!IsSet(i) BY <1>1, <1>3
  <2> QED BY <2>1, <2>2, <2>3, <2>4 DEF Old!TypeOK
<1> QED BY <1>4, <1>6, <1>7 DEF OldIInv

\* Taking a frame: the count goes up by one, the frames that can be handed
\* out are one fewer.
LEMMA OldTakeFrame ==
    ASSUME Old!LegacyPMMAssumption, OldIInv, NEW i \in Old!Unset,
           pmm_bitmap' = [pmm_bitmap EXCEPT
                             ![Old!Word(i)] = @ \cup {Old!Bit(i)}],
           pmm_used_pages' = pmm_used_pages + 1
    PROVE  OldIInv' /\ Old!Unset' = Old!Unset \ {i}
<1> USE DEF OldIInv
<1>1. /\ FirstPage \in Nat /\ TotalPages \in Nat
      /\ BITS \in Nat /\ BITS > 0
      BY DEF Old!LegacyPMMAssumption
<1>2. i \in 0 .. (TotalPages - 1) /\ i >= FirstPage BY <1>1 DEF Old!Unset
<1>3. i \in Nat /\ Old!Word(i) \in Old!Words BY <1>2, WordOfFrame
<1>4. /\ pmm_bitmap' \in [Old!Words -> SUBSET (0 .. (BITS - 1))]
      /\ \A j \in Nat : Old!Word(j) \in Old!Words
            => (Old!IsSet(j)' <=> Old!IsSet(j) \/ j = i)
      BY <1>3, SetBit
<1>5. \A j \in 0 .. (TotalPages - 1) : Old!IsSet(j)' <=> Old!IsSet(j) \/ j = i
      BY <1>4, WordOfFrame
<1>6. Old!Unset' = Old!Unset \ {i} BY <1>1, <1>5 DEF Old!Unset
<1>7. /\ IsFiniteSet(Old!Unset) /\ IsFiniteSet(Old!Unset \ {i})
      /\ Cardinality(Old!Unset') = Cardinality(Old!Unset) - 1
      BY <1>6, UnsetFacts, FS_RemoveElement
<1>8. Cardinality(Old!Unset) \in Nat /\ Cardinality(Old!Unset') \in Nat
      BY <1>6, <1>7, FS_CardinalityType
<1>9. Counted' BY <1>1, <1>7, <1>8 DEF Counted, Old!TypeOK
<1>10. Old!TypeOK'
  <2>1. pmm_used_pages' \in FirstPage .. TotalPages
        BY <1>1, <1>8, <1>9 DEF Counted, Old!TypeOK
  <2>2. ASSUME NEW w \in Old!Words, NEW b \in pmm_bitmap'[w]
        PROVE  w * BITS + b < TotalPages
    <3>1. CASE b \in pmm_bitmap[w] BY <3>1 DEF Old!TypeOK
    <3>2. CASE b \notin pmm_bitmap[w]
      <4>1. w = Old!Word(i) /\ b = Old!Bit(i) BY <3>2 DEF Old!TypeOK
      <4>2. i = Old!Word(i) * BITS + Old!Bit(i) BY <1>3, PlaceOfFrame
      <4> QED BY <1>1, <1>2, <4>1, <4>2
    <3> QED BY <3>1, <3>2
  <2>3. \A j \in 0 .. (FirstPage - 1) : Old!IsSet(j)'
        BY <1>1, <1>2, <1>5 DEF Old!TypeOK
  <2> QED BY <1>4, <2>1, <2>2, <2>3 DEF Old!TypeOK
<1> QED BY <1>6, <1>9, <1>10

\* Giving a frame back: there is always one to take off the count, so the
\* guard of old/Include/PMM.c:86 never holds it.
LEMMA OldGiveFrame ==
    ASSUME Old!LegacyPMMAssumption, OldIInv, NEW i \in Nat, i >= FirstPage,
           Old!Word(i) \in Old!Words, Old!IsSet(i), Old!Clear(i)
    PROVE  OldIInv' /\ i \notin Old!Unset /\ Old!Unset' = Old!Unset \cup {i}
           /\ i < TotalPages
<1> USE DEF OldIInv
<1>1. /\ FirstPage \in Nat /\ TotalPages \in Nat
      /\ BITS \in Nat /\ BITS > 0
      BY DEF Old!LegacyPMMAssumption
<1>2. pmm_bitmap' = [pmm_bitmap EXCEPT ![Old!Word(i)] = @ \ {Old!Bit(i)}]
      /\ pmm_used_pages' = IF pmm_used_pages > FirstPage
                           THEN pmm_used_pages - 1 ELSE pmm_used_pages
      BY DEF Old!Clear
<1>3. i < TotalPages BY SetIsFrame
<1>4. /\ pmm_bitmap' \in [Old!Words -> SUBSET (0 .. (BITS - 1))]
      /\ \A j \in Nat : Old!Word(j) \in Old!Words
            => (Old!IsSet(j)' <=> Old!IsSet(j) /\ j # i)
      BY <1>2, ClearBit
<1>5. \A j \in 0 .. (TotalPages - 1) : Old!IsSet(j)' <=> Old!IsSet(j) /\ j # i
      BY <1>4, WordOfFrame
<1>6. i \notin Old!Unset BY DEF Old!Unset
<1>7. Old!Unset' = Old!Unset \cup {i} BY <1>1, <1>3, <1>5 DEF Old!Unset
<1>8. /\ IsFiniteSet(Old!Unset)
      /\ Cardinality(Old!Unset') = Cardinality(Old!Unset) + 1
      BY <1>6, <1>7, UnsetFacts, FS_AddElement
<1>9. Cardinality(Old!Unset) \in Nat BY <1>8, FS_CardinalityType
<1>10. Cardinality(Old!Unset') <= TotalPages - FirstPage
  <2>1. Old!Unset' \subseteq FirstPage .. (TotalPages - 1)
        BY <1>1, <1>3, <1>7, UnsetFacts
  <2>2. /\ IsFiniteSet(FirstPage .. (TotalPages - 1))
        /\ Cardinality(FirstPage .. (TotalPages - 1))
             = (TotalPages - 1) - FirstPage + 1
        BY <1>1, FS_Interval DEF Old!LegacyPMMAssumption
  <2>3. Cardinality(Old!Unset') <= (TotalPages - 1) - FirstPage + 1
    <3> DEFINE Ps == FirstPage .. (TotalPages - 1)
    <3> HIDE DEF Ps
    <3>1. Old!Unset' \in SUBSET Ps /\ IsFiniteSet(Ps)
          BY <2>1, <2>2 DEF Ps
    <3>2. Cardinality(Old!Unset') <= Cardinality(Ps)
          BY <3>1, FS_Subset
    <3> QED BY <2>2, <3>2 DEF Ps
  <2> QED BY <1>1, <1>8, <1>9, <2>3
<1>11. pmm_used_pages > FirstPage
       BY <1>1, <1>8, <1>9, <1>10 DEF Counted, Old!TypeOK
<1>12. Counted' BY <1>1, <1>2, <1>8, <1>9, <1>11 DEF Counted, Old!TypeOK
<1>13. Old!TypeOK'
  <2>1. pmm_used_pages' \in FirstPage .. TotalPages
        BY <1>1, <1>2, <1>11 DEF Old!TypeOK
  <2>2. \A w \in Old!Words : pmm_bitmap'[w] \subseteq pmm_bitmap[w]
        BY <1>2 DEF Old!TypeOK
  <2>3. \A j \in 0 .. (FirstPage - 1) : Old!IsSet(j)'
        BY <1>1, <1>3, <1>5 DEF Old!TypeOK
  <2> QED BY <1>4, <2>1, <2>2, <2>3 DEF Old!TypeOK
<1> QED BY <1>3, <1>6, <1>7, <1>12, <1>13

\* What a release finds: a frame index at or above FirstPage with a word.
LEMMA IndexOfAddress ==
    ASSUME Old!LegacyPMMAssumption, NEW page \in Old!Addresses
    PROVE  page \div PageSize \in Nat
BY DEF Old!LegacyPMMAssumption, Old!Addresses

LEMMA OldStutterIInv ==
    ASSUME OldIInv, UNCHANGED <<pmm_bitmap, pmm_used_pages>>
    PROVE  OldIInv' /\ Old!Unset' = Old!Unset
<1>1. Old!Unset' = Old!Unset BY DEF Old!Unset, Old!IsSet
<1> QED BY <1>1 DEF OldIInv, Old!TypeOK, Counted, Old!IsSet

LEMMA OldNextIInv ==
    ASSUME Old!LegacyPMMAssumption, OldIInv, [Old!Next]_(Old!vars)
    PROVE  OldIInv'
<1>1. CASE Old!PMM_ALLOC_PAGE
      BY <1>1, OldTakeFrame, OldStutterIInv DEF Old!PMM_ALLOC_PAGE
<1>2. ASSUME NEW page \in Old!Addresses, Old!PMM_FREE_PAGE(page)
      PROVE  OldIInv'
  <2> DEFINE i == page \div PageSize
  <2>1. i \in Nat BY IndexOfAddress
  <2>2. i >= FirstPage /\ Old!Word(i) \in Old!Words /\ Old!Clear(i)
        BY <1>2 DEF Old!PMM_FREE_PAGE
  <2> HIDE DEF i
  <2>3. CASE Old!IsSet(i) BY <2>1, <2>2, <2>3, OldGiveFrame
  <2>4. CASE ~Old!IsSet(i) BY <2>2, <2>4, OldStutterIInv DEF Old!Clear
  <2> QED BY <2>3, <2>4
<1>3. CASE UNCHANGED Old!vars BY <1>3, OldStutterIInv DEF Old!vars
<1> QED BY <1>1, <1>2, <1>3 DEF Old!Next

LEMMA OldInvariance == Old!Spec => []OldIInv
<1>1. Old!Init => OldIInv BY OldAssumption, OldInitIInv
<1>2. OldIInv /\ [Old!Next]_(Old!vars) => OldIInv'
      BY OldAssumption, OldNextIInv
<1> QED BY <1>1, <1>2, PTL DEF Old!Spec

(***************************************************************************)
(* Type correctness.  In particular no bit behind the last frame is ever   *)
(* set, although PMM_FREE_PAGE takes addresses there, and the kernel's     *)
(* frames stay in use (old/Include/PMM.c:74).                              *)
(***************************************************************************)
THEOREM OldTypeCorrect == Old!Spec => []Old!TypeOK
<1>1. OldIInv => Old!TypeOK BY DEF OldIInv
<1> QED BY <1>1, OldInvariance, PTL

LEMMA CountedFree ==
    ASSUME Old!LegacyPMMAssumption, OldIInv
    PROVE  Old!FreePages
<1>1. Cardinality(Old!Unset) \in Nat BY UnsetFacts, FS_CardinalityType
<1>2. TotalPages \in Nat /\ FirstPage \in Nat BY DEF Old!LegacyPMMAssumption
<1>3. Old!Cardinality(Old!Unset) = Cardinality(Old!Unset)
      BY DEF Old!Cardinality, Cardinality
<1> QED BY <1>1, <1>2, <1>3 DEF OldIInv, Old!TypeOK, Counted, Old!FreePages,
             Old!PMM_GET_FREE_PAGES

(***************************************************************************)
(* PMM_GET_FREE_PAGES is the number of frames PMM_ALLOC_PAGE can still     *)
(* hand out, after every sequence of requests, releases, second releases   *)
(* and releases of what was never handed out (old/Include/PMM.c:53-100).   *)
(***************************************************************************)
THEOREM OldFreePagesCorrect == Old!Spec => []Old!FreePages
<1>1. OldIInv => Old!FreePages BY OldAssumption, CountedFree
<1> QED BY <1>1, OldInvariance, PTL

-----------------------------------------------------------------------------
(***************************************************************************)
(* The refinement: a call is a step of the lowest-first allocator, or a    *)
(* stutter of it.                                                          *)
(***************************************************************************)
LEMMA HeldUnset ==
    /\ Old!Frames!Free = Old!Unset
    /\ Old!Held = (FirstPage .. (TotalPages - 1)) \ Old!Unset
BY DEF Old!Frames!Free, Old!Frames!Frames, Old!Held, Old!Unset

LEMMA OldNextRefines ==
    ASSUME Old!LegacyPMMAssumption, OldIInv, [Old!Next]_(Old!vars)
    PROVE  [Old!Frames!Next]_(Old!Frames!vars)
<1>0. /\ Old!Held' = (FirstPage .. (TotalPages - 1)) \ Old!Unset'
      /\ FirstPage \in Nat /\ TotalPages \in Nat
      BY DEF Old!Held, Old!Unset, Old!LegacyPMMAssumption
<1>1. CASE Old!PMM_ALLOC_PAGE
  <2>1. ASSUME NEW i \in Old!Unset,
               \A j \in Old!Unset : i <= j,
               pmm_bitmap' = [pmm_bitmap EXCEPT
                                 ![Old!Word(i)] = @ \cup {Old!Bit(i)}],
               pmm_used_pages' = pmm_used_pages + 1,
               old_ret' = i * PageSize
        PROVE  Old!Frames!Alloc
    <3>1. Old!Unset' = Old!Unset \ {i} BY <2>1, OldTakeFrame
    <3>2. i \in FirstPage .. (TotalPages - 1) BY DEF Old!Unset
    <3>3. Old!Held' = Old!Held \cup {i} BY <1>0, <3>1, <3>2, HeldUnset
    <3> QED BY <2>1, <3>3, HeldUnset DEF Old!Frames!Alloc
  <2>2. ASSUME Old!Unset = {}, old_ret' = 0,
               UNCHANGED <<pmm_bitmap, pmm_used_pages>>
        PROVE  Old!Frames!Exhausted
    <3>1. Old!Held' = Old!Held BY <1>0, <2>2, OldStutterIInv, HeldUnset
    <3> QED BY <2>2, <3>1, HeldUnset DEF Old!Frames!Exhausted
  <2> QED BY <1>1, <2>1, <2>2 DEF Old!PMM_ALLOC_PAGE, Old!Frames!Next
<1>2. ASSUME NEW page \in Old!Addresses, Old!PMM_FREE_PAGE(page)
      PROVE  [Old!Frames!Next]_(Old!Frames!vars)
  <2> DEFINE i == page \div PageSize
  <2>1. i \in Nat BY IndexOfAddress
  <2>2. /\ i >= FirstPage /\ Old!Word(i) \in Old!Words
        /\ Old!Clear(i) /\ old_ret' = old_ret
        BY <1>2 DEF Old!PMM_FREE_PAGE
  <2> HIDE DEF i
  <2>3. CASE Old!IsSet(i)
    <3>1. /\ i \notin Old!Unset /\ Old!Unset' = Old!Unset \cup {i}
          /\ i \in FirstPage .. (TotalPages - 1)
          BY <1>0, <2>1, <2>2, <2>3, OldGiveFrame
    <3>2. i \in Old!Held /\ Old!Held' = Old!Held \ {i} BY <1>0, <3>1, HeldUnset
    <3>3. Old!Frames!Release(i) BY <2>2, <3>2 DEF Old!Frames!Release
    <3> QED BY <3>2, <3>3 DEF Old!Frames!Next
  <2>4. CASE ~Old!IsSet(i)
    <3>1. Old!Held' = Old!Held
          BY <1>0, <2>2, <2>4, OldStutterIInv, HeldUnset DEF Old!Clear
    <3> QED BY <2>2, <3>1 DEF Old!Frames!vars
  <2> QED BY <2>3, <2>4
<1>3. CASE UNCHANGED Old!vars
  <2>1. Old!Held' = Old!Held
        BY <1>0, <1>3, OldStutterIInv, HeldUnset DEF Old!vars
  <2> QED BY <1>3, <2>1 DEF Old!vars, Old!Frames!vars
<1> QED BY <1>1, <1>2, <1>3 DEF Old!Next

(***************************************************************************)
(* PMM_ALLOC_PAGE and PMM_FREE_PAGE implement the lowest-first allocator   *)
(* of module FrameAllocator, as the second kernel's do                     *)
(* (old/Include/PMM.c:53-91).                                              *)
(***************************************************************************)
THEOREM OldRefinement == Old!Spec => Old!LowestFirst
<1>1. Old!Init => Old!Frames!Init
  <2> SUFFICES ASSUME Old!Init PROVE Old!Frames!Init OBVIOUS
  <2>1. Old!Held = {} BY OldAssumption, OldInitIInv, HeldUnset
  <2> QED BY <2>1 DEF Old!Init, Old!Frames!Init
<1>2. OldIInv /\ [Old!Next]_(Old!vars) => [Old!Frames!Next]_(Old!Frames!vars)
      BY OldAssumption, OldNextRefines
<1> QED BY <1>1, <1>2, OldInvariance, PTL
           DEF Old!Spec, Old!LowestFirst, Old!Frames!Spec

-----------------------------------------------------------------------------
\* PMM's and LegacyPMM's invariants, and what relates their states.
PairIInv == IInv /\ OldIInv /\ SameAnswers

-----------------------------------------------------------------------------
\* The two agree on what can be handed out.
LEMMA SameFree ==
    ASSUME TypeOK, NoFreeBelowHint, SameAnswers
    PROVE  /\ Old!Unset = Candidates
           /\ \A i \in Pages : i >= FirstPage
                 => (i \in Old!Held <=> bitmap[i] = 1)
<1>1. /\ FirstPage \in Nat /\ TotalPages \in Nat BY PMMAssumption
<1>2. Old!Held = InUse \ (0 .. (FirstPage - 1))
      BY DEF SameAnswers
<1>3. ASSUME NEW i \in Pages, i >= FirstPage
      PROVE  i \in Old!Held <=> bitmap[i] = 1
      BY <1>1, <1>2, <1>3 DEF InUse, Pages
<1>4. Old!Unset = (FirstPage .. (TotalPages - 1)) \ Old!Held
      BY DEF Old!Unset, Old!Held
<1>5. Candidates = {i \in Pages : i >= FirstPage /\ bitmap[i] = 0}
      BY CandidatesAreFree
<1>6. \A i \in Pages : bitmap[i] = 0 <=> ~(bitmap[i] = 1) BY DEF TypeOK
<1>7. Old!Unset = {i \in Pages : i >= FirstPage /\ ~(i \in Old!Held)}
      BY <1>1, <1>4 DEF Pages
<1> QED BY <1>3, <1>5, <1>6, <1>7

-----------------------------------------------------------------------------
LEMMA InitPair == PairInit => PairIInv
<1> SUFFICES ASSUME PairInit PROVE PairIInv OBVIOUS
<1>1. Init /\ Old!Init BY DEF PairInit
<1>2. IInv BY <1>1, InitIInv
<1>3. OldIInv /\ Old!Unset = FirstPage .. (TotalPages - 1)
      BY <1>1, OldAssumption, OldInitIInv
<1>4. Old!Held = {} BY <1>3 DEF Old!Unset, Old!Held
<1>5. InUse = 0 .. (FirstPage - 1)
      BY <1>1, PMMAssumption DEF Init, pmm_init, InUse, Pages
<1>6. ret = old_ret BY <1>1 DEF Init, Old!Init
<1>7. SameAnswers BY <1>4, <1>5, <1>6 DEF SameAnswers
<1> QED BY <1>2, <1>3, <1>7 DEF PairIInv

\* What the first kernel's bitmap makes of taking and giving a frame.
LEMMA OldTakes ==
    ASSUME OldIInv, NEW i \in Old!Unset,
           pmm_bitmap' = [pmm_bitmap EXCEPT ![Old!Word(i)]
                                                = @ \cup {Old!Bit(i)}],
           pmm_used_pages' = pmm_used_pages + 1
    PROVE  Old!Held' = Old!Held \cup {i}
<1>1. Old!Unset' = Old!Unset \ {i} BY OldAssumption, OldTakeFrame
<1>2. i \in FirstPage .. (TotalPages - 1) BY DEF Old!Unset
<1> QED BY <1>1, <1>2 DEF Old!Unset, Old!Held

\* Both take the lowest frame of the same set.
LEMMA AllocPair == ASSUME PairIInv, Alloc PROVE PairIInv'
<1>1. IInv /\ OldIInv /\ SameAnswers /\ alloc_page /\ Old!PMM_ALLOC_PAGE
      BY DEF PairIInv, Alloc
<1>2. IInv' BY <1>1, AllocIInv
<1>3. Old!Unset = Candidates BY <1>1, SameFree DEF IInv
<1>4. OldIInv' BY <1>1, OldAssumption, OldNextIInv DEF Old!Next
<1>5. Old!Held = InUse \ (0 .. (FirstPage - 1))
      BY <1>1 DEF SameAnswers
<1>6. ret' = old_ret' /\ Old!Held' = (InUse \ (0 .. (FirstPage - 1)))'
  <2>1. CASE Candidates = {}
    <3>1. ret' = 0 /\ bitmap' = bitmap BY <1>1, <2>1 DEF alloc_page
    <3>2. old_ret' = 0 /\ UNCHANGED <<pmm_bitmap, pmm_used_pages>>
          BY <1>1, <1>3, <2>1 DEF Old!PMM_ALLOC_PAGE
    <3>3. InUse' = InUse BY <3>1 DEF InUse, Pages
    <3>4. Old!Held' = Old!Held BY <3>2 DEF Old!Held, Old!IsSet
    <3> QED BY <1>5, <3>1, <3>2, <3>3, <3>4
  <2>2. CASE Candidates # {}
    <3>1. PICK i \in Candidates :
             /\ \A j \in Candidates : i <= j
             /\ bitmap' = [bitmap EXCEPT ![i] = 1]
             /\ ret' = i * PageSize
          BY <1>1, <2>2 DEF alloc_page
    <3>2. PICK k \in Old!Unset :
             /\ \A j \in Old!Unset : k <= j
             /\ pmm_bitmap' = [pmm_bitmap EXCEPT ![Old!Word(k)]
                                                     = @ \cup {Old!Bit(k)}]
             /\ pmm_used_pages' = pmm_used_pages + 1
             /\ old_ret' = k * PageSize
          BY <1>1, <1>3, <2>2 DEF Old!PMM_ALLOC_PAGE
    <3>3. i \in Pages /\ i >= FirstPage /\ bitmap[i] = 0
          BY <1>1, CandidateFacts DEF IInv
    <3>4. k = i
      <4>1. k \in Pages BY <1>1, <1>3, <3>2, CandidateFacts DEF IInv
      <4>2. i <= k /\ k <= i BY <1>3, <3>1, <3>2
      <4> QED BY <3>3, <4>1, <4>2, PMMAssumption DEF Pages
    <3>5. InUse' = InUse \cup {i} BY <1>1, <3>1, <3>3, TakeFrame DEF IInv
    <3>6. Old!Held' = Old!Held \cup {i}
          BY <1>1, <3>2, <3>4, OldTakes
    <3>7. i \notin 0 .. (FirstPage - 1) BY <3>3, PMMAssumption DEF Pages
    <3> QED BY <1>5, <3>1, <3>2, <3>4, <3>5, <3>6, <3>7
  <2> QED BY <2>1, <2>2
<1>7. SameAnswers' BY <1>6 DEF SameAnswers, Old!Held,
         Old!IsSet, Old!Word, Old!Bit
<1> QED BY <1>2, <1>4, <1>7 DEF PairIInv

\* A release on the old side: the frame, if it was held, and nothing else.
LEMMA OldGives ==
    ASSUME OldIInv, NEW page \in Old!Addresses, Old!PMM_FREE_PAGE(page)
    PROVE  Old!Held' = Old!Held \ {page \div PageSize}
<1> DEFINE i == page \div PageSize
<1>1. i \in Nat BY OldAssumption, IndexOfAddress
<1>2. /\ i >= FirstPage /\ Old!Word(i) \in Old!Words /\ Old!Clear(i)
      BY DEF Old!PMM_FREE_PAGE
<1> HIDE DEF i
<1>3. CASE Old!IsSet(i)
  <2>1. /\ Old!Unset' = Old!Unset \cup {i} /\ i \notin Old!Unset
        /\ i < TotalPages
        BY <1>1, <1>2, <1>3, OldAssumption, OldGiveFrame
  <2>2. i \in FirstPage .. (TotalPages - 1)
        BY <1>1, <1>2, <2>1, PMMAssumption
  <2> QED BY <2>1, <2>2 DEF Old!Unset, Old!Held, i
<1>4. CASE ~Old!IsSet(i)
  <2>1. Old!Held' = Old!Held
        BY <1>2, <1>4 DEF Old!Clear, Old!Held, Old!IsSet
  <2>2. i \notin Old!Held BY <1>4 DEF Old!Held
  <2> QED BY <2>1, <2>2 DEF i
<1> QED BY <1>3, <1>4

LEMMA FreePair ==
    ASSUME PairIInv, NEW a \in Addresses, pmm_free_page(a),
           Old!PMM_FREE_PAGE(a)
    PROVE  PairIInv'
<1>1. IInv /\ OldIInv /\ SameAnswers /\ Old!PMM_FREE_PAGE(a)
      BY DEF PairIInv
<1>2. IInv' BY <1>1, FreeIInv
<1>3. a \in Old!Addresses
  <2>1. /\ TotalPages \in Nat /\ PageSize \in Nat /\ BITS \in Nat
        BY OldAssumption DEF Old!LegacyPMMAssumption
  <2>2. BITS * PageSize \in Nat /\ TotalPages * PageSize \in Nat BY <2>1
  <2>3. (TotalPages + BITS) * PageSize
          = TotalPages * PageSize + BITS * PageSize
        BY <2>1
  <2> QED BY <2>1, <2>2, <2>3 DEF Addresses, Old!Addresses
<1>4. OldIInv'
      BY <1>1, <1>3, OldAssumption, OldNextIInv DEF Old!Next
<1>5. Old!Held' = Old!Held \ {page_index(a)}
      BY <1>1, <1>3, OldGives DEF page_index
<1> DEFINE i == page_index(a)
<1>6. i \in Pages BY PageOfAddress
<1>7. i >= FirstPage /\ Release(i) /\ ret' = ret BY DEF pmm_free_page
<1>8. Old!Held = InUse \ (0 .. (FirstPage - 1))
      BY <1>1 DEF SameAnswers
<1>9. InUse' = InUse \ {i}
  <2> HIDE DEF i
  <2>1. CASE bitmap[i] = 1
    <3>1. bitmap' = [bitmap EXCEPT ![i] = 0] BY <1>7, <2>1 DEF Release
    <3> QED BY <1>1, <1>6, <2>1, <3>1, GiveFrame DEF IInv
  <2>2. CASE bitmap[i] # 1
    <3>1. bitmap' = bitmap BY <1>7, <2>2 DEF Release
    <3> QED BY <2>2, <3>1 DEF InUse, Pages
  <2> QED BY <2>1, <2>2
<1>10. ret' = old_ret'
  <2>1. old_ret' = old_ret BY <1>1 DEF Old!PMM_FREE_PAGE
  <2> QED BY <1>1, <1>7, <2>1 DEF SameAnswers
<1>11. Old!Held' = (InUse \ (0 .. (FirstPage - 1)))' BY <1>5, <1>8, <1>9
<1>12. SameAnswers'
       BY <1>10, <1>11 DEF SameAnswers, Old!Held,
          Old!IsSet, Old!Word, Old!Bit
<1> QED BY <1>2, <1>4, <1>12 DEF PairIInv

\* An address behind the memory names no frame that is held.
LEMMA BeyondPair == ASSUME PairIInv, FreeBeyond PROVE PairIInv'
<1>1. PICK a \in Old!Addresses \ Addresses : Old!PMM_FREE_PAGE(a)
      BY DEF FreeBeyond
<1>2. IInv /\ OldIInv /\ SameAnswers /\ UNCHANGED vars
      BY DEF PairIInv, FreeBeyond
<1>3. IInv' BY <1>2, NextIInv
<1>4. OldIInv'
      BY <1>1, <1>2, OldAssumption, OldNextIInv DEF Old!Next
<1>5. a \div PageSize >= TotalPages
  <2>1. /\ PageSize \in Nat \ {0} /\ TotalPages \in Nat BY PMMAssumption
  <2>2. a \in Nat BY <1>1 DEF Old!Addresses
  <2>3. TotalPages * PageSize \in Nat BY <2>1
  <2>4. a >= TotalPages * PageSize BY <1>1, <2>1, <2>2, <2>3 DEF Addresses
  <2> DEFINE q == a \div PageSize
  <2>5. q \in Nat /\ a < (q + 1) * PageSize BY <2>1, <2>2
  <2> HIDE DEF q
  <2>6. q >= TotalPages
    <3> SUFFICES ASSUME q < TotalPages PROVE FALSE BY <2>1, <2>5
    <3>1. q + 1 <= TotalPages BY <2>1, <2>5
    <3>2. (q + 1) * PageSize <= TotalPages * PageSize BY <2>1, <2>5, <3>1
    <3>3. (q + 1) * PageSize \in Nat BY <2>1, <2>5
    <3> QED BY <2>2, <2>3, <2>4, <2>5, <3>2, <3>3
  <2> QED BY <2>6 DEF q
<1>6. Old!Held' = Old!Held
  <2>1. Old!Held' = Old!Held \ {a \div PageSize} BY <1>1, <1>2, OldGives
  <2>2. a \div PageSize \in Nat BY <1>1, OldAssumption, IndexOfAddress
  <2>3. a \div PageSize \notin Old!Held
        BY <1>5, <2>2, PMMAssumption DEF Old!Held
  <2> QED BY <2>1, <2>3
<1>7. old_ret' = old_ret BY <1>1 DEF Old!PMM_FREE_PAGE
<1>8. InUse' = InUse /\ ret' = ret BY <1>2 DEF vars, InUse, Pages
<1>9. Old!Held = InUse \ (0 .. (FirstPage - 1)) /\ ret = old_ret
      BY <1>2 DEF SameAnswers
<1>10. Old!Held' = (InUse \ (0 .. (FirstPage - 1)))'
       BY <1>6, <1>8, <1>9
<1>11. SameAnswers'
       BY <1>7, <1>8, <1>9, <1>10 DEF SameAnswers, Old!Held,
          Old!IsSet, Old!Word, Old!Bit
<1> QED BY <1>3, <1>4, <1>11 DEF PairIInv

LEMMA NextPair == PairIInv /\ [PairNext]_pairVars => PairIInv'
<1> SUFFICES ASSUME PairIInv, [PairNext]_pairVars PROVE PairIInv' OBVIOUS
<1>1. CASE UNCHANGED pairVars
  <2>1. UNCHANGED vars /\ UNCHANGED Old!vars
        BY <1>1 DEF pairVars, Old!vars
  <2>2. IInv' BY <2>1, NextIInv DEF PairIInv
  <2>3. OldIInv' BY <2>1, OldAssumption, OldNextIInv DEF PairIInv
  <2>4. SameAnswers'
        BY <2>1 DEF PairIInv, SameAnswers, vars, InUse, Pages, Old!vars,
                    Old!Held, Old!IsSet
  <2> QED BY <2>2, <2>3, <2>4 DEF PairIInv
<1> QED BY <1>1, AllocPair, FreePair, BeyondPair DEF PairNext, Free

LEMMA PairInvariance == PairSpec => []PairIInv
BY InitPair, NextPair, PTL DEF PairSpec

(***************************************************************************)
(* For every memory, every frame size and every width of a bitmap word the *)
(* second kernel's allocator answers as the first kernel's did and holds   *)
(* the same frames (Kernel/src/Include/PMM.c:46-113, old/Include/PMM.c:    *)
(* 53-91).                                                                 *)
(***************************************************************************)
THEOREM AnswersAgree == PairSpec => []SameAnswers
BY PairInvariance, PTL DEF PairIInv

(***************************************************************************)
(* PMM_GET_FREE_PAGES is right in the pair too, whatever is released.      *)
(***************************************************************************)
THEOREM PairFreePages == PairSpec => []FreePages
<1>1. PairIInv => FreePages
  <2> SUFFICES ASSUME PairIInv PROVE FreePages OBVIOUS
  <2>1. Old!FreePages BY OldAssumption, CountedFree DEF PairIInv
  <2> QED BY <2>1 DEF FreePages
<1> QED BY <1>1, PairInvariance, PTL
=============================================================================
