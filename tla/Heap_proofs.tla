---------------------------- MODULE Heap_proofs -----------------------------
(***************************************************************************)
(* Proofs about the kernel heap, for every header, page and request size.  *)
(***************************************************************************)
EXTENDS Heap, FiniteSetTheorems, TLAPS

Block == [size : Nat, used : BOOLEAN, next : Int, prev : Int]

\* Types that do not depend on one another; that every pointer is one to a
\* header follows from the rest of the invariant.
Types ==
    /\ Headers \subseteq Nat /\ block \in [Headers -> Block]
    /\ heap_start \in {NULL, 0} /\ heap_total \in Nat
    /\ frames \in 0 .. FRAMES
    /\ pc \in {"idle", "scan", "grow", "append", "insert", "merge"}
    /\ want \in Nat /\ req \in Nat /\ pages \in Nat

\* A block that is off the list has no links.
DeadLinks == \A h \in Headers \ Listed :
                block[h].next = NULL /\ block[h].prev = NULL

(***************************************************************************)
(* What each loop knows of its cursors.  The scan of kmalloc has passed    *)
(* only blocks that are too small; the walk of heap_expand is on the list  *)
(* and its new block behind all others; the walk of kfree keeps prev next  *)
(* to current and below the block; the pass of coalesce_blocks has left no *)
(* two neighbours behind.                                                  *)
(***************************************************************************)
ScanCursor ==
    /\ cur = NULL \/ cur \in Listed
    /\ \A h \in Listed : cur = NULL \/ h < cur => block[h].size < req

AppendCursor ==
    /\ cur = NULL \/ cur \in Listed
    /\ cur = NULL => free_list = NULL
    /\ blk \in Headers /\ ~block[blk].used
    /\ \A h \in Listed : h < blk

InsertCursor ==
    /\ blk \in Headers /\ ~block[blk].used
    /\ prv \in Listed \cup {NULL} /\ prv < blk
    /\ cur = IF prv = NULL THEN free_list ELSE block[prv].next

MergeCursor ==
    /\ cur \in Listed
    /\ \A h \in Listed : h < cur => block[h].next # End(block, h)

Cursors ==
    /\ (heap_start = NULL) <=> (heap_total = 0)
    /\ pc \in {"idle", "insert", "merge"} => want = 0
    /\ pc \in {"idle", "grow"} => cur = NULL
    /\ pc # "insert" => prv = NULL
    /\ pc \notin {"append", "insert"} => blk = NULL
    /\ pc = "append" => heap_start # NULL /\ pages > 0
    /\ pc = "scan" => ScanCursor
    /\ pc = "append" => AppendCursor
    /\ pc = "insert" => InsertCursor
    /\ pc = "merge" => MergeCursor

IInv == Types /\ Tiling /\ FreeListExact /\ DeadLinks /\ BlockCount /\ Cursors

-----------------------------------------------------------------------------
(***************************************************************************)
(* A doubly linked list in address order, whatever the other fields of its *)
(* blocks: it survives writes that leave its links alone, takes a block    *)
(* between two neighbours, and closes over a block taken out.              *)
(***************************************************************************)
LEMMA ChainSame ==
    ASSUME NEW b, NEW c, NEW S, NEW f, Chain(b, S, f),
           \A h \in S : c[h].next = b[h].next /\ c[h].prev = b[h].prev
    PROVE  Chain(c, S, f)
BY DEF Chain

\* The order alone: x goes into the gap between p and n.
LEMMA GapFill ==
    ASSUME NEW S \in SUBSET Nat, NEW x \in Nat, x \notin S,
           NEW p \in S \cup {NULL}, NEW n, LeastAbove(S, p, n), p < x,
           n = NULL \/ x < n
    PROVE  /\ n \in S \cup {NULL}
           /\ LeastAbove(S \cup {x}, p, x) /\ LeastAbove(S \cup {x}, x, n)
           /\ GreatestBelow(S \cup {x}, x, p)
           /\ n # NULL => GreatestBelow(S \cup {x}, n, x)
<1>1. \A h \in S : h \in Int /\ h >= 0 OBVIOUS
<1>2. CASE n = NULL BY <1>1, <1>2 DEF LeastAbove, GreatestBelow, NULL
<1>3. CASE n # NULL
  <2>1. n \in S /\ n \in Nat /\ \A h \in S : h <= p \/ n <= h
        BY <1>3 DEF LeastAbove
  <2>2. p \in Int BY DEF NULL
  <2> QED BY <1>1, <1>3, <2>1, <2>2 DEF LeastAbove, GreatestBelow, NULL
<1> QED BY <1>2, <1>3

\* Nothing changes for the other members.
LEMMA GapOthers ==
    ASSUME NEW S \in SUBSET Nat, NEW x \in Nat, x \notin S,
           NEW p \in S \cup {NULL}, NEW n, LeastAbove(S, p, n), p < x,
           n = NULL \/ x < n, NEW h \in S \cup {NULL}, NEW m
    PROVE  /\ h # p /\ LeastAbove(S, h, m) => LeastAbove(S \cup {x}, h, m)
           /\ h # n /\ h # NULL /\ GreatestBelow(S, h, m)
                 => GreatestBelow(S \cup {x}, h, m)
<1>1. \A y \in S : y \in Int /\ y >= 0 OBVIOUS
<1>2. p \in Int /\ h \in Int BY DEF NULL
<1>3. n \in S \cup {NULL} BY GapFill
<1>4. ASSUME h # p, LeastAbove(S, h, m) PROVE LeastAbove(S \cup {x}, h, m)
  <2>1. CASE m = NULL
    <3>1. \A y \in S : y <= h BY <1>4, <2>1 DEF LeastAbove
    <3>2. x <= h BY <1>1, <1>2, <1>3, <1>4, <3>1 DEF LeastAbove, NULL
    <3> QED BY <2>1, <3>1, <3>2 DEF LeastAbove
  <2>2. CASE m # NULL
    <3>1. m \in S /\ h < m /\ \A y \in S : y <= h \/ m <= y
          BY <1>4, <2>2 DEF LeastAbove
    <3>2. m \in Int BY <1>1, <3>1
    <3>3. x <= h \/ m <= x
          BY <1>1, <1>2, <1>3, <1>4, <3>1, <3>2 DEF LeastAbove, NULL
    <3> QED BY <2>2, <3>1, <3>3 DEF LeastAbove
  <2> QED BY <2>1, <2>2
<1>5. ASSUME h # n, h # NULL, GreatestBelow(S, h, m)
      PROVE  GreatestBelow(S \cup {x}, h, m)
  <2>1. CASE m = NULL
    <3>1. \A y \in S : h <= y BY <1>5, <2>1 DEF GreatestBelow
    <3>2. h <= x BY <1>1, <1>2, <1>3, <1>5, <3>1 DEF LeastAbove, NULL
    <3> QED BY <2>1, <3>1, <3>2 DEF GreatestBelow
  <2>2. CASE m # NULL
    <3>1. m \in S /\ m < h /\ \A y \in S : h <= y \/ y <= m
          BY <1>5, <2>2 DEF GreatestBelow
    <3>2. m \in Int BY <1>1, <3>1
    <3>3. h <= x \/ x <= m
          BY <1>1, <1>2, <1>3, <1>5, <3>1, <3>2 DEF LeastAbove, NULL
    <3> QED BY <2>2, <3>1, <3>3 DEF GreatestBelow
  <2> QED BY <2>1, <2>2
<1> QED BY <1>4, <1>5

\* c is b with x linked in between p and n.
LinkedIn(b, c, S, f, x, p, n) ==
    /\ Chain(b, S, f) /\ S \in SUBSET Nat /\ x \in Nat /\ x \notin S
    /\ p \in S \cup {NULL} /\ p < x /\ (n = NULL \/ x < n)
    /\ n = IF p = NULL THEN f ELSE b[p].next
    /\ c[x].next = n /\ c[x].prev = p
    /\ \A h \in S : /\ c[h].next = IF h = p THEN x ELSE b[h].next
                    /\ c[h].prev = IF h = n THEN x ELSE b[h].prev

LEMMA ChainInsert ==
    ASSUME NEW b, NEW c, NEW S, NEW f, NEW x, NEW p, NEW n,
           LinkedIn(b, c, S, f, x, p, n)
    PROVE  Chain(c, S \cup {x}, IF p = NULL THEN x ELSE f)
<1> USE DEF LinkedIn
<1>1. LeastAbove(S, p, n) BY DEF Chain
<1>2. NULL \notin S /\ x # NULL BY DEF NULL
<1>3. LeastAbove(S \cup {x}, NULL, IF p = NULL THEN x ELSE f)
  <2>1. CASE p = NULL
    <3>1. LeastAbove(S \cup {x}, p, x) BY <1>1, GapFill
    <3> QED BY <2>1, <3>1
  <2>2. CASE p # NULL
    <3>1. LeastAbove(S, NULL, f) BY DEF Chain
    <3> QED BY <1>1, <2>2, <3>1, GapOthers
  <2> QED BY <2>1, <2>2
<1>4. ASSUME NEW h \in S
      PROVE  /\ LeastAbove(S \cup {x}, h, c[h].next)
             /\ GreatestBelow(S \cup {x}, h, c[h].prev)
  <2>1. LeastAbove(S, h, b[h].next) /\ GreatestBelow(S, h, b[h].prev)
        BY DEF Chain
  <2>2. LeastAbove(S \cup {x}, h, c[h].next)
    <3>1. CASE h = p BY <1>1, <3>1, GapFill
    <3>2. CASE h # p BY <1>1, <2>1, <3>2, GapOthers
    <3> QED BY <3>1, <3>2
  <2>3. GreatestBelow(S \cup {x}, h, c[h].prev)
    <3>1. CASE h = n
      <4>1. n # NULL /\ c[h].prev = x BY <1>2, <3>1
      <4>2. /\ S \in SUBSET Nat /\ x \in Nat /\ x \notin S
            /\ p \in S \cup {NULL} /\ p < x /\ (n = NULL \/ x < n)
            OBVIOUS
      <4> HIDE DEF LinkedIn
      <4>3. GreatestBelow(S \cup {x}, n, x) BY <1>1, <4>1, <4>2, GapFill
      <4> QED BY <3>1, <4>1, <4>3
    <3>2. CASE h # n
      <4>1. h # NULL /\ c[h].prev = b[h].prev BY <1>2, <3>2
      <4>2. /\ S \in SUBSET Nat /\ x \in Nat /\ x \notin S
            /\ p \in S \cup {NULL} /\ p < x /\ (n = NULL \/ x < n)
            OBVIOUS
      <4> HIDE DEF LinkedIn
      <4>3. GreatestBelow(S \cup {x}, h, b[h].prev)
            BY <1>1, <2>1, <3>2, <4>1, <4>2, GapOthers
      <4> QED BY <4>1, <4>3
    <3> QED BY <3>1, <3>2
  <2> QED BY <2>2, <2>3
<1>5. /\ LeastAbove(S \cup {x}, x, c[x].next)
      /\ GreatestBelow(S \cup {x}, x, c[x].prev)
  <2>1. /\ S \in SUBSET Nat /\ x \in Nat /\ x \notin S
        /\ p \in S \cup {NULL} /\ p < x /\ (n = NULL \/ x < n)
        OBVIOUS
  <2>2. c[x].next = n /\ c[x].prev = p OBVIOUS
  <2> HIDE DEF LinkedIn
  <2>3. LeastAbove(S \cup {x}, x, n) /\ GreatestBelow(S \cup {x}, x, p)
        BY <1>1, <2>1, GapFill
  <2> QED BY <2>2, <2>3
<1> QED BY <1>3, <1>4, <1>5 DEF Chain

\* The order alone: x leaves, and p and n become neighbours.
LEMMA GapClose ==
    ASSUME NEW S \in SUBSET Nat, NEW x \in S, NEW p, NEW n,
           LeastAbove(S, x, n), GreatestBelow(S, x, p)
    PROVE  /\ p \in (S \ {x}) \cup {NULL} /\ n \in (S \ {x}) \cup {NULL}
           /\ LeastAbove(S \ {x}, p, n)
           /\ n # NULL => GreatestBelow(S \ {x}, n, p)
<1>1. \A h \in S : h \in Int /\ h >= 0 OBVIOUS
<1>2. NULL \in Int /\ NULL < 0 BY DEF NULL
<1>3. p \in S \cup {NULL} /\ p < x
      BY <1>1, <1>2 DEF GreatestBelow
<1>4. n \in S \cup {NULL} /\ (n # NULL => x < n) BY DEF LeastAbove
<1>5. \A h \in S : h <= x \/ (n # NULL /\ n <= h)
      BY <1>1, <1>4 DEF LeastAbove
<1>6. \A h \in S : x <= h \/ (p # NULL /\ h <= p)
      BY <1>1, <1>3 DEF GreatestBelow
<1>7. p \in Int /\ n \in Int /\ x \in Int BY <1>1, <1>2, <1>3, <1>4
<1>8. \A h \in S \ {x} : h <= p \/ (n # NULL /\ n <= h)
      BY <1>1, <1>5, <1>6, <1>7
<1>9. LeastAbove(S \ {x}, p, n)
      BY <1>1, <1>3, <1>4, <1>7, <1>8 DEF LeastAbove
<1>10. \A h \in S \ {x} : (p # NULL /\ h <= p) \/ n = NULL \/ n <= h
       BY <1>1, <1>5, <1>6, <1>7
<1>11. n # NULL => GreatestBelow(S \ {x}, n, p)
       BY <1>1, <1>3, <1>4, <1>7, <1>10 DEF GreatestBelow
<1> QED BY <1>1, <1>3, <1>4, <1>7, <1>9, <1>11

LEMMA GapCloseOthers ==
    ASSUME NEW S \in SUBSET Nat, NEW x \in S, NEW p, NEW n,
           LeastAbove(S, x, n), GreatestBelow(S, x, p),
           NEW h \in (S \ {x}) \cup {NULL}, NEW m
    PROVE  /\ h # p /\ LeastAbove(S, h, m) => LeastAbove(S \ {x}, h, m)
           /\ h # n /\ h # NULL /\ GreatestBelow(S, h, m)
                 => GreatestBelow(S \ {x}, h, m)
<1>1. \A y \in S : y \in Int /\ y >= 0 OBVIOUS
<1>2. NULL \in Int /\ NULL < 0 BY DEF NULL
<1>3. h \in Int /\ x \in Int BY <1>1, <1>2
<1>4. ASSUME h # p, LeastAbove(S, h, m) PROVE LeastAbove(S \ {x}, h, m)
  <2>1. m # x
    <3> SUFFICES ASSUME m = x PROVE FALSE OBVIOUS
    <3>1. h < x /\ \A y \in S : y <= h \/ x <= y
          BY <1>1, <1>2, <1>4 DEF LeastAbove
    <3>2. CASE p = NULL
      <4>1. \A y \in S : x <= y BY <3>2 DEF GreatestBelow
      <4> QED BY <1>1, <1>3, <1>4, <3>1, <3>2, <4>1
    <3>3. CASE p # NULL
      <4>1. p \in S /\ p < x /\ \A y \in S : x <= y \/ y <= p
            BY <3>3 DEF GreatestBelow
      <4>2. p <= h BY <1>1, <1>3, <3>1, <4>1
      <4>3. h <= p BY <1>1, <1>2, <1>3, <3>1, <4>1
      <4> QED BY <1>1, <1>3, <1>4, <4>1, <4>2, <4>3
    <3> QED BY <3>2, <3>3
  <2> QED BY <1>4, <2>1 DEF LeastAbove
<1>5. ASSUME h # n, h # NULL, GreatestBelow(S, h, m)
      PROVE  GreatestBelow(S \ {x}, h, m)
  <2>1. m # x
    <3> SUFFICES ASSUME m = x PROVE FALSE OBVIOUS
    <3>1. x < h /\ \A y \in S : h <= y \/ y <= x
          BY <1>1, <1>2, <1>5 DEF GreatestBelow
    <3>2. n # NULL
          BY <1>1, <1>3, <1>5, <3>1 DEF LeastAbove
    <3>3. n \in S /\ x < n /\ \A y \in S : y <= x \/ n <= y
          BY <3>2 DEF LeastAbove
    <3>4. n <= h BY <1>1, <1>3, <1>5, <3>1, <3>3
    <3>5. h <= n BY <1>1, <1>3, <3>1, <3>3
    <3> QED BY <1>1, <1>3, <1>5, <3>3, <3>4, <3>5
  <2> QED BY <1>5, <2>1 DEF GreatestBelow
<1> QED BY <1>4, <1>5

\* c is b with x between p and n taken out.
LinkedOut(b, c, S, f, x, p, n) ==
    /\ Chain(b, S, f) /\ S \in SUBSET Nat /\ x \in S
    /\ p = b[x].prev /\ n = b[x].next
    /\ \A h \in S \ {x} : /\ c[h].next = IF h = p THEN n ELSE b[h].next
                          /\ c[h].prev = IF h = n THEN p ELSE b[h].prev

LEMMA ChainRemove ==
    ASSUME NEW b, NEW c, NEW S, NEW f, NEW x, NEW p, NEW n,
           LinkedOut(b, c, S, f, x, p, n)
    PROVE  Chain(c, S \ {x}, IF p = NULL THEN n ELSE f)
<1> USE DEF LinkedOut
<1>1. LeastAbove(S, x, n) /\ GreatestBelow(S, x, p) BY DEF Chain
<1>2. NULL \notin S BY DEF NULL
<1>3. LeastAbove(S \ {x}, NULL, IF p = NULL THEN n ELSE f)
  <2>1. CASE p = NULL BY <1>1, <2>1, GapClose
  <2>2. CASE p # NULL
    <3>1. LeastAbove(S, NULL, f) BY DEF Chain
    <3> QED BY <1>1, <2>2, <3>1, GapCloseOthers
  <2> QED BY <2>1, <2>2
<1>4. ASSUME NEW h \in S \ {x}
      PROVE  /\ LeastAbove(S \ {x}, h, c[h].next)
             /\ GreatestBelow(S \ {x}, h, c[h].prev)
  <2>1. LeastAbove(S, h, b[h].next) /\ GreatestBelow(S, h, b[h].prev)
        BY DEF Chain
  <2>2. LeastAbove(S \ {x}, h, c[h].next)
    <3>1. CASE h = p BY <1>1, <3>1, GapClose
    <3>2. CASE h # p BY <1>1, <2>1, <3>2, GapCloseOthers
    <3> QED BY <3>1, <3>2
  <2>3. GreatestBelow(S \ {x}, h, c[h].prev)
    <3>1. CASE h = n
      <4>1. n # NULL /\ c[h].prev = p BY <1>2, <3>1
      <4>2. S \in SUBSET Nat /\ x \in S OBVIOUS
      <4> HIDE DEF LinkedOut
      <4>3. /\ p \in (S \ {x}) \cup {NULL} /\ n \in (S \ {x}) \cup {NULL}
            /\ LeastAbove(S \ {x}, p, n)
            /\ n # NULL => GreatestBelow(S \ {x}, n, p)
            BY ONLY <1>1, <4>2, GapClose
      <4> QED BY <3>1, <4>1, <4>3
    <3>2. CASE h # n
      <4>1. h # NULL /\ c[h].prev = b[h].prev BY <1>2, <3>2
      <4>2. S \in SUBSET Nat /\ x \in S OBVIOUS
      <4> HIDE DEF LinkedOut
      <4>3. GreatestBelow(S \ {x}, h, b[h].prev)
            BY <1>1, <2>1, <3>2, <4>1, <4>2, GapCloseOthers
      <4> QED BY <4>1, <4>3
    <3> QED BY <3>1, <3>2
  <2> QED BY <2>2, <2>3
<1> QED BY <1>3, <1>4 DEF Chain

-----------------------------------------------------------------------------
(***************************************************************************)
(* The tiling depends on where the headers are and on their sizes only.    *)
(***************************************************************************)
LEMMA TilesSame ==
    ASSUME NEW b, NEW c, NEW t, Tiles(b, t), DOMAIN c = DOMAIN b,
           \A h \in DOMAIN b : c[h].size = b[h].size
    PROVE  Tiles(c, t)
BY DEF Tiles, End

\* A page more at the end.
LEMMA TilesExtend ==
    ASSUME NEW b, NEW c, NEW t \in Nat, Tiles(b, t),
           DOMAIN b \subseteq Nat, \A h \in DOMAIN b : b[h].size \in Nat,
           DOMAIN c = DOMAIN b \cup {t},
           \A h \in DOMAIN b : c[h].size = b[h].size,
           c[t].size = PAGE_SIZE - HDR
    PROVE  Tiles(c, t + PAGE_SIZE) /\ t \notin DOMAIN b
<1> USE HeapAssumption
<1>1. t \notin DOMAIN b
  <2> SUFFICES ASSUME t \in DOMAIN b PROVE FALSE OBVIOUS
  <2>1. End(b, t) <= t BY DEF Tiles
  <2> QED BY <2>1 DEF End
<1>2. End(c, t) = t + PAGE_SIZE BY DEF End
<1>3. \A h \in DOMAIN b : End(c, h) = End(b, h) /\ End(b, h) \in Nat
      BY DEF End
<1>4. \A h \in DOMAIN b : h \in Nat /\ h < t
      BY <1>3 DEF Tiles, End
<1>5. 0 \in DOMAIN c BY DEF Tiles
<1>6. ASSUME NEW h \in DOMAIN b
      PROVE  /\ End(c, h) \in DOMAIN c \cup {t + PAGE_SIZE}
             /\ End(c, h) <= t + PAGE_SIZE
             /\ \A g \in DOMAIN c : g > h => g >= End(c, h)
      BY <1>3, <1>4 DEF Tiles
<1>7. /\ End(c, t) \in DOMAIN c \cup {t + PAGE_SIZE}
      /\ End(c, t) <= t + PAGE_SIZE
      /\ \A g \in DOMAIN c : g > t => g >= End(c, t)
      BY <1>2, <1>4
<1> QED BY <1>1, <1>5, <1>6, <1>7 DEF Tiles

\* A block cut in two, the second behind a header of its own.
LEMMA TilesSplit ==
    ASSUME NEW b, NEW c, NEW t \in Nat, Tiles(b, t),
           DOMAIN b \subseteq Nat, \A h \in DOMAIN b : b[h].size \in Nat,
           NEW x \in DOMAIN b, NEW n \in Nat, n + HDR <= b[x].size,
           NEW y, y = x + HDR + n,
           DOMAIN c = DOMAIN b \cup {y},
           \A h \in DOMAIN b \ {x} : c[h].size = b[h].size,
           c[x].size = n, c[y].size = b[x].size - n - HDR
    PROVE  Tiles(c, t) /\ y \notin DOMAIN b /\ y \in Nat /\ x < y
<1> USE HeapAssumption
<1>1. x \in Nat /\ y \in Nat /\ x < y /\ y < End(b, x) BY DEF End
<1>2. y \notin DOMAIN b BY <1>1 DEF Tiles, End
<1>3. End(c, x) = y /\ End(c, y) = End(b, x) BY <1>1 DEF End
<1>4. \A h \in DOMAIN b \ {x} : End(c, h) = End(b, h) BY DEF End
<1>5. \A h \in DOMAIN b : h \in Nat /\ End(b, h) \in Nat /\ h < End(b, h)
      BY DEF End
<1>6. ASSUME NEW h \in DOMAIN b \ {x}
      PROVE  /\ End(c, h) \in DOMAIN c \cup {t}
             /\ End(c, h) <= t
             /\ \A g \in DOMAIN c : g > h => g >= End(c, h)
  <2>1. CASE h < x
    <3>1. x >= End(b, h) BY <1>1, <2>1 DEF Tiles
    <3> QED BY <1>1, <1>4, <1>5, <3>1 DEF Tiles
  <2>2. CASE h > x
    <3>1. h >= End(b, x) BY <1>1, <2>2 DEF Tiles
    <3> QED BY <1>1, <1>4, <1>5, <3>1 DEF Tiles
  <2> QED BY <1>1, <1>5, <2>1, <2>2
<1>7. /\ End(c, x) \in DOMAIN c \cup {t}
      /\ End(c, x) <= t
      /\ \A g \in DOMAIN c : g > x => g >= End(c, x)
      BY <1>1, <1>3, <1>5 DEF Tiles
<1>8. /\ End(c, y) \in DOMAIN c \cup {t}
      /\ End(c, y) <= t
      /\ \A g \in DOMAIN c : g > y => g >= End(c, y)
      BY <1>1, <1>3, <1>5 DEF Tiles
<1>9. t > 0 => 0 \in DOMAIN c BY DEF Tiles
<1> QED BY <1>1, <1>2, <1>6, <1>7, <1>8, <1>9 DEF Tiles

\* A block joined to the one behind it.
LEMMA TilesMerge ==
    ASSUME NEW b, NEW c, NEW t \in Nat, Tiles(b, t),
           DOMAIN b \subseteq Nat, \A h \in DOMAIN b : b[h].size \in Nat,
           NEW x \in DOMAIN b, NEW n \in DOMAIN b, n = End(b, x),
           DOMAIN c = DOMAIN b \ {n},
           \A h \in DOMAIN b \ {x, n} : c[h].size = b[h].size,
           c[x].size = b[x].size + HDR + b[n].size
    PROVE  Tiles(c, t) /\ x # n
<1> USE HeapAssumption
<1>1. x \in Nat /\ n \in Nat /\ x < n BY DEF End
<1>2. End(c, x) = End(b, n) BY DEF End
<1>3. \A h \in DOMAIN b \ {x, n} : End(c, h) = End(b, h) BY DEF End
<1>4. \A h \in DOMAIN b : h \in Nat /\ End(b, h) \in Nat /\ h < End(b, h)
      BY DEF End
<1>5. ASSUME NEW h \in DOMAIN c \ {x}
      PROVE  /\ End(c, h) \in DOMAIN c \cup {t}
             /\ End(c, h) <= t
             /\ \A g \in DOMAIN c : g > h => g >= End(c, h)
  <2>1. End(b, h) # n
    <3>1. CASE h < x
      <4>1. x >= End(b, h) BY <1>1, <3>1 DEF Tiles
      <4> QED BY <1>1, <1>4, <4>1
    <3>2. CASE h > x
      <4>1. h >= n BY <1>1, <3>2 DEF Tiles
      <4> QED BY <1>1, <1>4, <4>1
    <3> QED BY <1>1, <1>4, <3>1, <3>2
  <2> QED BY <1>3, <2>1 DEF Tiles
<1>6. /\ End(c, x) \in DOMAIN c \cup {t}
      /\ End(c, x) <= t
      /\ \A g \in DOMAIN c : g > x => g >= End(c, x)
  <2>1. \A g \in DOMAIN c : g > x => g > n BY <1>1, <1>4 DEF Tiles
  <2>2. End(b, n) # n BY <1>4
  <2> QED BY <1>1, <1>2, <2>1, <2>2 DEF Tiles
<1>7. t > 0 => 0 \in DOMAIN c BY <1>1 DEF Tiles
<1> QED BY <1>1, <1>5, <1>6, <1>7 DEF Tiles

-----------------------------------------------------------------------------
(***************************************************************************)
(* What the writes of the code leave in each field.                        *)
(***************************************************************************)
LEMMA SetNextFields ==
    ASSUME NEW D \in SUBSET Int, NEW b \in [D -> Block],
           NEW h \in Int, NEW v \in Int
    PROVE  /\ SetNext(b, h, v) \in [D -> Block]
           /\ \A x \in D : /\ SetNext(b, h, v)[x].size = b[x].size
                           /\ SetNext(b, h, v)[x].used = b[x].used
                           /\ SetNext(b, h, v)[x].prev = b[x].prev
                           /\ SetNext(b, h, v)[x].next
                                = IF x = h THEN v ELSE b[x].next
BY DEF SetNext, Block

LEMMA SetPrevFields ==
    ASSUME NEW D \in SUBSET Int, NEW b \in [D -> Block],
           NEW h \in Int, NEW v \in Int
    PROVE  /\ SetPrev(b, h, v) \in [D -> Block]
           /\ \A x \in D : /\ SetPrev(b, h, v)[x].size = b[x].size
                           /\ SetPrev(b, h, v)[x].used = b[x].used
                           /\ SetPrev(b, h, v)[x].next = b[x].next
                           /\ SetPrev(b, h, v)[x].prev
                                = IF x = h THEN v ELSE b[x].prev
BY DEF SetPrev, Block

LEMMA UnlinkFields ==
    ASSUME NEW D \in SUBSET Int, NEW b \in [D -> Block], NEW h \in D
    PROVE  /\ Unlink(b, h) \in [D -> Block]
           /\ \A x \in D : /\ Unlink(b, h)[x].size = b[x].size
                           /\ Unlink(b, h)[x].used = b[x].used
           /\ \A x \in D \ {h} :
                 /\ Unlink(b, h)[x].next
                      = IF x = b[h].prev THEN b[h].next ELSE b[x].next
                 /\ Unlink(b, h)[x].prev
                      = IF x = b[h].next THEN b[h].prev ELSE b[x].prev
           /\ Unlink(b, h)[h].next = NULL /\ Unlink(b, h)[h].prev = NULL
<1> DEFINE c == SetNext(b, b[h].prev, b[h].next)
           d == SetPrev(c, b[h].next, b[h].prev)
<1>1. b[h].next \in Int /\ b[h].prev \in Int /\ h \in Int BY DEF Block
<1>2. /\ c \in [D -> Block]
      /\ \A x \in D : /\ c[x].size = b[x].size /\ c[x].used = b[x].used
                      /\ c[x].prev = b[x].prev
                      /\ c[x].next = IF x = b[h].prev THEN b[h].next
                                                      ELSE b[x].next
      BY <1>1, SetNextFields
<1> HIDE DEF c
<1>3. /\ d \in [D -> Block]
      /\ \A x \in D : /\ d[x].size = c[x].size /\ d[x].used = c[x].used
                      /\ d[x].next = c[x].next
                      /\ d[x].prev = IF x = b[h].next THEN b[h].prev
                                                      ELSE c[x].prev
      BY <1>1, <1>2, SetPrevFields
<1>4. Unlink(b, h) = SetPrev(SetNext(d, h, NULL), h, NULL)
      BY DEF Unlink, c
<1> HIDE DEF d
<1>5. NULL \in Int /\ h \in Int /\ d \in [D -> Block] BY <1>3 DEF NULL
<1>6. /\ SetNext(d, h, NULL) \in [D -> Block]
      /\ \A x \in D : /\ SetNext(d, h, NULL)[x].size = d[x].size
                      /\ SetNext(d, h, NULL)[x].used = d[x].used
                      /\ SetNext(d, h, NULL)[x].prev = d[x].prev
                      /\ SetNext(d, h, NULL)[x].next
                           = IF x = h THEN NULL ELSE d[x].next
      BY <1>5, SetNextFields
<1>7. /\ Unlink(b, h) \in [D -> Block]
      /\ \A x \in D : /\ Unlink(b, h)[x].size = d[x].size
                      /\ Unlink(b, h)[x].used = d[x].used
                      /\ Unlink(b, h)[x].next
                           = IF x = h THEN NULL ELSE d[x].next
                      /\ Unlink(b, h)[x].prev
                           = IF x = h THEN NULL ELSE d[x].prev
      BY <1>1, <1>4, <1>5, <1>6, SetPrevFields
<1> QED BY <1>2, <1>3, <1>7

\* The record of one header with its links, or its size and next, written.
WithLinks(b, h, p, n) == [b EXCEPT ![h].prev = p, ![h].next = n]

WithSizeNext(b, h, k, n) == [b EXCEPT ![h].size = k, ![h].next = n]

LEMMA LinksFields ==
    ASSUME NEW D \in SUBSET Int, NEW b \in [D -> Block], NEW h \in D,
           NEW p \in Int, NEW n \in Int,
           NEW c, c = WithLinks(b, h, p, n)
    PROVE  /\ c \in [D -> Block]
           /\ \A x \in D : /\ c[x].size = b[x].size /\ c[x].used = b[x].used
                           /\ c[x].prev = IF x = h THEN p ELSE b[x].prev
                           /\ c[x].next = IF x = h THEN n ELSE b[x].next
<1> DEFINE row == [b[h] EXCEPT !.prev = p, !.next = n]
<1>1. b[h] \in Block OBVIOUS
<1>2. /\ row \in Block /\ row.size = b[h].size /\ row.used = b[h].used
      /\ row.prev = p /\ row.next = n
      BY <1>1 DEF Block
<1>3. c = [b EXCEPT ![h] = row] BY DEF row, WithLinks
<1> HIDE DEF row
<1>4. c \in [D -> Block] BY ONLY <1>2, <1>3, b \in [D -> Block]
<1>5. c[h] = row BY ONLY <1>3, b \in [D -> Block], h \in D
<1>6. \A x \in D : x # h => c[x] = b[x] BY ONLY <1>3, b \in [D -> Block]
<1> QED BY <1>2, <1>4, <1>5, <1>6

LEMMA SizeNextFields ==
    ASSUME NEW D \in SUBSET Int, NEW b \in [D -> Block], NEW h \in D,
           NEW k \in Nat, NEW n \in Int,
           NEW c, c = WithSizeNext(b, h, k, n)
    PROVE  /\ c \in [D -> Block]
           /\ \A x \in D : /\ c[x].used = b[x].used /\ c[x].prev = b[x].prev
                           /\ c[x].size = IF x = h THEN k ELSE b[x].size
                           /\ c[x].next = IF x = h THEN n ELSE b[x].next
<1> DEFINE row == [b[h] EXCEPT !.size = k, !.next = n]
<1>1. b[h] \in Block OBVIOUS
<1>2. /\ row \in Block /\ row.size = k /\ row.used = b[h].used
      /\ row.prev = b[h].prev /\ row.next = n
      BY <1>1 DEF Block
<1>3. c = [b EXCEPT ![h] = row] BY DEF row, WithSizeNext
<1> HIDE DEF row
<1>4. c \in [D -> Block] BY ONLY <1>2, <1>3, b \in [D -> Block]
<1>5. c[h] = row BY ONLY <1>3, b \in [D -> Block], h \in D
<1>6. \A x \in D : x # h => c[x] = b[x] BY ONLY <1>3, b \in [D -> Block]
<1> QED BY <1>2, <1>4, <1>5, <1>6

\* What split_block finds: b[h] is long enough for a header at y.
SplitAt(D, b, h, y, n, s) ==
    /\ D \in SUBSET Int /\ b \in [D -> Block] /\ h \in D /\ req \in Nat
    /\ y \in Int /\ y = Rest(h) /\ y \notin D
    /\ n = b[h].next /\ h # n
    /\ s \in Nat /\ s = b[h].size - req - HDR

\* What it leaves: d is b with the block at h cut at y.
IsSplit(D, b, d, h, y, n, s) ==
    /\ d \in [D \cup {y} -> Block]
    /\ \A x \in D : /\ d[x].size = IF x = h THEN req ELSE b[x].size
                    /\ d[x].used = b[x].used
                    /\ d[x].next = IF x = h THEN y ELSE b[x].next
                    /\ d[x].prev = IF x = n THEN y ELSE b[x].prev
    /\ d[y] = Unused(s, n, h)

LEMMA SplitFields ==
    ASSUME NEW D, NEW b, NEW h, NEW y, NEW n, NEW s, SplitAt(D, b, h, y, n, s)
    PROVE  IsSplit(D, b, Split(b, h), h, y, n, s)
<1> DEFINE c == SetPrev(b, n, y)
           d == SetNext(c, h, y)
           e == [d EXCEPT ![h].size = req]
<1> USE DEF SplitAt
<1>1. n \in Int /\ h \in Int BY DEF Block
<1>2. Split(b, h) = Write(e, y, Unused(s, n, h)) BY DEF Split
<1>3. /\ c \in [D -> Block]
      /\ \A x \in D : /\ c[x].size = b[x].size /\ c[x].used = b[x].used
                      /\ c[x].next = b[x].next
                      /\ c[x].prev = IF x = n THEN y ELSE b[x].prev
      BY <1>1, SetPrevFields
<1> HIDE DEF c
<1>4. /\ d \in [D -> Block]
      /\ \A x \in D : /\ d[x].size = c[x].size /\ d[x].used = c[x].used
                      /\ d[x].prev = c[x].prev
                      /\ d[x].next = IF x = h THEN y ELSE c[x].next
      BY <1>1, <1>3, SetNextFields
<1> HIDE DEF d
<1>5. /\ e \in [D -> Block]
      /\ \A x \in D : /\ e[x].size = IF x = h THEN req ELSE d[x].size
                      /\ e[x].used = d[x].used
                      /\ e[x].prev = d[x].prev /\ e[x].next = d[x].next
      BY <1>4 DEF Block
<1> HIDE DEF e
<1>6. Unused(s, n, h) \in Block BY <1>1 DEF Unused, Block
<1>7. /\ Split(b, h) \in [D \cup {y} -> Block]
      /\ \A x \in D : Split(b, h)[x] = e[x]
      /\ Split(b, h)[y] = Unused(s, n, h)
  <2> DEFINE u == Unused(s, n, h)
  <2>1. DOMAIN e = D BY <1>5
  <2>2. Split(b, h) = [x \in D \cup {y} |-> IF x = y THEN u ELSE e[x]]
        BY <1>2, <2>1 DEF Write
  <2>3. u \in Block /\ y \notin D /\ \A x \in D : e[x] \in Block
        BY <1>5, <1>6
  <2> HIDE DEF u, SplitAt
  <2>4. /\ Split(b, h) \in [D \cup {y} -> Block]
        /\ \A x \in D : Split(b, h)[x] = e[x]
        /\ Split(b, h)[y] = u
        BY <2>2, <2>3
  <2> QED BY <2>4 DEF u
<1> QED BY <1>3, <1>4, <1>5, <1>7 DEF IsSplit

-----------------------------------------------------------------------------
(***************************************************************************)
(* What the invariant says of the headers and of the list.                 *)
(***************************************************************************)
LEMMA ListedFacts ==
    ASSUME IInv
    PROVE  /\ Listed \in SUBSET Nat /\ Listed \subseteq Headers
           /\ \A h \in Listed : ~block[h].used
           /\ NULL \notin Headers
           /\ LeastAbove(Listed, NULL, free_list)
           /\ \A h \in Listed : /\ LeastAbove(Listed, h, block[h].next)
                                /\ GreatestBelow(Listed, h, block[h].prev)
<1>1. Headers \in SUBSET Nat BY DEF IInv, Types
<1>2. Listed \subseteq Headers /\ \A h \in Listed : ~block[h].used
      BY DEF Listed
<1>3. NULL \notin Nat BY DEF NULL
<1> QED BY <1>1, <1>2, <1>3 DEF IInv, FreeListExact, Chain

LEMMA LinksListed ==
    ASSUME IInv
    PROVE  /\ free_list \in Listed \cup {NULL}
           /\ \A h \in Listed : /\ block[h].next \in Listed \cup {NULL}
                                /\ block[h].prev \in Listed \cup {NULL}
BY ListedFacts DEF LeastAbove, GreatestBelow

LEMMA BlockFacts ==
    ASSUME IInv
    PROVE  /\ block \in [Headers -> Block] /\ Headers \in SUBSET Int
           /\ \A h \in Headers : /\ h \in Nat /\ block[h].size \in Nat
                                 /\ block[h].next \in Int
                                 /\ block[h].prev \in Int
<1>1. block \in [Headers -> Block] /\ Headers \subseteq Nat
      BY DEF IInv, Types
<1>2. \A h \in Headers : block[h] \in Block BY <1>1
<1> QED BY <1>1, <1>2 DEF Block

\* Every header lies inside the heap, so there are finitely many.
LEMMA HeadersFinite ==
    ASSUME IInv
    PROVE  IsFiniteSet(Headers)
<1>1. Headers \subseteq Nat /\ heap_total \in Nat
        /\ \A h \in Headers : block[h].size \in Nat
      BY BlockFacts DEF IInv, Types
<1>2. \A h \in Headers : h \in 0 .. heap_total
      BY <1>1, HeapAssumption DEF IInv, Tiling, Tiles, End, Headers
<1>3. IsFiniteSet(0 .. heap_total) BY <1>1, FS_Interval
<1> QED BY <1>2, <1>3, FS_Subset

\* The members of the list below its first one: none.
LEMMA NoneBelowFirst ==
    ASSUME IInv, NEW h \in Listed
    PROVE  free_list # NULL /\ ~(h < free_list)
<1>1. h \in Nat /\ NULL \in Int /\ NULL < 0 BY ListedFacts DEF NULL
<1>2. free_list = NULL \/ free_list \in Nat
      BY ListedFacts DEF LeastAbove
<1> QED BY <1>1, <1>2, ListedFacts DEF LeastAbove

LEMMA RoundedNat ==
    ASSUME NEW n \in Nat
    PROVE  Rounded(n) \in Nat
<1>1. (n + ALIGN - 1) % WORD \in Nat BY HeapAssumption
<1>2. ((n + ALIGN - 1) % WORD) \div ALIGN \in Nat BY <1>1, HeapAssumption
<1> QED BY <1>2, HeapAssumption DEF Rounded

LEMMA PagesNeededNat ==
    ASSUME req \in Nat
    PROVE  PagesNeeded \in Nat
<1>1. (req + HDR) % WORD \in Nat BY HeapAssumption
<1>2. (((req + HDR) % WORD) + PAGE_SIZE - 1) % WORD \in Nat
      BY <1>1, HeapAssumption
<1>3. ((((req + HDR) % WORD) + PAGE_SIZE - 1) % WORD) \div PAGE_SIZE \in Nat
      BY <1>2, HeapAssumption
<1> QED BY <1>3 DEF PagesNeeded

(***************************************************************************)
(* Steps that write nothing in memory keep all but the cursors' facts.     *)
(***************************************************************************)
LEMMA SameHeap ==
    ASSUME IInv, UNCHANGED heap, Listed' = Listed,
           (pc = "append") <=> (pc' = "append")
    PROVE  /\ Headers' = Headers /\ Headers' \subseteq Nat
           /\ block' \in [Headers' -> Block]
           /\ heap_start' \in {NULL, 0} /\ heap_total' \in Nat
           /\ (heap_start' = NULL) <=> (heap_total' = 0)
           /\ Tiling' /\ FreeListExact' /\ DeadLinks' /\ BlockCount'
<1>1. /\ block' = block /\ heap_start' = heap_start
      /\ heap_total' = heap_total /\ free_list' = free_list
      /\ heap_blocks' = heap_blocks
      BY DEF heap
<1>2. Headers' = Headers BY <1>1 DEF Headers
<1> QED BY <1>1, <1>2 DEF IInv, Types, Cursors, Tiling, FreeListExact,
                          DeadLinks, BlockCount

LEMMA KmallocIInv ==
    ASSUME IInv, NEW n \in Requests, Kmalloc(n)
    PROVE  IInv'
<1>1. UNCHANGED heap /\ pc = "idle" /\ pc' = "scan" /\ cur' = free_list
        /\ UNCHANGED <<frames, pages, prv, blk>>
      BY DEF Kmalloc
<1>2. Listed' = Listed BY <1>1 DEF heap, Listed, Headers
<1>3. n \in Nat BY HeapAssumption
<1>4. want' \in Nat /\ req' \in Nat BY <1>3, RoundedNat DEF Kmalloc
<1>5. Types' BY <1>1, <1>2, <1>4, SameHeap DEF IInv, Types
<1>6. ScanCursor'
  <2>1. free_list = NULL \/ free_list \in Listed
        BY ListedFacts DEF LeastAbove
  <2>2. \A h \in Listed : ~(free_list = NULL \/ h < free_list)
        BY NoneBelowFirst
  <2> QED BY <1>1, <1>2, <2>1, <2>2 DEF ScanCursor
<1>7. Cursors' BY <1>1, <1>2, <1>6, SameHeap DEF IInv, Cursors
<1> QED BY <1>1, <1>2, <1>5, <1>7, SameHeap DEF IInv

LEMMA ScanSkipIInv ==
    ASSUME IInv, ScanSkip
    PROVE  IInv'
<1>1. UNCHANGED heap /\ pc = "scan" /\ pc' = "scan"
        /\ UNCHANGED <<frames, want, req, pages, prv, blk>>
        /\ cur # NULL /\ ~Fits(cur) /\ cur' = block[cur].next
      BY DEF ScanSkip
<1>2. Listed' = Listed BY <1>1 DEF heap, Listed, Headers
<1>3. Types' BY <1>1, <1>2, SameHeap DEF IInv, Types
<1>4. ScanCursor'
  <2>1. cur \in Listed /\ \A h \in Listed : h < cur => block[h].size < req
        BY <1>1 DEF IInv, Cursors, ScanCursor
  <2>2. block[cur].size < req /\ cur \in Nat
        BY <1>1, <2>1, ListedFacts, BlockFacts DEF Fits, IInv, Types
  <2>3. LeastAbove(Listed, cur, cur') BY <1>1, <2>1, ListedFacts
  <2>4. cur' = NULL \/ cur' \in Listed BY <2>3 DEF LeastAbove
  <2>5. \A h \in Listed : cur' = NULL \/ h < cur' => h <= cur
        BY <2>2, <2>3, <2>4, ListedFacts DEF LeastAbove
  <2>6. \A h \in Listed : h <= cur => block[h].size < req
        BY <2>1, <2>2, ListedFacts
  <2> QED BY <1>1, <1>2, <2>4, <2>5, <2>6 DEF ScanCursor, heap
<1>5. Cursors' BY <1>1, <1>2, <1>4, SameHeap DEF IInv, Cursors
<1> QED BY <1>1, <1>2, <1>3, <1>5, SameHeap DEF IInv

LEMMA ScanGrowIInv ==
    ASSUME IInv, ScanGrow
    PROVE  IInv'
<1>1. UNCHANGED heap /\ pc = "scan" /\ pc' = "grow" /\ pages' = PagesNeeded
        /\ UNCHANGED <<frames, want, req, cur, prv, blk>> /\ cur = NULL
      BY DEF ScanGrow
<1>2. Listed' = Listed BY <1>1 DEF heap, Listed, Headers
<1>3. Types' BY <1>1, <1>2, SameHeap, PagesNeededNat DEF IInv, Types
<1>4. Cursors' BY <1>1, <1>2, SameHeap DEF IInv, Cursors
<1> QED BY <1>1, <1>2, <1>3, <1>4, SameHeap DEF IInv

LEMMA GrowDoneIInv ==
    ASSUME IInv, GrowDone
    PROVE  IInv'
<1>1. /\ UNCHANGED heap /\ pc = "grow" /\ pc' \in {"idle", "scan"}
      /\ pages' = 0 /\ UNCHANGED <<frames, req, prv, blk>>
      /\ (pc' = "idle" => want' = 0 /\ cur' = cur)
      /\ (pc' = "scan" => want' = want /\ cur' = free_list)
      BY DEF GrowDone
<1>2. Listed' = Listed BY <1>1 DEF heap, Listed, Headers
<1>3. Types' BY <1>1, <1>2, SameHeap DEF IInv, Types
<1>4. pc' = "scan" => ScanCursor'
  <2>1. free_list = NULL \/ free_list \in Listed
        BY ListedFacts DEF LeastAbove
  <2>2. \A h \in Listed : ~(free_list = NULL \/ h < free_list)
        BY NoneBelowFirst
  <2> QED BY <1>1, <1>2, <2>1, <2>2 DEF ScanCursor
<1>5. Cursors' BY <1>1, <1>2, <1>4, SameHeap DEF IInv, Cursors
<1> QED BY <1>1, <1>2, <1>3, <1>5, SameHeap DEF IInv

LEMMA AppendNextIInv ==
    ASSUME IInv, AppendNext
    PROVE  IInv'
<1>1. UNCHANGED heap /\ pc = "append" /\ pc' = "append"
        /\ UNCHANGED <<frames, want, req, pages, prv, blk>>
        /\ cur # NULL /\ block[cur].next # NULL /\ cur' = block[cur].next
      BY DEF AppendNext, AtLast
<1>2. Listed' = Listed BY <1>1 DEF heap, Listed, Headers
<1>3. Types' BY <1>1, <1>2, SameHeap DEF IInv, Types
<1>4. AppendCursor'
  <2>1. cur \in Listed BY <1>1 DEF IInv, Cursors, AppendCursor
  <2>2. cur' \in Listed BY <1>1, <2>1, ListedFacts DEF LeastAbove
  <2>3. cur' # NULL BY <1>1
  <2> QED BY <1>1, <1>2, <2>2, <2>3
          DEF heap, IInv, Cursors, AppendCursor, Headers
<1>5. Cursors' BY <1>1, <1>2, <1>4, SameHeap DEF IInv, Cursors, heap
<1> QED BY <1>1, <1>2, <1>3, <1>5, SameHeap DEF IInv

LEMMA InsertNextIInv ==
    ASSUME IInv, InsertNext
    PROVE  IInv'
<1>1. UNCHANGED heap /\ pc = "insert" /\ pc' = "insert"
        /\ UNCHANGED <<frames, want, req, pages, blk>>
        /\ cur # NULL /\ cur < blk /\ prv' = cur /\ cur' = block[cur].next
      BY DEF InsertNext
<1>2. Listed' = Listed BY <1>1 DEF heap, Listed, Headers
<1>3. Types' BY <1>1, <1>2, SameHeap DEF IInv, Types
<1>4. cur \in Listed
  <2>1. CASE prv = NULL
        BY <1>1, <2>1, ListedFacts DEF IInv, Cursors, InsertCursor, LeastAbove
  <2>2. CASE prv # NULL
        BY <1>1, <2>2, ListedFacts DEF IInv, Cursors, InsertCursor, LeastAbove
  <2> QED BY <2>1, <2>2
<1>5. InsertCursor'
      BY <1>1, <1>2, <1>4 DEF heap, IInv, Cursors, InsertCursor, Headers
<1>6. Cursors' BY <1>1, <1>2, <1>5, SameHeap DEF IInv, Cursors, heap
<1> QED BY <1>1, <1>2, <1>3, <1>6, SameHeap DEF IInv

LEMMA MergeNextIInv ==
    ASSUME IInv, MergeNext
    PROVE  IInv'
<1>1. UNCHANGED heap /\ pc = "merge" /\ pc' = "merge"
        /\ UNCHANGED <<frames, want, req, pages, prv, blk>>
        /\ cur # NULL /\ block[cur].next # NULL /\ ~Mergeable(cur)
        /\ cur' = block[cur].next
      BY DEF MergeNext, AtLast
<1>2. Listed' = Listed BY <1>1 DEF heap, Listed, Headers
<1>3. Types' BY <1>1, <1>2, SameHeap DEF IInv, Types
<1>4. MergeCursor'
  <2>1. cur \in Listed /\ \A h \in Listed : h < cur
                               => block[h].next # End(block, h)
        BY <1>1 DEF IInv, Cursors, MergeCursor
  <2>2. LeastAbove(Listed, cur, cur') /\ cur' \in Listed
        BY <1>1, <2>1, ListedFacts DEF LeastAbove
  <2>3. block[cur].next # End(block, cur)
        BY <1>1, <2>1, <2>2, ListedFacts DEF Mergeable
  <2>4. \A h \in Listed : h < cur' => h <= cur
        BY <1>1, <2>1, <2>2, ListedFacts DEF LeastAbove
  <2>5. \A h \in Listed : h <= cur => block[h].next # End(block, h)
        BY <2>1, <2>3, ListedFacts
  <2> QED BY <1>1, <1>2, <2>2, <2>4, <2>5 DEF MergeCursor, heap, End
<1>5. Cursors' BY <1>1, <1>2, <1>4, SameHeap DEF IInv, Cursors
<1> QED BY <1>1, <1>2, <1>3, <1>5, SameHeap DEF IInv

LEMMA MergeDoneIInv ==
    ASSUME IInv, MergeDone
    PROVE  IInv'
<1>1. UNCHANGED heap /\ pc = "merge" /\ pc' = "idle" /\ cur' = NULL
        /\ UNCHANGED <<frames, want, req, pages, prv, blk>>
      BY DEF MergeDone
<1>2. Listed' = Listed BY <1>1 DEF heap, Listed, Headers
<1>3. Types' BY <1>1, <1>2, SameHeap DEF IInv, Types
<1>4. Cursors' BY <1>1, <1>2, SameHeap DEF IInv, Cursors
<1> QED BY <1>1, <1>2, <1>3, <1>4, SameHeap DEF IInv

(***************************************************************************)
(* A step that keeps the headers' links and uses, and the list's members,  *)
(* keeps the list.                                                         *)
(***************************************************************************)
LEMMA KfreeIInv ==
    ASSUME IInv, NEW g \in Headers, Kfree(g)
    PROVE  IInv'
<1>1. /\ pc = "idle"
      /\ UNCHANGED <<heap_start, free_list, heap_total, heap_blocks,
                     frames, want, req, pages>>
      BY DEF Kfree
<1>2. CASE ~block[g].used
  <2>1. UNCHANGED vars BY <1>1, <1>2 DEF Kfree, vars, heap
  <2>2. Listed' = Listed BY <2>1 DEF vars, heap, Listed, Headers
  <2>3. Types' BY <2>1, <2>2, SameHeap DEF vars, IInv, Types
  <2>4. Cursors' BY <1>1, <2>1, <2>2, SameHeap DEF vars, IInv, Cursors
  <2> QED BY <2>1, <2>2, <2>3, <2>4, SameHeap DEF vars, IInv
<1>3. CASE block[g].used
  <2>1. /\ block' = [block EXCEPT ![g].used = FALSE]
        /\ pc' = "insert" /\ cur' = free_list /\ prv' = NULL /\ blk' = g
        BY <1>3 DEF Kfree
  <2>2. /\ Headers' = Headers /\ block' \in [Headers -> Block]
        /\ \A h \in Headers : /\ block'[h].size = block[h].size
                              /\ block'[h].next = block[h].next
                              /\ block'[h].prev = block[h].prev
                              /\ block'[h].used = (block[h].used /\ h # g)
        BY <2>1, BlockFacts DEF Headers, Block
  <2>3. Listed' = Listed /\ g \notin Listed
        BY <1>1, <1>3, <2>1, <2>2 DEF Listed
  <2>4. Types' BY <1>1, <2>1, <2>2 DEF IInv, Types
  <2>5. Tiling' BY <1>1, <2>2, TilesSame DEF IInv, Tiling, Headers
  <2>6. FreeListExact'
    <3>1. Chain(block', Listed, free_list)
          BY <2>2, ListedFacts, ChainSame DEF IInv, FreeListExact
    <3> QED BY <1>1, <2>3, <3>1 DEF FreeListExact
  <2>7. DeadLinks' BY <2>2, <2>3 DEF IInv, DeadLinks
  <2>8. BlockCount' BY <1>1, <2>1, <2>2 DEF IInv, BlockCount
  <2>9. InsertCursor'
    <3>1. NULL < g BY BlockFacts DEF NULL
    <3>2. g \in Headers' /\ ~block'[g].used BY <2>2
    <3> QED BY <1>1, <2>1, <3>1, <3>2 DEF InsertCursor
  <2>10. Cursors' BY <1>1, <2>1, <2>9 DEF IInv, Cursors
  <2> QED BY <2>4, <2>5, <2>6, <2>7, <2>8, <2>10 DEF IInv
<1> QED BY <1>2, <1>3

(***************************************************************************)
(* Pages: a header more, behind all others.                                *)
(***************************************************************************)
LEMMA PageAdded ==
    ASSUME IInv, block' = Write(block, heap_total, Fresh),
           heap_total' = heap_total + PAGE_SIZE
    PROVE  /\ Tiling' /\ heap_total \notin Headers
           /\ \A h \in Headers : h < heap_total
           /\ Headers' = Headers \cup {heap_total} /\ Headers' \subseteq Nat
           /\ block' \in [Headers' -> Block]
           /\ \A h \in Headers : block'[h] = block[h]
           /\ block'[heap_total] = Unused(PAGE_SIZE - HDR, NULL, NULL)
           /\ Cardinality(Headers') = Cardinality(Headers) + 1
<1>1. heap_total \in Nat /\ Headers \subseteq Nat
        /\ block \in [Headers -> Block]
      BY DEF IInv, Types
<1>2. Fresh \in Block
      BY HeapAssumption DEF Fresh, Unused, Block, NULL
<1>3. /\ Headers' = Headers \cup {heap_total} /\ Headers' \subseteq Nat
      /\ block' \in [Headers' -> Block]
      /\ block'[heap_total] = Unused(PAGE_SIZE - HDR, NULL, NULL)
      BY <1>1, <1>2 DEF Write, Headers, Fresh
<1>4. block'[heap_total].size = PAGE_SIZE - HDR BY <1>3 DEF Unused
<1>5. \A h \in Headers : h < heap_total
      BY <1>1, BlockFacts, HeapAssumption
         DEF IInv, Tiling, Tiles, End, Headers
<1>6. heap_total \notin Headers BY <1>1, <1>5
<1>7. \A h \in Headers : block'[h] = block[h]
      BY <1>1, <1>6 DEF Write, Headers
<1>8. Tiling'
  <2>1. Tiles(block, heap_total) BY DEF IInv, Tiling
  <2>2. \A h \in DOMAIN block : /\ block[h].size \in Nat
                                /\ block'[h].size = block[h].size
        BY <1>7, BlockFacts DEF Headers
  <2>3. DOMAIN block' = DOMAIN block \cup {heap_total}
        BY <1>3 DEF Headers
  <2>4. Tiles(block', heap_total + PAGE_SIZE)
        BY <1>1, <1>4, <2>1, <2>2, <2>3, TilesExtend DEF Headers
  <2> QED BY <2>4 DEF Tiling
<1>9. Cardinality(Headers') = Cardinality(Headers) + 1
      BY <1>3, <1>6, HeadersFinite, FS_AddElement
<1> QED BY <1>3, <1>5, <1>6, <1>7, <1>8, <1>9

LEMMA NextPageIInv ==
    ASSUME IInv, NextPage
    PROVE  IInv'
<1>1. /\ pc = "grow" /\ pages > 0 /\ frames > 0 /\ heap_start # NULL
      /\ block' = Write(block, heap_total, Fresh)
      /\ heap_total' = heap_total + PAGE_SIZE /\ frames' = frames - 1
      /\ pc' = "append" /\ blk' = heap_total /\ cur' = free_list
      /\ UNCHANGED <<heap_start, free_list, heap_blocks,
                     want, req, pages, prv>>
      BY DEF NextPage
<1> DEFINE t == heap_total
<1>2. /\ Tiling' /\ t \notin Headers /\ \A h \in Headers : h < t
      /\ Headers' = Headers \cup {t} /\ Headers' \subseteq Nat
      /\ block' \in [Headers' -> Block]
      /\ \A h \in Headers : block'[h] = block[h]
      /\ block'[t] = Unused(PAGE_SIZE - HDR, NULL, NULL)
      /\ Cardinality(Headers') = Cardinality(Headers) + 1
      BY <1>1, PageAdded
<1>3. block'[t].next = NULL /\ block'[t].prev = NULL /\ ~block'[t].used
      BY <1>2 DEF Unused
<1>4. Listed' = Listed BY <1>1, <1>2, <1>3 DEF Listed
<1>5. Types'
  <2>1. heap_total' \in Nat /\ frames' \in 0 .. FRAMES
        BY <1>1, HeapAssumption DEF IInv, Types
  <2> QED BY <1>1, <1>2, <2>1 DEF IInv, Types
<1>6. FreeListExact'
  <2>1. Chain(block', Listed, free_list)
        BY <1>2, ListedFacts, ChainSame DEF IInv, FreeListExact
  <2> QED BY <1>1, <1>4, <2>1 DEF FreeListExact
<1>7. DeadLinks' BY <1>2, <1>3, <1>4 DEF IInv, DeadLinks
<1>8. BlockCount'
  <2>1. Cardinality(Headers) \in Nat BY HeadersFinite, FS_CardinalityType
  <2>2. heap_blocks = Cardinality(Headers)
        BY <1>1, <2>1 DEF IInv, BlockCount
  <2> QED BY <1>1, <1>2, <2>1, <2>2 DEF BlockCount
<1>9. AppendCursor'
  <2>1. free_list = NULL \/ free_list \in Listed
        BY ListedFacts DEF LeastAbove
  <2> QED BY <1>1, <1>2, <1>3, <1>4, <2>1, ListedFacts DEF AppendCursor
<1>10. Cursors'
  <2>1. heap_total' # 0 BY <1>1, HeapAssumption DEF IInv, Types
  <2> QED BY <1>1, <1>9, <2>1 DEF IInv, Cursors
<1> QED BY <1>2, <1>5, <1>6, <1>7, <1>8, <1>10 DEF IInv

LEMMA FirstPageIInv ==
    ASSUME IInv, FirstPage
    PROVE  IInv'
<1>1. /\ pc = "grow" /\ frames > 0 /\ heap_start = NULL
      /\ block' = Write(block, heap_total, Fresh)
      /\ heap_start' = heap_total /\ free_list' = heap_total
      /\ heap_total' = heap_total + PAGE_SIZE /\ frames' = frames - 1
      /\ heap_blocks' = 1 /\ pages > 0 /\ pages' = pages - 1
      /\ UNCHANGED <<pc, want, req, cur, prv, blk>>
      BY DEF FirstPage
<1>2. heap_total = 0 BY <1>1 DEF IInv, Cursors
<1>3. /\ Tiling' /\ \A h \in Headers : h < 0
      /\ Headers' = Headers \cup {0} /\ Headers' \subseteq Nat
      /\ block' \in [Headers' -> Block]
      /\ block'[0] = Unused(PAGE_SIZE - HDR, NULL, NULL)
      BY <1>1, <1>2, PageAdded
<1>4. Headers = {} /\ Headers' = {0}
  <2>1. \A h \in Headers : h \in Nat /\ h < 0 BY <1>3, BlockFacts
  <2>2. \A h \in Headers : FALSE BY <2>1
  <2> QED BY <1>3, <2>2
<1>5. block'[0].next = NULL /\ block'[0].prev = NULL /\ ~block'[0].used
      BY <1>3 DEF Unused
<1>6. Listed' = {0} BY <1>1, <1>4, <1>5 DEF Listed
<1>7. Types'
  <2>1. heap_total' \in Nat /\ frames' \in 0 .. FRAMES /\ pages' \in Nat
        BY <1>1, HeapAssumption DEF IInv, Types
  <2> QED BY <1>1, <1>2, <1>3, <2>1 DEF IInv, Types
<1>8. FreeListExact'
  <2>1. LeastAbove({0}, NULL, 0) BY DEF LeastAbove, NULL
  <2>2. LeastAbove({0}, 0, NULL) /\ GreatestBelow({0}, 0, NULL)
        BY DEF LeastAbove, GreatestBelow
  <2> QED BY <1>1, <1>2, <1>5, <1>6, <2>1, <2>2 DEF FreeListExact, Chain
<1>9. DeadLinks' BY <1>4, <1>6 DEF DeadLinks
<1>10. BlockCount'
  <2>1. Cardinality(Headers') = 1 BY <1>4, FS_Singleton
  <2> QED BY <1>1, <2>1 DEF BlockCount
<1>11. Cursors'
  <2>1. heap_total' # 0 /\ heap_start' # NULL
        BY <1>1, <1>2, HeapAssumption DEF NULL
  <2> QED BY <1>1, <2>1 DEF IInv, Cursors
<1> QED BY <1>3, <1>7, <1>8, <1>9, <1>10, <1>11 DEF IInv

(***************************************************************************)
(* kmalloc takes a block, whole.                                           *)
(***************************************************************************)
LEMMA TakeWholeIInv ==
    ASSUME IInv, TakeWhole
    PROVE  IInv'
<1> DEFINE c == [block EXCEPT ![cur].used = TRUE]
           p == block[cur].prev
           n == block[cur].next
<1>1. /\ pc = "scan" /\ cur # NULL /\ pc' = "idle"
      /\ block' = Unlink(c, cur)
      /\ free_list' = IF p = NULL THEN n ELSE free_list
      /\ want' = 0 /\ req' = 0 /\ cur' = NULL
      /\ UNCHANGED <<heap_blocks, heap_start, heap_total, frames, pages,
                     prv, blk>>
      BY DEF TakeWhole, Serve
<1>2. cur \in Listed /\ cur \in Headers
      BY <1>1, ListedFacts DEF IInv, Cursors, ScanCursor
<1>3. /\ c \in [Headers -> Block]
      /\ \A x \in Headers : /\ c[x].size = block[x].size
                            /\ c[x].next = block[x].next
                            /\ c[x].prev = block[x].prev
                            /\ c[x].used = (block[x].used \/ x = cur)
      BY <1>2, BlockFacts DEF Block
<1> HIDE DEF c
<1>4. c[cur].next = n /\ c[cur].prev = p BY <1>2, <1>3
<1>5. /\ block' \in [Headers -> Block]
      /\ \A x \in Headers : /\ block'[x].size = c[x].size
                            /\ block'[x].used = c[x].used
      /\ \A x \in Headers \ {cur} :
            /\ block'[x].next = IF x = p THEN n ELSE c[x].next
            /\ block'[x].prev = IF x = n THEN p ELSE c[x].prev
      /\ block'[cur].next = NULL /\ block'[cur].prev = NULL
  <2>1. Headers \in SUBSET Int BY BlockFacts
  <2>2. /\ block' \in [Headers -> Block]
        /\ \A x \in Headers : /\ block'[x].size = c[x].size
                              /\ block'[x].used = c[x].used
        /\ \A x \in Headers \ {cur} :
              /\ block'[x].next = IF x = c[cur].prev THEN c[cur].next
                                                    ELSE c[x].next
              /\ block'[x].prev = IF x = c[cur].next THEN c[cur].prev
                                                    ELSE c[x].prev
        /\ block'[cur].next = NULL /\ block'[cur].prev = NULL
        BY <1>1, <1>2, <1>3, <2>1, UnlinkFields
  <2> QED BY <1>4, <2>2
<1>6. Headers' = Headers BY <1>5 DEF Headers
<1>7. Listed' = Listed \ {cur}
  <2>1. \A x \in Headers : block'[x].used = (block[x].used \/ x = cur)
        BY <1>3, <1>5
  <2>2. Listed = {x \in Headers : ~block[x].used} BY <1>1 DEF Listed
  <2>3. Listed' = {x \in Headers : ~block'[x].used}
        BY <1>1, <1>6 DEF Listed
  <2> QED BY <2>1, <2>2, <2>3
<1>8. Types' BY <1>1, <1>5, <1>6 DEF IInv, Types
<1>9. Tiling'
      BY <1>1, <1>3, <1>5, <1>6, TilesSame DEF IInv, Tiling, Headers
<1>10. FreeListExact'
  <2>1. \A h \in Listed \ {cur} :
           /\ block'[h].next = IF h = p THEN n ELSE block[h].next
           /\ block'[h].prev = IF h = n THEN p ELSE block[h].prev
        BY <1>3, <1>5, ListedFacts
  <2>2. Chain(block, Listed, free_list) /\ Listed \in SUBSET Nat
        BY ListedFacts DEF IInv, FreeListExact
  <2>3. LinkedOut(block, block', Listed, free_list, cur, p, n)
        BY <1>2, <2>1, <2>2 DEF LinkedOut
  <2>4. Chain(block', Listed \ {cur}, IF p = NULL THEN n ELSE free_list)
        BY <2>3, ChainRemove
  <2> QED BY <1>1, <1>7, <2>4 DEF FreeListExact
<1>11. DeadLinks'
  <2>1. p \in Listed \cup {NULL} /\ n \in Listed \cup {NULL}
        BY <1>2, ListedFacts DEF LeastAbove, GreatestBelow
  <2>2. ASSUME NEW h \in Headers, h \notin Listed
        PROVE  block'[h].next = NULL /\ block'[h].prev = NULL
    <3>1. h # cur /\ h # p /\ h # n BY <1>2, <2>1, <2>2, ListedFacts
    <3>2. block[h].next = NULL /\ block[h].prev = NULL
          BY <2>2 DEF IInv, DeadLinks
    <3> QED BY <1>3, <1>5, <3>1, <3>2
  <2> QED BY <1>5, <1>6, <1>7, <2>2 DEF DeadLinks
<1>12. BlockCount' BY <1>1, <1>6 DEF IInv, BlockCount
<1>13. Cursors' BY <1>1 DEF IInv, Cursors
<1> QED BY <1>8, <1>9, <1>10, <1>11, <1>12, <1>13 DEF IInv

(***************************************************************************)
(* heap_expand links its block behind the last one.                        *)
(***************************************************************************)
LEMMA AppendLinkIInv ==
    ASSUME IInv, AppendLink
    PROVE  IInv'
<1>1. /\ pc = "append" /\ pc' = "grow" /\ AtLast
      /\ block' = [SetNext(block, cur, blk) EXCEPT ![blk].prev = cur]
      /\ free_list' = IF cur = NULL THEN blk ELSE free_list
      /\ heap_blocks' = heap_blocks + 1 /\ pages' = pages - 1
      /\ cur' = NULL /\ blk' = NULL
      /\ UNCHANGED <<heap_start, heap_total, frames, want, req, prv>>
      BY DEF AppendLink
<1>2. /\ cur = NULL \/ cur \in Listed
      /\ cur = NULL => free_list = NULL
      /\ blk \in Headers /\ ~block[blk].used
      /\ \A h \in Listed : h < blk
      BY <1>1 DEF IInv, Cursors, AppendCursor
<1>3. blk \in Nat /\ blk \notin Listed /\ cur \in Int /\ cur < blk
  <2>1. blk \in Nat /\ NULL \in Int /\ NULL < blk
        BY <1>2, BlockFacts DEF NULL
  <2> QED BY <1>2, <2>1, ListedFacts
<1>4. cur # NULL => block[cur].next = NULL BY <1>1 DEF AtLast
<1> DEFINE c == SetNext(block, cur, blk)
<1>5. /\ c \in [Headers -> Block]
      /\ \A x \in Headers :
            /\ c[x].size = block[x].size /\ c[x].used = block[x].used
            /\ c[x].prev = block[x].prev
            /\ c[x].next = IF x = cur THEN blk ELSE block[x].next
      BY <1>3, BlockFacts, SetNextFields
<1> HIDE DEF c
<1>6. /\ block' \in [Headers -> Block]
      /\ \A x \in Headers :
            /\ block'[x].size = block[x].size
            /\ block'[x].used = block[x].used
            /\ block'[x].next = IF x = cur THEN blk ELSE block[x].next
            /\ block'[x].prev = IF x = blk THEN cur ELSE block[x].prev
  <2>1. block' = [c EXCEPT ![blk].prev = cur] BY <1>1 DEF c
  <2> QED BY <1>2, <1>3, <1>5, <2>1 DEF Block
<1>7. Headers' = Headers BY <1>6 DEF Headers
<1>8. Listed' = Listed \cup {blk} BY <1>1, <1>2, <1>6, <1>7 DEF Listed
<1>9. Types'
  <2>1. pages' \in Nat BY <1>1 DEF IInv, Types, Cursors
  <2> QED BY <1>1, <1>6, <1>7, <2>1 DEF IInv, Types
<1>10. Tiling'
  <2>1. Tiles(block, heap_total) BY DEF IInv, Tiling
  <2>2. Tiles(block', heap_total)
        BY <1>6, <1>7, <2>1, TilesSame DEF Headers
  <2> QED BY <1>1, <2>2 DEF Tiling
<1>11. FreeListExact'
  <2>1. block'[blk].next = NULL /\ block'[blk].prev = cur
        BY <1>2, <1>3, <1>6 DEF IInv, DeadLinks
  <2>2. \A h \in Listed :
           /\ block'[h].next = IF h = cur THEN blk ELSE block[h].next
           /\ block'[h].prev = IF h = NULL THEN blk ELSE block[h].prev
        BY <1>3, <1>6, ListedFacts
  <2>3. Chain(block, Listed, free_list) /\ Listed \in SUBSET Nat
        BY ListedFacts DEF IInv, FreeListExact
  <2>4. NULL = IF cur = NULL THEN free_list ELSE block[cur].next
        BY <1>2, <1>4
  <2>5. cur \in Listed \cup {NULL} BY <1>2
  <2>6. LinkedIn(block, block', Listed, free_list, blk, cur, NULL)
        BY <1>3, <2>1, <2>2, <2>3, <2>4, <2>5 DEF LinkedIn
  <2>7. Chain(block', Listed \cup {blk}, IF cur = NULL THEN blk ELSE free_list)
        BY <2>6, ChainInsert
  <2> QED BY <1>1, <1>8, <2>7 DEF FreeListExact
<1>12. DeadLinks' BY <1>2, <1>6, <1>7, <1>8, ListedFacts DEF IInv, DeadLinks
<1>13. BlockCount'
  <2>1. Cardinality(Headers) \in Nat BY HeadersFinite, FS_CardinalityType
  <2> QED BY <1>1, <1>7, <2>1 DEF IInv, BlockCount
<1>14. Cursors' BY <1>1 DEF IInv, Cursors
<1> QED BY <1>9, <1>10, <1>11, <1>12, <1>13, <1>14 DEF IInv

(***************************************************************************)
(* kfree links the block between prev and current.                         *)
(***************************************************************************)
LEMMA InsertLinkIInv ==
    ASSUME IInv, InsertLink
    PROVE  IInv'
<1>1. /\ pc = "insert" /\ pc' = "merge" /\ ~(cur # NULL /\ cur < blk)
      /\ block' = SetPrev(BackLinked, cur, blk)
      /\ free_list' = IF prv = NULL THEN blk ELSE free_list
      /\ cur' = free_list' /\ prv' = NULL /\ blk' = NULL
      /\ UNCHANGED <<heap_start, heap_total, heap_blocks, frames, want, req,
                     pages>>
      BY DEF InsertLink, Inserted
<1>2. /\ blk \in Headers /\ ~block[blk].used
      /\ prv \in Listed \cup {NULL} /\ prv < blk
      /\ cur = IF prv = NULL THEN free_list ELSE block[prv].next
      BY <1>1 DEF IInv, Cursors, InsertCursor
<1>3. /\ blk \in Nat /\ blk \notin Listed /\ prv \in Int /\ NULL \in Int
      /\ NULL \notin Headers
  <2>1. blk \notin Listed BY <1>1 DEF Listed
  <2>2. NULL \in Int BY DEF NULL
  <2> QED BY <1>2, <2>1, <2>2, BlockFacts, ListedFacts
<1>4. cur \in Listed \cup {NULL} /\ cur \in Int
  <2>1. cur \in Listed \cup {NULL} BY <1>2, LinksListed
  <2> QED BY <1>3, <2>1, ListedFacts
<1>5. cur = NULL \/ blk < cur BY <1>1, <1>3, <1>4
<1> DEFINE c == [block EXCEPT ![blk].prev = prv, ![blk].next = cur]
<1>6. /\ c \in [Headers -> Block]
      /\ \A x \in Headers :
            /\ c[x].size = block[x].size /\ c[x].used = block[x].used
            /\ c[x].prev = IF x = blk THEN prv ELSE block[x].prev
            /\ c[x].next = IF x = blk THEN cur ELSE block[x].next
  <2>1. Headers \in SUBSET Int /\ block \in [Headers -> Block]
        BY BlockFacts
  <2>2. c = WithLinks(block, blk, prv, cur) BY DEF WithLinks
  <2> HIDE DEF c
  <2> QED BY <1>2, <1>3, <1>4, <2>1, <2>2, LinksFields
<1> HIDE DEF c
<1>7. BackLinked = SetNext(c, prv, blk) BY DEF BackLinked, c
<1>8. /\ BackLinked \in [Headers -> Block]
      /\ \A x \in Headers :
            /\ BackLinked[x].size = c[x].size
            /\ BackLinked[x].used = c[x].used
            /\ BackLinked[x].prev = c[x].prev
            /\ BackLinked[x].next = IF x = prv THEN blk ELSE c[x].next
      BY <1>3, <1>6, <1>7, BlockFacts, SetNextFields
<1>9. /\ block' \in [Headers -> Block]
      /\ \A x \in Headers :
            /\ block'[x].size = BackLinked[x].size
            /\ block'[x].used = BackLinked[x].used
            /\ block'[x].next = BackLinked[x].next
            /\ block'[x].prev = IF x = cur THEN blk ELSE BackLinked[x].prev
      BY <1>1, <1>3, <1>4, <1>8, BlockFacts, SetPrevFields
<1>10. \A x \in Headers :
          /\ block'[x].size = block[x].size
          /\ block'[x].used = block[x].used
          /\ x # blk => /\ block'[x].next = IF x = prv THEN blk
                                                       ELSE block[x].next
                        /\ block'[x].prev = IF x = cur THEN blk
                                                       ELSE block[x].prev
       BY <1>6, <1>8, <1>9
<1>11. block'[blk].next = cur /\ block'[blk].prev = prv
       BY <1>2, <1>3, <1>4, <1>6, <1>8, <1>9
<1>12. Headers' = Headers BY <1>9 DEF Headers
<1>13. Listed' = Listed \cup {blk}
       BY <1>1, <1>2, <1>10, <1>12 DEF Listed
<1>14. Types' BY <1>1, <1>9, <1>12 DEF IInv, Types
<1>15. Tiling'
  <2>1. Tiles(block, heap_total) BY DEF IInv, Tiling
  <2>2. Tiles(block', heap_total)
        BY <1>10, <1>12, <2>1, TilesSame DEF Headers
  <2> QED BY <1>1, <2>2 DEF Tiling
<1>16. FreeListExact'
  <2>1. Chain(block, Listed, free_list) /\ Listed \in SUBSET Nat
        BY ListedFacts DEF IInv, FreeListExact
  <2>2. \A h \in Listed :
           /\ block'[h].next = IF h = prv THEN blk ELSE block[h].next
           /\ block'[h].prev = IF h = cur THEN blk ELSE block[h].prev
        BY <1>3, <1>10, ListedFacts
  <2>3. LinkedIn(block, block', Listed, free_list, blk, prv, cur)
        BY <1>2, <1>3, <1>5, <1>11, <2>1, <2>2 DEF LinkedIn
  <2>4. Chain(block', Listed \cup {blk}, IF prv = NULL THEN blk ELSE free_list)
        BY <2>3, ChainInsert
  <2> QED BY <1>1, <1>13, <2>4 DEF FreeListExact
<1>17. DeadLinks'
  <2>1. ASSUME NEW h \in Headers, h \notin Listed, h # blk
        PROVE  block'[h].next = NULL /\ block'[h].prev = NULL
    <3>1. h # prv /\ h # cur BY <1>2, <1>3, <1>4, <2>1
    <3> QED BY <1>10, <2>1, <3>1 DEF IInv, DeadLinks
  <2> QED BY <1>12, <1>13, <2>1 DEF DeadLinks
<1>18. BlockCount' BY <1>1, <1>12 DEF IInv, BlockCount
<1>19. MergeCursor'
  <2>1. LeastAbove(Listed', NULL, free_list')
        BY <1>16 DEF FreeListExact, Chain
  <2>2. Listed' \subseteq Nat /\ blk \in Listed' BY <1>3, <1>13, ListedFacts
  <2>3. free_list' # NULL BY <1>3, <2>1, <2>2 DEF LeastAbove, NULL
  <2>4. /\ free_list' \in Listed'
        /\ \A h \in Listed' : h <= NULL \/ free_list' <= h
        BY <2>1, <2>3 DEF LeastAbove
  <2>5. free_list' \in Nat /\ \A h \in Listed' : h \in Nat BY <2>2, <2>4
  <2>6. \A h \in Listed' : ~(h < free_list') BY <2>4, <2>5 DEF NULL
  <2> QED BY <1>1, <2>4, <2>6 DEF MergeCursor
<1>20. Cursors' BY <1>1, <1>19 DEF IInv, Cursors
<1> QED BY <1>14, <1>15, <1>16, <1>17, <1>18, <1>20 DEF IInv

(***************************************************************************)
(* coalesce_blocks joins a block and the neighbour behind it.              *)
(***************************************************************************)
LEMMA MergePairIInv ==
    ASSUME IInv, MergePair
    PROVE  IInv'
<1> DEFINE n == block[cur].next
           m == block[n].next
           c == Merged(block, n)
           b == SetPrev(c, m, cur)
<1>1. /\ pc = "merge" /\ pc' = "merge" /\ cur # NULL /\ n # NULL
      /\ n = End(block, cur)
      /\ block' = [x \in Headers \ {n} |-> b[x]]
      /\ heap_blocks' = heap_blocks - 1
      /\ UNCHANGED <<heap_start, free_list, heap_total, frames, want, req,
                     pages, cur, prv, blk>>
      BY DEF MergePair, AtLast, Mergeable, Headers
<1>2. /\ cur \in Listed
      /\ \A h \in Listed : h < cur => block[h].next # End(block, h)
      BY <1>1 DEF IInv, Cursors, MergeCursor
<1>3. n \in Listed /\ LeastAbove(Listed, cur, n) /\ cur < n
      BY <1>1, <1>2, ListedFacts DEF LeastAbove
<1>4. block[n].prev = cur
  <2>1. GreatestBelow(Listed, n, block[n].prev) BY <1>3, ListedFacts
  <2>2. block[n].prev # NULL
        BY <1>2, <1>3, <2>1, ListedFacts DEF GreatestBelow
  <2>3. /\ block[n].prev \in Listed /\ block[n].prev < n
        /\ n <= cur \/ cur <= block[n].prev
        BY <1>2, <2>1, <2>2 DEF GreatestBelow
  <2>4. block[n].prev <= cur \/ n <= block[n].prev
        BY <1>1, <1>3, <2>3 DEF LeastAbove
  <2>5. cur \in Int /\ n \in Int /\ block[n].prev \in Int
        BY <1>2, <1>3, <2>3, ListedFacts
  <2> QED BY <1>3, <2>3, <2>4, <2>5
<1>5. /\ cur \in Headers /\ n \in Headers /\ cur \in Int /\ n \in Int
      /\ m \in Int /\ cur # n
      BY <1>2, <1>3, ListedFacts, BlockFacts
<1>6. /\ c \in [Headers -> Block]
      /\ \A x \in Headers :
            /\ c[x].size = IF x = cur THEN block[cur].size + HDR + block[n].size
                                      ELSE block[x].size
            /\ c[x].used = block[x].used
            /\ c[x].prev = block[x].prev
            /\ c[x].next = IF x = cur THEN m ELSE block[x].next
  <2> HIDE DEF n, m
  <2>1. block[cur].size + HDR + block[n].size \in Nat /\ m \in Int
        BY <1>5, BlockFacts, HeapAssumption
  <2> DEFINE k == block[cur].size + HDR + block[n].size
  <2>2. c = WithSizeNext(block, cur, k, m)
        BY <1>5, BlockFacts DEF Merged, WithSizeNext, m, Block
  <2>3. Headers \in SUBSET Int /\ block \in [Headers -> Block]
        BY BlockFacts
  <2>4. k \in Nat /\ cur \in Headers /\ m \in Int BY <1>5, <2>1
  <2> HIDE DEF c, k
  <2>5. /\ c \in [Headers -> Block]
        /\ \A x \in Headers :
              /\ c[x].used = block[x].used /\ c[x].prev = block[x].prev
              /\ c[x].size = IF x = cur THEN k ELSE block[x].size
              /\ c[x].next = IF x = cur THEN m ELSE block[x].next
        BY ONLY <2>2, <2>3, <2>4, SizeNextFields
  <2> QED BY <2>5 DEF k
<1> HIDE DEF c
<1>7. /\ b \in [Headers -> Block]
      /\ \A x \in Headers :
            /\ b[x].size = c[x].size /\ b[x].used = c[x].used
            /\ b[x].next = c[x].next
            /\ b[x].prev = IF x = m THEN cur ELSE c[x].prev
  <2> HIDE DEF n, m
  <2>1. Headers \in SUBSET Int BY BlockFacts
  <2>2. c \in [Headers -> Block] /\ m \in Int /\ cur \in Int BY <1>5, <1>6
  <2> QED BY <2>1, <2>2, SetPrevFields
<1> HIDE DEF b
<1>8. /\ block' \in [Headers \ {n} -> Block] /\ Headers' = Headers \ {n}
      /\ \A x \in Headers \ {n} : block'[x] = b[x]
      BY <1>1, <1>7 DEF Headers
<1>9. \A x \in Headers \ {n} :
         /\ block'[x].size = IF x = cur THEN block[cur].size + HDR + block[n].size
                                        ELSE block[x].size
         /\ block'[x].used = block[x].used
         /\ block'[x].next = IF x = cur THEN m ELSE block[x].next
         /\ block'[x].prev = IF x = m THEN cur ELSE block[x].prev
      BY <1>6, <1>7, <1>8
<1>10. Listed' = Listed \ {n} BY <1>1, <1>8, <1>9 DEF Listed
<1>11. Types' BY <1>1, <1>8 DEF IInv, Types
<1>12. Tiling'
  <2>1. /\ Tiles(block, heap_total) /\ heap_total \in Nat
        /\ Headers \subseteq Nat
        BY DEF IInv, Tiling, Types
  <2>2. Tiles(block', heap_total)
        BY <1>1, <1>5, <1>8, <1>9, <2>1, BlockFacts, TilesMerge DEF Headers
  <2> QED BY <1>1, <2>2 DEF Tiling
<1>13. FreeListExact'
  <2>1. Chain(block, Listed, free_list) /\ Listed \in SUBSET Nat
        BY ListedFacts DEF IInv, FreeListExact
  <2>2. \A h \in Listed \ {n} :
           /\ block'[h].next = IF h = cur THEN m ELSE block[h].next
           /\ block'[h].prev = IF h = m THEN cur ELSE block[h].prev
        BY <1>9, ListedFacts
  <2>3. LinkedOut(block, block', Listed, free_list, n, cur, m)
        BY <1>3, <1>4, <2>1, <2>2 DEF LinkedOut
  <2>4. Chain(block', Listed \ {n}, IF cur = NULL THEN m ELSE free_list)
        BY <2>3, ChainRemove
  <2> QED BY <1>1, <1>10, <2>4 DEF FreeListExact
<1>14. DeadLinks'
  <2>1. m \in Listed \cup {NULL} BY <1>3, ListedFacts DEF LeastAbove
  <2>2. ASSUME NEW h \in Headers \ {n}, h \notin Listed
        PROVE  block'[h].next = NULL /\ block'[h].prev = NULL
    <3>1. h # cur /\ h # m BY <1>2, <2>1, <2>2, ListedFacts
    <3> QED BY <1>9, <2>2, <3>1 DEF IInv, DeadLinks
  <2> QED BY <1>8, <1>10, <2>2 DEF DeadLinks
<1>15. BlockCount'
  <2>1. Cardinality(Headers') = Cardinality(Headers) - 1
        BY <1>5, <1>8, HeadersFinite, FS_RemoveElement
  <2>2. Cardinality(Headers) \in Nat BY HeadersFinite, FS_CardinalityType
  <2>3. heap_blocks = Cardinality(Headers)
        BY <1>1, <2>2 DEF IInv, BlockCount
  <2> QED BY <1>1, <2>1, <2>2, <2>3 DEF BlockCount
<1>16. MergeCursor'
  <2>1. cur \in Listed' BY <1>2, <1>5, <1>10
  <2>2. \A h \in Listed' : h < cur => block'[h].next = block[h].next
                                      /\ End(block', h) = End(block, h)
        BY <1>2, <1>9, <1>10, ListedFacts DEF End
  <2> QED BY <1>1, <1>2, <1>10, <2>1, <2>2 DEF MergeCursor
<1>17. Cursors' BY <1>1, <1>16 DEF IInv, Cursors
<1> QED BY <1>11, <1>12, <1>13, <1>14, <1>15, <1>17 DEF IInv

(***************************************************************************)
(* kmalloc takes the front of a block: the rest is linked in behind it,    *)
(* then the front is linked out.                                           *)
(***************************************************************************)
LEMMA TakeSplitIInv ==
    ASSUME IInv, TakeSplit
    PROVE  IInv'
<1> DEFINE c == [block EXCEPT ![cur].used = TRUE]
           d == Split(c, cur)
           p == block[cur].prev
           n == block[cur].next
           y == Rest(cur)
           s == block[cur].size - req - HDR
<1>1. /\ pc = "scan" /\ cur # NULL /\ pc' = "idle" /\ Fits(cur) /\ Splits(cur)
      /\ block' = Unlink(d, cur)
      /\ free_list' = IF p = NULL \/ free_list = cur THEN y ELSE free_list
      /\ heap_blocks' = heap_blocks + 1
      /\ want' = 0 /\ req' = 0 /\ cur' = NULL
      /\ UNCHANGED <<heap_start, heap_total, frames, pages, prv, blk>>
      BY DEF TakeSplit, Serve
<1>2. cur \in Listed /\ cur \in Headers /\ ~block[cur].used
      BY <1>1, ListedFacts DEF IInv, Cursors, ScanCursor
<1>3. /\ c \in [Headers -> Block]
      /\ \A x \in Headers : /\ c[x].size = block[x].size
                            /\ c[x].next = block[x].next
                            /\ c[x].prev = block[x].prev
                            /\ c[x].used = (block[x].used \/ x = cur)
      BY <1>2, BlockFacts DEF Block
<1> HIDE DEF c
<1>4. /\ cur \in Nat /\ req \in Nat /\ block[cur].size \in Nat
      /\ n \in Listed \cup {NULL} /\ p \in Listed \cup {NULL}
      BY <1>2, BlockFacts, LinksListed DEF IInv, Types
<1>5. /\ y = cur + HDR + req /\ s \in Nat /\ y \in Nat /\ cur < y
      /\ req + HDR <= block[cur].size /\ y < End(block, cur)
  <2>1. block[cur].size - req >= HDR + MIN_TAIL BY <1>1 DEF Splits
  <2> QED BY <1>4, <2>1, HeapAssumption DEF Rest, End
<1> HIDE DEF y, s
<1>6. y \notin Headers
  <2>1. \A g \in Headers : g > cur => g >= End(block, cur)
        BY <1>2 DEF IInv, Tiling, Tiles, Headers
  <2>2. End(block, cur) \in Nat BY <1>4, HeapAssumption DEF End
  <2> QED BY <1>5, <2>1, <2>2
<1>7. cur # n /\ (n = NULL \/ y < n)
  <2>1. LeastAbove(Listed, cur, n) BY <1>2, ListedFacts
  <2>2. CASE n = NULL BY <1>1, <2>2
  <2>3. CASE n # NULL
    <3>1. n \in Listed /\ cur < n BY <2>1, <2>3 DEF LeastAbove
    <3>2. n \in Headers /\ n \in Nat BY <3>1, ListedFacts
    <3>3. n >= End(block, cur)
          BY <1>2, <1>4, <3>1, <3>2 DEF IInv, Tiling, Tiles, Headers
    <3>4. End(block, cur) \in Nat BY <1>4, HeapAssumption DEF End
    <3> QED BY <1>4, <1>5, <3>1, <3>2, <3>3, <3>4
  <2> QED BY <2>2, <2>3
<1>8. /\ d \in [Headers \cup {y} -> Block]
      /\ \A x \in Headers :
            /\ d[x].size = IF x = cur THEN req ELSE block[x].size
            /\ d[x].used = (block[x].used \/ x = cur)
            /\ d[x].next = IF x = cur THEN y ELSE block[x].next
            /\ d[x].prev = IF x = n THEN y ELSE block[x].prev
      /\ d[y].size = s /\ ~d[y].used /\ d[y].next = n /\ d[y].prev = cur
  <2>1. n = c[cur].next /\ s = c[cur].size - req - HDR /\ y = Rest(cur)
        BY <1>2, <1>3 DEF s, y
  <2>2. Headers \in SUBSET Int /\ y \in Int BY <1>5, BlockFacts
  <2> HIDE DEF n
  <2>3. SplitAt(Headers, c, cur, y, n, s)
        BY <1>2, <1>3, <1>4, <1>5, <1>6, <1>7, <2>1, <2>2 DEF SplitAt
  <2>4. IsSplit(Headers, c, d, cur, y, n, s) BY <2>3, SplitFields
  <2> HIDE DEF d
  <2>5. d[y].size = s /\ ~d[y].used /\ d[y].next = n /\ d[y].prev = cur
        BY <2>4 DEF IsSplit, Unused
  <2> QED BY <1>3, <2>4, <2>5 DEF IsSplit
<1> HIDE DEF d
<1>9. d[cur].next = y /\ d[cur].prev = p BY <1>2, <1>7, <1>8
<1>10. /\ block' \in [Headers \cup {y} -> Block]
       /\ \A x \in Headers \cup {y} : /\ block'[x].size = d[x].size
                                      /\ block'[x].used = d[x].used
       /\ \A x \in (Headers \cup {y}) \ {cur} :
             /\ block'[x].next = IF x = p THEN y ELSE d[x].next
             /\ block'[x].prev = IF x = y THEN p ELSE d[x].prev
       /\ block'[cur].next = NULL /\ block'[cur].prev = NULL
  <2>1. Headers \cup {y} \in SUBSET Int /\ cur \in Headers \cup {y}
        BY <1>2, <1>5, BlockFacts
  <2>2. /\ block' \in [Headers \cup {y} -> Block]
        /\ \A x \in Headers \cup {y} : /\ block'[x].size = d[x].size
                                       /\ block'[x].used = d[x].used
        /\ \A x \in (Headers \cup {y}) \ {cur} :
              /\ block'[x].next = IF x = d[cur].prev THEN d[cur].next
                                                     ELSE d[x].next
              /\ block'[x].prev = IF x = d[cur].next THEN d[cur].prev
                                                     ELSE d[x].prev
        /\ block'[cur].next = NULL /\ block'[cur].prev = NULL
        BY <1>1, <1>8, <2>1, UnlinkFields
  <2> QED BY <1>9, <2>2
<1>11. Headers' = Headers \cup {y} BY <1>10 DEF Headers
<1>12. Listed' = (Listed \cup {y}) \ {cur}
  <2>1. Listed = {h \in Headers : ~block[h].used} BY <1>1 DEF Listed
  <2>2. Listed' = {h \in Headers' : ~block'[h].used} BY <1>1 DEF Listed
  <2>3. ~block'[y].used BY <1>8, <1>10
  <2>4. \A h \in Headers : block'[h].used = (block[h].used \/ h = cur)
        BY <1>8, <1>10
  <2> QED BY <1>2, <1>6, <1>11, <2>1, <2>2, <2>3, <2>4
<1>13. Types'
  <2>1. Headers' \subseteq Nat BY <1>5, <1>11 DEF IInv, Types
  <2> QED BY <1>1, <1>10, <1>11, <2>1 DEF IInv, Types
<1>14. Tiling'
  <2>1. /\ Tiles(block, heap_total) /\ heap_total \in Nat
        /\ Headers \subseteq Nat
        BY DEF IInv, Tiling, Types
  <2>2. \A h \in Headers \ {cur} : block'[h].size = block[h].size
        BY <1>8, <1>10
  <2>3. block'[cur].size = req /\ block'[y].size = block[cur].size - req - HDR
        BY <1>2, <1>8, <1>10 DEF s
  <2>4. Tiles(block', heap_total)
        BY <1>2, <1>4, <1>5, <1>11, <2>1, <2>2, <2>3, BlockFacts, TilesSplit
           DEF Headers
  <2> QED BY <1>1, <2>4 DEF Tiling
<1>15. FreeListExact'
  <2>1. Chain(block, Listed, free_list) /\ Listed \in SUBSET Nat
        BY ListedFacts DEF IInv, FreeListExact
  <2>2. \A h \in Listed :
           /\ d[h].next = IF h = cur THEN y ELSE block[h].next
           /\ d[h].prev = IF h = n THEN y ELSE block[h].prev
        BY <1>8, ListedFacts
  <2>3. y \notin Listed BY <1>6, ListedFacts
  <2>4. LinkedIn(block, d, Listed, free_list, y, cur, n)
        BY <1>1, <1>2, <1>5, <1>7, <1>8, <2>1, <2>2, <2>3 DEF LinkedIn
  <2>5. Chain(d, Listed \cup {y}, free_list)
        BY <1>1, <2>4, ChainInsert
  <2>6. \A h \in (Listed \cup {y}) \ {cur} :
           /\ block'[h].next = IF h = p THEN y ELSE d[h].next
           /\ block'[h].prev = IF h = y THEN p ELSE d[h].prev
        BY <1>10, ListedFacts
  <2>7. LinkedOut(d, block', Listed \cup {y}, free_list, cur, p, y)
        BY <1>2, <1>5, <1>9, <2>1, <2>5, <2>6 DEF LinkedOut
  <2>8. Chain(block', (Listed \cup {y}) \ {cur},
              IF p = NULL THEN y ELSE free_list)
        BY <2>7, ChainRemove
  <2>9. free_list = cur => p = NULL
    <3>1. GreatestBelow(Listed, cur, p) BY <1>2, ListedFacts
    <3> QED BY <3>1, NoneBelowFirst DEF GreatestBelow
  <2> QED BY <1>1, <1>12, <2>8, <2>9 DEF FreeListExact
<1>16. DeadLinks'
  <2>1. ASSUME NEW h \in Headers, h \notin Listed
        PROVE  block'[h].next = NULL /\ block'[h].prev = NULL
    <3>1. h # cur /\ h # p /\ h # n /\ h # y
          BY <1>2, <1>4, <1>6, <2>1, ListedFacts
    <3>2. block[h].next = NULL /\ block[h].prev = NULL
          BY <2>1 DEF IInv, DeadLinks
    <3> QED BY <1>8, <1>10, <3>1, <3>2
  <2> QED BY <1>10, <1>11, <1>12, <2>1 DEF DeadLinks
<1>17. BlockCount'
  <2>1. Cardinality(Headers') = Cardinality(Headers) + 1
        BY <1>6, <1>11, HeadersFinite, FS_AddElement
  <2>2. Cardinality(Headers) \in Nat BY HeadersFinite, FS_CardinalityType
  <2>3. heap_blocks = Cardinality(Headers)
        BY <1>1, <2>2 DEF IInv, BlockCount
  <2> QED BY <1>1, <2>1, <2>2, <2>3 DEF BlockCount
<1>18. Cursors' BY <1>1 DEF IInv, Cursors
<1> QED BY <1>13, <1>14, <1>15, <1>16, <1>17, <1>18 DEF IInv

-----------------------------------------------------------------------------
LEMMA InitIInv == Init => IInv
<1> SUFFICES ASSUME Init PROVE IInv OBVIOUS
<1>1. Headers = {} /\ Listed = {} BY DEF Init, Headers, Listed
<1>2. Types BY <1>1, HeapAssumption DEF Init, Types, Block
<1>3. Tiling BY <1>1 DEF Init, Tiling, Tiles, Headers
<1>4. FreeListExact BY <1>1 DEF Init, FreeListExact, Chain, LeastAbove
<1>5. DeadLinks BY <1>1 DEF DeadLinks
<1>6. BlockCount BY <1>1, FS_EmptySet DEF Init, BlockCount
<1>7. Cursors BY <1>1 DEF Init, Cursors, NULL
<1> QED BY <1>2, <1>3, <1>4, <1>5, <1>6, <1>7 DEF IInv

LEMMA NextIInv == IInv /\ [Next]_vars => IInv'
<1> SUFFICES ASSUME IInv, [Next]_vars PROVE IInv' OBVIOUS
<1>1. CASE UNCHANGED vars
  <2>1. UNCHANGED heap /\ Listed' = Listed /\ pc' = pc
        BY <1>1 DEF vars, heap, Listed, Headers
  <2>2. Types' BY <1>1, <2>1, SameHeap DEF vars, IInv, Types
  <2>3. Cursors'
        BY <1>1, <2>1, SameHeap
           DEF vars, heap, IInv, Cursors, ScanCursor, AppendCursor,
               InsertCursor, MergeCursor, End, Headers
  <2> QED BY <2>1, <2>2, <2>3, SameHeap DEF IInv
<1>2. ASSUME NEW n \in Requests, Kmalloc(n) PROVE IInv'
      BY <1>2, KmallocIInv
<1>3. ASSUME NEW h \in Headers, Kfree(h) PROVE IInv'
      BY <1>3, KfreeIInv
<1>4. ASSUME Running PROVE IInv'
      BY <1>4, ScanSkipIInv, TakeWholeIInv, TakeSplitIInv, ScanGrowIInv,
         FirstPageIInv, NextPageIInv, AppendNextIInv, AppendLinkIInv,
         GrowDoneIInv, InsertNextIInv, InsertLinkIInv, MergePairIInv,
         MergeNextIInv, MergeDoneIInv
         DEF Running
<1> QED BY <1>1, <1>2, <1>3, <1>4 DEF Next, Headers

THEOREM Invariant == Spec => []IInv
<1> QED BY InitIInv, NextIInv, PTL DEF Spec

LEMMA IInvTypeOK == IInv => TypeOK
<1> SUFFICES ASSUME IInv PROVE TypeOK OBVIOUS
<1>1. /\ Headers \subseteq Nat /\ NULL \notin Headers
      /\ Listed \subseteq Headers
      BY ListedFacts DEF IInv, Types
<1>2. \A h \in Headers : /\ block[h].next \in Pointer
                         /\ block[h].prev \in Pointer
  <2> TAKE h \in Headers
  <2>1. CASE h \in Listed BY <1>1, <2>1, LinksListed DEF Pointer
  <2>2. CASE h \notin Listed BY <2>2 DEF IInv, DeadLinks, Pointer
  <2> QED BY <2>1, <2>2
<1>3. block \in [Headers -> [size : Nat, used : BOOLEAN,
                             next : Pointer, prev : Pointer]]
  <2>1. \A h \in Headers : block[h] \in Block
                           /\ block[h].next \in Pointer
                           /\ block[h].prev \in Pointer
        BY <1>2 DEF IInv, Types
  <2>2. \A h \in Headers : block[h] \in [size : Nat, used : BOOLEAN,
                                         next : Pointer, prev : Pointer]
        BY <2>1 DEF Block
  <2>3. block \in [Headers -> Block] BY DEF IInv, Types
  <2> QED BY <2>2, <2>3
<1>4. heap_start \in Pointer
  <2>1. heap_start = 0 => 0 \in Headers
    <3> HAVE heap_start = 0
    <3>1. heap_total # 0 /\ heap_total \in Nat
          BY DEF IInv, Cursors, Types, NULL
    <3> QED BY <3>1 DEF IInv, Tiling, Tiles, Headers
  <2> QED BY <2>1 DEF IInv, Types, Pointer
<1>5. free_list \in Pointer BY <1>1, LinksListed DEF Pointer
<1>6. heap_blocks \in Nat
  <2>1. Cardinality(Headers) \in Nat BY HeadersFinite, FS_CardinalityType
  <2>2. CASE pc # "append" BY <2>1, <2>2 DEF IInv, BlockCount
  <2>3. CASE pc = "append"
    <3>1. blk \in Headers BY <2>3 DEF IInv, Cursors, AppendCursor
    <3>2. Cardinality(Headers) # 0 BY <3>1, HeadersFinite, FS_EmptySet
    <3> QED BY <2>1, <2>3, <3>2 DEF IInv, BlockCount
  <2> QED BY <2>2, <2>3
<1>7. cur \in Pointer
      BY <1>1, <1>5, LinksListed
         DEF IInv, Types, Cursors, ScanCursor, AppendCursor, InsertCursor,
             MergeCursor, Pointer
<1>8. prv \in Pointer /\ blk \in Pointer
      BY <1>1 DEF IInv, Types, Cursors, AppendCursor, InsertCursor, Pointer
<1> QED BY <1>1, <1>3, <1>4, <1>5, <1>6, <1>7, <1>8 DEF TypeOK, IInv, Types

(***************************************************************************)
(* Whatever the sizes asked for, the pages and the order of calls, every   *)
(* pointer of the heap is NULL or the address of a header, and stays one   *)
(* while blocks are split, joined and moved on and off the list.           *)
(***************************************************************************)
THEOREM TypeCorrect == Spec => []TypeOK
<1> QED BY Invariant, IInvTypeOK, PTL

(***************************************************************************)
(* The blocks tile the heap: no split, merge or new page leaves a gap or   *)
(* lets two blocks overlap, even for sizes whose rounding wraps.           *)
(***************************************************************************)
THEOREM TilingCorrect == Spec => []Tiling
<1>1. IInv => Tiling BY DEF IInv
<1> QED BY <1>1, Invariant, PTL

(***************************************************************************)
(* The free list holds exactly the unused blocks, in address order and     *)
(* linked both ways, whenever no loop is half way through an insertion.    *)
(***************************************************************************)
THEOREM FreeListCorrect == Spec => []FreeListExact
<1>1. IInv => FreeListExact BY DEF IInv
<1> QED BY <1>1, Invariant, PTL

(***************************************************************************)
(* heap_blocks, kept by increments and decrements in three functions, is   *)
(* the number of blocks.                                                   *)
(***************************************************************************)
THEOREM CountCorrect == Spec => []BlockCount
<1>1. IInv => BlockCount BY DEF IInv
<1> QED BY <1>1, Invariant, PTL

-----------------------------------------------------------------------------
LEMMA FirstFitStep ==
    ASSUME IInv, Next, pc = "scan", pc' = "idle", NEW h \in Listed,
           block[h].size >= req
    PROVE  cur <= h
<1>1. TakeWhole \/ TakeSplit
      BY DEF Next, Running, Kmalloc, Kfree, ScanSkip, ScanGrow, FirstPage,
             NextPage, AppendNext, AppendLink, GrowDone, InsertNext,
             InsertLink, Inserted, MergePair, MergeNext, MergeDone
<1>2. cur # NULL BY <1>1 DEF TakeWhole, TakeSplit
<1>3. cur \in Listed /\ (h < cur => block[h].size < req)
      BY <1>2 DEF IInv, Cursors, ScanCursor
<1>4. cur \in Nat /\ h \in Nat /\ req \in Nat /\ block[h].size \in Nat
      BY <1>3, ListedFacts, BlockFacts DEF IInv, Types
<1> QED BY <1>3, <1>4

LEMMA GrowStep ==
    ASSUME IInv, Next, pc = "scan", pc' = "grow", NEW h \in Listed
    PROVE  block[h].size < req
<1>1. ScanGrow
      BY DEF Next, Running, Kmalloc, Kfree, ScanSkip, TakeWhole, TakeSplit,
             Serve, FirstPage, NextPage, AppendNext, AppendLink, GrowDone,
             InsertNext, InsertLink, Inserted, MergePair, MergeNext, MergeDone
<1>2. cur = NULL BY <1>1 DEF ScanGrow
<1> QED BY <1>2 DEF IInv, Cursors, ScanCursor

(***************************************************************************)
(* kmalloc takes the lowest unused block that is large enough, in the heap *)
(* as it is when the scan ends: no block the scan passed can have grown;   *)
(* and it asks for more pages only if there is no such block.              *)
(***************************************************************************)
THEOREM FirstFitCorrect == Spec => FirstFit
<1>1. IInv /\ [Next]_vars
        => [/\ pc = "scan" /\ pc' = "idle" =>
                  \A h \in Listed : block[h].size >= req => cur <= h
            /\ pc = "scan" /\ pc' = "grow" =>
                  \A h \in Listed : block[h].size < req]_vars
      BY FirstFitStep, GrowStep
<1> QED BY <1>1, Invariant, PTL DEF Spec, FirstFit

LEMMA CoalescedStep ==
    ASSUME IInv, Next, pc = "merge", pc' = "idle",
           NEW g \in Headers, NEW h \in Headers,
           ~block[g].used, ~block[h].used, End(block, g) = h
    PROVE  FALSE
<1>1. AtLast
      BY DEF Next, Running, Kmalloc, Kfree, ScanSkip, TakeWhole, TakeSplit,
             ScanGrow, FirstPage, NextPage, AppendNext, AppendLink, GrowDone,
             InsertNext, InsertLink, Inserted, MergePair, MergeNext,
             MergeDone
<1>2. /\ cur \in Listed
      /\ \A x \in Listed : x < cur => block[x].next # End(block, x)
      BY DEF IInv, Cursors, MergeCursor
<1>3. block[cur].next = NULL BY <1>1, <1>2, ListedFacts DEF AtLast
<1>4. g \in Listed /\ h \in Listed BY DEF Listed
<1>5. g \in Nat /\ h \in Nat /\ cur \in Nat /\ g < h
      BY <1>2, <1>4, ListedFacts, BlockFacts, HeapAssumption DEF End
<1>6. \A x \in Listed : x <= cur
      BY <1>2, <1>3, ListedFacts DEF LeastAbove
<1>7. g < cur BY <1>4, <1>5, <1>6
<1> DEFINE n == block[g].next
<1>8. LeastAbove(Listed, g, n) BY <1>4, ListedFacts
<1> HIDE DEF n
<1>9. n # NULL BY <1>4, <1>5, <1>8 DEF LeastAbove
<1>10. n \in Listed /\ g < n /\ n <= h
       BY <1>4, <1>5, <1>8, <1>9 DEF LeastAbove
<1>11. n \in Headers /\ n \in Nat BY <1>10, ListedFacts
<1>12. n >= h BY <1>5, <1>10, <1>11 DEF IInv, Tiling, Tiles, Headers
<1>13. n = End(block, g) BY <1>5, <1>10, <1>11, <1>12
<1> QED BY <1>2, <1>4, <1>7, <1>13 DEF n

(***************************************************************************)
(* When kfree returns no two unused blocks touch: its single pass suffices *)
(* for every heap, because after a merge it looks at the same block again. *)
(***************************************************************************)
THEOREM CoalescedCorrect == Spec => Coalesced
<1>1. IInv /\ [Next]_vars
        => [pc = "merge" /\ pc' = "idle" =>
               \A g, h \in Headers : ~block[g].used /\ ~block[h].used
                                        => End(block, g) # h]_vars
      BY CoalescedStep
<1> QED BY <1>1, Invariant, PTL DEF Spec, Coalesced

-----------------------------------------------------------------------------
(***************************************************************************)
(* The heap implements the Allocator, as long as no size a caller asks for *)
(* wraps when it is rounded up.                                            *)
(***************************************************************************)
NoWrap == \A n \in Requests : n + ALIGN - 1 < WORD

\* What kmalloc looks for is never less than what its caller asked for.
Asked == /\ want <= req
         /\ want = 0 <=> req = 0
         /\ pc = "scan" => want # 0

LEMMA RoundedUp ==
    ASSUME NEW n \in Nat, n + ALIGN - 1 < WORD
    PROVE  Rounded(n) >= n
<1> DEFINE x == n + ALIGN - 1
           q == x \div ALIGN
<1>1. x \in Nat /\ x % WORD = x BY HeapAssumption
<1>2. ALIGN \in Nat /\ ALIGN > 0 BY HeapAssumption
<1>3. q \in Nat /\ x = ALIGN * q + (x % ALIGN) /\ x % ALIGN < ALIGN
      BY <1>1, <1>2
<1>4. ALIGN * q > x - ALIGN /\ q * ALIGN = ALIGN * q BY <1>1, <1>2, <1>3
<1>5. Rounded(n) = q * ALIGN BY <1>1 DEF Rounded
<1> QED BY <1>2, <1>4, <1>5

LEMMA AskedInvariant ==
    ASSUME NoWrap
    PROVE  Spec => []Asked
<1>1. Init => Asked BY DEF Init, Asked
<1>2. IInv /\ Asked /\ [Next]_vars => Asked'
  <2> SUFFICES ASSUME IInv, Asked, [Next]_vars PROVE Asked' OBVIOUS
  <2> USE DEF Asked
  <2>1. want \in Nat /\ req \in Nat BY DEF IInv, Types
  <2>2. ASSUME NEW n \in Requests, Kmalloc(n) PROVE Asked'
    <3>1. n \in Nat /\ n # 0 /\ n + ALIGN - 1 < WORD
          BY <2>2, HeapAssumption DEF Kmalloc, NoWrap
    <3>2. Rounded(n) >= n /\ Rounded(n) \in Nat
          BY <3>1, RoundedUp, RoundedNat
    <3> QED BY <2>2, <3>1, <3>2 DEF Kmalloc
  <2>3. ASSUME NEW h \in DOMAIN block, Kfree(h) PROVE Asked'
    BY <2>3 DEF Kfree
  <2>4. ASSUME TakeWhole \/ TakeSplit PROVE Asked'
    BY <2>4 DEF TakeWhole, TakeSplit, Serve
  <2>5. ASSUME GrowDone PROVE Asked' BY <2>1, <2>5 DEF GrowDone
  <2>6. ASSUME \/ ScanSkip \/ ScanGrow \/ FirstPage \/ NextPage \/ AppendNext
               \/ AppendLink
        PROVE Asked'
    BY <2>6 DEF ScanSkip, ScanGrow, FirstPage, NextPage, AppendNext, AppendLink
  <2>7. ASSUME \/ InsertNext \/ InsertLink \/ MergePair \/ MergeNext
               \/ MergeDone
        PROVE Asked'
    BY <2>7 DEF InsertNext, InsertLink, Inserted, MergePair, MergeNext,
                MergeDone
  <2>8. CASE UNCHANGED vars BY <2>8 DEF vars
  <2> QED BY <2>2, <2>3, <2>4, <2>5, <2>6, <2>7, <2>8 DEF Next, Running
<1> QED BY <1>1, <1>2, Invariant, PTL DEF Spec

-----------------------------------------------------------------------------
(***************************************************************************)
(* The regions granted are those behind the headers of the used blocks:    *)
(* what happens to them when these blocks change.                          *)
(***************************************************************************)
Held == {h \in Headers : block[h].used}

LEMMA HeldFacts ==
    ASSUME IInv
    PROVE  /\ Held \subseteq Headers /\ Held \subseteq Nat /\ HDR \in Nat
           /\ DOMAIN Granted = {h + HDR : h \in Held}
           /\ \A h \in Held : Granted[h + HDR] = block[h].size
<1>1. Held \subseteq Headers /\ Held \subseteq Nat /\ HDR \in Nat
      BY HeapAssumption DEF IInv, Types, Held
<1>2. Granted = [p \in {h + HDR : h \in Held} |-> block[p - HDR].size]
      BY DEF Granted, Held
<1>3. \A h \in Held : (h + HDR) - HDR = h BY <1>1
<1> QED BY <1>1, <1>2, <1>3

LEMMA SameGranted ==
    ASSUME IInv, Held' = Held,
           \A h \in Held : block'[h].size = block[h].size
    PROVE  Granted' = Granted
<1>1. Granted = [p \in {h + HDR : h \in Held} |-> block[p - HDR].size]
      BY DEF Granted, Held
<1>2. Granted' = [p \in {h + HDR : h \in Held} |-> block'[p - HDR].size]
      BY DEF Granted, Held
<1>3. \A p \in {h + HDR : h \in Held} : p - HDR \in Held
      BY HeldFacts
<1> QED BY <1>1, <1>2, <1>3

LEMMA MoreGranted ==
    ASSUME IInv, NEW h \in Headers \ Held, Held' = Held \cup {h},
           \A g \in Held : block'[g].size = block[g].size
    PROVE  /\ h + HDR \notin DOMAIN Granted
           /\ Granted' = [q \in DOMAIN Granted \cup {h + HDR} |->
                             IF q = h + HDR THEN block'[h].size
                                            ELSE Granted[q]]
<1> DEFINE D == {g + HDR : g \in Held}
<1>1. h \in Nat BY BlockFacts
<1>2. h + HDR \notin D /\ (h + HDR) - HDR = h BY <1>1, HeldFacts
<1>3. Granted' = [p \in {g + HDR : g \in Held'} |-> block'[p - HDR].size]
      BY DEF Granted, Held
<1>4. {g + HDR : g \in Held'} = D \cup {h + HDR} OBVIOUS
<1>5. ASSUME NEW p \in D
      PROVE  block'[p - HDR].size = Granted[p] /\ p # h + HDR
  <2>1. PICK g \in Held : p = g + HDR OBVIOUS
  <2>2. p - HDR = g BY <2>1, HeldFacts
  <2> QED BY <1>2, <2>1, <2>2, HeldFacts
<1>6. DOMAIN Granted = D BY HeldFacts
<1> QED BY <1>2, <1>3, <1>4, <1>5, <1>6

LEMMA LessGranted ==
    ASSUME IInv, NEW h \in Held, Held' = Held \ {h},
           \A g \in Held : block'[g].size = block[g].size
    PROVE  /\ h + HDR \in DOMAIN Granted
           /\ Granted' = [q \in DOMAIN Granted \ {h + HDR} |-> Granted[q]]
<1> DEFINE D == {g + HDR : g \in Held}
<1>1. DOMAIN Granted = D BY HeldFacts
<1>2. Granted' = [p \in {g + HDR : g \in Held'} |-> block'[p - HDR].size]
      BY DEF Granted, Held
<1>3. {g + HDR : g \in Held'} = D \ {h + HDR}
  <2>1. \A g \in Held : g + HDR = h + HDR => g = h BY HeldFacts
  <2> QED BY <2>1
<1>4. ASSUME NEW p \in D PROVE block'[p - HDR].size = Granted[p]
  <2>1. PICK g \in Held : p = g + HDR OBVIOUS
  <2>2. p - HDR = g BY <2>1, HeldFacts
  <2> QED BY <2>1, <2>2, HeldFacts
<1> QED BY <1>1, <1>2, <1>3, <1>4

\* A region behind an unused header is inside the heap and meets no other.
LEMMA RegionFree ==
    ASSUME IInv, NEW h \in Headers \ Held, NEW s \in Nat, s <= block[h].size
    PROVE  /\ h + HDR \in 0 .. heap_total /\ s <= heap_total - (h + HDR)
           /\ Regions!Disjoint(h + HDR, s)
<1>1. /\ h \in Nat /\ block[h].size \in Nat /\ HDR \in Nat
      /\ heap_total \in Nat
      BY BlockFacts, HeapAssumption DEF IInv, Types
<1>2. h + HDR + block[h].size <= heap_total
      BY <1>1 DEF IInv, Tiling, Tiles, End, Headers
<1>3. ASSUME NEW q \in DOMAIN Granted
      PROVE  q + Granted[q] <= h + HDR \/ (h + HDR) + s <= q
  <2>1. PICK g \in Held : q = g + HDR BY HeldFacts
  <2>2. /\ g \in Headers /\ g # h /\ g \in Nat /\ block[g].size \in Nat
        /\ Granted[q] = block[g].size
        BY <2>1, HeldFacts, BlockFacts
  <2>3. CASE g > h
    <3>1. g >= h + HDR + block[h].size
          BY <2>2, <2>3 DEF IInv, Tiling, Tiles, End, Headers
    <3> QED BY <1>1, <2>1, <2>2, <3>1
  <2>4. CASE h > g
    <3>1. h >= g + HDR + block[g].size
          BY <2>2, <2>4 DEF IInv, Tiling, Tiles, End, Headers
    <3> QED BY <1>1, <2>1, <2>2, <3>1
  <2> QED BY <1>1, <2>2, <2>3, <2>4
<1> QED BY <1>1, <1>2, <1>3 DEF Regions!Disjoint

-----------------------------------------------------------------------------
(***************************************************************************)
(* Step by step: kmalloc asks and is granted, kfree returns, heap_expand   *)
(* extends; every other step is none that a caller could see.              *)
(***************************************************************************)
Unseen == UNCHANGED <<want, Granted, heap_total>>

\* A block taken as it is, or without its tail, is granted.
LEMMA Grants ==
    ASSUME IInv, Asked, pc = "scan", cur \in Listed,
           Held' = Held \cup {cur},
           \A g \in Held : block'[g].size = block[g].size,
           block'[cur].size \in req .. block[cur].size,
           want' = 0, heap_total' = heap_total
    PROVE  Regions!Grant
<1> DEFINE p == cur + HDR
           s == block'[cur].size
<1>1. /\ cur \in Headers \ Held /\ cur \in Nat /\ block[cur].size \in Nat
      /\ want \in Nat /\ req \in Nat /\ want <= req /\ want # 0
      /\ heap_total \in Nat
      BY ListedFacts, BlockFacts DEF Held, IInv, Types, Asked
<1>2. s \in Nat /\ s <= block[cur].size /\ want <= s BY <1>1
<1>3. /\ p \notin DOMAIN Granted
      /\ Granted' = [q \in DOMAIN Granted \cup {p} |->
                        IF q = p THEN s ELSE Granted[q]]
      BY <1>1, MoreGranted
<1>4. /\ p \in 0 .. heap_total /\ s <= heap_total - p
      /\ Regions!Disjoint(p, s)
      BY <1>1, <1>2, RegionFree
<1> HIDE DEF s, p
<1>5. s \in want .. (heap_total - p) BY <1>1, <1>2, <1>4
<1> QED BY <1>1, <1>3, <1>4, <1>5 DEF Regions!Grant

LEMMA TakeWholeGrants ==
    ASSUME IInv, Asked, TakeWhole
    PROVE  Regions!Grant
<1> DEFINE c == [block EXCEPT ![cur].used = TRUE]
<1>1. /\ pc = "scan" /\ cur # NULL /\ Fits(cur) /\ block' = Unlink(c, cur)
      /\ want' = 0 /\ heap_total' = heap_total
      BY DEF TakeWhole, Serve
<1>2. cur \in Listed /\ cur \in Headers
      BY <1>1, ListedFacts DEF IInv, Cursors, ScanCursor
<1>3. /\ c \in [Headers -> Block]
      /\ \A x \in Headers : /\ c[x].size = block[x].size
                            /\ c[x].used = (block[x].used \/ x = cur)
      BY <1>2, BlockFacts DEF Block
<1> HIDE DEF c
<1>4. /\ block' \in [Headers -> Block]
      /\ \A x \in Headers : /\ block'[x].size = block[x].size
                            /\ block'[x].used = (block[x].used \/ x = cur)
  <2>1. Headers \in SUBSET Int BY BlockFacts
  <2>2. /\ block' \in [Headers -> Block]
        /\ \A x \in Headers : /\ block'[x].size = c[x].size
                              /\ block'[x].used = c[x].used
        BY <1>1, <1>2, <1>3, <2>1, UnlinkFields
  <2> QED BY <1>3, <2>2
<1>5. Held' = Held \cup {cur} BY <1>2, <1>4 DEF Held, Headers
<1>6. block'[cur].size \in req .. block[cur].size
      BY <1>1, <1>2, <1>4, BlockFacts DEF Fits, IInv, Types
<1>7. \A g \in Held : block'[g].size = block[g].size BY <1>4 DEF Held
<1> QED BY <1>1, <1>2, <1>5, <1>6, <1>7, Grants

LEMMA TakeSplitGrants ==
    ASSUME IInv, Asked, TakeSplit
    PROVE  Regions!Grant
<1> DEFINE c == [block EXCEPT ![cur].used = TRUE]
           d == Split(c, cur)
           n == block[cur].next
           y == Rest(cur)
           s == block[cur].size - req - HDR
<1>1. /\ pc = "scan" /\ cur # NULL /\ Fits(cur) /\ Splits(cur)
      /\ block' = Unlink(d, cur)
      /\ want' = 0 /\ heap_total' = heap_total
      BY DEF TakeSplit, Serve
<1>2. cur \in Listed /\ cur \in Headers /\ ~block[cur].used
      BY <1>1, ListedFacts DEF IInv, Cursors, ScanCursor
<1>3. /\ c \in [Headers -> Block]
      /\ \A x \in Headers : /\ c[x].size = block[x].size
                            /\ c[x].next = block[x].next
                            /\ c[x].used = (block[x].used \/ x = cur)
      BY <1>2, BlockFacts DEF Block
<1> HIDE DEF c
<1>4. /\ cur \in Nat /\ req \in Nat /\ block[cur].size \in Nat
      /\ LeastAbove(Listed, cur, n)
      BY <1>2, BlockFacts, ListedFacts DEF IInv, Types
<1>5. /\ y = cur + HDR + req /\ s \in Nat /\ y \in Nat /\ cur < y
      /\ req <= block[cur].size /\ y < End(block, cur)
  <2>1. block[cur].size - req >= HDR + MIN_TAIL BY <1>1 DEF Splits
  <2> QED BY <1>4, <2>1, HeapAssumption DEF Rest, End
<1>6. y \notin Headers
  <2>1. \A g \in Headers : g > cur => g >= End(block, cur)
        BY <1>2 DEF IInv, Tiling, Tiles, Headers
  <2>2. End(block, cur) \in Nat BY <1>4, HeapAssumption DEF End
  <2> QED BY <1>5, <2>1, <2>2
<1>7. cur # n BY <1>1, <1>4 DEF LeastAbove
<1>8. /\ d \in [Headers \cup {y} -> Block]
      /\ \A x \in Headers :
            /\ d[x].size = IF x = cur THEN req ELSE block[x].size
            /\ d[x].used = (block[x].used \/ x = cur)
      /\ ~d[y].used
  <2>1. n = c[cur].next /\ s = c[cur].size - req - HDR /\ y = Rest(cur)
        BY <1>2, <1>3
  <2>2. Headers \in SUBSET Int /\ y \in Int BY <1>5, BlockFacts
  <2> HIDE DEF n, y, s
  <2>3. SplitAt(Headers, c, cur, y, n, s)
        BY <1>2, <1>3, <1>4, <1>5, <1>6, <1>7, <2>1, <2>2 DEF SplitAt
  <2>4. IsSplit(Headers, c, d, cur, y, n, s) BY <2>3, SplitFields
  <2> HIDE DEF d
  <2>5. ~d[y].used BY <2>4 DEF IsSplit, Unused
  <2> QED BY <1>3, <2>4, <2>5 DEF IsSplit
<1> HIDE DEF d, n, y, s
<1>9. /\ block' \in [Headers \cup {y} -> Block]
      /\ \A x \in Headers \cup {y} : /\ block'[x].size = d[x].size
                                     /\ block'[x].used = d[x].used
  <2>1. Headers \cup {y} \in SUBSET Int /\ cur \in Headers \cup {y}
        BY <1>2, <1>5, BlockFacts
  <2> QED BY <1>1, <1>8, <2>1, UnlinkFields
<1>10. Headers' = Headers \cup {y} BY <1>9 DEF Headers
<1>11. Held' = Held \cup {cur}
  <2>1. ~block'[y].used BY <1>8, <1>9
  <2>2. \A h \in Headers : block'[h].used = (block[h].used \/ h = cur)
        BY <1>8, <1>9
  <2> QED BY <1>2, <1>6, <1>10, <2>1, <2>2 DEF Held
<1>12. block'[cur].size \in req .. block[cur].size
       BY <1>2, <1>4, <1>5, <1>8, <1>9
<1>13. \A g \in Held : block'[g].size = block[g].size
       BY <1>2, <1>8, <1>9 DEF Held
<1> QED BY <1>1, <1>2, <1>11, <1>12, <1>13, Grants

\* heap_expand's page is memory more, and no region.
LEMMA PageExtends ==
    ASSUME IInv, FirstPage \/ NextPage
    PROVE  Regions!Extend
<1>1. /\ block' = Write(block, heap_total, Fresh)
      /\ heap_total' = heap_total + PAGE_SIZE /\ want' = want
      BY DEF FirstPage, NextPage
<1>2. /\ heap_total \notin Headers
      /\ Headers' = Headers \cup {heap_total}
      /\ \A h \in Headers : block'[h] = block[h]
      /\ block'[heap_total] = Unused(PAGE_SIZE - HDR, NULL, NULL)
      BY <1>1, PageAdded
<1>3. ~block'[heap_total].used BY <1>2 DEF Unused
<1>4. Held' = Held BY <1>2, <1>3 DEF Held
<1>5. \A h \in Held : block'[h].size = block[h].size BY <1>2 DEF Held
<1>6. Granted' = Granted BY <1>4, <1>5, SameGranted
<1>7. heap_total' \in Nat /\ heap_total' > heap_total
      BY <1>1, HeapAssumption DEF IInv, Types
<1> QED BY <1>1, <1>6, <1>7 DEF Regions!Extend

\* kfree gives one region back, or refuses.
LEMMA KfreeReturnsRegion ==
    ASSUME IInv, NEW h \in Headers, Kfree(h)
    PROVE  Regions!Return \/ Unseen
<1>1. want' = want /\ heap_total' = heap_total BY DEF Kfree
<1>2. CASE block[h].used
  <2>1. block' = [block EXCEPT ![h].used = FALSE] BY <1>2 DEF Kfree
  <2>2. /\ Headers' = Headers
        /\ \A x \in Headers : /\ block'[x].size = block[x].size
                              /\ block'[x].used = (block[x].used /\ x # h)
        BY <2>1, BlockFacts DEF Headers, Block
  <2>3. h \in Held /\ Held' = Held \ {h} BY <1>2, <2>2 DEF Held
  <2>4. \A g \in Held : block'[g].size = block[g].size BY <2>2 DEF Held
  <2>5. /\ h + HDR \in DOMAIN Granted
        /\ Granted' = [q \in DOMAIN Granted \ {h + HDR} |-> Granted[q]]
        BY <2>3, <2>4, LessGranted
  <2> QED BY <1>1, <2>5 DEF Regions!Return
<1>3. CASE ~block[h].used
  <2>1. block' = block BY <1>3 DEF Kfree
  <2> QED BY <1>1, <2>1 DEF Unseen, Granted, Headers
<1> QED BY <1>2, <1>3

\* Writes to links move no region.
LEMMA LinksUnseen ==
    ASSUME IInv, AppendLink \/ InsertLink
    PROVE  Unseen
<1> DEFINE Same(b) == /\ b \in [Headers -> Block]
                      /\ \A x \in Headers : /\ b[x].size = block[x].size
                                            /\ b[x].used = block[x].used
<1>1. Same(block) /\ Headers \in SUBSET Int /\ NULL \in Int
      /\ blk \in Headers
  <2>1. blk \in Headers
        BY DEF IInv, Cursors, AppendCursor, InsertCursor, AppendLink,
               InsertLink, Inserted
  <2> QED BY <2>1, BlockFacts DEF NULL
<1>2. ASSUME AppendLink PROVE Same(block')
  <2>1. cur \in Int
        BY <1>1, <1>2, ListedFacts DEF AppendLink, IInv, Cursors, AppendCursor
  <2> DEFINE c == SetNext(block, cur, blk)
  <2>2. Same(c) BY <1>1, <2>1, SetNextFields
  <2> HIDE DEF c
  <2>3. block' = [c EXCEPT ![blk].prev = cur] BY <1>2 DEF AppendLink, c
  <2> QED BY <1>1, <2>1, <2>2, <2>3 DEF Block
<1>3. ASSUME InsertLink PROVE Same(block')
  <2>1. prv \in Int /\ cur \in Int
    <3>1. InsertCursor BY <1>3 DEF InsertLink, Inserted, IInv, Cursors
    <3> QED BY <1>1, <3>1, LinksListed, ListedFacts DEF InsertCursor
  <2> DEFINE c == [block EXCEPT ![blk].prev = prv, ![blk].next = cur]
             d == SetNext(c, prv, blk)
  <2>2. Same(c) BY <1>1, <2>1 DEF Block
  <2> HIDE DEF c
  <2>3. Same(d)
    <3>1. /\ d \in [Headers -> Block]
          /\ \A x \in Headers : d[x].size = c[x].size /\ d[x].used = c[x].used
          BY <1>1, <2>1, <2>2, SetNextFields
    <3> QED BY <2>2, <3>1
  <2>4. block' = SetPrev(d, cur, blk)
        BY <1>3 DEF InsertLink, Inserted, BackLinked, c
  <2> HIDE DEF d
  <2>5. /\ block' \in [Headers -> Block]
        /\ \A x \in Headers : /\ block'[x].size = d[x].size
                              /\ block'[x].used = d[x].used
        BY <1>1, <2>1, <2>3, <2>4, SetPrevFields
  <2> QED BY <2>3, <2>5
<1>4. Same(block') BY <1>2, <1>3
<1>5. Held' = Held BY <1>4 DEF Held, Headers
<1>6. \A h \in Held : block'[h].size = block[h].size BY <1>4 DEF Held
<1>7. Granted' = Granted BY <1>5, <1>6, SameGranted
<1> QED BY <1>7 DEF Unseen, AppendLink, InsertLink, Inserted

\* Only unused blocks are merged.
LEMMA MergeUnseen ==
    ASSUME IInv, MergePair
    PROVE  Unseen
<1> DEFINE n == block[cur].next
           m == block[n].next
           c == Merged(block, n)
           b == SetPrev(c, m, cur)
<1>1. /\ pc = "merge" /\ cur # NULL /\ n # NULL
      /\ ~block[cur].used /\ ~block[n].used
      /\ block' = [x \in Headers \ {n} |-> b[x]]
      /\ want' = want /\ heap_total' = heap_total
      BY DEF MergePair, AtLast, Mergeable, Headers
<1>2. cur \in Listed BY <1>1 DEF IInv, Cursors, MergeCursor
<1>3. n \in Listed BY <1>1, <1>2, ListedFacts DEF LeastAbove
<1>4. /\ cur \in Headers /\ n \in Headers /\ cur \in Int /\ n \in Int
      /\ m \in Int
      BY <1>2, <1>3, ListedFacts, BlockFacts
<1>5. /\ c \in [Headers -> Block]
      /\ \A x \in Headers :
            /\ x # cur => c[x].size = block[x].size
            /\ c[x].used = block[x].used
  <2> HIDE DEF n, m
  <2>1. block[cur].size + HDR + block[n].size \in Nat /\ m \in Int
        BY <1>4, BlockFacts, HeapAssumption
  <2> DEFINE k == block[cur].size + HDR + block[n].size
  <2>2. c = WithSizeNext(block, cur, k, m)
        BY <1>4, BlockFacts DEF Merged, WithSizeNext, m, Block
  <2>3. Headers \in SUBSET Int /\ block \in [Headers -> Block]
        BY BlockFacts
  <2>4. k \in Nat /\ cur \in Headers /\ m \in Int BY <1>4, <2>1
  <2> HIDE DEF c, k
  <2> QED BY ONLY <2>2, <2>3, <2>4, SizeNextFields
<1> HIDE DEF c
<1>6. \A x \in Headers : b[x].size = c[x].size /\ b[x].used = c[x].used
  <2>1. Headers \in SUBSET Int BY BlockFacts
  <2> HIDE DEF m
  <2> QED BY <1>4, <1>5, <2>1, SetPrevFields
<1> HIDE DEF b, m, n
<1>7. /\ Headers' = Headers \ {n}
      /\ \A x \in Headers \ {n} : block'[x] = b[x]
      BY <1>1 DEF Headers
<1>8. Held' = Held BY <1>1, <1>5, <1>6, <1>7 DEF Held
<1>9. \A h \in Held : block'[h].size = block[h].size
      BY <1>1, <1>5, <1>6, <1>7 DEF Held
<1>10. Granted' = Granted BY <1>8, <1>9, SameGranted
<1> QED BY <1>1, <1>10 DEF Unseen

LEMMA NextAllocator ==
    IInv /\ Asked /\ [Next]_vars => [Regions!Next]_(Regions!vars)
<1> SUFFICES ASSUME IInv, Asked, [Next]_vars
             PROVE  Regions!Next \/ Unseen
    BY DEF Regions!vars, Unseen
<1>1. ASSUME NEW n \in Requests, Kmalloc(n) PROVE Regions!Ask
  <2>1. want = 0 BY <1>1 DEF Kmalloc, IInv, Cursors
  <2>2. want' \in Requests \ {0} BY <1>1 DEF Kmalloc
  <2>3. UNCHANGED <<Granted, heap_total>>
        BY <1>1 DEF Kmalloc, heap, Granted, Headers
  <2> QED BY <2>1, <2>2, <2>3 DEF Regions!Ask
<1>2. ASSUME NEW h \in DOMAIN block, Kfree(h)
      PROVE  Regions!Return \/ Unseen
  BY <1>2, KfreeReturnsRegion DEF Headers
<1>3. ASSUME TakeWhole \/ TakeSplit PROVE Regions!Grant
  BY <1>3, TakeWholeGrants, TakeSplitGrants
<1>4. ASSUME FirstPage \/ NextPage PROVE Regions!Extend
  BY <1>4, PageExtends
<1>5. ASSUME AppendLink \/ InsertLink \/ MergePair PROVE Unseen
  BY <1>5, LinksUnseen, MergeUnseen
<1>6. ASSUME \/ ScanSkip \/ ScanGrow \/ AppendNext \/ InsertNext \/ MergeNext
             \/ MergeDone \/ GrowDone \/ UNCHANGED vars
      PROVE  Unseen
  <2>1. UNCHANGED heap
    BY <1>6 DEF ScanSkip, ScanGrow, AppendNext, InsertNext, MergeNext,
                MergeDone, GrowDone, vars
  <2>2. want' = want
    <3>1. ASSUME GrowDone PROVE want' = want
      BY <3>1 DEF GrowDone, Asked
    <3> QED BY <1>6, <3>1 DEF ScanSkip, ScanGrow, AppendNext, InsertNext,
                              MergeNext, MergeDone, vars
  <2> QED BY <2>1, <2>2 DEF Unseen, heap, Granted, Headers
<1> QED BY <1>1, <1>2, <1>3, <1>4, <1>5, <1>6 DEF Next, Running, Regions!Next

(***************************************************************************)
(* Seen from its callers the heap is the Allocator: a region is never less *)
(* than was asked for, never meets another, stays until it is returned,    *)
(* and a request is answered by a region or not at all.  The callers ask   *)
(* for no size that wraps when it is rounded up (HEAP.c:135).               *)
(***************************************************************************)
THEOREM AllocationCorrect ==
    ASSUME NoWrap
    PROVE  Spec => Allocation
<1>1. Init => Regions!Init
  <2> SUFFICES ASSUME Init PROVE Regions!Init OBVIOUS
  <2>1. want = 0 /\ heap_total = 0 /\ Headers = {} BY DEF Init, Headers
  <2>2. Granted = [p \in {} |-> 0] BY <2>1 DEF Granted
  <2> QED BY <2>1, <2>2 DEF Regions!Init
<1> QED BY <1>1, NextAllocator, Invariant, AskedInvariant, PTL
        DEF Spec, Allocation, Regions!Spec

-----------------------------------------------------------------------------
(***************************************************************************)
(* No loop of the heap runs for ever: what remains of the list ahead of    *)
(* the cursor grows shorter with every iteration of the scan of kmalloc,   *)
(* of the walk to the last block, of kfree's walk to the block's place and *)
(* of the merges of coalesce_blocks.  Fairness apart, this is why kfree    *)
(* returns.                                                                *)
(***************************************************************************)
Ahead == IF cur = NULL THEN {} ELSE {h \in Headers : h >= cur}

Looping == pc \in {"scan", "append", "insert", "merge"} /\ pc' = pc

LoopsAdvance ==
    [][Looping
          => /\ Cardinality(Ahead) \in Nat /\ Cardinality(Ahead') \in Nat
             /\ Cardinality(Ahead') < Cardinality(Ahead)]_vars

\* One of the headers ahead is behind, or gone.
LEMMA AheadShrinks ==
    ASSUME IInv, NEW x \in Ahead, Ahead' \subseteq Ahead \ {x}
    PROVE  /\ Cardinality(Ahead) \in Nat /\ Cardinality(Ahead') \in Nat
           /\ Cardinality(Ahead') < Cardinality(Ahead)
<1> DEFINE A == Ahead
           B == Ahead'
<1>1. IsFiniteSet(A)
  <2>1. A \in SUBSET Headers BY DEF Ahead
  <2> QED BY <2>1, HeadersFinite, FS_Subset
<1>2. x \in A /\ B \in SUBSET (A \ {x}) OBVIOUS
<1> HIDE DEF A, B
<1>3. Cardinality(A) \in Nat BY <1>1, FS_CardinalityType
<1>4. /\ IsFiniteSet(A \ {x})
      /\ Cardinality(A \ {x}) = Cardinality(A) - 1
      BY <1>1, <1>2, FS_RemoveElement
<1>5. IsFiniteSet(B) /\ Cardinality(B) <= Cardinality(A \ {x})
      BY <1>2, <1>4, FS_Subset
<1>6. Cardinality(B) \in Nat BY <1>5, FS_CardinalityType
<1>7. Cardinality(B) < Cardinality(A) BY <1>3, <1>4, <1>5, <1>6
<1> QED BY <1>3, <1>6, <1>7 DEF A, B

\* The cursor goes to the next block of the list.
LEMMA CursorAdvances ==
    ASSUME IInv, cur \in Listed, Headers' = Headers, cur' = block[cur].next
    PROVE  cur \in Ahead /\ Ahead' \subseteq Ahead \ {cur}
<1>1. cur \in Nat /\ cur \in Headers /\ cur # NULL BY ListedFacts
<1>2. LeastAbove(Listed, cur, cur') BY ListedFacts
<1>3. cur' # NULL => (cur' \in Nat /\ cur < cur')
  <2>1. cur' # NULL => (cur' \in Listed /\ cur < cur')
        BY <1>2 DEF LeastAbove
  <2> QED BY <2>1, ListedFacts
<1>4. \A h \in Headers : h \in Nat BY BlockFacts
<1>5. cur \in Ahead BY <1>1 DEF Ahead
<1>6. CASE cur' = NULL BY <1>5, <1>6 DEF Ahead
<1>7. CASE cur' # NULL
  <2>1. \A h \in Headers : h >= cur' => h >= cur /\ h # cur
        BY <1>1, <1>3, <1>4, <1>7
  <2> QED BY <1>1, <1>5, <1>7, <2>1 DEF Ahead
<1> QED BY <1>6, <1>7

\* A merge takes away the header behind the cursor.
LEMMA MergeAdvances ==
    ASSUME IInv, MergePair
    PROVE  \E x \in Ahead : Ahead' \subseteq Ahead \ {x}
<1> DEFINE n == block[cur].next
<1>1. /\ pc = "merge" /\ cur # NULL /\ n # NULL /\ cur' = cur
      /\ DOMAIN block' = Headers \ {n}
      BY DEF MergePair, AtLast, Headers
<1>2. cur \in Listed BY <1>1 DEF IInv, Cursors, MergeCursor
<1>3. LeastAbove(Listed, cur, n) BY <1>2, ListedFacts
<1>4. n \in Listed /\ cur < n BY <1>1, <1>3 DEF LeastAbove
<1>5. n \in Headers /\ n \in Nat /\ cur \in Nat BY <1>2, <1>4, ListedFacts
<1>6. Headers' = Headers \ {n} BY <1>1 DEF Headers
<1> HIDE DEF n
<1>7. n \in Ahead BY <1>1, <1>4, <1>5 DEF Ahead
<1>8. Ahead' \subseteq Ahead \ {n} BY <1>1, <1>6 DEF Ahead
<1> QED BY <1>7, <1>8

LEMMA AdvanceStep ==
    ASSUME IInv, Next, Looping
    PROVE  /\ Cardinality(Ahead) \in Nat /\ Cardinality(Ahead') \in Nat
           /\ Cardinality(Ahead') < Cardinality(Ahead)
<1>1. ScanSkip \/ AppendNext \/ InsertNext \/ MergeNext \/ MergePair
      BY DEF Looping, Next, Running, Kmalloc, Kfree, TakeWhole, TakeSplit,
             Serve, ScanGrow, FirstPage, NextPage, AppendLink, GrowDone,
             InsertLink, Inserted, MergeDone
<1>2. CASE MergePair BY <1>2, MergeAdvances, AheadShrinks
<1>3. CASE ScanSkip \/ AppendNext \/ InsertNext \/ MergeNext
  <2>1. UNCHANGED heap /\ cur' = block[cur].next
        BY <1>3 DEF ScanSkip, AppendNext, InsertNext, MergeNext
  <2>2. Headers' = Headers BY <2>1 DEF heap, Headers
  <2>3. cur \in Listed
    <3>1. CASE ScanSkip
          BY <3>1 DEF ScanSkip, IInv, Cursors, ScanCursor
    <3>2. CASE AppendNext
          BY <3>2 DEF AppendNext, AtLast, IInv, Cursors, AppendCursor
    <3>3. CASE InsertNext
      <4>1. pc = "insert" /\ cur # NULL BY <3>3 DEF InsertNext
      <4>2. InsertCursor BY <4>1 DEF IInv, Cursors
      <4> QED BY <4>1, <4>2, LinksListed DEF InsertCursor
    <3>4. CASE MergeNext
          BY <3>4 DEF MergeNext, IInv, Cursors, MergeCursor
    <3> QED BY <1>3, <3>1, <3>2, <3>3, <3>4
  <2> QED BY <2>1, <2>2, <2>3, CursorAdvances, AheadShrinks
<1> QED BY <1>1, <1>2, <1>3

THEOREM LoopsEnd == Spec => LoopsAdvance
<1>1. IInv /\ [Next]_vars
        => [Looping
               => /\ Cardinality(Ahead) \in Nat /\ Cardinality(Ahead') \in Nat
                  /\ Cardinality(Ahead') < Cardinality(Ahead)]_vars
      BY AdvanceStep
<1> QED BY <1>1, Invariant, PTL DEF Spec, LoopsAdvance

-----------------------------------------------------------------------------
(***************************************************************************)
(* A request that fits a page is not looked for in vain a second time      *)
(* unless alloc_page had no frame for it: the page heap_expand added is    *)
(* unused, listed and large enough when kmalloc calls itself.              *)
(***************************************************************************)
Small == req > 0 /\ req <= PAGE_SIZE - HDR

Fit == \E h \in Listed : block[h].size >= req

SmallFound ==
    [][pc = "grow" /\ pc' = "scan" /\ Small
          => Fit' \/ (frames = 0 /\ pages > 0)]_vars

\* One page is what a small request asks for, as long as nothing wraps.
PageFits == 2 * PAGE_SIZE <= WORD

SmallInv == Small => /\ pc = "grow" => pages = 1 \/ (pages = 0 /\ Fit)
                     /\ pc = "append" => pages = 1 /\ block[blk].size >= req

LEMMA OnePage == ASSUME PageFits, IInv, Small PROVE PagesNeeded = 1
<1>1. /\ req \in Nat /\ req > 0 /\ req + HDR <= PAGE_SIZE
      /\ PAGE_SIZE \in Nat /\ PAGE_SIZE > 0 /\ HDR \in Nat
      /\ WORD \in Nat /\ 2 * PAGE_SIZE <= WORD
      BY HeapAssumption DEF PageFits, IInv, Types, Small
<1>2. (req + HDR) % WORD = req + HDR BY <1>1
<1>3. (req + HDR + PAGE_SIZE - 1) % WORD = req + HDR + PAGE_SIZE - 1
      BY <1>1
<1> DEFINE k == req + HDR + PAGE_SIZE - 1
<1>4. k \in Nat /\ PAGE_SIZE <= k /\ k < 2 * PAGE_SIZE BY <1>1
<1> HIDE DEF k
<1>5. k \div PAGE_SIZE = 1
  <2>1. /\ k \div PAGE_SIZE \in Int
        /\ k = PAGE_SIZE * (k \div PAGE_SIZE) + (k % PAGE_SIZE)
        /\ k % PAGE_SIZE \in 0 .. (PAGE_SIZE - 1)
        BY <1>1, <1>4
  <2> DEFINE q == k \div PAGE_SIZE
  <2>2. CASE q <= 0
    <3>1. PAGE_SIZE * q <= 0 BY <1>1, <2>1, <2>2
    <3> QED BY <1>1, <1>4, <2>1, <3>1
  <2>3. CASE q >= 2
    <3>1. PAGE_SIZE * q >= 2 * PAGE_SIZE
      <4>1. PAGE_SIZE \in Nat /\ q \in Int /\ q - 2 >= 0 BY <1>1, <2>1, <2>3
      <4> HIDE DEF q
      <4>2. PAGE_SIZE * (q - 2) >= 0 BY ONLY <4>1
      <4>3. PAGE_SIZE * (q - 2) = PAGE_SIZE * q - 2 * PAGE_SIZE BY ONLY <4>1
      <4> QED BY ONLY <4>1, <4>2, <4>3
    <3> QED BY <1>1, <1>4, <2>1, <3>1
  <2> QED BY <2>1, <2>2, <2>3
<1> QED BY <1>2, <1>3, <1>5 DEF PagesNeeded, k

\* The page of an empty heap, and the page behind others.
LEMMA FreshFits ==
    ASSUME IInv, Small, block' = Write(block, heap_total, Fresh),
           heap_total' = heap_total + PAGE_SIZE, req' = req
    PROVE  /\ heap_total \in Headers' /\ ~block'[heap_total].used
           /\ block'[heap_total].size >= req'
<1>1. /\ Headers' = Headers \cup {heap_total}
      /\ block'[heap_total] = Unused(PAGE_SIZE - HDR, NULL, NULL)
      BY PageAdded
<1>2. /\ ~block'[heap_total].used
      /\ block'[heap_total].size = PAGE_SIZE - HDR
      BY <1>1 DEF Unused
<1>3. PAGE_SIZE - HDR >= req
      BY HeapAssumption DEF Small, IInv, Types
<1> QED BY <1>1, <1>2, <1>3

LEMMA SmallFirstPage ==
    ASSUME IInv, SmallInv, FirstPage PROVE SmallInv'
<1> SUFFICES ASSUME Small PROVE pages' = 0 /\ Fit' /\ pc' = "grow"
    BY DEF SmallInv, Small, FirstPage
<1>1. /\ pc = "grow" /\ pc' = "grow" /\ pages > 0 /\ pages' = pages - 1
      /\ block' = Write(block, heap_total, Fresh)
      /\ heap_total' = heap_total + PAGE_SIZE /\ req' = req
      BY DEF FirstPage
<1>2. pages' = 0 BY <1>1 DEF SmallInv
<1>3. heap_total \in Listed' BY <1>1, FreshFits DEF Listed
<1>4. Fit' BY <1>1, <1>3, FreshFits DEF Fit
<1> QED BY <1>1, <1>2, <1>4

LEMMA SmallNextPage ==
    ASSUME IInv, SmallInv, NextPage PROVE SmallInv'
<1> SUFFICES ASSUME Small
             PROVE  pc' = "append" /\ pages' = 1 /\ block'[blk'].size >= req'
    BY DEF SmallInv, Small, NextPage
<1>1. /\ pc = "grow" /\ pc' = "append" /\ pages > 0 /\ pages' = pages
      /\ block' = Write(block, heap_total, Fresh) /\ blk' = heap_total
      /\ heap_total' = heap_total + PAGE_SIZE /\ req' = req
      BY DEF NextPage
<1>2. pages' = 1 BY <1>1 DEF SmallInv
<1>3. block'[blk'].size >= req' BY <1>1, FreshFits
<1> QED BY <1>1, <1>2, <1>3

LEMMA SmallAppendLink ==
    ASSUME IInv, SmallInv, AppendLink PROVE SmallInv'
<1> SUFFICES ASSUME Small PROVE pages' = 0 /\ Fit' /\ pc' = "grow"
    BY DEF SmallInv, Small, AppendLink
<1>1. /\ pc = "append" /\ pc' = "grow" /\ pages' = pages - 1
      /\ block' = [SetNext(block, cur, blk) EXCEPT ![blk].prev = cur]
      /\ req' = req
      BY DEF AppendLink
<1>2. pages = 1 /\ block[blk].size >= req BY <1>1 DEF SmallInv
<1>3. /\ blk \in Headers /\ ~block[blk].used
      /\ cur = NULL \/ cur \in Listed
      BY <1>1 DEF IInv, Cursors, AppendCursor
<1>4. cur \in Int /\ blk \in Int
  <2>1. blk \in Int BY <1>3, BlockFacts
  <2>2. cur = NULL => cur \in Int BY DEF NULL
  <2>3. cur \in Listed => cur \in Int BY ListedFacts
  <2> QED BY <1>3, <2>1, <2>2, <2>3
<1> DEFINE c == SetNext(block, cur, blk)
<1>5. /\ c \in [Headers -> Block]
      /\ c[blk].size = block[blk].size /\ c[blk].used = block[blk].used
  <2>1. Headers \in SUBSET Int /\ block \in [Headers -> Block]
        BY BlockFacts
  <2> QED BY <1>3, <1>4, <2>1, SetNextFields
<1>6. block' = [c EXCEPT ![blk].prev = cur] BY <1>1
<1> HIDE DEF c
<1>7. /\ Headers' = Headers /\ block'[blk].used = c[blk].used
      /\ block'[blk].size = c[blk].size
  <2>1. c[blk] \in Block BY <1>3, <1>5
  <2>2. block'[blk] = [c[blk] EXCEPT !.prev = cur] BY <1>3, <1>5, <1>6
  <2>3. Headers' = Headers BY <1>5, <1>6 DEF Headers
  <2> QED BY <2>1, <2>2, <2>3 DEF Block
<1>8. blk \in Listed' BY <1>1, <1>3, <1>5, <1>7 DEF Listed
<1>9. Fit' BY <1>1, <1>2, <1>5, <1>7, <1>8 DEF Fit
<1> QED BY <1>1, <1>2, <1>9

LEMMA SmallInvNext ==
    ASSUME PageFits
    PROVE  IInv /\ SmallInv /\ [Next]_vars => SmallInv'
<1> SUFFICES ASSUME IInv, SmallInv, [Next]_vars PROVE SmallInv' OBVIOUS
<1>1. CASE UNCHANGED vars
      BY <1>1 DEF vars, heap, SmallInv, Small, Fit, Listed, Headers
<1>2. CASE ScanGrow
  <2>1. /\ pc' = "grow" /\ pages' = PagesNeeded /\ req' = req
        BY <1>2 DEF ScanGrow
  <2> QED BY <2>1, OnePage DEF SmallInv, Small
<1>3. CASE AppendNext
      BY <1>3 DEF AppendNext, heap, SmallInv, Small
<1>4. CASE pc' \notin {"grow", "append"} BY <1>4 DEF SmallInv
<1>5. CASE Next /\ pc' \in {"grow", "append"}
  <2>1. \/ ScanGrow \/ FirstPage \/ NextPage \/ AppendNext \/ AppendLink
        BY <1>5 DEF Next, Running, Kmalloc, Kfree, ScanSkip, TakeWhole,
           TakeSplit, Serve, GrowDone, InsertNext, InsertLink, Inserted,
           MergePair, MergeNext, MergeDone
  <2>2. CASE FirstPage BY <2>2, SmallFirstPage
  <2>3. CASE NextPage BY <2>3, SmallNextPage
  <2>4. CASE AppendLink BY <2>4, SmallAppendLink
  <2> QED BY ONLY <1>2, <1>3, <2>1, <2>2, <2>3, <2>4
<1> QED BY <1>1, <1>4, <1>5

LEMMA SmallInvInit == Init => SmallInv
BY DEF Init, SmallInv, Small

LEMMA SmallFoundStep ==
    ASSUME SmallInv, IInv, Next, pc = "grow", pc' = "scan", Small
    PROVE  Fit' \/ (frames = 0 /\ pages > 0)
<1>1. GrowDone
      BY DEF Next, Running, Kmalloc, Kfree, ScanSkip, TakeWhole, TakeSplit,
             Serve, ScanGrow, FirstPage, NextPage, AppendNext, AppendLink,
             InsertNext, InsertLink, Inserted, MergePair, MergeNext, MergeDone
<1>2. UNCHANGED heap /\ req' = req /\ (pages = 0 \/ frames = 0)
      BY <1>1 DEF GrowDone
<1>3. Listed' = Listed BY <1>2 DEF heap, Listed, Headers
<1>4. Fit' <=> Fit BY <1>2, <1>3 DEF Fit, heap
<1>5. pages = 1 \/ (pages = 0 /\ Fit) BY DEF SmallInv
<1> QED BY <1>2, <1>4, <1>5

THEOREM SmallFoundCorrect == ASSUME PageFits PROVE Spec => SmallFound
<1>1. IInv /\ SmallInv /\ [Next]_vars
        => [pc = "grow" /\ pc' = "scan" /\ Small
               => Fit' \/ (frames = 0 /\ pages > 0)]_vars
      BY SmallFoundStep
<1>2. Spec => []SmallInv
      BY SmallInvInit, SmallInvNext, Invariant, PTL DEF Spec
<1> QED BY <1>1, <1>2, Invariant, PTL DEF Spec, SmallFound
=============================================================================
