----------------------------- MODULE LegacyHeap -----------------------------
(***************************************************************************)
(* The heap of the first kernel, old/Include/HEAP.c: a fixed region cut    *)
(* into blocks, the unused ones on a list in address order, those in use   *)
(* on a second list, latest first.                                         *)
(*                                                                         *)
(* Memory is words.  A header is five of them and nothing but the code     *)
(* keeps headers and the callers' data apart; addresses are offsets from   *)
(* HEAP_START.  A step is one iteration of a loop or the straight line     *)
(* between two loops.  kernel_main calls in sequence and no interrupt      *)
(* handler of old/ uses the heap.                                          *)
(***************************************************************************)
EXTENDS Integers

CONSTANTS HEAP_SIZE,  \* words in the heap, 524288
          ALIGN,      \* KMALLOC rounds up to 16 bytes: 4 words
          MIN_SPLIT,  \* MIN_BLOCK_SIZE + 16 bytes: 8 words
          WORD,       \* the numbers of ukint32, in words
          Requests,   \* words the callers ask for
          Careful     \* callers ask for no size the test of line 57 gets wrong

BLOCK_SIZE == 5       \* magic, size, used, next, prev

ASSUME LegacyHeapAssumption ==
    /\ HEAP_SIZE \in Nat /\ BLOCK_SIZE < HEAP_SIZE /\ HEAP_SIZE < WORD
    /\ ALIGN \in Nat \ {0} /\ MIN_SPLIT \in Nat
    /\ WORD \in Nat /\ Requests \subseteq 0 .. (WORD - 1)
    /\ Careful \in BOOLEAN

NULL == -1
BLOCK_MAGIC == WORD - 1   \* any large number
Heap == 0 .. (HEAP_SIZE - 1)

VARIABLES mem,                  \* the heap's words
          free_list, used_list,
          pc,                   \* "boot", "idle", or where a call is
          want,                 \* the size of the KMALLOC in progress
          cur, prv, blk,        \* current, prev and block of the loops
          held,                 \* callers: pointer -> words it may use
          past                  \* pointers freed since the last KMALLOC

lists == <<free_list, used_list>>
vars == <<mem, lists, pc, want, cur, prv, blk, held, past>>

-----------------------------------------------------------------------------
\* The fields of the header at h.  What lies behind the heap is not the
\* heap's: it reads as 0 here and writes to it are left out.
magic(h) == h
size(h) == h + 1
used(h) == h + 2
next(h) == h + 3
prev(h) == h + 4

Get(m, a) == IF a \in Heap THEN m[a] ELSE 0

Put(m, a, x) == IF a \in Heap THEN [m EXCEPT ![a] = x] ELSE m

\* if(h) *field = x, for the field of h at address a.
PutIf(m, h, a, x) == IF h = NULL THEN m ELSE Put(m, a, x)

Header(m, h, s, n, p) ==
    Put(Put(Put(Put(Put(m, magic(h), BLOCK_MAGIC), size(h), s), used(h), 0),
        next(h), n), prev(h), p)

End(m, h) == h + BLOCK_SIZE + Get(m, size(h))

-----------------------------------------------------------------------------
(***************************************************************************)
(* HEAP_INIT, which kernel_main calls once.                                *)
(***************************************************************************)
HEAP_INIT ==
    /\ pc = "boot" /\ pc' = "idle"
    /\ mem' = Header(mem, 0, HEAP_SIZE - BLOCK_SIZE, NULL, NULL)
    /\ free_list' = 0 /\ used_list' = NULL
    /\ UNCHANGED <<want, cur, prv, blk, held, past>>

Init == /\ mem = [w \in Heap |-> 0]
        /\ free_list = NULL /\ used_list = NULL
        /\ pc = "boot" /\ want = 0
        /\ cur = NULL /\ prv = NULL /\ blk = NULL
        /\ held = [p \in {} |-> 0] /\ past = {}

-----------------------------------------------------------------------------
(***************************************************************************)
(* KMALLOC(n) up to find_free_block, its loop, and its two outcomes.       *)
(***************************************************************************)
Rounded(n) == (((n + ALIGN - 1) % WORD) \div ALIGN) * ALIGN

\* The headers a list links, from its first.
Linked(first) ==
    LET after(h) == IF h = NULL THEN NULL ELSE Get(mem, next(h))
        at[i \in 0 .. HEAP_SIZE \div BLOCK_SIZE] ==
            IF i = 0 THEN first ELSE after(at[i - 1])
    IN  {at[i] : i \in DOMAIN at} \ {NULL}

\* The first free block that is large enough for s has room for a header
\* behind it, if there is one at all.
RoomForHeader(s) ==
    \A h \in Linked(free_list) :
        Get(mem, size(h)) \in s .. (s + BLOCK_SIZE - 1)
            => \E g \in Linked(free_list) : g < h /\ Get(mem, size(g)) >= s

KMALLOC(n) ==
    /\ pc = "idle" /\ n # 0
    /\ Careful => RoomForHeader(Rounded(n))
    /\ pc' = "find" /\ want' = Rounded(n) /\ cur' = free_list
    /\ UNCHANGED <<mem, lists, prv, blk, held, past>>

Fits(h) == Get(mem, size(h)) >= want /\ Get(mem, used(h)) = 0

FindNext ==
    /\ pc = "find" /\ cur # NULL /\ ~Fits(cur)
    /\ cur' = Get(mem, next(cur))
    /\ UNCHANGED <<mem, lists, pc, want, prv, blk, held, past>>

FindNone ==
    /\ pc = "find" /\ cur = NULL
    /\ pc' = "idle" /\ want' = 0
    /\ UNCHANGED <<mem, lists, cur, prv, blk, held, past>>

FindFit ==
    /\ pc = "find" /\ cur # NULL /\ Fits(cur)
    /\ pc' = "take"
    /\ UNCHANGED <<mem, lists, want, cur, prv, blk, held, past>>

-----------------------------------------------------------------------------
(***************************************************************************)
(* KMALLOC from the split on.  The remainder is unsigned: for a block with *)
(* less than a header to spare it is a number near 2^32.                   *)
(***************************************************************************)
Remaining(h) == (Get(mem, size(h)) - want - BLOCK_SIZE) % WORD

Split(m, h) ==
    LET new == h + BLOCK_SIZE + want
        m1  == Header(m, new, Remaining(h), Get(m, next(h)), h)
        m2  == PutIf(m1, Get(m1, next(h)), prev(Get(m1, next(h))), new)
    IN  Put(Put(m2, next(h), new), size(h), want)

SplitIfRoom(m, h) == IF Remaining(h) >= MIN_SPLIT THEN Split(m, h) ELSE m

\* Off its list, whose head the code moves where there is no prev.
\* Mutant: the next block keeps its prev.
UnlinkForward(m, h) ==
    PutIf(m, Get(m, prev(h)), next(Get(m, prev(h))), Get(m, next(h)))

Unlink(m, h) ==
    LET m1 == PutIf(m, Get(m, prev(h)), next(Get(m, prev(h))), Get(m, next(h)))
    IN  PutIf(m1, Get(m1, next(h)), prev(Get(m1, next(h))), Get(m1, prev(h)))

HeadAfter(m, h, head) ==
    IF Get(m, prev(h)) = NULL THEN Get(m, next(h)) ELSE head

PushUsed(m, h) ==
    PutIf(Put(Put(m, prev(h), NULL), next(h), used_list),
          used_list, prev(used_list), h)

\* The caller writes x all over the n words it holds at p: a word that looks
\* like a header when it gets them, as ultimate_test does, 0 before it frees.
Filled(m, p, n, x) ==
    [w \in Heap |-> IF w \in p .. (p + n - 1) THEN x ELSE m[w]]

Take ==
    LET m1 == Put(SplitIfRoom(mem, cur), used(cur), 1)
        p  == cur + BLOCK_SIZE
    IN  /\ pc = "take" /\ pc' = "idle"
        /\ \E m2 \in {PushUsed(Unlink(m1, cur), cur)} :
              mem' = Filled(m2, p, want, BLOCK_MAGIC)
        /\ free_list' = HeadAfter(m1, cur, free_list)
        /\ used_list' = cur
        /\ held' = [q \in DOMAIN held \cup {p} |->
                       IF q = p THEN want ELSE held[q]]
        /\ want' = 0 /\ cur' = NULL /\ past' = {}
        /\ UNCHANGED <<prv, blk>>

-----------------------------------------------------------------------------
(***************************************************************************)
(* KFREE(p) up to insert_free_block: a header that is none and one that is *)
(* free already are refused.                                               *)
(***************************************************************************)
\* Mutant: the second free is not noticed.
RefusedMagic(h) == Get(mem, magic(h)) # BLOCK_MAGIC

Refused(h) == Get(mem, magic(h)) # BLOCK_MAGIC \/ Get(mem, used(h)) = 0

KFREE(p) ==
    LET h  == p - BLOCK_SIZE
        m0 == IF p \in DOMAIN held THEN Filled(mem, p, held[p], 0) ELSE mem
        m1 == Put(m0, used(h), 0)
    IN  /\ pc = "idle" /\ ~Refused(h)
        /\ mem' = Put(Put(Unlink(m1, h), prev(h), NULL), next(h), NULL)
        /\ used_list' = HeadAfter(m1, h, used_list)
        /\ pc' = "insert" /\ cur' = free_list /\ prv' = NULL /\ blk' = h
        /\ held' = [q \in DOMAIN held \ {p} |-> held[q]]
        /\ past' = past \cup {p}
        /\ UNCHANGED <<free_list, want>>

InsertNext ==
    /\ pc = "insert" /\ cur # NULL /\ cur < blk
    /\ prv' = cur /\ cur' = Get(mem, next(cur))
    /\ UNCHANGED <<mem, lists, pc, want, blk, held, past>>

\* insert_free_block's links, then KFREE's two merges.
Inserted(m) ==
    LET m1 == Put(Put(m, prev(blk), prv), next(blk), cur)
        m2 == PutIf(m1, cur, prev(cur), blk)
    IN  PutIf(m2, prv, next(prv), blk)

Join(m, h, n) ==
    LET m1 == Put(m, size(h), Get(m, size(h)) + BLOCK_SIZE + Get(m, size(n)))
        m2 == Put(m1, next(h), Get(m, next(n)))
    IN  PutIf(m2, Get(m2, next(h)), prev(Get(m2, next(h))), h)

\* Mutant: the neighbours on the list are joined wherever they lie.
JoinNextAlways(m) ==
    LET n == Get(m, next(blk)) IN IF n # NULL THEN Join(m, blk, n) ELSE m

JoinNext(m) ==
    LET n == Get(m, next(blk))
    IN  IF n # NULL /\ End(m, blk) = n THEN Join(m, blk, n) ELSE m

\* Mutant: only one side is looked at.
JoinPrevNot(m) == m

JoinPrev(m) ==
    LET p == Get(m, prev(blk))
    IN  IF p # NULL /\ End(m, p) = blk THEN Join(m, p, blk) ELSE m

InsertLink ==
    /\ pc = "insert" /\ (cur = NULL \/ cur >= blk)
    /\ mem' = JoinPrev(JoinNext(Inserted(mem)))
    /\ free_list' = IF prv = NULL THEN blk ELSE free_list
    /\ pc' = "idle" /\ cur' = NULL /\ prv' = NULL /\ blk' = NULL
    /\ UNCHANGED <<used_list, want, held, past>>

-----------------------------------------------------------------------------
Running == FindNext \/ FindNone \/ FindFit \/ Take \/ InsertNext \/ InsertLink

\* Callers free what they hold, and free it again before they ask for more.
Next == \/ HEAP_INIT
        \/ \E n \in Requests : KMALLOC(n)
        \/ \E p \in DOMAIN held \cup past : KFREE(p)
        \/ Running

Spec == Init /\ [][Next]_vars

\* A call in progress has the processor; nobody need call.
FairSpec == Spec /\ WF_vars(Running)

-----------------------------------------------------------------------------
\* The headers met by walking the heap from its start, block by block.
Behind(h) == IF h \in Heap THEN End(mem, h) ELSE h

Walk[i \in 0 .. HEAP_SIZE \div BLOCK_SIZE] ==
    IF i = 0 THEN 0 ELSE Behind(Walk[i - 1])

Blocks == {Walk[i] : i \in DOMAIN Walk} \cap Heap

InUse(blocks) == {h \in blocks : Get(mem, used(h)) # 0}

(***************************************************************************)
(* The blocks tile the heap to its last word, each behind a good header,   *)
(* and those in use are the callers', none smaller than what it was given  *)
(* for: whatever is freed in whatever order, and freed again, splits and   *)
(* merges lose nothing and leave no header inside another block.           *)
(***************************************************************************)
Tiling ==
    LET blocks == Blocks
    IN  pc # "boot" =>
        /\ \E i \in DOMAIN Walk : Walk[i] = HEAP_SIZE
        /\ \A h \in blocks : Get(mem, magic(h)) = BLOCK_MAGIC
        /\ DOMAIN held = {h + BLOCK_SIZE : h \in InUse(blocks)}
        /\ \A p \in DOMAIN held : Get(mem, size(p - BLOCK_SIZE)) >= held[p]

(***************************************************************************)
(* Between calls each block is on exactly the list its used byte says,     *)
(* linked both ways, the free ones in address order.  KMALLOC's unlinking  *)
(* and KFREE's go by these links, whichever list the block is on.          *)
(***************************************************************************)
LinkedBothWays(first) ==
    /\ first # NULL => Get(mem, prev(first)) = NULL
    /\ \A h \in Linked(first) :
          LET n == Get(mem, next(h)) IN n # NULL => Get(mem, prev(n)) = h

ListsExact ==
    pc = "idle" =>
        /\ LET blocks == Blocks
           IN  /\ Linked(free_list) = blocks \ InUse(blocks)
               /\ Linked(used_list) = InUse(blocks)
        /\ LinkedBothWays(free_list) /\ LinkedBothWays(used_list)
        /\ \A h \in Linked(free_list) :
              LET n == Get(mem, next(h)) IN n # NULL => h < n

(***************************************************************************)
(* Between calls no two unused blocks touch: KFREE looks at one neighbour  *)
(* on each side and that is enough.  (verify_heap_clean and ultimate_test  *)
(* count on an emptied heap being one block again, DEBUG.c:413-426.)       *)
(***************************************************************************)
Coalesced ==
    LET unused == Blocks \ InUse(Blocks)
    IN  pc = "idle" => \A h \in unused : End(mem, h) \notin unused

(***************************************************************************)
(* What a caller wrote to its memory stays: no header and no link is ever  *)
(* written there ("Memory content preserved", DEBUG.c:326-327), although   *)
(* the callers' data look like headers.                                    *)
(***************************************************************************)
ContentKept ==
    \A p \in DOMAIN held :
        \A w \in p .. (p + held[p] - 1) : Get(mem, w) = BLOCK_MAGIC

(***************************************************************************)
(* The region KMALLOC returns is nowhere closer to another than a region   *)
(* and a header: "Should be > 100 (size + header)", DEBUG.c:121, of two    *)
(* blocks of 100 bytes.                                                    *)
(***************************************************************************)
Spacing ==
    [][pc = "take" =>
          LET p == cur + BLOCK_SIZE
          IN  \A q \in DOMAIN held :
                 \/ q + held[q] + BLOCK_SIZE <= p
                 \/ p + want + BLOCK_SIZE <= q]_vars

(***************************************************************************)
(* Seen from its callers the heap is the Allocator of the second kernel's, *)
(* which has all its memory from HEAP_INIT on.  A request appears there    *)
(* when a block has been found; those that KMALLOC refuses do not.         *)
(***************************************************************************)
Regions == INSTANCE Allocator
              WITH Sizes <- {Rounded(n) : n \in Requests \ {0}},
                   asked <- IF pc = "take" THEN want ELSE 0,
                   granted <- held,
                   brk <- IF pc = "boot" THEN 0 ELSE HEAP_SIZE

Allocation == Regions!Spec

\* Every call returns, whatever the heap holds and whether it is full.
CallsReturn == pc \in {"find", "insert"} ~> pc = "idle"
=============================================================================
