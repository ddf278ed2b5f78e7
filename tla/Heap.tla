------------------------------- MODULE Heap --------------------------------
(***************************************************************************)
(* The kernel heap, Kernel/src/Include/HEAP.c: blocks laid end to end from *)
(* TEST_HEAP_VIRT, each behind a header, the unused ones chained by        *)
(* address on a doubly linked free list.                                   *)
(*                                                                         *)
(* A step is one iteration of a loop of the code, or the straight line     *)
(* between two loops; pc says which loop runs.  kmalloc's call of itself   *)
(* after heap_expand is the return to "scan": the recursion is in tail     *)
(* position and passes the size already rounded.  Addresses are offsets    *)
(* from TEST_HEAP_VIRT.  alloc_page is a count of frames left; that        *)
(* vmm_map_page gives every heap page a frame of its own is assumed here.  *)
(***************************************************************************)
EXTENDS Integers, FiniteSets

CONSTANTS HDR,        \* sizeof(block_t), 16 bytes
          ALIGN,      \* 8: kmalloc rounds sizes up to a multiple of it
          MIN_TAIL,   \* 16: a split leaves at least this many bytes
          PAGE_SIZE,  \* 4096
          INIT_PAGES, \* HEAP_INIT_PAGES, 4
          FRAMES,     \* frames alloc_page can still hand out at boot
          WORD,       \* 2^32: uint32 arithmetic wraps at it
          Requests    \* sizes that callers of kmalloc ask for

ASSUME HeapAssumption ==
    /\ HDR \in Nat \ {0} /\ ALIGN \in Nat \ {0} /\ MIN_TAIL \in Nat
    /\ PAGE_SIZE \in Nat /\ HDR < PAGE_SIZE
    /\ INIT_PAGES \in Nat /\ FRAMES \in Nat
    /\ WORD \in Nat \ {0}
    /\ Requests \subseteq 0 .. (WORD - 1)

NULL == -1             \* no offset is negative

VARIABLES block,       \* the headers in memory: offset -> block_t
          heap_start, free_list, heap_total, heap_blocks,
          frames,      \* frames alloc_page has left
          pc,          \* the loop that is running, "idle" between calls
          want, req,   \* sizes asked for and rounded of the kmalloc in
                       \* progress, both 0 in heap_init and in kfree
          pages,       \* pages heap_expand still has to add
          cur, prv,    \* the loops' cursors: current, last and prev
          blk          \* the block being appended or inserted

heap == <<block, heap_start, free_list, heap_total, heap_blocks>>
vars == <<heap, frames, pc, want, req, pages, cur, prv, blk>>

-----------------------------------------------------------------------------
\* Memory accesses.  A pointer that the code tests before it writes through
\* it may be NULL: nothing is written then.
Write(b, h, header) ==
    [x \in DOMAIN b \cup {h} |-> IF x = h THEN header ELSE b[x]]

SetNext(b, h, v) ==
    [x \in DOMAIN b |-> IF x = h THEN [b[x] EXCEPT !.next = v] ELSE b[x]]

SetPrev(b, h, v) ==
    [x \in DOMAIN b |-> IF x = h THEN [b[x] EXCEPT !.prev = v] ELSE b[x]]

Unused(size, next, prev) ==
    [size |-> size, used |-> FALSE, next |-> next, prev |-> prev]

End(b, h) == h + HDR + b[h].size

-----------------------------------------------------------------------------
(***************************************************************************)
(* heap_init calls heap_expand(HEAP_INIT_PAGES) on the static variables.   *)
(***************************************************************************)
Init == /\ block = [h \in {} |-> Unused(0, NULL, NULL)]
        /\ heap_start = NULL /\ free_list = NULL
        /\ heap_total = 0 /\ heap_blocks = 0
        /\ frames = FRAMES
        /\ pc = "grow" /\ want = 0 /\ req = 0 /\ pages = INIT_PAGES
        /\ cur = NULL /\ prv = NULL /\ blk = NULL

(***************************************************************************)
(* kmalloc(n): nothing for 0 bytes; else the size is rounded up and the    *)
(* scan of the free list starts.                                           *)
(***************************************************************************)
\* (The form that rounds down is one of the runs' mutants.)
RoundedDown(n) == ((n % WORD) \div ALIGN) * ALIGN

Rounded(n) == (((n + ALIGN - 1) % WORD) \div ALIGN) * ALIGN

Kmalloc(n) ==
    /\ pc = "idle" /\ n # 0
    /\ pc' = "scan" /\ want' = n /\ req' = Rounded(n) /\ cur' = free_list
    /\ UNCHANGED <<heap, frames, pages, prv, blk>>

FitsStrict(h) == ~block[h].used /\ block[h].size > req \* mutant

Fits(h) == ~block[h].used /\ block[h].size >= req

ScanSkip ==
    /\ pc = "scan" /\ cur # NULL /\ ~Fits(cur)
    /\ cur' = block[cur].next
    /\ UNCHANGED <<heap, frames, pc, want, req, pages, prv, blk>>

\* split_block: the tail becomes a block of its own when it is large enough.
Splits(h) == block[h].size - req >= HDR + MIN_TAIL

Rest(h) == h + HDR + req

\* Mutant: the tail's header is not taken off its size.
SplitNoHeader(b, h) ==
    LET rest   == Unused(b[h].size - req, b[h].next, h)
        linked == SetNext(SetPrev(b, b[h].next, Rest(h)), h, Rest(h))
    IN  Write([linked EXCEPT ![h].size = req], Rest(h), rest)

Split(b, h) ==
    LET rest   == Unused(b[h].size - req - HDR, b[h].next, h)
        linked == SetNext(SetPrev(b, b[h].next, Rest(h)), h, Rest(h))
    IN  Write([linked EXCEPT ![h].size = req], Rest(h), rest)

\* kmalloc takes the block off the list after the split, so that it is the
\* tail that takes its place.
\* The links of a used block are dead until kfree writes them: they are
\* NULL here.
Unlink(b, h) ==
    LET c == SetPrev(SetNext(b, b[h].prev, b[h].next), b[h].next, b[h].prev)
    IN  SetPrev(SetNext(c, h, NULL), h, NULL)

Serve == /\ pc' = "idle" /\ want' = 0 /\ req' = 0 /\ cur' = NULL
         /\ UNCHANGED <<heap_start, heap_total, frames, pages, prv, blk>>

TakeWhole ==
    /\ pc = "scan" /\ cur # NULL /\ Fits(cur) /\ ~Splits(cur)
    /\ block' = Unlink([block EXCEPT ![cur].used = TRUE], cur)
    /\ free_list' = IF block[cur].prev = NULL THEN block[cur].next ELSE free_list
    /\ UNCHANGED heap_blocks
    /\ Serve

TakeSplit ==
    /\ pc = "scan" /\ cur # NULL /\ Fits(cur) /\ Splits(cur)
    /\ block' = Unlink(Split([block EXCEPT ![cur].used = TRUE], cur), cur)
    /\ free_list' = IF block[cur].prev = NULL \/ free_list = cur
                    THEN Rest(cur) ELSE free_list
    /\ heap_blocks' = heap_blocks + 1
    /\ Serve

\* No block fits: heap_expand for the pages that hold size and header.
PagesNeededDown == ((req + HDR) % WORD) \div PAGE_SIZE \* mutant

PagesNeeded == ((((req + HDR) % WORD) + PAGE_SIZE - 1) % WORD) \div PAGE_SIZE

ScanGrow ==
    /\ pc = "scan" /\ cur = NULL
    /\ pc' = "grow" /\ pages' = PagesNeeded
    /\ UNCHANGED <<heap, frames, want, req, cur, prv, blk>>

-----------------------------------------------------------------------------
(***************************************************************************)
(* heap_expand, one page at a time; the first page of all starts the list. *)
(***************************************************************************)
Fresh == Unused(PAGE_SIZE - HDR, NULL, NULL)

FirstPage ==
    /\ pc = "grow" /\ pages > 0 /\ frames > 0 /\ heap_start = NULL
    /\ block' = Write(block, heap_total, Fresh)
    /\ heap_start' = heap_total /\ free_list' = heap_total
    /\ heap_total' = heap_total + PAGE_SIZE
    /\ heap_blocks' = 1
    /\ frames' = frames - 1 /\ pages' = pages - 1
    /\ UNCHANGED <<pc, want, req, cur, prv, blk>>

NextPage ==
    /\ pc = "grow" /\ pages > 0 /\ frames > 0 /\ heap_start # NULL
    /\ block' = Write(block, heap_total, Fresh)
    /\ heap_total' = heap_total + PAGE_SIZE
    /\ frames' = frames - 1
    /\ pc' = "append" /\ blk' = heap_total /\ cur' = free_list
    /\ UNCHANGED <<heap_start, free_list, heap_blocks,
                   want, req, pages, prv>>

\* The walk to the last block of the list.
AtLast == IF cur = NULL THEN TRUE ELSE block[cur].next = NULL

AppendNext ==
    /\ pc = "append" /\ ~AtLast
    /\ cur' = block[cur].next
    /\ UNCHANGED <<heap, frames, pc, want, req, pages, prv, blk>>

AppendLink ==
    /\ pc = "append" /\ AtLast
    /\ block' = [SetNext(block, cur, blk) EXCEPT ![blk].prev = cur]
    /\ free_list' = IF cur = NULL THEN blk ELSE free_list
    /\ heap_blocks' = heap_blocks + 1
    /\ pc' = "grow" /\ pages' = pages - 1 /\ cur' = NULL /\ blk' = NULL
    /\ UNCHANGED <<heap_start, heap_total,
                   frames, want, req, prv>>

\* heap_expand returns, early if alloc_page failed.  heap_init is then done;
\* kmalloc calls itself, which for 0 bytes returns 0 and else scans again.
GrowDone ==
    /\ pc = "grow" /\ (pages = 0 \/ frames = 0)
    /\ pages' = 0
    /\ IF req = 0 THEN pc' = "idle" /\ want' = 0 /\ UNCHANGED cur
                  ELSE pc' = "scan" /\ UNCHANGED want /\ cur' = free_list
    /\ UNCHANGED <<heap, frames, req, prv, blk>>

-----------------------------------------------------------------------------
(***************************************************************************)
(* kfree(ptr), by the header it belongs to: an unused block is a double    *)
(* free and is refused; a used one goes back to its place by address, and  *)
(* coalesce_blocks passes over the whole list.                             *)
(***************************************************************************)
Kfree(h) ==
    /\ pc = "idle"
    /\ IF block[h].used
       THEN /\ block' = [block EXCEPT ![h].used = FALSE]
            /\ pc' = "insert" /\ cur' = free_list /\ prv' = NULL /\ blk' = h
       ELSE UNCHANGED <<block, pc, cur, prv, blk>>
    /\ UNCHANGED <<heap_start, free_list, heap_total, heap_blocks,
                   frames, want, req, pages>>

\* Mutant: the walk does not advance.
InsertNextStuck ==
    /\ pc = "insert" /\ cur # NULL /\ cur < blk
    /\ prv' = cur
    /\ UNCHANGED <<heap, frames, pc, want, req, pages, cur, blk>>

InsertNext ==
    /\ pc = "insert" /\ cur # NULL /\ cur < blk
    /\ prv' = cur /\ cur' = block[cur].next
    /\ UNCHANGED <<heap, frames, pc, want, req, pages, blk>>

\* Mutants of the link: the successor's prev is forgotten; the pass starts
\* at the block put back.
Inserted(b, first) ==
    /\ pc = "insert" /\ ~(cur # NULL /\ cur < blk)
    /\ block' = b
    /\ free_list' = IF prv = NULL THEN blk ELSE free_list
    /\ pc' = "merge" /\ cur' = first /\ prv' = NULL /\ blk' = NULL
    /\ UNCHANGED <<heap_start, heap_total, heap_blocks,
                   frames, want, req, pages>>

BackLinked == SetNext([block EXCEPT ![blk].prev = prv, ![blk].next = cur],
                      prv, blk)

InsertLinkNoPrev == Inserted(BackLinked, free_list')

InsertLinkLocal == Inserted(SetPrev(BackLinked, cur, blk), blk)

InsertLink == Inserted(SetPrev(BackLinked, cur, blk), free_list')

Mergeable(h) == LET n == block[h].next
                IN  /\ n = End(block, h)
                    /\ ~block[h].used /\ ~block[n].used

\* The absorbed header stays in memory and is never read again: it is no
\* longer one of block's.
Merged(b, n) ==
    [b EXCEPT ![cur].size = @ + HDR + b[n].size, ![cur].next = b[n].next]

\* Mutant: the count is kept.
MergePairUncounted ==
    /\ pc = "merge" /\ ~AtLast /\ Mergeable(cur)
    /\ LET n == block[cur].next
           b == SetPrev(Merged(block, n), block[n].next, cur)
       IN  block' = [x \in DOMAIN block \ {n} |-> b[x]]
    /\ UNCHANGED <<heap_start, free_list, heap_total, heap_blocks,
                   frames, pc, want, req, pages, cur, prv, blk>>

MergePair ==
    /\ pc = "merge" /\ ~AtLast /\ Mergeable(cur)
    /\ LET n == block[cur].next
           b == SetPrev(Merged(block, n), block[n].next, cur)
       IN  block' = [x \in DOMAIN block \ {n} |-> b[x]]
    /\ heap_blocks' = heap_blocks - 1
    /\ UNCHANGED <<heap_start, free_list, heap_total,
                   frames, pc, want, req, pages, cur, prv, blk>>

MergeNext ==
    /\ pc = "merge" /\ ~AtLast /\ ~Mergeable(cur)
    /\ cur' = block[cur].next
    /\ UNCHANGED <<heap, frames, pc, want, req, pages, prv, blk>>

MergeDone ==
    /\ pc = "merge" /\ AtLast
    /\ pc' = "idle" /\ cur' = NULL
    /\ UNCHANGED <<heap, frames, want, req, pages, prv, blk>>

-----------------------------------------------------------------------------
\* A call in progress runs to its end; the caller is free not to call.
Running == \/ ScanSkip \/ TakeWhole \/ TakeSplit \/ ScanGrow
           \/ FirstPage \/ NextPage \/ AppendNext \/ AppendLink \/ GrowDone
           \/ InsertNext \/ InsertLink \/ MergePair \/ MergeNext \/ MergeDone

Next == \/ \E n \in Requests : Kmalloc(n)
        \/ \E h \in DOMAIN block : Kfree(h)
        \/ Running

Spec == Init /\ [][Next]_vars

\* The kernel runs on one processor that is never taken from it for good.
FairSpec == Spec /\ WF_vars(Running)

-----------------------------------------------------------------------------
Headers == DOMAIN block

(***************************************************************************)
(* Types; a pointer is NULL or the address of a header.                    *)
(***************************************************************************)
Pointer == {NULL} \cup Headers

TypeOK ==
    /\ Headers \subseteq Nat
    /\ block \in [Headers -> [size : Nat, used : BOOLEAN,
                              next : Pointer, prev : Pointer]]
    /\ heap_start \in Pointer /\ free_list \in Pointer
    /\ heap_total \in Nat /\ heap_blocks \in Nat
    /\ frames \in 0 .. FRAMES
    /\ pc \in {"idle", "scan", "grow", "append", "insert", "merge"}
    /\ want \in Nat /\ req \in Nat /\ pages \in Nat
    /\ cur \in Pointer /\ prv \in Pointer /\ blk \in Pointer

(***************************************************************************)
(* The blocks tile the heap: every block ends where another begins or at   *)
(* the end of the heap, and no header lies inside another block.  This is  *)
(* what heap_print_stats' dump and coalesce_blocks walk on, and what keeps *)
(* the blocks of two callers apart.                                        *)
(***************************************************************************)
Tiles(b, total) ==
    /\ total > 0 => 0 \in DOMAIN b
    /\ \A h \in DOMAIN b :
          /\ End(b, h) \in DOMAIN b \cup {total}
          /\ End(b, h) <= total
          /\ \A g \in DOMAIN b : g > h => g >= End(b, h)

Tiling == Tiles(block, heap_total)

(***************************************************************************)
(* Between the loops that edit it, the free list is exactly the unused     *)
(* blocks in address order, linked both ways; the block being appended or  *)
(* inserted is the only one off the list.                                  *)
(***************************************************************************)
LeastAbove(S, h, n) ==
    IF n = NULL THEN \A x \in S : x <= h
                ELSE n \in S /\ h < n /\ \A x \in S : x <= h \/ n <= x

GreatestBelow(S, h, p) ==
    IF p = NULL THEN \A x \in S : h <= x
                ELSE p \in S /\ p < h /\ \A x \in S : h <= x \/ x <= p

\* Every offset is above NULL.
Chain(b, S, first) ==
    /\ LeastAbove(S, NULL, first)
    /\ \A h \in S : /\ LeastAbove(S, h, b[h].next)
                    /\ GreatestBelow(S, h, b[h].prev)

Listed == {h \in Headers : ~block[h].used}
             \ (IF pc \in {"append", "insert"} THEN {blk} ELSE {})

FreeListExact == Chain(block, Listed, free_list)

\* heap_blocks counts the blocks; one being appended is counted when linked.
BlockCount ==
    heap_blocks = Cardinality(Headers) - (IF pc = "append" THEN 1 ELSE 0)

(***************************************************************************)
(* kmalloc is first fit: the block it takes is the lowest unused one that  *)
(* is large enough, and it extends the heap only if there is none.  The    *)
(* kernel's heap test counts on it when it expects the block it freed back *)
(* (kernel.c:98-101).                                                      *)
(***************************************************************************)
FirstFit ==
    [][/\ pc = "scan" /\ pc' = "idle" =>
             \A h \in Listed : block[h].size >= req => cur <= h
       /\ pc = "scan" /\ pc' = "grow" =>
             \A h \in Listed : block[h].size < req]_vars

(***************************************************************************)
(* When kfree returns, no two unused blocks touch: one pass over the list  *)
(* merges every run of free neighbours, those that heap_expand and         *)
(* earlier splits left side by side included.                              *)
(***************************************************************************)
Coalesced ==
    [][pc = "merge" /\ pc' = "idle" =>
          \A g, h \in Headers : ~block[g].used /\ ~block[h].used
                                   => End(block, g) # h]_vars

(***************************************************************************)
(* Seen from its callers the heap is the Allocator, where a region is a    *)
(* used block without its header.                                          *)
(***************************************************************************)
Granted == [p \in {h + HDR : h \in {g \in Headers : block[g].used}} |->
               block[p - HDR].size]

Regions == INSTANCE Allocator
              WITH Sizes <- Requests \ {0}, asked <- want,
                   granted <- Granted, brk <- heap_total

Allocation == Regions!Spec

-----------------------------------------------------------------------------
\* kfree returns, however the list looks.
KfreeReturns == pc \in {"insert", "merge"} ~> pc = "idle"

(***************************************************************************)
(* A request that fits a page is served while alloc_page has a frame: the  *)
(* page heap_expand adds is found by kmalloc's call of itself.             *)
(***************************************************************************)
SmallServed ==
    pc = "scan" /\ req <= PAGE_SIZE - HDR /\ frames > 0 ~> pc = "idle"

(***************************************************************************)
(* kmalloc returns, a block or 0: its callers test the pointer             *)
(* (kernel.c:70), and heap_expand reports and returns when it is out of    *)
(* memory (HEAP.c:11-15).                                                  *)
(***************************************************************************)
KmallocReturns == pc = "scan" ~> pc = "idle"
=============================================================================
