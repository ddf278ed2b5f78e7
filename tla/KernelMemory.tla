---------------------------- MODULE KernelMemory ----------------------------
(***************************************************************************)
(* The physical and the virtual memory manager over one physical memory:   *)
(* Kernel/src/Include/PMM.c keeps its bitmap, and VMM.c the page directory *)
(* and the page tables, in frames like any other, at fixed addresses or in *)
(* frames of alloc_page.  What one writes the other reads, if they are the *)
(* same cells.                                                             *)
(*                                                                         *)
(* A frame is Entries words.  A word is an entry of a directory or table,  *)
(* (frame * PAGE_SIZE) | flags, with the flags all callers pass (HEAP.c:20,*)
(* idt.c:77, kernel.c:112), or four bytes of the bitmap, 0 for free.       *)
(* Paging is off, as it is when k_init calls vmm_init: pointers are        *)
(* physical.  k_init turns it on right after that (kernel.c:35); what      *)
(* vmm_map_page comes to then is in PageFault.  Calls do not overlap (see  *)
(* PMM).                                                                   *)
(***************************************************************************)
EXTENDS Integers, FiniteSets, FiniteSetsExt

CONSTANTS FirstPage,   \* KERNEL_END / PAGE_SIZE: the first frame of alloc_page
          TotalPages,  \* total_pages
          Entries,     \* 1024 entries in a table, tables in a directory
          AliasEntry,  \* 768, where the first table appears again
          BitmapFrame, \* BITMAP_START / PAGE_SIZE
          DirFrame,    \* VMM_PD_ADDR / PAGE_SIZE
          UserPages    \* virtual pages the callers of vmm_map_page name

WORD_SIZE == 4
PAGE_SIZE == WORD_SIZE * Entries
PG_PRESENT == 1
PG_WRITABLE == 2

Frames == 0 .. (TotalPages - 1)
Slots == 0 .. (Entries - 1)

\* Where byte i of the bitmap lies.
ByteFrame(i) == BitmapFrame + (i \div WORD_SIZE) \div Entries
ByteSlot(i) == (i \div WORD_SIZE) % Entries

BitmapFrames == BitmapFrame .. ByteFrame(TotalPages - 1)

ASSUME MemoryAssumption ==
    /\ FirstPage \in Frames \ {0} /\ TotalPages \in Nat
    /\ Entries \in Nat \ {0} /\ AliasEntry \in Slots \ {0}
    /\ BitmapFrame \in Nat /\ BitmapFrames \subseteq Frames
    /\ DirFrame \in Frames \ BitmapFrames
    /\ UserPages \subseteq 0 .. (Entries * Entries - 1)

VARIABLES mem,              \* the memory: frame -> slot -> word
          last_alloc_index, \* PMM.c: where alloc_page starts to search
          total_mapped,     \* VMM.c: pages it has mapped
          stage,            \* the call k_init makes next, then "ready"
          kept,             \* frames pmm_test leaves allocated
          owned             \* frames callers of alloc_page hold

vars == <<mem, last_alloc_index, total_mapped, stage, kept, owned>>

ready == stage = "ready"

-----------------------------------------------------------------------------
\* Memory that is not there reads as ones and ignores writes.  (The top bit
\* of a word of ones, and of 0xDEADBEEF, is left out: TLC's integers are of
\* 32 bits with sign.)
Ones == 2147483647

Read(m, f, s) == IF f \in Frames THEN m[f][s] ELSE Ones

Write(m, f, s, x) == IF f \in Frames THEN [m EXCEPT ![f][s] = x] ELSE m

Entry(f) == f * PAGE_SIZE + PG_WRITABLE + PG_PRESENT

Present(e) == e % 2 = PG_PRESENT

FrameOf(e) == e \div PAGE_SIZE

\* What users, and the write test of vmm_map_page, leave in memory.
DEADBEEF == 2125315823

-----------------------------------------------------------------------------
(***************************************************************************)
(* alloc_page and pmm_free_page on the bitmap in memory.  A frame of the   *)
(* bitmap may be handed out like any other: its bytes change with what is  *)
(* written there.                                                          *)
(***************************************************************************)
Weight(i) == <<1, 256, 65536, 16777216>>[(i % WORD_SIZE) + 1]

Digit(w, i) == (w \div Weight(i)) % 256

WithDigit(w, i, x) == w + (x - Digit(w, i)) * Weight(i)

Byte(m, i) == Digit(m[ByteFrame(i)][ByteSlot(i)], i)

SetByte(m, i, x) ==
    [m EXCEPT ![ByteFrame(i)][ByteSlot(i)] = WithDigit(@, i, x)]

FreeIn(m, lo, hi) == {i \in lo .. (hi - 1) : Byte(m, i) = 0}

\* The frame alloc_page finds from the hint on, 0 for none.
Found(m, hint) ==
    LET ahead == FreeIn(m, hint, TotalPages)
        below == FreeIn(m, FirstPage, hint)
    IN  IF ahead # {} THEN Min(ahead) ELSE IF below # {} THEN Min(below) ELSE 0

NextIndex(i) == IF i + 1 >= TotalPages THEN FirstPage ELSE i + 1

\* A call's effect on the two, s, that PMM.c works on.
Alloc(s) ==
    LET i == Found(s.mem, s.hint)
    IN  IF i = 0 THEN s
        ELSE [mem |-> SetByte(s.mem, i, 1), hint |-> NextIndex(i)]

Release(s, i) ==
    IF i < FirstPage THEN s
    ELSE [mem  |-> IF Byte(s.mem, i) = 1 THEN SetByte(s.mem, i, 0) ELSE s.mem,
          hint |-> IF i < s.hint THEN i ELSE s.hint]

Now == [mem |-> mem, hint |-> last_alloc_index]

Becomes(s) == mem' = s.mem /\ last_alloc_index' = s.hint

\* A caller gets a frame.
alloc_page ==
    /\ Found(mem, last_alloc_index) # 0
    /\ Becomes(Alloc(Now))
    /\ owned' = owned \cup {Found(mem, last_alloc_index)}
    /\ UNCHANGED <<total_mapped, stage, kept>>

\* Callers give back frames they hold and have unmapped.
pmm_free_page(i) ==
    /\ Becomes(Release(Now, i))
    /\ owned' = owned \ {i}
    /\ UNCHANGED <<total_mapped, stage, kept>>

\* The holder of a frame writes to it.
Use(i) == /\ mem' = [mem EXCEPT ![i] = [s \in Slots |-> DEADBEEF]]
          /\ UNCHANGED <<last_alloc_index, total_mapped, stage, kept, owned>>

\* Three frames, the second given back and taken once more; nothing is
\* written to any of them, and none comes back.
pmm_test ==
    LET one   == Alloc(Now)
        two   == Alloc(one)
        three == Alloc(two)
        freed == Release(three, Found(one.mem, one.hint))
    IN  /\ stage = "pmm_test" /\ stage' = "vmm_init"
        /\ Becomes(Alloc(freed))
        /\ kept' = {Found(s.mem, s.hint) : s \in {Now, two, freed}} \ {0}
        /\ UNCHANGED <<total_mapped, owned>>

-----------------------------------------------------------------------------
(***************************************************************************)
(* vmm_init: an empty directory, then a first table for the first frames,  *)
(* entered twice.                                                          *)
(***************************************************************************)
Cleared(m) == [m EXCEPT ![DirFrame] = [s \in Slots |-> PG_WRITABLE]]

FirstTable(m, t) == [m EXCEPT ![t] = [s \in Slots |-> Entry(s)]]

vmm_init ==
    LET m == Cleared(mem)
        t == Found(m, last_alloc_index)
    IN  /\ stage = "vmm_init" /\ stage' = "ready"
        /\ IF t = 0
           THEN mem' = m /\ UNCHANGED <<last_alloc_index, total_mapped>>
           ELSE /\ mem' = [FirstTable(SetByte(m, t, 1), t)
                              EXCEPT ![DirFrame][0] = Entry(t),
                                     ![DirFrame][AliasEntry] = Entry(t)]
                /\ last_alloc_index' = NextIndex(t)
                /\ total_mapped' = Entries
        /\ UNCHANGED <<kept, owned>>

-----------------------------------------------------------------------------
(***************************************************************************)
(* vmm_map_page(virt, phys, flags): a table is made for virt's entry of    *)
(* the directory when it has none; a page that is mapped stays as it is.   *)
(***************************************************************************)
DirEntry(m, v) == m[DirFrame][v \div Entries]

Table(m, v) == FrameOf(DirEntry(m, v))

PageEntry(m, v) == Read(m, Table(m, v), v % Entries)

EmptyTable(m, t) == [m EXCEPT ![t] = [s \in Slots |-> 0]]

\* Mutant: the directory's entry is not looked at.
WithTableAlways(v) ==
    LET t == Found(mem, last_alloc_index)
    IN  [EmptyTable(SetByte(mem, t, 1), t)
            EXCEPT ![DirFrame][v \div Entries] = Entry(t)]

WithTable(v) ==
    IF Present(DirEntry(mem, v)) THEN mem
    ELSE LET t == Found(mem, last_alloc_index)
         IN  [EmptyTable(SetByte(mem, t, 1), t)
                 EXCEPT ![DirFrame][v \div Entries] = Entry(t)]

NoTable(v) == ~Present(DirEntry(mem, v)) /\ Found(mem, last_alloc_index) = 0

\* Mutant: the directory's index picks the entry of the table as well.
PutPageByWindow(m, v, p) ==
    IF Present(PageEntry(m, v))
    THEN mem' = m /\ UNCHANGED total_mapped
    ELSE /\ mem' = Write(Write(m, Table(m, v), v \div Entries, Entry(p)),
                         v, 0, DEADBEEF)
         /\ total_mapped' = total_mapped + 1

\* The write test goes to virt, which is a physical address.
PutPage(m, v, p) ==
    IF Present(PageEntry(m, v))
    THEN mem' = m /\ UNCHANGED total_mapped
    ELSE /\ mem' = Write(Write(m, Table(m, v), v % Entries, Entry(p)),
                         v, 0, DEADBEEF)
         /\ total_mapped' = total_mapped + 1

vmm_map_page(v, p) ==
    /\ ready
    /\ IF NoTable(v)
       THEN UNCHANGED <<mem, last_alloc_index, total_mapped>>
       ELSE /\ PutPage(WithTable(v), v, p)
            /\ last_alloc_index' = IF Present(DirEntry(mem, v))
                                   THEN last_alloc_index
                                   ELSE NextIndex(Found(mem, last_alloc_index))
    /\ UNCHANGED <<stage, kept, owned>>

\* Mutant: a page that is not mapped is counted off all the same.
UnmapUnchecked(v) ==
    /\ ready /\ Present(DirEntry(mem, v))
    /\ mem' = Write(mem, Table(mem, v), v % Entries, 0)
    /\ total_mapped' = total_mapped - 1
    /\ UNCHANGED <<last_alloc_index, stage, kept, owned>>

vmm_unmap_page(v) ==
    /\ ready /\ Present(DirEntry(mem, v)) /\ Present(PageEntry(mem, v))
    /\ mem' = Write(mem, Table(mem, v), v % Entries, 0)
    /\ total_mapped' = total_mapped - 1
    /\ UNCHANGED <<last_alloc_index, stage, kept, owned>>

NONE == -1

\* vmm_v_to_p, by frame; the code's answer for NONE is address 0.
vmm_v_to_p(m, v) == IF Present(DirEntry(m, v)) /\ Present(PageEntry(m, v))
                    THEN FrameOf(PageEntry(m, v)) ELSE NONE

-----------------------------------------------------------------------------
VPages == 0 .. (Entries * Entries - 1)

\* The space as its users see it: nothing is translated before vmm_init.
Pages == [v \in VPages |-> IF ready THEN vmm_v_to_p(mem, v) ELSE NONE]

Mapped(i) == \E v \in VPages : Pages[v] = i

\* A word of the bitmap with the kernel's frames reserved.
Reserved(f, s) ==
    LET first == ((f - BitmapFrame) * Entries + s) * WORD_SIZE
        digit(k) == IF first + k < FirstPage THEN Weight(k) ELSE 0
    IN  digit(0) + digit(1) + digit(2) + digit(3)

\* pmm_init has run.
Init == /\ mem = [f \in Frames |-> [s \in Slots |->
                     IF f \in BitmapFrames THEN Reserved(f, s) ELSE 0]]
        /\ last_alloc_index = FirstPage
        /\ total_mapped = 0 /\ stage = "pmm_test"
        /\ kept = {} /\ owned = {}

Next == \/ pmm_test
        \/ vmm_init
        \/ ready /\ alloc_page
        \/ \E i \in owned : ~Mapped(i) /\ pmm_free_page(i)
        \/ \E i \in owned : Use(i)
        \/ \E v \in UserPages, p \in owned : vmm_map_page(v, p)
        \/ \E v \in UserPages : vmm_unmap_page(v)

Spec == Init /\ [][Next]_vars

(***************************************************************************)
(* The kernel until its search for frames has come past the directory,     *)
(* which nothing reserves: with the addresses of config.h, as long as one  *)
(* of the 4096 frames from KERNEL_END up to the directory is free.         *)
(***************************************************************************)
Below == last_alloc_index <= DirFrame

BelowSpec == Init /\ [][Next /\ Below']_vars

-----------------------------------------------------------------------------
(***************************************************************************)
(* A frame has one use: it is the kernel's, or one of those pmm_test       *)
(* leaves, or a page table of one entry of the directory (the first        *)
(* window's two count as one), or a caller's, or free, and the bitmap says *)
(* which.  alloc_page never hands out a frame that something else is kept  *)
(* in, no frame is lost, and the directory's stays free.                   *)
(***************************************************************************)
Windows == IF ready THEN {d \in Slots \ {AliasEntry} : Present(mem[DirFrame][d])}
                    ELSE {}

TableOf(d) == FrameOf(mem[DirFrame][d])

OneUse ==
    /\ \A d, e \in Windows : TableOf(d) = TableOf(e) => d = e
    /\ LET tables == {TableOf(d) : d \in Windows}
           fixed  == 0 .. (FirstPage - 1) \cup kept
       IN  /\ tables \cap (owned \cup fixed) = {}
           /\ fixed \cap owned = {}
           /\ {i \in 0 .. DirFrame : Byte(mem, i) # 0}
                 = fixed \cup tables \cup owned
           /\ DirFrame \notin fixed \cup tables \cup owned

(***************************************************************************)
(* total_mapped is the number of pages the tables map, each window's table *)
(* counted once, however map and unmap go through the shared window.       *)
(***************************************************************************)
MappedCount ==
    total_mapped = Cardinality({p \in Windows \X Slots :
                                   Present(Read(mem, TableOf(p[1]), p[2]))})

(***************************************************************************)
(* The tables implement the address space, call by call: vmm_init hands    *)
(* over the first frames; after vmm_map_page(v, p) page v is translated to *)
(* frame p if it was not mapped, and to what it was if it was;             *)
(* vmm_unmap_page(v) leaves it unmapped; no page but v and its other name  *)
(* changes in these calls, and none in any other.  The kernel's test       *)
(* counts on it when it maps a page and expects vmm_v_to_p to give back    *)
(* the frame (kernel.c:111-121).                                           *)
(***************************************************************************)
Space == INSTANCE AddressSpace WITH map <- Pages

Elsewhere == \/ pmm_test \/ alloc_page
             \/ \E i \in owned : pmm_free_page(i) \/ Use(i)

Translation ==
    /\ Space!Init
    /\ [][/\ vmm_init => Space!Start
          /\ \A v \in UserPages, p \in owned :
                vmm_map_page(v, p) => Space!Map(v, p)
          /\ \A v \in UserPages : vmm_unmap_page(v) => Space!Unmap(v)
          /\ Elsewhere => UNCHANGED Pages]_vars
=============================================================================
