# core86 in TLA+

Specifications of the core86 kernel (CoreNT 0.0.1), the TLC runs that check
them, and TLAPS proofs. Paths are relative to the repository's root;
`Include/X.c` without a prefix is `Kernel/src/Include/X.c`.

## The system

core86 is a small 32-bit x86 kernel, one processor, no processes. There are
two of it: the current one under `Kernel/`, and an earlier one under `old/`
with its own memory managers, a keyboard driver and a menu of tests.

`Mandatory/boot.s` enters protected mode and calls `k_init` (`Kernel/src/kernel.c`),
which brings the parts up one after the other and ends in a `hlt` loop.

| Part | State | Operations | Whom it calls, who calls it |
|---|---|---|---|
| Physical memory (`PMM.c`) | a byte per frame, count of used frames, search hint | `pmm_init`, `alloc_page`, `pmm_free_page` | called by VMM, heap, page fault handler |
| Virtual memory (`VMM.c`) | page directory at a fixed address, page tables in frames, count of mappings | `vmm_init`, `vmm_map_page`, `vmm_unmap_page`, `vmm_v_to_p`, `vmm_enable` | calls `alloc_page`; called by heap, page fault handler |
| Heap (`HEAP.c`) | block headers in memory, free list, three counters | `heap_init`, `kmalloc`, `kfree` (`heap_expand`, `split_block`, `coalesce_blocks` inside) | calls `alloc_page`, `vmm_map_page` |
| Interrupts (`idt.c`, `pic.c`) | IDT, the two 8259A controllers, the interrupt flag | `idt_init`, `remap_pic`, `enable_sti`, `dummy_isr`, `page_fault_handler` | entered by the hardware at any instruction |
| Timer (`pit.c`) | `system_ticks` | `init_pit`, `pit_handler`, `ksleep` | the interrupt writes what `ksleep` polls |
| Console (`VGA.c`) | screen, cursor, ring of scrolled-off lines, scroll offset | `vga_char`, `vga_scroll_up/down`, `vga_set_scroll_offset`, `vga_clear` | called by `print.c`; in `old/` also by the keyboard's interrupt handler |
| Output (`print.c`, `utils.c`, `serial.c`) | none to speak of | `kprintf`, `print`, `itoa`, `hex_to_str` | called by everything |
| Legacy kernel (`old/`) | bitmap allocator, list heap, keyboard ring buffer, 8042 and PIC setup, its own console | `kernel_main`, `PMM_*`, `KMALLOC`/`KFREE`, `PS2_KB_*`, `IDT_INIT`, `pic_*`, `vga_*` | the keyboard's interrupt writes what the kernel reads, and scrolls while it prints |

What is hard about it, and what makes each part correct:

* *Self-supporting memory.* The bitmap, the directory and the tables live in
  frames of the memory they manage. Correct: a frame has one use, and the
  bitmap, the tables and their holders agree on it.
* *Long sequences of calls.* Allocate, free, free again, split, merge, extend, in
  any order. Correct: blocks tile the heap, the free list is exact, callers'
  regions never overlap or move; the frame allocator stays lowest-first.
* *Limits.* The last frame, the full ring, the last cell of the screen, sums at
  2^32, no memory left.
* *Interrupts.* A tick between a test and a `hlt`; a device nobody expects; the
  order of IDT, controllers and `sti`; a page fault inside the fault handler; in
  the first kernel, a handler that scrolls between two accesses of `vga_char`.
* *A device that answers in its own time.* The 8042 is polled with a count that may
  run out; a code may come where a configuration byte is expected.
  Correct: the keyboard is the only interrupt, and no byte of it is left unread.

The hazards are listed one by one, with their lines, in `PROJECT.json`.

## Modules

| Module | Models | Promise it implements |
|---|---|---|
| `FrameAllocator` | - | abstract: hands out the lowest free frame |
| `PMM` | `Include/PMM.c` | `FrameAllocator` |
| `LegacyPMM` | `old/Include/PMM.c` | `FrameAllocator` |
| `PMMPair` | `PMM` and `LegacyPMM`, called alike | each other's answers |
| `Allocator` | - | abstract: disjoint regions that stay where they are |
| `Heap` | `Include/HEAP.c`, loop by loop | `Allocator` |
| `LegacyHeap` | `old/Include/HEAP.c`, loop by loop, over words of memory | `Allocator` |
| `AddressSpace` | - | abstract: the page asked for goes to the frame asked for, and no other changes |
| `KernelMemory` | `PMM.c` and `VMM.c` over one memory | `AddressSpace` |
| `PageFault` | `KernelMemory` after `vmm_enable`, with the fault handler | - |
| `PIC8259` | the interrupt controller (hardware) | - |
| `PS2Controller` | the 8042 and the keyboard behind it (hardware) | - |
| `Interrupts` | `k_init`, `idt.c`, `pic.c`, `pit.c`, on two `PIC8259` | - |
| `Terminal` | - | abstract: a screen, the lines above it, and a way to write these over it |
| `VGA` | `Include/VGA.c`, a call a step | `Terminal` |
| `LegacyConsole` | `old/Include/VGA.c`, an access a step, scrolled by a handler | - |
| `Keyboard` | `old/Include/PS2KB.c`: the ring, the modifiers, the line reader | - |
| `LegacyKernel` | `old/KERNEL.c`, `IDT.c`, `PIC.c`, the start of `PS2KB.c` and its handler, on `LegacyConsole`, `PIC8259`, `PS2Controller` | - |
| `*_proofs` | proofs about the module of that name | - |
| `MC*` | what TLC runs | - |

Operators carry the names of the C functions and variables.

**PMM.** One action per call; kernel code does not call the allocator from
interrupt handlers, except from the page fault handler, which `PageFault` has. The two search loops are the set
`Candidates`; `ret` is the last value returned. Frames below `FirstPage` are the
kernel's (4096 of them in the code). Callers pass any address of the memory,
so frames nobody holds are released too, and released again.

**LegacyPMM.** The same for a bit per frame in words of `BITS` bits, with its two
guards and the bits behind the last frame. Addresses past the end are passed too.

**PMMPair.** The two allocators given the same memory and the same calls (only the
older one is also called with addresses past its end, against which it guards).
Its run is `pmm`; the properties of both modules are checked there.

**Heap.** Headers are a function from offsets to records; a header that is merged
away leaves the function's domain. Each loop of the code is a control state:
`scan` (`kmalloc`), `grow` and `append` (`heap_expand`), `insert` (`kfree`), `merge`
(`coalesce_blocks`); a step is one iteration or the straight line between two
loops, so the states in the middle of a call are states of the model. The
recursion of `kmalloc` is the return to `scan`. Sizes are computed modulo `WORD`.
`alloc_page` is a count of frames; that `vmm_map_page` gives each heap page
a frame of its own and that the mapping never fails is assumed (`heap_expand` looks at neither, line 20), and
the frame `vmm_map_page` may take for a table is not counted; with the code's `TEST_HEAP_VIRT` (an alias of the kernel
image in the shared window) the first is not so: composing the two is in the plan.
`Kfree` gets the headers there are, in use or free; a pointer whose block has been merged away is not
passed (in `LegacyHeap`, whose memory is words, it is).
The counter `heap_used` is left out: line 145 adds the size before a split, line
194 subtracts the size after it, so it drifts upwards; only `heap_print_stats`
reads it.

**LegacyHeap.** Memory is a function from word addresses to numbers, headers are five
words in it, and callers (`Filled`) may write into their regions words that look like a
header; `next`, `prev` and the magic number are read from wherever the code
reads them. `find` is the search of `KMALLOC`, `insert` and what follows it
`insert_free_block` with the two merges of `KFREE`. Freed pointers are passed again (`past`), also
once their block is part of another, until the next `KMALLOC` reuses memory. `Careful`
is an assumption on callers: the first free block large enough for a request has
room for a second header, because line 55 is wrong where it has not (run
`legacy_heap_wrap`). It is a strong one: it excludes that a block between two that are in use is freed and asked
for again in the same size, which the code gets wrong unless a lower block serves the request. Requests near 2^32, whose rounding wraps, are not among the run's.

**KernelMemory.** One memory of frames of words. The bitmap is read and written at
`BitmapFrame`, four bytes to a word, the directory at `DirFrame`, tables wherever `alloc_page` put them,
and callers (`Use`) overwrite the frames they hold. Nothing keeps these apart but
the code. `k_init`'s calls come first, in its order: `pmm_test`, which leaves three frames
allocated (`kept`), then `vmm_init`. Callers give back frames they hold and have unmapped.

* *Paging.* It is off, as it is when `k_init` calls `vmm_init`; the write test
  of `vmm_map_page` then goes to the virtual address taken as a physical one. `k_init` turns paging on right after that
  (`kernel.c:35`), and calls `vmm_map_page` neither before nor after (its calls are in the heap and
  in the test, both commented out there): with paging on its `alloc_page` faults on the bitmap, which is `PageFault`.
* *Flags* are present and writable, which is what every call passes.
* *Where bitmap and directory are.* `pmm_init` reserves the frames below `KERNEL_END` only. With `config.h` the bitmap
  begins at `KERNEL_END`, so `alloc_page` hands out its frames at once: the first three, which hold the bytes of
  all frames up to the directory's (8192), to `pmm_test`, which writes nothing to them and never
  frees them. What callers get afterwards holds bytes of frames that are not
  searched before the directory's own comes up, 4096 frames after `KERNEL_END`. So the code is right until then:
  `BelowSpec` is the kernel as long as `last_alloc_index` has not come past the directory, and `Spec` the whole of it, which
  `kernel_memory_layout` refutes.

`Translation` is tied to the calls: `vmm_map_page(v, p)` must be `AddressSpace`'s `Map(v, p)`, and so on.

**PageFault.** After `vmm_enable` pointers are virtual. An access to an unmapped
page enters the handler; `alloc_page` inside it reads the bitmap's page, which is
a fault of its own. What the handler takes for an error code is whatever lies on
the stack, so both outcomes of its test are possible.

**Interrupts.** `k_init` as control states; the writes of `remap_pic` are the
sequence of numbers sent to each controller, run through `PIC8259`. Devices raise
lines at any time. An interrupt is taken before the next step of `k_init`;
the check and the `hlt` of `ksleep` are separate steps. Vectors other than the
timer's end in `dummy_isr`, which stops the kernel. `slept`, `started` and
`ran` exist for the properties and the timing assumption only.

**VGA.** One action per character, scroll or clear (no interrupt of this kernel
prints). A line is a function from columns to characters. Any scrolling writes lines of the history
over the screen, whose own lines were never saved, and offset 0 brings the newest lines of the history, not
those that were lost; what is shown again is a line of the screen like any other, and joins the history
a second time when it leaves the screen. `Terminal` states just that (`Overwrite`), so `ImplementsTerminal` says that the
ring keeps what it is given, in order, not that the user's text survives. The comment at
`old/Include/VGA.c:93` ("do aktualnych danych", to the current data) promises a way back
which neither kernel's code has.

**LegacyConsole.** The same code, where it is interrupted: without optimisation (see `Keyboard`) each
read and each write of a variable the handler also writes is a step, with what was read
kept in `r`. The handler's scrolling is one step (interrupt gate). The
cells are `VGA`'s subject; here it is the cursor, the index of each store and the
display's cursor registers, which are written a byte at a time through a
selected register.

**Keyboard.** `PS2_KB_HANDLER` runs behind an interrupt gate, so the arrival of a
byte and its handling are one action, which may come between any two steps of
the reader. The reader is `PS2_KB_READ_LN` with `PS2_KB_GETC` inside, called over and
over (the old `kernel_main` only idles; these are the driver's operations for
a kernel that reads). The test of `bufferCount`, the `hlt`, the taking of the character and the two
halves of `bufferCount--` are separate steps: without optimisation (the build's `-O0`)
the decrement is a load, a subtraction in a register and a store. A key handled
between load and store is in the ring but not in the count; `CountExact` says that
nothing else spoils the count, `InOrder` that the order of characters survives it (until
the ring, taken for less full than it is, is overrun: the run reaches that), and
`KeepsReading` that neither this nor a key between the test and the `hlt` holds the reader up
for longer than until the next key. One flag serves both shift keys, so releasing one
of two clears it: `ModifiersHeld` states the direction that holds. `shown` is the row of the screen, with
whatever stood in front of the line (`PROMPT`), which a backspace on an empty line would rub out. The `-O0` is
that of the new kernel's `build.sh`; for `old/` the repository has no build script, so there it is an assumption. The keypad's
minus and plus sit one place too far in both tables (0x4B, 0x4F instead of
0x4A, 0x4E); which code types which character is abstracted here.

**LegacyKernel.** `kernel_main` from `IDT_INIT` to its loop as control states; a step is one
exchange with a controller while interrupts are off, and one access of
`LegacyConsole` afterwards. The keyboard may send a code whenever its port is on
(`Code`; before `sti` at most `Early` of them) and answers 0xF4 when it likes, or after the count has
run out. What is assumed of the hardware: the 8042 answers the command 0x20 at once, or
as soon as its buffer is emptied; IRQ 1 is an edge, whose request may outlive its byte; a
read of an empty buffer gives any code; other devices ask
right after `pic_init` and stay masked; the translation bit of the configuration
is not looked at. `ScrollKey` is what the handler asks of the console;
what it puts into the ring is `Keyboard`'s.

## Runs

Every `pass` run explores its whole state space; deadlock is checked in all of
them. Mutants of the code, marked `Mutant` in the modules, show that each property
can fail; they are not used by any specification.

| Run | Question | Bounds |
|---|---|---|
| `pmm` | Do count, hint, lowest-first order and the reported number of free frames survive every sequence of calls, and do both kernels' allocators answer alike? | 8 frames, 2 of them the kernel's, 2 bytes each, words of 3 bits: addresses inside a frame and past the end, a full bitmap, the wrap of the hint, a last word that is only partly memory |
| `heap` | Tiling, exact list, count, first fit, coalescing, `Allocator`; does `kfree` return, is a small request served while a frame is left? | 3 pages of 20 bytes, headers of 4; sizes 3 (rounded, leaves a tail), 8 (leaves none), 32 (more than a page), 252 (wraps to 0 with its header): blocks split, merge in pairs and in chains of three and more, the memory runs out |
| `legacy_heap` | Tiling, both lists exact, coalescing, callers' words untouched, `Allocator`; does every call return? | 48 words with the code's own header (5), rounding (4) and threshold (8), requests of 1 and 8: up to four blocks, merges on either side and on both, repeated frees, data that look like a header |
| `kernel_memory` | Below the directory: one use per frame, count of mappings, each call's effect on `AddressSpace` | 21 frames, 5 windows of 5 pages, pages in the kernel's memory, in the shared window twice, and beyond memory; a bitmap of two frames, one of them `pmm_test`'s and one handed out, the directory above them, as in `config.h` |
| `interrupts` | Only the timer interrupts; the sleep's length; it ends | a counter of 3 bits, sleep of 2, five masks (with and without the bits that make a command), one foreign device on each controller |
| `console` | Cursor, view, `Terminal` | 2 x 2 cells, 4 lines of history, one visible character besides blank: the ring goes round, two scroll positions |
| `keyboard` | Order of characters, count, modifiers, echoed line, progress of the reader | 2 slots, a line of one character and its newline, one letter (plain and shifted), Enter, Backspace, a shift key, Ctrl, and extended keys with Ctrl's code and Home: the ring is full, gone round, miscounted and overrun |
| `legacy_kernel` | Does the cursor come back and do its registers follow while the handler scrolls, and do stores stay on the screen, or at most one row before its first cell once a backspace was printed; only the keyboard interrupts; every byte is read | 2 x 2 cells, 3 lines of history (one scroll position besides 0), registers of one bit (the position needs both), masks none and all, a timer that asks, a count of 2 for the answer to 0xF4, one code before `sti` |

Bounds are small because the code's cases are few: an index at either end or
inside, a block with or without a neighbour on each side, a ring not full, full,
and gone round. `Early` = 1 is enough to meet each place of
`PS2_KB_INIT` with a code in the buffer, because the buffer holds one; the bound is there because
an endless stream of codes keeps the flush loop of line 85 going.

Runs that find what the code does against what the repository says:

| Run | What TLC finds |
|---|---|
| `heap_stuck` | With no frame left, `kmalloc` scans, fails to expand and starts again for ever; its callers test for 0. |
| `legacy_heap_wrap` | A freed block taken again for the same size is split all the same (`block->size - size - BLOCK_SIZE` is unsigned): a header is written over the next block's and `KMALLOC` hands out memory in use. |
| `kernel_memory_layout` | With the bitmap at `KERNEL_END` and the directory above it, as in `config.h`, `alloc_page` hands out the directory's own frame when those below are in use, and what is written there changes what other pages are translated to. |
| `page_fault` | The fault handler's `alloc_page` faults on the unmapped bitmap: panic with frames to spare. |

`page_fault` turns deadlock checking off: a halted processor really stops.

### Fairness

* `Heap`: weak fairness of `Running`, the steps inside a call: the processor runs
  the kernel and nothing else. Callers need not call. `SmallServed` and
  `KfreeReturns` need no more. `KmallocReturns` fails under the same fairness.
* `Interrupts`: weak fairness of the program, of interrupt entry, of the
  handler and of the timer, which oscillates by itself. `Memory` and `Idle` steps
  are not forced, devices need never ask. The guard `ran` of `Timer` says
  that a tick (1 ms) is longer than a few instructions; it only limits how many
  ticks come between two steps of `k_init`, which may take any number of `Memory`
  steps.
* `Keyboard`: weak fairness of the reader. No key need ever come; `KeepsReading` speaks of
  the behaviours in which characters go on arriving.
* `LegacyHeap`: weak fairness of `Running`, as for `Heap`; `CallsReturn` needs no more.
* `LegacyKernel`: weak fairness of the start, of the interrupt and of the keyboard's
  answer to 0xF4. Prints and codes are not forced. That the interrupt is taken is the
  processor's part; that it comes at all, with the flag off and
  edges lost, is what `KeysHeard` is about.

## Proofs

TLAPS proves every safety property that a passing run checks, for every value of the constants
allowed by the named assumptions.

The proof modules follow the components; `PMMPair_proofs` holds the proofs about `PMM`, about
`LegacyPMM` (theorems `Old...`) and about the pair, `LegacyKernel_proofs` those about `LegacyConsole` and about the kernel on it.

* `PMMPair_proofs`: `TypeCorrect`, `CountCorrect`, `HintCorrect`, and `Refinement`, that
  `PMM` implements `FrameAllocator`. The invariant is `TypeOK`, `UsedCount`,
  `NoFreeBelowHint` and `KernelKept` together: `pmm_free_page` keeps the hint right
  only because the kernel's frames stay set; the refinement needs the hint, or
  the first loop would not find the *lowest* frame. `AnswersAgree` and `PairFreePages`: the
  invariants of both allocators and `SameAnswers` are inductive together, since with the
  hint right both search the same set of free frames (`SameFree`).
* `PMMPair_proofs`, the older of the two: `OldTypeCorrect`, `OldFreePagesCorrect`, `OldRefinement`. The invariant is `TypeOK`
  and `Counted` (the counter and the clear bits of real pages make up the memory): the guard on the
  decrement never swallows a release, because a set bit was counted.
  The rest is the arithmetic of word and bit (`PlaceOfFrame`).
* `Heap_proofs`: `TypeCorrect`, `TilingCorrect`, `FreeListCorrect`, `CountCorrect`,
  `FirstFitCorrect` and `CoalescedCorrect`, from `Invariant` (`Spec => []IInv`), and
  `AllocationCorrect`, that `Heap` implements `Allocator`.
  `HeapAssumption` asks only that a page holds a header. Sizes whose rounding or
  header wraps at 2^32 are included: the run has a header that wraps and no rounding that does, the proofs have both.
  Only `AllocationCorrect` needs `NoWrap`, that no size wraps when it is *rounded*: the caller of
  such a size gets a block that is too small. A header that wraps is harmless.
  `LoopsEnd`: with every iteration of any loop there are strictly fewer blocks ahead of
  the cursor. `SmallFoundCorrect`: when `kmalloc` calls itself for a request that fits a page, the heap holds a
  block for it, unless `alloc_page` had no frame; it needs `PageFits`, that a word
  counts to two pages, which 32 bits do. Both are what `KfreeReturns` and `SmallServed` rest on, fairness apart.

The heap's inductive invariant adds to tiling and exact list what each
loop knows of its cursors (`Cursors`): the scan has passed only blocks that are
too small (hence first fit, and that the heap is extended only if no block will do); the block `heap_expand` appends lies behind all
listed ones; `kfree`'s `prev` is next to `current` and below the block; the pass of
`coalesce_blocks` leaves no touching pair behind it (hence `Coalesced` at its end).
`DeadLinks`, that blocks off the list have no links, is needed because
`split_block` and the unlinking of `kmalloc` write through the neighbours.
The proof goes through lemmas about a doubly linked list in
address order (`ChainInsert`, `ChainRemove`) and about tilings (`TilesExtend`,
`TilesSplit`, `TilesMerge`), then one lemma per action. The refinement adds
`Asked` (the block looked for is never smaller than what was asked) and the mapping of each
action to a step of `Allocator`.

* `LegacyHeap_proofs`: `TilingCorrect`, `ListsExactCorrect`, `CoalescedCorrect`, `ContentCorrect`,
  and `AllocationCorrect`, that the first kernel's heap implements `Allocator` as the second's does;
  for every size of the heap, rounding, split threshold and set of requests. All assume
  `Careful`: the block `find_free_block` meets has room for a second header, the case line 57
  gets wrong where it has not. The search knows it by the blocks it has passed, all too small (`RoomAtFirst`). `SpacingCorrect` is what the run `legacy_heap_wrap` finds violated without it:
  there is no other way to it. `AllocationCorrect` also needs `NoWrap`. `LoopsEnd`: both loops only ever go
  to a higher header or to the end of the list, so `CallsReturn` needs nothing but fairness.

Here headers, links and the callers' data are words of one memory, and the callers write words
that look like headers. So the invariant (`Inv`) is about a set of blocks that is not in the state: they tile
the memory (`Tiled`); those unused form one list in address order, those in use
another, in *some* order (`Chain`, over a ranking of the blocks: the used list grows at the front, so no order
of addresses describes it); no two unused ones touch; each region a caller holds is the data of one block in
use, with what the caller wrote still there (`Contents`); and a pointer freed already points at a header
that says unused, or into an unused block where the word `KFREE` tests is 0 (`Stale`): that is why freeing
twice is refused even after the block was merged into its neighbour. `Cursors` says where a call in
progress is. Each piece of the code is a change of memory: one lemma says which words it changes,
others that links, tiling and data elsewhere do not depend on these (`Data`, `ChainFrame`,
`TiledFrame`); `ChainRemove`, `ChainInsertion`, `TiledSplit`, `TiledMerge` do the rest. The checked properties
walk the heap and follow the lists step by step (`Walk`, `Linked`), so it is proved last that those walks
meet the blocks of the invariant and no others: `Walking`, and `ListIs` by the pigeonhole
principle, since no more headers fit than the walk has steps.

* `KernelMemory_proofs`: `OneUseCorrect`, `MappedCountCorrect`, `TranslationCorrect`, `AddressSpaceImplemented`,
  for every number of frames and entries. All are about `BelowSpec` and assume `Layout`: the bytes of the frames up to the
  directory's lie among the kernel's frames and `pmm_test`'s three, the directory lies above these, and
  the write test of `vmm_map_page` hits frames of the kernel only, none of the bitmap. The numbers of `config.h` and the
  pages the kernel maps satisfy it: that is the theorem `ConfigLayout`. Past the directory
  nothing of this holds, as `kernel_memory_layout` shows.

Frames, tables and bitmap are words of one memory, so the invariant says what may lie where.
After `vmm_init`: the directory's two names of the shared window agree, open windows have distinct tables
in frames that are neither the kernel's nor `pmm_test`'s nor held by a caller (`Directory`), the bitmap's bytes up to the
directory's frame say exactly that the kernel's, `pmm_test`'s, the tables' and the held frames are taken (`Taken`), and
`total_mapped` is the number of `Filled` entries. Before it, the bitmap says that `pmm_test` has taken its three
frames, or none. A store into a frame is then harmless because of whose frame it is: the bytes that count are in
frames nobody writes to, and a byte changes without the three others of its word
(`Digits`: the arithmetic of word and weight). That
`alloc_page` finds a frame if there is one needs the least element of a set of numbers
(`Least`), from the well-foundedness of the naturals.

`FrameByFrameCorrect` and `TablesStayCorrect` say what a step does. Up to the directory the bitmap in memory changes by one
frame at a time (but for `pmm_test`, which takes its three in one step): the lowest free one is taken, by whoever asks (a caller, `vmm_init`, `vmm_map_page`), and only one
that a caller holds comes back; none of the stores into tables and pages changes a byte of it. That it is the
lowest needs `HintOK`, that no free frame is below `last_alloc_index`, which holds through `vmm_init`'s and
`vmm_map_page`'s calls too. And a window keeps its table and the table its frame: nothing closes a window, not
even when its last page is unmapped.

* `Interrupts_proofs`: `OnlyTimerCorrect`, `SleepLengthCorrect`, for every width of the counter, every
  length of the sleep, all masks of the firmware and all devices. The invariant: once
  programmed, PIC1 passes the timer's line alone (`Prepared`); interrupts are off exactly while
  the start or the timer's handler runs, and its line is in service
  exactly then (`Serving`); while `k_init` sleeps, at most one tick comes between two of its
  steps (`OneTick`), so the counted ticks plus the one that may still come are bounded at each place of
  the loop (`Counting`), more tightly at `hlt`, behind the test.
* `Keyboard_proofs`: `ModifiersCorrect`, `TypeCorrect`, `CountCorrect`, `OrderCorrect` and `LineCorrect`,
  for every size of the ring and of the line and every set of keys.

`ModifiersHeld` is inductive as it stands. The count needs what the reader knows behind
its test (`Knows`: the count is at least 1 up to the store, and what was loaded is the
count unless it was split, and never more than the ring holds), because the
second half of the decrement writes a value that may be out of date. The order needs that the unread
characters lie in the ring from `bufferStart` to `bufferEnd` (`InRing`), and four lemmas about
indices that go round at most once (`Round`, `NextSlot`, `SlotsDiffer`, `RingFacts`).
For the echo, `Types` says that a line holds printable characters only, so that each takes one column and
`'\b'` rubs out exactly one, and never what stands in front of the line (`Behind`).

* `VGA_proofs`: `TypeCorrect`, `ViewsInHistory`, `Refinement` (that `VGA` implements `Terminal`), for
  every size of screen and history. The invariant is `TypeOK /\ InHistory`; the
  refinement (what `Terminal` does and does not promise is said above) maps the ring to the sequence of its lines, so the lemmas are about what a new
  line does to that sequence before and after the ring is full.
* `LegacyKernel_proofs`, the console: `ConsoleCorrect`, from an invariant in three parts. `CursorInv`: at each
  place of `vga_char`, how far the cursor may be outside the screen (`Bounds`, `Corner`), what the
  value read is still good for when a scroll came in between (`Carried`), and which
  character got there (`Route`). `StoreInv`: line and column of a store
  are read at different times, and their sum is bounded all the same. `ShownInv`: undisturbed, the registers get
  the position byte by byte. `KernelUsesConsole`: the whole first kernel is, seen
  from the console, its specification `ConsoleSpec`; hence `StoresBounded`, `CursorComesBack` and
  `CursorIsShown` for the kernel.
* `LegacyKernel_proofs`, the machine: `OnlyKeyboardCorrect`, for all masks and devices. The invariant `MachineInv`: once
  programmed, PIC1 passes IRQ 1 alone, and interrupts are on exactly in the loop of prints
  (`Programmed`); whatever byte was taken for the configuration, from line 106 on the one written
  has the interrupt on, and from 0xAE on the port (`Configured`); and a byte in the buffer has its
  request with the controller once the first flush is over (`Requested`). This last is what keeps the keyboard
  from falling silent: an edge is lost only where no byte is kept.

The assumptions are those the modules name: sizes are positive, a register
holds at least two values, a word of the bitmap at least one bit; and those named
above, `NoWrap`, `PageFits`, `Layout` and `Careful`, which are hypotheses of the theorems that need them.

Only model-checked: all liveness
(`KfreeReturns`, `SmallServed`, `CallsReturn`, `Wakes`, `KeepsReading`, `KeysHeard`): the
prover handles neither fairness nor ENABLED. Of the heaps' three, the safety half is proved (`LoopsEnd`,
`SmallFoundCorrect`). `LoopsAdvance`, `SmallFound`, `FrameByFrame` and `TablesStay` are stated in the proof
modules, next to the invariants that give them, and no run lists them.

## Not modelled

* Serial port, GDT, boot code and build: straight lines or busy waits with no state
  of their own.
* Formatted output: no control depends on what is printed. Two things seen while
  reading: `kprintf` prints `%u` with the signed `itoa`, and `%c` on the
  screen from a stale buffer (`print.c:38`).
* The first kernel's timer: `kernel_main` neither starts nor installs it and `sleep_ms` has no
  caller. Its virtual memory manager: an identity mapping written once.
* `DEBUG.c`: tests that nothing calls; `LegacyHeap` has clients that write and free as they do.
* The TLB (`vmm_unmap_page` invalidates one of a page's two names only, `VMM.c:109`);
  page flags beyond present and writable; colours; the PIT's divisor; a spurious interrupt of
  the 8259A (it arrives at vector 39 although the line is masked, and ends in `dummy_isr`); the
  way back from `page_fault_handler`, which no fault reaches.
* A run with sizes whose rounding wraps at 2^32: `Rounded` has the width, and the proofs about both
  heaps include such sizes.

## Plan

Done: every module above. Left, in this order:

1. `HeapOnPages`: `Heap` over `KernelMemory` instead of a count of frames, with
   failing and aliased mappings (`heap_expand` ignores the outcome of `vmm_map_page`, `HEAP.c:20`).
2. `Format`: `itoa`, `hex_to_str` and `kprintf`'s conversions as functions.
3. A spurious interrupt in `PIC8259`, and what `dummy_isr` makes of it.
