# TLA+ models of the minikernel page allocator and its neighbours

This directory holds TLA+ specifications of the C sources under `src/`. It also
holds the TLC configurations that check them. `PROJECT.json` lists the
components, the runs, the mutants that show each property can fail, the map
from every definition to the source lines it models, the findings, and the
hazards.

## 1. The system and its parts

| Part | Source | State | Operations |
|---|---|---|---|
| Buddy engine | `src/kernel/mm/buddy.c` | `mem_map` descriptors; per zone, `free_area[o].free_list` and `nr_free_pages`; the globals `free_page_count` and `total_pages`; `buddy_lock` | `buddy_init`, `free_area_init`, `alloc_pages` (with `__rmqueue_smallest`, `expand`, `prep_new_page`), `free_pages` (with `__free_one_page`) |
| Page descriptors, free areas, zones, node | `src/kernel/include/mm.h` | `struct page` (flags, `_refcount`, order), `struct free_area`, `struct zone`, `struct pglist_data` | flag macros, refcount helpers |
| Address translator | `mm.h` 237-255 | none (fixed offsets) | `page_to_pfn`, `pfn_to_page`, `page_to_virt`, `virt_to_page` |
| Intrusive lists | `src/kernel/include/list.h` | `list_head` links (`next`, `prev`) | `list_add[_tail]`, `list_del[_init]`, `list_replace[_init]`, `list_swap`, `list_move[_tail]`, the rotations, the four splices, the two cuts, and the read-only helpers and walks; the `hlist` functions |
| Byte-copy helpers | `mm.h` 322-366 | none (they act on caller memory) | `memset`, `memcpy`, `memmove`, `memcmp` |
| Byte allocator | `buddy.c` 535-607 | none of its own | `kmalloc`, `kfree`, `kzalloc`, `kcalloc`, `krealloc` over `alloc_pages`/`free_pages` |
| Statistics | `buddy.c` 445-533 | the counters above | `nr_free_pages`, `si_meminfo`, `show_mem` |
| Locks | `src/kernel/include/spinlock.h`, IRQ primitives in `src/src/kernel/main.c` | `lock->lock`, `lock->readers`, the CPU interrupt flag | `spin_lock[_irqsave]`, `spin_unlock[_irqrestore]`, `spin_trylock`, `read_lock`, `write_lock` and their trylock and unlock forms |
| Debug shell | `src/src/kernel/shell.c` | line buffer and position, escape state, a 10-entry history ring with count and index | `shell_handle_char`, `shell_history_add`, `shell_history_get`, `shell_parse_args`, `shell_execute`; the text helpers `shell_atoi`, `parse_hex`, `shell_print_int`, `shell_print_hex` |
| Boot, syscalls, interrupts, printk | `src/src/kernel/main.c` | `jiffies_counter`, `current_task`, `init_task`, `kernel_initialized`, one-shot static storage for the init task and its mm, the interrupt flag | `kernel_main`, `kernel_init`, `create_init_process`, `panic`, `handle_interrupt`, `handle_exception`, `do_syscall`, `printk`/`vsnprintf` |
| Scheduler | `src/kernel/include/sched.h` | `struct task_struct`, `current_task` | weak no-op stubs in `main.c` |

How the parts interact:
- The buddy engine is the centre. Every entry point takes `buddy_lock` with
  `spin_lock_irqsave`, so each locked body is atomic with respect to other CPUs
  and to interrupt handlers on the same CPU.
- `alloc_pages` releases the lock before calling `prep_new_page`. An allocation
  is therefore two steps, and other contexts can interleave between them.
- The byte allocator and the shell's `mem`/`free` commands call the buddy
  engine.
- Nothing in this repository calls `free_area_init`, and `mem_map` stays NULL.
  At run time the allocator is therefore empty and every allocation fails. The
  models take the boot contract of spec section 5 as given: `mem_map` exists,
  then `buddy_init` runs, then one or more `free_area_init` calls.

What is hard, and what the models look at:
- the free-list invariants through splits and merges, and across interleavings
  of contexts;
- stale `_refcount` values left in tail pages;
- the coalescing loop's reads outside `mem_map`;
- the bookkeeping of two counters that must agree;
- fallback across zones;
- the order kfree assumes;
- the spin discipline with interrupts, and the reader/writer hand-off;
- the pointer stores of the list functions when their arguments are
  neighbours, or a list has one entry;
- the shell's history index arithmetic and its in-place argument splitting;
- the formatter's output bound and its handling of the repository's formats;
- the copy direction of `memmove` over overlapping ranges, and the byte
  signedness of `memcmp`;
- boot interleaved with interrupts, exceptions and system calls, and what
  `panic` leaves running.

## 2. Modules

| Module | Models | Kind |
|---|---|---|
| `BuddyArith` | the constants and pure helpers of `buddy.c`/`mm.h`: orders, zones, GFP masks, `__find_buddy_pfn`, the seeding walk, `expand`'s split | operators |
| `PageAllocator` | what the page allocator promises: aligned blocks of free pages are handed out whole and returned whole | abstract specification |
| `BuddyAllocator` | `buddy.c` lines 16-408 with the list and flag primitives of `list.h`/`mm.h` | detailed specification; refines `PageAllocator` |
| `BuddyMath` | `BuddyArith` against reference definitions (bit XOR, maximal aligned blocks, tiling), on every block listed or held and every range seeded in a reachable state of `BuddyAllocator` | pure-algorithm check |
| `Kmalloc` | `buddy.c` 410-607: `kmalloc`, `kzalloc`, `kcalloc`, `krealloc`, `kfree`, `__get_free_pages`, `get_zeroed_page`, `free_pages_virt` | extends `BuddyAllocator` with byte-level callers |
| `Spinlock` | `spin_lock`, `spin_unlock`, `spin_lock_irqsave`, `spin_unlock_irqrestore` of `spinlock.h` with `local_irq_save`/`restore` of `main.c` | CPUs with a thread and an interrupt level each |
| `RWLock` | `read_lock`, `read_unlock`, `read_trylock`, `write_lock`, `write_unlock`, `write_trylock` | one step per atomic memory operation |
| `Shell` | `shell_handle_char`, `shell_history_add`, `shell_history_get`, the history part of `shell_execute`, `shell_init`'s reset | line editor state machine |
| `Printk` | `int_to_str`, `uint_to_str`, `vsnprintf`, `printk` | operators checked against positional notation and C `printf` |
| `ShellText` | `shell_print_int`, `shell_print_hex`, `shell_atoi`, `parse_hex`, `shell_isspace`, `shell_isdigit`, `shell_parse_args` of `shell.c` | operators checked against positional notation and a word splitter; extends `Printk` for its word width and input |
| `MemOps` | `memcpy`, `memmove` and `memcmp` of `mm.h` | recursive operators checked against a snapshot copy and the unsigned byte order; shares `Printk`'s input |
| `ListAbs` | what `list.h` promises: each head holds a sequence of entries, and every call rearranges those sequences | abstract specification |
| `ListHead` | every `struct list_head` function of `list.h` lines 44-304, and the walks `list_for_each`, `list_for_each_prev`, `list_count_nodes`, `list_contains`, `list_get_nth` | pointer-level specification; refines `ListAbs` |
| `Kernel` | `main.c`'s `kernel_main`, `kernel_init`, `create_init_process`, `panic`, `handle_interrupt` with the timer handler, `handle_exception`, `do_syscall` with the `sys_*` functions | one CPU's boot thread with interrupts, exceptions and system calls arriving from outside |
| `MCBuddyAllocator`, `MCKmalloc`, `MCLocks`, `MCShell`, `MCPrintk`, `MCListHead` | model values, ranges, sizes, inputs and symmetry for TLC; `MCLocks` runs `Spinlock` and `RWLock` side by side | MC modules |

### BuddyAllocator

State, and the code each variable models:
- `pageBuddy`, `pageCount`, `pageOrder`: the PG_buddy bit, `_refcount` and
  `order` of every descriptor of `mem_map`, indexed by PFN.
- `freeList[z][o]`: zone z's `free_area[o].free_list`, as the sequence of head
  PFNs from `head->next` onward. `list_add` prepends and `list_first_entry`
  takes the head.
- `nrFreePages[z]`, `freePageCount` and `totalPages`: the zone counter and the
  two globals.
- `seeded`: the ranges already given to `free_area_init`.
- Callers are a set `Contexts`: other CPUs, or interrupt handlers. For each one,
  `pc`, `req` and `held` record whether it is between the two halves of
  `alloc_pages`, and which blocks it owns.
- `badRead` records that the coalescing loop read a descriptor outside
  `mem_map`.

Actions:
- `free_area_init(r)` is the whole seeding walk, under the lock.
- `alloc_pages(c, o, g)` is the body under the lock:
  - the early return for `order >= MAX_ORDER`;
  - zone selection;
  - the zone loop with its `nr_free_pages` pre-check;
  - `__rmqueue_smallest` and `expand`;
  - the counter updates.
- `prep_new_page(c)` is the part after the unlock. It clears flags and sets
  `_refcount` to 1 on every page of the block.
- `alloc_pages_null(c)` returns NULL to the caller.
- `free_pages(c, b)` is the whole body under the lock (`FreePagesBody`): the
  `_refcount` reset, the coalescing loop, and the insertion.

Callers keep the contract of spec section 7: a block is freed once, by its
owner, with its own order. `Kmalloc` adds `kfree`, which does not keep it.

Helpers are pure operators:
- `FindBuddyPfn` is the XOR with one bit, computed with arithmetic.
- `PageIsBuddy` is `page_is_buddy`.
- `SeedOrder` and `SeedBlocks` are the walk of `free_area_init`. Both are
  recursive.
- `expand` and `FoundOrder` model `expand` and `__rmqueue_smallest`.
- `ServingZones` is the zone loop.
- `MergeChain` is the coalescing loop. It is recursive and returns the merged
  head and order, the buddies it unlinks, and whether it read past `mem_map`.

### Kmalloc

- It extends `BuddyAllocator` with `objs[c]`, the kmalloc objects a context
  holds (block and requested size), and `kreq[c]`, the byte-level call in
  progress.
- `size_t` is `SIZE_BITS` wide and a page holds `PAGE_SIZE` bytes. Both are
  small, so `ALIGN_UP` and `kcalloc`'s `n * size` wrap as they do at 2^64.
- `KmallocCall` is the common body. A zero size or an order past `MAX_ORDER`
  returns NULL at once; otherwise it runs the locked half of `alloc_pages`.
- `kprep_new_page` gives the caller its object after `prep_new_page`.
- `kfree` frees the head page at order 0, whatever the object's order.
- `krealloc` takes three steps: the new `kmalloc`, `prep_new_page`, then
  `krealloc_free_old` (the copy and the `kfree` of the old object). A failed
  `kmalloc` keeps the old object.

### Spinlock and RWLock

- `Spinlock`: each CPU has a thread level and an interrupt level, and runs
  the level that is active. An interrupt arrives only while the CPU's
  interrupt flag is set. A level runs a program of primitive steps:
  `local_irq_save`, `spin_lock`, the locked body, `spin_unlock`,
  `local_irq_restore`. `spin_lock` is enabled only when the lock is free,
  which is the compare-and-swap loop with its failed attempts left out.
- `RWLock`: `wbit` is `lock->lock` and `readers` is `lock->readers`. Each
  `__sync` operation and each load is one step. The `__sync` operations are
  locked instructions on x86 and full barriers, so sequential interleaving is
  the right memory model.

### Shell

- State: `shell_buffer` (the characters before `shell_buffer_pos`),
  `escape_state`, `escape_pos`, the ring `shell_history`, its count and
  index, and `added`, a history variable holding every line stored so far.
- One action per branch of `shell_handle_char`:
  - ESC, the `[` of a CSI sequence, an abandoned escape;
  - Up, Down, any other final byte;
  - Enter (with `shell_execute`'s leading-blank skip and
    `shell_history_add`);
  - Backspace, Ctrl+C, a printable byte.
- `shell_history_add` goes through `shell_strlen`, `shell_strcmp` (equal or
  not: characters carry no codes, and the result is only compared with 0)
  and `shell_strncpy`. `cmd_history` is the listing the `history` command
  prints, checked by `HistoryWindowLive`.
- Tab, Ctrl+D and Ctrl+L change no shell state and are left out. So are the
  commands, whose names no line of the model's alphabet spells.

### ListAbs and ListHead

- `ListHead`'s state is the `next` and `prev` field of every node (two heads
  and three entries in the run), and `call`, the last function called with
  its arguments.
- Each inline function is an operator from memory to memory. It performs
  the function's stores in code order, and each load reads the memory the
  earlier stores left. Aliased arguments therefore behave as in C: this is
  what `list_swap` of two neighbours and a cut at a one-entry list exercise.
- Each action is one call under the caller's side of the contract: it adds a
  detached entry, deletes a listed one, splices between two valid heads, and
  cuts into a head that is empty or was spliced away.
- The refinement mapping walks `next` from each head (`list_for_each`). A
  head spliced away without `INIT_LIST_HEAD` still points into another list;
  its walk does not close, and it maps to `UNDEF`, a head with no list.
- `call` appears in both modules. Each concrete call must then be the
  abstract operation of the same name, not just some abstract step.
- `list_del` stores `LIST_POISON1`/`LIST_POISON2`, modelled as two model
  values.

### ShellText

- The state is `Printk`'s: the value `val` of an 8-bit long. An int is half
  as wide, as in the build (32 of 64 bits).
- `shell_atoi`'s `result * 10 + digit` is signed overflow, which is
  undefined; the model takes the build's wrapping `imul`/`add`.
- `shell_parse_args` is modelled on the buffer: blanks the skip loop passes
  become NUL, a closing quote becomes NUL, and each argument is the text
  from its start to the next NUL. `ArgsAreTokens` reads `val` as the number
  of a line over `a`, a blank and both quotes: the 256 shortest lines.

### MemOps

- Memory is a sequence of byte values, and a pointer is an offset into it.
- `CopyForward` is the loop `*d++ = *s++`, each byte read after the stores
  before it; `CopyBackward` is `*--d = *--s` from the ends. `memcpy` is the
  forward loop, and `memmove` chooses by `d < s`.
- `memcmp` returns the difference of the first differing bytes taken as
  `unsigned char`.
- `MemmoveFaithful` reads `val` as a destination, a source and a length in
  0-3 over six distinct bytes (every overlap, both directions).
  `MemcmpOrders` reads it as two two-byte strings over 1, 0x80 and 0xFF and a
  length in 0-2.

### Printk

- Strings are sequences of one-letter strings, and a long is `LONG_BITS`
  wide.
- `DigitLoop`/`uint_to_str`/`int_to_str` are the digit loops.
- `Conversion` is the switch of `vsnprintf`, with its fall-through for
  unknown conversions. `Format` is its main loop, and `Put` the per-character
  `str < end` copy.
- The state of the MC instance is only the input under check: a value, a
  format with its arguments, and a buffer size.

### Kernel

- The boot thread's `pc` follows `kernel_main`: `kernel_init` up to
  `mm_init` (`kernel_init_mm`), the second `buddy_init` and the no-op
  subsystem stubs (`kernel_init_subsystems`), `create_init_process`, the rest
  of `kernel_init` (`kernel_init_done`: `set_current`, `kernel_initialized`),
  then `shell`, where `shell_init`'s loop runs for ever (`Shell` models it).
- `alloc_task_struct` and `mm_alloc` hand out their static object once and
  NULL afterwards; `create_init_process` panics on NULL, as the code does.
- `panic` is two steps: the message is printed, then `panic_halt` clears the
  interrupt flag and halts. Interrupts may run in between.
- The stubs that enter `handle_interrupt`, `handle_exception` and
  `do_syscall` are not in the repository. An interrupt arrives whenever the
  flag is set, including in `do_exit`'s halt loop. An exception or a system
  call arrives whenever the thread runs code. The flag at `kernel_main` is
  left by boot code that is not in the repository, so `KInit` allows both
  values.
- `handle_interrupt` prints the IRQ, and "Unknown interrupt" for a number
  its switch has no case for. `handle_exception` prints the exception, then
  the line of its switch (`ExceptionName`) before it panics, or
  `handle_page_fault`'s line for vector 14. The timer handler is
  `update_jiffies_internal`, which `get_jiffies_64` reads back for the init
  task's start time.
- `console` is the sequence of lines `printk` printed, each a tuple
  `<<what, argument>>`.
- `si_meminfo` reads `total_pages` and `free_page_count`, which stay 0:
  nothing calls `free_area_init`, and `kernel_init`'s two `buddy_init`
  calls only reset the lists. `buddy_init` does not reset the two counters,
  so a range seeded before the second call would stay counted but unlisted.
  That is harmless only because nothing seeds.

## 3. Runs

| Run | Config | Expect | What it shows |
|---|---|---|---|
| `buddy_large` | `MCBuddyAllocatorLarge.cfg` | pass | 1 context, `MAX_ORDER` 4, 8 pages seeded as `[0,5)` and `[5,8)`, all GFP masks: `TypeOK`, `Conservation`, `FreeListDescriptorsAgree`, `FailureOnlyWhenNoFit`, `Refinement`, and BuddyMath's `SeedIsMaximalDecomposition`, `ExpandTilesBlock` on the state's blocks and ranges (166,350 states). |
| `closure_after_free` | `MCClosureAfterFree.cfg` | violation | `CoalescingClosure` fails after alloc(2), free, alloc(0) and free. This is the stale `_refcount` bug. |
| `memmap_bounds` | `MCMemMapBounds.cfg` | violation | `BuddyReadsInMemMap` fails: with `mem_map` of 6 pages, freeing at PFN 4 reads the descriptor of PFN 6. |
| `kmalloc_core` | `MCKmalloc.cfg` | pass | 2 symmetric contexts, 4 pages, one-page objects, `GFP_KERNEL` and `GFP_DMA`: `PagesPartitioned` and the four `BuddyAllocator` properties above other than `TypeOK`, which `Kmalloc` adds nothing to (125,101 states). |
| `kfree_leak` | `MCKfreeLeak.cfg` | violation | `PagesPartitioned` fails: `kmalloc(5)` gets an order-1 block, `kfree` returns one page, and the other is lost. |
| `kmalloc_wrap` | `MCKmallocWrap.cfg` | violation | `KmallocCoversRequest` fails: `kmalloc(63)` with a 6-bit `size_t` gets an order-0 block. |
| `locks` | `MCLocks.cfg` | pass | `Spinlock` with 2 CPUs, each with a thread and a handler: `InterruptsOffWhileHeld`, `NoSelfDeadlock`, `LockReleased`. `RWLock` with 2 readers and 2 writers: `RWExclusion`, `ReadersCounted`, `WriterNotStarvedByReaders`. Each behaviour exercises one lock while the other stays initial, so the state space is the sum of the two (1,377 + 2,586 = 3,963 states). |
| `kernel_boot` | `MCKernel.cfg` | pass | Boot with up to 3 interrupts (vectors 0, 1, 5), exceptions (13, 14) or system calls (1, 39, 60, 200, 300), and both initial interrupt flags: `KTypeOK`, `PanicIsFinal`, `BootCompletes` (21,922 states). |
| `shell_history` | `MCShell.cfg` | pass | A one-character line, a 2-entry ring, up to 5 stored lines: `ShTypeOK`, `BuffersInBounds`, `HistoryWindowLive` (4,155 states). |
| `printk_pure` | `MCPrintk.cfg` | pass | Every value of an 8-bit long with the `%lu`, `%lx`, `%d` and `%s` formats of the repository, and buffer sizes 0-6: `NumbersFaithful`, `TruncationIsPrefix`, `PrintkFaithful`; the same values through the shell's number printers and parsers, `ShellNumbersFaithful`, and as lines through `shell_parse_args` with `SHELL_MAX_ARGS` 2, `ArgsAreTokens`; and as copies and comparisons through `mm.h`'s byte helpers, `MemmoveFaithful`, `MemcmpOrders` (10,808 states). |
| `list_library` | `MCListHead.cfg` | pass | 2 heads, 3 entries, every call of `list.h` under its contract: `LTypeOK`, `ListsLinked`, `QueriesAgree`, `Refinement` (6,024 states, symmetry over heads and over entries). |
| `printk_show_mem` | `MCPrintkShowMem.cfg` | violation | `PrintkFaithful` fails on `show_mem`'s `"Order %2d: %lu blocks (%lu pages)"`. |

What the properties say:
- `Conservation`: each zone's `nr_free_pages` equals the pages on its lists,
  `free_page_count` equals their sum, and `total_pages` equals the free pages
  plus the pages owned by callers.
- `FreeListDescriptorsAgree`: PG_buddy is set exactly on listed heads, the
  order fields match the lists, no list holds a duplicate, and free blocks
  never overlap.
- `FailureOnlyWhenNoFit` (action property): a NULL return means no eligible
  zone had a block of that order or larger.
- `Refinement`: `BuddyAllocator` implements `PageAllocator` under
  `avail <- FreePages, owned <- Owned`. This rules out double allocation,
  misaligned blocks, and pages lost in a split or a merge.
- `PagesPartitioned`: every seeded page is free or owned by exactly one
  caller, through `kfree`, `krealloc` and the page-level wrappers.
- `InterruptsOffWhileHeld`, `NoSelfDeadlock`: whoever holds `buddy_lock` has
  its CPU's interrupts off, so no handler spins on a lock its own CPU holds.
- `LockReleased`: every holder eventually releases the lock.
- `RWExclusion`: a writer in its critical section is alone.
  `ReadersCounted`: `lock->readers` counts exactly the readers between their
  increment and decrement. `WriterNotStarvedByReaders`: a writer that owns
  the bit gets through the drain loop.
- `BuffersInBounds`: the line keeps room for its NUL and `escape_buf` is
  never indexed past 8. `HistoryWindowLive`: the ring holds the newest lines
  entered, each in the slot of its count, and the arrow keys never move the
  index to an overwritten entry.
- `NumbersFaithful`: the digit loops give positional notation, zero and
  `LONG_MIN` included. `TruncationIsPrefix`: a small buffer gets exactly the
  first `size - 1` characters of the full output. `PrintkFaithful`: the
  output is what C `printf` gives for the format. `%d` reads its argument
  with `va_arg(args, long)` (`main.c:258`), while its four callers
  (`main.c` 824, 834, 841, 857) pass an `int` vector number. The build
  writes that int to a 32-bit register, which zero-extends it, so the read
  gives the int's value for the non-negative numbers that occur; the `%d`
  inputs are those. A negative int would print as its 32-bit unsigned
  value, but no caller passes one.
- `ShellNumbersFaithful`: `shell_print_int` and `shell_print_hex` print
  positional notation, zero and `LONG_MIN` included. `parse_hex` reads back
  what `shell_print_hex` printed, with `0x` or `0X`. `shell_atoi` reads back
  a printed decimal truncated to an int, so a `hexdump` count wider than an
  int wraps.
- `ArgsAreTokens`: `shell_parse_args` yields the line's words, blank-separated
  or quoted. An unquoted word in the last of `SHELL_MAX_ARGS` slots keeps the
  rest of the line, because the blank after it is never cleared.
- `MemmoveFaithful`: `memmove` leaves in the destination what the source
  held before the call, for every overlap; `memcpy` does so for disjoint
  ranges. A reversed direction test breaks it.
- `MemcmpOrders`: the sign of `memcmp` is the order of the first differing
  bytes as `unsigned char`, so 0x80 and 0xFF sort above 1.
- `ListsLinked`: walking `prev` from a valid head meets, in reverse, the
  entries that walking `next` meets. `QueriesAgree`: `list_empty`,
  `list_empty_careful`, `list_is_singular`, `list_is_first`, `list_is_last`,
  `list_count_nodes`, `list_contains`, `list_get_nth` and
  `list_first_entry_or_null` agree with the head's sequence. `Refinement`
  (list): `ListHead` implements `ListAbs`, call by call.
- `SeedIsMaximalDecomposition`, `ExpandTilesBlock` (in `buddy_large`):
  every seeded range was cut into its maximal
  aligned blocks, in order; `expand` tiles each live block for every request
  order.

- `PanicIsFinal` (action property): once `panic` has halted, no step changes
  anything. No handler runs, prints or ticks.
- `BootCompletes`: boot reaches the shell, unless an exception other than a
  page fault panics it or a system call exits first.

Every property of a passing run has a mutant in `PROJECT.json`: a plausible
bug in one definition under which TLC finds the property violated.

Bounds:
- 4 pages with `MAX_ORDER` 3, with two contexts, give two-level splits, a
  full merge, a DMA request failing, and a second context running between
  `alloc_pages` and `prep_new_page`.
- 8 pages with `MAX_ORDER` 4 add unaligned ranges and three-level chains, with
  one context to keep the run within minutes. HIGHMEM falls back to NORMAL
  here.
- `kmalloc_core` uses only one-page objects. With larger ones, `kfree`'s leak
  (finding 4) breaks `PagesPartitioned` at once.
- Two CPUs with two levels each, and two readers with two writers, give every
  pairing of lock users, including a handler and the thread it preempted.
- The shell ring of 2 entries with 5 commands wraps twice. A one-character
  line already separates distinct, repeated and blank commands.
- An 8-bit long has 3 decimal digits, 2 hexadecimal digits, and a `LONG_MIN`.
- Two heads and three entries give every splice and cut between two lists,
  neighbours and non-neighbours for `list_swap`, and one-entry lists.
- A cap of 2 arguments and lines of up to four characters reach the cap
  with words after it, trailing blanks, empty and unterminated quotes.
- For `Kernel`, three external events put an interrupt, an exception or a
  system call before, between and after every boot step. They cover the
  `panic` window, an exit during boot, and `getpid` before and after
  `set_current`. Three timer ticks let the timer double-count mutant
  overshoot the bound.

Fairness:
- The allocator, `Kmalloc`, `Shell`, list and `Printk` runs check safety only, with
  no fairness. The allocator never waits, and nothing obliges a user to type.
- `Spinlock`: each CPU's steps, its thread's return and its handler's `iret`
  are weakly fair. Nothing forces a call or an interrupt. `spin_lock`'s
  compare-and-swap is not fair among CPUs, so one CPU can be starved, and no
  property claims otherwise.
- `RWLock`: each reader's and writer's steps inside a call are weakly fair.
  Calling is not. `MCLocks` keeps each module's fairness, restricted to the
  behaviours that exercise its lock.
- `Kernel`: the boot thread's steps, `panic_halt` included, are weakly
  fair. It is the only thread, so it runs whenever no handler does.
  Interrupts, exceptions and system calls come from outside and are not
  fair. `MCKernel.cfg` does not check deadlock. The CPU really stops: `panic`
  and `do_exit` halt for ever, and the shell's loop belongs to `Shell`.

## 4. Findings

1. **Stale `_refcount` prevents coalescing (code bug, `closure_after_free`).**
   - `prep_new_page` sets `_refcount` 1 on every page of a block, and
     `free_pages` resets only the head.
   - When that block is split again, `expand` re-lists the tails with
     `_refcount` 1, and `page_is_buddy` refuses them.
   - The lists stay fragmented for good.
2. **The coalescing loop reads past `mem_map` (divergence from spec section
   4.2, `memmap_bounds`).** `__free_one_page` does not bound the buddy PFN by
   the zone.
3. **`kfree` leaks the tail of multi-page objects (code bug, `kfree_leak`).**
   `kfree` always calls `free_pages(page, 0)`.
4. **`kmalloc` of a near-`SIZE_MAX` size returns one page (code bug,
   `kmalloc_wrap`).** `ALIGN_UP` wraps to 0, and `kcalloc`'s product is not
   checked for overflow.
5. **`show_mem` prints shifted values (code bug, `printk_show_mem`).**
   - `vsnprintf` has no field widths, so `%2d` prints literally and reads no
     argument.
   - The line for 5 free order-2 blocks reads
     `Order %2d: 2 blocks (5 pages)`.
6. **Adjacent seeds are not merged (spec gap, no run of its own).** `free_area_init`
   does not coalesce with blocks that are already free. `CoalescingClosure`
   fails right after seeding `[0,1)` then `[1,4)`. Spec section 4.3 says
   nothing on adjacent ranges.
7. **`krealloc` keeps only the first page (code bug, no run of its own).**
   `krealloc` copies exactly `PAGE_SIZE` bytes (`buddy.c:603`), as its
   comment says, whatever the old size. Growing a two-page object to three
   pages keeps its first page and loses the second. `Kmalloc` models which
   pages a block owns, not their contents, so no property checks this.

## 5. Plan

Later sittings:
1. `Kmalloc` with 8 pages and the HIGHMEM mask, if a symmetric two-context run
   fits in the time bound.
2. The `hlist` functions of `list.h`, if a user of them appears.
3. An abstract specification of the history ring (a bounded list with a
   cursor) that `Shell` refines, in place of the `added` history variable.
4. `Spinlock` with `spin_trylock`, and the rwlock `_irqsave` wrappers on the
   CPU model of `Spinlock`.
5. `mm.h`'s address translator (`page_to_pfn`, `virt_to_page`) as operators
   with their round trip, if a property needs it.
6. Page contents in `Kmalloc`, to check `krealloc`'s copy (finding 7),
   if a run slot frees.
7. A violation run for the Down-arrow cursor of `shell.c`, if the
   repository ever states which entry Up should recall next.

## 6. Not modelled

- Page contents, and with them `GFP_ZERO`'s `memset` and `krealloc`'s copy
  (finding 7). The copy loop itself is `MemOps`'s `memcpy`.
- `memset` and `copy_to_user`/`copy_from_user` of `mm.h`: a plain fill, and
  `memcpy` returning 0.
- The statistics counters that no decision reads: `nr_alloc`, `nr_free`,
  `alloc_count`, `free_count`, and the zone and node span fields.
- The text of `show_mem` beyond the line `printk_show_mem` checks.
- Port I/O, VGA and serial (`console_write`, `serial_putc`, `inb`/`outb`).
- The shell commands. They print, or act on hardware.
- The `hlist` functions of `list.h` (lines 393-480): nothing in the
  repository uses them.
- The scheduler's algorithms: `main.c` defines them as weak no-op stubs.
  Only the `task_struct` fields that `create_init_process` sets are
  modelled, in `Kernel`.
- `main.c`'s string helpers (`strcmp`, `strcpy`, `strlen`). Only
  `strcpy` is called, by `create_init_process` and `sys_uname`, on constant
  ASCII strings. `strcmp` returns `*s1 - *s2` of plain, signed `char`, unlike
  `memcmp`, but nothing calls it.
- Misuse that spec section 7 leaves undefined: a double free, or a free with
  the wrong order. The model's callers never do either, except that `kfree`
  does the second by construction.
