# A verification project for CourseProj

The repository holds three course projects: **MiniSQL**, a small relational
database in C++; **minios**, a RISC-V teaching kernel; and **rv64cpu**, a
pipelined RV64 processor in Verilog. This directory models the parts with the
most state and the most ways to go wrong: MiniSQL from the bitmap on disk up to
the statements that change a database, the process part of the kernel, and the
processor's pipeline.

Paths below are relative to `src/MiniSQL/src` unless they say otherwise.

## Inventory

| Component | State | Operations | What makes it correct |
|---|---|---|---|
| Free-page bitmap `page/bitmap_page` | one page: count, high-water mark, bits | AllocatePage, DeAllocatePage, IsPageFree | a page is handed out once, and the lowest free one |
| Disk manager `storage/disk_manager` | database file, meta page in memory | Read/Write/Allocate/DeAllocatePage, open, close | a page read is the page last written; allocation survives a restart |
| LRU replacer `buffer/lru_replacer` | a list and two sets of frames | Victim, Pin, Unpin, Size | the victim is the least recently unpinned frame, never a pinned one |
| Buffer pool `buffer/buffer_pool_manager` | page table, frames, free list, replacer | Fetch, New, Unpin, Delete, Flush, destructor | no lost update, no eviction of a page in use |
| Table page `page/table_page` | slotted page: tuples, slot directory, free space pointer | Insert, Update, MarkDelete, ApplyDelete, RollbackDelete, GetTuple | tuples keep their bytes and never overlap |
| Table heap `storage/table_heap` | a chain of table pages, the page to insert into | Insert, Update, deletes, FreeHeap, iteration | each row is found exactly once |
| B+ tree `index/b_plus_tree` | tree of pages, persistent root | Insert, Remove, GetValue, iteration | the keys are those inserted and not removed; balance; order |
| Catalog `catalog/` | maps in memory, catalog pages | Create/Drop table and index, load | memory and disk agree |
| Reader-writer latch `include/common/rwlatch.h` | reader count, writer flag, mutex, two condition variables | WLock, WUnlock, RLock, RUnlock | exclusion; no one waits for ever |
| Storage engine, executor `include/common/instance.h`, `executor/` | the open database | create, drop, insert, delete; open, close | indexes and tables agree; a restart changes nothing |
| Parser, records, transactions | - | - | generated code, byte copying; the transaction classes are empty |
| minios processes `src/minios/lab10/arch/riscv/kernel/{proc.c,entry.S,trap.c}` | tasks, slices, saved contexts, kernel stacks | traps, do_timer, schedule, switch_to, do_fork | every task runs, as if alone; the task array is not overrun |
| minios memory: `mm.c`, `vm.c`, areas in `proc.c`, faults in `trap.c` | free list, page tables, lists of areas | kalloc, do_mmap, do_page_fault | a fault finds its area; stacks are private |
| rv64cpu pipeline `src/rv64cpu/src/SCPU.v` | pipeline registers, register file, CSRs, predictor | one clock cycle | the pipeline computes what the instructions say |

**How they interact.** The executor calls the catalog, table heaps and indexes;
those fetch, change and unpin pages of the buffer pool through raw pointers into
its frames; the buffer pool reads, writes, allocates and frees pages of the disk
manager, which keeps one bitmap per extent in the same file. Nothing is
concurrent in MiniSQL (`latch_` is never taken, only the table heap takes page
latches), so the hard behaviours are long sequences of legal calls, state kept
twice (list and index, count and bits, memory and disk), pointers that outlive
what they point to, and restarts. In minios the hard behaviours are interrupts
and the order of faults, forks and timer ticks.

`PROJECT.json` lists the hazards line by line.

## Modules

| Module | Models | Notes |
|---|---|---|
| `Bitmap` | the value of a bitmap page and what its operations compute | pure operators |
| `BitmapPage` | one bitmap page as a state machine | refines `PageAllocator` |
| `PageAllocator` | what any page allocator promises | abstract |
| `DiskManager` | file, meta page, allocation by extent, restart | `MCDiskManager` gives its constants values |
| `MCStorageParts` | | one of `BitmapPage`, `DiskManager`, `LRUReplacer` and `TablePage` in each behaviour, the others at rest, so that one run checks the four |
| `LruList` | the value of an LRU replacer and what its operations compute | pure operators |
| `LRUReplacer` | the replacer as a state machine | refines `Replacer` |
| `Replacer` | `include/buffer/replacer.h` | abstract |
| `BufferPool` | the buffer pool, its replacer, its clients | uses `LruList` |
| `TablePage` | one slotted page, byte by byte | |
| `TableHeap` | the chain of table pages of one table, its iterator | over a pool that evicts at any time |
| `RWLatch` | the reader-writer latch and its threads | |
| `BPlusTree` | the index: tree, leaf and internal pages, index roots page, scan | `MCBPlusTree` gives node sizes and a view |
| `Catalog` | the catalog's maps, catalog page, meta pages, index roots page | pure operators on a database |
| `Executor` | the statements that change a database, and its restart | uses `Catalog`; `MCExecutor` adds a symmetry set |
| `Kernel` | traps, scheduler, fork, areas, page faults, the user program | |
| `RV64` | words, instructions, programs | shared by the next two |
| `ISA` | what the instruction set promises | abstract |
| `Pipeline` | the five-stage processor with its predictor | refines `ISA`; `MCPipeline` gives the instructions |
| `StorageFacts` | | lemmas on `Bitmap` and `LruList` that several proofs use |
| `StorageParts_proof` | | theorems about `BitmapPage`, `LRUReplacer`, `RWLatch` and `TablePage` |
| `DiskManager_proof`, `BufferPool_proof`, `TableHeap_proof`, `Executor_proof`, `Kernel_proof`, `Pipeline_proof` | | theorems, one module per component |

State variables carry the names of the members they model. Variables marked
*History* or *Client* in a module have no counterpart in the code: they record
what callers were promised (which page they hold, what they last wrote) so that
properties can be about it. `reply` (`page_reply`, `lru_reply`, `tuple_reply`) is the last call
and its result. The four small machines that are proved in one module have
specifications with names of their own: `BitmapSpec`, `LRUSpec`, `LatchSpec`,
`TablePageSpec`.

Points where the abstraction is more than a renaming:

* **Bitmap.** `bytes[]` is the set of offsets whose bit is 1, but the scan keeps
  its two loops, because its bound (`i <= page_allocated_`) counts bytes. The
  number of bits per byte and of bytes are constants.
* **Disk manager.** A physical page holds the value its last writer stored:
  client data or a bitmap. Either kind of reader may read either kind of page
  (`AsBitmap`, `ReadAsBitmap`), so colliding layouts are modelled. A
  `page_offset` that the bitmap did not assign has any value of `Uninitialised`.
  `uint32_t` arithmetic is modulo `Word`. An operation is atomic: each writes at
  most one page of the file, and every write is flushed. An extent beyond
  `extent_used_page_` gives a page that is no page of the file and leaves the
  stream failed until the file is opened again; that the code also writes beyond
  the meta page there is not followed further. `client`, chosen in `Init`, says
  what the clients keep to: *careful* ones hold fewer pages than an extent has and
  allocate only while they have not released more pages than they allocated since
  the file was opened (they may release older pages whenever they like, which
  wraps the count), *appending* ones only allocate, into as many extents as there
  are, and *any* does what the code allows.
* **Buffer pool.** `FetchPage` is three actions (hit, miss, refusal). The loop
  that looks for the victim's page in `page_table_` leaves `pageId` unassigned
  when no entry names the frame; the model then lets it be any page.
  `unordered_map::insert` keeps an existing entry. The disk manager appears by
  what `AllocationConsistent` says of it within one extent: the lowest free page, until a
  page is released after a restart, when `AllocatePage` may return any page
  (`allocator`, `NewPageIds`). Clients tell the truth
  when they unpin: who changed a page says so. `careful`, chosen in `Init`,
  separates clients that allocate pages before they fetch them, hold a page once
  and neither delete nor flush from clients that do what they like; properties
  about contents are promised to the former.
* **Table page.** Byte k of a serialized row r is the value `<<r, k>>`. The
  delete mask in the size word is a field of its own. `ApplyDelete` of an empty
  slot is excluded by the code's own assertion on the offset.
* **Table heap.** A row is its serialized size and a page its slot directory and
  next pointer; `TablePage` justifies counting the free space. `mem`, `disk` and
  `dirty` are the pool as a client sees it: an unpinned page may be dropped
  between any two operations and is written out only if it was unpinned dirty.
  `rows`, `strays`, `lost` and `owed` are history: what the table should hold,
  which old copies `UpdateTuple` marked in a page it then unpinned as clean, which
  rows an `UpdateTuple` that then failed has taken out of the table, and what a
  running scan still has to return. `NoRowLost` and `DeletedStaysDeleted` are
  about the rows in neither set; `update_refused` shows that `lost` does not stay
  empty, and that `strays` does not is a finding below.
* **Latch.** A step is what a thread does while it holds `mutex_`: from getting
  it, at the call or when a wait returns, to the next wait or the return. A
  notified thread has no precedence: it competes for `mutex_` and tests again.
  Waits may return spuriously. `MAX_READERS` is at least the number of threads.
* **B+ tree.** Operations are atomic (one thread) and transform a record: the
  allocated pages, `root_page_id_`, and the index's entry in the index roots
  page. A deleted page leaves the domain of `pages`, so that a pointer to it is
  visibly dangling. Pins are left out: no branch depends on one. Entries keep
  their order in `array_`. `NewPage` is the pool's promise, the lowest free page;
  in the code a tree that gives pages back after a restart meets the wrapped count
  of `disk_after_restart`. The key of an internal page's first entry is a
  value of its own. Node sizes are `LEAF_PAGE_SIZE` and `INTERNAL_PAGE_SIZE`,
  which depend on the key type and not on the constructor's arguments (`Init` of
  a page ignores them); they are chosen in `Init` (`shape`), so that one run
  covers several. Keys are integers, rows are functions of their key.
* **Catalog and executor.** A statement is one action, made of the catalog's
  operations as functions from database to database. `pages` is the file, with
  each page as what was serialized into it; `std::map::insert` keeps an entry
  that exists. A tree is one page with its entries and a heap one page with its
  rows: `BPlusTree` and `TableHeap` look inside. A row is the value of its second
  column, the one `ExecuteInsert` and the deletions look up in every index. A
  deletion goes through an index that has the condition's column, or, when there
  is none, scans the table and marks rows without touching any index
  (`ExecuteDeleteByScan`). `num_allocated_pages_` is the disk manager's count,
  without the wrap: a statement that needs a page while it is negative is left
  out of all behaviours (`CountIsSound`), since the allocator then returns no page
  of the file. `careful` again separates the uses the code can handle from the
  rest.
* **Kernel.** Interrupts are off in the kernel, so a trap is one action: entry,
  handler, and the exit through `_traps`, `__dummy` or `ret_from_fork`. An
  address is a pair of a page and a distance from its top; pages are named after
  the task they were allocated for. `user/getpid.c` forks twice and then prints
  for ever; `expect` is what its instances would compute if each ran alone. The
  context keeps one register of each kind: the stack pointer, a callee-saved one,
  a result, a temporary. `TaskStateKept` is about the first three and the pc.
* **Pipeline.** A step is a clock period. What the falling edge writes
  (registers, CSRs, predictor tables) is seen by what the rising edge latches at
  the end of the period. The Verilog assigns some registers both with `=` and
  `<=`; the model takes the synthesised registers, each written once per edge.
  An instruction is the fields the hardware cuts out of its word, whether its
  format has them or not, because `Detection` compares them so. As in the code,
  `jalr` adds no immediate (`ImmGen` has no case for it) and `ecall` saves the
  address in fetch. Behind the program the ROM jumps to itself.

  The pipeline does not execute every program rightly. `Supported` is what it
  asks of a program, in five clauses, each of which names a defect:
  the result of `jal` is not used by the next instruction (`LinkForwarded`), that
  of `jal`, `jalr` and `lui` not yet by a jump or CSR instruction behind it
  (`DecodeForwarded`), no branch stands where fetch may be while a jump is in
  decode (`RedirectWins`), and no instruction that names a loaded register stands
  beside a jump that follows the load (`StallKeepsJump`). Without any one of these
  `ImplementsISA` is violated, so each is needed. The fifth, `JumpsFit`, is about
  the branch target buffer, whose 256 entries are searched up to the last, which
  is not initialised and counts as a hit (`SCPU.v:2238`): branches and direct
  jumps, and the jump to itself the program may end in, leave one of the others
  free. `NextBtb` relies on it, and `TableHasRoom`, a part of `DecodeCanRely`, shows
  that it is enough. (`kernel.sim`, the image in the repository, has 236 words.)
  `BootAssumption`: address 0
  holds no branch, since the predictor takes an entry for it to be free.

## Runs

| Run | Expect | What it shows |
|---|---|---|
| `storage_parts` | pass | one part in each behaviour. Bitmap page: all call sequences on 3 bytes of 2 bits, refinement of `PageAllocator`. Disk manager: careful clients allocate, release (also pages from before a restart), write and reopen, appending ones fill two extents, others run along. Replacer: all call sequences on four frames, refinement of `Replacer`. Table page: all call sequences on 8 bytes with rows of 1 to 3 bytes |
| `disk_after_restart` | violation | a page released after a restart wraps the count, and the next allocation returns no page of the file |
| `pool` | pass | two frames, three pages, all operations, restarts; careful clients: contents, pins, refusals; all clients: the page table and the free list never share a frame |
| `table_heap` | pass | a heap of up to three pages with an iterator, evictions and restarts: no row lost, no deleted row back but the copies a moving update leaves, the chain whole, scans complete and forward |
| `update_refused` | violation | an update that has to move its row and is refused loses it |
| `latch` | pass | four threads: the count is that of the readers, exclusion, no missed wakeup, an entered writer writes, the latch is never stuck |
| `bptree` | pass | insertions, removals and reopening: lookups, scans, balance, page accounting, stored root |
| `bptree_leftmost_merge` | violation | merging a first child deletes the page that received the entries |
| `bptree_refill` | violation | an index that was emptied and filled again is empty after a restart |
| `kernel` | pass | all interleavings of the timer, faults and forks with the program's instructions: contexts and stacks kept, no fault in the kernel, every task runs |
| `executor` | pass | all sequences of statements and restarts on two tables and two indexes, up to a statement that needs a page while the disk manager's count has wrapped: catalog and meta pages, page ownership, reload, index against table |
| `pipeline` | pass | all supported programs of four instructions out of fourteen: refinement of `ISA`, progress |

The structural invariants of a module are checked as one property that names its
parts: `AllocationConsistent` (disk manager), `ListConsistent` (replacer),
`PoolConsistent`, `HeapConsistent`, `TreeConsistent`, `PagesConsistent`
(executor), `TaskStateKept` and `KernelGoesOn` (kernel), `DecodeCanRely`
(pipeline). All but `TaskStateKept` include the module's `TypeOK`. All safety
properties but those of the B+ tree are also proved (see Proofs).

### Bounds

* `ByteBits = 2`, `MAX_CHARS = 3`: the scan crosses bytes, the bound of the scan
  (up to 6) exceeds the number of bytes, and the bitmap fills up.
* Disk manager: careful clients hold up to 5 of the 6 pages a bitmap describes, their
  limit; appending ones fill both extents (`MaxExtents = 2`), 12 pages; clients of
  any kind hold 2 pages, enough to wrap the count. `Word = 24` is twice the pages
  of the file, so that a wrapped count selects an extent that does not exist, as
  2^32 does. `disk_after_restart` has clients of any kind only, and the operations
  they need.
* Pool: two frames and three pages force evictions with one page pinned; a third
  frame adds no new case because an action touches at most two frames.
  Careless clients have two pages and a single content, the property that is
  promised to them being about frames and not about contents; they fetch a page
  up to `MaxHolds = 2` times. The code itself notes that it does not count nested
  fetches (`buffer_pool_manager.cpp:191`). `HeldPageStays` is for careful clients; the code does
  not give it to all (`EveryHeldPageStays`, see Findings).
* Table page: 8 bytes hold up to four slots of an entry and a byte, which covers
  reuse of an empty slot, a marked tuple between two others, growing, shrinking,
  and the refusals.
* Table heap: pages of 4 bytes hold one row of size 3 or two of size 1, so that
  an update may grow in place or has to move. Three slots over three pages let a
  new page be linked with another evicted, a moved row's old copy come back, and
  a scan cross an empty page.
* Latch: four threads are two readers and two writers at once, with a waiter of
  each kind; `MAX_READERS = 4` makes the notification at `MAX_READERS - 1`
  happen.
* B+ tree: leaves of 4 and internal pages of 4 entries with 11 keys, and leaves
  of 2 with 9 keys. Between them they reach three levels, splits of leaves and
  of internal pages, redistribution in both directions and merges on both
  levels. `MaxPageId = 18` leaves room for the largest such tree and four more
  pages (`HasRoom`), which is what an insertion may need.
  The run identifies states that differ in page numbers only
  (`VIEW UpToPageNumbers`): no operation compares page numbers, and no property
  mentions one. In the passing run `Operations` is empty: a removal that would
  leave a pointer to a deleted page is what `bptree_leftmost_merge` adds, and an
  insertion into an index that was emptied is what `bptree_refill` adds. So
  `PagesMatchTree` shows in the passing run that no page is leaked, and
  `RootPersisted` that splits, merges and the removal of the last key store the
  root.
* Kernel: `NR_TASKS = 10` as in the code; the program makes four tasks.
  `CounterMod = 64` stands for 2^64: slices are at most 10, and a decrement of 0
  would give 63, out of the scheduler's range as in the code.
* Executor: two tables, two indexes and two column values, ids up to 2, so that
  an id is used again; two rows; pages up to 7, which leaves out only the state
  with every object at once. Free use of the statements is bounded by page 6.
  Tables, indexes and values are interchangeable (`SYMMETRY`); there is no liveness property in that run.
* Pipeline: two registers besides `x0` and eight words make every pair of
  instructions depend on each other in some program; four instructions after the
  first one cover each distance at which forwarding, stalls and squashes reach,
  and jumps in both directions make loops, so that the predictor learns.
  `BtbSize = 6` lets a program have up to three branches and direct jumps, which
  with the jump at its end use every entry they may. All of
  the instructions' classes and none of the ALU's variety: `add` stands for the
  operations of its format.

Deadlock is checked in all passing runs but three: appending clients of the disk
manager end with a full file (`storage_parts`), after `FreeHeap` a heap is
gone (`table_heap`), and a database that uses up its bounds, or one that can no
longer be loaded, may leave no statement (`executor`).

## Fairness

`LatchSpec` has weak fairness of `Step(t)` for each thread: a thread that
waits for `mutex_` or that was notified gets to run, and a thread that holds the
latch releases it, as the callers in `storage/table_heap.cpp` do on the next
lines. This takes the mutex to be free of starvation, which `std::mutex` leaves
to the implementation; it does not make the latch fair, and a single thread may
still be overtaken for ever, which is why `SomeThreadGetsIn` says `some`. There
is no fairness of calls and none of spurious wakeups, so no property depends on a
wakeup nobody sent.

`Kernel` assumes that the boot code runs and that the timer, which the handler
sets again at each interrupt, keeps interrupting; nothing is assumed of the
program. `Pipeline` assumes a running clock.

Elsewhere none is assumed: MiniSQL is called from one thread, its
properties are safety properties, and an operation is one step of its model.

## Proofs

`tlapm` checks eight modules; each theorem holds for every value of the
constants that satisfies the assumptions named in the module that declares them.
Each inductive invariant was first checked by TLC on the component's run.

* **`StorageParts_proof`, the bitmap page**: `BitmapSpec => []BitmapInv` with
  `BitmapInv == BitmapTypeOK /\ CountMatchesBits /\ NoBitAboveNextFree`. None of the three
  is inductive alone: the shortcut sets a bit without testing it, which keeps
  the count right only if no bit at `next_free_page_` is set; that in turn needs
  the scan to stay below `next_free_page_`, which follows by counting: if
  `page_allocated_ < next_free_page_` then some offset below is free
  (`ConsistentBits`), and the byte that holds it has an index of at most
  `page_allocated_`, because all lower bytes are full (`ScanByteFinds`). From
  the invariant follow `AllocatesLowestFree` and the refinement of
  `PageAllocator`.
* **`StorageParts_proof`, the slotted page**: `TablePageSpec => []TablePageInv`
  with `TablePageInv == TablePageTypeOK /\ Layout /\ ContentIntact /\
  NoSpaceLost`. The bytes that `memmove` and `SerializeTo` overwrite belong to no other tuple because tuples
  are disjoint and lie above the free space pointer; every other tuple lies
  wholly on one side of the one that is removed or resized, so the offsets are
  corrected exactly as the bytes moved. There is one lemma per operation
  (`InsertPreserves`, `UpdatePreserves`, `ApplyDeletePreserves`,
  `FlagPreserves`).
* **`StorageParts_proof`, the latch**: `LatchSpec => []LatchInv` with `LatchInv == LatchTypeOK /\
  CountMatchesReaders /\ OneEntered /\ WritesWhenDrained /\ NoMissedWakeup`,
  for every finite set of at most `MAX_READERS` threads. A writer goes on when
  it reads zero in `reader_count_`, which says something about the readers only
  because the counter counts them (`CountMatchesReaders`), and at most one
  writer is past the first wait (`OneEntered`). That a reader never has to wait
  for room (`RoomForReader`) is why both kinds of waiter on `reader_` wait for
  the writer only, and so why no wakeup is missed. `LatchCountsReaders` says that
  the count is exact and that `RUnlock`'s `ASSERT` cannot fail.
* **`StorageParts_proof`, the replacer**: `LRUSpec => []ReplacerInv` with
  `ReplacerInv == LRUTypeOK /\ IndexMatchesList /\ OldestLast`, for every set of frames.
  That list, set and map hold the same frames once each is inductive on its own;
  `OldestLast` (the list is sorted by the time since a frame became evictable,
  recorded in the history variable `older`) is what turns `back()` into
  "least recent". From the invariant follow `ListConsistent`,
  `VictimIsLeastRecent` and the refinement of `Replacer`.
* **`DiskManager_proof`**: `Spec => []IInv` with `IInv == Orderly => OrderlyInv`,
  for every size of the bitmap, every number of extents and every page content.
  Orderly clients are the careful and the appending ones; for the rest
  `AllocatePage` does not keep its promise (`disk_after_restart`). `OrderlyInv`
  is `TypeOK`, every extent's bitmap well formed and equal to the held pages of
  that extent (`BitmapsMark`), the count equal to allocations less releases since
  the file was opened, modulo `Word` (`MetaCountsPages`), the stream intact and the
  meta page still zero in the file, which is why an opening resets the count, and
  `EveryReadsLastWrite`. It is carried by what each kind of client keeps to:
  careful ones never hold the last page of an extent, in whose place the next
  bitmap is (`CarefulClients`), and allocate at a count between 0 and
  `BITMAP_SIZE - 2`, so always in the first extent; appending ones hold exactly the
  first pages (`AppendingClients`), so that the count selects the extent that has
  room, extent after extent, and have written nothing that the next bitmap could
  overwrite. `DiskAssumption` says that client data and bitmaps are different
  values, which only keeps a client's page from being mistaken for a bitmap.
* **`BufferPool_proof`**: `Spec => []IInv` with
  `IInv == PoolInv /\ (careful => CarefulInv)`, for every pool size, number of
  pages and content. `PoolInv` (types, `FramesNotShared`, a well-formed replacer)
  holds for all clients and gives `PoolConsistent`. `CarefulInv` is for `careful`
  clients, which fetch only pages they allocated, hold a page once, and neither
  delete nor flush: a page's pin count is the number of its holders (`PinsCountHolds`), so that a frame in the
  replacer is held by nobody; a held page is resident where its client's pointer
  points (`HeldIsResident`); an unpinned one can be evicted
  (`UnpinnedIsEvictable`), which is why a refusal means that all frames are
  pinned; a frame is mapped or free and no free frame is a victim
  (`FramesAccounted`), so that eviction always finds the page it must write back;
  and a page that is clean and not being changed equals the disk
  (`CleanMatchesDisk`), so that dropping it loses nothing (`ContentIsLatest`).
  From it follow `HeldPageStays`, `NoLostUpdate` and `FailsOnlyWhenAllPinned`.
* **`Kernel_proof`**: `Spec => []IInv` with
  `IInv == TypesInv /\ RunningInv /\ SuspendedInv /\ StackInv /\ FamilyInv`, for
  every length of `task[]` and counter width that `ConstantsAssumption` allows.
  A task that does not run is in one of three situations, each with its state
  where the way back will look for it: `__dummy` (in `thread`), `forkret` (in
  `trapframe`) or `switch_to` (in the frame on its kernel stack); a trap, a
  switch and a return each lead from one to another (`EntryFrame`,
  `ResumedTaskRuns`, `TrapReturns`). `StackInv` says that the user stack is the
  task's own page, mapped when the program calls `fork`, which `do_fork` copies
  without looking. `FamilyInv` counts how many tasks each task and its
  descendants still become, four in all, so `task[]`, whose bound `do_fork` does
  not test, is not overrun. `schedule` finds a task because after `SlicesAfter`
  some slice is positive (`Scheduled`). That the child's list of areas, built
  with repeated `do_mmap`, is the parent's is lemma `AreasCopied`, which evaluates
  the fold for the two areas a task has. From the invariant follow
  `TaskStateKept` (`sp`, `s0`, `a0` and `pc`; not the temporaries, which the trap
  entry destroys), `StackKept` and `KernelGoesOn`.
* **`TableHeap_proof`**: `Spec => []IInv` with
  `IInv == TypesInv /\ RowsLive /\ UseInv /\ FreeInv`, for every page size, slot
  size, set of row sizes and number of pages that `TableHeapAssumption` allows
  (a row fits into an empty page). `UseInv` speaks of the heap while it is in use.
  The pages of the table are the members of one path `s[1], ..., s[n]` of `next`
  pointers that starts at the first page (`PathInv`); `ChainIs` says what the
  recursive `Chain` computes along such a path, by taking the least place where
  the two would differ. A new page goes behind the end of the path
  (`LinkedPath`), so no page falls off it. What the pool reads again after an
  eviction is what was in memory, except for marks of the rows in `strays`
  (`CleanPages`): this is what `NoRowLost` and `DeletedStaysDeleted` need and
  neither implies. Both are about the rows that no `UpdateTuple` has taken away or
  left a copy of (`lost`, `strays`). What a running scan owes lies ahead of it on the path
  (`OwedAhead`), also when the row it stands on is deleted or a page is added;
  hence `ScanComplete`, and `ScanForward` because `operator++` goes to the least
  live place ahead. `GoodPage` keeps the free space from becoming negative, which
  takes the sum over the slots: a page's rows are counted byte by byte as cells of
  a set, and the fold equals its cardinality (`SumOfRows`). `FreeInv` is the only
  round `FreeHeap` makes on a heap of one page.
* **`Executor_proof`**: `Spec => []IInv`, for every set of tables, indexes and
  column values and every value of the bounds, up to a statement that needs a page
  while the disk manager's count has wrapped. `IInv` says `Good(db)` of every
  database and `CarefulInv(db)` of one whose user is careful. `Good` is what no
  statement can break: the catalog page equals the maps of `CatalogMeta`
  (`PagesInv`), each table and index has its meta page, names and ids determine
  each other as far as the code keeps names (`TablesInv`, `IndexesInv`), and a
  tree page is the root of one index only, in memory or by its record
  (`TreesInv`). The last part has to speak of the records of indexes that do not
  exist any more, because `DropIndex` leaves tree and record behind and ids are
  used again: without it, a new index could share the tree of another one.
  `CarefulInv` adds that every index has its table, its name and the recorded
  root in memory (`NamesInv`), that live rows differ in the indexed column
  (`UniqueInv`) and that an index has exactly their entries (`EntriesInv`). Each
  operation of the catalog has a lemma that says what it changes (`...Facts`), one
  for `Good` and one for `CarefulInv`. The scan of `CREATE INDEX` is a fold over
  the rows: `FillSteps` unfolds it into a sequence of databases, and
  `FillIndexFacts` follows the entries along that sequence by taking the first
  place where they would go wrong. From the invariant follow `PagesConsistent`,
  `ReloadAgrees` (`LoadSame`: loading rebuilds each map point by point) and
  `IndexAgrees`.
* **`Pipeline_proof`**: `Spec => []IInv` with `IInv == TypesInv /\ FromProgram /\
  FetchFollows /\ InOrder /\ LoadsSettled /\ TargetsTrue /\ HistoryOfBranches /\
  EntriesInv`, for every word size, number of registers, length and supported program
  (`SizesAssumption`, `BootAssumption`; `InstrsAssumption` says that instructions
  are ones of the modelled set). Each latch carries the instruction that the
  program has at its address (`FromProgram`), and decode, execute and memory
  carry instructions that follow each other in the program (`InOrder`): the
  clauses of `Supported` are about instructions that follow each other, and only
  this makes them apply to what is in the pipeline at the same time.
  `FetchFollows` says that fetch is where the predictor sent it, so that a
  misprediction is noticed and squashed; `HistoryOfBranches` that the predictor
  never sends it elsewhere from an instruction that is no branch. `EntriesInv`
  counts the entries of the target buffer: jumps of the program, and the one
  behind its end at which decode then stays; with `JumpsFit` this gives
  `TableHasRoom`. From the invariant follow
  `DecodeCanRely` and, clock period by clock period, the refinement of `ISA`:
  the architectural state is that of the instructions behind decode carried to
  their end (`DrainedRegs`, `DrainedRam`).
* **`StorageFacts`**: least elements of sets of naturals; what a bitmap's
  allocation and release do to a well-formed bitmap value; what `push_front`,
  `pop_back` and `remove` do to a list without duplicates, and that the
  replacer's operations keep its containers equal.

Only model-checked:

* liveness (`EnteredWriterWrites`, `SomeThreadGetsIn`, `EveryTaskRuns`,
  `Progress`), which is out of the prover's reach;
* the B+ tree, whose descents and merges are RECURSIVE operators, which the
  prover does not handle.

## Findings

A violation run is a place where the code disagrees with a comment of its own;
`PROJECT.json` quotes both sides. The disagreements that have no run were met in
the models too: the behaviours that show them are the ones that the `careful`
clients of `DiskManager`, `BufferPool` and `Executor`, the set `strays` of
`TableHeap` and the clauses of `Supported` set apart, and dropping such a
precondition from a property (`HeldPageStays`, `IndexAgrees`,
`DeletedStaysDeleted`, `ReadsLastWrite`, ...) makes TLC print one; for the disk
manager the other clients then need one page more than an extent has and leave
to write or release (`MaxPages`, `Operations`).

* **Disk layout** (no run). The bitmap of an extent is looked for at
  `extent_id * BITMAP_SIZE + 1` (`disk_manager.cpp:49`), while `MapPageId` and the
  layout drawn in `disk_manager.h:19` give an extent `BITMAP_SIZE + 1` pages:
  allocating in the second extent overwrites the last page of the first.
* **Choice of the extent** (`disk_after_restart`). The meta page is never written
  back (`disk_manager.cpp:23`), so the count restarts at 0 with the file, and
  releasing an old page then wraps it (`:88`), as `DropTable`, `DropIndex` and
  removals from an index do. Without a run: the extent is selected by the number
  of pages in use (`:47`), which may be a full one while an earlier one has room,
  and its bitmap's refusal is ignored (`:56`), so that a page in use is returned.
* **Pins** (no run). `DeletePage` and `FlushPage` free a frame and leave it in the
  replacer (`buffer_pool_manager.cpp:173`, `:212`), and `UnpinPage` assigns 0 to a
  count of fetches (`:188`): pages are evicted while pinned, against
  `replacer.h:24`. `DeletePage` of a pinned page returns false but has already
  given the page id back (`:156`), and `NewPage` keeps an entry of `page_table_`
  that exists (`:112`), as for page 0 of a new database, which the catalog fetches
  before it is allocated: the frame `NewPage` returns is not the one later calls
  find.
* **Moving updates** (`update_refused`). `UpdateTuple` marks the old row before the
  new one is inserted (`table_heap.cpp:65`). Without a run: it unpins the page with
  the mark as clean (`:66`), so that an eviction brings the old copy back beside
  the new one; `FreeHeap` reads the deleted first page in every round (`:93`;
  nobody calls it), and a page that `FetchPage` refuses is dereferenced in the walk
  for space (`:16`).
* **Merges of a first child** (`bptree_leftmost_merge`), `b_plus_tree.cpp:340`.
* **Index roots** (`bptree_refill`). An index that was emptied keeps an entry with
  an invalid root, which `StartNewTree` cannot replace because
  `IndexRootsPage::Insert` keeps what it finds (`b_plus_tree.cpp:105`,
  `index_roots_page.cpp:6`), against the comment at `b_plus_tree.cpp:509`.
* **Indexes and statements** (no run). Insertions do not enter the new row in the
  indexes (`execute_engine.cpp:556`), so that the uniqueness announced at `:541` is
  not kept; `DropIndex` erases the names of all indexes of the table
  (`catalog.cpp:272`); `Destroy()` of an index does nothing (`b_plus_tree.cpp:28`)
  and ids are used again; `DropTable` leaves the table's indexes, and the next
  start dereferences a null pointer (`catalog.cpp:313`); `DELETE` without a
  condition (`execute_engine.cpp:571`), or with one that no index has the column of
  (`:588`, `:606`), leaves the entries of the deleted rows in the indexes.
* **Kernel temporaries** (no run). The trap entry overwrites `t0`, `t1` and `t2`
  before it saves them (`entry.S:22`), against the comments at `:30` and `:84` that
  all registers are saved and restored (`TrapEntry` puts the stack pointer into
  `t2`).
* **Out of the models.** `Begin(key)` of a tree may stand behind the last entry of
  a leaf (`b_plus_tree.cpp:461`; nobody calls it); a row larger than a page makes
  `InsertTuple` append pages for ever (`table_heap.cpp:11`; excluded by
  `TableHeapAssumption`); an area inserted between two others is linked from its
  successor only (`proc.c:313`; no system call asks for one); `kalloc` does not
  test for an empty list (`mm.c:17`) and `do_fork` not for a full `task[]`
  (`proc.c:135`; the program makes four of nine tasks); the globals of the user
  program's `printf` are shared by all tasks (`user/printf.c:4`).
* **Pipeline.** The five clauses of `Supported`. Beyond the model: CSR
  instructions never write their register because `Control` leaves `reg_write` 0,
  and an illegal instruction saves no `mepc` unless it has the CSR opcode.

## Plan

1. The position `Begin(key)` of the index iterator; update statements.
2. CSR reads and partial-width loads in the pipeline.

## Not modelled

The lexer and parser, generated by flex and bison, and the vendored glog and
googletest: together they are most of the repository's lines, and none of them is
this program's own logic, which is why the mapped share of all lines is small.
Of the own code: serialization of rows and schemas (byte copying without state),
the empty transaction classes, errors of the device under the database file (logged
and ignored), select and the
formatting of results, the update statement, the statements on databases and the
execution of files, the kernel's boot code and console, and the board's I/O
modules around the processor.
