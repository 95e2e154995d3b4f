# TLA+ models of the BuzzDB storage kernel and query optimiser

This directory holds TLA+ models of the storage and transaction kernel and
of the query optimiser in `src/src`, together with the TLC configurations
that check them. The definitions are written from the C++ source in
`src/src` and the test client in `src/test`. Where the code depends on
something outside the repository, or on undefined behaviour, the model
makes an assumption, and §2 states it. `PROJECT.json` maps each definition
to the lines it models, and it also lists runs, mutants, findings and
hazards.

## 1. The system

The repository has two independent halves.

**Storage and transactions.** These parts run single-threaded (spec §5):

| Part | Source | State | Operations |
|---|---|---|---|
| Slotted page | `storage/slotted_page.cc` | header fields `slot_count`, `first_free_slot` (uint16) and `data_start`, `free_space` (uint32); the slot array (64-bit: tombstone, offset, length); payload bytes | header constructor, `addSlot`, `getSlot`; `compactify` is an empty stub |
| Buffer manager | `buffer/buffer_manager.cc` | `pool_` (frames: page id, dirty, data), `page_counter_` | `fix_page`, `unfix_page`, `flush_page`, `flush_all_pages`, `discard_page`, `discard_all_pages`, destructor |
| Heap segment | `heap/heap_file.cc` | `page_count_` | `allocate`, `read`, `write`; `HeapPage` is unused duplicate code |
| Transaction manager | `transaction/transaction_manager.cc` | `transaction_counter_`, `transaction_table_` (id → started, modified pages) | `start_txn`, `commit_txn`, `abort_txn`, `add_modified_page`, `reset` |
| Log manager | `log/log_manager.cc` | file handle, counters | every `log_*`, `recovery` and `rollback_txn` is an empty stub |
| Client | `test/unit/log/log_manager_test.cc` | — | `insert_row`, `look`, `abort` (flush all, then abort), `crash` (discard all, reset, recovery) |

**How they interact.**
- `insert_row` calls `allocate`, which may call `fix_page` on several pages and then `addSlot`.
- The page header stores `buffer_frame`, a raw pointer to the frame buffer
  the page was formatted in. `addSlot` and `getSlot` reach the slot array
  through it. Only `allocate`'s new-page branch sets it; `look` and
  `SeqScan::has_next` reset it to the current frame before they read.
  Nothing else does, so a page that `fix_page` reloads keeps the pointer
  to the frame it left.
- It then calls `write`, which fixes the page, copies the record and unfixes it dirty.
- Finally it calls `add_modified_page`.
- On commit, the transaction manager flushes the modified pages.
- On abort, it discards them and relies on NO-STEAL. The spec expects `log_abort` to roll back any page that was stolen anyway.
- `crash()` discards every frame and resets the transaction table. The heap segment object and the pool's `page_counter_` survive it.
- When the process ends, `~BufferManager` writes every dirty frame.

**Query optimiser.**

| Part | Source | State | Operations |
|---|---|---|---|
| Integer histogram | `optimizer/table_stats.cc` | `span` (double), `min_v`, `max_v`, `NumB`, `ntups`, `umap` (bucket counts) | constructor, `add_value`, `estimate_selectivity` |
| Table statistics | `optimizer/table_stats.cc` | per-column bounds, `num_tups`, one histogram per column | constructor (two scans), `estimate_selectivity`, `estimate_scan_cost`, `estimate_table_cardinality` |
| Sequential scan | `operators/seq_scan.cc` | its own buffer pool and heap segment, page and slot cursor, current tuple | `open`, `reset`, `has_next`, `get_tuple`, `close` |
| Join optimiser | `optimizer/join_optimizer.cc`, `include/optimizer/join_optimizer.h` | the join list; inside `order_joins`: the plan cache, `bestres`, `bcc` | `order_joins` with `enumerate_subsets`, `compute_cost_and_card_of_subplan`, the cost and cardinality estimates, `does_join`, `has_Pkey` |

**How they interact.**
- `TestUtils::populate_table` writes a table through its own buffer pool and
  heap segment (`allocate`, `write`, `flush_all_pages`).
- `TableStats` scans it twice with a `SeqScan`. The first pass finds each
  column's bounds and counts the tuples. After `reset`, the second pass adds
  every value to a histogram built on those bounds.
- `SeqScan::has_next` fixes each page in its own pool and reads a slot with
  `HeapSegment::read`, which fixes the same frame again.
- `JoinOptimizer::order_joins` reads `estimate_scan_cost` and
  `estimate_table_cardinality` of each table. The join optimiser and the
  storage kernel share no state.

## 2. Modules

| Module | Models | Kind |
|---|---|---|
| `SlottedPage` | page layout, `Header::Header`, `addSlot` (with helpers `FreeSpaceAfter` and `FirstFreeSlot`), `getSlot`, and the `look` slot walk (`PageValues`) | pure operators over a page record |
| `BufferManager` | the frame pool: `Fix`/`FixFails` (`fix_page`), `Unfix`, `FlushPages`, `FlushAll`, `DiscardPages`, `DiscardAll`, `FrameOf`, `WriteFrames` | pure operators over a pool value |
| `HeapSegment` | `allocate` (the RECURSIVE `AllocFrom` is the scan loop and the new-page branch) and `write`, over `BufferManager` (INSTANCE) and `SlottedPage`; `SlotsAt` and `StoreAddSlot` reach the slot array through `buffer_frame` | pure operators |
| `TxnStorage` | the process: its variables, and one action per client call, with every buffer, heap and log call it makes inside the action | state machine |
| `AbstractStore` | what the kernel promises: committed rows, the rows of running transactions, and how each ended | abstract spec |
| `MC_TxnStorage` | the TLC instance and the refinement mapping `TxnStorage` → `AbstractStore` | MC module |

| `IntHistogram` | `IntHistogram` and the two `TableStats` estimates that do not read a histogram, over exact rationals | pure operators |
| `HistogramClient` | a caller as `HistogramTest` uses a histogram: construct, then `add_value` | state machine |
| `MC_HistogramClient` | the three histograms of `HistogramTest` | MC module |
| `TableStats` | `populate_table`, `SeqScan` (with `HeapSegment::read` as `ReadRecord`) and the `TableStats` constructor, one action per scan step | state machine |
| `MC_TableStats` | every table of up to three two-column tuples | MC module |
| `JoinOptimizer` | `order_joins`, one action per loop step, with every helper as an operator | state machine |
| `MC_JoinOptimizer` | the tables and joins of `OrderJoinsTest` | MC module |

The operator modules do not own variables. That lets a handler that makes
several calls into the buffer pool be one atomic step of `TxnStorage`, which
matches the single-threaded code.

**Representation choices.**
- A row is a model value (`next_val`). It stands for the bytes
  `table_id | field`, because `look` compares only the field.
- A page's payload is a function from offset to value. Bytes that were never
  written read as 0.
- A uint32 is held as its two's-complement value, so a wrapped `free_space`
  appears negative. `ULe` does the code's unsigned comparison.
- Slot offsets and lengths are truncated to 24 bits, and `slot_count` to 16
  bits.
- A page never written to the segment file reads as zeros. The file layer
  (`storage/file.h`) is not in the repository, so this is an assumption.
- `header.buffer_frame` is the page field `bf`: the id of the frame it
  points into, or `NullPtr` in an unwritten page. It is stored with the
  page bytes, so it goes to disk and comes back on a reload. `AddSlot`
  takes the slot array at that frame and returns the written array
  separately; `StoreAddSlot` puts it back into that frame, which is the
  page's own frame or a dead one.
- Writing through a stale pointer is a use of freed memory. The model
  takes the outcome the tested build produces. `discard_page` and
  `discard_all_pages` free a frame's 128-byte buffer and at once allocate
  that frame's new zeroed buffer of the same size. glibc hands the chunk
  just freed back to that allocation, so the pointer names the dead frame's
  new buffer. `page_counter_` never gives that frame to a page again, so a
  stale write reaches no page's bytes. It stays in the dead frame until the
  next discard of it.
- The ghost variables `writer` and `outcome` record who inserted each row and
  how each transaction `<<epoch, id>>` ended. Ids restart at 1 after `crash()`.

**Actions of `TxnStorage`.**
- `StartTxn`
- `InsertRow`: allocate, then write, then `add_modified_page`. The id is
  one of the client's started transactions or, when `StaleIds` is set, one
  it was given before a crash (`HeldTxns`). For an id not in the table,
  `add_modified_page`'s `operator[]` creates a non-started entry
  (`AddModifiedPage`); a later `start_txn` of that id replaces it.
- `InsertRowBufferFull`: a `fix_page` inside `insert_row` hits `exit(-1)`.
- `CommitTxn`
- `AbortTxn`
- `FlushAllPages`: the client's steal.
- `DiscardAllPages`: `FlushAllTest`'s `discard_all_pages`, allowed with
  `AllowSteal`.
- `Look`: the test's `look`. It fixes every page below `page_count_` in
  order, which loads frames and may end in `exit(-1)`. It then points
  `buffer_frame` at the frame and reads every slot below
  `first_free_slot`; a slot shorter than the 16-byte capacity ends the
  process in `read`'s `exit(0)`. Finally it unfixes each page dirty
  (`LookPage`, `LookFrom`). Its answer is `VisibleVals`.
- `Crash`: the test's `crash()`.
- `Shutdown`: the destructor's flush.
- `Terminated`: the stutter after the process is gone.

## 3. Runs

### The storage kernel

All runs use `MC_TxnStorage` with the geometry of the tests:

- 128-byte pages, a 32-byte header and 8-byte slots;
- 5 frames, so 4 are usable (4 frames in `interleaved`, to keep it fast);
- at most 2 pages, 2 or 3 transaction ids per epoch and 1 crash;
- record sizes {16, 40}.

With these sizes a page holds a mix of records, so a page fills up, the scan
moves on to page 1, a new page is appended, and the pool runs out of frames.
All of these happen in every run.

| Run | Client discipline | Checks | Result |
|---|---|---|---|
| `serial_nosteal` | 1 active txn, no mid-txn flush, clean end, 3 rows, 2 ids per epoch | `TypeOK`, `Atomicity` | pass (30k states) |
| `interleaved` | 2 active txns, flushes and discards, stale ids, any end, 2 rows, 2 ids per epoch | `CleanFrameMatchesDisk` | pass (1.4M states, about 2 min) |
| `abort_after_steal` | as the `TestAbort` test: flush, then abort | `Atomicity` | violated |
| `interleaved_commit_lost` | 2 txns writing one page | `Durability` | violated |
| `slot_free_space_wrap` | record sizes {16, 44} | `PageLayout` | violated |
| `buffer_full_early` | default | `BufferFullOnlyWhenFull` | violated |
| `reload_stale_slots` | as `serial_nosteal` | `StoreRefinement` | violated |

**Properties.**
- `Atomicity`: no row of an aborted or lost transaction is visible.
- `Durability`: every row of a committed transaction stays visible through
  later aborts, crashes and the end of the process.
- `StoreRefinement`: each step is a step of `AbstractStore`. Rows reach the
  committed store exactly at commit, a commit persists them, and nothing
  takes a committed row out again.
- `CleanFrameMatchesDisk`: a frame that is not dirty may be dropped without
  losing anything.
- `PageLayout`: the per-page invariant of spec §3, `first_free_slot` naming
  a free slot included. A page that only a reader's pointer repair has
  touched (all zeros but `buffer_frame`) is not formatted and is exempt.
- `BufferFullOnlyWhenFull`: spec §7.

The stale `buffer_frame` pointer breaks `Durability`, `StoreRefinement`
and `PageLayout` on its own. For that reason the two passing kernel runs
check only what holds despite it, and each of the three properties is
checked in a violation run.

Every property of a passing run has a mutant in `PROJECT.json`. A mutant is a
plausible bug in a mapped definition, defined just before it, that TLC catches.

**Findings** (details in `PROJECT.json`):
1. The stubbed `log_abort` leaves stolen rows of an aborted transaction
   visible.
2. `abort_txn` discards pages that other running transactions share. Their
   later commit writes nothing, and their rows are lost.
3. `addSlot`/`allocate` admit a record without counting its slot, and
   `free_space` wraps as a uint32.
4. `fix_page` reports "Out of space" with frames free. It has an off-by-one,
   and it never reuses discarded frames.
5. `allocate` calls `addSlot` on a page that `fix_page` reloaded, without
   repairing `header.buffer_frame`. The slot entry goes to the dead frame
   the page left, and `first_free_slot` is recomputed from that frame's
   zeroed slots, so it becomes 0 on the live page. `write` then reads the
   offset through the same pointer. The live page hides its earlier rows
   from `look` and `SeqScan`, and the next commit writes it to disk. The
   trace is: start, insert, commit, crash, start, insert, commit. A second insert
   through the stale pointer raises `first_free_slot` above a slot that
   was never written, and the next `look` reads it and ends in `read`'s
   `exit(0)`. `serial_nosteal` reaches that state.

`add_modified_page` accepts an id that is not in the table. After `crash()`,
`insert_row` under an id the client held before goes on instead of ending
the process, as spec §7 requires for an operation on a non-existent txn
id. The row of a transaction the crash ended then sits in the pool with no
transaction to discard it. `interleaved` lets the client do this
(`StaleIds`), but no run checks `Atomicity` with stale ids.
`FlushAllTest` reaches the same branch by passing `table_id` as the txn id.

The stubbed `recovery`, together with the destructor's flush, also makes the
rows of a transaction still running at process end durable. This is the same
missing undo as finding 1, so it has no run of its own.

**Fairness.** None is assumed for the kernel. It is a single-threaded
library driven by a client, and nothing in it must eventually happen by
itself. All kernel properties are safety properties. Deadlock checking is on: a process
that has ended stutters in `Terminated`, which is the only terminal behaviour.


### The optimiser

**Histograms (`MC_HistogramClient`).** `span` and every selectivity are
doubles in the code. Here they are exact rationals in lowest terms. The
code's `int` divisions (`h / ntups` in GT, the bucket index cast) stay
integer divisions. A division by zero is the value `Undefined`. This is
0/0 in double (NaN) or a trap in `int`. `umap` is a bag of bucket indices.
The client adds up to 3 values, chosen from the range edges on both sides,
just inside them, and the middle. Every selectivity is probed at every
integer from two below the range to two above it.

| Run | Histograms | Checks | Result |
|---|---|---|---|
| `hist_tests` | (10000, 0, 100), (10, -60, -10), (10, 1, 10) | `TypeOK`, `SelectivityInUnitRange`, `EqExactAtUnitSpan` | pass (495 states) |

**Table statistics (`MC_TableStats`).** The tables are every sequence of 0
to 3 tuples of two columns over {1, 2, 151}. The pages are 64 bytes, so two
tuples fit on a page and a table spans up to two pages. Each pool has 4
frames. There are 100 histogram bins; the range 1..151 gives a fractional
span. Each `has_next` call is part of one step, along with the per-tuple
updates of the constructor. `stats_build` checks `TypeOK`, `StatsMatchTable`
and `EstimatesInUnitRange`. It passes (7176 states).
- `StatsMatchTable`: once built, `num_tups` is the table's length, every
  histogram holds every tuple, and the bounds are the column extremes.
- `EstimatesInUnitRange`: every selectivity at every probe is in [0, 1], and
  every cardinality is in 0..num_tups. This includes the empty table, whose
  histograms use the `INT_MAX` sentinels.

**Join optimiser (`MC_JoinOptimizer`).** Table names are numbered in
`std::string` order, so the order of `std::set` is the code's order.
`enumerate_subsets` is modelled by its effect on the `std::set`s: every
choice of positions, the first node of each key within a choice, and the
first choice in `next_permutation` order among choices with equal keys.
Costs are integers, because the test's scan costs and cardinalities are
integral. `(int)(0.3*c1*c2)` is the floor of 3*c1*c2/10. The tables are
scaled down to stay inside TLC's integers:
- emp has 50 tuples and a filter of 1/10, dept 10, hobbies 100, hobby 10;
- the page counts are 5, 1, 10 and 1.

| Run | Inputs | Checks | Result |
|---|---|---|---|
| `join_order` | every list of 1–3 distinct nodes out of the test's three joins, an `LT` twin of emp–dept and a non-key `GT` join of dept and hobby | `TypeOK`, `PlansAreConnected`, `CachedPlanIsCheapest`, `ResultCoversJoins` | pass (2000 states) |
| `join_card_swap` | the test's three joins | `CardFollowsOrientation` | violated |
| `join_op_variants` | lists with an op-only twin | `ResultHasEveryJoin` | violated |

- `PlansAreConnected`: every cached plan orders exactly its join set, and
  each join meets a table already joined.
- `CachedPlanIsCheapest`: no cheaper extension of a cached subplan was
  passed over. This is checked for inputs with distinct keys.
- `ResultCoversJoins`: a connected input with distinct keys gets a plan of
  all its joins.

Findings 6 and 7 (details in `PROJECT.json`). One more disagreement was found
while modelling the histogram and is not checked by a run: `GT`'s guard `v <= min_v → 1` makes `LE(min_v)` 0 even when
every value equals `min_v`, so `LE < EQ`.

6. `compute_cost_and_card_of_subplan` swaps the key flags but not the
   cardinalities. The swapped hobbies–hobby join is cached with hobby's
   cardinality, and larger plans are costed with it.
7. `LogicalJoinNode` ignores `op` in `<` and `==`. Two predicates on the same
   columns become one node, and the result is shorter than the input, which
   `OrderJoinsTest` asserts against. Worse, the smaller set is planned again
   at a later size and overwrites a plan that larger plans were built on.
   For this reason `CachedPlanIsCheapest` is stated for inputs with distinct
   keys.

**Fairness.** None is assumed. `order_joins`, `add_value` and the
`TableStats` constructor are loops bounded by their input: every loop
counter is bounded by the number of joins, values or pages. No property
here is about progress; all are safety properties. `hist_*` runs turn
deadlock checking off, because the client stops after 3 values.
`stats_build` and `join_order` check deadlock. Their final states stutter,
and in `stats_build` the `fix_page` exit (a state with no successor) would
be reported.

## 4. What is not modelled, and the plan

- **`HeapSegment::read`'s capacity test as such.** `read` exits on
  `capacity > length`, the inverse of the spec. `Look` and `ReadRecord`
  model the code's test. The only slots that reach the exit are the
  never-written ones that the stale pointer leaves below
  `first_free_slot` (finding 5), and the spec's test would not have
  rejected them either. No run tells the two comparisons apart.
- **`commit_txn`/`abort_txn` on stale ids.** After a crash they would act
  on whatever transaction now holds the id. The modelled client commits and
  aborts only ids from the current epoch.
- **A page leaked by `crash()`.** `page_count_` survives `crash()`, so a
  page that a lost transaction appended and never flushed reads back as
  zeros. Its `free_space` field is 0, so `allocate` skips it from then on.
  The model reaches this state, and no row is exposed by it. No run
  checks the leak itself, which the code would fail.
- **The EQ-sum law of spec §8.** `span` leaves out the ceil of spec §4.6.
  Then one bucket covers more integers than the EQ estimate divides by. For
  (10, -60, -10) holding -60, the EQ estimates over the range sum to 1.18.
  The spec's lower bound ("within 1%" of 1) fails even with the ceil,
  because GT truncates. Neither bound has a run; `SelectivityInUnitRange`
  checks only that each estimate stays in [0, 1].
- **Floating-point rounding.** The histogram model uses exact rationals.
  Double rounding of `(v - min_v) / span` at a bucket edge could move a value
  to the neighbouring bucket; this is not modelled.
- **The optimiser with real table sizes.** The test's tables have tens of
  thousands of tuples. TLC's 32-bit integers cannot hold their costs, so the
  model scales them down and keeps their order.
- **`SeqScan`'s log manager.** The constructor builds a `LogManager` on the
  stack and hands its address to the heap segment. The object dangles after
  the constructor returns. `read` never touches it, so it has no effect.
- **`HeapPage`.** `heap_file.cc` holds a copy of `SlottedPage`'s header,
  slot and `addSlot` code under the name `HeapPage`. Nothing constructs or
  calls it.
- **Not modelled at all.** `TestFile` and the catalog are in-memory I/O
  glue. `populate_table`'s catalog write is read by nothing in `src`. The
  printing operators are not modelled either.
