----------------------------- MODULE TxnStorage -----------------------------
(***************************************************************************)
(* The storage kernel as one single-threaded process: buffer pool          *)
(* (BufferManager), one heap segment (HeapSegment over SlottedPage), the   *)
(* TransactionManager of src/src/transaction/transaction_manager.cc and    *)
(* the LogManager of src/src/log/log_manager.cc, every method of which is  *)
(* an empty stub (log_txn_begin, log_update, log_commit, log_abort,        *)
(* log_checkpoint, recovery, rollback_txn): calls to them change nothing.  *)
(*                                                                         *)
(* The client is the one of src/test/unit/log/log_manager_test.cc: it      *)
(* starts transactions, inserts rows (allocate + write + add_modified_page *)
(* in one call of insert_row), commits, aborts, flushes all pages to       *)
(* "defeat NO-STEAL", simulates a crash with crash(), and ends the process *)
(* (the BufferManager destructor flushes every dirty frame).               *)
(*                                                                         *)
(* Ghost variables record who wrote each row and how each transaction      *)
(* ended, so that atomicity and durability can be stated.  A transaction   *)
(* is named <<epoch, id>> because ids restart at 1 after every crash.      *)
(***************************************************************************)
EXTENDS HeapSegment, Sequences, FiniteSets

CONSTANTS
    RecordSizes,  \* sizes the client inserts (the tests use 16 = 2 x uint64)
    MaxPages,     \* bound on the segment's page_count_
    MaxInserts,   \* bound on rows inserted in a behaviour
    MaxTxns,      \* bound on transaction ids issued per epoch
    MaxCrashes,   \* bound on simulated crashes
    MaxActive,    \* client discipline: at most this many started txns at once
    AllowSteal,   \* client may call flush_all_pages with txns active
    CleanShutdown,\* client ends the process only with no txn active
    StaleIds      \* client may call insert_row with an id kept from before a crash

ASSUME RecordSizes \subseteq 1..(PageSize - HeaderSize - SlotSize)

VARIABLES
    disk,          \* segment file: page -> page bytes
    frames,        \* BufferManager::pool_
    page_counter,  \* BufferManager::page_counter_
    page_count,    \* HeapSegment::page_count_
    txn_counter,   \* TransactionManager::transaction_counter_
    txns,          \* TransactionManager::transaction_table_: id -> [started, modified]
    status,        \* "running", or how the process ended
    \* ghost state
    epoch,         \* number of simulated crashes so far
    next_val,      \* the value the next inserted row carries
    writer,        \* row value -> <<epoch, txn id>> that inserted it
    outcome        \* <<epoch, txn id>> -> "active" | "committed" | "aborted" | "lost"

vars == <<disk, frames, page_counter, page_count, txn_counter, txns, status,
          epoch, next_val, writer, outcome>>

Pages == 0..(MaxPages - 1)
TxnIds == 1..MaxTxns
Statuses == {"running", "buffer_full", "read_exit", "stopped"}

Started == {t \in DOMAIN txns : txns[t].started}

Heap == [frames |-> frames, counter |-> page_counter, page_count |-> page_count]

(***************************************************************************)
(* What a reader sees: the test's look() reads every page below            *)
(* page_count_ through the pool.  Once the process has ended only the      *)
(* disk is left.                                                           *)
(***************************************************************************)
PageView(p) ==
    IF status = "running" /\ BM!FrameOf(frames, p) # BM!NoFrame
    THEN frames[BM!FrameOf(frames, p)].data
    ELSE disk[p]

VisibleVals == UNION {PageValues(PageView(p)) : p \in 0..(page_count - 1)}

DurableVals == UNION {PageValues(disk[p]) : p \in 0..(page_count - 1)}

TypeOK ==
    /\ DOMAIN disk = Pages
    /\ DOMAIN frames = BM!FrameIds
    /\ \A f \in BM!FrameIds : frames[f].page \in Pages \cup {NoPage}
                              /\ frames[f].dirty \in BOOLEAN
    /\ page_counter \in 0..(Capacity - 1)
    /\ page_count \in 0..MaxPages
    /\ txn_counter \in 0..MaxTxns
    /\ DOMAIN txns \subseteq TxnIds
    /\ 1..txn_counter \subseteq DOMAIN txns
    /\ \A t \in DOMAIN txns : txns[t].started \in BOOLEAN
                              /\ (txns[t].started => t <= txn_counter)
                              /\ txns[t].modified \in Seq(Pages)
    /\ status \in Statuses
    /\ next_val \in 1..(MaxInserts + 1)
    /\ DOMAIN writer = 1..(next_val - 1)
    /\ \A g \in DOMAIN outcome :
          outcome[g] \in {"active", "committed", "aborted", "lost"}

Init ==
    /\ disk = [p \in Pages |-> ZeroPage]
    /\ frames = BM!InitFrames
    /\ page_counter = 0
    /\ page_count = 0
    /\ txn_counter = 0
    /\ txns = <<>>
    /\ status = "running"
    /\ epoch = 0
    /\ next_val = 1
    /\ writer = <<>>
    /\ outcome = <<>>

\* TransactionManager::start_txn: ++transaction_counter_, a started entry
\* in the table (replacing any entry add_modified_page made for that id),
\* log_txn_begin (a stub).
StartTxn ==
    /\ status = "running"
    /\ txn_counter < MaxTxns
    /\ Cardinality(Started) < MaxActive
    /\ txn_counter' = txn_counter + 1
    /\ txns' = (txn_counter + 1 :> [started |-> TRUE, modified |-> <<>>]) @@ txns
    /\ outcome' = outcome @@ (<<epoch, txn_counter + 1>> :> "active")
    /\ UNCHANGED <<disk, frames, page_counter, page_count, status, epoch,
                   next_val, writer>>

\* Model bound: allocate(size) may append a page only below MaxPages.  It
\* appends one exactly when no page below page_count_ has room, as seen
\* through the pool.
WithinPageBound(size) ==
    \/ page_count < MaxPages
    \/ \E p \in 0..(page_count - 1) : FitsSlot(PageView(p), size)

\* The transactions whose id the client may pass to insert_row: its
\* started ones and, with StaleIds, any it was given before a crash, whose
\* id the reset counter may since have handed out again.
HeldTxns ==
    {<<epoch, t>> : t \in Started}
        \cup {g \in DOMAIN outcome : StaleIds /\ g[1] < epoch}

\* add_modified_page(t, p): transaction_table_[t] default-constructs a
\* non-started entry when t is not in the table, then appends p.
AddModifiedPage(tx, t, p) ==
    IF t \in DOMAIN tx
    THEN [tx EXCEPT ![t].modified = Append(@, p)]
    ELSE (t :> [started |-> FALSE, modified |-> <<p>>]) @@ tx

\* insert_row(heap_segment, txn_manager, t, ...): allocate(size),
\* write(tid, row, size, t), add_modified_page(t, page of tid).  Every
\* fix_page on the way finds a frame.
InsertRow(g, size) ==
    LET t == g[2]
        a == Allocate(Heap, disk, size)
        w == Write(a, disk, a.tid, next_val)
    IN  /\ status = "running"
        /\ g \in HeldTxns
        /\ next_val <= MaxInserts
        /\ WithinPageBound(size)
        /\ ~a.full /\ ~w.full
        /\ frames' = w.frames
        /\ page_counter' = w.counter
        /\ page_count' = a.page_count
        /\ txns' = AddModifiedPage(txns, t, a.tid[1])
        /\ next_val' = next_val + 1
        /\ writer' = writer @@ (next_val :> g)
        /\ UNCHANGED <<disk, txn_counter, status, epoch, outcome>>

\* The same call when a fix_page inside allocate or write finds no frame:
\* exit(-1).  No destructor runs; memory is lost, the disk stays.
InsertRowBufferFull(g, size) ==
    LET a == Allocate(Heap, disk, size)
        w == Write(a, disk, a.tid, next_val)
    IN  /\ status = "running"
        /\ g \in HeldTxns
        /\ next_val <= MaxInserts
        /\ WithinPageBound(size)
        /\ a.full \/ w.full
        /\ status' = "buffer_full"
        /\ outcome' = [h \in DOMAIN outcome |->
                         IF outcome[h] = "active" THEN "lost" ELSE outcome[h]]
        /\ UNCHANGED <<disk, frames, page_counter, page_count, txn_counter,
                       txns, epoch, next_val, writer>>

\* Variant of ModifiedPages whose loop stops one entry early.
ModifiedPagesButLast(t) ==
    {txns[t].modified[i] : i \in 1..(Len(txns[t].modified) - 1)}

\* The pages the loops of commit_txn and abort_txn visit: every entry of
\* txn.modified_pages_ (duplicates visit the same page again, to no effect).
ModifiedPages(t) == {txns[t].modified[i] : i \in DOMAIN txns[t].modified}

\* commit_txn(t) on a started txn: flush_page for every modified page
\* (FORCE), log_commit (a stub), started = false.  On a txn no longer
\* started it does nothing.
CommitTxn(t) ==
    /\ status = "running"
    /\ t \in DOMAIN txns
    /\ IF txns[t].started
       THEN /\ disk' = BM!FlushPages(frames, disk, ModifiedPages(t))
            /\ txns' = [txns EXCEPT ![t].started = FALSE]
            /\ outcome' = [outcome EXCEPT ![<<epoch, t>>] = "committed"]
       ELSE UNCHANGED <<disk, txns, outcome>>
    /\ UNCHANGED <<frames, page_counter, page_count, txn_counter, status,
                   epoch, next_val, writer>>

\* abort_txn(t) on a started txn: discard_page for every modified page
\* (relying on NO-STEAL), log_abort (a stub: no rollback), started = false.
AbortTxn(t) ==
    /\ status = "running"
    /\ t \in DOMAIN txns
    /\ IF txns[t].started
       THEN /\ frames' = BM!DiscardPages(frames, ModifiedPages(t))
            /\ txns' = [txns EXCEPT ![t].started = FALSE]
            /\ outcome' = [outcome EXCEPT ![<<epoch, t>>] = "aborted"]
       ELSE UNCHANGED <<frames, txns, outcome>>
    /\ UNCHANGED <<disk, page_counter, page_count, txn_counter, status,
                   epoch, next_val, writer>>

\* buffer_manager.flush_all_pages() called by the client while txns run.
FlushAllPages ==
    /\ status = "running"
    /\ AllowSteal
    /\ disk' = BM!FlushAll(frames, disk)
    /\ UNCHANGED <<frames, page_counter, page_count, txn_counter, txns, status,
                   epoch, next_val, writer, outcome>>

\* Variant of Crash whose transaction_manager.reset leaves the table.
CrashKeepsTable ==
    /\ status = "running"
    /\ epoch < MaxCrashes
    /\ frames' = BM!DiscardAll(BM!DiscardAll(frames))
    /\ txn_counter' = 0
    /\ epoch' = epoch + 1
    /\ outcome' = [g \in DOMAIN outcome |->
                     IF outcome[g] = "active" THEN "lost" ELSE outcome[g]]
    /\ UNCHANGED <<disk, page_counter, page_count, status, next_val, writer, txns>>

\* crash(): discard_all_pages; log_manager.reset (clears the stub's
\* in-memory maps); transaction_manager.reset (discard_all_pages again,
\* counter = 0, table cleared); log_manager.recovery (a stub).  The heap
\* segment object, and so page_count_, survives; page_counter_ does too.
Crash ==
    /\ status = "running"
    /\ epoch < MaxCrashes
    /\ frames' = BM!DiscardAll(BM!DiscardAll(frames))
    /\ txn_counter' = 0
    /\ txns' = <<>>
    /\ epoch' = epoch + 1
    /\ outcome' = [g \in DOMAIN outcome |->
                     IF outcome[g] = "active" THEN "lost" ELSE outcome[g]]
    /\ UNCHANGED <<disk, page_counter, page_count, status, next_val, writer>>

\* buffer_manager.discard_all_pages() called by the client, as
\* FlushAllTest does after flush_all_pages: every frame reset, dirty or not.
DiscardAllPages ==
    /\ status = "running"
    /\ AllowSteal
    /\ frames' = BM!DiscardAll(frames)
    /\ UNCHANGED <<disk, page_counter, page_count, txn_counter, txns, status,
                   epoch, next_val, writer, outcome>>

\* The test's read capacity: tuple_size = 2 * sizeof(uint64_t).
LookCapacity == 16

\* One page of look(): fix_page(p, true), which may end in exit(-1);
\* header.buffer_frame set to the frame; a heap_segment.read of every slot
\* below first_free_slot (a fix of the now resident page, getSlot through
\* the repaired pointer, exit(0) when capacity > length, unfix_page(frame,
\* false): no change); unfix_page(frame, true).  st is [frames, counter,
\* full, exit].
LookPage(st, p) ==
    IF st.full \/ st.exit THEN st
    ELSE IF BM!FixFails(st.frames, st.counter, p) THEN [st EXCEPT !.full = TRUE]
    ELSE LET fx == BM!Fix(st.frames, st.counter, disk, p)
             pg == [fx.frames[fx.frame].data EXCEPT !.bf = fx.frame]
         IN  IF \E i \in 0..(pg.first_free_slot - 1) :
                    ~ULe(LookCapacity, SlotAt(pg, i).len)
             THEN [st EXCEPT !.exit = TRUE]
             ELSE [st EXCEPT !.frames = BM!Unfix([fx.frames EXCEPT
                                         ![fx.frame].data = pg], fx.frame, TRUE),
                             !.counter = fx.counter]

\* look()'s loop over the pages below page_count_, in order.
RECURSIVE LookFrom(_, _)
LookFrom(st, p) ==
    IF p >= page_count THEN st ELSE LookFrom(LookPage(st, p), p + 1)

\* look(heap_segment, ..., field, should_be_present): the answer depends
\* only on the rows read (VisibleVals); the pool is changed by the fixes.
\* An exit(-1) in a fix or an exit(0) in a read ends the process.
Look ==
    LET st == LookFrom([frames |-> frames, counter |-> page_counter,
                        full |-> FALSE, exit |-> FALSE], 0)
    IN  /\ status = "running"
        /\ IF st.full \/ st.exit
           THEN /\ status' = IF st.full THEN "buffer_full" ELSE "read_exit"
                /\ outcome' = [h \in DOMAIN outcome |->
                                 IF outcome[h] = "active" THEN "lost" ELSE outcome[h]]
                /\ UNCHANGED <<frames, page_counter>>
           ELSE /\ frames' = st.frames
                /\ page_counter' = st.counter
                /\ UNCHANGED <<status, outcome>>
        /\ UNCHANGED <<disk, page_count, txn_counter, txns, epoch, next_val, writer>>

\* The process ends normally: ~BufferManager writes every dirty frame.
Shutdown ==
    /\ status = "running"
    /\ CleanShutdown => Started = {}
    /\ disk' = BM!FlushAll(frames, disk)
    /\ status' = "stopped"
    /\ outcome' = [g \in DOMAIN outcome |->
                     IF outcome[g] = "active" THEN "lost" ELSE outcome[g]]
    /\ UNCHANGED <<frames, page_counter, page_count, txn_counter, txns,
                   epoch, next_val, writer>>

\* Once the process is gone nothing more happens.
Terminated ==
    /\ status # "running"
    /\ UNCHANGED vars

Next ==
    \/ StartTxn
    \/ \E g \in HeldTxns, s \in RecordSizes : InsertRow(g, s)
    \/ \E g \in HeldTxns, s \in RecordSizes : InsertRowBufferFull(g, s)
    \/ \E t \in TxnIds : CommitTxn(t)
    \/ \E t \in TxnIds : AbortTxn(t)
    \/ FlushAllPages
    \/ Crash
    \/ DiscardAllPages
    \/ Look
    \/ Shutdown
    \/ Terminated

Spec == Init /\ [][Next]_vars

(***************************************************************************)
(* Properties                                                              *)
(***************************************************************************)

\* Atomicity (spec section 8): no row written by a transaction that aborted,
\* or that was still running when the process crashed or ended, is seen by
\* a reader.  abort_txn relies on discard_page plus log_abort's rollback;
\* crash() relies on recovery's undo.
Atomicity ==
    \A v \in VisibleVals : outcome[writer[v]] \notin {"aborted", "lost"}

\* Durability (spec section 8): every row of a committed transaction stays
\* visible, through later aborts of other transactions, crashes and the
\* end of the process.  commit_txn relies on flush_page of every modified
\* page (FORCE).
Durability ==
    \A v \in DOMAIN writer :
        outcome[writer[v]] = "committed" => v \in VisibleVals

\* A resident frame that is not dirty holds exactly the page's disk bytes,
\* so dropping it (discard_page, discard_all_pages, exit) loses nothing.
\* This is what unfix_page's sticky dirty flag and read_frame must give.
CleanFrameMatchesDisk ==
    \A f \in BM!FrameIds :
        (frames[f].page # NoPage /\ ~frames[f].dirty)
            => frames[f].data = disk[frames[f].page]

\* A page SlottedPage's constructor has formatted: its bytes are not all
\* zero apart from a buffer_frame pointer a reader may have set.
Formatted(pg) == [pg EXCEPT !.bf = NullPtr] # ZeroPage

\* Every formatted page, in the pool or on disk, keeps the slotted-page
\* layout invariant after any sequence of addSlot calls.
PageLayout ==
    /\ \A f \in BM!FrameIds : frames[f].page # NoPage /\ Formatted(frames[f].data)
                             => LayoutOK(frames[f].data)
    /\ \A p \in Pages : Formatted(disk[p]) => LayoutOK(disk[p])

\* Specification section 7: fix_page fails with "buffer full" only when
\* every frame holds a page.
BufferFullOnlyWhenFull ==
    status = "buffer_full" => \A f \in BM!FrameIds : frames[f].page # NoPage
=============================================================================
