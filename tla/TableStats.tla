---------------------------- MODULE TableStats ----------------------------
(***************************************************************************)
(* The TableStats constructor of src/src/optimizer/table_stats.cc, run    *)
(* over a table that TestUtils::populate_table (src/test/utils/utils.cc)  *)
(* wrote, read back through the SeqScan operator of                      *)
(* src/src/operators/seq_scan.cc.                                          *)
(*                                                                         *)
(* The table is written through a HeapSegment on a pool of its own,       *)
(* flushed, and then scanned through a second HeapSegment on the scan's   *)
(* own new BufferManager.  A tuple's bytes (num_fields ints) are one      *)
(* payload cell holding the tuple.                                         *)
(*                                                                         *)
(* The constructor is one call, but its two scan loops run one tuple per  *)
(* step here: each step is one has_next() (with every page it moves over  *)
(* and every fix, read and unfix it makes) and the loop body that         *)
(* follows it.  exit() inside the scan (pool full, or a record shorter    *)
(* than the read) leaves the process with no next state.                  *)
(***************************************************************************)
EXTENDS HeapSegment, Integers, Sequences

CONSTANTS
    Tables,         \* the tuple sequences populate_table may be given
    NumFields,      \* num_fields = num_cols of every table
    NumHistBins,    \* NUM_HIST_BINS
    IoCostPerPage,  \* io_cost_per_page
    MaxPages,       \* pages the segment file can hold in the model
    Probes          \* constants the estimates are asked about

IH == INSTANCE IntHistogram

VARIABLES
    table,       \* ghost: the tuples populate_table wrote
    disk,        \* the segment file: page -> page bytes
    num_pages,   \* the page count populate_table returned
    frames,      \* the scan's BufferManager: pool_
    counter,     \*                           page_counter_
    cursor,      \* [seg |-> _curr_segment, slot |-> _curr_slot]
    min_value,   \* per column
    max_value,   \* per column
    num_tups,
    histmap,     \* column -> IntHistogram
    phase        \* "pass1", "pass2" or "built"

vars == <<table, disk, num_pages, frames, counter, cursor, min_value,
          max_value, num_tups, histmap, phase>>

Pages == 0..(MaxPages - 1)

Fields == 0..(NumFields - 1)

\* sizeof(int) * num_fields, the record size of populate_table and the
\* read capacity of has_next.
TupleSize == 4 * NumFields

ZeroDisk == [p \in Pages |-> ZeroPage]

----------------------------------------------------------------------------
(* TestUtils::populate_table: allocate a slot for each tuple, write it,   *)
(* then flush_all_pages.  A tuple is a sequence indexed from 1; column i   *)
(* is tuple[i + 1].                                                        *)

RECURSIVE PopulateFrom(_, _)
PopulateFrom(h, ts) ==
    IF ts = <<>> THEN h
    ELSE LET a == Allocate(h, ZeroDisk, TupleSize)
             w == Write(a, ZeroDisk, a.tid, Head(ts))
         IN  IF a.full THEN a
             ELSE IF w.full THEN w
             ELSE PopulateFrom(w, Tail(ts))

Populate(ts) ==
    LET h == PopulateFrom([frames |-> BM!InitFrames, counter |-> 0,
                           page_count |-> 0, full |-> FALSE], ts)
    IN  [disk |-> BM!FlushAll(h.frames, ZeroDisk),
         pages |-> h.page_count, full |-> h.full]

----------------------------------------------------------------------------
(* SeqScan                                                                 *)

\* HeapSegment::read(tid, record, capacity) on a page the scan has already
\* fixed: read's own fix_page finds the resident frame and its
\* unfix_page(frame, false) leaves the dirty bit as it was, so the pool is
\* unchanged.  capacity <= length copies `capacity` bytes from the slot's
\* offset; otherwise read exits.
ReadRecord(pg, slot_id, capacity) ==
    LET slot == SlotAt(pg, slot_id)
    IN  IF ULe(capacity, slot.len)
        THEN [ok |-> TRUE, record |-> CellAt(pg, slot.off)]
        ELSE [ok |-> FALSE, record |-> <<>>]

\* Variant of ScanReset that leaves the page cursor where it was.
ScanResetKeepsSegment(c) == [c EXCEPT !.slot = 0]

\* open() and reset(): back to page 0, slot 0.
ScanReset(c) == [c EXCEPT !.seg = 0, !.slot = 0]

\* Variant of HasNext that does not advance _curr_slot past the tuple it
\* returns.
RECURSIVE HasNextSameSlot(_, _, _)
HasNextSameSlot(s, dsk, np) ==
    IF s.seg >= np THEN [s EXCEPT !.found = FALSE]
    ELSE IF BM!FixFails(s.frames, s.counter, s.seg)
    THEN [s EXCEPT !.exit = TRUE]
    ELSE LET fx   == BM!Fix(s.frames, s.counter, dsk, s.seg)
             pg   == fx.frames[fx.frame].data
             rd   == ReadRecord(pg, s.slot, TupleSize)
             s2   == [s EXCEPT !.frames = BM!Unfix([fx.frames EXCEPT
                                   ![fx.frame].data.bf = fx.frame], fx.frame, TRUE),
                               !.counter = fx.counter]
         IN  IF s.slot < pg.first_free_slot
             THEN IF ~rd.ok THEN [s EXCEPT !.exit = TRUE]
                  ELSE [s2 EXCEPT !.found = TRUE, !.tuple = rd.record]
             ELSE HasNextSameSlot([s2 EXCEPT !.seg = @ + 1, !.slot = 0], dsk, np)

\* has_next() from scan state s = [frames, counter, seg, slot].  Each page
\* below num_pages is fixed (a new frame the first time) and its
\* header.buffer_frame pointed at that frame; a slot below the
\* header's first_free_slot is read with HeapSegment::read (which fixes the
\* same resident frame, checks capacity <= length, copies and unfixes
\* clean), the slot is advanced, the frame unfixed dirty, and the result
\* is TRUE.  A page with no slot left is unfixed dirty and the scan moves
\* to slot 0 of the next page.  Past the last page the result is FALSE.
RECURSIVE HasNext(_, _, _)
HasNext(s, dsk, np) ==
    IF s.seg >= np THEN [s EXCEPT !.found = FALSE]
    ELSE IF BM!FixFails(s.frames, s.counter, s.seg)
    THEN [s EXCEPT !.exit = TRUE]
    ELSE LET fx   == BM!Fix(s.frames, s.counter, dsk, s.seg)
             pg   == fx.frames[fx.frame].data
             rd   == ReadRecord(pg, s.slot, TupleSize)
             s2   == [s EXCEPT !.frames = BM!Unfix([fx.frames EXCEPT
                                   ![fx.frame].data.bf = fx.frame], fx.frame, TRUE),
                               !.counter = fx.counter]
         IN  IF s.slot < pg.first_free_slot
             THEN IF ~rd.ok THEN [s EXCEPT !.exit = TRUE]
                  ELSE [s2 EXCEPT !.slot = @ + 1, !.found = TRUE,
                                  !.tuple = rd.record]
             ELSE HasNext([s2 EXCEPT !.seg = @ + 1, !.slot = 0], dsk, np)

\* One has_next() call on the current variables.
Scan == HasNext([frames |-> frames, counter |-> counter, seg |-> cursor.seg,
                 slot |-> cursor.slot, found |-> FALSE, exit |-> FALSE,
                 tuple |-> <<>>],
                disk, num_pages)

\* The scan's pool after a has_next() that did not exit.
ScanPool(r) ==
    /\ ~r.exit
    /\ frames' = r.frames
    /\ counter' = r.counter

CursorOf(r) == [seg |-> r.seg, slot |-> r.slot]

----------------------------------------------------------------------------
(* TableStats(table_id, io_cost_per_page, num_pages, num_fields)           *)

\* The bounds each column starts from: max_value = -INT_MAX,
\* min_value = INT_MAX.
InitialBoundsZero == [lo |-> 0, hi |-> 0]

InitialBounds == [lo |-> IH!INT_MAX, hi |-> -IH!INT_MAX]

\* The table is written by populate_table; the constructor makes the
\* SeqScan (with its own empty pool) and opens it.
Init ==
    /\ \E ts \in Tables :
          LET p == Populate(ts)
          IN  /\ ~p.full
              /\ table = ts
              /\ disk = p.disk
              /\ num_pages = p.pages
    /\ frames = BM!InitFrames
    /\ counter = 0
    /\ cursor = ScanReset([seg |-> 0, slot |-> 0])
    /\ min_value = [i \in Fields |-> InitialBounds.lo]
    /\ max_value = [i \in Fields |-> InitialBounds.hi]
    /\ num_tups = 0
    /\ histmap = <<>>
    /\ phase = "pass1"

\* First loop: has_next() is true; widen each column's min and max and
\* count the tuple.
FirstPassTuple ==
    /\ phase = "pass1"
    /\ Scan.found
    /\ ScanPool(Scan)
    /\ cursor' = CursorOf(Scan)
    /\ max_value' = [i \in Fields |-> IH!Max({max_value[i], Scan.tuple[i + 1]})]
    /\ min_value' = [i \in Fields |-> IH!Min({min_value[i], Scan.tuple[i + 1]})]
    /\ num_tups' = num_tups + 1
    /\ UNCHANGED <<table, disk, num_pages, histmap, phase>>

\* First loop ends: scan.reset(), then one IntHistogram(NUM_HIST_BINS,
\* min_value[i], max_value[i]) per column.
FirstPassEnd ==
    /\ phase = "pass1"
    /\ ~Scan.found
    /\ ScanPool(Scan)
    /\ cursor' = ScanReset(CursorOf(Scan))
    /\ histmap' = [i \in Fields |->
                     IH!NewHistogram(NumHistBins, min_value[i], max_value[i])]
    /\ phase' = "pass2"
    /\ UNCHANGED <<table, disk, num_pages, min_value, max_value, num_tups>>

\* Second loop: has_next() is true; add_value((int)tup[i]) per column.
SecondPassTuple ==
    /\ phase = "pass2"
    /\ Scan.found
    /\ ScanPool(Scan)
    /\ cursor' = CursorOf(Scan)
    /\ histmap' = [i \in Fields |-> IH!AddValue(histmap[i], Scan.tuple[i + 1])]
    /\ UNCHANGED <<table, disk, num_pages, min_value, max_value, num_tups, phase>>

\* Second loop ends: scan.close() deletes the scan's BufferManager, whose
\* destructor writes back every frame has_next left dirty.
SecondPassEnd ==
    /\ phase = "pass2"
    /\ ~Scan.found
    /\ ScanPool(Scan)
    /\ cursor' = CursorOf(Scan)
    /\ disk' = BM!FlushAll(Scan.frames, disk)
    /\ phase' = "built"
    /\ UNCHANGED <<table, num_pages, min_value, max_value, num_tups, histmap>>

\* The constructed TableStats only answers estimates, which change nothing.
Built ==
    /\ phase = "built"
    /\ UNCHANGED vars

Next ==
    \/ FirstPassTuple
    \/ FirstPassEnd
    \/ SecondPassTuple
    \/ SecondPassEnd
    \/ Built

Spec == Init /\ [][Next]_vars

----------------------------------------------------------------------------
(* The estimates of the built TableStats.                                  *)

\* estimate_selectivity(field, op, constant): delegate to the histogram.
EstimateSelectivity(field, op, constant) ==
    IH!EstimateSelectivity(histmap[field], op, constant)

----------------------------------------------------------------------------
(* Properties                                                              *)

TypeOK ==
    /\ phase \in {"pass1", "pass2", "built"}
    /\ num_pages \in 0..MaxPages
    /\ counter \in 0..(Capacity - 1)
    /\ cursor.seg \in 0..num_pages
    /\ num_tups \in 0..Len(table)
    /\ DOMAIN histmap \in {{}, Fields}

\* The values of column i over the tuples populate_table wrote.
ColumnValues(i) == {table[k][i + 1] : k \in 1..Len(table)}

\* Once built, the statistics describe exactly the table on disk: the
\* first scan counted every tuple and found each column's true min and
\* max, and the second scan, after reset(), fed every tuple again to every
\* histogram.  Both scans walk every page and slot through the scan's own
\* pool, so this covers has_next's page and slot cursor, reset() and the
\* populate_table writes they read back.
StatsMatchTable ==
    phase = "built" =>
        /\ num_tups = Len(table)
        /\ \A i \in Fields :
              /\ histmap[i].ntups = num_tups
              /\ table # <<>> =>
                    /\ min_value[i] = IH!Min(ColumnValues(i))
                    /\ max_value[i] = IH!Max(ColumnValues(i))

\* Spec 4.6 and 4.7: every selectivity the built statistics give, for every
\* column, operator and probe value, is defined and in [0, 1], so that
\* estimate_table_cardinality(sel) lies in [0, num_tups].  For an empty
\* table this rests on the INT_MAX / -INT_MAX bounds the constructor
\* starts from: they make every operator take a range guard instead of
\* dividing by ntups = 0.
EstimatesInUnitRange ==
    phase = "built" =>
        \A i \in Fields, op \in IH!PredicateTypes, v \in Probes :
            LET sel == EstimateSelectivity(i, op, v)
            IN  /\ IH!InUnitRange(sel)
                /\ IH!EstimateTableCardinality(num_tups, sel) \in 0..num_tups
=============================================================================
