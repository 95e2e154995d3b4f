---------------------------- MODULE HeapSegment ----------------------------
(***************************************************************************)
(* HeapSegment::allocate and HeapSegment::write of                         *)
(* src/src/heap/heap_file.cc as operators on a heap value                  *)
(*     [frames, counter, page_count]                                       *)
(* (the pool's frames and page_counter_, the segment's page_count_) and   *)
(* the disk.  Each returns the new heap value and a flag `full` that is   *)
(* TRUE when a fix_page on the way hit exit(-1) ("Out of space"); the     *)
(* composing module turns that into the process exiting.  A TID is the    *)
(* pair <<page within segment, slot>> that TID(page, slot) packs into 64  *)
(* bits and read/write unpack again.                                      *)
(***************************************************************************)
EXTENDS SlottedPage

CONSTANTS Capacity, NoPage

BM == INSTANCE BufferManager WITH ZeroData <- ZeroPage

\* The slot array getSlot and addSlot reach from the page in frame f:
\* header.buffer_frame + sizeof(header), the slots of the frame the stored
\* pointer names.  That is frame f itself while the page has stayed in
\* the frame it was formatted in (or was last repaired in).  After a
\* discard and reload it is the frame the page left: discard_page and
\* discard_all_pages free that buffer and at once allocate the frame's
\* new zeroed buffer of the same size, which glibc hands back at the same
\* address, and page_counter_ never gives that frame to a page again.
SlotsAt(frames, f) ==
    LET b == frames[f].data.bf
    IN  IF b \in DOMAIN frames THEN frames[b].data.slots ELSE NoCells

\* addSlot's result stored: the new header in frame f, the slot array at
\* the frame the pointer names (which may be f).
StoreAddSlot(frames, f, r) ==
    [[frames EXCEPT ![f].data = r.page] EXCEPT ![r.page.bf].data.slots = r.slots]

\* The allocation loop: pages p, p+1, ... below page_count are fixed in
\* turn (each may take a new frame; a skipped page is not unfixed, which
\* is a no-op in this pool) until one has free_space >= size; past the last
\* page a new page is appended, formatted in place and used.
RECURSIVE AllocFrom(_, _, _, _)
AllocFrom(h, disk, p, size) ==
    IF p < h.page_count
    THEN IF BM!FixFails(h.frames, h.counter, p)
         THEN [h EXCEPT !.full = TRUE]
         ELSE LET fx == BM!Fix(h.frames, h.counter, disk, p)
                  pg == fx.frames[fx.frame].data
              IN  IF ~FitsSlot(pg, size)
                  THEN AllocFrom([h EXCEPT !.frames = fx.frames,
                                           !.counter = fx.counter], disk, p + 1, size)
                  ELSE LET r == AddSlot(pg, SlotsAt(fx.frames, fx.frame), size)
                       IN  [h EXCEPT !.frames = BM!Unfix(StoreAddSlot(fx.frames,
                                                   fx.frame, r), fx.frame, TRUE),
                                     !.counter = fx.counter,
                                     !.tid = <<p, r.slot>>]
    ELSE \* page_count_++ happens before the fix of the new page
         IF BM!FixFails(h.frames, h.counter, p)
         THEN [h EXCEPT !.page_count = p + 1, !.full = TRUE]
         ELSE LET fx == BM!Fix(h.frames, h.counter, disk, p)
                  np == NewSlottedPage(fx.frames[fx.frame].data, fx.frame)
                  r  == AddSlot(np, np.slots, size)
              IN  [h EXCEPT !.frames = BM!Unfix(StoreAddSlot(fx.frames,
                                          fx.frame, r), fx.frame, TRUE),
                            !.counter = fx.counter,
                            !.page_count = p + 1,
                            !.tid = <<p, r.slot>>]

\* allocate(record_size)
Allocate(h, disk, size) ==
    AllocFrom([frames |-> h.frames, counter |-> h.counter,
               page_count |-> h.page_count, full |-> FALSE, tid |-> <<0, 0>>],
              disk, 0, size)

\* write(tid, record, record_size, txn_id): fix the page exclusively, read
\* the slot's offset through getSlot, save the before image, copy the record over the
\* payload at that offset, unfix dirty, then log_update, which is an empty
\* stub in log_manager.cc and so changes nothing.
Write(h, disk, tid, v) ==
    IF BM!FixFails(h.frames, h.counter, tid[1])
    THEN [h EXCEPT !.full = TRUE]
    ELSE LET fx  == BM!Fix(h.frames, h.counter, disk, tid[1])
             off == SlotAt([slots |-> SlotsAt(fx.frames, fx.frame)], tid[2]).off
         IN  [h EXCEPT !.frames = BM!Unfix([fx.frames EXCEPT
                                     ![fx.frame].data.cells = (off :> v) @@ @],
                                     fx.frame, TRUE),
                       !.counter = fx.counter]
=============================================================================
