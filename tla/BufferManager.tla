--------------------------- MODULE BufferManager ---------------------------
(***************************************************************************)
(* The frame pool of src/src/buffer/buffer_manager.cc as operators on a    *)
(* pool value: frames (frame id -> [page, dirty, data]) and page_counter,  *)
(* the next frame fix_page hands out.  Disk is a function from page to the *)
(* page's bytes.  The composing module owns the variables; every operator  *)
(* here returns the new pool or the new disk, so a handler that makes      *)
(* several buffer calls is one step of the composing module.               *)
(***************************************************************************)
EXTENDS Integers

CONSTANTS
    Capacity,   \* pool_.size(): frames in the pool
    NoPage,     \* INVALID_PAGE_ID
    ZeroData    \* the bytes of a zeroed frame (data.resize(page_size))

FrameIds == 0..(Capacity - 1)

NoFrame == -1                    \* INVALID_FRAME_ID

\* A frame as the constructor, discard_page and discard_all_pages leave it.
EmptyFrame == [page |-> NoPage, dirty |-> FALSE, data |-> ZeroData]

InitFrames == [f \in FrameIds |-> EmptyFrame]

\* get_frame_id_of_page: the first frame holding the page, else NoFrame.
FrameOf(frames, p) ==
    LET holders == {f \in FrameIds : frames[f].page = p}
    IN  IF holders = {} THEN NoFrame
        ELSE CHOOSE f \in holders : \A g \in holders : f <= g

\* Does fix_page(p) end in exit(-1) on "Out of space"?  It does when the
\* page is not resident and page_counter_, once incremented, reaches the
\* capacity.  Frames released by discard_page are never handed out again.
FixFails(frames, counter, p) ==
    FrameOf(frames, p) = NoFrame /\ counter + 1 >= Capacity

\* fix_page(p) when FixFails is false: the resident frame, or frame
\* page_counter_ loaded from disk with dirty cleared (read_frame).
Fix(frames, counter, disk, p) ==
    IF FrameOf(frames, p) # NoFrame
    THEN [frames |-> frames, counter |-> counter, frame |-> FrameOf(frames, p)]
    ELSE [frames |-> [frames EXCEPT ![counter] =
                         [page |-> p, dirty |-> FALSE, data |-> disk[p]]],
          counter |-> counter + 1,
          frame |-> counter]

\* Variant of Unfix that never records the frame as dirty.
UnfixDropsDirty(frames, f, isDirty) == frames

\* unfix_page(frame, is_dirty): dirty is sticky.
Unfix(frames, f, isDirty) ==
    [frames EXCEPT ![f].dirty = IF @ THEN @ ELSE isDirty]

\* write_frame(f) for every frame f in the set fs, in increasing frame
\* order: a page held dirty by several frames ends with the last one's data.
WriteFrames(frames, disk, fs) ==
    [q \in DOMAIN disk |->
        LET writers == {f \in fs : frames[f].page = q}
        IN  IF writers = {} THEN disk[q]
            ELSE frames[CHOOSE f \in writers :
                            \A g \in writers : g <= f].data]

\* Variant of FlushPages with the dirty test inverted.
FlushPagesCleanOnly(frames, disk, ps) ==
    WriteFrames(frames, disk,
                {FrameOf(frames, p) : p \in {q \in ps : FrameOf(frames, q) # NoFrame
                                                 /\ ~frames[FrameOf(frames, q)].dirty}})

\* flush_page(p) for each page of the set ps: write the page's frame back
\* if it is resident and dirty.  The dirty flag is left set.
FlushPages(frames, disk, ps) ==
    WriteFrames(frames, disk,
                {FrameOf(frames, p) : p \in {q \in ps : FrameOf(frames, q) # NoFrame
                                                 /\ frames[FrameOf(frames, q)].dirty}})

\* flush_all_pages and the destructor: write back every dirty frame.
FlushAll(frames, disk) ==
    WriteFrames(frames, disk, {f \in FrameIds : frames[f].dirty})

\* discard_page(p) for each page of the set ps: reset the page's frame.
\* page_counter_ is not touched, so the frame is lost to the pool.
DiscardPages(frames, ps) ==
    [f \in FrameIds |->
        IF frames[f].page \in ps /\ f = FrameOf(frames, frames[f].page)
        THEN EmptyFrame ELSE frames[f]]

\* discard_all_pages: reset every frame, page_counter_ unchanged.
DiscardAll(frames) == [f \in FrameIds |-> EmptyFrame]
=============================================================================
