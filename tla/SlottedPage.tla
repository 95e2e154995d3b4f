---------------------------- MODULE SlottedPage ----------------------------
(***************************************************************************)
(* The slotted-page layout of src/src/storage/slotted_page.cc: a header at *)
(* byte 0, an array of 64-bit slots after it, record payloads growing down *)
(* from the end of the page.  A page is a record of its header fields, its *)
(* slot array (a function from slot index to the decoded slot value) and  *)
(* its payload cells (a function from byte offset to the record value      *)
(* stored at that offset; bytes never written read as 0).                  *)
(*                                                                         *)
(* The header also stores a raw pointer, header.buffer_frame, to the      *)
(* frame buffer the page was formatted in; addSlot and getSlot reach the  *)
(* slot array through it.  The page keeps it as field bf: the id of the   *)
(* frame it names, or NullPtr in the zero bytes of a page never written.  *)
(*                                                                         *)
(* Header fields are uint32 (data_start, free_space) and uint16            *)
(* (slot_count, first_free_slot); the slot packs a 24-bit offset and a     *)
(* 24-bit length.  TLC integers are 32-bit signed, so a uint32 is held as  *)
(* its two's-complement value: u < 2^31 as u, u >= 2^31 as u - 2^32.       *)
(* Sums and differences of such values are then exact modulo 2^32 as long  *)
(* as they stay within +-2^31, which page-sized operands do, and the       *)
(* unsigned comparisons of the code are made by ULe below.                 *)
(***************************************************************************)
EXTENDS Integers, TLC

CONSTANTS
    PageSize,      \* bytes per page (the tests use BufferManager(128, 10))
    HeaderSize,    \* sizeof(SlottedPage::Header) = 32 on LP64
    SlotSize       \* sizeof(SlottedPage::Slot) = 8

ASSUME PageSize > HeaderSize /\ SlotSize > 0

Word16 == 2^16
Word24 == 2^24

\* a <= b on the uint32 values that a and b hold: a negative value holds
\* a number >= 2^31, larger than every non-negative one.
ULe(a, b) == IF (a < 0) = (b < 0) THEN a <= b ELSE b < 0

\* A decoded slot: tombstone byte (bits 56-63), offset (bits 24-47) and
\* length (bits 0-23).  The indirection byte is always 0 and is left out.
ZeroSlot == [tomb |-> 0, off |-> 0, len |-> 0]

NoCells == [o \in {} |-> 0]

NullPtr == -1

\* The bytes of a page never written: every header field and slot is zero.
ZeroPage == [slot_count |-> 0, first_free_slot |-> 0, data_start |-> 0,
             free_space |-> 0, bf |-> NullPtr, slots |-> NoCells, cells |-> NoCells]

SlotAt(pg, i) == IF i \in DOMAIN pg.slots THEN pg.slots[i] ELSE ZeroSlot

CellAt(pg, off) == IF off \in DOMAIN pg.cells THEN pg.cells[off] ELSE 0

\* SlottedPage(buffer, page_size) run in place on the buffer of frame f:
\* Header(buffer, page_size) sets buffer_frame to that buffer.  The slot
\* array and payload bytes are left as they were.
NewSlottedPage(pg, f) ==
    [pg EXCEPT !.bf = f,
               !.first_free_slot = 0,
               !.data_start = PageSize,
               !.slot_count = 0,
               !.free_space = PageSize - HeaderSize]

\* Can addSlot(size) proceed, or does it hit exit(0) on
\* "No space in page to add slot"?
FitsSlot(pg, size) == ULe(size, pg.free_space)

\* "Update free space": data_start - slot_count * sizeof(Slot) -
\* sizeof(header), computed in uint32.
FreeSpaceAfter(ds, sc) == ds - sc * SlotSize - HeaderSize

\* The scan for the next first_free_slot: the lowest slot whose 64-bit
\* value is 0, else slot_count.
FirstFreeSlot(slots, sc) ==
    LET zeros == {i \in 0..(sc - 1) : i \notin DOMAIN slots \/ slots[i] = ZeroSlot}
    IN  IF zeros = {} THEN sc
        ELSE CHOOSE i \in zeros : \A j \in zeros : i <= j

\* addSlot(size) on a page where FitsSlot holds.  arr is the slot array
\* at header.buffer_frame + sizeof(header), which the new slot is written
\* into and the first_free_slot scan reads.  Returns the new header (the
\* page with its own slots untouched), the written array and the
\* allocated slot index (the TID's slot).
AddSlot(pg, arr, size) ==
    LET offset == pg.data_start - size    \* uint64, truncated to uint32 below
        ds     == offset                  \* header.data_start = offset
        val    == [tomb |-> 255, off |-> offset % Word24, len |-> size % Word24]
        sc     == IF pg.first_free_slot = pg.slot_count
                  THEN (pg.slot_count + 1) % Word16
                  ELSE pg.slot_count
        slots  == (pg.first_free_slot :> val) @@ arr
    IN  [page  |-> [pg EXCEPT !.data_start = ds,
                              !.slot_count = sc,
                              !.free_space = FreeSpaceAfter(ds, sc),
                              !.first_free_slot = FirstFreeSlot(slots, sc)],
         slots |-> slots,
         slot  |-> pg.first_free_slot]

\* The record values a reader finds on the page: the test's look() and
\* SeqScan::has_next first point header.buffer_frame at the frame the page
\* is in, then walk its slots below first_free_slot and read the payload
\* at each slot's offset.
PageValues(pg) ==
    {CellAt(pg, SlotAt(pg, i).off) : i \in 0..(pg.first_free_slot - 1)} \ {0}

\* The per-page layout invariant of the specification (section 3): header,
\* slot array and payload do not overlap, free_space is what is left
\* between them, every live slot lies inside the payload region, and
\* first_free_slot names a free slot or the end of the array.
LayoutOK(pg) ==
    /\ HeaderSize + pg.slot_count * SlotSize <= pg.data_start
    /\ pg.data_start <= PageSize
    /\ pg.free_space = pg.data_start - HeaderSize - pg.slot_count * SlotSize
    /\ \A i \in 0..(pg.slot_count - 1) :
          SlotAt(pg, i).tomb = 255 =>
              /\ SlotAt(pg, i).off >= pg.data_start
              /\ SlotAt(pg, i).off + SlotAt(pg, i).len <= PageSize
    /\ pg.first_free_slot <= pg.slot_count
    /\ pg.first_free_slot < pg.slot_count =>
          SlotAt(pg, pg.first_free_slot) = ZeroSlot
=============================================================================
