------------------------------ MODULE PageInfo ------------------------------
(***************************************************************************)
(* PageInfo of src/src/core/page.cpp: the view of one logical page, a      *)
(* page_info_on_disk header in the mapped file plus an optional live       *)
(* Compressor.  This module holds the header and compressor records and    *)
(* the PageInfo methods as operators on them; PageManager uses them inside *)
(* its actions, because every PageInfo method writes the shared mapping.   *)
(*                                                                         *)
(* Only the part of the on-disk header the allocator and compaction read   *)
(* is kept: page_index, offset, size, cursor, start, the full and          *)
(* out-of-order flags.  tstamp_from/to are left out.                       *)
(*                                                                         *)
(* The Compressor (compress.cpp, not among the sources) is modelled from   *)
(* the spec (4.1) for an in-place codec, version >= 1: it writes bits into *)
(* a buffer of cap bits, the position is (cursor, start) = (bytes, bits),  *)
(* and a point that does not fit marks it full.                            *)
(***************************************************************************)
EXTENDS Integers

CONSTANTS
    PageSize,   \* g_page_size, bytes
    DpBits      \* bits one compressed datapoint takes (a small set)

\* page_info_on_disk as the zero-filled table holds it
ZeroHeader ==
    [page_index |-> 0, offset |-> 0, size |-> 0, cursor |-> 0, start |-> 0,
     full |-> FALSE, ooo |-> FALSE]

NoCompressor == [cap |-> 0, used |-> -1, full |-> FALSE]

HasCompressor(c) == c.used >= 0

-----------------------------------------------------------------------------
(* Compressor, modelled from spec 4.1 *)

\* init(base, buffer, size)
CompressorInit(sizeBytes) == [cap |-> sizeBytes * 8, used |-> 0, full |-> FALSE]

\* compress(ts, value): FALSE and full when the point does not fit
Compress(c, bits) ==
    IF c.used + bits <= c.cap
      THEN [c EXCEPT !.used = c.used + bits]
      ELSE [c EXCEPT !.full = TRUE]

\* save(position): the (offset, start) pair written into the header
PosCursor(c) == c.used \div 8
PosStart(c) == c.used % 8

\* restore(dps, position, nullptr)
Restore(c, h) == [c EXCEPT !.used = h.cursor * 8 + h.start]

-----------------------------------------------------------------------------
(* PageInfo methods *)

(***************************************************************************)
(* init_for_disk(pm, header, page_idx, size, is_ooo): a fresh header.      *)
(* m_header->init(range) clears the position and the flags.                *)
(***************************************************************************)
InitForDisk(pageIdx, size, isOoo) ==
    [ZeroHeader EXCEPT !.ooo = isOoo, !.page_index = pageIdx, !.size = size]

(***************************************************************************)
(* setup_compressor(range, version): a compressor over the header's byte   *)
(* window; the buffer size is the header's size at this moment.            *)
(***************************************************************************)
SetupCompressor(h) == CompressorInit(h.size)

(***************************************************************************)
(* persist(copy_data): the compressor position and is_full() written back *)
(* into the header (m_header->init(offset, start, is_full, from, to)).    *)
(* Without a compressor nothing is written.                                *)
(***************************************************************************)
Persist(h, c) ==
    IF ~HasCompressor(c) THEN h
    ELSE [h EXCEPT !.cursor = PosCursor(c), !.start = PosStart(c), !.full = c.full]

\* flush(): persist(); madvise; recycle() the compressor when it is full
FlushHeader(h, c) == Persist(h, c)
FlushCompressor(c) ==
    IF HasCompressor(c) /\ c.full THEN NoCompressor ELSE c

(***************************************************************************)
(* shrink_to_fit(): persist(), size := cursor (+1 for a partial byte),     *)
(* set_full(true), then flush(), whose persist() writes is_full() of the   *)
(* compressor into the header again.                                       *)
(***************************************************************************)
\* fault: the partial last byte dropped
ShrinkSizeTrunc(h) == h.cursor

ShrinkSize(h) == h.cursor + (IF h.start # 0 THEN 1 ELSE 0)

ShrinkHeader(h, c) ==
    LET p == Persist(h, c)
        s == [p EXCEPT !.size = ShrinkSize(p), !.full = TRUE]
    IN  FlushHeader(s, c)

=============================================================================
