----------------------------- MODULE PageManager -----------------------------
(***************************************************************************)
(* PageManager of src/src/core/page.cpp: one memory-mapped data file,      *)
(*   [ tsdb_header | page_info_on_disk[page_count] | pages ... ]           *)
(* with the bump allocator of logical headers (header_index) and physical  *)
(* pages (page_index), the recovery run by the constructor, compaction     *)
(* allocation, shrink-to-fit, msync, and the PageInfo methods that write   *)
(* the headers (module PageInfo).                                          *)
(*                                                                         *)
(* Three copies of the file are told apart:                                *)
(*   - hdr, info:   the file's pages in the OS page cache, which the       *)
(*                  MAP_SHARED mapping writes and which survive the        *)
(*                  process (munmap and a process crash keep them);        *)
(*   - dhdr, dinfo: what is on the disk; the kernel writes cached pages    *)
(*                  back at any time and in any order, msync(MS_SYNC)      *)
(*                  writes all of them, an OS crash loses the rest;        *)
(*   - comp:        the live compressors of the process's PageInfos.       *)
(* get_free_page* run under m_lock, so each is one atomic step.            *)
(*                                                                         *)
(* A file is either a data file, written by get_free_page_on_disk, or the  *)
(* temporary file compaction writes with get_free_page_for_compaction and *)
(* shrink_to_fit, renamed over the data file when it is done (spec 6) and  *)
(* thrown away if the process stops before that.                           *)
(***************************************************************************)
EXTENDS PageInfo, FiniteSets, FiniteSetsExt

CONSTANTS
    PageCount,     \* tsdb.page.count: logical headers per file
    HeaderSize,    \* sizeof(struct tsdb_header)
    InfoSize,      \* sizeof(struct page_info_on_disk)
    MaxOpens,      \* bound: times the file is opened
    FileKinds,     \* which files OpenNew may create: TRUE = compaction file
    OooFlags       \* the ooo arguments get_free_page_on_disk is called with

\* calc_first_page_info_index(page_count): the first physical data page
CalcFirstPageInfoIndex(pc) ==
    (pc * InfoSize + HeaderSize + PageSize - 1) \div PageSize

First == CalcFirstPageInfoIndex(PageCount)

\* "at least 12 bytes left" in get_free_page_for_compaction
PackMin == 12

ASSUME First < PageCount

Headers == 0 .. PageCount - 1

\* the physical pages holding the tsdb_header and the header table
TablePages == 0 .. First - 1

\* the physical page holding header h's page_info_on_disk
InfoPage(h) == (HeaderSize + h * InfoSize) \div PageSize

\* no header record straddles two pages, so a write-back never splits one
ASSUME \A h \in Headers : ((HeaderSize + h * InfoSize) % PageSize) + InfoSize <= PageSize

\* the tsdb_header fields the allocator uses; a file whose header never
\* reached the disk reads back as all zeroes (major version 0)
ZeroTsdbHeader ==
    [major |-> 0, page_index |-> 0, header_index |-> 0, actual_pg_cnt |-> 0,
     compacted |-> FALSE]

VARIABLES
    status,      \* "closed" (no PageManager) | "open" | "unmapped" (close_mmap'ed,
                 \* the object kept) | "failed" (fatal error during open)
    exists,      \* the data file exists
    hdr, info,   \* tsdb_header and page_info_on_disk[] in the page cache
    dhdr, dinfo, \* the same on disk
    comp,        \* comp[h]: compressor of the PageInfo of header h
    temp,        \* the file is a compaction temporary file
    sealed,      \* ghost: headers compaction finished with shrink_to_fit()
    synced,      \* ghost: allocated headers as the last msync wrote them
    opens        \* opens so far (bounded by MaxOpens)

vars == <<status, exists, hdr, info, dhdr, dinfo, comp, temp, sealed, synced, opens>>

NoCompressors == [h \in Headers |-> NoCompressor]

Init ==
    /\ status = "closed"
    /\ exists = FALSE
    /\ hdr = ZeroTsdbHeader /\ dhdr = ZeroTsdbHeader
    /\ info = [h \in Headers |-> ZeroHeader]
    /\ dinfo = [h \in Headers |-> ZeroHeader]
    /\ comp = NoCompressors
    /\ temp = FALSE
    /\ sealed = {}
    /\ synced = [h \in Headers |-> ZeroHeader]
    /\ opens = 0

-----------------------------------------------------------------------------
(* Opening: PageManager() with open_mmap() *)

(***************************************************************************)
(* A new file: open_mmap writes a fresh tsdb_header into the mapping and   *)
(* init_headers() zeroes the table; its msync starts at m_page_info,       *)
(* which is not page aligned, so it fails and nothing reaches the disk.   *)
(***************************************************************************)
OpenNew ==
    /\ status = "closed" /\ ~exists /\ opens < MaxOpens
    /\ exists' = TRUE
    /\ hdr' = [major |-> 1, page_index |-> First, header_index |-> 0,
               actual_pg_cnt |-> PageCount, compacted |-> FALSE]
    /\ info' = [h \in Headers |-> ZeroHeader]
    /\ status' = "open"
    /\ temp' \in FileKinds
    /\ opens' = opens + 1
    /\ UNCHANGED <<dhdr, dinfo, comp, sealed, synced>>

(***************************************************************************)
(* The recovery loop of the constructor: walk id from page_index - 1 down  *)
(* to first while get_page_info_on_disk(id)->m_page_index == 0, and set    *)
(* page_index to the last id + 1.  Note that id is a physical page index   *)
(* used to index the table of logical headers.                             *)
(***************************************************************************)
RecoveredPageIndex(h, tbl) ==
    LET initialised == {id \in First .. h.page_index - 1 : tbl[id].page_index # 0}
    IN  IF initialised = {} THEN First
        ELSE Max(initialised) + 1

\* An existing file.  A major version mismatch is fatal, and with a zeroed
\* header the loop's id-- wraps and the table is indexed out of range.
OpenExisting ==
    /\ status = "closed" /\ exists /\ opens < MaxOpens
    /\ IF hdr.major = 0
         THEN /\ status' = "failed"
              /\ UNCHANGED hdr
         ELSE /\ status' = "open"
              /\ hdr' = [hdr EXCEPT !.page_index = RecoveredPageIndex(hdr, info)]
    /\ opens' = opens + 1
    /\ UNCHANGED <<exists, info, dhdr, dinfo, comp, temp, sealed, synced>>

-----------------------------------------------------------------------------
(* Allocation, under m_lock *)

\* fault: only the header table is checked, not the file's pages
HasFreeHeader == hdr.header_index < PageCount

HasFreePage == hdr.page_index < hdr.actual_pg_cnt /\ hdr.header_index < PageCount

(***************************************************************************)
(* get_free_page_on_disk(tsdb, ooo): header header_index gets physical     *)
(* page page_index, offset 0, size g_page_size; a compressor is set up;    *)
(* both counters are bumped.  Without room nothing changes (nullptr).      *)
(***************************************************************************)
GetFreePageOnDisk(ooo) ==
    /\ status = "open" /\ ~temp
    /\ IF HasFreePage
         THEN LET id == hdr.header_index
                  h  == InitForDisk(hdr.page_index, PageSize, ooo)
              IN  /\ info' = [info EXCEPT ![id] = h]
                  /\ comp' = [comp EXCEPT ![id] = SetupCompressor(h)]
                  /\ hdr' = [hdr EXCEPT !.page_index = @ + 1, !.header_index = @ + 1]
         ELSE UNCHANGED <<info, comp, hdr>>
    /\ UNCHANGED <<status, exists, dhdr, dinfo, temp, sealed, synced, opens>>

(***************************************************************************)
(* get_free_page_for_compaction(tsdb): as above, then, when there is a     *)
(* previous header, pack into the rest of its physical page if at least   *)
(* 12 bytes are left there, else take the page after it.                  *)
(***************************************************************************)
\* faults: packing at the previous header's offset, or over a whole page
CompactionHeaderNoSize(id, pageIdx) ==
    LET fresh == InitForDisk(pageIdx, PageSize, FALSE)
        prev  == info[id - 1]
    IN  IF id = 0 THEN fresh
        ELSE IF PageSize - prev.offset >= PackMin
          THEN [fresh EXCEPT !.page_index = prev.page_index, !.offset = prev.offset,
                             !.size = PageSize - prev.offset]
          ELSE [fresh EXCEPT !.page_index = prev.page_index + 1]

CompactionHeaderFullSize(id, pageIdx) ==
    LET fresh  == InitForDisk(pageIdx, PageSize, FALSE)
        prev   == info[id - 1]
        offset == prev.offset + prev.size
    IN  IF id = 0 THEN fresh
        ELSE IF PageSize - offset >= PackMin
          THEN [fresh EXCEPT !.page_index = prev.page_index, !.offset = offset]
          ELSE [fresh EXCEPT !.page_index = prev.page_index + 1]

CompactionHeader(id, pageIdx) ==
    LET fresh  == InitForDisk(pageIdx, PageSize, FALSE)
        prev   == info[id - 1]
        offset == prev.offset + prev.size
    IN  IF id = 0 THEN fresh
        ELSE IF PageSize - offset >= PackMin
          THEN [fresh EXCEPT !.page_index = prev.page_index, !.offset = offset,
                             !.size = PageSize - offset]
          ELSE [fresh EXCEPT !.page_index = prev.page_index + 1]

GetFreePageForCompaction ==
    /\ status = "open" /\ temp
    /\ IF HasFreePage
         THEN LET id == hdr.header_index
                  h  == CompactionHeader(id, hdr.page_index)
              IN  /\ info' = [info EXCEPT ![id] = h]
                  /\ comp' = [comp EXCEPT ![id] = SetupCompressor(h)]
                  /\ hdr' = [hdr EXCEPT !.page_index = @ + 1, !.header_index = @ + 1]
         ELSE UNCHANGED <<info, comp, hdr>>
    /\ UNCHANGED <<status, exists, dhdr, dinfo, temp, sealed, synced, opens>>

-----------------------------------------------------------------------------
(* PageInfo operations on allocated headers *)

(***************************************************************************)
(* The headers a caller works on.  get_the_page_on_disk itself only checks *)
(* header_index < page_count (the table size), so it would hand out a zero *)
(* header past header_index; the callers (Tsdb, not among the sources)     *)
(* ask only for headers they were given, which is what this set assumes.  *)
(***************************************************************************)
Allocated == {h \in Headers : h < hdr.header_index}

\* add_data_point(ts, v) on a PageInfo with a compressor; compaction does
\* not write to a page after shrink_to_fit().
AddDataPoint(h) ==
    /\ status = "open"
    /\ HasCompressor(comp[h]) /\ h \notin sealed
    /\ \E bits \in DpBits : comp' = [comp EXCEPT ![h] = Compress(comp[h], bits)]
    /\ UNCHANGED <<status, exists, hdr, info, dhdr, dinfo, temp, sealed, synced, opens>>

\* persist(copy_data)
PersistPage(h) ==
    /\ status = "open" /\ HasCompressor(comp[h])
    /\ info' = [info EXCEPT ![h] = Persist(info[h], comp[h])]
    /\ UNCHANGED <<status, exists, hdr, dhdr, dinfo, comp, temp, sealed, synced, opens>>

\* flush(): persist, madvise, recycle a full compressor
FlushPage(h) ==
    /\ status = "open" /\ HasCompressor(comp[h])
    /\ info' = [info EXCEPT ![h] = FlushHeader(info[h], comp[h])]
    /\ comp' = [comp EXCEPT ![h] = FlushCompressor(comp[h])]
    /\ UNCHANGED <<status, exists, hdr, dhdr, dinfo, temp, sealed, synced, opens>>

\* shrink_to_fit() on a page compaction has filled; ASSERT(m_size != 0)
ShrinkToFitPage(h) ==
    /\ status = "open" /\ temp /\ HasCompressor(comp[h]) /\ h \notin sealed
    /\ ShrinkSize(Persist(info[h], comp[h])) # 0
    /\ info' = [info EXCEPT ![h] = ShrinkHeader(info[h], comp[h])]
    /\ comp' = [comp EXCEPT ![h] = FlushCompressor(comp[h])]
    /\ sealed' = sealed \cup {h}
    /\ UNCHANGED <<status, exists, hdr, dhdr, dinfo, temp, synced, opens>>

(***************************************************************************)
(* get_the_page_on_disk(h) then ensure_dp_available(): a PageInfo without *)
(* a compressor gets one over the header's window, restored to the         *)
(* header's (cursor, start).  The engine asks only for allocated headers.  *)
(***************************************************************************)
\* fault: a compressor set up without restore()
EnsureDpAvailableUnrestored(h) ==
    /\ status = "open" /\ ~HasCompressor(comp[h])
    /\ comp' = [comp EXCEPT ![h] = SetupCompressor(info[h])]
    /\ UNCHANGED <<status, exists, hdr, info, dhdr, dinfo, temp, sealed, synced, opens>>

EnsureDpAvailable(h) ==
    /\ status = "open" /\ ~HasCompressor(comp[h])
    /\ comp' = [comp EXCEPT ![h] = Restore(SetupCompressor(info[h]), info[h])]
    /\ UNCHANGED <<status, exists, hdr, info, dhdr, dinfo, temp, sealed, synced, opens>>

-----------------------------------------------------------------------------
(* Whole-file operations *)

\* the allocated headers an msync makes durable, for the ghost synced
SyncedHeaders == [h \in Headers |-> IF h < hdr.header_index THEN info[h] ELSE ZeroHeader]

\* fault: msync(MS_ASYNC), as flush(false) does: the write-back is only
\* scheduled, and the kernel may do it at any later time
SyncAsync ==
    /\ status = "open"
    /\ synced' = SyncedHeaders
    /\ UNCHANGED <<status, exists, hdr, info, dhdr, dinfo, comp, temp, sealed, opens>>

\* flush(true) / persist(): msync(MS_SYNC) of [0, page_index * page_size),
\* which holds the tsdb_header and the whole header table.

SyncFile ==
    /\ status = "open"
    /\ dhdr' = hdr /\ dinfo' = info
    /\ synced' = SyncedHeaders
    /\ UNCHANGED <<status, exists, hdr, info, comp, temp, sealed, opens>>

\* fault: the last page itself cut off
ShrunkPageCountOff(lastPage) == lastPage

\* PageCount last = header->m_page_index + 1
ShrunkPageCount(lastPage) == lastPage + 1

(***************************************************************************)
(* shrink_to_fit(): actual_pg_cnt := page of the last header + 1, the      *)
(* compacted flag set, ftruncate + mremap.  header_index = 0 would make    *)
(* id wrap; compaction shrinks only a file it wrote pages into.            *)
(***************************************************************************)
ShrinkToFit ==
    /\ status = "open" /\ temp /\ hdr.header_index > 0
    /\ hdr' = [hdr EXCEPT !.actual_pg_cnt = ShrunkPageCount(info[hdr.header_index - 1].page_index),
                          !.compacted = TRUE]
    /\ UNCHANGED <<status, exists, info, dhdr, dinfo, comp, temp, sealed, synced, opens>>

\* A compaction file that is not renamed over the data file is removed.
Discarded ==
    /\ exists' = FALSE
    /\ hdr' = ZeroTsdbHeader /\ dhdr' = ZeroTsdbHeader
    /\ info' = [h \in Headers |-> ZeroHeader] /\ dinfo' = info'
    /\ temp' = FALSE /\ sealed' = {}
    /\ synced' = [h \in Headers |-> ZeroHeader]

\* ~PageManager(): close_mmap() without msync (nothing when it is already
\* unmapped), or a process crash.  A compaction file that was not renamed
\* yet is removed.
Close ==
    /\ status \in {"open", "unmapped"}
    /\ status' = "closed"
    /\ comp' = NoCompressors
    /\ IF temp
         THEN Discarded
         ELSE UNCHANGED <<exists, hdr, info, dhdr, dinfo, temp, sealed, synced>>
    /\ UNCHANGED opens

(***************************************************************************)
(* close_mmap() on a PageManager that lives on: munmap, close(m_fd), the  *)
(* header pointers set to nullptr, no msync.  A data file's PageInfos     *)
(* point into the mapping, so they are recycled before it goes: what their *)
(* compressors hold and did not persist is lost.                          *)
(***************************************************************************)
CloseMmap ==
    /\ status = "open" /\ ~temp
    /\ status' = "unmapped"
    /\ comp' = NoCompressors
    /\ UNCHANGED <<exists, hdr, info, dhdr, dinfo, temp, sealed, synced, opens>>

\* fault: reopen() running the constructor's recovery loop again
ReopenRecovering ==
    /\ status = "unmapped" /\ opens < MaxOpens
    /\ status' = "open"
    /\ hdr' = [hdr EXCEPT !.page_index = RecoveredPageIndex(hdr, info)]
    /\ opens' = opens + 1
    /\ UNCHANGED <<exists, info, dhdr, dinfo, comp, temp, sealed, synced>>

(***************************************************************************)
(* reopen(): m_pages is nullptr, so open_mmap(0) maps the existing file   *)
(* again and reads its header as it is.  The constructor's recovery loop  *)
(* does not run.  The major version was checked when the object opened    *)
(* the file, and the same process has written the header since.           *)
(***************************************************************************)
Reopen ==
    /\ status = "unmapped" /\ opens < MaxOpens
    /\ status' = "open"
    /\ opens' = opens + 1
    /\ UNCHANGED <<exists, hdr, info, dhdr, dinfo, comp, temp, sealed, synced>>

(***************************************************************************)
(* Compaction done (spec 6): the shrunk file is flushed, closed and        *)
(* renamed over the data file, which it is from then on.  Compaction       *)
(* shrinks every page it filled before it packs the next one and before    *)
(* it finishes (spec 4.2, 8(e)), which persists each page's data.          *)
(***************************************************************************)
RenameCompacted ==
    /\ status = "open" /\ temp /\ hdr.compacted /\ Allocated \subseteq sealed
    /\ dhdr' = hdr /\ dinfo' = info
    /\ status' = "closed"
    /\ comp' = NoCompressors
    /\ temp' = FALSE
    /\ synced' = SyncedHeaders
    /\ UNCHANGED <<exists, hdr, info, sealed, opens>>

(***************************************************************************)
(* The kernel writes a dirty cached page back on its own, one physical    *)
(* page at a time and in any order: page 0 holds the tsdb_header and the  *)
(* first headers of the table, later table pages the rest.  The sizes    *)
(* the runs use keep every header record inside one page.  The disk image *)
(* of a compaction file is never read before RenameCompacted syncs it all, *)
(* or the file is removed, so its write-backs are left out.               *)
(***************************************************************************)
WritebackPage(p) ==
    /\ ~temp
    /\ \/ p = 0 /\ dhdr # hdr
       \/ \E h \in Headers : InfoPage(h) = p /\ dinfo[h] # info[h]
    /\ dhdr' = IF p = 0 THEN hdr ELSE dhdr
    /\ dinfo' = [h \in Headers |-> IF InfoPage(h) = p THEN info[h] ELSE dinfo[h]]
    /\ UNCHANGED <<status, exists, hdr, info, comp, temp, sealed, synced, opens>>

\* Power loss: the page cache is lost, the process with it.
OsCrash ==
    /\ status # "failed"
    /\ status' = "closed"
    /\ comp' = NoCompressors
    /\ IF temp
         THEN Discarded
         ELSE /\ hdr' = dhdr /\ info' = dinfo
              /\ UNCHANGED <<exists, dhdr, dinfo, temp, sealed, synced>>
    /\ UNCHANGED opens

Next ==
    \/ OpenNew
    \/ OpenExisting
    \/ \E ooo \in OooFlags : GetFreePageOnDisk(ooo)
    \/ GetFreePageForCompaction
    \/ \E h \in Allocated : AddDataPoint(h)
    \/ \E h \in Allocated : PersistPage(h)
    \/ \E h \in Allocated : FlushPage(h)
    \/ \E h \in Allocated : ShrinkToFitPage(h)
    \/ \E h \in Allocated : EnsureDpAvailable(h)
    \/ SyncFile
    \/ ShrinkToFit
    \/ Close
    \/ CloseMmap
    \/ Reopen
    \/ RenameCompacted
    \/ \E p \in TablePages : WritebackPage(p)
    \/ OsCrash

Spec == Init /\ [][Next]_vars

-----------------------------------------------------------------------------
(* Properties *)

HeaderRecords ==
    [page_index : 0 .. PageCount, offset : 0 .. PageSize, size : 0 .. PageSize,
     cursor : 0 .. PageSize, start : 0 .. 7, full : BOOLEAN, ooo : BOOLEAN]

TypeOK ==
    /\ status \in {"closed", "open", "unmapped", "failed"}
    /\ hdr.page_index \in 0 .. PageCount /\ hdr.header_index \in 0 .. PageCount
    /\ info \in [Headers -> HeaderRecords]
    /\ dinfo \in [Headers -> HeaderRecords]
    /\ comp \in [Headers -> [cap : 0 .. 8 * PageSize, used : -1 .. 8 * PageSize,
                             full : BOOLEAN]]
    /\ sealed \subseteq Headers

\* the bytes of the file a header's window covers, [Start, End)
WindowStart(h) == info[h].page_index * PageSize + info[h].offset
WindowEnd(h) == WindowStart(h) + info[h].size

(***************************************************************************)
(* Spec 8.1: every allocated header's window lies inside one physical      *)
(* page (offset + size <= PAGE_SIZE), through compaction packing and       *)
(* shrink_to_fit.                                                          *)
(***************************************************************************)
HeaderWindowInPage ==
    \A h \in Allocated : info[h].offset + info[h].size <= PageSize

(***************************************************************************)
(* The bits a live compressor has written lie inside its header's window:  *)
(* shrink_to_fit keeps the partial byte, and a compressor restored from    *)
(* disk never starts past the window.                                      *)
(***************************************************************************)
DataInWindow ==
    \A h \in Headers : HasCompressor(comp[h]) => comp[h].used <= 8 * info[h].size

(***************************************************************************)
(* No two allocated headers share a byte of the file: the bump allocator,  *)
(* the compaction packing into the rest of the previous page and          *)
(* shrink_to_fit never hand out a byte twice, whatever order normal and    *)
(* compaction allocations come in.                                         *)
(***************************************************************************)
NoOverlap ==
    \A h1, h2 \in Allocated :
        h1 # h2 /\ info[h1].size > 0 /\ info[h2].size > 0
          => WindowEnd(h1) <= WindowStart(h2) \/ WindowEnd(h2) <= WindowStart(h1)

(***************************************************************************)
(* The position persisted in a header is never ahead of the live          *)
(* compressor of that header: after a restart the compressor resumes from *)
(* the persisted (cursor, start) exactly, and persist() only moves it up.  *)
(***************************************************************************)
PersistedNotAhead ==
    \A h \in Allocated :
        HasCompressor(comp[h]) => info[h].cursor * 8 + info[h].start <= comp[h].used

\* position (in bits) a header records
Position(h) == h.cursor * 8 + h.start

(***************************************************************************)
(* What an msync made durable survives any later power loss, reopen and    *)
(* recovery: a header that was allocated at the last msync is still        *)
(* allocated, still at the same physical page, and its recorded position   *)
(* has not gone back.                                                      *)
(***************************************************************************)
DurableAfterSync ==
    \A h \in Headers :
        synced[h].page_index # 0 =>
            /\ h < hdr.header_index
            /\ info[h].page_index = synced[h].page_index
            /\ Position(info[h]) >= Position(synced[h])

(***************************************************************************)
(* Spec 8.2: page_index <= actual_pg_cnt, also after shrink_to_fit.        *)
(***************************************************************************)
PageIndexWithinFile == hdr.page_index <= hdr.actual_pg_cnt

(***************************************************************************)
(* Spec 4.2: shrink_to_fit() leaves the header marked full.                *)
(***************************************************************************)
ShrunkPagesFull == \A h \in sealed : info[h].full

(***************************************************************************)
(* Spec 8.6: after an open, every header below header_index is an          *)
(* initialised one, so queries never read a zero header (page 0, which is  *)
(* the tsdb_header).                                                       *)
(***************************************************************************)
AllocatedHeadersInitialised ==
    status = "open" => \A h \in Allocated : info[h].page_index # 0

(***************************************************************************)
(* A data file the engine created can always be opened again.              *)
(***************************************************************************)
ReopenSucceeds == status # "failed"

\* the PageManager object exists, mapped or not
Live == status \in {"open", "unmapped"}

(***************************************************************************)
(* While one PageManager object lives, through close_mmap() and reopen(), *)
(* its allocator only moves forward: page_index and header_index never    *)
(* decrease and an allocated header keeps its physical page.  Only a new  *)
(* PageManager (the constructor's recovery) or an OS crash may roll back. *)
(***************************************************************************)
LiveAllocationsKept ==
    [][Live /\ Live' =>
         /\ hdr'.page_index >= hdr.page_index
         /\ hdr'.header_index >= hdr.header_index
         /\ \A h \in Allocated : info'[h].page_index = info[h].page_index]_vars

-----------------------------------------------------------------------------
(* Refinement of PageFile *)

\* a header without a window
NoWindow == [page |-> 0, offset |-> 0, size |-> 0]

(***************************************************************************)
(* The abstract file: a file that exists and is open, or closed after it   *)
(* was renamed; the windows of the allocated headers; the data of a        *)
(* header, which the live compressor holds, or the header's persisted      *)
(* position when it has none; the file's physical page count.              *)
(***************************************************************************)
AbsFile == IF ~exists THEN "none" ELSE IF status = "open" THEN "open" ELSE "done"

AbsRegion ==
    [h \in Headers |-> IF h \in Allocated
                         THEN [page |-> info[h].page_index, offset |-> info[h].offset,
                               size |-> info[h].size]
                         ELSE NoWindow]

AbsData ==
    [h \in Headers |-> IF h \notin Allocated THEN 0
                       ELSE IF HasCompressor(comp[h]) THEN comp[h].used
                       ELSE Position(info[h])]

PF == INSTANCE PageFile WITH
        Slots <- Headers, FirstPage <- First, MaxPages <- PageCount,
        NoRegion <- NoWindow,
        file <- AbsFile, region <- AbsRegion, data <- AbsData, pages <- hdr.actual_pg_cnt

(***************************************************************************)
(* The compaction file implements PageFile: every step of the allocator,   *)
(* of the PageInfos' compressors, persist, flush, both shrink_to_fit and   *)
(* the rename or removal is a PageFile step or leaves it unchanged.  So a  *)
(* window is never handed out twice or moved, data is never lost from a    *)
(* live page, and no shrink cuts off data or a window.                     *)
(***************************************************************************)
PageFileRefined == PF!Spec

=============================================================================
