\* A compaction file: compaction allocations packing into the rest of the
\* previous page, writes, persists, flushes, shrink_to_fit of pages and of
\* the file, then the rename; or a crash that removes it.
CONSTANTS
    PageSize <- MCPageSize
    DpBits <- MCDpBits
    PageCount <- MCPageCount
    HeaderSize <- MCHeaderSize
    InfoSize <- MCInfoSize
    MaxOpens = 1
    FileKinds = {TRUE}
    OooFlags = {FALSE}
SPECIFICATION Spec
INVARIANT TypeOK
INVARIANT NoOverlap
INVARIANT HeaderWindowInPage
INVARIANT DataInWindow
\* the run ends when the bounded number of opens is used up
CHECK_DEADLOCK FALSE

