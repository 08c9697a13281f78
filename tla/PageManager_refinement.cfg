\* The compaction file against the abstract PageFile: three headers over
\* two data pages, packing, writes, persists, flushes, both shrinks, the
\* rename, and the removal of a file that is not renamed.
CONSTANTS
    PageSize <- MCPageSize
    DpBits <- MCDpBits
    PageCount <- MCRefinePageCount
    HeaderSize <- MCHeaderSize
    InfoSize <- MCInfoSize
    MaxOpens = 1
    FileKinds = {TRUE}
    OooFlags = {FALSE}
SPECIFICATION Spec
PROPERTY PageFileRefined
\* the run ends when the bounded number of opens is used up
CHECK_DEADLOCK FALSE
