\* shrink_to_fit() after compaction packed pages: actual_pg_cnt drops below page_index.
CONSTANTS
    PageSize <- MCPageSize
    DpBits <- MCDpBits
    PageCount <- MCPageCount
    HeaderSize <- MCHeaderSize
    InfoSize <- MCInfoSize
    MaxOpens = 1
    FileKinds = {TRUE}
    OooFlags = {FALSE}
SPECIFICATION Spec
INVARIANT PageIndexWithinFile
\* the run ends when the bounded number of opens is used up
CHECK_DEADLOCK FALSE
