\* Power loss before the kernel wrote the new tsdb_header back: the reopened file has major version 0 and cannot be opened.
CONSTANTS
    PageSize <- MCRestartPageSize
    DpBits <- MCDpBits
    PageCount <- MCRestartPageCount
    HeaderSize <- MCHeaderSize
    InfoSize <- MCInfoSize
    MaxOpens = 2
    FileKinds = {FALSE}
    OooFlags = {FALSE}
SPECIFICATION Spec
INVARIANT ReopenSucceeds
\* the run ends when the bounded number of opens is used up
CHECK_DEADLOCK FALSE
