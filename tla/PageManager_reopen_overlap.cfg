\* Recovery on reopen walks the header table with physical page numbers: a reopened data file hands out a page that is already in use.
CONSTANTS
    PageSize <- MCRestartPageSize
    DpBits <- MCDpBits
    PageCount <- MCRestartPageCount
    HeaderSize <- MCHeaderSize
    InfoSize <- MCInfoSize
    MaxOpens = 2
    FileKinds = {FALSE}
    OooFlags = {FALSE}
SPECIFICATION Spec
INVARIANT NoOverlap
\* the run ends when the bounded number of opens is used up
CHECK_DEADLOCK FALSE
