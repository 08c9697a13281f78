\* Power loss after the tsdb_header was written back but not the header it counts: a reopened file has a zero header below header_index.
CONSTANTS
    PageSize <- MCRestartPageSize
    DpBits <- MCDpBits
    PageCount <- MCCrashPageCount
    HeaderSize <- MCHeaderSize
    InfoSize <- MCInfoSize
    MaxOpens = 2
    FileKinds = {FALSE}
    OooFlags = {FALSE}
SPECIFICATION Spec
INVARIANT AllocatedHeadersInitialised
\* the run ends when the bounded number of opens is used up
CHECK_DEADLOCK FALSE
