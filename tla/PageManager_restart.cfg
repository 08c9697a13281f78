\* A data file across restarts: allocations, writes, persists and flushes,
\* kernel write-back in any order, msync, close_mmap and reopen() of a live
\* PageManager, its destruction, power loss, and the recovery a new
\* PageManager runs.
CONSTANTS
    PageSize <- MCRestartPageSize
    DpBits <- MCDpBits
    PageCount <- MCRestartPageCount
    HeaderSize <- MCHeaderSize
    InfoSize <- MCInfoSize
    MaxOpens = 2
    FileKinds = {FALSE}
    OooFlags = {FALSE}
SPECIFICATION Spec
INVARIANT PersistedNotAhead
INVARIANT DurableAfterSync
PROPERTY LiveAllocationsKept
\* the run ends when the bounded number of opens is used up
CHECK_DEADLOCK FALSE
