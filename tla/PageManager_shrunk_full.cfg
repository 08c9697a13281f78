\* shrink_to_fit() sets the header full, then flush() writes is_full() of the compressor over it.
CONSTANTS
    PageSize <- MCPageSize
    DpBits <- MCDpBits
    PageCount <- MCPageCount
    HeaderSize <- MCHeaderSize
    InfoSize <- MCInfoSize
    MaxOpens = 1
    FileKinds = {TRUE}
    OooFlags = {FALSE}
SPECIFICATION Spec
INVARIANT ShrunkPagesFull
\* the run ends when the bounded number of opens is used up
CHECK_DEADLOCK FALSE
