SPECIFICATION FairSpec
CONSTANTS
    Sender = {main, other}
    Strand = strand
    MaxSends = 4
    WeakExchange = FALSE
CHECK_DEADLOCK FALSE
INVARIANTS
    SingleWriter
    NothingLost
PROPERTIES
    ImplementsPipe
    EventuallyWritten
    CloseIsSignalled
