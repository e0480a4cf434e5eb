CONSTANTS
    Requests = {r1, r2}
    Methods <- MCMethods
    SafeMethods <- MCSafeMethods
    CapEveryMethod = FALSE
    NeverShed <- MCNeverShed
    MaxAbandoned = 1
SPECIFICATION FairSpec
INVARIANTS
    TypeOK
    OneResponse
    UnwatchedIsCounted
PROPERTIES
    WatchedIsAnswered
    SheddingEnds
    ImplementsContract
