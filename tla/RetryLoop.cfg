CONSTANTS
    Callers = {c1}
    Modes <- MCModes
    Retries = 2
    PoolSize = 1
    Timeout = 2
    Waits = 5
    Deadlines = {0, 3}
    MaxBackoff = 2
SPECIFICATION FairSpec
INVARIANTS
    TypeOK
    NoStatusReplay
    SleepersHoldNothing
    LastResponseWins
    OverrunBounded
PROPERTIES
    CallEnds
