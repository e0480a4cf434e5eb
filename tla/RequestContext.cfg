CONSTANTS
    Threads = {t}
    Tasks = {k}
    Users = {u1}
    RawReasons = {"why"}
    BlankReason = ""
    MaxDepth = 2
    MaxCopies = 1
    MaxLost = 1
SPECIFICATION FairSpec
INVARIANTS
    TypeOK
    InstrumentedOnce
    SavesAreAttributed
    GaugeCountsRequests
PROPERTIES
    CancelledEnds
