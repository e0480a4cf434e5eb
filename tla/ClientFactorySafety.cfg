CONSTANTS
    Callers = {c1, c2}
    Refreshers = {f1, f2}
    MaxVersion = 2
    MaxResets = 0
    SlowFetch = FALSE
    Identities = {i1}
    Options = {o1, o2}
    PeerUrl <- MCPeerUrl
    EnvUrl = "absent"
    NoUrl = "absent"
    MaxClientResets = 1
SYMMETRY MCSymmetry
SPECIFICATION FSpec
INVARIANTS
    FTypeOK
    BlocksOnlyBeforeFirstAnswer
    OneRefreshPerWindow
    ClientIsCurrent
    OnePoolPerKey
PROPERTIES
    NeverGoesBack
