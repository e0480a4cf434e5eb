CONSTANTS
    Callers = {c1}
    Refreshers = {f1, f2}
    MaxVersion = 2
    MaxResets = 1
    SlowFetch = TRUE
    Identities = {i1}
    Options = {o1}
    PeerUrl <- MCPeerUrlLeaves
    EnvUrl = "env"
    NoUrl = "absent"
    MaxClientResets = 0
SPECIFICATION FFairSpec
PROPERTIES
    OverrideReachesClients
