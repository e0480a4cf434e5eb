CONSTANTS
    Callers = {c1, c2}
    Threads <- MCTwoThreads
    Attempts = 2
    InitialEnv <- Configured
    MaxEnvChanges = 1
    MaxResets = 1
SPECIFICATION FairSpec
INVARIANTS
    TypeOK
    OncePerLatch
PROPERTIES
    KeptAlive
    SetEventEndsHeartbeat
