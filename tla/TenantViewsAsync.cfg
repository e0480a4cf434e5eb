CONSTANTS
    Rows = {1, 2}
    Orgs = {"a", "b"}
    Requests = {r1}
    Callers = {"tenant"}
    Claims <- TenantClaims
    Views = {"async"}
    Knobs <- AsyncKnobs
    Tables <- MCTables
    MaxList = 1
CHECK_DEADLOCK FALSE
SPECIFICATION Spec
INVARIANTS
    FailedWriteLeavesNothing
