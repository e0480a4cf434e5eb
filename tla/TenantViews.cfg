CONSTANTS
    Rows = {1, 2, 3}
    Orgs = {"a", "b"}
    Requests = {r1, r2}
    Callers = {"tenant", "other", "super", "broken"}
    Claims <- MCClaims
    Views = {"restoring", "listing", "targeted", "gated"}
    Knobs <- MCKnobs
    Tables <- MCTables
    MaxList = 2
SYMMETRY RequestSymmetry
CHECK_DEADLOCK FALSE
SPECIFICATION Spec
INVARIANTS
    TypeOK
    WritesLandHome
    FailedSyncWriteLeavesNothing
PROPERTIES
    ForeignRowsUntouched
    TombstonesStay
    DeleteUndoesNoEdit
