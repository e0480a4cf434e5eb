CONSTANTS
    Fields <- MCFields
    Values = {0, 1}
    Blank = 0
    Instances = {a, b}
    Cap = 2
    MaxWrites = 3
    MaxEdits = 2
    MaxFailures = 1
    PartialLoads = TRUE
SPECIFICATION Spec
INVARIANTS
    TypeOK
    RowAndTrailAgree
PROPERTIES
    NoSilentWrite
SYMMETRY InstanceSymmetry
