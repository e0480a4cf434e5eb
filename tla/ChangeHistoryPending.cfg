CONSTANTS
    Fields <- MCFields
    Values = {0, 1}
    Blank = 0
    Instances = {a}
    Cap = 3
    MaxWrites = 3
    MaxEdits = 2
    MaxFailures = 0
    PartialLoads = TRUE
SPECIFICATION Spec
INVARIANTS
    EditsAreRecorded
