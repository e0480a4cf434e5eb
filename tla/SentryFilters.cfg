CONSTANTS
    e1 = e1
    e2 = e2
    e3 = e3
    Exceptions <- MCExceptions
    Raised = e1
    NoExc = none
    Faults <- MCFaults
    Reports <- MCReports
    Filters <- MCFilters
    MaxRaises = 1
SPECIFICATION FairSpec
CHECK_DEADLOCK FALSE
INVARIANTS
    FirstMatchDecides
    OneIssuePerFault
PROPERTIES
    EveryReportIsSent
