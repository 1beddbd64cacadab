SPECIFICATION FairSpec
CONSTANTS
    i1 = i1
    i2 = i2
    i3 = i3
    a1 = a1
    a2 = a2
    Run = {i1, i2, i3}
    Listed <- MCListed
    Reviewer = {a1, a2}
    MaxVersion = 2
    MaxRecords = 2
    Environment <- Sound
INVARIANTS GateConsistent BlockersFirst
PROPERTIES ExecutesApprovedWhenQuiet GateOpens
CHECK_DEADLOCK FALSE
