SPECIFICATION Spec
CONSTANTS
    i1 = i1
    i2 = i2
    i3 = i3
    a1 = a1
    Run = {i1}
    Listed <- Alone
    Reviewer = {a1}
    MaxVersion = 2
    MaxRecords = 2
    Environment <- Disturbed
PROPERTY ExecutesApproved
CHECK_DEADLOCK FALSE
