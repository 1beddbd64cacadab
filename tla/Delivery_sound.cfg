SPECIFICATION Spec
SYMMETRY Symmetry
CONSTANTS
    p1 = p1
    p2 = p2
    u = u
    pa = pa
    pb = pb
    pc = pc
    Process <- MCProcess
    Reviewer <- MCReviewer
    Environment <- MCEnvironment
    MaxSha = 2
    MaxResults = 2
    MaxCommands = 3
    MaxBackoff = 2
    MaxClock = 3
    Provider <- MCProvider
    MaxTicks = 2
INVARIANTS
    RecordsAgree
    OutcomesAgree
    
    
    AgentsAgree
CHECK_DEADLOCK FALSE
