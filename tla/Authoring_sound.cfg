SPECIFICATION Spec
SYMMETRY Symmetry
CONSTANTS
    p1 = p1
    p2 = p2
    f = f
    g = g
    Process <- MCProcess
    Environment <- MCEnvironment
    MaxVersion = 2
    MaxRecords = 3
    MaxAge = 2
    MaxTime = 4
    MaxTasks = 3
    MaxContent = 2
    Ttl = 2
    Window = 1
    Budget = 3
    MaxHour = 2
    MaxChunks = 4
    MaxBuffer = 2
    Rotation = 1
    Command <- MCCommand
INVARIANTS
    ApprovalsAgree
    PlanFollows
    PlanOrder
    ResearchAgrees
    ContextAgrees
    WithinBudget
    
    
    
CHECK_DEADLOCK FALSE
