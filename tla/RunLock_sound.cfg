SPECIFICATION FairSpec
CONSTANTS
    p1 = p1
    p2 = p2
    c1 = c1
    c2 = c2
    c3 = c3
    NoCaller = NoCaller
    Process = {p1, p2}
    Caller = {c1, c2, c3}
    ProcOf <- MCProcOf
    MaxDepth = 2
    Environment <- Sound
INVARIANTS HolderOwnsFile SequentialUnlessTimeout WaitsForLiveCall
PROPERTIES ReleasesOwnFile ImplementsMutex SomeoneGetsIn
CHECK_DEADLOCK FALSE
