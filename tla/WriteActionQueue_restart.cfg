SPECIFICATION FairSpec
CONSTANTS
    p1 = p1
    p2 = p2
    Process = {p1, p2}
    MaxActions = 3
    KeyOf <- Keys
    Nobody = Nobody
    Environment <- Restarts
PROPERTY PicksUp
