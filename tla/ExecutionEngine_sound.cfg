SPECIFICATION FairSpec
CONSTANTS
    t1 = t1
    t2 = t2
    t3 = t3
    Task = {t1, t2, t3}
    Position <- MCPosition
    Environment <- Environments
INVARIANTS DependenciesHold WithinLimit RetriesBounded NothingLeft TallyAccurate
PROPERTIES SettledForGood Terminates
CHECK_DEADLOCK FALSE
