SPECIFICATION Spec
CONSTANTS
    p1 = p1
    p2 = p2
    t1 = t1
    t2 = t2
    Process = {p1, p2}
    Task = {t1, t2}
    Status = {"pending", "completed"}
    Pending = "pending"
    Reported = {"pending", "completed"}
    Absent = Absent
    Nobody = Nobody
    NoCache = NoCache
    NoCounter = NoCounter
    Batch <- Batches
    Environment <- TwoCompactors
PROPERTY CompactionLosesNothing
