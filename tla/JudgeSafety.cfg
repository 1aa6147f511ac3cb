\* Two submissions, one slot in the queue, one lost command, one crash.
SPECIFICATION Spec
SYMMETRY SubmissionSymmetry
CONSTANTS
    c1 = c1
    None = None
    Submissions = {s1, s2}
    Contestants = {c1}
    Owner <- OneOwner
    MaxRuns = 2
    MaxOrders = 1
    MaxFaults = 1
    MayExpire = {"ctx", "runCtx"}
    ListCap = 3
    MaxQueue = 1
    EngineModes = {"docker", "nil"}
    MaxCrashes = 1
INVARIANTS TypeOK PendingAccounting JudgedAtMostOnce OnlyAcceptedRun
PROPERTIES OutcomeSaved OutcomeFinal TornDown
