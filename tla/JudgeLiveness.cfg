\* Three submissions and two places in the queue: two may wait while the first is
\* judged, and the third is refused as long as two wait.  runCtx may expire.
SPECIFICATION Spec
CONSTANTS
    c1 = c1
    None = None
    Submissions = {s1, s2, s3}
    Contestants = {c1}
    Owner <- OneOwner
    MaxRuns = 3
    MaxOrders = 1
    MaxFaults = 0
    MayExpire = {"runCtx"}
    ListCap = 3
    MaxQueue = 2
    EngineModes = {"docker"}
    MaxCrashes = 0
INVARIANTS JudgedInOrder
PROPERTIES AcceptedIsJudged
