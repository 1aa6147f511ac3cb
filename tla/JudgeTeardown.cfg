\* The container is always removed; contexts may expire.
SPECIFICATION Spec
CONSTANTS
    c1 = c1
    None = None
    Submissions = {s1, s2}
    Contestants = {c1}
    Owner <- OneOwner
    MaxRuns = 2
    MaxOrders = 1
    MaxFaults = 0
    MayExpire = {"ctx", "runCtx"}
    ListCap = 3
    MaxQueue = 1
    EngineModes = {"docker"}
    MaxCrashes = 0
PROPERTIES AlwaysTornDown
