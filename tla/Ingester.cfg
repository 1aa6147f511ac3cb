\* Four records, the second undecodable, the fourth refused; one fault, one restart.
SPECIFICATION Spec
CONSTANTS
    Workers = {k1, k2}
    NumRecords = 4
    Bad = {1}
    Poison = {3}
    ChanCap = 1
    PendingCap = 2
    MaxFaults = 1
    MaxRestarts = 1
INVARIANTS TypeOK Accounted OncePerLife WindowIsBatch
PROPERTIES RestartSkipsNothing StoredInTheEnd
