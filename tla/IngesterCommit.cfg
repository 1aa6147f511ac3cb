\* A restart, and nothing else goes wrong.
SPECIFICATION Spec
SYMMETRY WorkerSymmetry

CONSTANTS
    Workers = {k1, k2}
    NumRecords = 3
    Bad = {}
    Poison = {}
    ChanCap = 1
    PendingCap = 2
    MaxFaults = 0
    MaxRestarts = 1
INVARIANTS CommitIsReliable
