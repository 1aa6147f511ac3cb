\* Three runs of one contestant, a list of three, a listing, a clear, a lost command.
SPECIFICATION Spec
CHECK_DEADLOCK FALSE
CONSTANTS
    c1 = c1
    None = None
    Contestants = {c1}
    Runs = {r1, r2, r3}
    Of <- OneContestant
    RunCap = 3
    Limit = 2
    MaxReads = 1
    MaxClears = 1
    MaxFaults = 1
SYMMETRY RunSymmetry
INVARIANTS TypeOK ClearIsComplete
PROPERTIES SkippedIsGone
