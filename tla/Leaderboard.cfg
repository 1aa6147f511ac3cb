\* One ingester, two contestants of whom one fits on the board, one reset, one lost
\* command, and a fetch of the page at any moment (fetches do not affect each other).
SPECIFICATION Spec
CHECK_DEADLOCK FALSE
CONSTANTS
    g1 = g1
    g2 = g2
    None = None
    Contestants = {1, 2}
    Ingesters = {g1}
    Home <- OneHome
    Scores = {1, 2}
    TopN = 1
    Limit = 1
    MaxWindows = 2
    MaxFetches = 1
    MaxResets = 1
    MaxFaults = 1
INVARIANTS TypeOK RankMatchesDetail RowsAreFresh ResetIsComplete
PROPERTIES TrimKeepsTopN
