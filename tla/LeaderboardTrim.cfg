\* Two ingesters, as the autoscaler may run, and nothing fails.
SPECIFICATION Spec
CHECK_DEADLOCK FALSE
CONSTANTS
    g1 = g1
    g2 = g2
    None = None
    Contestants = {1, 2}
    Ingesters = {g1, g2}
    Home <- TwoHomes
    Scores = {1, 2}
    TopN = 1
    Limit = 1
    MaxWindows = 1
    MaxFetches = 1
    MaxResets = 0
    MaxFaults = 0
PROPERTIES TrimKeepsTopN
