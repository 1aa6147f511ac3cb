\* Two bots, three orders, a buffer of two.
SPECIFICATION Spec
CONSTANTS
    b1 = b1
    b2 = b2
    Bots = {b1, b2}
    Orders <- TwoAndOne
    Probes <- SecondIsProbe
    MaxReplies <- TwoAndOne
    Statuses = {"FILLED", "REJECTED"}
    Latencies <- ClockDifferences
    Capacity = 2
    Inputs <- ShortAndLong
    None = None
INVARIANTS TypeOK FirstResponseCounts ResultIsComplete StatisticsAgree
PROPERTIES FleetEnds
