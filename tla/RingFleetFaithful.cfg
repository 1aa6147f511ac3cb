\* cmd/bot_fleet: what the consumer reads while the bots are pushing.
SPECIFICATION Spec
SYMMETRY ProducerSymmetry
CONSTANTS
    Producers = {p1, p2}
    Requested = 2
    BatchLen = 2
    MaxPush = 2
    Word = 64
    ConcurrentDrain = TRUE
    NoMetric = NoMetric
    Torn = Torn
INVARIANTS FaithfulPop
