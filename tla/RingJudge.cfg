\* The judge: drain after every bot has been joined.
SPECIFICATION Spec
CONSTANTS
    Producers = {p1, p2, p3}
    Requested = 3
    BatchLen = 2
    MaxPush = 2
    Word = 64
    ConcurrentDrain = FALSE
    NoMetric = NoMetric
    Torn = Torn
INVARIANTS TypeOK Bounded FaithfulPop NoSlotClash DrainComplete
PROPERTIES RefusedOnlyWhenFull DrainEnds ImplementsQueue
