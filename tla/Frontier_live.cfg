\* One worker with two slots.
CONSTANTS
    a = a  b = b  c = c  d = d
    Targets = {a, b, c}
    NoTarget = NoTarget
    CarouselSize = 2
    ThreadpoolSize = 1
    PriorityBuckets = 2
    MaxQueueSize = 1
    Backoff = 2
    MaxStall = 1
    MaxRequests = 2
    Slot <- TwoSlots
    Level <- TwoLevels
SPECIFICATION FairSpec
PROPERTIES
    EveryTargetServed
    RetryPassEnds
