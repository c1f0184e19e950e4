\* One worker with one slot: the second GET may follow the first at once.
CONSTANTS
    a = a  b = b  c = c  d = d
    Targets = {a, b}
    NoTarget = NoTarget
    CarouselSize = 1
    ThreadpoolSize = 1
    PriorityBuckets = 1
    MaxQueueSize = 2
    Backoff = 2
    MaxStall = 1
    MaxRequests = 2
    Slot <- OneSlot
    Level <- OneLevel
SPECIFICATION FairSpec
PROPERTIES
    GetsAreSpaced
