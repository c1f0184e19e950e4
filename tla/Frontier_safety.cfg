\* Two workers with one slot each (a, b, d share the first), two priorities,
\* a queue that holds one.
CONSTANTS
    a = a  b = b  c = c  d = d
    Targets = {a, b, c, d}
    NoTarget = NoTarget
    CarouselSize = 2
    ThreadpoolSize = 2
    PriorityBuckets = 2
    MaxQueueSize = 1
    Backoff = 2
    MaxStall = 1
    MaxRequests = 2
    Slot <- TwoSlots
    Level <- TwoLevels
SPECIFICATION Spec
SYMMETRY Alike
INVARIANTS
    TypeOK
    QueueBounded
    Conservation
    BreakSkipsNobody
    OneWorkerPerSlot
PROPERTIES
    NoThreePagesInABurst
