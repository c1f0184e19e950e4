SPECIFICATION Spec
CONSTANTS
    Requests = {r1, r2}
    Machines = {"m1", "m2"}
    Self = "m1"
    Unset = Unset
    Sent <- MCSent
    Hits <- MCHits
    Understood <- MCUnderstood
    HTMLSERVER_THREADS = 2
    QUERY_HANDLER_THREADS = 2
    INDEX_SERVER_NUM_THREADS = 1
    RANKED_ON_EACH = 2
    NUM_RESULTS_RETURN = 2
    MaxDeaths = 1
    MaxPauses = 2
    MAX_STRING = 1000
    MAX_REQUEST = 64
    PAGE_SIZE = 1
INVARIANTS
    BestOverall
    PagesCoverResults
PROPERTIES
    ImplementsScatterGather
    EveryRequestAnswered
