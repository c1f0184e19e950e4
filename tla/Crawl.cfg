SPECIFICATION Spec
CONSTANTS
    NUM_MACHINES = 2
    PRIORITY_BUCKETS = 2
    SEED_LIST <- MCSeeds
    OwnerOf <- MCOwner
    PriorityOf <- MCPriority
    MaxSeedDistance = 3
    STARTUP_BATCH_SIZE = 1
    BATCH_SIZE = 2
    STARTUP_SENDS = 2
    Web <- MCWeb
    Means <- MCMeans
    Mortal = {2}
    MaxFaults = 1
    MaxSaves = 1
    MaxHops = 3
    AGENT_NAMES = {"seamus", "web"}
    ESCAPES <- NoEscapes
    CAPACITY = 1
    BLOCKED_URL_KEYWORDS = {"bad"}
    BAD_URL_EXTENSIONS = {".pdf"}
    ALLOWED_TLDS = {"com", "org"}
    NON_ENGLISH_CODES = {"es"}
    JUNK_PATH_SEGMENTS = {"/login"}
    BLOCKED_DOMAINS = {"t.co"}
    NONVOWEL_RUN = 4
    MAX_PATH_DEPTH = 3
    MAX_URL = 60
    MAX_LINK_MEMORY = 60
    MAX_CONSECUTIVE_NON_ALNUM = 5
    MAX_CONSECUTIVE_NON_ENGLISH = 3
    ENGLISH = {"home", "one", "two", "the", "private", "file", "old", "letter"}
INVARIANTS
    
    RobotsObeyed
    HopsAreTrue
    FetchedOnceByOwner
PROPERTIES
    ReloadIsPrefix
\* The crawl is over when no target is left.
CHECK_DEADLOCK FALSE
