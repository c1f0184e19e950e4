SPECIFICATION Spec
CONSTANTS
    CharSigned = TRUE
    CHUNK_MANAGER_MAX_MATCHES = 3
    MAX_NODES = 128
    CAPACITY = 3
    Corpora <- MCCorpora
    Queries <- MCQueries
    WordLists <- MCWordLists
    PageLists <- MCPageLists
    Budgets = {2, 100}
INVARIANTS
    AnswersMeanQuery
    PositionsAreTrue
    BranchesAcceptNoMore
    BestPagesKept
