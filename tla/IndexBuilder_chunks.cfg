SPECIFICATION Spec
CONSTANTS
    CharSigned = TRUE
    Inputs <- MCInputs
    DOCS_PER_INDEX_CHUNK = 5000
    CHUNK_MEM_BUDGET = 24
    MaxRestarts = 1
INVARIANTS
    TypeOK
    ChunksConsistent
    WordsReadBack
    CutChunksArePrefixes
    TocBracketsWords
