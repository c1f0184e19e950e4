SPECIFICATION Spec
CONSTANTS
    CharSigned = TRUE
    Inputs <- GapInputs
    DOCS_PER_INDEX_CHUNK = 500000
    CHUNK_MEM_BUDGET = 24
    MaxRestarts = 0
INVARIANTS
    WordsReadBack
