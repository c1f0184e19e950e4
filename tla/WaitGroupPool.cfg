\* Two concurrent callers, two queries, two chunks, two workers.
CONSTANTS
    Callers = {c1, c2}
    Workers = {w1, w2}
    NumChunks = 2
    MaxQueries = 2
SPECIFICATION FairSpec
INVARIANTS
    TypeOK
    GroupsCountTasks
    ReturnedIsComplete
    NoLostWakeUp
PROPERTIES
    QueryReturns
    WorkersEnd
CHECK_DEADLOCK FALSE
