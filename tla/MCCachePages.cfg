SPECIFICATION CacheSpec
CONSTANTS
    Readers = {r1, r2}
    Writers = {w1}
    MaxElement = 3
    SegmentSize = 2
    Queries <- MCQueries
    InitialRows = 4
    MaxWrites = 1
    MaxFailures = 1
INVARIANT StaleOnlyCrossed
INVARIANT NoHole
INVARIANT AnswerIsSlice
PROPERTY TrueAtLast
CHECK_DEADLOCK FALSE
