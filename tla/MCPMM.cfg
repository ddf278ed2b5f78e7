SPECIFICATION PairSpec
CONSTANTS
    FirstPage = 2
    TotalPages = 8
    PageSize = 2
    BITS = 3
INVARIANTS
    TypeOK
    UsedCount
    NoFreeBelowHint
    SameAnswers
    FreePages
PROPERTY LowestFirst
