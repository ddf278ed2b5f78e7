SPECIFICATION FaultSpec
CONSTANTS
    FirstPage = 8
    TotalPages = 14
    Entries = 5
    AliasEntry = 3
    BitmapFrame = 8
    DirFrame = 12
    UserPages = {}
INVARIANT FaultMapped
CHECK_DEADLOCK FALSE
