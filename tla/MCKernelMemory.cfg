SPECIFICATION BelowSpec
CONSTANTS
    FirstPage = 8
    TotalPages = 21
    Entries = 5
    AliasEntry = 4
    BitmapFrame = 10
    DirFrame = 15
    UserPages = {1, 5, 6, 21}
INVARIANTS
    OneUse
    MappedCount
PROPERTY Translation
