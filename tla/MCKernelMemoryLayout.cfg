SPECIFICATION Spec
CONSTANTS
    FirstPage = 8
    TotalPages = 20
    Entries = 5
    AliasEntry = 4
    BitmapFrame = 8
    DirFrame = 13
    UserPages = {6, 7, 20}
PROPERTY Translation
