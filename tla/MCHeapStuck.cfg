SPECIFICATION FairSpec
CONSTANTS
    HDR = 4
    ALIGN = 2
    MIN_TAIL = 4
    PAGE_SIZE = 20
    INIT_PAGES = 2
    FRAMES = 3
    WORD = 256
    Requests = {3, 8, 32}
PROPERTY KmallocReturns
