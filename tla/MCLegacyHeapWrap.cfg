SPECIFICATION Spec
CONSTANTS
    HEAP_SIZE = 48
    ALIGN = 4
    MIN_SPLIT = 8
    WORD = 1024
    Requests = {4}
    Careful = FALSE
PROPERTY
    Spacing
