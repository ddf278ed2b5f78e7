SPECIFICATION FairSpec
CONSTANTS
    VGA_WIDTH = 2
    VGA_HEIGHT = 2
    VGA_HISTORY_SIZE = 3
    BYTE = 2
    Masks = {0, 255}
    Devices1 = {0}
    TIMEOUT = 2
    Early = 1
INVARIANTS
    StoreBounds
    CursorRecovers
    CursorShown
    OnlyKeyboard
PROPERTY KeysHeard
