CONSTANTS
    KB_BUFFER_SIZE = 2
    INPUT_KB_BUFFER = 2
    Letters = {"A"}
    OtherKeys = {"LSHIFT", "CTRL", "ENTER", "BKSP"}
    ExtendedKeys = {"CTRL", "HOME"}
SPECIFICATION FairSpec
INVARIANTS TypeOK ModifiersHeld CountExact LineShown
PROPERTIES InOrder KeepsReading
