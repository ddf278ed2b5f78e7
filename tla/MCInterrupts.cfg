SPECIFICATION FairSpec
CONSTANTS
    Ticks = 8
    MS = 2
    Masks = {0, 32, 142, 159, 184}
    Devices1 = {1}
    Devices2 = {0}
INVARIANTS
    OnlyTimer
    SleepLength
PROPERTY Wakes
