CONSTANTS
    Half = 4
    Scaler = 2
    MaxHigh = 1
    MaxNow = 9
    MaxAccess = 2
SPECIFICATION Spec
INVARIANTS
    TypeOK
    MtipMatchesCompare
    WakeupArmed
PROPERTIES
    CompareTimerSpec
CHECK_DEADLOCK FALSE
