CONSTANTS
    Half = 4
    Scaler = 3
    MaxHigh = 3
    MaxNow = 9
    MaxAccess = 2
SPECIFICATION Spec
PROPERTIES
    TimeProgresses
CHECK_DEADLOCK FALSE
