CONSTANTS
    FifoSize = 2
    Frames = {f1}
    f1 = f1
    MaskValues = {{}}
    MaxAccess = 1
SPECIFICATION SafetySpec
INVARIANTS
    StatusAccurate
