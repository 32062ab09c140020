CONSTANTS
    FifoSize = 2
    Frames = {f1, f2}
    f1 = f1
    f2 = f2
    MaskValues = {{"ROR", "RX"}}
    MaxAccess = 2
SPECIFICATION Spec
INVARIANTS
    TypeOK
    StatusAccurateOutsideReset
    InterruptAccurate
PROPERTIES
    QueuedFrameIsShifted
    ImplementsFrameLink
    ResetClearsFifos
