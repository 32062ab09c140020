CONSTANTS
    MaxLoad = 2
    MaxAccess = 2
SPECIFICATION Spec
INVARIANTS
    TypeOK
    OutputsTrackState
    InterruptNeverLate
    ResetNeverEarly
PROPERTIES
    RunawayIsReset
