CONSTANTS
    Word = 6
    Map <- MCMap
    Images <- MCImages
    Byte = {0, 1}
    MaxLen = 2
SPECIFICATION Spec
INVARIANTS
    TypeOK
    LoadedSegmentsResident
PROPERTIES
    ImplementsFlatMemory
    RomStable
CHECK_DEADLOCK FALSE
