CONSTANTS
    MaxReload = 1
SPECIFICATION SafetySpec
INVARIANTS
    ClearDropsLine
