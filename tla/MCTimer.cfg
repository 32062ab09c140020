CONSTANTS
    MaxReload = 2
SPECIFICATION Spec
INVARIANTS
    TypeOK
    LineOutlivesStatusOnlyIfClearOwed
    ResetHonoured
    ExternalClockExact
PROPERTIES
    FreeRunningExpires
