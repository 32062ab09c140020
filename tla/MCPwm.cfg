CONSTANTS
    Word = 16
    Half = 4
    PeriodValues = {1, 2, 3, 4, 5}
    PhaseValues = {0, 1, 2, 3, 4, 6, 15}
    DutyValues = {0, 1, 2, 3, 4, 15}
    FirstPeriod = 4
SPECIFICATION PwmSpec
INVARIANTS
    PwmTypeOK
    DutyExact
