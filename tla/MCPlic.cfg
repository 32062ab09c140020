CONSTANTS
    NumSources = 2
    MaxPriority = 2
SPECIFICATION Spec
INVARIANTS
    TypeOK
    MeipTracksEligible
PROPERTIES
    SpuriousClaimOnlyInWindow
