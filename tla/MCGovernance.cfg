CONSTANTS
    Keys <- MCKeys
    Excluded <- MCExcluded
    FacetNamed <- MCFacetNamed
    Written <- MCWritten
    Evidences <- MCEvidences
    MaxNewKeys = 2
    MaxUnobserved = 2
    TopLimit = 2
    MaxCalls = 2
    NoSchema <- MCNoSchema
SPECIFICATION Spec
INVARIANTS
    ChangeIsSupported
    ContradictionIsReviewed
    RejectionKeepsSchema
    HonestPassIsKept
CHECK_DEADLOCK FALSE
