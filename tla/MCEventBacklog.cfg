SPECIFICATION Spec
CONSTANTS
    e1 = e1
    e2 = e2
    e3 = e3
    Events <- MCEvents
    Edits <- MCEdits
    Limit = 2
    Window = 2
    MaxDrains = 3
    MaxIncidents = 1
INVARIANTS
    EventFollowsCommit
    CommitIsReported
    GovernedOnce
PROPERTIES
    BatchesAreSettled
\* Every change is processed and the operator stays away.
CHECK_DEADLOCK FALSE
