\* Two server processes on one workspace directory.
SPECIFICATION Safety
CONSTANTS
    s1 = s1
    s2 = s2
    d1 = d1
    d2 = d2
    d3 = d3
    NoDecision = NoDecision
    Servers <- TwoServers
    Decisions <- ThreeDecisions
    MaxIncidents = 1
SYMMETRY DecisionSymmetry
INVARIANTS
    ReviewLockIsPending
    AuditMatchesGit
\* No decision id is left and the last review is done.
CHECK_DEADLOCK FALSE
