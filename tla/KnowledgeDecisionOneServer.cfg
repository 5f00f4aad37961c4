\* One server process, as main.py starts it.  Liveness: no symmetry.
SPECIFICATION Spec
CONSTANTS
    s1 = s1
    s2 = s2
    d1 = d1
    d2 = d2
    d3 = d3
    NoDecision = NoDecision
    Servers <- OneServer
    Decisions <- ThreeDecisions
    MaxIncidents = 2
INVARIANTS
    PendingReviewFreezes
    FrozenPartitionIsNotMutated
PROPERTIES
    AcceptedIsSettled
CHECK_DEADLOCK FALSE
