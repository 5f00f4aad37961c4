CONSTANTS
    Ids = {1, 2, 3}
    Keys = {"area", "Area", "area:a/b"}
    Values = {"a", "A", "a/b:a"}
    Fold <- MCFold
    Rank <- MCRank
    Text <- MCText
    Cap = 2
    Lower <- MCLower
    Slashed <- MCSlashed
    Matched <- MCMatched
    Ranked <- MCRanked
    RecallSize = 2
    CaseProfiles <- MCProfiles
    Schemas <- MCSchemas
    Wordings <- MCWordings
    MaxOps = 4
    MaxBypass = 1
SPECIFICATION Spec
INVARIANTS
    StatisticsAreExact
    EvidenceAgrees
    SelfRetrieval
    WorkingSetFollowsCases
PROPERTIES
    WrittenIsProjected
CHECK_DEADLOCK FALSE
