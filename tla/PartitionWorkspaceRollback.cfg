\* One server process, one failing operation.
SPECIFICATION Safety
CONSTANTS
    s1 = s1
    s2 = s2
    c1 = c1
    c2 = c2
    c3 = c3
    plain = plain
    rich = rich
    k1 = k1
    k2 = k2
    none = none
    few = few
    Cases <- MCCases
    Profiles <- MCProfiles
    Schemas <- MCSchemas
    Facets <- MCFacets
    Project <- MCProject
    FirstSchema = k1
    ListLimit = 1
    Rank <- MCRank
    SchemaFile = SchemaFile
    IndexFile = IndexFile
    Absent = Absent
    NoServer = NoServer
    Servers <- OneServer
    MaxOps = 2
    MaxFaults = 1
INVARIANTS
    FailedDrainIsRolledBack
\* Every operation has been executed, or the workspace waits for an operator.
CHECK_DEADLOCK FALSE
