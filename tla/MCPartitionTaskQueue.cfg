SPECIFICATION Spec
CONSTANTS
    p1 = p1
    p2 = p2
    t1 = t1
    t2 = t2
    t3 = t3
    t4 = t4
    NoTask = NoTask
    Partitions <- MCPartitions
    Tasks <- MCTasks
    Awaited <- MCAwaited
    PartitionOf <- MCPartitionOf
INVARIANTS
    NoTaskStranded
    CallerFindsResult
PROPERTIES
    EveryTaskFinishes
    EveryCallerAnswered
    ExecutesSerially
\* Every command has been executed and nobody submits another one.
CHECK_DEADLOCK FALSE
