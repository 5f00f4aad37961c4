------------------------ MODULE MCPartitionTaskQueue ------------------------
(* Four commands: three of one partition, so that one can be submitted while
   another runs and a third waits, and one of a second partition.  The
   second and the fourth are awaited by their request. *)
EXTENDS PartitionTaskQueue

CONSTANTS p1, p2, t1, t2, t3, t4

MCPartitions == {p1, p2}
MCTasks == {t1, t2, t3, t4}
MCAwaited == {t2, t4}
MCPartitionOf == [t \in MCTasks |-> IF t = t4 THEN p2 ELSE p1]
=============================================================================
