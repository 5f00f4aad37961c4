---------------------------- MODULE SerialTasks ----------------------------
(***************************************************************************)
(* What the partition task queue promises its users, with no queue, no     *)
(* worker and no event loop in sight: every accepted task is executed      *)
(* exactly once, and the tasks of one partition are executed in the order  *)
(* in which they were accepted.  Tasks of different partitions are         *)
(* independent.                                                            *)
(***************************************************************************)
EXTENDS Naturals

CONSTANTS Tasks,        \* the commands that may be submitted
          Partitions,   \* the partitions they are addressed to
          PartitionOf   \* the partition of each command

VARIABLES rank,         \* the acceptance order of each task, 0 before it
          outcome       \* "none", "pending", "completed" or "failed"

vars == <<rank, outcome>>

Outcomes == {"completed", "failed"}

Init == /\ rank = [t \in Tasks |-> 0]
        /\ outcome = [t \in Tasks |-> "none"]

\* A new task is ordered after every task accepted so far.
Accept(t) ==
    /\ outcome[t] = "none"
    /\ rank' \in [Tasks -> Nat]
    /\ \A u \in Tasks : rank[u] < rank'[t]
    /\ \A u \in Tasks \ {t} : rank'[u] = rank[u]
    /\ outcome' = [outcome EXCEPT ![t] = "pending"]

\* A task is executed when no older task of its partition is outstanding.
Execute(t) ==
    /\ outcome[t] = "pending"
    /\ \A u \in Tasks :
          PartitionOf[u] = PartitionOf[t] /\ outcome[u] = "pending" => rank[t] <= rank[u]
    /\ \E o \in Outcomes : outcome' = [outcome EXCEPT ![t] = o]
    /\ UNCHANGED rank

Next == \E t \in Tasks : Accept(t) \/ Execute(t)

Safety == Init /\ [][Next]_vars

Spec == Safety /\ \A t \in Tasks : WF_vars(Execute(t))
=============================================================================
