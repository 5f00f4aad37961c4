------------------------- MODULE PartitionTaskQueue -------------------------
(***************************************************************************)
(* PartitionTaskQueue (internal/backlog/tasks/queue.py): the in-process    *)
(* FIFO that serialises the case and Knowledge commands of a partition.    *)
(* Every partition has a deque and at most one worker coroutine, which is  *)
(* created by enqueue when there is none and removes itself when it finds  *)
(* the deque empty.  All of it runs on one asyncio event loop, so a step   *)
(* here is what runs between two suspension points of a coroutine: the     *)
(* call of a request handler, the first run of a worker, the resumption of *)
(* a worker whose task handler has finished, the resumption of a caller of *)
(* wait_idle.                                                              *)
(*                                                                         *)
(* A deque that is missing from _queues is the empty sequence here: the    *)
(* worker drops the entry only when it is empty, and enqueue recreates it. *)
(***************************************************************************)
EXTENDS Naturals, Sequences

CONSTANTS Partitions,   \* partition names
          Tasks,        \* the commands requests may submit
          PartitionOf,  \* the partition each command is addressed to
          Awaited,      \* the commands whose request waits: case updates and deletes
          NoTask        \* what a worker executes when it executes nothing

ASSUME TaskAssumption ==
    /\ PartitionOf \in [Tasks -> Partitions]
    /\ Awaited \subseteq Tasks
    /\ NoTask \notin Tasks

VARIABLES
    rank,       \* position of a task in the insertion-ordered dict _tasks, 0 = not submitted
    accepted,   \* number of tasks in _tasks
    status,     \* PartitionTask.status ("absent" before enqueue)
    attempts,   \* PartitionTask.attempt_count
    queues,     \* _queues: the deque of each partition
    workers,    \* _workers: "none", "scheduled" (created, not yet run), "draining"
    current,    \* the task whose handler the worker of a partition is awaiting
    callers     \* the request that submitted a task and awaits wait_idle

vars == <<rank, accepted, status, attempts, queues, workers, current, callers>>

Finished == {"completed", "failed"}
Statuses == {"absent", "queued", "running"} \cup Finished
WorkerStates == {"none", "scheduled", "draining"}
CallerStates == {"none", "waiting", "released", "returned", "raised", "missing"}

Init ==
    /\ rank = [t \in Tasks |-> 0]
    /\ accepted = 0
    /\ status = [t \in Tasks |-> "absent"]
    /\ attempts = [t \in Tasks |-> 0]
    /\ queues = [p \in Partitions |-> <<>>]
    /\ workers = [p \in Partitions |-> "none"]
    /\ current = [p \in Partitions |-> NoTask]
    /\ callers = [t \in Tasks |-> "none"]

-----------------------------------------------------------------------------
(* Submitting *)

\* enqueue: the task joins the deque of its partition, and a worker is
\* created when the partition has none.
NewWorkerOnce(p) == IF \A t \in Tasks : PartitionOf[t] = p => rank[t] = 0
                    THEN "scheduled" ELSE workers[p]       \* mutant: only the first command

NewWorker(p) == IF workers[p] = "none" THEN "scheduled" ELSE workers[p]

JoinTwice(q, t) == q \o <<t, t>>      \* mutant: appended by enqueue and by its caller

Join(q, t) == Append(q, t)

Enqueue(t) ==
    LET p == PartitionOf[t]
    IN  /\ status[t] = "absent"
        /\ accepted' = accepted + 1
        /\ rank' = [rank EXCEPT ![t] = accepted + 1]
        /\ status' = [status EXCEPT ![t] = "queued"]
        /\ queues' = [queues EXCEPT ![p] = Join(@, t)]
        /\ workers' = [workers EXCEPT ![p] = NewWorker(p)]
        /\ UNCHANGED <<attempts, current>>

\* A case input or a Knowledge drain is accepted and left to the worker.
Submit(t) ==
    /\ t \notin Awaited
    /\ Enqueue(t)
    /\ UNCHANGED callers

\* wait_idle returns at once when the partition has no worker.
WaitIdleRunning(p) == IF workers'[p] = "draining" THEN "waiting" ELSE "released"  \* mutant

WaitIdle(p) == IF workers'[p] = "none" THEN "released" ELSE "waiting"

\* A case update or delete also awaits the worker of its partition, without
\* a suspension point between enqueue and wait_idle.
SubmitAndWait(t) ==
    /\ t \in Awaited
    /\ Enqueue(t)
    /\ callers' = [callers EXCEPT ![t] = WaitIdle(PartitionOf[t])]

-----------------------------------------------------------------------------
(* The worker coroutine _drain *)

AwaitsSuccess(t, p) ==     \* mutant: the callers of failed commands are not woken up
    PartitionOf[t] = p /\ callers[t] = "waiting" /\ status[t] # "failed"

\* The request of command t is suspended on the worker of p.
Awaits(t, p) == PartitionOf[t] = p /\ callers[t] = "waiting"

\* The head of its loop, given the task statuses st: run the next task, or
\* forget the deque and the worker and let everybody in wait_idle continue.
TakeOrExit(p, st) ==
    \/ /\ queues[p] # <<>>
       /\ current' = [current EXCEPT ![p] = Head(queues[p])]
       /\ queues' = [queues EXCEPT ![p] = Tail(@)]
       /\ status' = [st EXCEPT ![Head(queues[p])] = "running"]
       /\ attempts' = [attempts EXCEPT ![Head(queues[p])] = @ + 1]
       /\ workers' = [workers EXCEPT ![p] = "draining"]
       /\ UNCHANGED callers
    \/ /\ queues[p] = <<>>
       /\ current' = [current EXCEPT ![p] = NoTask]
       /\ status' = st
       /\ workers' = [workers EXCEPT ![p] = "none"]
       /\ callers' = [t \in Tasks |-> IF Awaits(t, p) THEN "released" ELSE callers[t]]
       /\ UNCHANGED <<queues, attempts>>

Start(p) ==
    /\ workers[p] = "scheduled"
    /\ TakeOrExit(p, status)
    /\ UNCHANGED <<rank, accepted>>

\* The handler returns (completed) or raises an Exception (failed).  Whatever
\* it raised, the worker goes on with the next task.
HandlerEndsUncaught(p, outcome) ==     \* mutant: a failing handler ends the worker
    /\ workers[p] = "draining"
    /\ \/ /\ outcome = "completed"
          /\ TakeOrExit(p, [status EXCEPT ![current[p]] = outcome])
       \/ /\ outcome = "failed"
          /\ status' = [status EXCEPT ![current[p]] = outcome]
          /\ workers' = [workers EXCEPT ![p] = "none"]
          /\ current' = [current EXCEPT ![p] = NoTask]
          /\ UNCHANGED <<attempts, queues, callers>>
    /\ UNCHANGED <<rank, accepted>>

HandlerEnds(p, outcome) ==
    /\ workers[p] = "draining"
    /\ TakeOrExit(p, [status EXCEPT ![current[p]] = outcome])
    /\ UNCHANGED <<rank, accepted>>

-----------------------------------------------------------------------------
(* A request after wait_idle: update_case_queued and delete_case_queued turn
   a failed task into a RuntimeError and return result["value"] otherwise,
   which only a handler that ran to its end has stored. *)
Answer(t) == CASE status[t] = "failed"    -> "raised"
               [] status[t] = "completed" -> "returned"
               [] OTHER                   -> "missing"

CallerResumes(t) ==
    /\ callers[t] = "released"
    /\ callers' = [callers EXCEPT ![t] = Answer(t)]
    /\ UNCHANGED <<rank, accepted, status, attempts, queues, workers, current>>

-----------------------------------------------------------------------------
Next ==
    \/ \E t \in Tasks : Submit(t) \/ SubmitAndWait(t) \/ CallerResumes(t)
    \/ \E p \in Partitions : Start(p)
    \/ \E p \in Partitions, o \in Finished : HandlerEnds(p, o)

Safety == Init /\ [][Next]_vars

\* The event loop runs every coroutine that can run, and task handlers
\* terminate: they do bounded file work and calls with a timeout.
Fairness ==
    /\ \A p \in Partitions : /\ WF_vars(Start(p))
                             /\ WF_vars(\E o \in Finished : HandlerEnds(p, o))
    /\ \A t \in Tasks : WF_vars(CallerResumes(t))

Spec == Safety /\ Fairness

-----------------------------------------------------------------------------
(* Properties *)

TypeOK ==
    /\ rank \in [Tasks -> Nat]
    /\ accepted \in Nat
    /\ status \in [Tasks -> Statuses]
    /\ attempts \in [Tasks -> Nat]
    /\ queues \in [Partitions -> Seq(Tasks)]
    /\ workers \in [Partitions -> WorkerStates]
    /\ current \in [Partitions -> Tasks \cup {NoTask}]
    /\ callers \in [Tasks -> CallerStates]

\* The commands of a partition run one at a time and in the order in which
\* they were submitted: nothing starts before everything older has finished,
\* which is what the handlers rely on when they read the case, schema and
\* workspace state they are about to change.
Fifo ==
    \A t, u \in Tasks :
        /\ PartitionOf[t] = PartitionOf[u]
        /\ 0 < rank[t] /\ rank[t] < rank[u]
        /\ status[u] # "queued"
        => status[t] \in Finished

\* A submitted command is never forgotten between a worker that is leaving
\* and an enqueue that still sees it: as long as it waits, its deque holds it
\* and the partition has a worker.
NoTaskStranded ==
    \A t \in Tasks : status[t] = "queued" =>
        /\ workers[PartitionOf[t]] # "none"
        /\ \E i \in 1..Len(queues[PartitionOf[t]]) : queues[PartitionOf[t]][i] = t

\* A request that waits for the whole partition to be idle continues only
\* after its own command has finished, so result["value"] is there unless
\* the command failed.
CallerFindsResult ==
    \A t \in Tasks : callers[t] \in {"released", "returned", "raised", "missing"} =>
        /\ status[t] \in Finished
        /\ callers[t] # "missing"

\* Every submitted command is executed.
EveryTaskFinishes ==
    \A t \in Tasks : status[t] = "queued" ~> status[t] \in Finished

\* Every request that waits gets an answer.  Only finitely many commands are
\* submitted in a run: wait_idle awaits the worker, not the command, and a
\* partition that never runs dry keeps the request waiting.
EveryCallerAnswered ==
    \A t \in Tasks : callers[t] = "waiting" ~> callers[t] \in {"returned", "raised"}

\* What SerialTasks sees of a command; one whose handler runs again has no
\* counterpart there.
Outcome == [t \in Tasks |-> CASE status[t] = "absent" -> "none"
                              [] attempts[t] > 1 -> "repeated"
                              [] attempts[t] <= 1 /\ status[t] \in Finished -> status[t]
                              [] OTHER -> "pending"]

Abstract == INSTANCE SerialTasks WITH outcome <- Outcome

\* The queue implements the serial execution of SerialTasks: each command is
\* executed once, in the order of its partition, whatever the others do.
ExecutesSerially == Abstract!Spec
=============================================================================
