---------------------------- MODULE EventBacklog ----------------------------
(***************************************************************************)
(* From a case change to the Knowledge drain that has taken it into        *)
(* account, in one partition of one server: the commands of the partition  *)
(* queue (case inputs, case edits and drains), the publication of events   *)
(* into the inbox (internal/domain/event, internal/backlog/events), the    *)
(* assembly of batches by the event worker, and the outcome that           *)
(* KnowbaseKnowledgeService writes back into the event records.            *)
(*                                                                         *)
(* PartitionTaskQueue shows that the queue is serial and FIFO: here it is  *)
(* a sequence whose head is being executed.  attempt_count, run_id and the *)
(* error texts of a record are shown to the operator and read by nobody.   *)
(***************************************************************************)
EXTENDS Naturals, Sequences, FiniteSets

CONSTANTS Events,       \* case changes, named by the event each publishes
          Edits,        \* those that are an update or a delete, not a new case
          Limit,        \* events of a batch at most
          Window,       \* records list_ready_events looks at: max(limit * 3, 100)
          MaxDrains,    \* bound on calls of run_once
          MaxIncidents  \* bound on crashes, deletions, requeues, late exceptions and losses

ASSUME BacklogAssumption ==
    /\ Edits \subseteq Events
    /\ Limit \in Nat \ {0} /\ Window \in Nat /\ Limit <= Window
    /\ MaxDrains \in Nat /\ MaxIncidents \in Nat

VARIABLES
    change,     \* a case change: "none", "queued", "failed" (or lost), "committed"
    waiting,    \* committed edits whose request is still in wait_idle
    released,   \* committed edits whose request has left wait_idle
    record,     \* EventRecord.status, "absent" before and "deleted" after its file
                \* exists, "overwritten" once the file is that of another event
    untold,     \* committed changes whose event an incident has lost
    deferred,   \* events whose next_retry_at lies in the future
    published,  \* the events in the order of created_at
    queue,      \* the commands of the partition, the head is being executed
    phase,      \* of the head: "taken" next, "governing" or "committed"
    frozen,     \* a review decision freezes the partition
    governed,   \* how many committed drains had the event in their batch
    happened,   \* what disturbed the course of events so far
    drains, incidents

changes == <<change, waiting, released>>
records == <<record, deferred, published>>
worker == <<queue, phase>>
ledger == <<untold, drains, incidents>>
vars == <<changes, records, worker, frozen, governed, happened, ledger>>

Kinds == {"input", "edit", "drain"}
\* What a command is about: the event of one case change, or a batch.
Command(kind, of) == [kind |-> kind, of |-> of]

Init ==
    /\ change = [e \in Events |-> "none"]
    /\ waiting = {} /\ released = {}
    /\ record = [e \in Events |-> "absent"]
    /\ deferred = {}
    /\ published = <<>>
    /\ queue = <<>> /\ phase = "taken"
    /\ frozen = FALSE
    /\ governed = [e \in Events |-> 0]
    /\ happened = {} /\ untold = {}
    /\ drains = 0 /\ incidents = 0

Counted == incidents < MaxIncidents /\ incidents' = incidents + 1

Incident(what) == Counted /\ happened' = happened \cup {what}

\* An incident that leaves changes without their event.
Loses(lost) == Counted /\ untold' = untold \cup lost /\ UNCHANGED happened

-----------------------------------------------------------------------------
(* The head of the partition queue *)

Executes(kind, at) == queue # <<>> /\ Head(queue).kind = kind /\ phase = at
Batch == Head(queue).of

\* The event is in a batch that has been submitted.
Outstanding(e) == \E i \in DOMAIN queue : queue[i].kind = "drain" /\ e \in queue[i].of

\* Requests get the thread before the worker takes a command and while it
\* awaits governance.
AtRequest == phase \in {"taken", "governing"}

\* The head is done, and the requests of the edits it has committed are in
\* wait_idle: they leave it together, when the queue has run dry.
FinishWakingOne(edits) ==      \* mutant: the worker wakes one of its waiters
    /\ queue' = Tail(queue)
    /\ phase' = "taken"
    /\ LET all == waiting \cup edits
       IN  IF Tail(queue) # <<>> \/ all = {}
           THEN waiting' = all /\ UNCHANGED released
           ELSE waiting' = {} /\ released' = released \cup {CHOOSE e \in all : TRUE}

Finish(edits) ==
    /\ queue' = Tail(queue)
    /\ phase' = "taken"
    /\ LET all == waiting \cup edits
       IN  IF Tail(queue) = <<>>
           THEN waiting' = {} /\ released' = released \cup all
           ELSE waiting' = all /\ UNCHANGED released

-----------------------------------------------------------------------------
(* Case changes and the events they publish *)

Submit(e) ==
    /\ AtRequest
    /\ change[e] = "none"
    /\ change' = [change EXCEPT ![e] = "queued"]
    /\ queue' = Append(queue, Command(IF e \in Edits THEN "edit" ELSE "input", {e}))
    /\ UNCHANGED <<waiting, released, records, phase, frozen, governed, happened, ledger>>

\* record_event saves a pending record.
Publish(e) ==
    /\ record' = [record EXCEPT ![e] = "pending"]
    /\ published' = Append(published, e)
    /\ UNCHANGED deferred

\* The case change at the head.
Becomes(status) ==
    change' = [e \in Events |-> IF e \in Batch THEN status ELSE change[e]]

\* The handler of a case input commits and publishes, ...
InputCommits ==
    /\ Executes("input", "taken")
    /\ Becomes("committed")
    /\ phase' = "committed"
    /\ UNCHANGED <<waiting, released, records, queue, frozen, governed, happened, ledger>>

InputPublishes ==
    /\ Executes("input", "committed")
    /\ \E e \in Batch : Publish(e)
    /\ Finish({})
    /\ UNCHANGED <<change, frozen, governed, happened, ledger>>

\* ... or fails to save the record, ...
InputUnsaved ==
    /\ Executes("input", "committed")
    /\ Loses(Batch)
    /\ Finish({})
    /\ UNCHANGED <<change, records, frozen, governed, drains>>

\* ... the handler of an edit leaves the publication to its request.
EditCommits ==
    /\ Executes("edit", "taken")
    /\ Becomes("committed")
    /\ Finish(Batch)
    /\ UNCHANGED <<records, frozen, governed, happened, ledger>>

EditPublishes(e) ==
    /\ AtRequest
    /\ e \in released
    /\ released' = released \ {e}
    /\ Publish(e)
    /\ UNCHANGED <<change, waiting, worker, frozen, governed, happened, ledger>>

EditUnsaved(e) ==
    /\ AtRequest
    /\ e \in released
    /\ released' = released \ {e}
    /\ Loses({e})
    /\ UNCHANGED <<change, waiting, records, worker, frozen, governed, drains>>

\* An event without an id is saved as event-<millisecond>: one that is saved in
\* the same millisecond, of this or of another partition, takes the file of the
\* latest.  (Assumed: no batch has taken it within that millisecond.)
OverwriteEvent(e) ==
    /\ published # <<>> /\ e = published[Len(published)]
    /\ record[e] = "pending" /\ ~Outstanding(e)
    /\ record' = [record EXCEPT ![e] = "overwritten"]
    /\ Loses({e})
    /\ UNCHANGED <<changes, deferred, published, worker, frozen, governed, drains>>

FailingReported(kind) == IF kind = "edit" THEN Batch ELSE {}      \* mutant: status unread

\* The requests that will publish although their command failed: the request
\* of a failed edit raises instead.
Failing(kind) == {}

CaseFails ==
    /\ Executes("input", "taken") \/ Executes("edit", "taken")
    /\ Becomes("failed")
    /\ Finish(Failing(Head(queue).kind))
    /\ UNCHANGED <<records, frozen, governed, happened, ledger>>

\* The commit is made, reading its revision back raises, and so do the handler
\* and the request.
CaseRaisesLate ==
    /\ Executes("input", "taken") \/ Executes("edit", "taken")
    /\ Becomes("committed")
    /\ Loses(Batch)
    /\ Finish(Failing(Head(queue).kind))
    /\ UNCHANGED <<records, frozen, governed, drains>>

-----------------------------------------------------------------------------
(* KnowbaseEventWorker.run_once *)

\* Pending or failed, and its retry is due.
Ready(e) == record[e] \in {"pending", "failed"} /\ e \notin deferred

\* The events published after e, and the newest n of a set of events.
Newer(e) ==
    {x \in Events : \E i, j \in DOMAIN published :
                       i < j /\ published[i] = e /\ published[j] = x}
Newest(n, S) == {e \in S : Cardinality(S \cap Newer(e)) < n}

Exists(e) == record[e] \notin {"absent", "deleted", "overwritten"}

\* The newest records are listed first, the ready ones among them selected last.
Listed == Newest(Window, {e \in Events : Exists(e)})
Assembled == Newest(Limit, {e \in Listed : Ready(e)})

\* mark_batch_running: nothing tells a running event from a waiting one.
Marked == "pending"

\* The batch is marked and submitted.
RunOnce ==
    /\ AtRequest
    /\ drains < MaxDrains
    /\ Assembled # {}
    /\ drains' = drains + 1
    /\ record' = [e \in Events |-> IF e \in Assembled THEN Marked ELSE record[e]]
    /\ queue' = Append(queue, Command("drain", Assembled))
    /\ happened' = happened \cup
          (IF \E e \in Assembled : Outstanding(e) THEN {"overlap"} ELSE {})
    /\ UNCHANGED <<changes, deferred, published, phase, frozen, governed, untold, incidents>>

-----------------------------------------------------------------------------
(* KnowbaseKnowledgeService._process_batch *)

\* complete_batch and fail_batch go through the batch, the newest event first,
\* and raise at an event that has been deleted meanwhile.
BeforeMissing ==
    {e \in Batch : \A x \in Batch \cap ({e} \cup Newer(e)) : record[x] # "deleted"}

Settle(status) ==
    record' = [e \in Events |-> IF e \in BeforeMissing THEN status ELSE record[e]]

\* The retry is due 15 minutes after the batch was assembled, which may
\* have passed.
FailBatch ==
    /\ Settle("failed")
    /\ deferred' \in {deferred \ BeforeMissing, deferred \cup BeforeMissing}
    /\ UNCHANGED published

\* When complete_batch raises, fail_batch follows it.
CompleteNothing == UNCHANGED records      \* mutant: the records are not written back

CompleteBatch ==
    IF BeforeMissing = Batch
    THEN Settle("completed") /\ deferred' = deferred \ BeforeMissing /\ UNCHANGED published
    ELSE FailBatch

DeferNothing == UNCHANGED records      \* mutant: a refused batch is only logged
Defer == FailBatch

\* A frozen partition refuses the drain ...
DrainBlocked ==
    /\ Executes("drain", "taken")
    /\ frozen
    /\ Defer
    /\ Finish({})
    /\ UNCHANGED <<change, frozen, governed, happened, ledger>>

\* ... otherwise governance is awaited, ...
DrainGoverns ==
    /\ Executes("drain", "taken")
    /\ ~frozen
    /\ phase' = "governing"
    /\ UNCHANGED <<changes, records, queue, frozen, governed, happened, ledger>>

\* ... which asks for a review, ...
DrainReviewed ==
    /\ Executes("drain", "governing")
    /\ frozen' = TRUE
    /\ FailBatch
    /\ Finish({})
    /\ UNCHANGED <<change, governed, happened, ledger>>

\* ... raises, or whose mutation does, ...
DrainRaises ==
    /\ Executes("drain", "governing")
    /\ FailBatch
    /\ Finish({})
    /\ UNCHANGED <<change, frozen, governed, happened, ledger>>

\* ... or ends in a Git commit and a completed batch, ...
DrainCommits ==
    /\ Executes("drain", "governing")
    /\ phase' = "committed"
    /\ governed' = [e \in Events |-> IF e \in Batch THEN governed[e] + 1 ELSE governed[e]]
    /\ UNCHANGED <<changes, records, queue, frozen, happened, ledger>>

DrainCompletes ==
    /\ Executes("drain", "committed")
    /\ CompleteBatch
    /\ Finish({})
    /\ UNCHANGED <<change, frozen, governed, happened, ledger>>

\* ... unless the transition to applied raises after the commit.
DrainRaisesLate ==
    /\ Executes("drain", "committed")
    /\ Incident("late")
    /\ FailBatch
    /\ Finish({})
    /\ UNCHANGED <<change, frozen, governed, untold, drains>>

Worker ==
    \/ InputCommits \/ InputPublishes \/ InputUnsaved
    \/ EditCommits \/ CaseFails \/ CaseRaisesLate
    \/ DrainBlocked \/ DrainGoverns \/ DrainReviewed \/ DrainRaises
    \/ DrainCommits \/ DrainCompletes \/ DrainRaisesLate

-----------------------------------------------------------------------------
(* The operator, the clock and the process *)

Review ==
    /\ AtRequest /\ frozen
    /\ frozen' = FALSE
    /\ UNCHANGED <<changes, records, worker, governed, happened, ledger>>

RetryDue(e) ==
    /\ e \in deferred
    /\ deferred' = deferred \ {e}
    /\ UNCHANGED <<changes, record, published, worker, frozen, governed, happened, ledger>>

RequeueEvent(e) ==
    /\ AtRequest
    /\ Exists(e)
    /\ Incident("requeue")
    /\ record' = [record EXCEPT ![e] = "pending"]
    /\ deferred' = deferred \ {e}
    /\ UNCHANGED <<changes, published, worker, frozen, governed, untold, drains>>

DeleteEvent(e) ==
    /\ AtRequest
    /\ Exists(e)
    /\ Incident("delete")
    /\ record' = [record EXCEPT ![e] = "deleted"]
    /\ deferred' = deferred \ {e}
    /\ UNCHANGED <<changes, published, worker, frozen, governed, untold, drains>>

\* Nothing of the queue and of the requests survives the process.
Crash ==
    /\ queue # <<>> \/ released # {}
    /\ Incident("crash")
    /\ untold' = untold \cup {e \in Events : change[e] = "committed" /\ record[e] = "absent"}
    /\ change' = [e \in Events |-> IF change[e] = "queued" THEN "failed" ELSE change[e]]
    /\ waiting' = {} /\ released' = {}
    /\ queue' = <<>> /\ phase' = "taken"
    /\ UNCHANGED <<records, frozen, governed, drains>>

Next ==
    \/ \E e \in Events : Submit(e) \/ EditPublishes(e) \/ RequeueEvent(e) \/ DeleteEvent(e)
    \/ \E e \in Events : EditUnsaved(e) \/ OverwriteEvent(e) \/ RetryDue(e)
    \/ RunOnce \/ Worker \/ Review \/ Crash

Safety == Init /\ [][Next]_vars

\* The event loop runs its coroutines, and governance answers: its model
\* calls have a timeout.
Spec == Safety /\ WF_vars(Worker) /\ \A e \in Events : WF_vars(EditPublishes(e))

-----------------------------------------------------------------------------
(* Properties *)

TypeOK ==
    /\ change \in [Events -> {"none", "queued", "failed", "committed"}]
    /\ waiting \cup released \cup deferred \cup untold \subseteq Events
    /\ record \in [Events -> {"absent", "pending", "completed", "failed", "deleted", "overwritten"}]
    /\ published \in Seq(Events)
    /\ queue \in Seq([kind : Kinds, of : SUBSET Events])
    /\ phase \in {"taken", "governing", "committed"}
    /\ frozen \in BOOLEAN
    /\ governed \in [Events -> Nat]
    /\ drains \in 0..MaxDrains /\ incidents \in 0..MaxIncidents

\* An event tells Knowledge of a change that is in Git: nothing is published
\* for a command that failed, was lost, or has yet to run.
EventFollowsCommit == \A e \in Events : record[e] # "absent" => change[e] = "committed"

\* And a change in Git is told, once the partition and its requests are idle:
\* commands and requests, in whatever order they end, lose none.  What does is
\* named in the model and marks the change: the process dies before the event
\* is saved, the revision of the commit cannot be read back, the event cannot be
\* saved, or another one of the same millisecond takes its file.
CommitIsReported ==
    queue = <<>> /\ released = {} =>
        \A e \in Events : change[e] = "committed" =>
            record[e] \notin {"absent", "overwritten"} \/ e \in untold

\* A change is governed by one committed drain, although failed batches are
\* retried and refused ones come back, as long as nobody interferes: a batch
\* assembled while another one holds the event, a requeue, a deletion in the
\* batch, a crash or an exception after the commit.
GovernedOnce == happened = {} => \A e \in Events : governed[e] <= 1

\* Every event of a submitted batch is settled, refused batches included,
\* unless an event of the batch is deleted or the process dies.
BatchesAreSettled ==
    \A e \in Events :
        record[e] = "pending" /\ Outstanding(e)
        ~> record[e] # "pending" \/ happened \cap {"delete", "crash"} # {}
=============================================================================
