------------------------- MODULE KnowledgeDecision -------------------------
(***************************************************************************)
(* The life of the Knowledge decisions of one partition: the drain         *)
(* workflow (internal/knowledge/workflow/drain_workflow.py) that creates   *)
(* them and moves them on, the decision service and the review lock        *)
(* (internal/knowledge/decision/) that persist them in two unrelated       *)
(* files, and the review route (internal/api/routes_knowledge.py).         *)
(*                                                                         *)
(* A server runs one event loop on one thread.  A drain leaves the thread  *)
(* to requests only while it awaits governance; every other stretch of     *)
(* code occupies the thread, and only another server process or a crash    *)
(* can come between two of its file accesses.  The partition task queue    *)
(* of a server runs one drain at a time.                                   *)
(***************************************************************************)
EXTENDS Naturals

CONSTANTS Servers,      \* server processes that share the workspace directory
          Decisions,    \* decision ids, each created by at most one drain
          NoDecision,   \* the review lock when its file does not exist
          MaxIncidents  \* bound on crashes and failing rollbacks

ASSUME DecisionAssumption == NoDecision \notin Decisions /\ MaxIncidents \in Nat

VARIABLES
    lock,       \* audit/review_locks/{partition}.json: the decision it names
    record,     \* audit/decisions/{id}.json: status, "absent" before create saved it
    verdict,    \* what governance concluded for a decision, "none" for an unused id
    commits,    \* decisions whose mutation is a Git commit of the partition
    unread,     \* ghost: of those, the ones whose commit raised when it read the revision back
    drain,      \* the drain of a server: its phase and its decision
    call,       \* the decision-service call the thread of a server is executing
    incidents   \* crashes and failing rollbacks so far

vars == <<lock, record, verdict, commits, unread, drain, call, incidents>>

Verdicts == {"no_change", "accepted", "requires_review"}
ReviewActions == {"approved", "discarded", "retry_requested"}
Statuses == {"absent", "requires_review", "accepted", "applying", "applied", "failed"}
            \cup ReviewActions

Phases == {"idle", "governing", "accepted", "applying", "failing"}
Mutating == {"applying", "failing"}      \* holds the PartitionMutationLock

Idle == [phase |-> "idle", decision |-> NoDecision]
NoCall == [by |-> "nobody", decision |-> NoDecision, to |-> "absent", at |-> "done"]

Init ==
    /\ lock = NoDecision
    /\ record = [d \in Decisions |-> "absent"]
    /\ verdict = [d \in Decisions |-> "none"]
    /\ commits = {}
    /\ unread = {}
    /\ drain = [s \in Servers |-> Idle]
    /\ call = [s \in Servers |-> NoCall]
    /\ incidents = 0

-----------------------------------------------------------------------------
(* KnowledgeDecisionService: create and transition, one file access a step *)

AllowedNoFailure(from) ==      \* mutant: no transition for an apply that fails
    CASE from = "accepted" -> {"applying", "failed"}
      [] from = "applying" -> {"applied"}
      [] from = "requires_review" -> ReviewActions
      [] OTHER -> {}

\* _allowed, without the targets nobody asks for.
Allowed(from) ==
    CASE from = "accepted" -> {"applying", "failed"}
      [] from = "applying" -> {"applied", "failed"}
      [] from = "requires_review" -> ReviewActions \cup {"accepted"}
      [] from = "approved" -> {"applying", "failed"}
      [] from = "applied" -> {"failed"}
      [] OTHER -> {}

ReleasingUnlessDiscarded(to) ==      \* mutant: discarding leaves the partition frozen
    to \in {"approved", "retry_requested", "applied", "failed"}

\* transition releases the review lock for these targets, of those asked for.
Releasing(to) == to \in ReviewActions \cup {"applied", "failed"}

\* A call that returns.  The drain whose apply failed re-raises after it.
Return(s) ==
    /\ call' = [call EXCEPT ![s] = NoCall]
    /\ drain' = IF call[s].by = "drain" /\ drain[s].phase = "failing"
                THEN [drain EXCEPT ![s] = Idle] ELSE drain

\* A call that raises: the drain that made it ends, a request answers 409 or 500.
Raise(s) ==
    /\ call' = [call EXCEPT ![s] = NoCall]
    /\ drain' = IF call[s].by = "drain" THEN [drain EXCEPT ![s] = Idle] ELSE drain

Goto(s, at) == call' = [call EXCEPT ![s].at = at] /\ UNCHANGED drain

Calling(s, at) == call[s].at = at

\* create of a requires_review record: acquire refuses another decision's lock.
AcquireGet(s) ==
    /\ Calling(s, "acquire")
    /\ IF lock \in {NoDecision, call[s].decision} THEN Goto(s, "write") ELSE Raise(s)
    /\ UNCHANGED <<lock, record, verdict, commits, unread, incidents>>

AcquireWrite(s) ==
    /\ Calling(s, "write")
    /\ lock' = call[s].decision
    /\ Goto(s, "save")
    /\ UNCHANGED <<record, verdict, commits, unread, incidents>>

\* transition: read the record, check the transition, ...
Get(s) ==
    /\ Calling(s, "get")
    /\ IF call[s].to \in Allowed(record[call[s].decision])
       THEN Goto(s, IF Releasing(call[s].to) THEN "release" ELSE "save")
       ELSE Raise(s)
    /\ UNCHANGED <<lock, record, verdict, commits, unread, incidents>>

\* ... read the lock and refuse to release another decision's, ...
ReleaseGet(s) ==
    /\ Calling(s, "release")
    /\ \/ lock = NoDecision /\ Goto(s, "save")
       \/ lock = call[s].decision /\ Goto(s, "unlink")
       \/ lock \notin {NoDecision, call[s].decision} /\ Raise(s)
    /\ UNCHANGED <<lock, record, verdict, commits, unread, incidents>>

\* ... remove it, whoever holds it by now, ...
Unlink(s) ==
    /\ Calling(s, "unlink")
    /\ lock' = NoDecision
    /\ Goto(s, "save")
    /\ UNCHANGED <<record, verdict, commits, unread, incidents>>

\* ... and last save the record.
Save(s) ==
    /\ Calling(s, "save")
    /\ record' = [record EXCEPT ![call[s].decision] = call[s].to]
    /\ Return(s)
    /\ UNCHANGED <<lock, verdict, commits, unread, incidents>>

Service(s) ==
    AcquireGet(s) \/ AcquireWrite(s) \/ Get(s) \/ ReleaseGet(s) \/ Unlink(s) \/ Save(s)

\* The calls start at the first file access they make.
CreateUnlocked(by, d, status) ==      \* mutant: the review does not freeze the partition
    [by |-> by, decision |-> d, to |-> status, at |-> "save"]

Create(by, d, status) ==
    [by |-> by, decision |-> d, to |-> status,
     at |-> IF status = "requires_review" THEN "acquire" ELSE "save"]

Transition(by, d, status) == [by |-> by, decision |-> d, to |-> status, at |-> "get"]

-----------------------------------------------------------------------------
(* run_batch *)

Free(s) == call[s] = NoCall

DrainAnyway(s) ==      \* mutant: no ensure_partition_available
    /\ Free(s)
    /\ drain[s] = Idle
    /\ drain' = [drain EXCEPT ![s].phase = "governing"]
    /\ UNCHANGED <<lock, record, verdict, commits, unread, call, incidents>>

\* A drain ends here when the partition is frozen, and awaits governance otherwise.
StartDrain(s) ==
    /\ Free(s)
    /\ drain[s] = Idle
    /\ lock = NoDecision
    /\ drain' = [drain EXCEPT ![s].phase = "governing"]
    /\ UNCHANGED <<lock, record, verdict, commits, unread, call, incidents>>

\* Governance raises, or the schema or a clean workspace is missing.
GovernanceRaises(s) ==
    /\ Free(s)
    /\ drain[s].phase = "governing"
    /\ drain' = [drain EXCEPT ![s] = Idle]
    /\ UNCHANGED <<lock, record, verdict, commits, unread, call, incidents>>

\* The verdict becomes a new record: a review ends the drain, anything else
\* is recorded as accepted and goes on, no_change included.
Decide(s, d, v) ==
    /\ Free(s)
    /\ drain[s].phase = "governing"
    /\ verdict[d] = "none"
    /\ verdict' = [verdict EXCEPT ![d] = v]
    /\ IF v = "requires_review"
       THEN /\ call' = [call EXCEPT ![s] = Create("drain", d, "requires_review")]
            /\ drain' = [drain EXCEPT ![s] = Idle]
       ELSE /\ call' = [call EXCEPT ![s] = Create("drain", d, "accepted")]
            /\ drain' = [drain EXCEPT ![s] = [phase |-> "accepted", decision |-> d]]
    /\ UNCHANGED <<lock, record, commits, unread, incidents>>

\* The PartitionMutationLock admits one server.
EnterMutation(s) ==
    /\ Free(s)
    /\ drain[s].phase = "accepted"
    /\ \A r \in Servers : drain[r].phase \notin Mutating
    /\ drain' = [drain EXCEPT ![s].phase = "applying"]
    /\ call' = [call EXCEPT ![s] = Transition("drain", drain[s].decision, "applying")]
    /\ UNCHANGED <<lock, record, verdict, commits, unread, incidents>>

\* The plan is applied and committed, and the mutation lock released: every
\* apply refreshes the indexes, which carry timestamps, so there is
\* something to commit even when no case and no schema changes.
AppliedInTry(s) ==      \* mutant: the transition to applied is inside the try
    /\ Free(s)
    /\ drain[s].phase = "applying"
    /\ commits' = commits \cup {drain[s].decision}
    /\ \/ /\ drain' = [drain EXCEPT ![s] = Idle]
          /\ call' = [call EXCEPT ![s] = Transition("drain", drain[s].decision, "applied")]
       \/ /\ drain' = [drain EXCEPT ![s].phase = "failing"]
          /\ call' = [call EXCEPT ![s] = Transition("drain", drain[s].decision, "failed")]
    /\ UNCHANGED <<lock, record, verdict, unread, incidents>>

ApplyCommits(s) ==
    /\ Free(s)
    /\ drain[s].phase = "applying"
    /\ commits' = commits \cup {drain[s].decision}
    /\ drain' = [drain EXCEPT ![s] = Idle]
    /\ call' = [call EXCEPT ![s] = Transition("drain", drain[s].decision, "applied")]
    /\ UNCHANGED <<lock, record, verdict, unread, incidents>>

\* What an exception inside the try leaves in Git: the check of the workspace,
\* the plan or the commit raised, or the commit was made and reading its
\* revision back (git rev-parse, the last line of commit) raised.
Raised(s) ==
    \/ UNCHANGED <<commits, unread>>
    \/ /\ commits' = commits \cup {drain[s].decision}
       /\ unread' = unread \cup {drain[s].decision}

\* The files are rolled back to the base revision, HEAD is left alone, and
\* the decision is recorded as failed either way.
ApplyFails(s) ==
    /\ Free(s)
    /\ drain[s].phase = "applying"
    /\ Raised(s)
    /\ drain' = [drain EXCEPT ![s].phase = "failing"]
    /\ call' = [call EXCEPT ![s] = Transition("drain", drain[s].decision, "failed")]
    /\ UNCHANGED <<lock, record, verdict, incidents>>

\* The rollback raises as well: nobody records the failure.
RollbackFails(s) ==
    /\ Free(s)
    /\ drain[s].phase = "applying"
    /\ incidents < MaxIncidents
    /\ incidents' = incidents + 1
    /\ Raised(s)
    /\ drain' = [drain EXCEPT ![s] = Idle]
    /\ UNCHANGED <<lock, record, verdict, call>>

Drain(s) ==
    \/ StartDrain(s) \/ GovernanceRaises(s)
    \/ \E d \in Decisions, v \in Verdicts : Decide(s, d, v)
    \/ EnterMutation(s) \/ ApplyCommits(s) \/ ApplyFails(s) \/ RollbackFails(s)

-----------------------------------------------------------------------------
\* POST .../drains/{id}/review: only a record that awaits its review.
Review(s, d, action) ==
    /\ Free(s)
    /\ drain[s].phase \in {"idle", "governing"}
    /\ record[d] = "requires_review"
    /\ call' = [call EXCEPT ![s] = Transition("review", d, action)]
    /\ UNCHANGED <<lock, record, verdict, commits, unread, drain, incidents>>

\* The process dies and is started again; the files stay as they are.
Crash(s) ==
    /\ incidents < MaxIncidents
    /\ drain[s] # Idle \/ ~Free(s)
    /\ incidents' = incidents + 1
    /\ drain' = [drain EXCEPT ![s] = Idle]
    /\ call' = [call EXCEPT ![s] = NoCall]
    /\ UNCHANGED <<lock, record, verdict, commits, unread>>

Next ==
    \E s \in Servers :
        \/ Service(s) \/ Drain(s) \/ Crash(s)
        \/ \E d \in Decisions, a \in ReviewActions : Review(s, d, a)

Safety == Init /\ [][Next]_vars

\* A thread that has work does it, and an apply that does not crash ends,
\* with a commit or with an exception.
\* Nothing makes the reviewer decide, a drain start or governance answer.
Fairness ==
    \A s \in Servers : /\ WF_vars(Service(s))
                       /\ WF_vars(EnterMutation(s))
                       /\ WF_vars(ApplyCommits(s) \/ ApplyFails(s))

Spec == Safety /\ Fairness

-----------------------------------------------------------------------------
(* Properties that hold for any number of servers *)

Calls == [by : {"nobody", "drain", "review"}, decision : Decisions \cup {NoDecision},
          to : Statuses,
          at : {"done", "acquire", "write", "get", "release", "unlink", "save"}]

TypeOK ==
    /\ lock \in Decisions \cup {NoDecision}
    /\ record \in [Decisions -> Statuses]
    /\ verdict \in [Decisions -> Verdicts \cup {"none"}]
    /\ commits \subseteq Decisions
    /\ unread \subseteq commits
    /\ drain \in [Servers -> [phase : Phases, decision : Decisions \cup {NoDecision}]]
    /\ call \in [Servers -> Calls]
    /\ incidents \in Nat

\* A partition is never frozen by a decision that is settled: the decision
\* its lock names awaits its review, or its creator died (or still is)
\* between the lock and the record.
ReviewLockIsPending ==
    lock # NoDecision => record[lock] \in {"absent", "requires_review"}

\* The audit record tells the truth about Git: applied means that the
\* mutation is committed, and a committed mutation is recorded as applying or
\* applied, wherever a server died, a rollback failed or a transition raised.
\* One exception inside the try defeats it: a commit that is made and then
\* raises while its revision is read back is recorded as failed (and never as
\* applied) although HEAD holds it.
AuditMatchesGit ==
    \A d \in Decisions :
        /\ record[d] = "applied" => d \in commits \ unread
        /\ d \in commits => record[d] \in {"applying", "applied"} \/ d \in unread
        /\ d \in unread => record[d] \in {"applying", "failed"}

-----------------------------------------------------------------------------
(* Properties of a workspace with one server *)

\* Between two requests, and as long as nothing crashed, a decision awaits
\* its review exactly when it freezes the partition: the two files agree.
PendingReviewFreezes ==
    incidents = 0 /\ (\A s \in Servers : Free(s)) =>
        \A d \in Decisions : record[d] = "requires_review" <=> lock = d

\* Frozen means that no drain is writing: the lock is read once, before
\* governance, and must still be free when the plan is applied.
FrozenPartitionIsNotMutated ==
    lock # NoDecision => \A s \in Servers : drain[s].phase \notin Mutating

\* A decision whose drain went on to apply it ends applied or failed,
\* unless the process died or could not roll back.
AcceptedIsSettled ==
    \A d \in Decisions :
        record[d] = "accepted" ~> record[d] \in {"applied", "failed"} \/ incidents > 0

=============================================================================
