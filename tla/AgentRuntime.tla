---------------------------- MODULE AgentRuntime ----------------------------
(***************************************************************************)
(* One request of the agent runtime (internal/runtime): the loop of plan,  *)
(* actions and termination, the completion gate behind it, and the         *)
(* verification subrun the gate may start, which is executed by the same   *)
(* service under the run id <parent>:subrun:verification.                  *)
(*                                                                         *)
(* A request is executed synchronously: nothing runs next to it.  What is  *)
(* open is what the model plans, how tools and skills end, and what raises *)
(* where.  A run is a row with its counters and a trace of steps, which    *)
(* outlive the memory of its execution.                                    *)
(***************************************************************************)
EXTENDS Naturals, Sequences

CONSTANTS Requests,     \* requests a caller may send
          Drafts        \* decisions the model may draft, cut to max_actions

Runs == 0..2            \* the run of the request, its child, and a child of that
Main == 0
Kinds == {"tool", "skill"}
Capabilities == Kinds \cup {"unknown"}       \* "unknown": on no allowed list

\* What bounds the work of a run.
Bounds == [steps: Nat, calls: [Kinds -> Nat], allowed: SUBSET Kinds]

\* acceptance: no checks; checks at completion; checks that also stop the loop.
RequestType == [work: Bounds, contract: BOOLEAN,
                acceptance: {"none", "required", "stops"},
                mode: {"deterministic", "subrun"}, child: Bounds,
                subruns: Nat, allowSubrun: BOOLEAN]

DraftType == [actions: Seq(Capabilities), stop: BOOLEAN, review: BOOLEAN, conforms: BOOLEAN]

ASSUME RuntimeAssumption == Requests \subseteq RequestType /\ Drafts \subseteq DraftType

VARIABLES
    request,    \* the request a run executes
    row,        \* AgentRun in the repository: status, step and call counters
    trace,      \* RunSteps in the repository: budgeted, other, and calls among them
    memory,     \* RuntimeRunState: failures, last skill verdict, subruns observed
    decision,   \* what is left of the decision of the turn
    pc,         \* where the execution of a run stands
    raised,     \* the execution ended with an exception
    satisfied   \* the file passes the completion checks

vars == <<request, row, trace, memory, decision, pc, raised, satisfied>>

Final == {"completed", "failed", "requires_review"}
Verdicts == {"none", "plain", "passed", "rejected", "retryable"}
Places == {"idle", "planning", "acting", "checking", "gate", "waiting", "ended"}

NoCalls == [k \in Kinds |-> 0]
NoSteps == [work |-> 0, extra |-> 0, calls |-> NoCalls]
NoRow == [status |-> "none", count |-> 0, calls |-> NoCalls]
Started == [NoRow EXCEPT !.status = "running"]
Fresh == [failed |-> FALSE, verdict |-> "none", subruns |-> 0]
NoDecision == [actions |-> <<>>, stop |-> TRUE, review |-> FALSE]

Init ==
    /\ \E q \in Requests : request = [r \in Runs |-> q]
    /\ row = [r \in Runs |-> NoRow]
    /\ trace = [r \in Runs |-> NoSteps]
    /\ memory = [r \in Runs |-> Fresh]
    /\ decision = [r \in Runs |-> NoDecision]
    /\ pc = [r \in Runs |-> "idle"]
    /\ raised = [r \in Runs |-> FALSE]
    /\ satisfied \in BOOLEAN

-----------------------------------------------------------------------------
(* Steps and budgets *)

Length(t) == t.work + t.extra

StoredOver(t, w, x) == t      \* mutant: each step overwrites the one before

\* append_step, w times for work and x times for what no budget covers.
Stored(t, w, x) == [work |-> t.work + w, extra |-> t.extra + x, calls |-> t.calls]

\* It writes the number of stored steps into the row.
Counted(w, t) == [w EXCEPT !.count = Length(t)]

AppendStep(r, w, x) ==
    /\ trace' = [trace EXCEPT ![r] = Stored(@, w, x)]
    /\ row' = [row EXCEPT ![r] = Counted(@, Stored(trace[r], w, x))]

\* One more call, in a trace or in a row.
Called(t, k) == [t EXCEPT !.calls[k] = @ + 1]

RoomLate(r, n) == row[r].count <= request[r].work.steps      \* mutant: ignores n

CallLeftLate(r, k) ==      \* mutant: one call too many
    row[r].calls[k] <= request[r].work.calls[k]

\* ensure_step_budget and ensure_tool_budget or ensure_skill_budget.
Room(r, n) == row[r].count + n <= request[r].work.steps
CallLeft(r, k) == row[r].calls[k] < request[r].work.calls[k]

\* The run ends with a status after x more steps.
Finish(r, s, x) ==
    /\ trace' = [trace EXCEPT ![r] = Stored(@, 0, x)]
    /\ row' = [row EXCEPT ![r].status = s, ![r].count = Length(Stored(trace[r], 0, x))]
    /\ pc' = [pc EXCEPT ![r] = "ended"]

RaiseStale(r, w) ==      \* mutant: saves the run it began with, not the stored one
    /\ trace' = [trace EXCEPT ![r] = Stored(@, w, 1)]
    /\ row' = [row EXCEPT ![r] = [Started EXCEPT !.status = "failed"]]
    /\ memory' = [memory EXCEPT ![r].failed = TRUE]
    /\ raised' = [raised EXCEPT ![r] = TRUE]
    /\ pc' = [pc EXCEPT ![r] = "ended"]
    /\ UNCHANGED <<request, decision, satisfied>>

\* _execute_request: an exception is recorded, whatever the budget, and raised again.
Raise(r, w) ==
    /\ trace' = [trace EXCEPT ![r] = Stored(@, w, 1)]
    /\ row' = [row EXCEPT ![r].status = "failed",
                          ![r].count = Length(Stored(trace[r], w, 1))]
    /\ memory' = [memory EXCEPT ![r].failed = TRUE]
    /\ raised' = [raised EXCEPT ![r] = TRUE]
    /\ pc' = [pc EXCEPT ![r] = "ended"]
    /\ UNCHANGED <<request, decision, satisfied>>

-----------------------------------------------------------------------------
(* The loop: RuntimeLoopEngine *)

Request ==
    /\ pc[Main] = "idle"
    /\ row[Main].status = "none"
    /\ row' = [row EXCEPT ![Main] = Started]
    /\ pc' = [pc EXCEPT ![Main] = "planning"]
    /\ UNCHANGED <<request, trace, memory, decision, raised, satisfied>>

\* DefaultRuntimeStopEvaluator.  A request in mode analysis_only skips the last
\* disjunct, and its actions are refused instead.
StopAssessed(r) ==
    \/ ~Room(r, 1)
    \/ r # Main /\ memory[r].verdict # "none"
    \/ \A k \in Kinds : ~CallLeft(r, k)

\* RuntimeDecisionNormalizer.
Normalized(d, q) ==
    LET stop == d.stop \/ d.actions = <<>>
    IN [actions |-> d.actions, stop |-> stop,
        review |-> d.review \/ (stop /\ q.contract /\ ~d.conforms)]

StopDraft == [actions |-> <<>>, stop |-> TRUE, review |-> FALSE, conforms |-> FALSE]

Plans(r) ==
    {Normalized(d, request[r]) : d \in IF StopAssessed(r) THEN {StopDraft} ELSE Drafts}

Plan(r) ==
    /\ pc[r] = "planning"
    /\ Room(r, 1)
    /\ \E d \in Plans(r) :
          /\ decision' = [decision EXCEPT ![r] = d]
          /\ pc' = [pc EXCEPT ![r] = IF d.actions = <<>> THEN "checking" ELSE "acting"]
    /\ AppendStep(r, 1, 0)
    /\ UNCHANGED <<request, memory, raised, satisfied>>

\* The model, its parser or the normalizer raises, or the decision has no step left;
\* or its step is stored and the completion checks, tried before it acts, raise.
PlanningRaises(r) ==
    /\ pc[r] = "planning"
    /\ \/ (~Room(r, 1) \/ ~StopAssessed(r)) /\ Raise(r, 0)
       \/ Room(r, 1) /\ request[r].acceptance = "stops" /\ Raise(r, 1)

Outcomes(k) == IF k = "skill" THEN {"failed", "plain", "passed", "rejected", "retryable"}
                              ELSE {"failed", "ok"}

\* Only a skill has side effects.
FileAfter(k) == IF k = "skill" THEN BOOLEAN ELSE {satisfied}

\* What execute_decision keeps of a result.
Remembered(m, k, o) ==
    [m EXCEPT !.failed = @ \/ o = "failed",
              !.verdict = IF k # "skill" THEN @ ELSE IF o = "failed" THEN "plain" ELSE o]

Allowed(r, k) == k \in request[r].work.allowed
CanCall(r, k) == Allowed(r, k) /\ Room(r, 3) /\ CallLeft(r, k)

\* execute_decision, one action: its step, the call and the result.
Act(r) ==
    /\ pc[r] = "acting"
    /\ LET k == Head(decision[r].actions)
           rest == Tail(decision[r].actions)
       IN /\ CanCall(r, k)
          /\ \E o \in Outcomes(k) : memory' = [memory EXCEPT ![r] = Remembered(@, k, o)]
          /\ satisfied' \in FileAfter(k)
          /\ trace' = [trace EXCEPT ![r] = Called(Stored(@, 3, 0), k)]
          /\ row' = [row EXCEPT ![r] = Called(Counted(@, Stored(trace[r], 3, 0)), k)]
          /\ decision' = [decision EXCEPT ![r].actions = rest]
          /\ pc' = [pc EXCEPT ![r] = IF rest = <<>> THEN "checking" ELSE "acting"]
    /\ UNCHANGED <<request, raised>>

\* An exception in execute_decision, after w steps of the action: a step records
\* it if the budget has room for it, else it ends the run.
RecordError(r, w) ==
    /\ Room(r, w + 1)
    /\ memory' = [memory EXCEPT ![r].failed = TRUE]
    /\ decision' = [decision EXCEPT ![r].actions = <<>>]
    /\ pc' = [pc EXCEPT ![r] = "checking"]
    /\ UNCHANGED <<request, raised, satisfied>>

\* The action is not allowed, or a budget has no room for it or for its call.
ActionRefused(r) ==
    /\ pc[r] = "acting"
    /\ LET k == Head(decision[r].actions)
           w == IF Allowed(r, k) /\ Room(r, 1) THEN 1 ELSE 0
       IN /\ ~CanCall(r, k)
          /\ \/ RecordError(r, w) /\ AppendStep(r, w + 1, 0)
             \/ ~Room(r, w + 1) /\ Raise(r, w)

\* A tool handler raises: the call is in the trace, its result and count are not.
ToolRaises(r) ==
    /\ pc[r] = "acting"
    /\ Head(decision[r].actions) = "tool"
    /\ CanCall(r, "tool")
    /\ RecordError(r, 2)
    /\ trace' = [trace EXCEPT ![r] = Called(Stored(@, 3, 0), "tool")]
    /\ row' = [row EXCEPT ![r] = Counted(@, Stored(trace[r], 3, 0))]

-----------------------------------------------------------------------------
(* RuntimeTerminationPolicy, behind the actions *)

StatusAcceptanceFirst(r) ==      \* mutant: acceptance outweighs a failure
    CASE request[r].acceptance = "stops" /\ satisfied -> "completed"
      [] memory[r].failed -> "failed"
      [] decision[r].review -> "requires_review"
      [] decision[r].stop -> "completed"
      [] OTHER -> "running"

\* should_stop, "running" for a loop that goes on.
LoopStatus(r) ==
    IF memory[r].failed THEN "failed"
    ELSE IF request[r].acceptance = "stops" /\ satisfied THEN "completed"
    ELSE IF decision[r].review THEN "requires_review"
    ELSE IF decision[r].stop THEN "completed"
    ELSE "running"

LoopContinues(r) ==
    /\ pc[r] = "checking"
    /\ LoopStatus(r) = "running"
    /\ pc' = [pc EXCEPT ![r] = "planning"]
    /\ UNCHANGED <<request, row, trace, memory, decision, raised, satisfied>>

LoopCompletes(r) ==
    /\ pc[r] = "checking"
    /\ LoopStatus(r) = "completed"
    /\ pc' = [pc EXCEPT ![r] = "gate"]
    /\ UNCHANGED <<request, row, trace, memory, decision, raised, satisfied>>

LoopStops(r) ==
    /\ pc[r] = "checking"
    /\ LoopStatus(r) \in {"failed", "requires_review"}
    /\ Finish(r, LoopStatus(r), 0)
    /\ UNCHANGED <<request, memory, decision, raised, satisfied>>

\* The file of the completion checks cannot be read.
VerifierRaises(r) ==
    /\ \/ pc[r] = "checking" /\ ~memory[r].failed /\ request[r].acceptance = "stops"
       \/ pc[r] = "gate" /\ request[r].acceptance # "none"
    /\ Raise(r, 0)

-----------------------------------------------------------------------------
(* RuntimeCompletionGate and RuntimeOrchestrator *)

Accepted(r) == request[r].acceptance = "none" \/ satisfied

\* retry_main: the feedback is a step that no budget covers, and the loop runs again.
GateRetries(r) ==
    /\ pc[r] = "gate"
    /\ ~Accepted(r)
    /\ AppendStep(r, 0, 1)
    /\ pc' = [pc EXCEPT ![r] = "planning"]
    /\ UNCHANGED <<request, memory, decision, raised, satisfied>>

GatePasses(r) ==
    /\ pc[r] = "gate"
    /\ Accepted(r)
    /\ request[r].mode = "deterministic"
    /\ Finish(r, "completed", 0)
    /\ UNCHANGED <<request, memory, decision, raised, satisfied>>

MaySpawn(r) == request[r].allowSubrun /\ memory[r].subruns < request[r].subruns

\* Subruns are disabled for this request, or used up.
GateRefusesSubrun(r) ==
    /\ pc[r] = "gate"
    /\ Accepted(r)
    /\ request[r].mode = "subrun"
    /\ ~MaySpawn(r)
    /\ Finish(r, "requires_review", 0)
    /\ UNCHANGED <<request, memory, decision, raised, satisfied>>

AtLeastOne(n) == IF n = 0 THEN 1 ELSE n

\* build_child_request: no acceptance checks, no verification and no subruns of its own.
ChildRequest(q) ==
    [q EXCEPT !.work = [q.child EXCEPT !.steps = AtLeastOne(@)],
              !.contract = FALSE, !.acceptance = "none", !.mode = "deterministic",
              !.allowSubrun = FALSE]

Spawns(r) ==
    /\ pc[r] = "gate"
    /\ Accepted(r)
    /\ request[r].mode = "subrun"
    /\ MaySpawn(r)
    /\ r + 1 \in Runs

\* The row is replaced by that of a new run; the trace of its id stays.
Launch(r) ==
    /\ Spawns(r)
    /\ request' = [request EXCEPT ![r + 1] = ChildRequest(request[r])]
    /\ row' = [row EXCEPT ![r + 1] = Started]
    /\ memory' = [memory EXCEPT ![r + 1] = Fresh]
    /\ raised' = [raised EXCEPT ![r + 1] = FALSE]
    /\ pc' = [pc EXCEPT ![r] = "waiting", ![r + 1] = "planning"]
    /\ UNCHANGED <<trace, decision, satisfied>>

\* _prepare_request_run raises for the child: the partition went away.
LaunchFails(r) ==
    /\ Spawns(r)
    /\ Finish(r, "requires_review", 1)
    /\ memory' = [memory EXCEPT ![r].subruns = @ + 1]
    /\ UNCHANGED <<request, decision, raised, satisfied>>

AnswerTrustingRaised(c) ==      \* mutant: the verdict of a child that raised is used
    CASE memory[c].verdict = "passed" -> "completed"
      [] memory[c].verdict = "retryable" -> "retry"
      [] memory[c].verdict = "rejected" -> "requires_review"
      [] OTHER -> row[c].status

\* RuntimeChildRunAdapter and VerificationSubRunResultMapper: what the parent makes
\* of its child.  The last skill result decides, whatever status the child has.
Answer(c) ==
    IF raised[c] THEN "requires_review"
    ELSE CASE memory[c].verdict = "passed" -> "completed"
           [] memory[c].verdict = "retryable" -> "retry"
           [] memory[c].verdict = "rejected" -> "requires_review"
           [] OTHER -> row[c].status

SubrunEnded(r) == pc[r] = "waiting" /\ pc[r + 1] = "ended"

\* The subrun is observed, without a budget; a retryable one runs the loop again.
SubrunRetries(r) ==
    /\ SubrunEnded(r)
    /\ Answer(r + 1) = "retry"
    /\ AppendStep(r, 0, 2)
    /\ memory' = [memory EXCEPT ![r].subruns = @ + 1]
    /\ pc' = [pc EXCEPT ![r] = "planning"]
    /\ UNCHANGED <<request, decision, raised, satisfied>>

SubrunDecides(r) ==
    /\ SubrunEnded(r)
    /\ Answer(r + 1) # "retry"
    /\ Finish(r, Answer(r + 1), 1)
    /\ memory' = [memory EXCEPT ![r].subruns = @ + 1,
                                ![r].failed = @ \/ Answer(r + 1) = "failed"]
    /\ UNCHANGED <<request, decision, raised, satisfied>>

-----------------------------------------------------------------------------

Execute(r) ==
    \/ Plan(r) \/ PlanningRaises(r)
    \/ Act(r) \/ ActionRefused(r) \/ ToolRaises(r)
    \/ LoopContinues(r) \/ LoopCompletes(r) \/ LoopStops(r) \/ VerifierRaises(r)
    \/ GateRetries(r) \/ GatePasses(r) \/ GateRefusesSubrun(r)

Subrun(r) == Launch(r) \/ LaunchFails(r) \/ SubrunRetries(r) \/ SubrunDecides(r)

Progress == \E r \in Runs : Execute(r) \/ Subrun(r)

Next == Request \/ Progress

\* The thread of the request goes on: calls of the model have a timeout.
Spec == Init /\ [][Next]_vars /\ WF_vars(Progress)

-----------------------------------------------------------------------------
(* Properties *)

\* Each variable has its type (AgentRun, RunStep, RuntimeRunState).
TypeOK ==
    /\ request \in [Runs -> RequestType]
    /\ row \in [Runs -> [status: Final \cup {"none", "running"}, count: Nat,
                         calls: [Kinds -> Nat]]]
    /\ trace \in [Runs -> [work: Nat, extra: Nat, calls: [Kinds -> Nat]]]
    /\ memory \in [Runs -> [failed: BOOLEAN, verdict: Verdicts, subruns: Nat]]
    /\ decision \in [Runs -> [actions: Seq(Capabilities), stop: BOOLEAN, review: BOOLEAN]]
    /\ pc \in [Runs -> Places]
    /\ raised \in [Runs -> BOOLEAN]
    /\ satisfied \in BOOLEAN

\* Feedback and observations are stored without a budget, and repair rounds have no
\* bound of their own, but a run has at most three steps more than its step budget.
StepBudget == Length(trace[Main]) <= request[Main].work.steps + 3

\* The calls in the trace of a run, over all its repair rounds, failing and raising
\* ones included, stay within the budget of their kind.
CallBudget == \A k \in Kinds : trace[Main].calls[k] <= request[Main].work.calls[k]

\* The row of a run that has ended counts the steps of its trace, whatever raised.
StepCountIsTrace ==
    \A r \in Runs : pc[r] = "ended" => row[r].count = Length(trace[r])

\* docs/runtime.md: a child run cannot derive a child run; nor can a request that
\* disables subruns, and nobody starts more than max_subruns.
NoNesting ==
    /\ \A r \in Runs : pc[r] = "waiting" => r = Main /\ request[r].allowSubrun
    /\ memory[Main].subruns <= request[Main].subruns

\* What the verification subrun said in favour of the run: its verdict, or, if its
\* last skill result holds none, that it completed.
ChildApproves ==
    /\ ~raised[Main + 1]
    /\ \/ memory[Main + 1].verdict = "passed"
       \/ memory[Main + 1].verdict \in {"none", "plain"} /\ row[Main + 1].status = "completed"

\* A run is completed only if no action failed, a review asked for was not skipped
\* unless the acceptance checks stopped the loop, and its verification passed.
CompletedIsVerified ==
    row[Main].status = "completed" =>
        /\ ~memory[Main].failed
        /\ decision[Main].review => request[Main].acceptance = "stops"
        /\ request[Main].mode = "deterministic" => Accepted(Main)
        /\ request[Main].mode = "subrun" => memory[Main].subruns > 0 /\ ChildApproves

\* A failure is never repaired: the run plans nothing any more and ends failed.
FailureEndsRun ==
    \A r \in Runs :
        memory[r].failed =>
            /\ pc[r] \in {"acting", "checking", "ended"}
            /\ pc[r] = "ended" => row[r].status = "failed"

\* Whatever the model plans and the verification says, every run ends: repair rounds
\* and subruns spend a budget.
EveryRunEnds == row[Main].status = "running" ~> row[Main].status \in Final

=============================================================================
