---------------------------- MODULE TraceReplay ----------------------------
(***************************************************************************)
(* What one agent run records of itself, write by write (runtime/trace,    *)
(* loop, execution, orchestration), and what a reader rebuilds from the    *)
(* rows (RuntimeTraceRecorder.load_replay) after any write: the run may go *)
(* on, have ended, or have lost its process there.  The steps carry no     *)
(* turn of their own: the reader finds it in names, titles and payloads.   *)
(* A verification subrun has the run id of its parent and its purpose, so  *)
(* a second one goes on in the rows of the first.  Budgets, acceptance and *)
(* the status of the run are those of AgentRuntime; here any of them may   *)
(* go either way.  A deletion takes the rows file by file; a run has no    *)
(* await, so that a session which writes meanwhile is on another server.   *)
(***************************************************************************)
EXTENDS Integers, FiniteSets, Sequences

CONSTANTS MaxTurns,       \* of a session (bound)
          MaxSessions,    \* on the rows (bound)
          MaxSteps, MaxActions,    \* in the rows (bounds)
          Hints    \* turns that a payload of the model or of a tool may name in its metadata

None == -1
CallKinds == {"tool", "skill"}
CallStep == [tool |-> "tool_call", skill |-> "skill_call"]
ResultStep == [tool |-> "tool_result", skill |-> "skill_result"]

ASSUME TraceAssumption ==
    /\ MaxTurns \in Nat /\ MaxActions \in Nat /\ MaxSessions \in Nat /\ MaxSteps \in Nat
    /\ Hints \subseteq Nat

VARIABLES
    recorded,            \* the row of the run is there
    steps, artifacts,    \* its other rows, in the order of the repositories
    turnCount,           \* state.turn_count of the session
    session,             \* executions of this run id so far
    writing,             \* what the session writes next
    executing,           \* the decision it executes
    todo,                \* actions of it that are left
    call,                \* the action at work
    deleting,            \* what a deletion takes: "nothing", "artifacts" or "steps"
    disturbed            \* what happened to these rows: "again", "hint", "deleted",
                         \* "torn" (deleted while a session writes)

traceVars == <<recorded, steps, artifacts, turnCount, session, writing, executing, todo, call,
               deleting, disturbed>>
acting == <<executing, todo, call>>

NothingExecuting == [actions |-> 0, stop |-> FALSE, meta |-> None]
NoCall == [kind |-> "none", meta |-> None, step |-> 0]

TraceInit ==
    /\ recorded = FALSE /\ steps = <<>> /\ artifacts = <<>>
    /\ turnCount = 0 /\ session = 0 /\ writing = "rest"
    /\ executing = NothingExecuting /\ todo = 0 /\ call = NoCall
    /\ deleting = "nothing" /\ disturbed = {}

-----------------------------------------------------------------------------
(* Rows.  "turn" and "session" say when a row was written, "answered" that  *)
(* the session had a reply of the model, "listed" that a deletion has the    *)
(* row in its list; no reader has them.  "of" is the call that a result      *)
(* answers, "index" the number of steps the writer found.                    *)

RunStep(type, name, meta, of, turn) ==
    [type |-> type, name |-> name, meta |-> meta, of |-> of, turn |-> turn, session |-> session,
     index |-> Len(steps), answered |-> writing = "answered", listed |-> FALSE]

RunArtifact(type, title, meta, turn) ==
    [type |-> type, title |-> title, meta |-> meta, turn |-> turn, session |-> session, listed |-> FALSE]

\* The repositories: artifacts are listed in the order they were saved in, steps
\* by their index and, where it is the same, in that order.
SaveRow == recorded' = TRUE
SaveArtifact(artifact) == artifacts' = Append(artifacts, artifact)
SaveStep(step) ==
    LET before == Cardinality({i \in DOMAIN steps : steps[i].index <= step.index})
    IN  steps' = SubSeq(steps, 1, before) \o <<step>> \o SubSeq(steps, before + 1, Len(steps))

StepsLeft == Len(steps) < MaxSteps
ActionsLeft == MaxActions - Cardinality({i \in DOMAIN steps : steps[i].type = "action"})

SaveNewStep(type, name, meta, of, turn) ==
    /\ StepsLeft
    /\ SaveStep(RunStep(type, name, meta, of, turn))
    /\ recorded' = recorded

RecordArtifact(type, title, meta, turn) ==
    SaveArtifact(RunArtifact(type, title, meta, turn))

\* One payload in a trace names a turn, and none beside a deletion: a bound.
Metas == {None} \cup IF disturbed \cap {"hint", "torn"} = {} THEN Hints ELSE {}

Hinted(meta) == disturbed' = disturbed \cup (IF meta = None THEN {} ELSE {"hint"})

\* The locals of a decision end with its execution.
Forget == executing' = NothingExecuting /\ todo' = 0 /\ call' = NoCall

-----------------------------------------------------------------------------
(* The session.                                                              *)

\* No session starts on rows that a deletion has begun to take (bound): when it
\* has taken them all, it would be as the first one.
Start ==
    /\ writing = "rest" /\ session < MaxSessions
    /\ (recorded /\ "deleted" \notin disturbed) \/ session = 0
    /\ session' = session + 1
    /\ SaveRow
    /\ SaveArtifact([RunArtifact("runtime_request", None, None, 0) EXCEPT !.session = session + 1])
    /\ turnCount' = 0 /\ writing' = "plan"
    /\ Forget
    /\ disturbed' = disturbed \cup (IF session = 0 THEN {} ELSE {"again"})
    /\ UNCHANGED <<steps, deleting>>

RecordContext ==
    /\ writing = "plan" /\ turnCount < MaxTurns /\ "torn" \notin disturbed
    /\ RecordArtifact("planner_context", turnCount, None, turnCount)
    /\ writing' = "context"
    /\ UNCHANGED <<recorded, steps, turnCount, session, acting, deleting, disturbed>>

RecordPrompt ==
    /\ writing = "context"
    /\ RecordArtifact("llm_prompt", turnCount, None, turnCount)
    /\ writing' = "prompted"
    /\ UNCHANGED <<recorded, steps, turnCount, session, acting, deleting, disturbed>>

RecordResponse ==
    /\ writing = "prompted"
    /\ RecordArtifact("llm_response", turnCount, None, turnCount)
    /\ writing' = "answered"
    /\ UNCHANGED <<recorded, steps, turnCount, session, acting, deleting, disturbed>>

Decided(new) ==
    /\ turnCount' = turnCount + 1
    /\ SaveNewStep("decision", turnCount, None, 0, turnCount)
    /\ executing' = new /\ todo' = new.actions /\ call' = NoCall
    /\ writing' = "decided"
    /\ UNCHANGED <<artifacts, session, deleting>>

\* The stop evaluator decides without a prompt.
StopDecides ==
    /\ writing = "context"
    /\ Decided([NothingExecuting EXCEPT !.stop = TRUE])
    /\ UNCHANGED disturbed

\* The metadata of the payload comes last in that of the decision.
ModelDecides ==
    /\ writing = "answered"
    /\ \E n \in 0..ActionsLeft, stop \in BOOLEAN, meta \in Metas :
         Decided([actions |-> n, stop |-> stop, meta |-> meta]) /\ Hinted(meta)

StopsBeforeActions ==
    /\ writing = "decided" /\ executing.actions = 0
    /\ writing' = "ended"
    /\ Forget
    /\ UNCHANGED <<recorded, steps, artifacts, turnCount, session, deleting, disturbed>>

RecordDecisionArtifact ==
    /\ writing = "decided" /\ ~(executing.stop /\ executing.actions = 0)
    /\ RecordArtifact("decision", turnCount - 1,
                      IF executing.meta = None THEN turnCount - 1 ELSE executing.meta, turnCount - 1)
    /\ writing' = "acting"
    /\ UNCHANGED <<recorded, steps, turnCount, session, acting, deleting, disturbed>>

RecordAction ==
    /\ writing = "acting" /\ todo > 0
    /\ \E kind \in CallKinds, meta \in Metas :
         /\ SaveNewStep("action", None, meta, 0, turnCount - 1)
         /\ call' = [kind |-> kind, meta |-> meta, step |-> 0]
         /\ Hinted(meta)
    /\ writing' = "action"
    /\ UNCHANGED <<artifacts, turnCount, session, executing, todo, deleting>>

\* The call repeats the inputs of its action.
RecordCall ==
    /\ writing = "action"
    /\ SaveNewStep(CallStep[call.kind], None, call.meta, 0, turnCount - 1)
    /\ call' = [call EXCEPT !.step = Len(steps) + 1]
    /\ writing' = "called"
    /\ UNCHANGED <<artifacts, turnCount, session, executing, todo, deleting, disturbed>>

RecordResult ==
    /\ writing = "called"
    /\ \E meta \in Metas :
         /\ SaveNewStep(ResultStep[call.kind], None, meta, call.step, turnCount - 1)
         /\ Hinted(meta)
    /\ todo' = todo - 1
    /\ writing' = "acting"
    /\ UNCHANGED <<artifacts, turnCount, session, executing, call, deleting>>

-----------------------------------------------------------------------------
(* An action is refused, a budget is spent or a tool raises: the other       *)
(* actions of the decision are not tried.                                    *)

ExecutionFails ==
    \/ writing = "acting" /\ todo > 0
    \/ writing = "action"
    \/ writing = "called" /\ call.kind = "tool"

RecordDecisionErrorGoesOn ==                  \* mutant: the next action is tried
    /\ ExecutionFails
    /\ SaveNewStep("decision_error", turnCount - 1, None, 0, turnCount - 1)
    /\ todo' = todo - 1 /\ writing' = "acting"
    /\ UNCHANGED <<artifacts, turnCount, session, executing, call, deleting, disturbed>>

RecordDecisionError ==
    /\ ExecutionFails
    /\ SaveNewStep("decision_error", turnCount - 1, None, 0, turnCount - 1)
    /\ todo' = 0 /\ writing' = "acting"
    /\ UNCHANGED <<artifacts, turnCount, session, executing, call, deleting, disturbed>>

NextTurnFollows ==
    /\ writing = "acting" /\ todo = 0 /\ ~executing.stop
    /\ writing' = "plan"
    /\ Forget
    /\ UNCHANGED <<recorded, steps, artifacts, turnCount, session, deleting, disturbed>>

LoopEnds ==
    /\ writing = "acting" /\ todo = 0
    /\ writing' = "ended"
    /\ Forget
    /\ UNCHANGED <<recorded, steps, artifacts, turnCount, session, deleting, disturbed>>

NextTurn == turnCount    \* mutant: the observation belongs to the turn to come

\* max(turn_count - 1, 0)
LastTurn == IF turnCount = 0 THEN 0 ELSE turnCount - 1

RecordObservation(next) ==
    /\ SaveNewStep("observation", None, LastTurn, 0, turnCount - 1)
    /\ writing' = next
    /\ UNCHANGED <<artifacts, turnCount, session, acting, deleting, disturbed>>

RecordFeedback == writing = "ended" /\ RecordObservation("plan")
RecordVerification == writing = "ended" /\ RecordObservation("verified")
RecordRetry == writing = "verified" /\ RecordObservation("plan")

SessionEnds ==
    /\ writing \in {"ended", "verified"}
    /\ SaveRow /\ writing' = "rest"
    /\ UNCHANGED <<steps, artifacts, turnCount, session, acting, deleting, disturbed>>

\* Planning, the gate, or the budget of the error itself.
Raises == writing \in {"plan", "context", "prompted", "answered", "ended"} \/ ExecutionFails

Fatal ==
    /\ Raises /\ StepsLeft
    /\ SaveStep(RunStep("decision_error", None, None, 0, turnCount))
    /\ SaveRow /\ writing' = "rest"
    /\ Forget
    /\ UNCHANGED <<artifacts, turnCount, session, deleting, disturbed>>

-----------------------------------------------------------------------------
(* The deletion of a run lists its artifacts and unlinks them one by one,    *)
(* then its steps, then the row.  It may stop half way with its server.      *)
(* There is one (bound), and a session that writes meanwhile is the first,   *)
(* names no turn in its payloads and ends with the turn it is in (bounds).   *)

Listed(rows) == [i \in DOMAIN rows |-> [rows[i] EXCEPT !.listed = TRUE]]
ListedIn(rows) == {i \in DOMAIN rows : rows[i].listed}
Unlinked(rows) ==
    LET first == CHOOSE i \in ListedIn(rows) : \A j \in ListedIn(rows) : i <= j
    IN  SubSeq(rows, 1, first - 1) \o SubSeq(rows, first + 1, Len(rows))

DeleteRun ==
    /\ recorded /\ "deleted" \notin disturbed
    /\ writing # "rest" => session = 1 /\ "hint" \notin disturbed
    /\ deleting' = "artifacts" /\ artifacts' = Listed(artifacts)
    /\ disturbed' = disturbed \cup {"deleted"} \cup (IF writing = "rest" THEN {} ELSE {"torn"})
    /\ UNCHANGED <<recorded, steps, turnCount, session, writing, acting>>

UnlinkArtifact ==
    /\ deleting = "artifacts" /\ ListedIn(artifacts) # {}
    /\ artifacts' = Unlinked(artifacts)
    /\ UNCHANGED <<recorded, steps, turnCount, session, writing, acting, deleting, disturbed>>

ListSteps ==
    /\ deleting = "artifacts" /\ ListedIn(artifacts) = {}
    /\ deleting' = "steps" /\ steps' = Listed(steps)
    /\ UNCHANGED <<recorded, artifacts, turnCount, session, writing, acting, disturbed>>

UnlinkStep ==
    /\ deleting = "steps" /\ ListedIn(steps) # {}
    /\ steps' = Unlinked(steps)
    /\ UNCHANGED <<recorded, artifacts, turnCount, session, writing, acting, deleting, disturbed>>

UnlinkRow ==
    /\ deleting = "steps" /\ ListedIn(steps) = {}
    /\ recorded' = FALSE /\ deleting' = "nothing"
    /\ UNCHANGED <<steps, artifacts, turnCount, session, writing, acting, disturbed>>

TraceNext ==
    \/ Start \/ RecordContext \/ RecordPrompt \/ RecordResponse
    \/ StopDecides \/ ModelDecides \/ StopsBeforeActions \/ RecordDecisionArtifact
    \/ RecordAction \/ RecordCall \/ RecordResult \/ RecordDecisionError
    \/ NextTurnFollows \/ LoopEnds \/ RecordFeedback \/ RecordVerification \/ RecordRetry
    \/ SessionEnds \/ Fatal
    \/ DeleteRun \/ UnlinkArtifact \/ ListSteps \/ UnlinkStep \/ UnlinkRow

TraceSpec == TraceInit /\ [][TraceNext]_traceVars

-----------------------------------------------------------------------------
(* The reader.  A list of steps is the set of their positions, in the order  *)
(* of which it is shown.                                                     *)

TurnOfStep(step) == IF step.type \in {"decision", "decision_error"} THEN step.name ELSE step.meta

TurnOfArtifact(artifact) ==
    IF artifact.type = "decision" /\ artifact.meta # None THEN artifact.meta ELSE artifact.title

LastOf(positions) ==
    IF positions = {} THEN 0 ELSE CHOOSE i \in positions : \A j \in positions : j <= i

\* A step that names no turn is shown in the turn of the one before it.
Names(step) == step.type = "decision" \/ TurnOfStep(step) # None

Place(i) ==
    LET named == {j \in 1..i : Names(steps[j])}
    IN  IF named = {} THEN None ELSE TurnOfStep(steps[LastOf(named)])

Positions(type, n) == {i \in DOMAIN steps : steps[i].type = type /\ Place(i) = n}

Candidates(type, n) == {i \in DOMAIN artifacts : artifacts[i].type = type /\ TurnOfArtifact(artifacts[i]) = n}

ShownFirst(type, n) ==    \* mutant: a later artifact does not replace it
    IF Candidates(type, n) = {} THEN 0
    ELSE CHOOSE i \in Candidates(type, n) : \A j \in Candidates(type, n) : i <= j

Shown(type, n) == LastOf(Candidates(type, n))

ReplayTurn(n) ==
    [decision |-> LastOf(Positions("decision", n)),
     decision_artifact |-> Shown("decision", n),
     planner_context |-> Shown("planner_context", n),
     llm_prompt |-> Shown("llm_prompt", n),
     llm_response |-> Shown("llm_response", n),
     actions |-> Positions("action", n),
     calls |-> [kind \in CallKinds |-> Positions(CallStep[kind], n)],
     results |-> [kind \in CallKinds |-> Positions(ResultStep[kind], n)],
     errors |-> Positions("decision_error", n),
     observations |-> Positions("observation", n)]

Turns ==
    ({Place(i) : i \in DOMAIN steps} \cup {TurnOfArtifact(artifacts[i]) : i \in DOMAIN artifacts}) \ {None}

Replay == [n \in IF recorded THEN Turns ELSE {} |-> ReplayTurn(n)]

StepsIn(turn) ==
    ({turn.decision} \ {0})
        \cup turn.actions \cup turn.errors \cup turn.observations
        \cup UNION {turn.calls[kind] \cup turn.results[kind] : kind \in CallKinds}

-----------------------------------------------------------------------------
(* Properties.                                                               *)

IsFatal(step) == step.type = "decision_error" /\ step.name = None

\* Every step is shown in the turn that wrote it, whatever was retried or
\* repeated and however far a deletion has come, and none after the first
\* decision that is left is lost but a decision that a later session took
\* again: unless a payload names a turn of its own, or a session writes beside
\* the deletion and counts its steps anew.  A fatal error is the exception: it
\* has no turn, and is shown in the last one that was decided or nowhere
\* (recorder.py:208-247).
StepsAreInTheirTurn ==
    LET replay == Replay
        Decisions == {i \in DOMAIN steps : steps[i].type = "decision"}
    IN recorded /\ disturbed \cap {"hint", "torn"} = {} =>
        /\ \A n \in DOMAIN replay : \A i \in StepsIn(replay[n]) :
             steps[i].turn = n \/ IsFatal(steps[i])
        /\ \A i \in DOMAIN steps \ Decisions : (\E j \in Decisions : j < i) =>
             \E n \in DOMAIN replay : i \in StepsIn(replay[n])

\* A decision of the session that ran last is shown, with the context it was
\* made from and, if the model made it, with its prompt and its response, also
\* where an earlier session left a turn of the same number and whatever the
\* payloads name.  With a decision of the stop evaluator there is no prompt, or
\* that of an earlier session (service.py:118-224, recorder.py:249-261).
LastSessionIsShown ==
    LET replay == Replay
        Written(i) == i # 0 /\ artifacts[i].session = session
    IN recorded /\ "deleted" \notin disturbed =>
        \A i \in DOMAIN steps : steps[i].type = "decision" /\ steps[i].session = session =>
            LET turn == replay[steps[i].turn]
            IN /\ turn.decision = i
               /\ Written(turn.planner_context)
               /\ Written(turn.llm_prompt) = steps[i].answered
               /\ Written(turn.llm_response) = steps[i].answered
               /\ "hint" \notin disturbed /\ (\E k \in turn.actions : k > i)
                    => Written(turn.decision_artifact)

Before(positions, i) == Cardinality({j \in positions : j < i})

\* The k-th result that a turn shows of its tools, or of its skills, answers
\* the k-th call it shows, in a trace of one session that nobody deleted
\* and whose payloads name no turn: the trace has no other link between them
\* (capability_executor.py:72-163, engine.py:119-143).
ResultsAnswerCalls ==
    LET replay == Replay IN disturbed = {} =>
        \A n \in DOMAIN replay, kind \in CallKinds :
            LET calls == replay[n].calls[kind]
                results == replay[n].results[kind]
            IN /\ Cardinality(results) \in {Cardinality(calls), Cardinality(calls) - 1}
               /\ \A c \in calls, r \in results :
                    Before(calls, c) = Before(results, r) => steps[r].of = c
=============================================================================
