# Knowbase: TLA+ models and proofs

Knowbase keeps *cases* (documents with a semantic profile and facets) grouped in
*partitions*. A partition is a directory with its own Git repository; *Knowledge*
governance, driven by a language model, evolves the facet schema of a partition and
re-projects its cases. This directory holds TLA+ modules of the parts that decide
whether that stays consistent, the TLC configurations that check them on small
instances, and TLAPS proofs of the theorems that hold for any instance.

    tlc -config MCPartitionTaskQueue.cfg MCPartitionTaskQueue      # a run
    tlapm PartitionTaskQueueProofs.tla                             # the proofs

Paths below are relative to `internal/` of the repository unless they say otherwise.

## 1. The system

One server is one `uvicorn` process with one event loop (`main.py`). The command line
does not keep a second process away from the same `local_root`, and the mutation lock
is documented as a *cross-process lock* (`infrastructure/coordination`), so some
properties are stated for any number of servers and some for one server.

    request --> partition task queue --> case handlers ----.
                     ^                                      +--> partition workspace (Git)
    operator --> event worker --> drain handler --> governance      |  statistics (outside Git)
                     ^                 |                            |
                     |                 +--> decision record, review lock
                     `---- event inbox <--- events of committed case changes

| Component | State it keeps | Operations | What is hard about it | What makes it correct |
|---|---|---|---|---|
| Partition task queue (`backlog/tasks`) | deque, worker and tasks of each partition, in memory | `enqueue`, `wait_idle`, `_drain` | enqueue against a leaving worker; failing handlers; callers that wait for the partition, not for their command | serial and FIFO per partition; nothing stranded; callers find their result |
| Knowledge decisions and review lock (`knowledge/decision`) | one JSON file per decision, one lock file per partition | `create`, `transition`, `acquire`, `release` | two unrelated files, check-then-act on each, crashes in between, review requests against drains | a settled decision never freezes a partition; the record agrees with Git |
| Knowledge drain workflow (`knowledge/workflow`) | none of its own: decision, plan, transaction | `run_batch` | state read before `await` and used after it; rollback that fails; late exceptions | a frozen partition is not mutated; an accepted decision is settled |
| Partition Git versioning (`versioning`, `infrastructure/version_control`) | HEAD, index, working files | status, add, commit, restore, clean, transaction | a failure or crash between any two commands; shared index | every revision is consistent; failures leave a clean workspace |
| Partition mutation lock (`infrastructure/coordination`) | an `flock` | acquire, release | holders that raise or die; `flock` blocks the event loop | mutual exclusion, released whatever happens |
| Case write service, case input (`domain/case`, `product/ingest`) | case files | create, update, delete | files written before indexes, statistics and commit; no rollback | indexes, facets and statistics of each revision belong to its cases |
| Knowledge execution and projection (`knowledge/execution`, `knowledge/projection`) | schema, case files, indexes | plan, apply, refresh | plan made before the lock; partial application | no revision mixes two schemas |
| Case statistics (`knowledge/statistics`) | snapshots outside Git | add, remove, replace, rebuild, find supporting cases | not transactional; counts clamped at zero; keys folded here and nowhere else | counts are those of HEAD and those a rebuild gives |
| Partition configuration (`domain/partition`) | partition document, schema and index files | create, update, put schema, delete, create again | a versioned file written by a request without a transaction; a deletion that leaves statistics and history | same as versioning |
| Event backlog (`backlog/events`, `domain/event`, `knowledge/service.py`) | event records, inbox | publish, `run_once`, mark, complete, fail, requeue, delete | overlapping batches, retries, deletion while queued, crash between commit and publication | an event tells of a commit, each commit is told, a batch is settled, governed once |
| Working set builder (`knowledge/batch`) | none | select the cases a governance run sees | events that are published out of order, collapse, grouping | each case once, with everything that changed; deleted means gone |
| Knowledge governance (`knowledge/governance`) | none between drains | evidence, proposal, runtime run, recovery, final gate | model output merged with deterministic rules; counts the model sees are cut | no change of the schema without the support of the statistics |
| Agent runtime (`runtime`) | rows and trace of a run, memory of its execution | request, plan, act, stop, repair, verify in a subrun, replay, delete | budgets at their limit, over repair rounds; exceptions at every stage; a subrun that shares its id with the one before; steps without a turn | every run ends within its budgets; completed means verified; a failure ends the run; the trace shows what happened |
| Local persistence (`infrastructure/persistence/local`) | JSON files | get, save, list, delete | lists end at 500 and have an order of their own; ids made of milliseconds | read your writes |
| Query (`product/query`) | none | plan, recall, merge, rank, answer | filters take definitions that the projection does not | a case is found by its own description |
| Elasticsearch persistence, connectors | external | the same ports | external service | - |
| Application wiring, HTTP API, CLI | none | construction, parsing | which requests go through the queue | listed at the component they call |
| Model access and prompts (`runtime/llm`, `infrastructure/ai`) | dimension of the embeddings | complete, read, repair, validate, embed | replies in prose, thought and fences; a repair that fails; a dimension learned and forgotten | what was meant is read, and used; vectors can be compared |
| Web console (`ui`) | browser state | presentation | - | - |

How they interact. A case input is enqueued and answered at once; a case update or
delete is enqueued and its request awaits `wait_idle`. The handlers of both run in the
worker coroutine of the partition, take the mutation lock, write files and commit. The
event of an input is published by its handler, that of an update or a delete by the
request after `wait_idle`. The operator asks the event worker to assemble a batch,
which is enqueued as a drain; the drain awaits governance (the only suspension point of
a handler that others can use on the same thread), records a decision, mutates the
workspace in a Git transaction under the mutation lock, moves the decision on, and the
outcome is written back into the events. Governance looks at the cases of the batch
through the working set, at statistics and indexes as frozen evidence, and asks the agent
runtime for a verdict; the runtime plans with the language model, through the same client
that extracts a case from its input, understands a query and suggests a schema.

## 2. The modules

### SerialTasks, PartitionTaskQueue and its Proofs

`SerialTasks` is what the queue promises, without a queue: an accepted command is
executed exactly once, after every older command of its partition.

`PartitionTaskQueue` is `backlog/tasks/queue.py`. A step is what runs between two
suspension points of a coroutine.

| Variable | Code | Action | Code |
|---|---|---|---|
| `rank`, `accepted` | position in `_tasks` | `Submit` | a request whose answer is `accepted` (input, drain) |
| `status`, `attempts` | `PartitionTask.status`, `.attempt_count` | `SubmitAndWait` | `enqueue` and `wait_idle` of update and delete |
| `queues`, `workers` | `_queues`, `_workers` | `Start` | first run of a `_drain` coroutine |
| `current` | the task whose handler `_drain` awaits | `HandlerEnds` | the handler returns or raises; the loop goes on |
| `callers` | the request in `wait_idle` | `CallerResumes` | the request after `wait_idle` |

`Abstract` maps it to `SerialTasks`; a command whose handler is run a second time maps to
an outcome `SerialTasks` does not have.

### KnowledgeDecision

The life of the decisions of a partition: `run_batch`, `KnowledgeDecisionService`, the
review lock and the review request. `lock` and `record` are the two files; `commits` is
the Git history, one commit for each decision; `drain[s]` is where the drain of server
`s` stands, `call[s]` which decision-service call occupies its thread and the file access
it does next. A service call is a sequence of file accesses because a crash, or another
server, can come between any two; a drain gives the thread to requests only while
`governing`, which is the guard of `Review`. The transitions of `_allowed` are kept
without the targets no caller asks for. An exception of a file access inside a call has
the effect of a crash at that point for the two files, except that the drain ends
instead of the process. `Raised` is what an exception inside the `try` of the drain leaves in
Git: nothing, or a commit whose revision could not be read back (`git/repository.py:151`), which
the drain records as failed. `unread` holds the decisions of such commits, and
`AuditMatchesGit` says what is still true of them.

### AtomicWorkspace and PartitionWorkspace with its Proofs

`AtomicWorkspace` is what the revisions of a partition promise those who read them: a revision
is a schema and a set of projected cases, and the next one differs from it by one complete
input, update, deletion or accepted schema. No file, lock, index or failure occurs in it.
`Listed` is part of the promise: a schema reaches the first `ListLimit` cases in the order of
their names (500 in `list_by_partition`), and leaves the others with the facets they have.

`PartitionWorkspace` has them all: the three Git trees of a partition and every operation that writes them, one file
access or Git command at a time: case input, update and delete, the apply phase of a
drain, the facet-schema request. A file is what is compared about it: the profile and
facets of a case, the schema of the schema file, the case files an index was built from,
and the time of the write, because every save puts a new timestamp into the file.
`StatisticsMatchHead` and `CleanAtRest` are about any number of servers, `RevisionsAreAtomic` about one:
`Revision` maps HEAD to `AtomicWorkspace` (`CasesOf` forgets the times of the files), where a commit is the
only visible step.
`Project` is the deterministic projection of a profile under a schema. `Raises` and
`Crash` strike between any two steps; case operations leave what they have done,
a drain rolls back what Git's commands can roll back (`Rollback` is `git clean` and
`git restore --source`, which leave the index alone). `CommitRaises` commits and raises when it
reads the revision back: a case operation ends there, a drain goes back to the revision it began with
(`base`) in files whose commit stays. Indexes (`Entry`) and plans (`ToChange`) are made from the listed cases. `Restart` is the start-up check,
which a dirty partition blocks. `stats` are the observations outside Git.

### EventBacklog

From a case change to the drain that has taken it into account: publication, batch
assembly (`list_ready_events` looks at the newest `Window` records and filters
afterwards), the drain's outcome written back by `complete_batch` or `fail_batch`,
requeue and deletion by the operator, retry time, crash. The partition queue is a
sequence whose head is executed: `PartitionTaskQueue` is where its concurrency is
studied. `happened` records what disturbed the course of events, so that the
properties can say precisely what they need. `untold` holds the committed changes whose event an
incident has lost, one action for each: the process dies (`Crash`), the revision of the commit cannot
be read back (`CaseRaisesLate`), the save of the record raises (`InputUnsaved`, `EditUnsaved`), an event of the
same millisecond takes its file (`OverwriteEvent`: records without an id are called
`event-<milliseconds>`). `CommitIsReported` exempts these changes and no others; `GovernedOnce` and
`BatchesAreSettled` name what they exempt in `happened`. A batch is a set of
events, as nothing depends on the order within it; `Newer` orders the records as the
repository lists them, and `Listed` is what one list shows of them.

### AgentRuntime and its Proofs

One request of `runtime/service.py`: the loop of plan, actions and termination, the
completion gate behind it, and the verification subrun, which the same service executes
under the id `<parent>:subrun:verification`. Nothing runs next to a request; what is open
is what the model plans, how tools and skills end, and what raises where.

| Variable | Code | Actions | Code |
|---|---|---|---|
| `request` | `RuntimeRunRequest` of a run | `Request`, `Plan`, `PlanningRaises` | `_execute_request`, a turn of `RuntimeLoopEngine.run` up to the actions |
| `row` | `AgentRun` in the repository | `Act`, `ActionRefused`, `ToolRaises` | `execute_decision`, one action, and the `except` around it |
| `trace` | its `RunStep`s, and the calls among them | `LoopContinues`, `LoopCompletes`, `LoopStops`, `VerifierRaises` | `RuntimeTerminationPolicy` behind the actions |
| `memory` | `RuntimeRunState` | `GatePasses`, `GateRetries`, `GateRefusesSubrun` | `RuntimeCompletionGate`, `RuntimeOrchestrator.run` |
| `decision` | what is left of the decision of the turn | `Launch`, `LaunchFails` | `RuntimeSubRunLauncher`, `RuntimeChildRunAdapter` |
| `satisfied` | whether the file passes the completion checks | `SubrunRetries`, `SubrunDecides` | the subrun's result in `RuntimeOrchestrator.run` |

`Runs` has three ids, the request's run, its child and a child of that, so that a nested
subrun could exist. `trace` tells the steps a budget covers from those stored without
(feedback, observations, the error of an exception). Artifacts are not steps and left out.

### TraceReplay (proofs in AgentRuntimeProofs)

What one run leaves behind, write by write (`runtime/trace/recorder.py`, `loop/engine.py`,
`execution/capability_executor.py`, `orchestration/runner.py`), and `load_replay`, which
rebuilds turns from it. `AgentRuntime` decides what may happen within the budgets; here
any of it may, and the rows are looked at after each write, which is also what a reader
finds when the process dies there. `steps` and `artifacts` are the rows in the order in
which the repositories list them; `turn` and `session` in a row say when it was written
and are read by the properties only. `Start` is a session: the request, or a verification
subrun, whose second session goes on in the rows of the first because both have one run
id. `recorded` is the row of the run itself, `writing` what the session writes next,
`executing` and `call` the decision and the action at work. A new step gets the number of steps that are there as
its `index`, by which the repository sorts them. A deletion (`deleting`) lists the artifacts and unlinks them one by one, then
the steps, then the row; as a run has no suspension point between its writes, a session that writes meanwhile is that of
another server, and its steps may get indexes below those that are left. `Replay` is the reader, and the
lists of a turn are the sets of their positions: `TurnOfStep` takes the turn from the name or
the payload of a step, `Place` carries it to the steps that have none (the last one before
that names a turn), `Shown` is the last artifact of its type in a turn.

### Governance and its Proofs

One assessment of a partition. A schema is a list of keys, in which nothing forbids a key to occur
twice, and the metrics count entries. `Consistency` compares the statistics with the
materialized semantic index, `Promoted` and `Demoted` are the two proposal plugins, `Fit` the fit
metrics, the one registered validation plugin; `Normalized` is what it makes of the counts, where an
entry `facet:x` supports a key of that name. `Shown` cuts the counts as the request does: the
largest entries of semantic and facet keys together. A run of the agent is reduced to
what governance reads of it: calls of the validation skill (`Validate`, `SkillFails`,
`CallOverBudget`), how it ended and with which payload (`EndRun`, `RuntimeRaises`). The model may call the skill with the
counts it was shown (`honest`) or with others. `Decide` is `GovernanceRuntimeAgent.decide` and
`_apply_runtime_decision` in the order of their returns: a failed report, recovery after an
exhausted budget, the run, its payload; `Gate` is the last fit check.
It changes nothing in the partition: `KnowledgeDecision` takes any of its results, and
`PartitionWorkspace` and `CaseCatalog` apply any schema.

### CaseStatistics, CaseQuery, WorkingSet and CaseCatalog with its Proofs

The first three are pure. `CaseStatistics` has projection, observations, snapshots (`AddObservation`,
`RemoveObservation`, support queries), the two indexes and the cap of a list,
`ReplaceObservations`, the replacements of a drain one after the other, and
`Aggregate`, what a rebuild gives. The support index has an entry for each text `key:value` (`Text`), which
two pairs may share. `CaseQuery` has the planner's filters, recall,
merge and ranking: a filter is split at every slash (`Matched`, `Ranked`), a branch returns its best
`RecallSize` (`Recalls`), title and summary give a bonus (`Bonuses`). `WorkingSet` collapses the events of a batch and groups them by case: the loop over the
sorted events is a function on sets of them (`Collapsing`), that takes the latest one last.

`CaseCatalog` gives them a partition to live in. Handlers are atomic there, data is exact:

| Variable | Code | Actions | Code |
|---|---|---|---|
| `status`, `schema` | partition document, facet schema | `PutPartition`, `PutSchema`, `DeletePartition`, `RecreatePartition` | `routes_core.py`, `domain/partition` |
| `docs`, `live`, `drafts` | case files, accepted inputs | `Accept`, `Input`, `Update`, `Delete` | `product/ingest`, `domain/case/write_service.py` |
| `semantic`, `facet`, `statistics` | index files, snapshot | `ApplyPlan` | `knowledge/execution/mutation_executor.py` |
| `unsent`, `events` | requests about to publish, the inbox | `Publish`, `Assemble` | `routes_resources.py`, event worker |
| `dirty`, `untracked` | whether Git sees a change; whether statistics were bypassed | `RefreshCaseFacets`, `RefreshSelected`, `RebuildCase`, `CommitByHand` | the case skills, an operator |

### ModelReply and ModelAccess with its Proofs

`ModelReply` is the reader of `infrastructure/ai/openai_client.py`: a text is a sequence of
tokens (braces, quotes, escapes, fences, thought marks), an object a balanced sequence of
them; `Read` strips thought and fences, tries the whole text, then the first balanced object.
What walks through a text or a list of values (`Searched`, `Reading`, `Kept`) is a function of how far it has come.
`Wraps(text, o)` says without the reader what a text gives to read: at most one complete thought is taken out,
and `o` begins with the first brace of what is left, or of what its first two fences hold. It is the premise of
`WrappedIsRead`; `Wrapping` in the MC module asserts that every wrapping of the instance meets it, for the objects
without such marks in their strings.
`ModelAccess` is a process with its two services, for the four requests that use them:
case input (a summary, then the profile), query, schema suggestion and a runtime
decision. `Ask`, `Repair`, `CallRaises` are completions, `UseFor...` what each caller makes of an
object, `StoreCase`, `CaseNotEmbedded` and `EmbedQuery` the embedding provider, which learns its
dimension from the first vector unless it is configured.

### MC modules

`MCPartitionTaskQueue`, `MCKnowledgeDecision`, `MCPartitionWorkspace`, `MCEventBacklog`,
`MCAgentRuntime`, `MCTraceReplay`, `MCGovernance`, `MCCaseCatalog` and `MCModelAccess` declare
model values and the small sets; their comments say why these.

## 3. The runs

| Run | Instance | What it shows |
|---|---|---|
| `task_queue` | 3 commands of one partition and 1 of another, two of them awaited | nothing stranded, results there when callers resume, every command and every caller finishes, refinement of `SerialTasks` |
| `decision_servers` | 2 servers, 3 decisions, 1 incident | a settled decision never freezes the partition; `applied` means committed, and a commit is not recorded as failed unless its revision could not be read back |
| `decision_one_server` | 1 server, 3 decisions, 2 incidents | lock and pending record agree between requests when nothing crashed; a frozen partition is not mutated; an accepted decision is settled |
| `workspace_servers` | 2 servers, 2 operations, 1 fault | each revision's indexes belong to its cases, whatever failed; who waits for the lock gets done |
| `workspace_one_server` | 1 server, 3 cases of which 2 are listed, 4 operations, 2 faults | refinement of `AtomicWorkspace`: each revision is one complete operation away from the one before; statistics follow HEAD; what should be clean is |
| `workspace_rollback` | 1 server, 2 operations, 1 fault | a rolled-back drain leaves the workspace dirty (a violation, see findings) |
| `event_backlog` | 3 changes, batches of 2, 3 drains, 1 incident | no event without a commit, no commit without an event but those an incident lost, one governing drain for each change, batches settled |
| `agent_runtime` | 9 kinds of requests, 64 drafts, 7 or 8 steps | every run ends, within its step and call budgets over all repair rounds; completed means verified; a failure ends the run |
| `trace_replay` | 2 sessions of 2 turns, 2 actions, 7 steps, 1 payload that names a turn, 1 deletion | steps are shown in their turn, the last session with its own context, results with their calls |
| `governance` | 4 keys, 10 cases or none, 2 calls of the skill, 10 schemas the model may write | an accepted change has support, contradictions are reviewed, a failed validation changes nothing, an honest pass is kept |
| `case_catalog` | 3 cases, 3 keys, 2 wordings, recall of 2, 4 operations, 1 that bypasses statistics | statistics are exact, evidence agrees, a case is found by its own description, a batch says what happened to a case, writers project under the schema of the moment |
| `model_access` | 2 requests of 4 kinds, 1 restart | replies are read as they were meant, answers are used within two completions, stored vectors can be compared |

Why these bounds. *Queue*: three commands of one partition are the smallest instance in
which one runs, one waits and one arrives, and a fourth in another partition shows
independence. *Decisions*: two servers and two decisions are needed for a lock to be
overwritten or removed by somebody else, a third decision gives the removal a consequence;
two incidents allow a crash in the recovery of a crash. *Workspace*: two cases let a plan
touch one and not the other and let a half-applied plan exist; four operations allow a
failure, its consequence for the next one and a third that follows both; with one server there are
three cases and a list of two, so that a case is beyond the list, comes into it when another one is deleted, and is pushed
out of it by a new one. *Backlog*: with
three events and batches of two, a batch overlaps, is refused and leaves an event behind;
`Window = Limit = 2` brings the ready window's cut-off within reach (the code has
`max(limit * 3, 100)`). *Catalog*: of three cases a recall of two loses one, and one pair of key and value
is written as another; two wordings favour one case or the other. *Governance*: of four keys one is
excluded and one is called `facet:` and another; among the schemas are such with a key five times, which pass the 70 per cent with
two of three keys unsupported. *Trace*: seven steps are a turn of two actions with their calls and results, or one and a second turn or session up to its call; a deletion may come
at any moment and stop anywhere. *Runtime*: a decision costs one step and a call three, so seven
steps allow two calls or a repair round, and with eight a governance request calls its
skill, plans again and is refused; one tool call and two skill calls reach both call budgets; the
drafts are every sequence of up to two actions that differ in what they may do, with
every combination of the flags. Decision ids are symmetric in `decision_servers`; a run with a
liveness property uses no symmetry.

`CHECK_DEADLOCK FALSE` in every cfg: each system stops legally when all commands or
decisions are used up and the operator stays away.

Each property is also known to be falsifiable by the code's plausible bugs: next to the
definition it mutates, a module has a definition marked `mutant`, and `PROJECT.json` says
which property it must break.

### Fairness

- `Start`, `HandlerEnds`, `CallerResumes`, `Service`, `EnterMutation`, `Step`, `Worker`,
  `EditPublishes` are weakly fair: the event loop runs every coroutine that can run, a
  thread that has work does it, and handlers terminate, as file work is bounded and
  calls of models and embedding providers have timeouts.
- `Progress` of `AgentRuntime` is weakly fair: the thread of the request goes on, as calls
  of models have a timeout (`infrastructure/ai/openai_client.py:58`) and tools read files.
- `Acquire` (the `flock`) is weakly fair: a free lock is granted to somebody who waits.
  Each holder releases it, and a run has finitely many operations, so nobody is
  overtaken for ever; `flock` itself promises no order.
- `Governance`, `CaseCatalog`, `ModelAccess` and `TraceReplay` state no fairness: their
  properties are about what happens, not that it does.
- Nothing makes a reviewer decide, an operator start a drain, requeue or delete, a
  request arrive, a retry become due or a crashed server restart.

`EveryCallerAnswered` is about finitely many commands: `wait_idle` awaits the worker of
the partition, so an unbounded stream of commands can keep the caller of a finished
command waiting. That is a property of the code, not of the model.

### Findings

Five places where the code does something else than a document or a test says, or loses what it did.

- `workspace_rollback` (a violation): when `git commit` fails after `git add`, the rollback restores
  the files and not Git's index (`git/repository.py:182`), and the workspace stays dirty.
  `docs/partition.md:40` says that failure means rollback.
- *A commit that raises late.* `commit` reads the revision back after `git commit`
  (`git/repository.py:151`), and that may raise. The drain then restores the files of before and records
  `failed`, while HEAD has the mutation; a case change is committed and never told. `AuditMatchesGit` (in
  `decision_servers`) excludes such commits by name; `CommitRaises` and `CaseRaisesLate` are the same line in the
  other models. `docs/partition.md:40` has a commit on success and a rollback on failure, and nothing of both.
- *Rejected without a review.* A validation that failed keeps the current schema and asks for no review
  (`runtime_agent.py:79`, meant so by the comment above it); `docs/governance.md:238-239` promises
  `requires_review`. `RejectionKeepsSchema` (in `governance`) is what the code does.
- *One index of two.* `collector.py:196` compares the statistics with the semantic index only;
  `docs/governance.md:24` and `:46` speak of both. `ContradictionIsReviewed` is about the semantic index.
- *Keys that repeat.* The coverage of a candidate counts entries (`fit_metrics.py:107-110`), and neither the schema
  (`models/facet.py:22-26`) nor the checks of a payload forbid a key to occur twice: one supported key, listed five
  times, carries two that no case has. `ChangeIsSupported` (in `governance`) is therefore stated of entries.

Other disagreements came up while the modules were written. The models have them as the
code does, and where a property would be wrong without it, it names the case.

- *Two reviews.* `transition` releases the review lock (`knowledge/decision/service.py:110`)
  before it saves the record (`:111`). A crash in between leaves a record that awaits
  its review in a partition that is no longer frozen; the next drain creates a second
  (`tests/unit/test_knowledge_decision.py:43` expects one per partition).
- *No change.* A `no_change` verdict goes through mutation and commit
  (`drain_workflow.py:191`). `docs/knowledge.md:72` says that it needs no mutation.
- *Schema request.* `PUT facet-schema` (`api/routes_core.py:99`) writes a versioned file with no
  lock, transaction or commit. `docs/knowbase.md:35` says that file mutations go through
  a partition Git transaction. The request of the partition document does the same.
- *Sessions.* Every verification subrun of a run has the id `<parent>:subrun:verification`
  (`runtime/subrun/contracts.py:169`). The second one overwrites the row of the first and is
  counted from the steps of its trace, so that of `max_subruns` only one has a budget.
  `models/run.py:14`: an `AgentRun` is "One runtime session".
- *Large partitions.* `list_by_partition` ends at 500 cases (`repositories.py:284`): an accepted schema is
  committed with the facets of the listed cases only. `RevisionsAreAtomic` says which, and that nothing else happens to the others.
- *Events of one millisecond* have the same file (`repositories.py:344`), and the later one replaces the earlier.
- *Support entries* are texts `key:value` (`aggregator.py:40`): two pairs may be written alike, and a support query
  then names the cases of both. `StatisticsAreExact` says so.
- *Slashes.* A filter with a slash in its key or value is split into other parts than were meant
  (`repositories.py:442`); `SelfRetrieval` excludes it.
- *Trace.* A fatal error has no turn: it is shown in the last one that was decided, or
  nowhere if there is none. Metadata in a payload of the model or of a tool may move its step to
  another turn. Of several sessions the request shown is that of the first. The API
  drops the observations of a turn (`api/routes_runtime.py:215`). A deletion
  does not stop a run in progress, which goes on writing and restores the row of the run when it ends; its steps
  get the number of those that are left as index (`recorder.py:38`) and may be listed before older ones. With a decision of the stop evaluator
  the prompt shown is that of an earlier session, if there is one.
- *Governance.* A validation that failed because its skill raised is taken as a rejection
  (`runtime_agent.py:74`) before anything else of the run is looked at. Recovery after an exhausted budget
  takes the latest candidate of the trace (`:509`), also the one that the budget kept from
  being validated (`:485`); the gate still checks it. An accepted schema need not be within the
  proposal. Freeze policy, circuit breaker, the plugin `facet_key_review` and the coverage
  formula of `docs/governance.md` are not wired or not there.
- *Evidence.* Statistics fold the keys of a profile to lower case, indexes do not, and lists
  end at 500 cases: either makes a partition inconsistent in the eyes of governance although nobody bypassed
  anything. `EvidenceAgrees` says when it is not so.
- *Replies.* An empty reply is read as an empty object without a repair (`openai_client.py:222`);
  a fence or a complete thought within a string of an object is taken for the reader's own mark; the
  dimension learned from the first vector is forgotten by a restart.

## 4. The proofs

Assumptions: `TaskAssumption` (commands belong to partitions, `NoTask` is no command),
`DecisionAssumption` (`NoDecision` is no decision id), `TraceAssumption` (bounds and turns are
natural numbers), `RuntimeAssumption` (requests and
drafts have their types: limits are natural numbers), `WorkspaceAssumption` (cases, schema
and index are different files, no case document is `Absent`, and cases have an order), `GovernanceAssumption` (finitely many keys, ordered
like numbers; evidence has its type; at most two unobserved keys are tolerated),
`CatalogAssumption` and `StatisticsAssumption` (profiles and schemas are over the keys,
a profile has finitely many values, folding is idempotent, filters without a slash are read as they were meant) and `AccessAssumption` (a limit
and a dimension are numbers; profiles and texts are sequences; what the reader can make of
a reply is among the objects, those a payload is given for). TLC
evaluates each of them on the instances of the runs. Nothing is assumed about how many
partitions, commands, servers, decisions, cases or requests there are.

`PartitionTaskQueueProofs`. `Fifo`, `NoTaskStranded` and `CallerFindsResult` are not
inductive: that the deque's head is the oldest waiting command says nothing unless the
deque holds *exactly* the waiting commands of its partition, ordered by rank. `IInv` adds
`QueueInv` (that), `WorkerInv` (a partition with waiting commands has a worker, a draining
worker has a running task and a running task has its worker), `RankInv` (ranks are given
in order, without repetition) and `CallerInv` (a caller that waits does so for a
partition with a worker, and its command is accepted). Theorems: `Invariance`,
`TypeCorrect`, `FifoAlways`, `NoTaskStrandedAlways`, `CallerFindsResultAlways`, for any
set of partitions and any set of commands. The step is one lemma per action; what a
worker does at the head of its loop is shared between `Start` and `HandlerEnds`.

The same module proves `ImplementsSerialTasks`, that is
`Safety => Abstract!Safety`. The invariant gains `AttemptInv`, that a command is attempted
once when a worker takes it and never again. `EnqueueAccepts` maps `enqueue` to `Accept`
(the new rank exceeds all others by `RankInv`), `HandlerEndsExecutes` maps the end of a
handler to `Execute` (by `Fifo`, nothing older of the partition is pending), and the
start of a worker and the resumption of a caller are invisible.

`KnowledgeDecisionProofs`. What a record may become depends on who may still write it.
`Owns(s, d)` says that server `s` is responsible for the next status of `d`, `Unique` that
no two servers are; `CallOK` lists the four shapes of a call in progress
(`CreatesReview`, `CreatesAccepted`, `MovesDrain`, `Reviews`) with what each still knows
of the two files; `DrainOK` what a drain knows between two calls; `RecordOK` that reviewed
and applied decisions are told apart by their verdict, and that only a reviewed one is
ever in the lock. `ReviewLockAlwaysPending` and
`AuditAlwaysMatchesGit` hold for any number of servers, crashes and interleavings of file
accesses (a commit whose revision is not read back is owned by nobody: its record is applying or failed); `FrozenPartitionNeverMutated` assumes one server (`Servers = {s}`), and needs
it: a second one freezes a partition while the first is applying.

`AgentRuntimeProofs`. `StepBudget` is not inductive: how far a trace may be depends on
where its run stands. `RunInv` says it for each place (`StepsAt`: at most the budget while
acting, checking, at the gate or waiting, two more when planning again after a repair,
three more at the end), that a call is in the trace and not in the row only if its tool
raised (`CallsAt`), that a subrun is awaited only below the limit (`SubrunsAt`), that a
failed run is on its way out (`FailureAt`), and that a child's mode is deterministic, which
is why it starts no subrun. Theorems: `TypeCorrect`, `StepBudgetAlways`,
`CallBudgetAlways`, `StepCountAlwaysTrace`, `NeverNests`, `FailureAlwaysEndsRun`, for any
requests with any limits and any drafts. `CompletedIsAlwaysVerified` adds `StackInv`, that
one run executes at a time: what its end was decided on (the file, the child's verdict)
does not change afterwards. `RaiseKeeps`, `FinishKeeps` and `MoveKeeps` share what the
actions have in common. TLC also finds `IInv` and `VerifiedInv` invariant on the instance
of `agent_runtime`.

The second half of that module is about `TraceReplay`, for any number of turns, sessions, steps and actions.
A row says nothing of the session that wrote it, so `TraceInv` says it for each place of the writer. `TurnInv`
(`TraceIsInOrder`, `TurnsAreRebuilt`): the place of the last step is the turn being acted on, or none; and appending a step
moves no other (`PlaceIn`, of a prefix). `SessionInv` (`LastSessionIsRebuilt`): sessions follow each other in
the rows, hence the last artifact of a turn is of the last session if that wrote one; and what a decision was made
from is written before it (`ContextInv`, `DecidedInv`, `ActedInv`). `AnswerInv` (`ResultsArePaired`): a result stands
right after its call, and a call without a result is the last of its turn. A deletion takes rows from the front,
which `TraceInv` survives as long as no session writes; of one that does it says nothing. So the results of a turn are in
bijection with the calls they answer, but for the last, and the k-th belongs to the k-th.

`PartitionWorkspaceProofs`. `HeadIsIndexed` is about revisions, and a commit takes what is
staged, not what is in the files. `IndexInv` follows the content on its way: who stands
between the lock and its release is its holder, hence alone (`HolderIsAlone`); the case
files he has not named are as they are staged, because he found the three trees equal
and nobody else writes such files; from the refresh of the indexes to `git add` the
indexes in the files belong to the files (`Knows`). So what is staged is `Indexed`, and with it every commit.
`MutationsAlwaysExclude` is the first part. Both hold for any number of servers, and for indexes of the listed
cases (`Entry`): what is listed depends on which cases there are, not on what is in them (`ListedSame`).

Three more theorems of that module are about any number of servers. `TypeCorrect`: a change of
a plan is never written into a case file that has gone since the plan was made, as each
change is checked against the file first. `CleanAlwaysAtRest`: who holds the lock has changed
nothing but what he names, and Git's index only from `git add` on, so that the commands a rollback has
(`clean`, `restore`) undo the rest; `CleanStage` says it for each place. `StatisticsAlwaysMatchHead`: while
an operation replaces observations, the statistics count HEAD for the cases that are still to be replaced and
the files for the others (`Mixed`), and HEAD alone at rest.

`RevisionsAreAlwaysAtomic` is the refinement, `Safety => RevisionsAreAtomic`, for one server and any number of
cases, schemas, operations, failures and crashes. A commit takes what is staged, so `AtomicInv` says of each place
what the next revision would be: from the moment at which the three trees were found equal, first the files
and then Git's index differ from HEAD by what the operation is about. For a drain (`Regroups`) no case has come,
gone or changed its profile; for a case operation (`Rewrites`) nothing but its case has; and an input is about
a case that HEAD does not have, an update or deletion about one that it has (`Target`). `Reached` says that all
cases the drain reaches, the listed ones if it has a schema, are projected once its changes are written, and `Planned` that
those still to be written are the ones that are not; the plan made before the lock is still the plan under it, as
nothing else of the queue runs in between. With several servers it need not be: `base_revision` is never
compared. A commit is then `Accept`, `Input`, `Update` or `Delete`, and every other step a stutter.

`HeadIsAlwaysProjected` follows from that refinement (`NextProjected`: each action of `AtomicWorkspace` keeps it)
as long as every revision fits into one list (`HeadFits`), and is stated with that premise.

`EventBacklogProofs`. The inductive invariant `IInv` says who still owes a record to a commit
(`ReportInv`: its command at the head of the queue, or the request that waits for it, or the incident that has marked it), that a batch
holds published events (`QueueInv`), and that batches that nothing disturbed are disjoint and their
events pending (`GovernInv`).
`EventFollowsCommitAlways`, `CommitIsReportedAlways` and `GovernedOnceAlways` follow, for any
number of changes, any size of batch and any window.

`GovernanceProofs`. The invariant ties the report to what the skill was given and
`proposal` to the evidence: `ChangeIsSupported` then follows from `Gate` by arithmetic
(a rounded quotient of 0.70 and at most two unobserved entries leave 70 % unrounded), and `HonestPassIsKept` from
the counts shown never exceeding those of the statistics, so that what passes with them
passes with more (`Fit` is monotone; the cardinality lemmas are why keys are finite).

`CaseCatalogProofs`. `WrittenIsAlwaysProjected` is an action property: `DocsInv` types the
files, and two lemmas about what a write leaves (one case, a set of cases) serve the
seven actions that write some; `ApplyPlan` writes under the new schema, the others under that of the moment.
`Exactness` is the invariant `CatalogInv`: snapshot and indexes are those built over the files. Adding
or removing one case is an equation between two aggregates (cardinalities of the cases that have a value);
a drain's replacements are a recursive function over the changed cases (`ReplacingSteps`). From it follow
`StatisticsAreAlwaysExact` and `EvidenceAlwaysAgrees`. `CasesAreAlwaysRetrieved` compares ranks: a case asked for as it is
shares every term with the question, and another shares at most as many, so that only the wording (`Favour`: score and bonus)
can put it first; and of the `RecallSize` nearest none is missing from a recall (by counting). It needs
`FacetsInv`, that facets are finite, hence the assumption on profiles. `TypeAlwaysCorrect` has
no invariant of its own to strengthen but that counts are natural, which `Minus` clamps.
`WorkingSetAlwaysFollows` has two parts. `EventsInv` is about the partition: of the events of a case, published or not,
a creation is the first and a deletion the last, only a case that was written has any, and no case that exists has a
deletion. The rest is about any batch in that order: after each event the collapse is one of four shapes
(`Collapsed`: nothing, one entry, a deletion alone, what follows it), shown by the least set at which it
would fail, and the groups are listed by the least set that has no order (`OrderExists`).

`ModelAccessProofs`. `VectorInv`: what is stored has the provider's length or none, as long
as the provider has not forgotten it. `CallsInv`: how many completions a request has asked
for at each step. `AnswerIsAlwaysUsed` adds what becomes of a reply (`ReplyInv`, `UseInv`, `SummaryInv`), and needs two facts
about walks: `Dedupe` keeps one spelling of each value up to the limit, and what `Without` leaves has no
opening token before a closing one.
`WrappedIsAlwaysRead` rests on `WrappedObjectIsRead`, which is about the reader alone and any text. A reader that has
closed the outermost brace refuses what follows (`ReadOn`), so an object closes at its end and not before
(`ObjectCloses`); two texts that begin alike are read alike up to there; hence the first balanced part
is the object, and a text that is an object is that one. `WithoutBlock` says what each step of the search for thoughts has kept,
before, within and after the one block. `ReadInv` ties a request to it: who repairs has read nothing, and
who failed by itself has read an object, or nothing, or had nobody to ask.

`KnowledgeDecisionProofs` also has `PendingReviewAlwaysFreezes`, for one server: between two
calls the two files agree (`FilesAgree`), and within a call they differ in exactly what
the call has yet to write (`CallAgrees`).

Type invariants, `Fifo`, `NoNesting`, `MutationsExclude` and `HeadIsProjected` are proved and no longer in the runs.

Induction. What a recursive function on the natural numbers computes is proved by the least
counterexample: a set of numbers that is not empty has a least member (`LeastExists`, from `WFMin`), and the
step before it is none. The induction theorems of the library take an operator and are not usable here.

Only model-checked: liveness under fairness (`NoTaskStranded` and the like are its safety parts), and with it the
fairness part of `ExecutesSerially`. Every invariant and every action property of the runs is proved.

## 5. What the models leave out, and why

- *Losses no document excludes*: the queue is in memory, so an answered case input is lost
  with its process; a run whose process dies says `running` for ever; `run_request`
  executes inside an async route, so a run delays every other request.
- *Request cancellation*: `wait_idle` awaits the task of the worker without a shield (`queue.py:61`), so that a
  request which is cancelled there would cancel the worker in the middle of a handler and leave the rest of its deque
  until the next command comes. No code of the repository cancels a request, and the models have none cancelled.
- *Non-atomic JSON files*: a reader that sees a half-written file raises, which the models
  have as an exception where readers and writers are concurrent.
- *The metadata file of the mutation lock*: read by nobody.
- *Identifiers of one millisecond*: of events they are modelled (`OverwriteEvent`), under the assumption that no batch has taken
  the first event within that millisecond; artifacts (`repositories.py:427`) and runs have their own in the models.
- *Two index files* are one in `PartitionWorkspace`: they are written together by each
  refresh. `CaseCatalog` has both.
- *Batches of several partitions*: the API requires a partition. *Several servers* in
  `EventBacklog`: its properties are those of one server. A request may come between two
  commands of the queue in more places than asyncio lets it: the model over-approximates.
- *Texts*: `attempt_count`, `run_id` and error messages of records are shown and not read;
  prompts are what the model is told, and the model may answer anything.
- *Scores* of text and embeddings, and the bonus, are numbers of a `Wording`; which of equal scores a recall keeps is left open. The answer agent of a query
  is a stub in the code.
- *Trace*: one payload of a trace names a turn, and none beside a deletion; there is one deletion, no session starts after it has begun,
  and one that writes beside it is the first and plans no further turn. What is shown of such a run is named as an exception (`torn`).
  The budgets are left to `AgentRuntime`. Request metadata `runtime_mode = analysis_only`
  (its actions are refused) is left out. `EveryRunEnds` is about requests of the instance:
  that a repair round spends steps is what makes it true, and `StepBudget` is proved for all.
- *Governance*: the coverage assessment and the reasons of a verdict are diagnostics that
  nothing decides on.
- *Crashes between lock and record of a review*: nothing repairs them at start. `ReviewLockIsPending` permits a lock
  without a record, `PendingReviewFreezes` is about the time without a crash.
- *Hazards met and not turned into a property*, because the code makes no promise that a
  property could state: `approve` moves a decision to approved and nothing ever applies
  its plan (`api/routes_knowledge.py:60`); enough completed records hide pending events from the
  ready window (`backlog/events/queue.py:73`); acceptance is checked before the verification
  subrun, whose skills may change the file (`runtime/verification/executor.py:43`); a child that
  stops without calling its verification skill completes with no verdict
  (`runtime/llm/decisioning.py:305`); skills leave the workspace dirty (`docs/partition.md:42`
  leaves that to manual handling, which is `CommitByHand`).
- *Elasticsearch, wiring, HTTP parsing, web console*: thin calls of an external service,
  construction and presentation. The Elasticsearch bundle cannot be constructed at this
  revision: it is given no statistics repositories (`es/repositories.py:403`, `persistence/types.py:17`).

## 6. Plan

Done: the parts of the system that keep state, their composition where they interact, and
proofs for eight of them, two of which are shown to implement an abstract specification. What is
left, in this order:

1. The assembly of the runtime's prompt: which rows of the memory a plan sees, at its cut-offs.
2. Governance composed with `AgentRuntime`: the calls of the validation skill as actions of
   the run, which would replace `CallOverBudget` by the call budget.
