------------------------ MODULE PartitionWorkspace ------------------------
(***************************************************************************)
(* The Git-managed workspace of one partition, local_root/partitions/{p},  *)
(* and everything that writes it: case input, update and delete            *)
(* (internal/product/ingest, internal/domain/case), the apply phase of a   *)
(* Knowledge drain with its transaction (internal/knowledge/workflow,      *)
(* knowledge/execution, versioning), the facet-schema request of the API,  *)
(* and the case statistics, which live outside Git.                        *)
(*                                                                         *)
(* Git is its three trees: HEAD, the index (here staged) and the working   *)
(* files.  Every operation is the sequence of its file accesses, because   *)
(* an exception or a crash can strike between any two of them, and the     *)
(* other server process and the requests that take no lock can look in.    *)
(* The queue of a server runs one operation at a time.                     *)
(***************************************************************************)
EXTENDS Integers, FiniteSets

CONSTANTS Servers, Cases, Profiles, Schemas, Facets,
          Project,       \* project_from_semantic_profile: profile and schema to facets
          FirstSchema,   \* the facet schema of the baseline commit
          ListLimit,     \* cases that list_by_partition returns, 500
          Rank,          \* the order of the case files by name
          SchemaFile,    \* facet_schema.json
          IndexFile,     \* facet_index.json and semantic_index.json
          Absent,        \* a file that does not exist, a schema that is not changed
          NoServer,      \* the PartitionMutationLock when nobody holds it
          MaxOps,        \* bound on operations and requests
          MaxFaults      \* bound on exceptions and crashes

ASSUME WorkspaceAssumption ==
    /\ Project \in [Profiles \X Schemas -> Facets]
    /\ FirstSchema \in Schemas
    /\ ListLimit \in Nat /\ Rank \in [Cases -> Nat]
    /\ NoServer \notin Servers
    /\ SchemaFile \notin Cases /\ IndexFile \notin Cases /\ SchemaFile # IndexFile
    /\ Absent \notin Schemas /\ Absent \notin [profile : Profiles, facets : Facets, at : Nat]
    /\ Absent \notin [profile : Profiles, facets : Facets]
    /\ MaxOps \in Nat /\ MaxFaults \in Nat

VARIABLES
    work, staged, head,   \* the working files, Git's index and the tree of HEAD
    stats,                \* case statistics: how many cases contribute an observation
    holder,               \* the server that holds the flock
    op,                   \* what the thread of a server is executing
    up,                   \* the servers that passed their startup check
    happened,             \* what went wrong, or past the queue, so far
    ops, faults           \* operations and requests begun, exceptions and crashes

vars == <<work, staged, head, stats, holder, op, up, happened, ops, faults>>
trees == <<work, staged, head>>

Paths == Cases \cup {SchemaFile, IndexFile}

\* A file carries the time of its last write: an upsert always changes it.
Doc(profile, facets, at) == [profile |-> profile, facets |-> facets, at |-> at]
SchemaDoc(schema, at) == [schema |-> schema, at |-> at]

\* list_by_partition: the first case files in the order of their names.
Listed(tree) ==
    {c \in Cases :
        /\ tree[c] # Absent
        /\ Cardinality({d \in Cases : tree[d] # Absent /\ Rank[d] < Rank[c]}) < ListLimit}

\* An index says nothing of the cases that are not listed.
Entry(tree, c) == IF c \in Listed(tree) THEN tree[c] ELSE Absent
IndexDoc(tree, at) == [from |-> [c \in Cases |-> Entry(tree, c)], at |-> at]

Observation(doc) == [profile |-> doc.profile, facets |-> doc.facets]
Observations == [profile : Profiles, facets : Facets]

NoChanges == [c \in {} |-> 0]
NoOp == [kind |-> "none", case |-> Absent, profile |-> Absent, old |-> Absent,
         schema |-> Absent, changes |-> NoChanges, todo |-> {}, base |-> Absent,
         n |-> 0, at |-> "done"]

Baseline ==
    LET files == [p \in Paths |-> IF p = SchemaFile THEN SchemaDoc(FirstSchema, 0) ELSE Absent]
    IN  [files EXCEPT ![IndexFile] = IndexDoc(files, 0)]

\* save_partition of a new partition: the baseline commit.
Init ==
    /\ work = Baseline /\ staged = Baseline /\ head = Baseline
    /\ stats = [o \in Observations |-> 0]
    /\ holder = NoServer
    /\ op = [s \in Servers |-> NoOp]
    /\ up = Servers
    /\ happened = {}
    /\ ops = 0 /\ faults = 0

-----------------------------------------------------------------------------
(* GitRepository and MutationTransaction *)

\* status: paths that differ between the files and the index, or it and HEAD.
ChangedPaths == {p \in Paths : work[p] # staged[p] \/ staged[p] # head[p]}
Clean == ChangedPaths = {}

\* begin_transaction and prepare refuse a workspace that is not clean.
Unchecked == TRUE            \* mutant: no clean check before a mutation
MayMutate == Clean

\* commit: "git commit" takes the whole index, not only the paths just added.
Add(paths) == [p \in Paths |-> IF p \in paths THEN work[p] ELSE staged[p]]

\* rollback: "git clean" removes registered files the index does not know,
\* "git restore" rewrites registered files the base revision knows.  Git's index
\* is left alone.
RollbackFirst(paths, base) ==      \* mutant: restores the case files and forgets the indexes
    [p \in Paths |-> IF p \in paths \cap Cases /\ base[p] # Absent THEN base[p] ELSE work[p]]

Rollback(paths, base) ==
    [p \in Paths |->
        IF p \notin paths THEN work[p]
        ELSE IF base[p] # Absent THEN base[p]
        ELSE IF staged[p] = Absent THEN Absent
        ELSE work[p]]

-----------------------------------------------------------------------------
(* Submitting an operation: the queue hands it to the thread of a server *)

Begin(s, new) ==
    /\ s \in up
    /\ op[s] = NoOp
    /\ ops < MaxOps
    /\ ops' = ops + 1
    /\ op' = [op EXCEPT ![s] = new]
    /\ UNCHANGED <<trees, stats, holder, up, happened, faults>>

CaseOp(kind, c, profile) ==
    [NoOp EXCEPT !.kind = kind, !.case = c, !.profile = profile, !.n = ops + 1, !.at = "lock"]

\* A new case has an id that nothing else knows.
Ingest(s, c, profile) ==
    /\ work[c] = Absent /\ staged[c] = Absent /\ head[c] = Absent
    /\ \A r \in Servers : op[r].case # c
    /\ Begin(s, CaseOp("ingest", c, profile))

Update(s, c, profile) ==
    /\ work[c] # Absent
    /\ Begin(s, CaseOp("update", c, profile))

Delete(s, c) ==
    /\ work[c] # Absent
    /\ Begin(s, CaseOp("delete", c, work[c].profile))

\* A drain checks the workspace, reads the schema and awaits governance ...
StartDrain(s) ==
    /\ Clean
    /\ Begin(s, [NoOp EXCEPT !.kind = "drain", !.n = ops + 1, !.at = "governing"])

\* ... which accepts a new schema or changes nothing.  Projection plans the
\* listed cases whose facets differ under the new schema, without the mutation
\* lock.
ToChangeOfBatch(schema) ==      \* mutant: only the latest case is projected
    {c \in Cases : /\ work[c] # Absent
                   /\ Project[work[c].profile, schema] # work[c].facets
                   /\ \A d \in Cases : work[d] # Absent => work[d].at <= work[c].at}

ToChange(schema) ==
    {c \in Listed(work) : Project[work[c].profile, schema] # work[c].facets}

Plan(schema) ==
    [c \in ToChange(schema) |->
        [before |-> work[c].facets, after |-> Project[work[c].profile, schema]]]

Govern(s, schema) ==
    /\ op[s].at = "governing"
    /\ LET changes == IF schema = Absent THEN NoChanges ELSE Plan(schema)
       IN  op' = [op EXCEPT ![s].schema = schema, ![s].changes = changes,
                            ![s].todo = DOMAIN changes, ![s].at = "lock"]
    /\ UNCHANGED <<trees, stats, holder, up, happened, ops, faults>>

-----------------------------------------------------------------------------
(* The steps every operation takes *)

At(s, at) == op[s].at = at
Goto(s, at) == op' = [op EXCEPT ![s].at = at]

Acquire(s) ==
    /\ At(s, "lock")
    /\ holder = NoServer
    /\ holder' = s
    /\ Goto(s, "begin")
    /\ UNCHANGED <<trees, stats, up, happened, ops, faults>>

\* The case must exist (update, delete) and the workspace be clean; the
\* transaction of a drain that does not even begin has nothing to undo.
BeginMutation(s) ==
    /\ At(s, "begin")
    /\ IF MayMutate /\ (op[s].kind \in {"update", "delete"} => work[op[s].case] # Absent)
       THEN op' = [op EXCEPT ![s].at = IF op[s].kind = "drain" THEN "schema" ELSE "write",
                             ![s].old = IF op[s].kind = "drain" THEN Absent
                                        ELSE work[op[s].case]]
       ELSE Goto(s, "unlock")
    /\ UNCHANGED <<trees, stats, holder, up, happened, ops, faults>>

\* create_case, update_case and delete_case: facets are always projected
\* under the schema the file holds now.
WriteCase(s) ==
    /\ At(s, "write")
    /\ LET o == op[s]
           facets == Project[o.profile, work[SchemaFile].schema]
       IN  work' = [work EXCEPT ![o.case] = IF o.kind = "delete" THEN Absent
                                            ELSE Doc(o.profile, facets, o.n)]
    /\ op' = [op EXCEPT ![s].at = "index", ![s].todo = {op[s].case}]
    /\ UNCHANGED <<staged, head, stats, holder, up, happened, ops, faults>>

\* KnowledgeMutationExecutor.apply: validate the plan, save the schema ...
Unplanned(s) ==
    \E c \in DOMAIN op[s].changes :
        work[c] = Absent \/ work[c].facets # op[s].changes[c].before

SaveSchema(s) ==
    /\ At(s, "schema")
    /\ IF Unplanned(s) THEN Goto(s, "rollback") /\ UNCHANGED work
       ELSE /\ Goto(s, "changes")
            /\ work' = IF op[s].schema \in {Absent, work[SchemaFile].schema} THEN work
                       ELSE [work EXCEPT ![SchemaFile] = SchemaDoc(op[s].schema, op[s].n)]
    /\ UNCHANGED <<staged, head, stats, holder, up, happened, ops, faults>>

\* ... and write the case files one by one.
WriteChange(s) ==
    /\ At(s, "changes")
    /\ \/ \E c \in op[s].todo :
             /\ work' = [work EXCEPT ![c].facets = op[s].changes[c].after]
             /\ op' = [op EXCEPT ![s].todo = @ \ {c}]
       \/ /\ op[s].todo = {}
          /\ op' = [op EXCEPT ![s].at = "index", ![s].todo = DOMAIN op[s].changes]
          /\ UNCHANGED work
    /\ UNCHANGED <<staged, head, stats, holder, up, happened, ops, faults>>

\* The indexes are rebuilt from the listed case files.
RefreshIndexes(s) ==
    /\ At(s, "index")
    /\ work' = [work EXCEPT ![IndexFile] = IndexDoc(work, op[s].n)]
    /\ Goto(s, "stats")
    /\ UNCHANGED <<staged, head, stats, holder, up, happened, ops, faults>>

\* StatisticsAggregator: counts never go below zero.
AddTo(counts, doc) ==
    IF doc = Absent THEN counts ELSE [counts EXCEPT ![Observation(doc)] = @ + 1]

RemoveNothing(counts, doc) == counts      \* mutant: replace adds the new observation only

RemoveFrom(counts, doc) ==
    IF doc = Absent THEN counts
    ELSE [counts EXCEPT ![Observation(doc)] = IF @ > 0 THEN @ - 1 ELSE 0]

OldDoc(s, c) ==
    IF op[s].kind = "drain" THEN [work[c] EXCEPT !.facets = op[s].changes[c].before]
    ELSE op[s].old

\* The observation of each case written is replaced, one snapshot at a time.
ReplaceObservation(s) ==
    /\ At(s, "stats")
    /\ \/ \E c \in op[s].todo :
             /\ stats' = AddTo(RemoveFrom(stats, OldDoc(s, c)), work[c])
             /\ op' = [op EXCEPT ![s].todo = @ \ {c}]
       \/ op[s].todo = {} /\ Goto(s, "add") /\ UNCHANGED stats
    /\ UNCHANGED <<trees, holder, up, happened, ops, faults>>

\* The paths an operation names to Git.
Registered(s) ==
    IF op[s].kind = "drain"
    THEN DOMAIN op[s].changes \cup {IndexFile}
         \cup (IF op[s].schema = Absent THEN {} ELSE {SchemaFile})
    ELSE {op[s].case, IndexFile}

GitAdd(s) ==
    /\ At(s, "add")
    /\ staged' = Add(IF op[s].kind = "drain" THEN Registered(s) \cap ChangedPaths
                     ELSE Registered(s))
    /\ Goto(s, "commit")
    /\ UNCHANGED <<work, head, stats, holder, up, happened, ops, faults>>

GitCommit(s) ==
    /\ At(s, "commit")
    /\ head' = staged
    /\ Goto(s, "unlock")
    /\ UNCHANGED <<work, staged, stats, holder, up, happened, ops, faults>>

\* rollback registers everything status reports, whoever changed it, and goes
\* back to the revision the transaction began with.  HEAD has left it if the
\* exception came after the commit.
RollBack(s) ==
    /\ At(s, "rollback") \/ At(s, "undo")
    /\ work' = Rollback(Registered(s) \cup ChangedPaths,
                        IF At(s, "undo") THEN op[s].base ELSE head)
    /\ Goto(s, "unlock")
    /\ UNCHANGED <<staged, head, stats, holder, up, happened, ops, faults>>

ReleasedOnSuccess == IF faults = 0 THEN NoServer ELSE holder      \* mutant: no finally
Released == NoServer

Unlock(s) ==
    /\ At(s, "unlock")
    /\ holder' = Released
    /\ op' = [op EXCEPT ![s] = NoOp]
    /\ UNCHANGED <<trees, stats, up, happened, ops, faults>>

Step(s) ==
    \/ BeginMutation(s) \/ WriteCase(s) \/ SaveSchema(s) \/ WriteChange(s) \/ RefreshIndexes(s)
    \/ ReplaceObservation(s) \/ GitAdd(s) \/ GitCommit(s) \/ RollBack(s) \/ Unlock(s)

-----------------------------------------------------------------------------
(* What goes wrong *)

CaseSteps == {"write", "index", "stats", "add", "commit"}
DrainSteps == {"schema", "changes", "index", "stats", "add", "commit"}

\* The embedding provider, a file system call or a Git command raises: the
\* case operations leave everything as it is, the drain rolls back.
Raises(s) ==
    LET kind == IF op[s].kind = "drain" THEN "drain" ELSE "case"
    IN  /\ faults < MaxFaults
        /\ op[s].at \in (IF kind = "drain" THEN DrainSteps ELSE CaseSteps)
        /\ Goto(s, IF kind = "drain" THEN "rollback" ELSE "unlock")
        /\ happened' = happened \cup {<<kind, op[s].at>>}
        /\ faults' = faults + 1
        /\ UNCHANGED <<trees, stats, holder, up, ops>>

\* "git commit" succeeds and reading the revision back raises: the commit stays,
\* and the drain undoes in the files what HEAD now has.
CommitRaises(s) ==
    LET kind == IF op[s].kind = "drain" THEN "drain" ELSE "case"
    IN  /\ faults < MaxFaults
        /\ At(s, "commit")
        /\ head' = staged
        /\ op' = IF kind = "drain" THEN [op EXCEPT ![s].base = head, ![s].at = "undo"]
                 ELSE [op EXCEPT ![s].at = "unlock"]
        /\ happened' = happened \cup {<<kind, "revision">>}
        /\ faults' = faults + 1
        /\ UNCHANGED <<work, staged, stats, holder, up, ops>>

\* The process dies; the operating system releases its flock.
Crash(s) ==
    /\ faults < MaxFaults
    /\ op[s] # NoOp
    /\ op' = [op EXCEPT ![s] = NoOp]
    /\ holder' = IF holder = s THEN NoServer ELSE holder
    /\ up' = up \ {s}
    /\ happened' = happened \cup {<<"server", "crash">>}
    /\ faults' = faults + 1
    /\ UNCHANGED <<trees, stats, ops>>

\* A dirty partition blocks the startup.
Restart(s) ==
    /\ s \notin up
    /\ Clean
    /\ up' = up \cup {s}
    /\ UNCHANGED <<trees, stats, holder, op, happened, ops, faults>>

\* PUT .../facet-schema writes the file when the schema differs: no queue, no
\* lock, no commit.
PutSchema(s, schema) ==
    /\ s \in up
    /\ op[s].at \in {"done", "governing"}
    /\ ops < MaxOps
    /\ schema # work[SchemaFile].schema
    /\ work' = [work EXCEPT ![SchemaFile] = SchemaDoc(schema, ops + 1)]
    /\ ops' = ops + 1
    /\ happened' = happened \cup {<<"request", "put">>}
    /\ UNCHANGED <<staged, head, stats, holder, op, up, faults>>

Next ==
    \E s \in Servers :
        \/ \E c \in Cases, f \in Profiles : Ingest(s, c, f) \/ Update(s, c, f)
        \/ \E c \in Cases : Delete(s, c)
        \/ StartDrain(s)
        \/ \E k \in Schemas \cup {Absent} : Govern(s, k)
        \/ Acquire(s) \/ Step(s)
        \/ Raises(s) \/ CommitRaises(s) \/ Crash(s) \/ Restart(s)
        \/ \E k \in Schemas : PutSchema(s, k)

Safety == Init /\ [][Next]_vars

\* A thread that has work does it, and a free flock is granted.
Spec == Safety /\ \A s \in Servers : WF_vars(Acquire(s)) /\ WF_vars(Step(s))

-----------------------------------------------------------------------------
(* Properties that hold for any number of servers, faults and crashes *)

Docs == [profile : Profiles, facets : Facets, at : Nat] \cup {Absent}

TreeOK(tree) ==
    /\ \A c \in Cases : tree[c] \in Docs
    /\ tree[SchemaFile] \in [schema : Schemas, at : Nat]
    /\ \A c \in Cases : tree[IndexFile].from[c] \in Docs

TypeOK ==
    /\ TreeOK(work) /\ TreeOK(staged) /\ TreeOK(head)
    /\ stats \in [Observations -> Nat]
    /\ holder \in Servers \cup {NoServer}
    /\ up \subseteq Servers
    /\ ops \in 0..MaxOps /\ faults \in 0..MaxFaults

\* Every revision is consistent: its indexes were built from its own case files,
\* the first ListLimit of them, whatever failed, crashed or wrote past the lock
\* before it.
HeadIsIndexed == \A c \in Cases : head[IndexFile].from[c] = Entry(head, c)

AtRest == \A s \in Servers : op[s] = NoOp

\* The statistics outside Git count the cases of HEAD, as long as nothing
\* failed between their update and the commit and nothing crashed.  They follow a
\* commit that raises late, also when the drain then undoes it in the files.
StatisticsMatchHead ==
    /\ AtRest
    /\ happened \subseteq {<<"case", "write">>, <<"case", "index">>, <<"case", "revision">>,
                           <<"request", "put">>}
                          \cup ({"drain"} \X {"schema", "changes", "index", "revision"})
    => \A o \in Observations :
          stats[o] = Cardinality({c \in Cases : head[c] # Absent /\ Observation(head[c]) = o})

\* What fails before it writes, what a transaction rolls back before it touches
\* Git's index, and a case operation that raises after its commit leave the
\* workspace ready for the next operation.
CleanAtRest ==
    /\ AtRest
    /\ happened \subseteq {<<"case", "write">>, <<"case", "revision">>} \cup ({"drain"} \X (DrainSteps \ {"commit"}))
    => Clean

\* Who waits for the lock gets it and gets done: nobody keeps it, not even an
\* operation that fails.
MutationsFinish == \A s \in Servers : At(s, "lock") ~> op[s] = NoOp

-----------------------------------------------------------------------------
(* Properties of a workspace with one server *)

\* The revision that HEAD is, without the times of its files.
CasesOf(tree) == [c \in Cases |-> IF tree[c] = Absent THEN Absent ELSE Observation(tree[c])]
Revision == INSTANCE AtomicWorkspace WITH schema <- head[SchemaFile].schema, cases <- CasesOf(head)

\* Each revision differs from the one before by one complete operation: no
\* commit takes up what a failed operation left behind, a part of a plan or two
\* operations at once, no update restores a deleted case, and an accepted schema
\* comes with the facets of every listed case.  The cases beyond the limit keep
\* the facets they have.
RevisionsAreAtomic == Revision!Spec

-----------------------------------------------------------------------------
(* What the repository says and the code does not do *)

\* A drain that fails is rolled back to a clean workspace.
FailedDrainIsRolledBack ==
    AtRest /\ happened \subseteq {"drain"} \X DrainSteps => Clean
=============================================================================
