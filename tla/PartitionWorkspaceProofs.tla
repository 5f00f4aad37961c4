---------------------- MODULE PartitionWorkspaceProofs ----------------------
(***************************************************************************)
(* Theorems about the revisions of a partition, for any cases, profiles    *)
(* and schemas and any number of operations, exceptions and crashes.  With *)
(* any number of servers the indexes of every revision belong to its       *)
(* cases, an operation that failed before it wrote leaves the files clean, *)
(* and the statistics count the cases of HEAD; with one server every       *)
(* revision differs from the one before by one complete operation, and     *)
(* the facets of its cases belong to its schema as long as they are no     *)
(* more than list_by_partition returns.                                    *)
(***************************************************************************)
EXTENDS PartitionWorkspace, FiniteSetTheorems, TLAPS

\* Who stands here holds the mutation lock, ...
Holding == {"begin", "write", "schema", "changes", "index", "stats", "add", "commit",
            "rollback", "undo", "unlock"}
\* ... and has left alone the files it does not name.
Editing == {"write", "schema", "changes", "index", "stats", "add"}

Parts == {"kind", "case", "profile", "old", "schema", "changes", "todo", "base", "n", "at"}

\* The operation of a server as a record of its parts, and what its kind tells.
OpOK(o) ==
    /\ o = [part \in Parts |-> o[part]]
    /\ DOMAIN o.changes \subseteq Cases
    /\ o.kind = "drain" => o.todo \subseteq DOMAIN o.changes
    /\ o.kind # "drain" /\ o.at # "done" => o.case \in Cases
    /\ o.at \in {"governing", "schema", "changes"} => o.kind = "drain"
    /\ o.at = "write" => o.kind # "drain"

Shape ==
    /\ work = [p \in Paths |-> work[p]]
    /\ staged = [p \in Paths |-> staged[p]]
    /\ op = [s \in Servers |-> op[s]]
    /\ \A s \in Servers : OpOK(op[s])

-----------------------------------------------------------------------------
(* Indexes.  HeadIsIndexed is not inductive: a commit takes what is staged,  *)
(* and what is staged was added from the files of somebody who held the lock *)
(* since he found the three trees equal.                                     *)

Indexed(tree) == \A c \in Cases : tree[IndexFile].from[c] = Entry(tree, c)

Knows(s) ==
    /\ op[s].at \in Holding => holder = s
    /\ op[s].at \in Editing => \A c \in Cases \ Registered(s) : work[c] = staged[c]
    /\ op[s].at \in {"stats", "add"} => Indexed(work)

IndexInv ==
    /\ Shape
    /\ \A s \in Servers : Knows(s)
    /\ Indexed(staged) /\ Indexed(head)

USE WorkspaceAssumption

\* What is listed depends on the cases that exist, ...
LEMMA ListedSame ==
    ASSUME NEW t, NEW u, \A c \in Cases : t[c] = Absent <=> u[c] = Absent
    PROVE  Listed(t) = Listed(u)
<1> DEFINE before(tree, c) == {d \in Cases : tree[d] # Absent /\ Rank[d] < Rank[c]}
<1>1. \A c \in Cases : before(t, c) = before(u, c) OBVIOUS
<1>2. Listed(t) = {c \in Cases : t[c] # Absent /\ Cardinality(before(t, c)) < ListLimit} BY DEF Listed
<1>3. Listed(u) = {c \in Cases : u[c] # Absent /\ Cardinality(before(u, c)) < ListLimit} BY DEF Listed
<1> HIDE DEF before
<1> QED BY <1>1, <1>2, <1>3

\* ... and what the indexes should say on their files.
LEMMA EntrySame ==
    ASSUME NEW t, NEW u, \A c \in Cases : t[c] = u[c], NEW c \in Cases
    PROVE  Entry(t, c) = Entry(u, c)
<1>1. Listed(t) = Listed(u) BY ListedSame
<1> QED BY <1>1 DEF Entry

LEMMA IndexedSame ==
    ASSUME NEW t, NEW u, \A p \in Cases \cup {IndexFile} : t[p] = u[p], Indexed(t)
    PROVE  Indexed(u)
<1>1. \A c \in Cases : Entry(t, c) = Entry(u, c) BY EntrySame
<1> QED BY <1>1 DEF Indexed

LEMMA NoOpOK == OpOK(NoOp)
<1>1. NoOp = [part \in Parts |-> NoOp[part]] BY DEF NoOp, Parts
<1>2. NoOp.kind = "none" /\ NoOp.at = "done" /\ NoOp.changes = NoChanges BY DEF NoOp
<1> QED BY <1>1, <1>2 DEF OpOK, NoChanges

LEMMA InitIndexed == Init => IndexInv
<1> SUFFICES ASSUME Init PROVE IndexInv
  OBVIOUS
<1> DEFINE files == [p \in Paths |-> IF p = SchemaFile THEN SchemaDoc(FirstSchema, 0) ELSE Absent]
<1>1. Baseline = [files EXCEPT ![IndexFile] = IndexDoc(files, 0)] BY DEF Baseline
<1>2. Baseline = [p \in Paths |-> Baseline[p]] BY <1>1
<1>3. Indexed(Baseline)
  <2>1. \A c \in Cases : Baseline[c] = files[c] BY <1>1 DEF Paths
  <2>2. Baseline[IndexFile] = IndexDoc(files, 0) BY <1>1 DEF Paths
  <2> HIDE DEF files
  <2>3. \A c \in Cases : Entry(files, c) = Entry(Baseline, c) BY <2>1, EntrySame
  <2> QED BY <2>2, <2>3 DEF Indexed, IndexDoc
<1>4. Shape BY <1>2, NoOpOK DEF Init, Shape
<1>5. \A s \in Servers : Knows(s) BY DEF Init, Knows, NoOp, Holding, Editing
<1> QED BY <1>3, <1>4, <1>5 DEF Init, IndexInv

\* What an action has to show: its own server still knows what it should, and
\* nobody else held the lock when case files, indexes or what is staged changed.
LEMMA MoveKeeps ==
    ASSUME IndexInv, NEW s \in Servers, NEW o,
           op' = [op EXCEPT ![s] = o], OpOK(o),
           work' = [p \in Paths |-> work'[p]], staged' = [p \in Paths |-> staged'[p]],
           Indexed(staged)', Indexed(head)', Knows(s)',
           \A r \in Servers \ {s} : op[r].at \in Holding =>
               /\ holder' = holder /\ staged' = staged
               /\ \A p \in Cases \cup {IndexFile} : work'[p] = work[p]
    PROVE  IndexInv'
<1>1. op = [r \in Servers |-> op[r]] /\ \A r \in Servers : OpOK(op[r]) BY DEF IndexInv, Shape
<1>2. op'[s] = o /\ \A r \in Servers \ {s} : op'[r] = op[r] BY <1>1
<1>3. Shape'
  <2>1. op' = [r \in Servers |-> op'[r]] BY <1>1
  <2>2. \A r \in Servers : OpOK(op'[r]) BY <1>1, <1>2
  <2> QED BY <2>1, <2>2 DEF Shape
<1>4. ASSUME NEW r \in Servers \ {s} PROVE Knows(r)'
  <2>1. Knows(r) /\ op'[r] = op[r] BY <1>2 DEF IndexInv
  <2>2. Registered(r)' = Registered(r) BY <2>1 DEF Registered
  <2>3. CASE op[r].at \in Holding
    <3>1. \A p \in Cases \cup {IndexFile} : work[p] = work'[p] BY <2>3
    <3>2. Indexed(work) => Indexed(work') BY <3>1, IndexedSame
    <3> QED BY <2>1, <2>2, <2>3, <3>2 DEF Knows
  <2>4. CASE op[r].at \notin Holding BY <2>1, <2>4 DEF Knows, Holding, Editing
  <2> QED BY <2>3, <2>4
<1> QED BY <1>3, <1>4 DEF IndexInv

\* A holder works alone.
LEMMA HolderIsAlone ==
    ASSUME IndexInv, NEW s \in Servers, op[s].at \in Holding
    PROVE  \A r \in Servers \ {s} : op[r].at \notin Holding
BY DEF IndexInv, Knows

\* Whatever leaves the trees alone and moves only its operation.
LEMMA IdleMoveKeeps ==
    ASSUME IndexInv, NEW s \in Servers, NEW o,
           op' = [op EXCEPT ![s] = o], OpOK(o), UNCHANGED trees,
           \/ o.at \notin Holding /\ holder' = holder
           \/ o.at \in Holding \ Editing /\ op[s].at \in Holding /\ holder' = holder
    PROVE  IndexInv'
<1>1. op'[s] = o BY DEF IndexInv, Shape
<1>2. Knows(s)' BY <1>1 DEF Knows, Holding, Editing, IndexInv
<1>3. work' = [p \in Paths |-> work'[p]] /\ staged' = [p \in Paths |-> staged'[p]]
  BY DEF IndexInv, Shape, trees
<1>4. Indexed(staged)' /\ Indexed(head)' BY DEF IndexInv, trees, Indexed
<1> QED BY <1>2, <1>3, <1>4, MoveKeeps DEF trees

-----------------------------------------------------------------------------
(* Submitting and waiting *)

LEMMA BeginKeeps ==
    ASSUME IndexInv, NEW s \in Servers, NEW o, Begin(s, o), OpOK(o), o.at \in {"lock", "governing"}
    PROVE  IndexInv'
BY IdleMoveKeeps DEF Begin, Holding

\* A part of an operation changes: its record stays one.
LEMMA OpPart ==
    ASSUME NEW o, o = [part \in Parts |-> o[part]], NEW x,
           NEW q \in Parts
    PROVE  LET u == [o EXCEPT ![q] = x]
           IN  /\ u = [part \in Parts |-> u[part]]
               /\ \A part \in Parts : u[part] = IF part = q THEN x ELSE o[part]
OBVIOUS

LEMMA SubmitKeeps ==
    ASSUME IndexInv, NEW s \in Servers,
           \/ \E c \in Cases, f \in Profiles : Ingest(s, c, f) \/ Update(s, c, f)
           \/ \E c \in Cases : Delete(s, c)
           \/ StartDrain(s)
    PROVE  IndexInv'
<1>1. ASSUME NEW c \in Cases, NEW f, NEW kind \in {"ingest", "update", "delete"}, Begin(s, CaseOp(kind, c, f))
      PROVE  IndexInv'
  <2> DEFINE o == CaseOp(kind, c, f)
  <2>1. /\ o = [part \in Parts |-> o[part]]
        /\ o.kind = kind /\ o.case = c /\ o.at = "lock" /\ o.changes = NoChanges
    BY DEF CaseOp, NoOp, Parts
  <2>2. OpOK(o)
    <3> HIDE DEF o
    <3> QED BY <2>1 DEF OpOK, NoChanges
  <2> QED BY <1>1, <2>1, <2>2, BeginKeeps
<1>2. CASE StartDrain(s)
  <2> DEFINE o == [NoOp EXCEPT !.kind = "drain", !.n = ops + 1, !.at = "governing"]
  <2>1. /\ o = [part \in Parts |-> o[part]]
        /\ o.kind = "drain" /\ o.at = "governing" /\ o.changes = NoChanges /\ o.todo = {}
    BY DEF NoOp, Parts
  <2>2. Begin(s, o) BY <1>2 DEF StartDrain
  <2>3. OpOK(o)
    <3> HIDE DEF o
    <3> QED BY <2>1 DEF OpOK, NoChanges
  <2> HIDE DEF o
  <2> QED BY <2>1, <2>2, <2>3, BeginKeeps
<1> QED BY <1>1, <1>2 DEF Ingest, Update, Delete

\* An operation goes on to its next step.
LEMMA GotoFacts ==
    ASSUME IndexInv, NEW s \in Servers, NEW at, Goto(s, at), op[s].at # "done",
           at \in {"governing", "schema", "changes"} => op[s].kind = "drain",
           at = "write" => op[s].kind # "drain"
    PROVE  /\ op' = [op EXCEPT ![s] = op'[s]]
           /\ op'[s].at = at
           /\ \A part \in Parts \ {"at"} : op'[s][part] = op[s][part]
           /\ OpOK(op'[s])
           /\ Registered(s)' = Registered(s)
<1>1. op = [r \in Servers |-> op[r]] /\ OpOK(op[s]) BY DEF IndexInv, Shape
<1>2. op' = [op EXCEPT ![s] = op'[s]] /\ op'[s] = [op[s] EXCEPT !["at"] = at] BY <1>1 DEF Goto
<1>3. /\ op'[s] = [part \in Parts |-> op'[s][part]]
      /\ \A part \in Parts : op'[s][part] = IF part = "at" THEN at ELSE op[s][part]
  <2>1. op[s] = [part \in Parts |-> op[s][part]] BY <1>1 DEF OpOK
  <2>2. "at" \in Parts BY DEF Parts
  <2>3. LET u == [op[s] EXCEPT !["at"] = at]
        IN  /\ u = [part \in Parts |-> u[part]]
            /\ \A part \in Parts : u[part] = IF part = "at" THEN at ELSE op[s][part]
    BY <2>1, <2>2, OpPart
  <2> QED BY <1>2, <2>3
<1>4. /\ op'[s].kind = op[s].kind /\ op'[s].case = op[s].case /\ op'[s].changes = op[s].changes
      /\ op'[s].todo = op[s].todo /\ op'[s].schema = op[s].schema /\ op'[s].at = at
  BY <1>3 DEF Parts
<1>5. OpOK(op'[s]) BY <1>1, <1>3, <1>4 DEF OpOK
<1>6. Registered(s)' = Registered(s) BY <1>4 DEF Registered
<1> QED BY <1>2, <1>3, <1>4, <1>5, <1>6

\* The todo of an operation is cut to a part of its plan.
LEMMA TodoFacts ==
    ASSUME IndexInv, NEW s \in Servers, NEW todo, op' = [op EXCEPT ![s].todo = todo],
           op[s].kind = "drain" => todo \subseteq DOMAIN op[s].changes
    PROVE  /\ op' = [op EXCEPT ![s] = op'[s]]
           /\ op'[s].todo = todo
           /\ \A part \in Parts \ {"todo"} : op'[s][part] = op[s][part]
           /\ OpOK(op'[s])
           /\ Registered(s)' = Registered(s)
<1>1. op = [r \in Servers |-> op[r]] /\ OpOK(op[s]) BY DEF IndexInv, Shape
<1>2. op' = [op EXCEPT ![s] = op'[s]] /\ op'[s] = [op[s] EXCEPT !["todo"] = todo] BY <1>1
<1>3. /\ op'[s] = [part \in Parts |-> op'[s][part]]
      /\ \A part \in Parts : op'[s][part] = IF part = "todo" THEN todo ELSE op[s][part]
  <2>1. op[s] = [part \in Parts |-> op[s][part]] BY <1>1 DEF OpOK
  <2>2. "todo" \in Parts BY DEF Parts
  <2>3. LET u == [op[s] EXCEPT !["todo"] = todo]
        IN  /\ u = [part \in Parts |-> u[part]]
            /\ \A part \in Parts : u[part] = IF part = "todo" THEN todo ELSE op[s][part]
    BY <2>1, <2>2, OpPart
  <2> QED BY <1>2, <2>3
<1>4. /\ op'[s].kind = op[s].kind /\ op'[s].case = op[s].case /\ op'[s].changes = op[s].changes
      /\ op'[s].todo = todo /\ op'[s].schema = op[s].schema /\ op'[s].at = op[s].at
  BY <1>3 DEF Parts
<1>5. OpOK(op'[s]) BY <1>1, <1>3, <1>4 DEF OpOK
<1>6. Registered(s)' = Registered(s) BY <1>4 DEF Registered
<1> QED BY <1>2, <1>3, <1>4, <1>5, <1>6

LEMMA GovernFacts ==
    ASSUME IndexInv, NEW s \in Servers, NEW k, Govern(s, k)
    PROVE  /\ op' = [op EXCEPT ![s] = op'[s]]
           /\ op'[s].kind = "drain" /\ op'[s].schema = k /\ op'[s].at = "lock" /\ op'[s].n = op[s].n
           /\ op'[s].changes = IF k = Absent THEN NoChanges ELSE Plan(k)
           /\ op'[s].todo = DOMAIN op'[s].changes
           /\ OpOK(op'[s])
<1> DEFINE changes == IF k = Absent THEN NoChanges ELSE Plan(k)
<1>1. op = [r \in Servers |-> op[r]] /\ OpOK(op[s]) /\ op[s].kind = "drain"
  BY DEF IndexInv, Shape, OpOK, Govern
<1>2. DOMAIN changes \subseteq Cases BY DEF NoChanges, Plan, ToChange, Listed
<1> DEFINE o == [op[s] EXCEPT !.schema = k, !.changes = changes, !.todo = DOMAIN changes, !.at = "lock"]
<1>3. op' = [op EXCEPT ![s].schema = k, ![s].changes = changes, ![s].todo = DOMAIN changes, ![s].at = "lock"]
  BY DEF Govern
<1>4. op' = [op EXCEPT ![s] = o] /\ op'[s] = o
  <2> HIDE DEF changes
  <2> QED BY <1>1, <1>3
<1>5. /\ o = [part \in Parts |-> o[part]] /\ o.schema = k /\ o.n = op[s].n
      /\ o.kind = "drain" /\ o.changes = changes /\ o.todo = DOMAIN changes /\ o.at = "lock"
  <2> HIDE DEF changes
  <2> QED BY <1>1 DEF OpOK, Parts
<1>6. OpOK(o)
  <2> HIDE DEF o, changes
  <2> QED BY <1>2, <1>5 DEF OpOK
<1> HIDE DEF o
<1> QED BY <1>4, <1>5, <1>6

LEMMA GovernKeeps ==
    ASSUME IndexInv, NEW s \in Servers, NEW k, Govern(s, k)
    PROVE  IndexInv'
<1>1. UNCHANGED trees /\ holder' = holder BY DEF Govern
<1> QED BY <1>1, GovernFacts, IdleMoveKeeps DEF Holding

LEMMA AcquireKeeps ==
    ASSUME IndexInv, NEW s \in Servers, Acquire(s)
    PROVE  IndexInv'
<1>1. /\ op[s].at = "lock" /\ holder = NoServer /\ holder' = s /\ Goto(s, "begin") /\ UNCHANGED trees
  BY DEF Acquire, At
<1>2. op' = [op EXCEPT ![s] = op'[s]] /\ op'[s].at = "begin" /\ OpOK(op'[s]) BY <1>1, GotoFacts
<1>3. Knows(s)' BY <1>1, <1>2 DEF Knows, Editing
<1>4. \A r \in Servers : op[r].at \notin Holding BY <1>1 DEF IndexInv, Knows
<1>5. /\ work' = [p \in Paths |-> work'[p]] /\ staged' = [p \in Paths |-> staged'[p]]
      /\ Indexed(staged)' /\ Indexed(head)'
  BY <1>1 DEF IndexInv, Shape, trees, Indexed
<1> QED BY <1>2, <1>3, <1>4, <1>5, MoveKeeps

-----------------------------------------------------------------------------
(* The steps of a holder *)

LEMMA BeginFacts ==
    ASSUME IndexInv, NEW s \in Servers, BeginMutation(s)
    PROVE  /\ op' = [op EXCEPT ![s] = op'[s]]
           /\ \A part \in Parts \ {"at", "old"} : op'[s][part] = op[s][part]
           /\ OpOK(op'[s])
           /\ Registered(s)' = Registered(s)
           /\ \/ op'[s].at = "unlock"
              \/ Clean /\ op'[s].at = IF op[s].kind = "drain" THEN "schema" ELSE "write"
<1>1. op = [r \in Servers |-> op[r]] /\ OpOK(op[s]) /\ op[s].at = "begin"
  BY DEF IndexInv, Shape, BeginMutation, At
<1>2. CASE Goto(s, "unlock")
  BY <1>1, <1>2, GotoFacts
<1>3. ASSUME Clean, NEW at, NEW old, op' = [op EXCEPT ![s].at = at, ![s].old = old],
             at = IF op[s].kind = "drain" THEN "schema" ELSE "write"
      PROVE  /\ op' = [op EXCEPT ![s] = op'[s]]
             /\ \A part \in Parts \ {"at", "old"} : op'[s][part] = op[s][part]
             /\ OpOK(op'[s])
             /\ Registered(s)' = Registered(s)
             /\ op'[s].at = at
  <2> DEFINE o == [op[s] EXCEPT !.at = at, !.old = old]
  <2>1. op' = [op EXCEPT ![s] = o] /\ op'[s] = o BY <1>1, <1>3
  <2>2. /\ o = [part \in Parts |-> o[part]] /\ o.at = at
        /\ \A part \in Parts \ {"at", "old"} : o[part] = op[s][part]
    BY <1>1 DEF OpOK, Parts
  <2> HIDE DEF o
  <2>3. /\ o.kind = op[s].kind /\ o.case = op[s].case /\ o.changes = op[s].changes
        /\ o.todo = op[s].todo /\ o.schema = op[s].schema
    BY <2>2 DEF Parts
  <2>4. OpOK(o) BY <1>1, <1>3, <2>2, <2>3 DEF OpOK
  <2>5. Registered(s)' = Registered(s) BY <2>1, <2>3 DEF Registered
  <2> QED BY <2>1, <2>2, <2>4, <2>5
<1> QED BY <1>2, <1>3 DEF BeginMutation, MayMutate

LEMMA BeginMutationKeeps ==
    ASSUME IndexInv, NEW s \in Servers, BeginMutation(s)
    PROVE  IndexInv'
<1>1. op[s].at = "begin" /\ UNCHANGED trees /\ holder' = holder /\ op[s].at \in Holding
  BY DEF BeginMutation, At, Holding
<1>2. /\ op' = [op EXCEPT ![s] = op'[s]] /\ OpOK(op'[s])
      /\ op'[s].at \in {"unlock", "schema", "write"} /\ (op'[s].at # "unlock" => Clean)
  BY BeginFacts
<1>3. Clean => \A c \in Cases : work[c] = staged[c] BY DEF Clean, ChangedPaths, Paths
<1>4. Knows(s)' BY <1>1, <1>2, <1>3 DEF Knows, IndexInv, trees, Holding, Editing
<1>5. work' = [p \in Paths |-> work'[p]] /\ staged' = [p \in Paths |-> staged'[p]]
      /\ Indexed(staged)' /\ Indexed(head)'
  BY <1>1 DEF IndexInv, Shape, trees, Indexed
<1> QED BY <1>1, <1>2, <1>4, <1>5, MoveKeeps DEF trees

\* The files an operation writes are its own; what it has not named stays.
LEMMA WriteKeeps ==
    ASSUME IndexInv, NEW s \in Servers, op[s].at \in Editing,
           NEW W, W \subseteq Cases \cap Registered(s),
           work' = [p \in Paths |-> work'[p]],
           \A c \in Cases \ W : work'[c] = work[c],
           UNCHANGED <<staged, head, holder>>,
           op' = [op EXCEPT ![s] = op'[s]], OpOK(op'[s]), Registered(s)' = Registered(s),
           op'[s].at \in {"changes", "index"}
    PROVE  IndexInv'
<1>1. op[s].at \in Holding BY DEF Editing, Holding
<1>2. Knows(s)' BY <1>1 DEF Knows, IndexInv
<1>3. staged' = [p \in Paths |-> staged'[p]] /\ Indexed(staged)' /\ Indexed(head)'
  BY DEF IndexInv, Shape, Indexed
<1> QED BY <1>1, <1>2, <1>3, HolderIsAlone, MoveKeeps

\* The case files are written: an operation goes on to the indexes.
LEMMA ToIndexFacts ==
    ASSUME IndexInv, NEW s \in Servers, NEW todo,
           op' = [op EXCEPT ![s].at = "index", ![s].todo = todo],
           op[s].at # "done", op[s].kind = "drain" => todo \subseteq DOMAIN op[s].changes
    PROVE  /\ op' = [op EXCEPT ![s] = op'[s]]
           /\ op'[s].at = "index" /\ op'[s].todo = todo
           /\ \A part \in Parts \ {"todo", "at"} : op'[s][part] = op[s][part]
           /\ OpOK(op'[s])
           /\ Registered(s)' = Registered(s)
<1> DEFINE o == [op[s] EXCEPT !.at = "index", !.todo = todo]
<1>1. op = [r \in Servers |-> op[r]] /\ OpOK(op[s]) BY DEF IndexInv, Shape
<1>2. op' = [op EXCEPT ![s] = o] /\ op'[s] = o BY <1>1
<1>3. /\ o = [part \in Parts |-> o[part]]
      /\ o.kind = op[s].kind /\ o.case = op[s].case /\ o.profile = op[s].profile /\ o.old = op[s].old
      /\ o.schema = op[s].schema /\ o.changes = op[s].changes /\ o.todo = todo /\ o.n = op[s].n /\ o.at = "index"
      /\ o.base = op[s].base
  BY <1>1 DEF OpOK, Parts
<1> HIDE DEF o
<1>4. OpOK(o) BY <1>1, <1>3 DEF OpOK
<1>5. Registered(s)' = Registered(s) BY <1>2, <1>3 DEF Registered
<1> QED BY <1>2, <1>3, <1>4, <1>5 DEF Parts

LEMMA WriteCaseKeeps ==
    ASSUME IndexInv, NEW s \in Servers, WriteCase(s)
    PROVE  IndexInv'
<1>1. /\ op[s].at = "write" /\ UNCHANGED <<staged, head, holder>>
      /\ op' = [op EXCEPT ![s].at = "index", ![s].todo = {op[s].case}]
  BY DEF WriteCase, At
<1>2. PICK doc : work' = [work EXCEPT ![op[s].case] = doc] BY DEF WriteCase
<1>3. work = [p \in Paths |-> work[p]] /\ OpOK(op[s]) BY DEF IndexInv, Shape
<1>4. op[s].kind # "drain" /\ op[s].case \in Cases /\ op[s].case \in Registered(s)
  BY <1>1, <1>3 DEF OpOK, Registered
<1>5. work' = [p \in Paths |-> work'[p]] /\ \A c \in Cases \ {op[s].case} : work'[c] = work[c]
  BY <1>2, <1>3 DEF Paths
<1>6. /\ op' = [op EXCEPT ![s] = op'[s]] /\ op'[s].at = "index"
      /\ OpOK(op'[s]) /\ Registered(s)' = Registered(s)
  BY <1>1, <1>4, ToIndexFacts
<1>7. {op[s].case} \subseteq Cases \cap Registered(s) BY <1>4
<1> QED BY <1>1, <1>5, <1>6, <1>7, WriteKeeps DEF Editing

LEMMA SaveSchemaKeeps ==
    ASSUME IndexInv, NEW s \in Servers, SaveSchema(s)
    PROVE  IndexInv'
<1>1. op[s].at = "schema" /\ UNCHANGED <<staged, head, holder>> BY DEF SaveSchema, At
<1>2. work = [p \in Paths |-> work[p]] /\ op[s].kind = "drain" BY <1>1 DEF IndexInv, Shape, OpOK
<1>3. CASE Goto(s, "rollback") /\ UNCHANGED work
  BY <1>1, <1>3, GotoFacts, IdleMoveKeeps DEF Holding, Editing, trees
<1>4. CASE /\ Goto(s, "changes")
           /\ work' = IF op[s].schema \in {Absent, work[SchemaFile].schema} THEN work
                      ELSE [work EXCEPT ![SchemaFile] = SchemaDoc(op[s].schema, op[s].n)]
  <2>1. work' = [p \in Paths |-> work'[p]] /\ \A c \in Cases \ {} : work'[c] = work[c]
    BY <1>2, <1>4 DEF Paths
  <2>2. /\ op' = [op EXCEPT ![s] = op'[s]] /\ op'[s].at = "changes"
        /\ OpOK(op'[s]) /\ Registered(s)' = Registered(s)
    BY <1>1, <1>2, <1>4, GotoFacts
  <2>3. {} \subseteq Cases \cap Registered(s) OBVIOUS
  <2> QED BY <1>1, <2>1, <2>2, <2>3, WriteKeeps DEF Editing
<1> QED BY <1>3, <1>4 DEF SaveSchema

LEMMA WriteChangeKeeps ==
    ASSUME IndexInv, NEW s \in Servers, WriteChange(s)
    PROVE  IndexInv'
<1>1. op[s].at = "changes" /\ UNCHANGED <<staged, head, holder>> BY DEF WriteChange, At
<1>2. work = [p \in Paths |-> work[p]] /\ OpOK(op[s]) /\ op[s].kind = "drain"
  BY <1>1 DEF IndexInv, Shape, OpOK
<1>3. op[s].todo \subseteq DOMAIN op[s].changes /\ DOMAIN op[s].changes \subseteq Cases \cap Registered(s)
  BY <1>2 DEF OpOK, Registered
<1>4. ASSUME NEW c \in op[s].todo, work' = [work EXCEPT ![c].facets = op[s].changes[c].after],
             op' = [op EXCEPT ![s].todo = @ \ {c}]
      PROVE  IndexInv'
  <2>1. work' = [p \in Paths |-> work'[p]] /\ \A d \in Cases \ {c} : work'[d] = work[d]
    BY <1>2, <1>4 DEF Paths
  <2>2. /\ op' = [op EXCEPT ![s] = op'[s]] /\ OpOK(op'[s]) /\ Registered(s)' = Registered(s)
        /\ \A part \in Parts \ {"todo"} : op'[s][part] = op[s][part]
    <3>1. op' = [op EXCEPT ![s].todo = op[s].todo \ {c}] BY <1>4
    <3>2. op[s].todo \ {c} \subseteq DOMAIN op[s].changes BY <1>3
    <3> QED BY <3>1, <3>2, TodoFacts
  <2>3. op'[s].at = "changes" BY <1>1, <2>2 DEF Parts
  <2>4. {c} \subseteq Cases \cap Registered(s) BY <1>3
  <2> QED BY <1>1, <2>1, <2>2, <2>3, <2>4, WriteKeeps DEF Editing
<1>5. CASE op' = [op EXCEPT ![s].at = "index", ![s].todo = DOMAIN op[s].changes] /\ UNCHANGED work
  <2>1. /\ op' = [op EXCEPT ![s] = op'[s]] /\ op'[s].at = "index"
        /\ OpOK(op'[s]) /\ Registered(s)' = Registered(s)
    BY <1>1, <1>5, ToIndexFacts
  <2>2. {} \subseteq Cases \cap Registered(s) OBVIOUS
  <2> QED BY <1>1, <1>2, <1>5, <2>1, <2>2, WriteKeeps DEF Editing
<1> QED BY <1>4, <1>5 DEF WriteChange

\* The indexes are built from the files of now.
LEMMA RefreshIndexesKeeps ==
    ASSUME IndexInv, NEW s \in Servers, RefreshIndexes(s)
    PROVE  IndexInv'
<1>1. /\ op[s].at = "index" /\ UNCHANGED <<staged, head, holder>> /\ Goto(s, "stats")
      /\ work' = [work EXCEPT ![IndexFile] = IndexDoc(work, op[s].n)]
  BY DEF RefreshIndexes, At
<1>2. work = [p \in Paths |-> work[p]] BY DEF IndexInv, Shape
<1>3. /\ op' = [op EXCEPT ![s] = op'[s]] /\ op'[s].at = "stats"
      /\ OpOK(op'[s]) /\ Registered(s)' = Registered(s)
  BY <1>1, GotoFacts
<1>4. /\ work' = [p \in Paths |-> work'[p]] /\ work'[IndexFile] = IndexDoc(work, op[s].n)
      /\ \A c \in Cases : work'[c] = work[c]
  BY <1>1, <1>2 DEF Paths
<1>5. Indexed(work)'
  <2>1. \A c \in Cases : Entry(work, c) = Entry(work', c) BY <1>4, EntrySame
  <2> QED BY <1>4, <2>1 DEF Indexed, IndexDoc
<1>6. Knows(s)' BY <1>1, <1>3, <1>4, <1>5 DEF Knows, IndexInv, Editing, Holding
<1>7. staged' = [p \in Paths |-> staged'[p]] /\ Indexed(staged)' /\ Indexed(head)'
  BY <1>1 DEF IndexInv, Shape, Indexed
<1>8. op[s].at \in Holding BY <1>1 DEF Holding
<1> QED BY <1>3, <1>4, <1>6, <1>7, <1>8, HolderIsAlone, MoveKeeps

LEMMA ReplaceObservationKeeps ==
    ASSUME IndexInv, NEW s \in Servers, ReplaceObservation(s)
    PROVE  IndexInv'
<1>1. op[s].at = "stats" /\ UNCHANGED <<work, staged, head, holder>> /\ op[s].at \in Holding
  BY DEF ReplaceObservation, At, Holding, trees
<1>2. ASSUME op' = [op EXCEPT ![s] = op'[s]], op'[s].at \in {"stats", "add"},
             OpOK(op'[s]), Registered(s)' = Registered(s)
      PROVE  IndexInv'
  <2>1. Knows(s)' BY <1>1, <1>2 DEF Knows, IndexInv, Editing, Holding, Indexed
  <2>2. /\ work' = [p \in Paths |-> work'[p]] /\ staged' = [p \in Paths |-> staged'[p]]
        /\ Indexed(staged)' /\ Indexed(head)'
    BY <1>1 DEF IndexInv, Shape, Indexed
  <2> QED BY <1>1, <1>2, <2>1, <2>2, HolderIsAlone, MoveKeeps
<1>3. ASSUME NEW c \in op[s].todo, op' = [op EXCEPT ![s].todo = @ \ {c}] PROVE IndexInv'
  <2>1. op' = [op EXCEPT ![s].todo = op[s].todo \ {c}] BY <1>3
  <2>2. op[s].kind = "drain" => op[s].todo \ {c} \subseteq DOMAIN op[s].changes BY DEF IndexInv, Shape, OpOK
  <2>3. /\ op' = [op EXCEPT ![s] = op'[s]] /\ OpOK(op'[s]) /\ Registered(s)' = Registered(s)
        /\ op'[s].at = op[s].at
    BY <2>1, <2>2, TodoFacts DEF Parts
  <2> QED BY <1>1, <1>2, <2>3
<1>4. CASE Goto(s, "add")
  BY <1>1, <1>2, <1>4, GotoFacts
<1> QED BY <1>3, <1>4 DEF ReplaceObservation

\* What is staged are the files it names, and the other cases were equal all along.
LEMMA AddFacts ==
    ASSUME IndexInv, NEW s \in Servers, GitAdd(s)
    PROVE  /\ staged' = [p \in Paths |-> staged'[p]]
           /\ staged'[IndexFile] = work[IndexFile]
           /\ \A c \in Cases : staged'[c] = work[c]
           /\ staged'[SchemaFile] = IF SchemaFile \in Registered(s) THEN work[SchemaFile] ELSE staged[SchemaFile]
<1>1. op[s].at = "add" BY DEF GitAdd, At
<1>2. PICK paths : staged' = Add(paths) /\ (paths = Registered(s) \/ paths = Registered(s) \cap ChangedPaths)
  BY DEF GitAdd
<1>3. staged' = [p \in Paths |-> staged'[p]] /\ \A p \in Paths : staged'[p] = IF p \in paths THEN work[p] ELSE staged[p]
  BY <1>2 DEF Add
<1>4. \A p \in Paths : staged'[p] = IF p \in Registered(s) THEN work[p] ELSE staged[p]
  BY <1>2, <1>3 DEF ChangedPaths
<1>5. \A c \in Cases \ Registered(s) : work[c] = staged[c] BY <1>1 DEF IndexInv, Knows, Editing
<1>6. IndexFile \in Registered(s) BY DEF Registered
<1> QED BY <1>3, <1>4, <1>5, <1>6 DEF Paths

LEMMA GitAddKeeps ==
    ASSUME IndexInv, NEW s \in Servers, GitAdd(s)
    PROVE  IndexInv'
<1>1. op[s].at = "add" /\ UNCHANGED <<work, head, holder>> /\ Goto(s, "commit") BY DEF GitAdd, At
<1>2. Indexed(staged)'
  <2>1. Indexed(work) BY <1>1 DEF IndexInv, Knows
  <2>2. \A p \in Cases \cup {IndexFile} : work[p] = staged'[p] BY AddFacts
  <2> QED BY <2>1, <2>2, IndexedSame
<1>3. /\ op' = [op EXCEPT ![s] = op'[s]] /\ op'[s].at = "commit" /\ OpOK(op'[s])
  BY <1>1, GotoFacts
<1>4. Knows(s)' BY <1>1, <1>3 DEF Knows, IndexInv, Editing, Holding
<1>5. work' = [p \in Paths |-> work'[p]] /\ Indexed(head)' BY <1>1 DEF IndexInv, Shape, Indexed
<1>6. op[s].at \in Holding BY <1>1 DEF Holding
<1> QED BY <1>2, <1>3, <1>4, <1>5, <1>6, AddFacts, HolderIsAlone, MoveKeeps

LEMMA GitCommitKeeps ==
    ASSUME IndexInv, NEW s \in Servers, GitCommit(s)
    PROVE  IndexInv'
<1>1. op[s].at = "commit" /\ UNCHANGED <<work, staged, holder>> /\ head' = staged /\ Goto(s, "unlock")
  BY DEF GitCommit, At
<1>2. /\ op' = [op EXCEPT ![s] = op'[s]] /\ op'[s].at = "unlock" /\ OpOK(op'[s])
  BY <1>1, GotoFacts
<1>3. Knows(s)' BY <1>1, <1>2 DEF Knows, IndexInv, Editing, Holding
<1>4. /\ work' = [p \in Paths |-> work'[p]] /\ staged' = [p \in Paths |-> staged'[p]]
      /\ Indexed(staged)' /\ Indexed(head)'
  BY <1>1 DEF IndexInv, Shape, Indexed
<1> QED BY <1>1, <1>2, <1>3, <1>4, MoveKeeps

LEMMA RollBackKeeps ==
    ASSUME IndexInv, NEW s \in Servers, RollBack(s)
    PROVE  IndexInv'
<1>1. /\ op[s].at \in {"rollback", "undo"} /\ UNCHANGED <<staged, head, holder>> /\ Goto(s, "unlock")
      /\ \E base : work' = Rollback(Registered(s) \cup ChangedPaths, base)
  BY DEF RollBack, At
<1>2. /\ op' = [op EXCEPT ![s] = op'[s]] /\ op'[s].at = "unlock" /\ OpOK(op'[s])
  BY <1>1, GotoFacts
<1>3. Knows(s)' BY <1>1, <1>2 DEF Knows, IndexInv, Editing, Holding
<1>4. work' = [p \in Paths |-> work'[p]] BY <1>1 DEF Rollback
<1>5. staged' = [p \in Paths |-> staged'[p]] /\ Indexed(staged)' /\ Indexed(head)'
  BY <1>1 DEF IndexInv, Shape, Indexed
<1>6. op[s].at \in Holding BY <1>1 DEF Holding
<1> QED BY <1>2, <1>3, <1>4, <1>5, <1>6, HolderIsAlone, MoveKeeps

LEMMA UnlockKeeps ==
    ASSUME IndexInv, NEW s \in Servers, Unlock(s)
    PROVE  IndexInv'
<1>1. op[s].at = "unlock" /\ UNCHANGED <<work, staged, head>> /\ op' = [op EXCEPT ![s] = NoOp]
  BY DEF Unlock, At, trees
<1>2. op'[s] = NoOp BY <1>1 DEF IndexInv, Shape
<1>3. Knows(s)' BY <1>2 DEF Knows, NoOp, Editing, Holding
<1>4. /\ work' = [p \in Paths |-> work'[p]] /\ staged' = [p \in Paths |-> staged'[p]]
      /\ Indexed(staged)' /\ Indexed(head)'
  BY <1>1 DEF IndexInv, Shape, Indexed
<1>5. op[s].at \in Holding BY <1>1 DEF Holding
<1> QED BY <1>1, <1>3, <1>4, <1>5, NoOpOK, HolderIsAlone, MoveKeeps

-----------------------------------------------------------------------------
(* What goes wrong *)

LEMMA RaisesKeeps ==
    ASSUME IndexInv, NEW s \in Servers, Raises(s)
    PROVE  IndexInv'
<1>1. op[s].at \in Holding /\ op[s].at # "done" /\ UNCHANGED trees /\ holder' = holder
  BY DEF Raises, CaseSteps, DrainSteps, Holding
<1>2. PICK at \in {"rollback", "unlock"} : Goto(s, at) BY DEF Raises
<1> QED BY <1>1, <1>2, GotoFacts, IdleMoveKeeps DEF Holding, Editing

\* An operation that raises after its commit has made it.
LEMMA CommitRaisesFacts ==
    ASSUME IndexInv, NEW s \in Servers, CommitRaises(s)
    PROVE  /\ op' = [op EXCEPT ![s] = op'[s]]
           /\ op'[s].at = IF op[s].kind = "drain" THEN "undo" ELSE "unlock"
           /\ \A part \in Parts \ {"at", "base"} : op'[s][part] = op[s][part]
           /\ op[s].kind = "drain" => op'[s].base = head
           /\ OpOK(op'[s])
           /\ Registered(s)' = Registered(s)
<1>1. op = [r \in Servers |-> op[r]] /\ OpOK(op[s]) /\ op[s].at = "commit"
  BY DEF IndexInv, Shape, CommitRaises, At
<1>2. CASE op[s].kind # "drain"
  <2>1. Goto(s, "unlock") BY <1>2 DEF CommitRaises, Goto
  <2> QED BY <1>1, <1>2, <2>1, GotoFacts
<1>3. CASE op[s].kind = "drain"
  <2> DEFINE o == [op[s] EXCEPT !.base = head, !.at = "undo"]
  <2>1. op' = [op EXCEPT ![s].base = head, ![s].at = "undo"] BY <1>3 DEF CommitRaises
  <2>2. op' = [op EXCEPT ![s] = o] /\ op'[s] = o BY <1>1, <2>1
  <2>3. /\ o = [part \in Parts |-> o[part]] /\ o.at = "undo" /\ o.base = head
        /\ \A part \in Parts \ {"at", "base"} : o[part] = op[s][part]
    BY <1>1 DEF OpOK, Parts
  <2> HIDE DEF o
  <2>4. /\ o.kind = op[s].kind /\ o.case = op[s].case /\ o.changes = op[s].changes
        /\ o.todo = op[s].todo /\ o.schema = op[s].schema
    BY <2>3 DEF Parts
  <2>5. OpOK(o) BY <1>1, <2>3, <2>4 DEF OpOK
  <2>6. Registered(s)' = Registered(s) BY <2>2, <2>4 DEF Registered
  <2> QED BY <1>3, <2>2, <2>3, <2>5, <2>6
<1> QED BY <1>2, <1>3

LEMMA CommitRaisesKeeps ==
    ASSUME IndexInv, NEW s \in Servers, CommitRaises(s)
    PROVE  IndexInv'
<1>1. op[s].at = "commit" /\ UNCHANGED <<work, staged, holder>> /\ head' = staged
  BY DEF CommitRaises, At
<1>2. Knows(s)' BY <1>1, CommitRaisesFacts DEF Knows, IndexInv, Editing, Holding
<1>3. /\ work' = [p \in Paths |-> work'[p]] /\ staged' = [p \in Paths |-> staged'[p]]
      /\ Indexed(staged)' /\ Indexed(head)'
  BY <1>1 DEF IndexInv, Shape, Indexed
<1> QED BY <1>1, <1>2, <1>3, CommitRaisesFacts, MoveKeeps

LEMMA CrashKeeps ==
    ASSUME IndexInv, NEW s \in Servers, Crash(s)
    PROVE  IndexInv'
<1>1. /\ op' = [op EXCEPT ![s] = NoOp] /\ UNCHANGED <<work, staged, head>>
      /\ holder' = IF holder = s THEN NoServer ELSE holder
  BY DEF Crash, trees
<1>2. op'[s] = NoOp BY <1>1 DEF IndexInv, Shape
<1>3. Knows(s)' BY <1>2 DEF Knows, NoOp, Editing, Holding
<1>4. /\ work' = [p \in Paths |-> work'[p]] /\ staged' = [p \in Paths |-> staged'[p]]
      /\ Indexed(staged)' /\ Indexed(head)'
  BY <1>1 DEF IndexInv, Shape, Indexed
<1>5. \A r \in Servers \ {s} : op[r].at \in Holding => holder' = holder BY <1>1 DEF IndexInv, Knows
<1> QED BY <1>1, <1>3, <1>4, <1>5, NoOpOK, MoveKeeps

\* The request writes a file that no index is built from.
LEMMA PutSchemaKeeps ==
    ASSUME IndexInv, NEW s \in Servers, NEW k, PutSchema(s, k)
    PROVE  IndexInv'
<1>1. UNCHANGED <<staged, head, holder, op>> /\ work' = [work EXCEPT ![SchemaFile] = SchemaDoc(k, ops + 1)]
  BY DEF PutSchema
<1>2. work = [p \in Paths |-> work[p]] BY DEF IndexInv, Shape
<1>3. /\ work' = [p \in Paths |-> work'[p]]
      /\ \A p \in Cases \cup {IndexFile} : work'[p] = work[p]
  BY <1>1, <1>2 DEF Paths
<1>4. ASSUME NEW r \in Servers PROVE Knows(r)'
  <2>1. Registered(r)' = Registered(r) BY <1>1 DEF Registered
  <2>2. Indexed(work) => Indexed(work') BY <1>3, IndexedSame
  <2> QED BY <1>1, <1>3, <2>1, <2>2 DEF IndexInv, Knows
<1>5. Shape' BY <1>1, <1>3 DEF IndexInv, Shape
<1> QED BY <1>1, <1>4, <1>5 DEF IndexInv, Indexed

LEMMA NextIndexed == IndexInv /\ [Next]_vars => IndexInv'
<1> SUFFICES ASSUME IndexInv, [Next]_vars PROVE IndexInv'
  OBVIOUS
<1>1. ASSUME UNCHANGED <<trees, op, holder>> PROVE IndexInv'
  <2>1. ASSUME NEW r \in Servers PROVE Knows(r)'
    <3>1. Registered(r)' = Registered(r) BY <1>1 DEF Registered
    <3> QED BY <1>1, <3>1 DEF IndexInv, Knows, Indexed, trees
  <2> QED BY <1>1, <2>1 DEF IndexInv, Shape, Indexed, trees
<1>2. CASE UNCHANGED vars BY <1>1, <1>2 DEF vars, trees
<1>3. ASSUME NEW s \in Servers, Step(s) PROVE IndexInv'
  BY <1>3, BeginMutationKeeps, WriteCaseKeeps, SaveSchemaKeeps, WriteChangeKeeps, RefreshIndexesKeeps,
     ReplaceObservationKeeps, GitAddKeeps, GitCommitKeeps, RollBackKeeps, UnlockKeeps
     DEF Step
<1>4. ASSUME NEW s \in Servers,
             \/ \E c \in Cases, f \in Profiles : Ingest(s, c, f) \/ Update(s, c, f)
             \/ \E c \in Cases : Delete(s, c)
             \/ StartDrain(s)
      PROVE  IndexInv'
  BY <1>4, SubmitKeeps
<1>5. ASSUME NEW s \in Servers, (\E k \in Schemas \cup {Absent} : Govern(s, k)) \/ Acquire(s) PROVE IndexInv'
  BY <1>5, GovernKeeps, AcquireKeeps
<1>6. ASSUME NEW s \in Servers,
             Raises(s) \/ CommitRaises(s) \/ Crash(s) \/ (\E k \in Schemas : PutSchema(s, k))
      PROVE  IndexInv'
  BY <1>6, RaisesKeeps, CommitRaisesKeeps, CrashKeeps, PutSchemaKeeps
<1>7. ASSUME NEW s \in Servers, Restart(s) PROVE IndexInv'
  BY <1>1, <1>7 DEF Restart
<1> QED BY <1>2, <1>3, <1>4, <1>5, <1>6, <1>7 DEF Next

\* However many servers share the workspace, whatever raises, crashes or writes
\* the schema past the lock: the indexes of a revision were built from its own
\* cases, the first ListLimit of them by name if there are more.
THEOREM HeadIsAlwaysIndexed == Safety => []HeadIsIndexed
<1>1. IndexInv => HeadIsIndexed BY DEF IndexInv, Indexed, HeadIsIndexed
<1> QED BY <1>1, InitIndexed, NextIndexed, PTL DEF Safety

\* Two operations never change the workspace at a time.
MutationsExclude == \A r, s \in Servers : op[r].at \in Holding /\ op[s].at \in Holding => r = s

\* The mutation lock keeps its promise when its holder raises or dies.
THEOREM MutationsAlwaysExclude == Safety => []MutationsExclude
<1>1. IndexInv => MutationsExclude BY DEF IndexInv, Knows, MutationsExclude
<1> QED BY <1>1, InitIndexed, NextIndexed, PTL DEF Safety

-----------------------------------------------------------------------------
(* Types, for any number of servers.  The change of a plan is written into a *)
(* file that exists: the plan was validated under the lock, and nobody else  *)
(* has it.                                                                   *)

\* An application of Project, as one term.
FacetsOf(profile, schema) == Project[profile, schema]

OpTypes(o) ==
    /\ o.n \in Nat
    /\ o.schema \in Schemas \cup {Absent}
    /\ o.kind # "drain" /\ o.at # "done" => o.profile \in Profiles
    /\ \A c \in DOMAIN o.changes : o.changes[c].after \in Facets
    /\ o.at = "undo" => TreeOK(o.base)

Existing(s) == op[s].at = "changes" => \A c \in op[s].todo : work[c] # Absent

TypeInv == TypeOK /\ \A s \in Servers : OpTypes(op[s]) /\ Existing(s)

LEMMA NoOpTypes == OpTypes(NoOp)
<1>1. NoOp.n = 0 /\ NoOp.schema = Absent /\ NoOp.at = "done" /\ NoOp.changes = NoChanges BY DEF NoOp
<1> QED BY <1>1 DEF OpTypes, NoChanges

LEMMA InitTyped == Init => TypeInv
<1> SUFFICES ASSUME Init PROVE TypeInv
  OBVIOUS
<1> DEFINE files == [p \in Paths |-> IF p = SchemaFile THEN SchemaDoc(FirstSchema, 0) ELSE Absent]
<1>1. Baseline = [files EXCEPT ![IndexFile] = IndexDoc(files, 0)] BY DEF Baseline
<1>2. TreeOK(Baseline)
  <2>1. \A c \in Cases : Baseline[c] = Absent BY <1>1 DEF Paths
  <2>2. Baseline[SchemaFile] = SchemaDoc(FirstSchema, 0) BY <1>1 DEF Paths
  <2>3. Baseline[IndexFile] = IndexDoc(files, 0) /\ \A c \in Cases : files[c] = Absent BY <1>1 DEF Paths
  <2> HIDE DEF files
  <2>4. \A c \in Cases : Baseline[IndexFile].from[c] = Absent BY <2>3 DEF IndexDoc, Entry
  <2> QED BY <2>1, <2>2, <2>4 DEF TreeOK, Docs, SchemaDoc
<1>3. stats \in [Observations -> Nat] BY DEF Init
<1>4. TypeOK BY <1>2, <1>3 DEF Init, TypeOK
<1>5. \A s \in Servers : op[s] = NoOp BY DEF Init
<1> QED BY <1>4, <1>5, NoOpTypes DEF TypeInv, Existing, NoOp

\* What an action has to show of its own operation; the files of the others'
\* changes exist on.
LEMMA MoveTypes ==
    ASSUME IndexInv, TypeInv, NEW s \in Servers, op' = [op EXCEPT ![s] = op'[s]],
           OpTypes(op'[s]), Existing(s)', TypeOK',
           \A r \in Servers \ {s} : op[r].at = "changes" =>
              \A c \in Cases : work[c] # Absent => work'[c] # Absent
    PROVE  TypeInv'
<1>1. op = [r \in Servers |-> op[r]] /\ \A r \in Servers : OpOK(op[r]) BY DEF IndexInv, Shape
<1>2. \A r \in Servers \ {s} : op'[r] = op[r] BY <1>1
<1>3. ASSUME NEW r \in Servers \ {s} PROVE OpTypes(op'[r]) /\ Existing(r)'
  <2>1. op'[r] = op[r] /\ OpTypes(op[r]) /\ Existing(r) BY <1>2 DEF TypeInv
  <2>2. op[r].at = "changes" => op[r].todo \subseteq Cases BY <1>1 DEF OpOK
  <2> QED BY <2>1, <2>2 DEF Existing
<1> QED BY <1>3 DEF TypeInv

\* Steps that write no file.
LEMMA QuietTypes ==
    ASSUME IndexInv, TypeInv, NEW s \in Servers, op' = [op EXCEPT ![s] = op'[s]],
           OpTypes(op'[s]), op'[s].at # "changes", UNCHANGED work, TypeOK'
    PROVE  TypeInv'
BY MoveTypes DEF Existing

LEMMA KeptOpTypes ==
    ASSUME NEW s, OpTypes(op[s]), op[s].at # "done", op'[s].at # "undo",
           \A part \in Parts \ {"at", "todo", "old"} : op'[s][part] = op[s][part]
    PROVE  OpTypes(op'[s])
BY DEF OpTypes, Parts

\* Types of what the steps write.
LEMMA DocTypes ==
    ASSUME TypeInv, NEW c \in Cases, work[c] # Absent
    PROVE  /\ work[c] \in [profile : Profiles, facets : Facets, at : Nat]
           /\ work[c].profile \in Profiles /\ work[c].facets \in Facets
BY DEF TypeInv, TypeOK, TreeOK, Docs

LEMMA ProjectType ==
    ASSUME NEW f \in Profiles, NEW k \in Schemas
    PROVE  FacetsOf(f, k) \in Facets
BY DEF FacetsOf

LEMMA BeginTypes ==
    ASSUME IndexInv, TypeInv, NEW s \in Servers, NEW o, Begin(s, o), OpTypes(o), o.at # "changes"
    PROVE  TypeInv'
<1>1. op' = [op EXCEPT ![s] = op'[s]] /\ op'[s] = o BY DEF Begin, IndexInv, Shape
<1>2. TypeOK' BY DEF Begin, TypeInv, TypeOK, trees
<1> QED BY <1>1, <1>2, QuietTypes DEF Begin, trees

LEMMA SubmitTypes ==
    ASSUME IndexInv, TypeInv, NEW s \in Servers,
           \/ \E c \in Cases, f \in Profiles : Ingest(s, c, f) \/ Update(s, c, f)
           \/ \E c \in Cases : Delete(s, c)
           \/ StartDrain(s)
    PROVE  TypeInv'
<1>0. ops + 1 \in Nat BY DEF TypeInv, TypeOK
<1>1. ASSUME NEW c \in Cases, NEW f \in Profiles, NEW kind \in {"ingest", "update", "delete"},
             Begin(s, CaseOp(kind, c, f))
      PROVE  TypeInv'
  <2> DEFINE o == CaseOp(kind, c, f)
  <2>1. /\ o.kind = kind /\ o.at = "lock" /\ o.changes = NoChanges /\ o.profile = f
        /\ o.n = ops + 1 /\ o.schema = Absent
    BY DEF CaseOp, NoOp
  <2>2. OpTypes(o)
    <3> HIDE DEF o
    <3> QED BY <1>0, <2>1 DEF OpTypes, NoChanges
  <2> HIDE DEF o
  <2> QED BY <1>1, <2>1, <2>2, BeginTypes DEF o
<1>2. CASE StartDrain(s)
  <2> DEFINE o == [NoOp EXCEPT !.kind = "drain", !.n = ops + 1, !.at = "governing"]
  <2>1. o.kind = "drain" /\ o.at = "governing" /\ o.changes = NoChanges /\ o.n = ops + 1 /\ o.schema = Absent
    BY DEF NoOp
  <2>2. Begin(s, o) BY <1>2 DEF StartDrain
  <2>3. OpTypes(o)
    <3> HIDE DEF o
    <3> QED BY <1>0, <2>1 DEF OpTypes, NoChanges
  <2> HIDE DEF o
  <2> QED BY <2>1, <2>2, <2>3, BeginTypes
<1>3. ASSUME NEW c \in Cases, work[c] # Absent PROVE work[c].profile \in Profiles BY <1>3, DocTypes
<1> QED BY <1>1, <1>2, <1>3 DEF Ingest, Update, Delete

LEMMA GovernTypes ==
    ASSUME IndexInv, TypeInv, NEW s \in Servers, NEW k \in Schemas \cup {Absent}, Govern(s, k)
    PROVE  TypeInv'
<1>1. /\ op' = [op EXCEPT ![s] = op'[s]]
      /\ op'[s].kind = "drain" /\ op'[s].schema = k /\ op'[s].at = "lock"
      /\ op'[s].changes = IF k = Absent THEN NoChanges ELSE Plan(k)
  BY GovernFacts
<1>2. op'[s].n \in Nat BY GovernFacts DEF TypeInv, OpTypes
<1>3. \A c \in DOMAIN op'[s].changes : op'[s].changes[c].after \in Facets
  <2>1. CASE k = Absent BY <1>1, <2>1 DEF NoChanges
  <2>2. CASE k \in Schemas
    <3>1. op'[s].changes = [c \in ToChange(k) |-> [before |-> work[c].facets, after |-> FacetsOf(work[c].profile, k)]]
      BY <1>1, <2>2 DEF Plan, FacetsOf
    <3>2. \A c \in ToChange(k) : c \in Cases /\ work[c] # Absent BY DEF ToChange, Listed
    <3>3. \A c \in ToChange(k) : op'[s].changes[c].after = FacetsOf(work[c].profile, k) BY <3>1
    <3>4. DOMAIN op'[s].changes = ToChange(k) BY <3>1
    <3> QED BY <2>2, <3>2, <3>3, <3>4, DocTypes, ProjectType
  <2> QED BY <2>1, <2>2
<1>4. OpTypes(op'[s]) BY <1>1, <1>2, <1>3 DEF OpTypes
<1>5. TypeOK' BY DEF Govern, TypeInv, TypeOK, trees
<1> QED BY <1>1, <1>4, <1>5, QuietTypes DEF Govern, trees

\* An operation that only goes on, and the files it leaves alone.
LEMMA GoOnTypes ==
    ASSUME IndexInv, TypeInv, NEW s \in Servers, NEW at, Goto(s, at), op[s].at # "done",
           at \notin {"governing", "schema", "changes", "write", "undo"}, TypeOK',
           UNCHANGED work \/ op[s].at \in Holding
    PROVE  TypeInv'
<1>1. /\ op' = [op EXCEPT ![s] = op'[s]] /\ op'[s].at = at
      /\ \A part \in Parts \ {"at"} : op'[s][part] = op[s][part]
  BY GotoFacts
<1>2. OpTypes(op'[s]) BY <1>1, KeptOpTypes DEF TypeInv
<1>3. Existing(s)' BY <1>1 DEF Existing
<1>4. \A r \in Servers \ {s} : op[r].at = "changes" => \A c \in Cases : work[c] # Absent => work'[c] # Absent
  <2>1. CASE UNCHANGED work BY <2>1
  <2>2. CASE op[s].at \in Holding BY <2>2, HolderIsAlone DEF Holding
  <2> QED BY <2>1, <2>2
<1> QED BY <1>1, <1>2, <1>3, <1>4, MoveTypes

LEMMA WorkType ==
    ASSUME TypeInv, TreeOK(work)', UNCHANGED <<staged, head, stats, holder, up, ops, faults>>
    PROVE  TypeOK'
BY DEF TypeInv, TypeOK, TreeOK

LEMMA BeginMutationTypes ==
    ASSUME IndexInv, TypeInv, NEW s \in Servers, BeginMutation(s)
    PROVE  TypeInv'
<1>1. op[s].at = "begin" /\ UNCHANGED <<trees, stats, holder, up, ops, faults>> BY DEF BeginMutation, At
<1>2. /\ op' = [op EXCEPT ![s] = op'[s]] /\ op'[s].at \notin {"changes", "undo"}
      /\ \A part \in Parts \ {"at", "old"} : op'[s][part] = op[s][part]
  BY BeginFacts
<1>3. OpTypes(op'[s]) BY <1>1, <1>2, KeptOpTypes DEF TypeInv
<1>4. TypeOK' BY <1>1 DEF TypeInv, TypeOK, trees
<1> QED BY <1>1, <1>2, <1>3, <1>4, QuietTypes DEF trees

LEMMA WriteCaseTypes ==
    ASSUME IndexInv, TypeInv, NEW s \in Servers, WriteCase(s)
    PROVE  TypeInv'
<1> DEFINE o == op[s]
           facets == FacetsOf(o.profile, work[SchemaFile].schema)
           doc == IF o.kind = "delete" THEN Absent ELSE Doc(o.profile, facets, o.n)
<1>1. /\ o.at = "write" /\ UNCHANGED <<staged, head, stats, holder, up, ops, faults>>
      /\ op' = [op EXCEPT ![s].at = "index", ![s].todo = {o.case}]
      /\ work' = [work EXCEPT ![o.case] = doc]
  BY DEF WriteCase, At, FacetsOf
<1>2. work = [p \in Paths |-> work[p]] /\ OpOK(o) /\ o.kind # "drain" /\ o.case \in Cases
  BY <1>1 DEF IndexInv, Shape, OpOK
<1>3. o.profile \in Profiles /\ o.n \in Nat /\ work[SchemaFile].schema \in Schemas
  BY <1>1, <1>2 DEF TypeInv, OpTypes, TypeOK, TreeOK
<1>4. facets \in Facets BY <1>3, ProjectType
<1>5. doc \in Docs
  <2> HIDE DEF facets
  <2> QED BY <1>3, <1>4 DEF Docs, Doc
<1> HIDE DEF doc, facets
<1>6. TreeOK(work)'
  <2>1. /\ \A c \in Cases : work'[c] = IF c = o.case THEN doc ELSE work[c]
        /\ work'[SchemaFile] = work[SchemaFile] /\ work'[IndexFile] = work[IndexFile]
    BY <1>1, <1>2 DEF Paths
  <2> QED BY <1>5, <2>1 DEF TypeInv, TypeOK, TreeOK
<1>7. TypeOK' BY <1>1, <1>6, WorkType
<1>8. /\ op' = [op EXCEPT ![s] = op'[s]] /\ op'[s].at = "index"
      /\ \A part \in Parts \ {"todo", "at"} : op'[s][part] = op[s][part]
  BY <1>1, <1>2, ToIndexFacts
<1>9. OpTypes(op'[s]) BY <1>1, <1>8, KeptOpTypes DEF TypeInv
<1>10. \A r \in Servers \ {s} : op[r].at # "changes" BY <1>1, HolderIsAlone DEF Holding
<1> QED BY <1>7, <1>8, <1>9, <1>10, MoveTypes DEF Existing

LEMMA SaveSchemaTypes ==
    ASSUME IndexInv, TypeInv, NEW s \in Servers, SaveSchema(s)
    PROVE  TypeInv'
<1>1. op[s].at = "schema" /\ UNCHANGED <<staged, head, stats, holder, up, ops, faults>> BY DEF SaveSchema, At
<1>2. work = [p \in Paths |-> work[p]] /\ op[s].kind = "drain" /\ OpOK(op[s])
  BY <1>1 DEF IndexInv, Shape, OpOK
<1>3. CASE Goto(s, "rollback") /\ UNCHANGED work
  <2>1. TypeOK' BY <1>1, <1>3 DEF TypeInv, TypeOK, TreeOK
  <2> QED BY <1>1, <1>3, <2>1, GoOnTypes
<1>4. CASE /\ ~Unplanned(s) /\ Goto(s, "changes")
           /\ work' = IF op[s].schema \in {Absent, work[SchemaFile].schema} THEN work
                      ELSE [work EXCEPT ![SchemaFile] = SchemaDoc(op[s].schema, op[s].n)]
  <2>1. op[s].schema \in Schemas \cup {Absent} /\ op[s].n \in Nat BY DEF TypeInv, OpTypes
  <2>2. /\ \A c \in Cases : work'[c] = work[c]
        /\ work'[IndexFile] = work[IndexFile]
        /\ \/ work'[SchemaFile] = work[SchemaFile]
           \/ op[s].schema # Absent /\ work'[SchemaFile] = SchemaDoc(op[s].schema, op[s].n)
    <3>1. CASE op[s].schema \in {Absent, work[SchemaFile].schema} BY <1>2, <1>4, <3>1
    <3>2. CASE op[s].schema \notin {Absent, work[SchemaFile].schema} BY <1>2, <1>4, <3>2 DEF Paths
    <3> QED BY <3>1, <3>2
  <2>3. TreeOK(work)' BY <2>1, <2>2 DEF TypeInv, TypeOK, TreeOK, SchemaDoc
  <2>4. TypeOK' BY <1>1, <2>3, WorkType
  <2>5. /\ op' = [op EXCEPT ![s] = op'[s]] /\ op'[s].at = "changes"
        /\ \A part \in Parts \ {"at"} : op'[s][part] = op[s][part]
    BY SMTT(60), <1>1, <1>2, <1>4, GotoFacts
  <2>6. OpTypes(op'[s]) BY SMTT(60), <1>1, <2>5, KeptOpTypes DEF TypeInv
  <2>7. Existing(s)'
    <3>1. op'[s].todo \subseteq DOMAIN op[s].changes BY <1>2, <2>5 DEF OpOK, Parts
    <3> QED BY <1>2, <1>4, <2>2, <3>1 DEF Existing, Unplanned, OpOK
  <2> QED BY <2>2, <2>4, <2>5, <2>6, <2>7, MoveTypes
<1> QED BY <1>3, <1>4 DEF SaveSchema

LEMMA WriteChangeTypes ==
    ASSUME IndexInv, TypeInv, NEW s \in Servers, WriteChange(s)
    PROVE  TypeInv'
<1>1. op[s].at = "changes" /\ UNCHANGED <<staged, head, stats, holder, up, ops, faults>> BY DEF WriteChange, At
<1>2. work = [p \in Paths |-> work[p]] /\ OpOK(op[s]) /\ op[s].kind = "drain"
  BY <1>1 DEF IndexInv, Shape, OpOK
<1>3. \A r \in Servers \ {s} : op[r].at # "changes" BY <1>1, HolderIsAlone DEF Holding
<1>4. ASSUME NEW c \in op[s].todo, work' = [work EXCEPT ![c].facets = op[s].changes[c].after],
             op' = [op EXCEPT ![s].todo = @ \ {c}]
      PROVE  TypeInv'
  <2>1. c \in Cases /\ c \in DOMAIN op[s].changes /\ work[c] # Absent /\ op[s].todo \subseteq Cases
        /\ op[s].todo \ {c} \subseteq DOMAIN op[s].changes
    BY <1>1, <1>2 DEF OpOK, TypeInv, Existing
  <2>2. work[c] \in [profile : Profiles, facets : Facets, at : Nat] /\ op[s].changes[c].after \in Facets
    BY <2>1, DocTypes DEF TypeInv, OpTypes
  <2>3. /\ \A d \in Cases \ {c} : work'[d] = work[d]
        /\ work'[SchemaFile] = work[SchemaFile] /\ work'[IndexFile] = work[IndexFile]
        /\ work'[c] = [work[c] EXCEPT !.facets = op[s].changes[c].after]
    BY <1>2, <1>4, <2>1 DEF Paths
  <2>4. work'[c] \in [profile : Profiles, facets : Facets, at : Nat] BY <2>2, <2>3
  <2>5. TreeOK(work)' BY <2>3, <2>4 DEF TypeInv, TypeOK, TreeOK, Docs
  <2>6. TypeOK' BY <1>1, <2>5, WorkType
  <2>7. op' = [op EXCEPT ![s].todo = op[s].todo \ {c}] BY <1>4
  <2>8. /\ op' = [op EXCEPT ![s] = op'[s]] /\ op'[s].todo = op[s].todo \ {c}
        /\ \A part \in Parts \ {"todo"} : op'[s][part] = op[s][part]
    BY <2>1, <2>7, TodoFacts
  <2>9. OpTypes(op'[s])
    <3>1. op'[s].at = "changes" BY <1>1, <2>8 DEF Parts
    <3> QED BY <1>1, <2>8, <3>1, KeptOpTypes DEF TypeInv
  <2>10. Existing(s)' BY <1>1, <2>1, <2>3, <2>8 DEF TypeInv, Existing
  <2> QED BY <1>3, <2>6, <2>8, <2>9, <2>10, MoveTypes
<1>5. CASE op' = [op EXCEPT ![s].at = "index", ![s].todo = DOMAIN op[s].changes] /\ UNCHANGED work
  <2>1. /\ op' = [op EXCEPT ![s] = op'[s]] /\ op'[s].at = "index"
        /\ \A part \in Parts \ {"todo", "at"} : op'[s][part] = op[s][part]
    BY <1>1, <1>5, ToIndexFacts
  <2>2. OpTypes(op'[s]) BY <1>1, <2>1, KeptOpTypes DEF TypeInv
  <2>3. TypeOK' BY <1>1, <1>5 DEF TypeInv, TypeOK, TreeOK
  <2> QED BY <1>5, <2>1, <2>2, <2>3, QuietTypes
<1> QED BY <1>4, <1>5 DEF WriteChange

LEMMA RefreshIndexesTypes ==
    ASSUME IndexInv, TypeInv, NEW s \in Servers, RefreshIndexes(s)
    PROVE  TypeInv'
<1>1. /\ op[s].at = "index" /\ UNCHANGED <<staged, head, stats, holder, up, ops, faults>> /\ Goto(s, "stats")
      /\ work' = [work EXCEPT ![IndexFile] = IndexDoc(work, op[s].n)]
  BY DEF RefreshIndexes, At
<1>2. work = [p \in Paths |-> work[p]] BY DEF IndexInv, Shape
<1>3. /\ work'[IndexFile] = IndexDoc(work, op[s].n) /\ work'[SchemaFile] = work[SchemaFile]
      /\ \A c \in Cases : work'[c] = work[c]
  BY <1>1, <1>2 DEF Paths
<1>4. TreeOK(work)' BY <1>3 DEF TypeInv, TypeOK, TreeOK, IndexDoc, Entry, Docs
<1>5. TypeOK' BY <1>1, <1>4, WorkType
<1> QED BY <1>1, <1>5, GoOnTypes DEF Holding

LEMMA CountTypes ==
    ASSUME NEW counts \in [Observations -> Nat], NEW doc
    PROVE  /\ AddTo(counts, doc) \in [Observations -> Nat]
           /\ RemoveFrom(counts, doc) \in [Observations -> Nat]
<1> DEFINE k == Observation(doc)
<1>1. [counts EXCEPT ![k] = counts[k] + 1] \in [Observations -> Nat]
  <2> HIDE DEF k
  <2>1. CASE k \in Observations BY <2>1
  <2>2. CASE k \notin Observations BY <2>2
  <2> QED BY <2>1, <2>2
<1>2. [counts EXCEPT ![k] = IF counts[k] > 0 THEN counts[k] - 1 ELSE 0] \in [Observations -> Nat]
  <2> HIDE DEF k
  <2>1. CASE k \in Observations BY <2>1
  <2>2. CASE k \notin Observations BY <2>2
  <2> QED BY <2>1, <2>2
<1> QED BY <1>1, <1>2 DEF AddTo, RemoveFrom

LEMMA ReplaceObservationTypes ==
    ASSUME IndexInv, TypeInv, NEW s \in Servers, ReplaceObservation(s)
    PROVE  TypeInv'
<1>1. op[s].at = "stats" /\ UNCHANGED <<work, staged, head, holder, up, ops, faults>>
  BY DEF ReplaceObservation, At, trees
<1>2. stats \in [Observations -> Nat] BY DEF TypeInv, TypeOK
<1>3. \A old, new : AddTo(RemoveFrom(stats, old), new) \in [Observations -> Nat] BY <1>2, CountTypes
<1>4. stats' \in [Observations -> Nat] BY <1>2, <1>3 DEF ReplaceObservation
<1>5. TypeOK' BY <1>1, <1>4 DEF TypeInv, TypeOK, TreeOK
<1>6. CASE Goto(s, "add") BY <1>1, <1>5, <1>6, GoOnTypes
<1>7. ASSUME NEW c \in op[s].todo, op' = [op EXCEPT ![s].todo = @ \ {c}] PROVE TypeInv'
  <2>1. op' = [op EXCEPT ![s].todo = op[s].todo \ {c}] BY <1>7
  <2>2. op[s].kind = "drain" => op[s].todo \ {c} \subseteq DOMAIN op[s].changes BY DEF IndexInv, Shape, OpOK
  <2>3. /\ op' = [op EXCEPT ![s] = op'[s]] /\ op'[s].at = op[s].at
        /\ \A part \in Parts \ {"todo"} : op'[s][part] = op[s][part]
    BY <2>1, <2>2, TodoFacts DEF Parts
  <2>4. OpTypes(op'[s]) BY <1>1, <2>3, KeptOpTypes DEF TypeInv
  <2> QED BY <1>1, <1>5, <2>3, <2>4, QuietTypes
<1> QED BY <1>6, <1>7 DEF ReplaceObservation

LEMMA GitAddTypes ==
    ASSUME IndexInv, TypeInv, NEW s \in Servers, GitAdd(s)
    PROVE  TypeInv'
<1>1. op[s].at = "add" /\ UNCHANGED <<work, head, stats, holder, up, ops, faults>> /\ Goto(s, "commit")
  BY DEF GitAdd, At
<1>2. TreeOK(staged)' BY AddFacts DEF TypeInv, TypeOK, TreeOK
<1>3. TypeOK' BY <1>1, <1>2 DEF TypeInv, TypeOK, TreeOK
<1> QED BY <1>1, <1>3, GoOnTypes

LEMMA GitCommitTypes ==
    ASSUME IndexInv, TypeInv, NEW s \in Servers, GitCommit(s)
    PROVE  TypeInv'
<1>1. /\ op[s].at = "commit" /\ UNCHANGED <<work, staged, stats, holder, up, ops, faults>>
      /\ head' = staged /\ Goto(s, "unlock")
  BY DEF GitCommit, At
<1>2. TypeOK' BY <1>1 DEF TypeInv, TypeOK, TreeOK
<1> QED BY <1>1, <1>2, GoOnTypes

LEMMA RollBackTypes ==
    ASSUME IndexInv, TypeInv, NEW s \in Servers, RollBack(s)
    PROVE  TypeInv'
<1> DEFINE base == IF op[s].at = "undo" THEN op[s].base ELSE head
<1>1. /\ op[s].at \in {"rollback", "undo"} /\ UNCHANGED <<staged, head, stats, holder, up, ops, faults>>
      /\ Goto(s, "unlock") /\ work' = Rollback(Registered(s) \cup ChangedPaths, base)
  BY DEF RollBack, At
<1>2. TreeOK(work) /\ TreeOK(base) BY DEF TypeInv, TypeOK, OpTypes
<1> HIDE DEF base
<1>3. \A p \in Paths : work'[p] \in {work[p], base[p]} \cup (IF base[p] = Absent THEN {Absent} ELSE {})
  BY <1>1 DEF Rollback
<1>4. \A p \in Paths : work'[p] \in {work[p], base[p]} BY <1>3
<1>5. TreeOK(work)' BY <1>2, <1>4 DEF TreeOK, Paths
<1>6. TypeOK' BY <1>1, <1>5, WorkType
<1> QED BY <1>1, <1>6, GoOnTypes DEF Holding

LEMMA CommitRaisesTypes ==
    ASSUME IndexInv, TypeInv, NEW s \in Servers, CommitRaises(s)
    PROVE  TypeInv'
<1>1. op[s].at = "commit" /\ UNCHANGED <<work, staged, stats, holder, up, ops>> /\ head' = staged
      /\ faults < MaxFaults /\ faults' = faults + 1
  BY DEF CommitRaises, At
<1>2. faults' \in 0..MaxFaults BY <1>1 DEF TypeInv, TypeOK
<1>3. TypeOK' BY <1>1, <1>2 DEF TypeInv, TypeOK, TreeOK
<1>4. TreeOK(head) /\ OpTypes(op[s]) BY DEF TypeInv, TypeOK
<1>5. OpTypes(op'[s])
  <2>1. /\ op'[s].n = op[s].n /\ op'[s].schema = op[s].schema /\ op'[s].kind = op[s].kind
        /\ op'[s].profile = op[s].profile /\ op'[s].changes = op[s].changes
        /\ op'[s].at = "undo" => op'[s].base = head
    BY CommitRaisesFacts DEF Parts
  <2> QED BY <1>1, <1>4, <2>1 DEF OpTypes
<1> QED BY <1>1, <1>3, <1>5, CommitRaisesFacts, QuietTypes

LEMMA RestTypes ==
    ASSUME IndexInv, TypeInv, NEW s \in Servers,
           Acquire(s) \/ Raises(s) \/ Unlock(s) \/ Crash(s) \/ Restart(s)
    PROVE  TypeInv'
<1>1. CASE Acquire(s)
  <2>1. op[s].at = "lock" /\ UNCHANGED trees /\ TypeOK' BY <1>1 DEF Acquire, At, TypeInv, TypeOK, trees
  <2> QED BY <1>1, <2>1, GoOnTypes DEF Acquire, trees
<1>2. CASE Raises(s)
  <2>1. UNCHANGED trees /\ op[s].at # "done" BY <1>2 DEF Raises, CaseSteps, DrainSteps
  <2>2. PICK at \in {"rollback", "unlock"} : Goto(s, at) BY <1>2 DEF Raises
  <2>3. faults' \in 0..MaxFaults BY <1>2 DEF Raises, TypeInv, TypeOK
  <2>4. TypeOK' BY <1>2, <2>3 DEF Raises, TypeInv, TypeOK, trees
  <2> QED BY <2>1, <2>2, <2>4, GoOnTypes DEF trees
<1>3. CASE Unlock(s) \/ Crash(s)
  <2>1. op' = [op EXCEPT ![s] = NoOp] /\ UNCHANGED trees BY <1>3 DEF Unlock, Crash
  <2>2. op'[s] = NoOp BY <2>1 DEF IndexInv, Shape
  <2>3. holder' \in Servers \cup {NoServer} /\ up' \subseteq Servers /\ faults' \in 0..MaxFaults
    BY <1>3 DEF Unlock, Crash, Released, TypeInv, TypeOK
  <2>4. TypeOK' BY <1>3, <2>3 DEF Unlock, Crash, TypeInv, TypeOK, trees
  <2>5. op' = [op EXCEPT ![s] = op'[s]] /\ op'[s].at # "changes"
    <3>1. NoOp.at = "done" BY DEF NoOp
    <3> QED BY <2>1, <2>2, <3>1
  <2>6. OpTypes(op'[s]) /\ work' = work BY <2>1, <2>2, NoOpTypes DEF trees
  <2> QED BY <2>4, <2>5, <2>6, QuietTypes
<1>4. CASE Restart(s)
  <2>1. TypeOK' BY <1>4 DEF Restart, TypeInv, TypeOK, trees
  <2> QED BY <1>4, <2>1 DEF Restart, TypeInv, Existing, trees
<1> QED BY <1>1, <1>2, <1>3, <1>4

LEMMA PutSchemaTypes ==
    ASSUME IndexInv, TypeInv, NEW s \in Servers, NEW k \in Schemas, PutSchema(s, k)
    PROVE  TypeInv'
<1>1. /\ UNCHANGED <<staged, head, holder, op, stats, up, faults>> /\ ops < MaxOps /\ ops' = ops + 1
      /\ work' = [work EXCEPT ![SchemaFile] = SchemaDoc(k, ops + 1)]
  BY DEF PutSchema
<1>2. work = [p \in Paths |-> work[p]] BY DEF IndexInv, Shape
<1>3. /\ work'[SchemaFile] = SchemaDoc(k, ops + 1)
      /\ \A p \in Cases \cup {IndexFile} : work'[p] = work[p]
  BY <1>1, <1>2 DEF Paths
<1>4. ops' \in 0..MaxOps /\ ops + 1 \in Nat BY <1>1 DEF TypeInv, TypeOK
<1>5. TreeOK(work)' BY <1>3, <1>4 DEF TypeInv, TypeOK, TreeOK, SchemaDoc
<1>6. TypeOK' BY <1>1, <1>4, <1>5 DEF TypeInv, TypeOK, TreeOK
<1>7. \A r \in Servers : OpTypes(op'[r]) BY <1>1 DEF TypeInv
<1>8. \A r \in Servers : op[r].at = "changes" => op[r].todo \subseteq Cases BY DEF IndexInv, Shape, OpOK
<1>9. \A r \in Servers : Existing(r)' BY <1>1, <1>3, <1>8 DEF TypeInv, Existing
<1> QED BY <1>6, <1>7, <1>9 DEF TypeInv

LEMMA NextTyped == IndexInv /\ TypeInv /\ [Next]_vars => TypeInv'
<1> SUFFICES ASSUME IndexInv, TypeInv, [Next]_vars PROVE TypeInv'
  OBVIOUS
<1>1. CASE UNCHANGED vars BY <1>1 DEF vars, trees, TypeInv, TypeOK, TreeOK, Existing
<1>2. ASSUME NEW s \in Servers, Step(s) PROVE TypeInv'
  BY <1>2, BeginMutationTypes, WriteCaseTypes, SaveSchemaTypes, WriteChangeTypes, RefreshIndexesTypes,
     ReplaceObservationTypes, GitAddTypes, GitCommitTypes, RollBackTypes, RestTypes
     DEF Step
<1>3. ASSUME NEW s \in Servers,
             \/ \E c \in Cases, f \in Profiles : Ingest(s, c, f) \/ Update(s, c, f)
             \/ \E c \in Cases : Delete(s, c)
             \/ StartDrain(s)
      PROVE  TypeInv'
  BY <1>3, SubmitTypes
<1>4. ASSUME NEW s \in Servers, \E k \in Schemas \cup {Absent} : Govern(s, k) PROVE TypeInv'
  BY <1>4, GovernTypes
<1>5. ASSUME NEW s \in Servers, Acquire(s) \/ Raises(s) \/ CommitRaises(s) \/ Crash(s) \/ Restart(s)
      PROVE  TypeInv'
  BY <1>5, RestTypes, CommitRaisesTypes
<1>6. ASSUME NEW s \in Servers, \E k \in Schemas : PutSchema(s, k) PROVE TypeInv'
  BY <1>6, PutSchemaTypes
<1> QED BY <1>1, <1>2, <1>3, <1>4, <1>5, <1>6 DEF Next

\* Case files, schema and indexes of all three trees keep their types: no change
\* of a plan is written into a file that has gone meanwhile.
THEOREM TypeCorrect == Safety => []TypeOK
<1>1. TypeInv => TypeOK BY DEF TypeInv
<1> QED BY <1>1, InitIndexed, NextIndexed, InitTyped, NextTyped, PTL DEF Safety

-----------------------------------------------------------------------------
(* Cleanliness, for any number of servers.  While nobody holds the lock the  *)
(* trees are equal; who holds it has changed only what he names, and Git's   *)
(* index is that of HEAD until his commit takes all he has added.            *)

\* The failures that leave nothing behind.
Undone == {<<"case", "write">>, <<"case", "revision">>} \cup ({"drain"} \X (DrainSteps \ {"commit"}))

Same == \A p \in Paths : work[p] = staged[p]

CleanStage(s) ==
    /\ op[s].at \in {"begin", "write", "schema", "unlock"} => Clean
    /\ op[s].at \in {"changes", "index", "stats", "add", "rollback"} => \A p \in Paths : staged[p] = head[p]
    /\ op[s].at \in {"changes", "index", "stats", "add"} => \A p \in Paths \ Registered(s) : work[p] = staged[p]
    /\ op[s].at = "commit" => Same
    /\ op[s].at # "undo"

Resting == \A s \in Servers : op[s].at \notin Holding

CleanInv == happened \subseteq Undone => (Resting => Clean) /\ \A s \in Servers : CleanStage(s)

LEMMA CleanTrees == Clean <=> \A p \in Paths : work[p] = staged[p] /\ staged[p] = head[p]
BY DEF Clean, ChangedPaths

LEMMA CleanTreesNext == Clean' <=> \A p \in Paths : work'[p] = staged'[p] /\ staged'[p] = head'[p]
BY DEF Clean, ChangedPaths

LEMMA InitClean == Init => CleanInv
<1> SUFFICES ASSUME Init PROVE CleanInv
  OBVIOUS
<1>1. Clean BY CleanTrees DEF Init
<1>2. \A s \in Servers : op[s].at = "done" BY DEF Init, NoOp
<1> QED BY <1>1, <1>2 DEF CleanInv, CleanStage

\* What a holder has to show.
LEMMA HolderCleans ==
    ASSUME IndexInv, NEW s \in Servers, op[s].at \in Holding, op' = [op EXCEPT ![s] = op'[s]],
           happened' \subseteq Undone => CleanStage(s)' /\ (op'[s].at \notin Holding => Clean')
    PROVE  CleanInv'
<1> SUFFICES ASSUME happened' \subseteq Undone PROVE (Resting' => Clean') /\ \A r \in Servers : CleanStage(r)'
  BY DEF CleanInv
<1>1. op = [r \in Servers |-> op[r]] BY DEF IndexInv, Shape
<1>2. \A r \in Servers \ {s} : op'[r] = op[r] /\ op[r].at \notin Holding BY <1>1, HolderIsAlone
<1>3. \A r \in Servers \ {s} : CleanStage(r)' BY <1>2 DEF CleanStage, Holding
<1> QED BY <1>3 DEF Resting

\* Who does not hold the lock, before and after, changes no tree.
LEMMA OutsiderCleans ==
    ASSUME IndexInv, CleanInv, NEW s \in Servers, op[s].at \notin Holding, op'[s].at \notin Holding,
           op' = [op EXCEPT ![s] = op'[s]], UNCHANGED trees, happened' = happened
    PROVE  CleanInv'
<1>1. op = [r \in Servers |-> op[r]] BY DEF IndexInv, Shape
<1>2. \A r \in Servers \ {s} : op'[r] = op[r] BY <1>1
<1>3. CleanStage(s)' BY DEF CleanStage, Holding
<1>4. Clean' <=> Clean BY CleanTrees, CleanTreesNext DEF trees
<1>5. \A r \in Servers \ {s} : Registered(r)' = Registered(r) BY <1>2 DEF Registered
<1>6. Same' <=> Same BY DEF Same, trees
<1>7. ASSUME NEW r \in Servers \ {s}, CleanStage(r) PROVE CleanStage(r)'
  BY <1>2, <1>4, <1>5, <1>6, <1>7 DEF CleanStage, trees
<1>8. Resting' <=> Resting BY <1>2 DEF Resting
<1> QED BY <1>3, <1>4, <1>7, <1>8 DEF CleanInv

LEMMA AcquireCleans ==
    ASSUME IndexInv, CleanInv, NEW s \in Servers, Acquire(s)
    PROVE  CleanInv'
<1>1. op[s].at = "lock" /\ holder = NoServer /\ Goto(s, "begin") /\ UNCHANGED trees /\ happened' = happened
  BY DEF Acquire, At
<1>2. op' = [op EXCEPT ![s] = op'[s]] /\ op'[s].at = "begin" BY <1>1, GotoFacts
<1>3. op = [r \in Servers |-> op[r]] /\ Resting BY <1>1 DEF IndexInv, Shape, Knows, Resting
<1>4. Clean => Clean' BY <1>1, CleanTrees, CleanTreesNext DEF trees
<1>5. \A r \in Servers \ {s} : op'[r].at \notin Holding BY <1>2, <1>3 DEF Resting
<1>6. \A r \in Servers \ {s} : CleanStage(r)' BY <1>5 DEF CleanStage, Holding
<1>7. Clean' => CleanStage(s)' BY <1>2 DEF CleanStage
<1>8. ~Resting' BY <1>2 DEF Resting, Holding
<1> QED BY <1>1, <1>3, <1>4, <1>6, <1>7, <1>8 DEF CleanInv

\* The trees of a holder, from its place in the operation.
LEMMA StageOf ==
    ASSUME CleanInv, NEW s \in Servers, happened \subseteq Undone
    PROVE  CleanStage(s)
BY DEF CleanInv

LEMMA BeginMutationCleans ==
    ASSUME IndexInv, CleanInv, NEW s \in Servers, BeginMutation(s)
    PROVE  CleanInv'
<1>1. op[s].at = "begin" /\ UNCHANGED trees /\ happened' = happened BY DEF BeginMutation, At
<1>2. /\ op' = [op EXCEPT ![s] = op'[s]]
      /\ op'[s].at \in {"unlock", "schema", "write"}
  BY BeginFacts
<1>3. happened \subseteq Undone => Clean BY <1>1, StageOf DEF CleanStage
<1>4. Clean => Clean' BY <1>1, CleanTrees, CleanTreesNext DEF trees
<1> QED BY <1>1, <1>2, <1>3, <1>4, HolderCleans DEF CleanStage, Holding

\* Writing files that are named keeps the others equal.
LEMMA WriteCleans ==
    ASSUME IndexInv, CleanInv, NEW s \in Servers, op[s].at \in {"write", "schema", "changes", "index"},
           op' = [op EXCEPT ![s] = op'[s]], Registered(s)' = Registered(s),
           \A p \in Paths \ Registered(s) : work'[p] = work[p],
           UNCHANGED <<staged, head, happened>>,
           op'[s].at \in {"changes", "index", "stats"}
    PROVE  CleanInv'
<1>1. op[s].at \in Holding /\ op'[s].at \in Holding BY DEF Holding
<1>2. ASSUME happened \subseteq Undone PROVE CleanStage(s)'
  <2>1. CleanStage(s) BY <1>2, StageOf
  <2>2. /\ \A p \in Paths : staged[p] = head[p]
        /\ \A p \in Paths \ Registered(s) : work[p] = staged[p]
    BY <2>1, CleanTrees DEF CleanStage
  <2> QED BY <2>2 DEF CleanStage
<1> QED BY <1>1, <1>2, HolderCleans

LEMMA WriteCaseCleans ==
    ASSUME IndexInv, CleanInv, NEW s \in Servers, WriteCase(s)
    PROVE  CleanInv'
<1>1. /\ op[s].at = "write" /\ UNCHANGED <<staged, head, happened>>
      /\ op' = [op EXCEPT ![s].at = "index", ![s].todo = {op[s].case}]
  BY DEF WriteCase, At
<1>2. PICK doc : work' = [work EXCEPT ![op[s].case] = doc] BY DEF WriteCase
<1>3. work = [p \in Paths |-> work[p]] /\ OpOK(op[s]) BY DEF IndexInv, Shape
<1>4. op[s].kind # "drain" /\ op[s].case \in Registered(s)
  BY <1>1, <1>3 DEF OpOK, Registered
<1>5. \A p \in Paths \ Registered(s) : work'[p] = work[p] BY <1>2, <1>3, <1>4
<1>6. op' = [op EXCEPT ![s] = op'[s]] /\ op'[s].at = "index" /\ Registered(s)' = Registered(s)
  BY <1>1, <1>4, ToIndexFacts
<1> QED BY <1>1, <1>5, <1>6, WriteCleans

LEMMA SaveSchemaCleans ==
    ASSUME IndexInv, CleanInv, NEW s \in Servers, SaveSchema(s)
    PROVE  CleanInv'
<1>1. op[s].at = "schema" /\ UNCHANGED <<staged, head, happened>> BY DEF SaveSchema, At
<1>2. work = [p \in Paths |-> work[p]] /\ op[s].kind = "drain" BY <1>1 DEF IndexInv, Shape, OpOK
<1>3. CASE Goto(s, "rollback") /\ UNCHANGED work
  <2>1. op' = [op EXCEPT ![s] = op'[s]] /\ op'[s].at = "rollback" BY <1>1, <1>3, GotoFacts
  <2>2. happened \subseteq Undone => \A p \in Paths : staged[p] = head[p]
    BY <1>1, StageOf, CleanTrees DEF CleanStage
  <2> QED BY <1>1, <2>1, <2>2, HolderCleans DEF CleanStage, Holding
<1>4. CASE /\ Goto(s, "changes")
           /\ work' = IF op[s].schema \in {Absent, work[SchemaFile].schema} THEN work
                      ELSE [work EXCEPT ![SchemaFile] = SchemaDoc(op[s].schema, op[s].n)]
  <2>1. \A p \in Paths \ Registered(s) : work'[p] = work[p]
    <3>1. CASE op[s].schema \in {Absent, work[SchemaFile].schema} BY <1>4, <3>1
    <3>2. CASE op[s].schema \notin {Absent, work[SchemaFile].schema}
      <4>1. SchemaFile \in Registered(s) BY <1>2, <3>2 DEF Registered
      <4> QED BY <1>2, <1>4, <3>2, <4>1
    <3> QED BY <3>1, <3>2
  <2>2. op' = [op EXCEPT ![s] = op'[s]] /\ op'[s].at = "changes" /\ Registered(s)' = Registered(s)
    BY <1>1, <1>2, <1>4, GotoFacts
  <2> QED BY <1>1, <2>1, <2>2, WriteCleans
<1> QED BY <1>3, <1>4 DEF SaveSchema

LEMMA WriteChangeCleans ==
    ASSUME IndexInv, CleanInv, NEW s \in Servers, WriteChange(s)
    PROVE  CleanInv'
<1>1. op[s].at = "changes" /\ UNCHANGED <<staged, head, happened>> BY DEF WriteChange, At
<1>2. work = [p \in Paths |-> work[p]] /\ OpOK(op[s]) /\ op[s].kind = "drain"
  BY <1>1 DEF IndexInv, Shape, OpOK
<1>3. ASSUME NEW c \in op[s].todo, work' = [work EXCEPT ![c].facets = op[s].changes[c].after],
             op' = [op EXCEPT ![s].todo = @ \ {c}]
      PROVE  CleanInv'
  <2>1. c \in Registered(s) /\ op[s].todo \ {c} \subseteq DOMAIN op[s].changes BY <1>2 DEF OpOK, Registered
  <2>2. op' = [op EXCEPT ![s].todo = op[s].todo \ {c}] BY <1>3
  <2>3. op' = [op EXCEPT ![s] = op'[s]] /\ op'[s].at = "changes" /\ Registered(s)' = Registered(s)
    BY <1>1, <2>1, <2>2, TodoFacts DEF Parts
  <2>4. \A p \in Paths \ Registered(s) : work'[p] = work[p] BY <1>2, <1>3, <2>1
  <2> QED BY <1>1, <2>3, <2>4, WriteCleans
<1>4. CASE op' = [op EXCEPT ![s].at = "index", ![s].todo = DOMAIN op[s].changes] /\ UNCHANGED work
  <2>1. op' = [op EXCEPT ![s] = op'[s]] /\ op'[s].at = "index" /\ Registered(s)' = Registered(s)
    BY <1>1, <1>4, ToIndexFacts
  <2> QED BY <1>1, <1>4, <2>1, WriteCleans
<1> QED BY <1>3, <1>4 DEF WriteChange

LEMMA RefreshIndexesCleans ==
    ASSUME IndexInv, CleanInv, NEW s \in Servers, RefreshIndexes(s)
    PROVE  CleanInv'
<1>1. /\ op[s].at = "index" /\ UNCHANGED <<staged, head, happened>> /\ Goto(s, "stats")
      /\ work' = [work EXCEPT ![IndexFile] = IndexDoc(work, op[s].n)]
  BY DEF RefreshIndexes, At
<1>2. work = [p \in Paths |-> work[p]] BY DEF IndexInv, Shape
<1>3. op' = [op EXCEPT ![s] = op'[s]] /\ op'[s].at = "stats" /\ Registered(s)' = Registered(s) BY <1>1, GotoFacts
<1>4. IndexFile \in Registered(s) BY DEF Registered
<1>5. \A p \in Paths \ Registered(s) : work'[p] = work[p] BY <1>1, <1>2, <1>4
<1> QED BY <1>1, <1>3, <1>5, WriteCleans

LEMMA ReplaceObservationCleans ==
    ASSUME IndexInv, CleanInv, NEW s \in Servers, ReplaceObservation(s)
    PROVE  CleanInv'
<1>1. op[s].at = "stats" /\ UNCHANGED trees /\ happened' = happened BY DEF ReplaceObservation, At
<1>2. ASSUME op' = [op EXCEPT ![s] = op'[s]], op'[s].at \in {"stats", "add"}, Registered(s)' = Registered(s)
      PROVE  CleanInv'
  <2>1. happened \subseteq Undone => CleanStage(s)' BY <1>1, <1>2, StageOf DEF CleanStage, trees
  <2> QED BY <1>1, <1>2, <2>1, HolderCleans DEF Holding
<1>3. ASSUME NEW c \in op[s].todo, op' = [op EXCEPT ![s].todo = @ \ {c}] PROVE CleanInv'
  <2>1. op' = [op EXCEPT ![s].todo = op[s].todo \ {c}] BY <1>3
  <2>2. op[s].kind = "drain" => op[s].todo \ {c} \subseteq DOMAIN op[s].changes BY DEF IndexInv, Shape, OpOK
  <2> QED BY <1>1, <1>2, <2>1, <2>2, TodoFacts DEF Parts
<1>4. CASE Goto(s, "add") BY <1>1, <1>2, <1>4, GotoFacts
<1> QED BY <1>3, <1>4 DEF ReplaceObservation

\* What is added are the files that differ: Git's index becomes the files.
LEMMA GitAddCleans ==
    ASSUME IndexInv, CleanInv, NEW s \in Servers, GitAdd(s)
    PROVE  CleanInv'
<1>1. op[s].at = "add" /\ UNCHANGED <<work, head, happened>> /\ Goto(s, "commit") BY DEF GitAdd, At
<1>2. op' = [op EXCEPT ![s] = op'[s]] /\ op'[s].at = "commit" BY <1>1, GotoFacts
<1>3. PICK paths : staged' = Add(paths) /\ (paths = Registered(s) \/ paths = Registered(s) \cap ChangedPaths)
  BY DEF GitAdd
<1>4. \A p \in Paths : staged'[p] = IF p \in Registered(s) THEN work[p] ELSE staged[p]
  BY <1>3 DEF Add, ChangedPaths
<1>5. ASSUME happened \subseteq Undone PROVE CleanStage(s)'
  <2>1. \A p \in Paths \ Registered(s) : work[p] = staged[p] BY <1>1, <1>5, StageOf DEF CleanStage
  <2>2. Same' BY <1>1, <1>4, <2>1 DEF Same
  <2> QED BY <1>2, <2>2 DEF CleanStage
<1> QED BY <1>1, <1>2, <1>5, HolderCleans DEF Holding

LEMMA GitCommitCleans ==
    ASSUME IndexInv, CleanInv, NEW s \in Servers, GitCommit(s)
    PROVE  CleanInv'
<1>1. op[s].at = "commit" /\ UNCHANGED <<work, staged, happened>> /\ head' = staged /\ Goto(s, "unlock")
  BY DEF GitCommit, At
<1>2. op' = [op EXCEPT ![s] = op'[s]] /\ op'[s].at = "unlock" BY <1>1, GotoFacts
<1>3. happened \subseteq Undone => Clean' BY <1>1, StageOf, CleanTreesNext DEF CleanStage, Same
<1> QED BY <1>1, <1>2, <1>3, HolderCleans DEF CleanStage, Holding

\* Git's index is that of HEAD, and every file that differs is rewritten.
LEMMA RollBackCleans ==
    ASSUME IndexInv, CleanInv, NEW s \in Servers, RollBack(s)
    PROVE  CleanInv'
<1>1. /\ op[s].at \in {"rollback", "undo"} /\ UNCHANGED <<staged, head, happened>> /\ Goto(s, "unlock")
      /\ op[s].at = "rollback" => work' = Rollback(Registered(s) \cup ChangedPaths, head)
  BY DEF RollBack, At
<1>2. op' = [op EXCEPT ![s] = op'[s]] /\ op'[s].at = "unlock" BY <1>1, GotoFacts
<1>3. ASSUME happened \subseteq Undone PROVE Clean'
  <2>1. op[s].at = "rollback" /\ \A p \in Paths : staged[p] = head[p] BY <1>1, <1>3, StageOf DEF CleanStage
  <2>2. \A p \in Paths : p \notin ChangedPaths => work[p] = staged[p] BY DEF ChangedPaths
  <2>3. \A p \in Paths : work'[p] = head[p] BY <1>1, <2>1, <2>2 DEF Rollback
  <2> QED BY <1>1, <2>1, <2>3, CleanTreesNext
<1> QED BY <1>1, <1>2, <1>3, HolderCleans DEF CleanStage, Holding

LEMMA UnlockCleans ==
    ASSUME IndexInv, CleanInv, NEW s \in Servers, Unlock(s)
    PROVE  CleanInv'
<1>1. op[s].at = "unlock" /\ UNCHANGED trees /\ happened' = happened /\ op' = [op EXCEPT ![s] = NoOp]
  BY DEF Unlock, At
<1>2. op'[s] = NoOp /\ NoOp.at = "done" BY <1>1 DEF IndexInv, Shape, NoOp
<1>3. op' = [op EXCEPT ![s] = op'[s]] BY <1>1, <1>2
<1>4. op'[s].at = "done" BY <1>2
<1>5. happened \subseteq Undone => Clean' BY <1>1, StageOf, CleanTrees, CleanTreesNext DEF CleanStage, trees
<1> QED BY <1>1, <1>3, <1>4, <1>5, HolderCleans DEF CleanStage, Holding

\* A case that fails before it writes, and a drain that fails before the commit.
LEMMA RaisesCleans ==
    ASSUME IndexInv, CleanInv, NEW s \in Servers, Raises(s)
    PROVE  CleanInv'
<1> DEFINE kind == IF op[s].kind = "drain" THEN "drain" ELSE "case"
<1>1. /\ op[s].at \in Holding /\ op[s].at # "done" /\ UNCHANGED trees
      /\ happened' = happened \cup {<<kind, op[s].at>>}
      /\ op[s].at \in (IF kind = "drain" THEN DrainSteps ELSE CaseSteps)
      /\ Goto(s, IF kind = "drain" THEN "rollback" ELSE "unlock")
  BY DEF Raises, CaseSteps, DrainSteps, Holding
<1>2. ASSUME happened' \subseteq Undone
      PROVE  /\ op' = [op EXCEPT ![s] = op'[s]]
             /\ \/ op'[s].at = "unlock" /\ Clean'
                \/ op'[s].at = "rollback" /\ \A p \in Paths : staged'[p] = head'[p]
  <2>1. <<kind, op[s].at>> \in Undone /\ happened \subseteq Undone BY <1>1, <1>2
  <2>2. CASE op[s].kind = "drain"
    <3>1. op[s].at \in DrainSteps \ {"commit"} BY <2>1, <2>2 DEF Undone
    <3>2. \A p \in Paths : staged[p] = head[p]
      BY <2>1, <3>1, StageOf, CleanTrees DEF CleanStage, DrainSteps
    <3>3. op' = [op EXCEPT ![s] = op'[s]] /\ op'[s].at = "rollback" BY <1>1, <2>2, GotoFacts
    <3> QED BY <1>1, <3>2, <3>3 DEF trees
  <2>3. CASE op[s].kind # "drain"
    <3>1. op[s].at = "write" BY <1>1, <2>1, <2>3 DEF Undone, CaseSteps
    <3>2. Clean BY <2>1, <3>1, StageOf DEF CleanStage
    <3>3. op' = [op EXCEPT ![s] = op'[s]] /\ op'[s].at = "unlock" BY <1>1, <2>3, GotoFacts
    <3> HIDE DEF kind
    <3>4. UNCHANGED trees BY <1>1
    <3>5. Clean' BY <3>2, <3>4, CleanTrees, CleanTreesNext DEF trees
    <3> QED BY <3>3, <3>5
  <2> QED BY <2>2, <2>3
<1>3. CASE happened' \subseteq Undone
  <2>1. CleanStage(s)' /\ op'[s].at \in Holding BY <1>2, <1>3 DEF CleanStage, Holding
  <2> QED BY <1>1, <1>2, <1>3, <2>1, HolderCleans
<1>4. CASE ~(happened' \subseteq Undone) BY <1>4 DEF CleanInv
<1> QED BY <1>3, <1>4

\* A case that fails after its commit, and a drain that then undoes it in vain.
LEMMA CommitRaisesCleans ==
    ASSUME IndexInv, CleanInv, NEW s \in Servers, CommitRaises(s)
    PROVE  CleanInv'
<1>1. op[s].at = "commit" /\ UNCHANGED <<work, staged>> /\ head' = staged /\ happened \subseteq happened'
  BY DEF CommitRaises, At
<1>2. CASE op[s].kind = "drain"
  <2>1. <<"drain", "revision">> \in happened' BY <1>2 DEF CommitRaises
  <2>2. <<"drain", "revision">> \notin Undone BY DEF Undone, DrainSteps
  <2> QED BY <2>1, <2>2 DEF CleanInv
<1>3. CASE op[s].kind # "drain"
  <2>1. op' = [op EXCEPT ![s] = op'[s]] /\ op'[s].at = "unlock" BY <1>3, CommitRaisesFacts
  <2>2. happened \subseteq Undone => Clean' BY <1>1, StageOf, CleanTreesNext DEF CleanStage, Same
  <2> QED BY <1>1, <2>1, <2>2, HolderCleans DEF CleanStage, Holding
<1> QED BY <1>2, <1>3

\* A crash and a put are failures that may leave something behind.
LEMMA OutsideCleans ==
    ASSUME NEW s \in Servers, Crash(s) \/ \E k \in Schemas : PutSchema(s, k)
    PROVE  CleanInv'
<1>1. <<"server", "crash">> \notin Undone /\ <<"request", "put">> \notin Undone BY DEF Undone
<1> QED BY <1>1 DEF Crash, PutSchema, CleanInv

LEMMA NextClean == IndexInv /\ CleanInv /\ [Next]_vars => CleanInv'
<1> SUFFICES ASSUME IndexInv, CleanInv, [Next]_vars PROVE CleanInv'
  OBVIOUS
<1>1. ASSUME UNCHANGED <<trees, op, happened>> PROVE CleanInv'
  <2>1. Clean' <=> Clean BY <1>1, CleanTrees, CleanTreesNext DEF trees
  <2>2. \A r \in Servers : CleanStage(r) => CleanStage(r)'
    BY <1>1, <2>1 DEF CleanStage, Registered, Same, trees
  <2>3. happened' = happened /\ (Resting' => Resting) BY <1>1 DEF Resting
  <2> QED BY <2>1, <2>2, <2>3 DEF CleanInv
<1>2. CASE UNCHANGED vars BY <1>1, <1>2 DEF vars, trees
<1>3. ASSUME NEW s \in Servers, Step(s) PROVE CleanInv'
  BY <1>3, BeginMutationCleans, WriteCaseCleans, SaveSchemaCleans, WriteChangeCleans, RefreshIndexesCleans,
     ReplaceObservationCleans, GitAddCleans, GitCommitCleans, RollBackCleans, UnlockCleans
     DEF Step
<1>4. ASSUME NEW s \in Servers, NEW o, Begin(s, o), o.at \in {"lock", "governing"} PROVE CleanInv'
  <2>1. /\ op' = [op EXCEPT ![s] = op'[s]] /\ op'[s].at = o.at /\ op[s] = NoOp
        /\ UNCHANGED trees /\ happened' = happened
    BY <1>4 DEF Begin, IndexInv, Shape
  <2>2. NoOp.at = "done" BY DEF NoOp
  <2>3. op[s].at = "done" BY <2>1, <2>2
  <2> QED BY <1>4, <2>1, <2>3, OutsiderCleans DEF Holding
<1>5. ASSUME NEW s \in Servers,
             \/ \E c \in Cases, f \in Profiles : Ingest(s, c, f) \/ Update(s, c, f)
             \/ \E c \in Cases : Delete(s, c)
      PROVE  CleanInv'
  <2>1. \A c, f, kind : CaseOp(kind, c, f).at = "lock" BY DEF CaseOp, NoOp
  <2> QED BY <1>4, <1>5, <2>1 DEF Ingest, Update, Delete
<1>6. ASSUME NEW s \in Servers, StartDrain(s) PROVE CleanInv'
  <2> DEFINE o == [NoOp EXCEPT !.kind = "drain", !.n = ops + 1, !.at = "governing"]
  <2>1. o.at = "governing" BY DEF NoOp
  <2>2. Begin(s, o) BY <1>6 DEF StartDrain
  <2> HIDE DEF o
  <2> QED BY <1>4, <2>1, <2>2
<1>7. ASSUME NEW s \in Servers, NEW k, Govern(s, k) PROVE CleanInv'
  <2>1. op' = [op EXCEPT ![s] = op'[s]] /\ op'[s].at = "lock" BY <1>7, GovernFacts
  <2>2. op[s].at = "governing" /\ UNCHANGED trees /\ happened' = happened BY <1>7 DEF Govern
  <2> QED BY <2>1, <2>2, OutsiderCleans DEF Holding
<1>8. ASSUME NEW s \in Servers,
             Acquire(s) \/ Raises(s) \/ CommitRaises(s) \/ Crash(s) \/ \E k \in Schemas : PutSchema(s, k)
      PROVE  CleanInv'
  BY <1>8, AcquireCleans, RaisesCleans, CommitRaisesCleans, OutsideCleans
<1>9. ASSUME NEW s \in Servers, Restart(s) PROVE CleanInv'
  BY <1>1, <1>9 DEF Restart
<1> QED BY <1>2, <1>3, <1>5, <1>6, <1>7, <1>8, <1>9 DEF Next

\* However many servers share the workspace: what failed before it wrote, what
\* was rolled back before it touched Git's index, and a case operation that raised
\* after its commit leave it clean.
THEOREM CleanAlwaysAtRest == Safety => []CleanAtRest
<1>1. CleanInv => CleanAtRest
  <2>1. AtRest => Resting BY DEF AtRest, Resting, NoOp, Holding
  <2> QED BY <2>1 DEF CleanInv, CleanAtRest, Undone
<1> QED BY <1>1, InitIndexed, NextIndexed, InitClean, NextClean, PTL DEF Safety

-----------------------------------------------------------------------------
(* Statistics, for any number of servers.  They count the cases of HEAD      *)
(* until an operation replaces the observations of the cases it has written, *)
(* one by one, and those of the files it has written until HEAD is the same. *)

\* The failures before the statistics are touched and after the commit.
Untouched == {<<"case", "write">>, <<"case", "index">>, <<"case", "revision">>, <<"request", "put">>}
             \cup ({"drain"} \X {"schema", "changes", "index", "revision"})

Seen(tree, o) == {c \in Cases : tree[c] # Absent /\ Observation(tree[c]) = o}

Tally(tree) == \A o \in Observations : IsFiniteSet(Seen(tree, o)) /\ stats[o] = Cardinality(Seen(tree, o))

\* Who stands here is writing or has written case files; ...
Counting == {"write", "schema", "changes", "index", "stats", "add", "commit"}
\* ... whose statistics are not, or no longer, those of HEAD.
Ahead == {"stats", "add", "commit"}

Written(s) == Registered(s) \cap Cases

\* What the statistics count while the observations of the todo are replaced.
Mixed(s) == [c \in Cases |-> IF c \in op[s].todo THEN head[c] ELSE work[c]]

\* The observation that a change of a plan replaces is the one of HEAD.
Replaces(s) ==
    IF op[s].kind = "drain"
    THEN \A c \in DOMAIN op[s].changes :
            /\ head[c] # Absent /\ work[c] # Absent
            /\ head[c].facets = op[s].changes[c].before
            /\ work[c].profile = head[c].profile
    ELSE op[s].old = head[op[s].case]

CountStage(s) ==
    /\ op[s].at \in Counting \ {"commit"} => \A c \in Cases : staged[c] = head[c]
    /\ op[s].at \in {"write", "schema"} => \A c \in Cases : work[c] = head[c]
    /\ op[s].at \in {"write", "changes", "index", "stats"} => Replaces(s)
    /\ op[s].at = "index" => op[s].todo = Written(s)
    /\ op[s].at = "stats" => op[s].todo \subseteq Written(s) /\ Tally(Mixed(s))
    /\ op[s].at \in {"add", "commit"} => Tally(work)
    /\ op[s].at = "commit" => \A c \in Cases : staged[c] = work[c]

Level == \A s \in Servers : op[s].at \notin Ahead

CountInv == happened \subseteq Untouched => (Level => Tally(head)) /\ \A s \in Servers : CountStage(s)

LEMMA TallySame ==
    ASSUME NEW tree, NEW other, Tally(tree), \A c \in Cases : other[c] = tree[c]
    PROVE  Tally(other)
<1>1. \A o \in Observations : Seen(other, o) = Seen(tree, o) BY DEF Seen
<1> QED BY <1>1 DEF Tally

\* The same for the next state of an action that counts nothing.
LEMMA TallyKept ==
    ASSUME NEW tree, NEW other, Tally(tree), stats' = stats, \A c \in Cases : other[c] = tree[c]
    PROVE  \A o \in Observations : IsFiniteSet(Seen(other, o)) /\ stats'[o] = Cardinality(Seen(other, o))
BY TallySame DEF Tally

\* One observation is replaced: the counts of all others stay.
LEMMA CountReplaced ==
    ASSUME NEW tree, NEW other, NEW c \in Cases, NEW old,
           Tally(tree), stats \in [Observations -> Nat],
           \A d \in Cases \ {c} : other[d] = tree[d],
           old = Absent <=> tree[c] = Absent,
           tree[c] # Absent => Observation(old) = Observation(tree[c]) /\ Observation(old) \in Observations,
           other[c] # Absent => Observation(other[c]) \in Observations,
           NEW o \in Observations
    PROVE  /\ IsFiniteSet(Seen(other, o))
           /\ AddTo(RemoveFrom(stats, old), other[c])[o] = Cardinality(Seen(other, o))
<1> DEFINE rest == Seen(tree, o) \ {c}
           fewer == RemoveFrom(stats, old)
<1>1. IsFiniteSet(Seen(tree, o)) /\ stats[o] = Cardinality(Seen(tree, o)) BY DEF Tally
<1>2. /\ IsFiniteSet(rest) /\ Cardinality(rest) \in Nat
      /\ stats[o] = IF c \in Seen(tree, o) THEN Cardinality(rest) + 1 ELSE Cardinality(rest)
  <2>1. /\ IsFiniteSet(rest)
        /\ Cardinality(rest) = IF c \in Seen(tree, o) THEN Cardinality(Seen(tree, o)) - 1 ELSE Cardinality(Seen(tree, o))
    BY <1>1, FS_RemoveElement
  <2>2. Cardinality(rest) \in Nat /\ Cardinality(Seen(tree, o)) \in Nat BY <1>1, <2>1, FS_CardinalityType
  <2> QED BY <1>1, <2>1, <2>2
<1>3. /\ c \in Seen(tree, o) <=> tree[c] # Absent /\ Observation(tree[c]) = o
      /\ c \in Seen(other, o) <=> other[c] # Absent /\ Observation(other[c]) = o
  BY DEF Seen
<1>4. fewer \in [Observations -> Nat] BY CountTypes
<1>5. fewer[o] = Cardinality(rest)
  <2>1. CASE old = Absent BY <1>2, <1>3, <2>1 DEF RemoveFrom
  <2>2. CASE old # Absent
    <3> DEFINE k == Observation(old)
    <3>1. fewer = [stats EXCEPT ![k] = IF stats[k] > 0 THEN stats[k] - 1 ELSE 0] BY <2>2 DEF RemoveFrom
    <3>2. k \in Observations /\ (c \in Seen(tree, o) <=> k = o) BY <1>3, <2>2
    <3> HIDE DEF k, fewer, rest
    <3>3. fewer[o] = IF k = o THEN (IF stats[k] > 0 THEN stats[k] - 1 ELSE 0) ELSE stats[o] BY <3>1, <3>2
    <3> QED BY <1>2, <3>2, <3>3
  <2> QED BY <2>1, <2>2
<1>6. AddTo(fewer, other[c])[o] = IF c \in Seen(other, o) THEN fewer[o] + 1 ELSE fewer[o]
  <2>1. CASE other[c] = Absent BY <1>3, <2>1 DEF AddTo
  <2>2. CASE other[c] # Absent
    <3> DEFINE k == Observation(other[c])
    <3>1. AddTo(fewer, other[c]) = [fewer EXCEPT ![k] = fewer[k] + 1] BY <2>2 DEF AddTo
    <3>2. k \in Observations /\ (c \in Seen(other, o) <=> k = o) BY <1>3, <2>2
    <3> HIDE DEF k, fewer
    <3> QED BY <1>4, <3>1, <3>2
  <2> QED BY <2>1, <2>2
<1>7. Seen(other, o) = IF c \in Seen(other, o) THEN rest \cup {c} ELSE rest BY DEF Seen
<1>8. IsFiniteSet(rest \cup {c}) /\ Cardinality(rest \cup {c}) = Cardinality(rest) + 1
  BY <1>2, FS_AddElement
<1> HIDE DEF rest, fewer
<1>9. IsFiniteSet(Seen(other, o)) BY <1>2, <1>7, <1>8
<1>10. Cardinality(Seen(other, o)) = IF c \in Seen(other, o) THEN Cardinality(rest) + 1 ELSE Cardinality(rest)
  BY <1>7, <1>8
<1> QED BY <1>5, <1>6, <1>9, <1>10 DEF fewer

LEMMA InitCounts == Init => CountInv
<1> SUFFICES ASSUME Init PROVE CountInv
  OBVIOUS
<1>1. \A c \in Cases : head[c] = Absent BY DEF Init, Baseline, Paths
<1>2. \A o \in Observations : Seen(head, o) = {} /\ stats[o] = 0 BY <1>1 DEF Seen, Init
<1>3. Tally(head) BY <1>2, FS_EmptySet DEF Tally
<1>4. \A s \in Servers : op[s].at = "done" BY DEF Init, NoOp
<1> QED BY <1>3, <1>4 DEF CountInv, CountStage, Counting

\* The stage of a server that does not write cases says nothing.
LEMMA NotCounting ==
    ASSUME NEW s, op'[s].at \notin Counting
    PROVE  CountStage(s)'
BY DEF CountStage, Counting

\* What a holder has to show.
LEMMA HolderCounts ==
    ASSUME IndexInv, CountInv, NEW s \in Servers, op[s].at \in Holding, op' = [op EXCEPT ![s] = op'[s]],
           happened \subseteq happened',
           happened' \subseteq Untouched =>
               /\ op'[s].at \in Counting => CountStage(s)'
               /\ op'[s].at \notin Ahead => Tally(head)'
    PROVE  CountInv'
<1> SUFFICES ASSUME happened' \subseteq Untouched
             PROVE  (Level' => Tally(head)') /\ \A r \in Servers : CountStage(r)'
  BY DEF CountInv
<1>1. op = [r \in Servers |-> op[r]] BY DEF IndexInv, Shape
<1>2. \A r \in Servers \ {s} : op'[r] = op[r] /\ op[r].at \notin Holding BY <1>1, HolderIsAlone
<1>3. \A r \in Servers \ {s} : CountStage(r)' BY <1>2, NotCounting DEF Counting, Holding
<1> QED BY <1>3, NotCounting DEF Level

\* Who writes no case, before and after, and leaves the cases alone.
LEMMA OutsiderCounts ==
    ASSUME IndexInv, CountInv, NEW s \in Servers, op[s].at \notin Counting, op'[s].at \notin Counting,
           op' = [op EXCEPT ![s] = op'[s]], stats' = stats, happened \subseteq happened',
           \A c \in Cases : work'[c] = work[c] /\ staged'[c] = staged[c] /\ head'[c] = head[c]
    PROVE  CountInv'
<1> SUFFICES ASSUME happened' \subseteq Untouched
             PROVE  (Level' => Tally(head)') /\ \A r \in Servers : CountStage(r)'
  BY DEF CountInv
<1>1. op = [r \in Servers |-> op[r]] /\ \A r \in Servers : OpOK(op[r]) BY DEF IndexInv, Shape
<1>2. \A r \in Servers \ {s} : op'[r] = op[r] BY <1>1
<1>3. (Level => Tally(head)) /\ \A r \in Servers : CountStage(r) BY DEF CountInv
<1>4. Level' => Level BY <1>2 DEF Level, Ahead, Counting
<1>5. Tally(head) => Tally(head)' BY TallyKept DEF Tally
<1>6. ASSUME NEW r \in Servers \ {s} PROVE CountStage(r)'
  <2>1. op'[r] = op[r] /\ CountStage(r) /\ OpOK(op[r]) BY <1>1, <1>2, <1>3
  <2>2. Written(r)' = Written(r) BY <2>1 DEF Written, Registered
  <2>3. ASSUME op[r].at \in Counting, Replaces(r) PROVE Replaces(r)'
    <3>1. CASE op[r].kind = "drain"
      <4>1. DOMAIN op[r].changes \subseteq Cases BY <2>1 DEF OpOK
      <4> QED BY <2>1, <2>3, <3>1, <4>1 DEF Replaces
    <3>2. CASE op[r].kind # "drain"
      <4>1. op[r].case \in Cases BY <2>1, <2>3, <3>2 DEF OpOK, Counting
      <4> QED BY <2>1, <2>3, <3>2, <4>1 DEF Replaces
    <3> QED BY <3>1, <3>2
  <2>4. Tally(work) => Tally(work)' BY TallyKept DEF Tally
  <2>5. \A c \in Cases : Mixed(r)'[c] = Mixed(r)[c] BY <2>1 DEF Mixed
  <2>6. Tally(Mixed(r)) => Tally(Mixed(r))'
    <3> HIDE DEF Mixed
    <3> QED BY <2>5, TallyKept DEF Tally
  <2> QED BY <2>1, <2>2, <2>3, <2>4, <2>6 DEF CountStage, Counting
<1> QED BY <1>3, <1>4, <1>5, <1>6, NotCounting

\* What a holder can use.
LEMMA CountStageOf ==
    ASSUME IndexInv, CountInv, NEW s \in Servers, happened \subseteq Untouched
    PROVE  /\ CountStage(s)
           /\ op[s].at \in Holding \ Ahead => Tally(head)
<1>1. op[s].at \in Holding \ Ahead => Level BY HolderIsAlone DEF Level, Ahead, Holding
<1> QED BY <1>1 DEF CountInv

LEMMA BeginMutationCounts ==
    ASSUME IndexInv, TypeInv, CountInv, NEW s \in Servers, BeginMutation(s)
    PROVE  CountInv'
<1>1. op[s].at = "begin" /\ UNCHANGED trees /\ stats' = stats /\ happened' = happened
  BY DEF BeginMutation, At
<1>2. /\ op' = [op EXCEPT ![s] = op'[s]] /\ \A part \in Parts \ {"at", "old"} : op'[s][part] = op[s][part]
      /\ \/ op'[s].at = "unlock"
         \/ Clean /\ op'[s].at = IF op[s].kind = "drain" THEN "schema" ELSE "write"
      /\ OpOK(op'[s])
  BY BeginFacts
<1>3. CASE op'[s].at = "unlock" BY <1>1, <1>2, <1>3, OutsiderCounts DEF trees, Counting
<1>4. CASE Clean /\ op'[s].at = IF op[s].kind = "drain" THEN "schema" ELSE "write"
  <2>1. \A c \in Cases : work[c] = staged[c] /\ staged[c] = head[c] BY <1>4, CleanTrees DEF Paths
  <2>2. op'[s].kind = op[s].kind /\ op'[s].case = op[s].case BY <1>2 DEF Parts
  <2>3. op[s].kind # "drain" => op'[s].old = head[op[s].case]
    <3>1. ASSUME op[s].kind # "drain" PROVE op'[s].old = work[op[s].case] /\ op[s].case \in Cases
      <4>1. op = [r \in Servers |-> op[r]] /\ OpOK(op[s]) BY DEF IndexInv, Shape
      <4>2. op[s].case \in Cases BY <1>1, <3>1, <4>1 DEF OpOK
      <4>3. op'[s].at = "write" BY <1>4, <3>1
      <4>4. ~Goto(s, "unlock") BY <1>1, <4>3, GotoFacts
      <4>5. PICK at : op' = [op EXCEPT ![s].at = at, ![s].old = work[op[s].case]]
        BY <3>1, <4>4 DEF BeginMutation
      <4>6. op'[s] = [op[s] EXCEPT !.at = at, !.old = work[op[s].case]] BY <4>1, <4>5
      <4>7. op'[s].old = work[op[s].case]
        <5>1. "old" \in Parts BY DEF Parts
        <5> QED BY <4>1, <4>6, <5>1 DEF OpOK
      <4> QED BY <4>2, <4>7
    <3> QED BY <2>1, <3>1
  <2>4. CountStage(s)' BY <1>1, <1>4, <2>1, <2>2, <2>3 DEF CountStage, Replaces, Counting, trees
  <2>5. happened \subseteq Untouched => Tally(head)' BY <1>1, CountStageOf DEF Tally, trees, Holding, Ahead
  <2> QED BY <1>1, <1>2, <2>4, <2>5, HolderCounts DEF Holding
<1> QED BY <1>2, <1>3, <1>4

LEMMA WriteCaseCounts ==
    ASSUME IndexInv, TypeInv, CountInv, NEW s \in Servers, WriteCase(s)
    PROVE  CountInv'
<1>1. /\ op[s].at = "write" /\ UNCHANGED <<staged, head, stats, happened>>
      /\ op' = [op EXCEPT ![s].at = "index", ![s].todo = {op[s].case}]
  BY DEF WriteCase, At
<1>2. OpOK(op[s]) /\ op[s].kind # "drain" /\ op[s].case \in Cases BY <1>1 DEF IndexInv, Shape, OpOK
<1>3. /\ op' = [op EXCEPT ![s] = op'[s]] /\ op'[s].at = "index" /\ op'[s].todo = {op[s].case}
      /\ op'[s].kind = op[s].kind /\ op'[s].case = op[s].case /\ op'[s].old = op[s].old
      /\ Registered(s)' = Registered(s)
  BY <1>1, <1>2, ToIndexFacts DEF Parts
<1>4. Written(s)' = {op[s].case} BY <1>2, <1>3 DEF Written, Registered
<1>5. ASSUME happened \subseteq Untouched PROVE CountStage(s)' /\ Tally(head)'
  <2>1. CountStage(s) /\ Tally(head) BY <1>1, <1>5, CountStageOf DEF Holding, Ahead
  <2>2. Tally(head)' BY <1>1, <2>1 DEF Tally
  <2>3. CountStage(s)' BY <1>1, <1>2, <1>3, <1>4, <2>1 DEF CountStage, Replaces, Counting
  <2> QED BY <2>2, <2>3
<1> QED BY <1>1, <1>3, <1>5, HolderCounts DEF Holding

\* The files a drain rewrites keep their profiles.
LEMMA DrainReplaces ==
    ASSUME NEW s, Replaces(s), op[s].kind = "drain", op'[s].kind = op[s].kind,
           op'[s].changes = op[s].changes, head' = head,
           \A c \in DOMAIN op[s].changes : work[c] # Absent => work'[c] # Absent /\ work'[c].profile = work[c].profile
    PROVE  Replaces(s)'
BY DEF Replaces

\* A plan that is still valid changes the facets it found, which are those of HEAD.
LEMMA SaveSchemaCounts ==
    ASSUME IndexInv, TypeInv, CountInv, NEW s \in Servers, SaveSchema(s)
    PROVE  CountInv'
<1>1. op[s].at = "schema" /\ UNCHANGED <<staged, head, stats, happened>> BY DEF SaveSchema, At
<1>2. work = [p \in Paths |-> work[p]] /\ op[s].kind = "drain" /\ DOMAIN op[s].changes \subseteq Cases
  BY <1>1 DEF IndexInv, Shape, OpOK
<1>3. happened \subseteq Untouched => CountStage(s) /\ Tally(head) /\ Tally(head)'
  BY <1>1, CountStageOf DEF Holding, Ahead, Tally
<1>4. CASE Goto(s, "rollback")
  <2>1. op' = [op EXCEPT ![s] = op'[s]] /\ op'[s].at = "rollback" BY <1>1, <1>4, GotoFacts
  <2> QED BY <1>1, <1>3, <2>1, HolderCounts DEF Holding, Counting
<1>5. CASE /\ ~Unplanned(s) /\ Goto(s, "changes")
           /\ work' = IF op[s].schema \in {Absent, work[SchemaFile].schema} THEN work
                      ELSE [work EXCEPT ![SchemaFile] = SchemaDoc(op[s].schema, op[s].n)]
  <2>1. \A c \in Cases : work'[c] = work[c] BY <1>2, <1>5 DEF Paths
  <2>2. /\ op' = [op EXCEPT ![s] = op'[s]] /\ op'[s].at = "changes"
        /\ op'[s].kind = op[s].kind /\ op'[s].changes = op[s].changes
    BY <1>1, <1>2, <1>5, GotoFacts DEF Parts
  <2>3. ASSUME CountStage(s) PROVE CountStage(s)'
    <3>1. \A c \in Cases : work[c] = head[c] /\ staged[c] = head[c] BY <1>1, <2>3 DEF CountStage, Counting
    <3>2. \A c \in DOMAIN op[s].changes : c \in Cases /\ work[c] # Absent /\ work[c].facets = op[s].changes[c].before
      BY <1>2, <1>5 DEF Unplanned
    <3>3. Replaces(s) BY <1>2, <3>1, <3>2 DEF Replaces
    <3>4. Replaces(s)' BY <1>1, <1>2, <2>1, <2>2, <3>3, DrainReplaces
    <3> QED BY <1>1, <2>2, <3>1, <3>4 DEF CountStage, Counting
  <2> QED BY <1>1, <1>3, <2>2, <2>3, HolderCounts DEF Holding
<1> QED BY <1>4, <1>5 DEF SaveSchema

LEMMA WriteChangeCounts ==
    ASSUME IndexInv, TypeInv, CountInv, NEW s \in Servers, WriteChange(s)
    PROVE  CountInv'
<1>1. op[s].at = "changes" /\ UNCHANGED <<staged, head, stats, happened>> BY DEF WriteChange, At
<1>2. work = [p \in Paths |-> work[p]] /\ op[s].kind = "drain" /\ op[s].todo \subseteq DOMAIN op[s].changes
      /\ DOMAIN op[s].changes \subseteq Cases
  BY <1>1 DEF IndexInv, Shape, OpOK
<1>3. happened \subseteq Untouched => CountStage(s) /\ Tally(head)'
  BY <1>1, CountStageOf DEF Holding, Ahead, Tally
<1>4. ASSUME NEW c \in op[s].todo, work' = [work EXCEPT ![c].facets = op[s].changes[c].after],
             op' = [op EXCEPT ![s].todo = @ \ {c}]
      PROVE  CountInv'
  <2>1. op' = [op EXCEPT ![s].todo = op[s].todo \ {c}] /\ op[s].todo \ {c} \subseteq DOMAIN op[s].changes
    BY <1>2, <1>4
  <2>2. /\ op' = [op EXCEPT ![s] = op'[s]] /\ op'[s].at = "changes"
        /\ op'[s].kind = op[s].kind /\ op'[s].changes = op[s].changes
    BY <1>1, <1>2, <2>1, TodoFacts DEF Parts
  <2>3. c \in Cases /\ work[c] # Absent BY <1>1, <1>2 DEF TypeInv, Existing
  <2>4. work[c] \in [profile : Profiles, facets : Facets, at : Nat] /\ op[s].changes[c].after \in Facets
    BY <1>2, <2>3, DocTypes DEF TypeInv, OpTypes
  <2>5. /\ \A d \in Cases \ {c} : work'[d] = work[d]
        /\ work'[c] = [work[c] EXCEPT !.facets = op[s].changes[c].after]
    BY <1>2, <1>4, <2>3 DEF Paths
  <2>6. work'[c] \in [profile : Profiles, facets : Facets, at : Nat] /\ work'[c].profile = work[c].profile
    BY <2>4, <2>5
  <2>7. Replaces(s) => Replaces(s)'
    <3>1. work'[c] # Absent BY <2>6
    <3> QED BY <1>1, <1>2, <2>2, <2>5, <2>6, <3>1, DrainReplaces
  <2>8. CountStage(s) => CountStage(s)' BY <1>1, <2>2, <2>7 DEF CountStage, Counting
  <2> QED BY <1>1, <1>3, <2>2, <2>8, HolderCounts DEF Holding
<1>5. CASE op' = [op EXCEPT ![s].at = "index", ![s].todo = DOMAIN op[s].changes] /\ UNCHANGED work
  <2>1. /\ op' = [op EXCEPT ![s] = op'[s]] /\ op'[s].at = "index" /\ op'[s].todo = DOMAIN op[s].changes
        /\ op'[s].kind = op[s].kind /\ op'[s].changes = op[s].changes
        /\ Registered(s)' = Registered(s)
    BY <1>1, <1>5, ToIndexFacts DEF Parts
  <2>2. Written(s)' = DOMAIN op[s].changes BY <1>2, <2>1 DEF Written, Registered
  <2>3. Replaces(s) => Replaces(s)' BY <1>1, <1>2, <1>5, <2>1, DrainReplaces
  <2>4. CountStage(s) => CountStage(s)' BY <1>1, <2>1, <2>2, <2>3 DEF CountStage, Counting
  <2> QED BY <1>1, <1>3, <2>1, <2>4, HolderCounts DEF Holding
<1> QED BY <1>4, <1>5 DEF WriteChange

\* The statistics count HEAD: that is what they count before the first
\* observation of the todo is replaced.
LEMMA RefreshIndexesCounts ==
    ASSUME IndexInv, TypeInv, CountInv, NEW s \in Servers, RefreshIndexes(s)
    PROVE  CountInv'
<1>1. /\ op[s].at = "index" /\ UNCHANGED <<staged, head, stats, happened>> /\ Goto(s, "stats")
      /\ work' = [work EXCEPT ![IndexFile] = IndexDoc(work, op[s].n)]
  BY DEF RefreshIndexes, At
<1>2. /\ work = [p \in Paths |-> work[p]] /\ OpOK(op[s])
      /\ \A c \in Cases \ Registered(s) : work[c] = staged[c]
  BY <1>1 DEF IndexInv, Shape, Knows, Editing
<1>3. \A c \in Cases : work'[c] = work[c] BY <1>1, <1>2 DEF Paths
<1>4. /\ op' = [op EXCEPT ![s] = op'[s]] /\ op'[s].at = "stats" /\ op'[s].todo = op[s].todo
      /\ op'[s].kind = op[s].kind /\ op'[s].changes = op[s].changes /\ op'[s].case = op[s].case
      /\ op'[s].old = op[s].old /\ Registered(s)' = Registered(s)
  BY <1>1, GotoFacts DEF Parts
<1>5. ASSUME happened \subseteq Untouched PROVE CountStage(s)'
  <2>1. CountStage(s) /\ Tally(head) BY <1>1, <1>5, CountStageOf DEF Holding, Ahead
  <2>2. Replaces(s)'
    <3>1. Replaces(s) BY <1>1, <2>1 DEF CountStage
    <3>2. CASE op[s].kind = "drain"
      <4>1. DOMAIN op[s].changes \subseteq Cases BY <1>2 DEF OpOK
      <4> QED BY <1>1, <1>3, <1>4, <3>1, <3>2, <4>1 DEF Replaces
    <3>3. CASE op[s].kind # "drain" BY <1>1, <1>4, <3>1, <3>3 DEF Replaces
    <3> QED BY <3>2, <3>3
  <2>3. op[s].todo = Written(s) /\ Written(s)' = Written(s) /\ \A c \in Cases : staged[c] = head[c]
    BY <1>1, <1>4, <2>1 DEF CountStage, Written, Counting
  <2>4. \A c \in Cases : Mixed(s)'[c] = head[c] BY <1>1, <1>2, <1>3, <1>4, <2>3 DEF Mixed, Written
  <2>5. Tally(Mixed(s))'
    <3> HIDE DEF Mixed
    <3> QED BY <1>1, <2>1, <2>4, TallyKept DEF Tally
  <2> QED BY <1>1, <1>4, <2>2, <2>3, <2>5 DEF CountStage, Counting
<1> QED BY <1>1, <1>4, <1>5, HolderCounts DEF Holding, Ahead

\* An observation is replaced, the one of HEAD by the one of the file.
LEMMA ReplaceObservationCounts ==
    ASSUME IndexInv, TypeInv, CountInv, NEW s \in Servers, ReplaceObservation(s)
    PROVE  CountInv'
<1>1. op[s].at = "stats" /\ UNCHANGED trees /\ happened' = happened BY DEF ReplaceObservation, At
<1>2. OpOK(op[s]) BY DEF IndexInv, Shape
<1>3. ASSUME happened \subseteq Untouched
      PROVE  /\ \A c \in Cases : staged[c] = head[c]
             /\ Replaces(s) /\ op[s].todo \subseteq Written(s) /\ Tally(Mixed(s))
  BY <1>1, <1>3, CountStageOf DEF CountStage, Counting
<1>4. CASE op[s].todo = {} /\ Goto(s, "add") /\ UNCHANGED stats
  <2>1. op' = [op EXCEPT ![s] = op'[s]] /\ op'[s].at = "add" BY <1>1, <1>4, GotoFacts
  <2>2. ASSUME happened \subseteq Untouched PROVE CountStage(s)'
    <3>1. \A c \in Cases : work'[c] = Mixed(s)[c] BY <1>1, <1>4 DEF Mixed, trees
    <3>2. Tally(work)' BY <1>3, <1>4, <2>2, <3>1, TallyKept DEF Tally
    <3> QED BY <1>1, <1>3, <2>1, <2>2, <3>2 DEF CountStage, Counting, trees
  <2> QED BY <1>1, <2>1, <2>2, HolderCounts DEF Holding, Ahead
<1>5. ASSUME NEW c \in op[s].todo, stats' = AddTo(RemoveFrom(stats, OldDoc(s, c)), work[c]),
             op' = [op EXCEPT ![s].todo = @ \ {c}]
      PROVE  CountInv'
  <2>1. op' = [op EXCEPT ![s].todo = op[s].todo \ {c}] BY <1>5
  <2>2. op[s].kind = "drain" => op[s].todo \ {c} \subseteq DOMAIN op[s].changes BY <1>2 DEF OpOK
  <2>3. /\ op' = [op EXCEPT ![s] = op'[s]] /\ op'[s].at = "stats" /\ op'[s].todo = op[s].todo \ {c}
        /\ op'[s].kind = op[s].kind /\ op'[s].changes = op[s].changes /\ op'[s].case = op[s].case
        /\ op'[s].old = op[s].old /\ Registered(s)' = Registered(s)
    BY <1>1, <2>1, <2>2, TodoFacts DEF Parts
  <2>4. ASSUME happened \subseteq Untouched PROVE CountStage(s)'
    <3>1. Replaces(s)' BY <1>1, <1>2, <1>3, <2>3, <2>4 DEF Replaces, trees
    <3>2. op'[s].todo \subseteq Written(s)' BY <1>3, <2>3, <2>4 DEF Written
    <3>3. c \in Cases /\ c \in Written(s) BY <1>3, <2>4 DEF Written
    <3> DEFINE tree == Mixed(s)
               other == Mixed(s)'
    <3>4. /\ tree[c] = head[c] /\ other[c] = work[c]
          /\ \A d \in Cases \ {c} : other[d] = tree[d]
      BY <1>1, <2>3, <3>3 DEF Mixed, trees
    <3>5. /\ OldDoc(s, c) = Absent <=> head[c] = Absent
          /\ head[c] # Absent => /\ Observation(OldDoc(s, c)) = Observation(head[c])
                                 /\ Observation(head[c]) \in Observations
          /\ work[c] # Absent => Observation(work[c]) \in Observations
      <4>1. /\ head[c] # Absent => head[c] \in [profile : Profiles, facets : Facets, at : Nat]
            /\ work[c] # Absent => work[c] \in [profile : Profiles, facets : Facets, at : Nat]
        BY <3>3 DEF TypeInv, TypeOK, TreeOK, Docs
      <4>2. /\ head[c] # Absent => Observation(head[c]) \in Observations
            /\ work[c] # Absent => Observation(work[c]) \in Observations
        BY <4>1 DEF Observation, Observations
      <4>3. CASE op[s].kind = "drain"
        <5>1. /\ head[c] # Absent /\ work[c] # Absent /\ head[c].facets = op[s].changes[c].before
              /\ work[c].profile = head[c].profile
          BY <1>2, <1>3, <2>4, <4>3 DEF Replaces, OpOK
        <5>2. OldDoc(s, c) = [work[c] EXCEPT !.facets = head[c].facets] BY <4>3, <5>1 DEF OldDoc
        <5>3. /\ OldDoc(s, c) \in [profile : Profiles, facets : Facets, at : Nat]
              /\ OldDoc(s, c).profile = head[c].profile /\ OldDoc(s, c).facets = head[c].facets
          BY <4>1, <5>1, <5>2
        <5>4. OldDoc(s, c) # Absent BY <5>3
        <5> QED BY <4>2, <5>1, <5>3, <5>4 DEF Observation
      <4>4. CASE op[s].kind # "drain"
        <5>1. c = op[s].case BY <3>3, <4>4 DEF Written, Registered
        <5>2. OldDoc(s, c) = head[c] BY <1>3, <2>4, <4>4, <5>1 DEF OldDoc, Replaces
        <5> QED BY <4>2, <5>2
      <4> QED BY <4>3, <4>4
    <3>6. stats \in [Observations -> Nat] BY DEF TypeInv, TypeOK
    <3>7. Tally(tree) BY <1>3, <2>4
    <3>8. stats' = AddTo(RemoveFrom(stats, OldDoc(s, c)), other[c]) BY <1>5, <3>4
    <3> DEFINE before == OldDoc(s, c)
    <3> HIDE DEF tree, other, before
    <3>9. ASSUME NEW o \in Observations
          PROVE  IsFiniteSet(Seen(other, o)) /\ stats'[o] = Cardinality(Seen(other, o))
      <4>0. c \in Cases /\ \A d \in Cases \ {c} : other[d] = tree[d] BY <3>3, <3>4
      <4>1. /\ before = Absent <=> tree[c] = Absent
            /\ tree[c] # Absent => Observation(before) = Observation(tree[c]) /\ Observation(before) \in Observations
            /\ other[c] # Absent => Observation(other[c]) \in Observations
        BY <3>4, <3>5 DEF before
      <4>2. /\ IsFiniteSet(Seen(other, o))
            /\ AddTo(RemoveFrom(stats, before), other[c])[o] = Cardinality(Seen(other, o))
        BY ONLY <4>0, <3>6, <3>7, <4>1, o \in Observations, CountReplaced
      <4>3. stats' = AddTo(RemoveFrom(stats, before), other[c]) BY <3>8 DEF before
      <4> QED BY <4>2, <4>3
    <3>10. Tally(Mixed(s))' BY <3>9 DEF Tally, other
    <3> QED BY <1>1, <1>3, <2>3, <2>4, <3>1, <3>2, <3>10 DEF CountStage, Counting, trees
  <2> QED BY <1>1, <2>3, <2>4, HolderCounts DEF Holding, Ahead
<1> QED BY <1>4, <1>5 DEF ReplaceObservation

LEMMA GitAddCounts ==
    ASSUME IndexInv, TypeInv, CountInv, NEW s \in Servers, GitAdd(s)
    PROVE  CountInv'
<1>1. op[s].at = "add" /\ UNCHANGED <<work, head, stats, happened>> /\ Goto(s, "commit") BY DEF GitAdd, At
<1>2. op' = [op EXCEPT ![s] = op'[s]] /\ op'[s].at = "commit" BY <1>1, GotoFacts
<1>3. \A c \in Cases : staged'[c] = work'[c] BY <1>1, AddFacts
<1>4. happened \subseteq Untouched => Tally(work)' BY <1>1, CountStageOf DEF CountStage, Tally
<1>5. happened \subseteq Untouched => CountStage(s)' BY <1>2, <1>3, <1>4 DEF CountStage, Counting
<1> QED BY <1>1, <1>2, <1>5, HolderCounts DEF Holding, Ahead

\* HEAD catches up.
LEMMA GitCommitCounts ==
    ASSUME IndexInv, TypeInv, CountInv, NEW s \in Servers, GitCommit(s)
    PROVE  CountInv'
<1>1. op[s].at = "commit" /\ UNCHANGED <<work, staged, stats, happened>> /\ head' = staged /\ Goto(s, "unlock")
  BY DEF GitCommit, At
<1>2. op' = [op EXCEPT ![s] = op'[s]] /\ op'[s].at = "unlock" BY <1>1, GotoFacts
<1>3. ASSUME happened \subseteq Untouched PROVE Tally(head)'
  <2>1. Tally(work) /\ \A c \in Cases : head'[c] = work[c] BY <1>1, <1>3, CountStageOf DEF CountStage
  <2> QED BY <1>1, <2>1, TallyKept DEF Tally
<1> QED BY <1>1, <1>2, <1>3, HolderCounts DEF Holding, Counting

\* A commit that raises late is one all the same.
LEMMA CommitRaisesCounts ==
    ASSUME IndexInv, TypeInv, CountInv, NEW s \in Servers, CommitRaises(s)
    PROVE  CountInv'
<1>1. op[s].at = "commit" /\ UNCHANGED <<work, staged, stats>> /\ head' = staged /\ happened \subseteq happened'
  BY DEF CommitRaises, At
<1>2. op' = [op EXCEPT ![s] = op'[s]] /\ op'[s].at \in {"undo", "unlock"} BY CommitRaisesFacts
<1>3. ASSUME happened \subseteq Untouched PROVE Tally(head)'
  <2>1. Tally(work) /\ \A c \in Cases : head'[c] = work[c] BY <1>1, <1>3, CountStageOf DEF CountStage
  <2> QED BY <1>1, <2>1, TallyKept DEF Tally
<1> QED BY <1>1, <1>2, <1>3, HolderCounts DEF Holding, Counting

LEMMA RollBackCounts ==
    ASSUME IndexInv, TypeInv, CountInv, NEW s \in Servers, RollBack(s)
    PROVE  CountInv'
<1>1. op[s].at \in {"rollback", "undo"} /\ UNCHANGED <<staged, head, stats, happened>> /\ Goto(s, "unlock")
  BY DEF RollBack, At
<1>2. op' = [op EXCEPT ![s] = op'[s]] /\ op'[s].at = "unlock" BY <1>1, GotoFacts
<1>3. happened \subseteq Untouched => Tally(head)' BY <1>1, CountStageOf DEF Holding, Ahead, Tally
<1> QED BY <1>1, <1>2, <1>3, HolderCounts DEF Holding, Counting

\* An operation that raises with HEAD still counted leaves it at that.
LEMMA RaisesCounts ==
    ASSUME IndexInv, TypeInv, CountInv, NEW s \in Servers, Raises(s)
    PROVE  CountInv'
<1> DEFINE kind == IF op[s].kind = "drain" THEN "drain" ELSE "case"
<1>1. /\ op[s].at \in Holding /\ op[s].at # "done" /\ UNCHANGED trees /\ stats' = stats
      /\ happened' = happened \cup {<<kind, op[s].at>>}
      /\ op[s].at \in (IF kind = "drain" THEN DrainSteps ELSE CaseSteps)
      /\ Goto(s, IF kind = "drain" THEN "rollback" ELSE "unlock")
  BY DEF Raises, CaseSteps, DrainSteps, Holding
<1>2. op' = [op EXCEPT ![s] = op'[s]] /\ op'[s].at \in {"rollback", "unlock"}
  <2>1. PICK at \in {"rollback", "unlock"} : Goto(s, at) BY <1>1
  <2> HIDE DEF kind
  <2> QED BY <1>1, <2>1, GotoFacts
<1>3. ASSUME happened' \subseteq Untouched PROVE Tally(head)'
  <2>1. <<kind, op[s].at>> \in Untouched /\ happened \subseteq Untouched BY <1>1, <1>3
  <2>2. op[s].at \notin Ahead BY <2>1 DEF Untouched, Ahead
  <2> HIDE DEF kind
  <2>3. Tally(head) BY <1>1, <2>1, <2>2, CountStageOf
  <2> QED BY <1>1, <2>3 DEF Tally, trees
<1> HIDE DEF kind
<1> QED BY <1>1, <1>2, <1>3, HolderCounts DEF Counting

LEMMA NextCounts == IndexInv /\ TypeInv /\ CountInv /\ [Next]_vars => CountInv'
<1> SUFFICES ASSUME IndexInv, TypeInv, CountInv, [Next]_vars PROVE CountInv'
  OBVIOUS
<1>0. op = [r \in Servers |-> op[r]] /\ work = [p \in Paths |-> work[p]] BY DEF IndexInv, Shape
<1>1. ASSUME NEW s \in Servers, Step(s) PROVE CountInv'
  <2>1. CASE Unlock(s)
    <3>1. op[s].at = "unlock" /\ UNCHANGED <<trees, stats, happened>> /\ op' = [op EXCEPT ![s] = NoOp]
      BY <2>1 DEF Unlock, At
    <3>2. op'[s] = NoOp /\ NoOp.at = "done" BY <1>0, <3>1 DEF NoOp
    <3>3. op' = [op EXCEPT ![s] = op'[s]] /\ op'[s].at = "done" BY <3>1, <3>2
    <3> QED BY <3>1, <3>3, OutsiderCounts DEF trees, Counting
  <2> QED
    BY <1>1, <2>1, BeginMutationCounts, WriteCaseCounts, SaveSchemaCounts, WriteChangeCounts, RefreshIndexesCounts,
       ReplaceObservationCounts, GitAddCounts, GitCommitCounts, RollBackCounts
       DEF Step
<1>2. ASSUME NEW s \in Servers, NEW o, Begin(s, o), o.at \in {"lock", "governing"} PROVE CountInv'
  <2>1. /\ op' = [op EXCEPT ![s] = op'[s]] /\ op'[s].at = o.at /\ op[s] = NoOp
        /\ UNCHANGED <<trees, stats, happened>>
    BY <1>0, <1>2 DEF Begin
  <2>2. NoOp.at = "done" BY DEF NoOp
  <2>3. op[s].at = "done" BY <2>1, <2>2
  <2> QED BY <1>2, <2>1, <2>3, OutsiderCounts DEF trees, Counting
<1>3. ASSUME NEW s \in Servers,
             \/ \E c \in Cases, f \in Profiles : Ingest(s, c, f) \/ Update(s, c, f)
             \/ \E c \in Cases : Delete(s, c)
      PROVE  CountInv'
  <2>1. \A c, f, kind : CaseOp(kind, c, f).at = "lock" BY DEF CaseOp, NoOp
  <2> QED BY <1>2, <1>3, <2>1 DEF Ingest, Update, Delete
<1>4. ASSUME NEW s \in Servers, StartDrain(s) PROVE CountInv'
  <2> DEFINE o == [NoOp EXCEPT !.kind = "drain", !.n = ops + 1, !.at = "governing"]
  <2>1. o.at = "governing" BY DEF NoOp
  <2>2. Begin(s, o) BY <1>4 DEF StartDrain
  <2> HIDE DEF o
  <2> QED BY <1>2, <2>1, <2>2
<1>5. ASSUME NEW s \in Servers, NEW k, Govern(s, k) PROVE CountInv'
  <2>1. op' = [op EXCEPT ![s] = op'[s]] /\ op'[s].at = "lock" BY <1>5, GovernFacts
  <2>2. op[s].at = "governing" /\ UNCHANGED <<trees, stats, happened>> BY <1>5 DEF Govern
  <2> QED BY <2>1, <2>2, OutsiderCounts DEF trees, Counting
<1>6. ASSUME NEW s \in Servers, Acquire(s) PROVE CountInv'
  <2>1. op[s].at = "lock" /\ Goto(s, "begin") /\ UNCHANGED <<trees, stats, happened>> BY <1>6 DEF Acquire, At
  <2>2. op' = [op EXCEPT ![s] = op'[s]] /\ op'[s].at = "begin" BY <2>1, GotoFacts
  <2> QED BY <2>1, <2>2, OutsiderCounts DEF trees, Counting
<1>7. ASSUME NEW s \in Servers, Crash(s) PROVE CountInv'
  <2>1. <<"server", "crash">> \notin Untouched BY DEF Untouched
  <2> QED BY <1>7, <2>1 DEF Crash, CountInv
<1>8. ASSUME NEW s \in Servers, op' = op, stats' = stats, happened \subseteq happened',
             \A c \in Cases : work'[c] = work[c] /\ staged'[c] = staged[c] /\ head'[c] = head[c],
             op[s].at \notin Counting
      PROVE  CountInv'
  <2>1. op' = [op EXCEPT ![s] = op'[s]] BY <1>0, <1>8
  <2> QED BY <1>8, <2>1, OutsiderCounts
<1>9. ASSUME NEW s \in Servers, NEW k \in Schemas, PutSchema(s, k) PROVE CountInv'
  <2>1. /\ UNCHANGED <<staged, head, op, stats>> /\ happened \subseteq happened'
        /\ work' = [work EXCEPT ![SchemaFile] = SchemaDoc(k, ops + 1)]
        /\ op[s].at \in {"done", "governing"}
    BY <1>9 DEF PutSchema
  <2>2. \A c \in Cases : work'[c] = work[c] BY <1>0, <2>1 DEF Paths
  <2> QED BY <1>8, <2>1, <2>2 DEF Counting
<1>10. ASSUME UNCHANGED <<trees, stats, op, happened>> PROVE CountInv'
  <2>1. Level' => Level BY <1>10 DEF Level
  <2>2. ASSUME NEW r \in Servers, CountStage(r) PROVE CountStage(r)'
    <3>1. Written(r)' = Written(r) /\ (Replaces(r) => Replaces(r)') /\ Mixed(r)' = Mixed(r)
      BY <1>10 DEF Written, Registered, Replaces, Mixed, trees
    <3>2. (Tally(work) => Tally(work)') /\ (Tally(Mixed(r)) => Tally(Mixed(r))')
      <4> HIDE DEF Mixed
      <4> QED BY <1>10, <3>1 DEF Tally, Seen, trees
    <3> QED BY <1>10, <2>2, <3>1, <3>2 DEF CountStage, trees
  <2>3. Tally(head) => Tally(head)' BY <1>10 DEF Tally, Seen, trees
  <2>4. happened' = happened BY <1>10
  <2> QED BY <2>1, <2>2, <2>3, <2>4 DEF CountInv
<1>11. ASSUME NEW s \in Servers, Restart(s) PROVE CountInv' BY <1>10, <1>11 DEF Restart
<1>12. CASE UNCHANGED vars BY <1>10, <1>12 DEF vars, trees
<1> QED BY <1>1, <1>3, <1>4, <1>5, <1>6, <1>7, <1>9, <1>11, <1>12, RaisesCounts, CommitRaisesCounts DEF Next

\* However many servers share the workspace, and whatever raised before the
\* statistics were touched or after the commit: they count the cases of HEAD.
THEOREM StatisticsAlwaysMatchHead == Safety => []StatisticsMatchHead
<1>1. CountInv => StatisticsMatchHead
  <2>1. AtRest => Level BY DEF AtRest, Level, NoOp, Ahead
  <2>2. Untouched = {<<"case", "write">>, <<"case", "index">>, <<"case", "revision">>, <<"request", "put">>}
                    \cup ({"drain"} \X {"schema", "changes", "index", "revision"})
    BY DEF Untouched
  <2> QED BY <2>1, <2>2 DEF CountInv, StatisticsMatchHead, Tally, Seen
<1> QED BY <1>1, InitIndexed, NextIndexed, InitTyped, NextTyped, InitCounts, NextCounts, PTL DEF Safety

-----------------------------------------------------------------------------
(* Atomicity, in a workspace with one server.  A step of AtomicWorkspace is  *)
(* a commit, and a commit takes what is staged: so what is staged, and       *)
(* before that the files, has to differ from HEAD by what the operation is   *)
(* about, from the moment at which it found the three trees equal.  The plan *)
(* of a drain was made before the lock and is still the plan for the files   *)
(* found under it: nobody else writes them in between.                       *)

\* The cases that a drain gives other facets: those that are listed, if it has a
\* schema for them.
Reaches(s, tree) == IF op[s].schema = Absent THEN {} ELSE Listed(tree)

\* After the changes that are still to do, the facets of the cases it reaches are
\* those of the planned schema.
Planned(s) ==
    \A c \in Cases : work[c] # Absent =>
        IF c \in op[s].todo
        THEN c \in Reaches(s, work) /\ op[s].changes[c].after = FacetsOf(work[c].profile, op[s].schema)
        ELSE c \in Reaches(s, work) => work[c].facets = FacetsOf(work[c].profile, op[s].schema)

\* A drain changes no profile, no facets out of its reach and neither adds nor
\* removes a case.
Regroups(s, tree) ==
    /\ tree[SchemaFile].schema = IF op[s].schema = Absent THEN head[SchemaFile].schema ELSE op[s].schema
    /\ \A c \in Cases :
          /\ tree[c] = Absent <=> head[c] = Absent
          /\ head[c] # Absent => /\ tree[c].profile = head[c].profile
                                 /\ c \notin Reaches(s, head) => tree[c].facets = head[c].facets

\* When its last change is written, all within its reach have their facets.
Reached(s, tree) ==
    op[s].kind = "drain" =>
        \A c \in Reaches(s, head) : tree[c].facets = FacetsOf(tree[c].profile, op[s].schema)

\* A case operation changes its case and nothing else.
Rewrites(s, tree) ==
    /\ tree[SchemaFile].schema = head[SchemaFile].schema
    /\ \A c \in Cases \ {op[s].case} : tree[c] = head[c]
    /\ IF op[s].kind = "delete" THEN tree[op[s].case] = Absent
       ELSE /\ tree[op[s].case] # Absent /\ tree[op[s].case].profile = op[s].profile
            /\ tree[op[s].case].facets = FacetsOf(op[s].profile, head[SchemaFile].schema)

IsNext(s, tree) == IF op[s].kind = "drain" THEN Regroups(s, tree) ELSE Rewrites(s, tree)

\* An input is about a case that no revision has, the others about one of HEAD.
Target(s) ==
    /\ op[s].kind = "ingest" /\ op[s].at \in {"lock", "begin"} => head[op[s].case] = Absent
    /\ op[s].kind # "drain" /\ op[s].at \in {"write", "index", "stats", "add", "commit"} =>
          (op[s].kind = "ingest" <=> head[op[s].case] = Absent)

AtomicStage(s) ==
    /\ op[s].at # "done" => op[s].kind \in {"ingest", "update", "delete", "drain"}
    /\ Target(s)
    /\ op[s].at \in {"write", "schema"} => Clean
    /\ op[s].kind = "drain" /\ op[s].at \in {"lock", "begin", "schema", "changes"} => Planned(s)
    /\ op[s].at \in {"changes", "index", "stats", "add"} =>
          IsNext(s, work) /\ \A p \in Paths : staged[p] = head[p]
    /\ op[s].at \in {"index", "stats", "add"} => Reached(s, work)
    /\ op[s].at = "commit" => IsNext(s, staged) /\ Reached(s, staged)

AtomicInv == \A s \in Servers : AtomicStage(s)

LEMMA InitAtomic == Init => AtomicInv
BY DEF Init, NoOp, AtomicInv, AtomicStage, Target

\* The parts of an operation that do not change on its way.
Going(s) ==
    /\ op'[s].kind = op[s].kind /\ op'[s].case = op[s].case /\ op'[s].profile = op[s].profile
    /\ op'[s].schema = op[s].schema /\ op'[s].changes = op[s].changes
    /\ op[s].at # "done"

LEMMA GoingOn ==
    ASSUME NEW s, op[s].at # "done", \A part \in Parts \ {"at", "todo", "old"} : op'[s][part] = op[s][part]
    PROVE  Going(s)
BY DEF Going, Parts

\* What is said of two trees that agree on cases and schema is the same.
LEMMA IsNextKept ==
    ASSUME NEW s, OpOK(op[s]), Going(s), NEW tree, NEW other, IsNext(s, tree), head' = head,
           \A c \in Cases : other[c] = tree[c], other[SchemaFile].schema = tree[SchemaFile].schema
    PROVE  /\ op[s].kind = "drain" =>
                 /\ other[SchemaFile].schema =
                        IF op'[s].schema = Absent THEN head'[SchemaFile].schema ELSE op'[s].schema
                 /\ \A c \in Cases :
                       /\ other[c] = Absent <=> head'[c] = Absent
                       /\ head'[c] # Absent =>
                             /\ other[c].profile = head'[c].profile
                             /\ c \notin Reaches(s, head)' => other[c].facets = head'[c].facets
           /\ op[s].kind # "drain" =>
                 /\ other[SchemaFile].schema = head'[SchemaFile].schema
                 /\ \A c \in Cases \ {op'[s].case} : other[c] = head'[c]
                 /\ IF op'[s].kind = "delete" THEN other[op'[s].case] = Absent
                    ELSE /\ other[op'[s].case] # Absent /\ other[op'[s].case].profile = op'[s].profile
                         /\ other[op'[s].case].facets = FacetsOf(op'[s].profile, head'[SchemaFile].schema)
<1>1. op[s].kind # "drain" => op[s].case \in Cases BY DEF OpOK, Going
<1>2. Reaches(s, head)' = Reaches(s, head) BY DEF Reaches, Going
<1>3. CASE op[s].kind = "drain" BY <1>2, <1>3 DEF IsNext, Regroups, Going
<1>4. CASE op[s].kind # "drain" BY <1>1, <1>4 DEF IsNext, Rewrites, Going
<1> QED BY <1>3, <1>4

\* What the target was it is, while HEAD stays.
LEMMA TargetKept ==
    ASSUME NEW s, AtomicStage(s), Going(s), head' = head,
           op[s].at \in {"write", "index", "stats", "add"},
           op'[s].at \in {"write", "index", "stats", "add", "commit", "unlock", "rollback"}
    PROVE  Target(s)'
BY DEF AtomicStage, Target, Going

\* A plan stays one while the cases and what is still to do of it do.
LEMMA PlannedKept ==
    ASSUME NEW s, Planned(s), Going(s), op'[s].todo = op[s].todo, \A c \in Cases : work'[c] = work[c]
    PROVE  Planned(s)'
<1>1. Listed(work') = Listed(work) BY ListedSame
<1>2. Reaches(s, work)' = Reaches(s, work) BY <1>1 DEF Reaches, Going
<1> QED BY <1>2 DEF Planned, Going

\* The plan is made for the files of now.
LEMMA GovernAtomic ==
    ASSUME NEW s \in Servers, IndexInv, AtomicInv, NEW k, Govern(s, k)
    PROVE  AtomicStage(s)'
<1>1. work' = work BY DEF Govern, trees
<1>2. /\ op'[s].kind = "drain" /\ op'[s].schema = k /\ op'[s].at = "lock"
      /\ op'[s].changes = IF k = Absent THEN NoChanges ELSE Plan(k)
      /\ op'[s].todo = DOMAIN op'[s].changes
  BY GovernFacts
<1>3. CASE k = Absent
  <2>1. op'[s].todo = {} BY <1>2, <1>3 DEF NoChanges
  <2>2. Reaches(s, work)' = {} BY <1>2, <1>3 DEF Reaches
  <2>3. Planned(s)' BY <2>1, <2>2 DEF Planned
  <2> QED BY <1>2, <2>3 DEF AtomicStage, Target
<1>4. CASE k # Absent
  <2>1. op'[s].changes = [c \in ToChange(k) |-> [before |-> work[c].facets, after |-> FacetsOf(work[c].profile, k)]]
    BY <1>2, <1>4 DEF Plan, FacetsOf
  <2>2. op'[s].todo = ToChange(k) /\ \A c \in ToChange(k) : op'[s].changes[c].after = FacetsOf(work[c].profile, k)
    BY <1>2, <2>1
  <2>3. Reaches(s, work)' = Listed(work) BY <1>1, <1>2, <1>4 DEF Reaches
  <2>4. \A c \in Listed(work) : c \in ToChange(k) <=> work[c].facets # FacetsOf(work[c].profile, k)
    BY DEF ToChange, FacetsOf
  <2>5. ToChange(k) \subseteq Listed(work) BY DEF ToChange
  <2>6. Planned(s)' BY <1>1, <1>2, <2>2, <2>3, <2>4, <2>5 DEF Planned
  <2> QED BY <1>2, <2>6 DEF AtomicStage, Target
<1> QED BY <1>3, <1>4

LEMMA AcquireAtomic ==
    ASSUME NEW s \in Servers, IndexInv, AtomicInv, Acquire(s)
    PROVE  AtomicStage(s)'
<1>1. op[s].at = "lock" /\ Goto(s, "begin") /\ UNCHANGED trees BY DEF Acquire, At
<1>2. op'[s].at = "begin" /\ Going(s) /\ op'[s].todo = op[s].todo BY <1>1, GotoFacts, GoingOn DEF Parts
<1>3. Planned(s) => Planned(s)' BY <1>1, <1>2, PlannedKept DEF trees
<1> QED BY <1>1, <1>2, <1>3 DEF AtomicInv, AtomicStage, Target, Going, trees

LEMMA BeginAtomic ==
    ASSUME NEW s \in Servers, IndexInv, AtomicInv, BeginMutation(s)
    PROVE  AtomicStage(s)'
<1>1. op[s].at = "begin" /\ UNCHANGED trees BY DEF BeginMutation, At
<1>2. Going(s) /\ op'[s].todo = op[s].todo BY <1>1, BeginFacts, GoingOn DEF Parts
<1>3. CASE op'[s].at = "unlock" BY <1>1, <1>2, <1>3 DEF AtomicInv, AtomicStage, Target, Going
<1>4. CASE op'[s].at # "unlock"
  <2>1. Clean /\ op'[s].at = IF op[s].kind = "drain" THEN "schema" ELSE "write" BY <1>4, BeginFacts
  <2>2. Clean' BY <1>1, <2>1, CleanTrees, CleanTreesNext DEF trees
  <2>3. op[s].kind \in {"update", "delete"} => work[op[s].case] # Absent
    <3>1. ~Goto(s, "unlock") BY <1>1, <1>4, GotoFacts
    <3> QED BY <3>1 DEF BeginMutation
  <2>4. op[s].kind # "drain" => op[s].case \in Cases BY <1>1 DEF IndexInv, Shape, OpOK
  <2>5. op[s].kind # "drain" => work[op[s].case] = head[op[s].case] BY <2>1, <2>4, CleanTrees DEF Paths
  <2>6. Target(s)' BY <1>1, <1>2, <2>1, <2>3, <2>5 DEF AtomicInv, AtomicStage, Target, Going, trees
  <2>7. Planned(s) => Planned(s)' BY <1>1, <1>2, PlannedKept DEF trees
  <2> QED BY <1>1, <1>2, <2>1, <2>2, <2>6, <2>7 DEF AtomicInv, AtomicStage, Going
<1> QED BY <1>3, <1>4

\* A written case differs from HEAD by the operation: the trees were equal.
LEMMA WriteCaseAtomic ==
    ASSUME NEW s \in Servers, IndexInv, TypeInv, AtomicInv, WriteCase(s)
    PROVE  AtomicStage(s)'
<1> DEFINE o == op[s]
           doc == IF o.kind = "delete" THEN Absent ELSE Doc(o.profile, FacetsOf(o.profile, work[SchemaFile].schema), o.n)
<1>1. /\ o.at = "write" /\ UNCHANGED <<staged, head>> /\ op' = [op EXCEPT ![s].at = "index", ![s].todo = {o.case}]
      /\ work' = [work EXCEPT ![o.case] = doc]
  BY DEF WriteCase, At, FacetsOf
<1>2. work = [p \in Paths |-> work[p]] /\ OpOK(o) /\ o.kind # "drain" /\ o.case \in Cases
  BY <1>1 DEF IndexInv, Shape, OpOK
<1>3. op'[s].at = "index" /\ Going(s) BY <1>1, <1>2, ToIndexFacts, GoingOn
<1>4. Target(s)' BY <1>1, <1>3, TargetKept DEF AtomicInv
<1>5. Clean BY <1>1 DEF AtomicInv, AtomicStage
<1>6. \A p \in Paths : work[p] = head[p] /\ staged[p] = head[p] BY <1>5, CleanTrees
<1>7. /\ \A c \in Cases \ {o.case} : work'[c] = work[c]
      /\ work'[SchemaFile] = work[SchemaFile] /\ work'[o.case] = doc
  <2> HIDE DEF doc
  <2> QED BY <1>1, <1>2 DEF Paths
<1>8. IF o.kind = "delete" THEN doc = Absent
      ELSE doc.profile = o.profile /\ doc.facets = FacetsOf(o.profile, work[SchemaFile].schema)
  BY DEF Doc
<1>9. o.kind # "delete" => doc # Absent
  <2>1. o.profile \in Profiles /\ o.n \in Nat BY <1>1, <1>2 DEF TypeInv, OpTypes
  <2>2. work[SchemaFile].schema \in Schemas BY DEF TypeInv, TypeOK, TreeOK
  <2>3. FacetsOf(o.profile, work[SchemaFile].schema) \in Facets BY <2>1, <2>2, ProjectType
  <2>4. Doc(o.profile, FacetsOf(o.profile, work[SchemaFile].schema), o.n)
          \in [profile : Profiles, facets : Facets, at : Nat]
    BY <2>1, <2>3 DEF Doc
  <2> QED BY <2>4
<1> HIDE DEF doc
<1>10. Rewrites(s, work)' BY <1>1, <1>3, <1>6, <1>7, <1>8, <1>9 DEF Rewrites, Going, Paths
<1> QED BY <1>1, <1>2, <1>3, <1>4, <1>6, <1>10 DEF AtomicInv, AtomicStage, IsNext, Reached, Going

LEMMA SaveSchemaAtomic ==
    ASSUME NEW s \in Servers, IndexInv, AtomicInv, SaveSchema(s)
    PROVE  AtomicStage(s)'
<1>1. op[s].at = "schema" /\ UNCHANGED <<staged, head>> BY DEF SaveSchema, At
<1>2. work = [p \in Paths |-> work[p]] /\ op[s].kind = "drain" BY <1>1 DEF IndexInv, Shape, OpOK
<1>3. Clean BY <1>1 DEF AtomicInv, AtomicStage
<1>4. \A p \in Paths : work[p] = head[p] /\ staged[p] = head[p] BY <1>3, CleanTrees
<1>5. CASE Goto(s, "rollback")
  <2>1. op'[s].at = "rollback" /\ Going(s) BY <1>1, <1>5, GotoFacts, GoingOn
  <2> QED BY <1>2, <2>1 DEF AtomicInv, AtomicStage, Target, Going
<1>6. CASE /\ Goto(s, "changes")
           /\ work' = IF op[s].schema \in {Absent, work[SchemaFile].schema} THEN work
                      ELSE [work EXCEPT ![SchemaFile] = SchemaDoc(op[s].schema, op[s].n)]
  <2>1. op'[s].at = "changes" /\ Going(s) /\ op'[s].todo = op[s].todo
    BY <1>1, <1>2, <1>6, GotoFacts, GoingOn DEF Parts
  <2>2. \A c \in Cases : work'[c] = work[c] BY <1>2, <1>6 DEF Paths
  <2>3. work'[SchemaFile].schema = IF op[s].schema = Absent THEN head[SchemaFile].schema ELSE op[s].schema
    BY <1>2, <1>4, <1>6 DEF Paths, SchemaDoc
  <2>4. Planned(s)' BY <1>1, <1>2, <2>1, <2>2, PlannedKept DEF AtomicInv, AtomicStage
  <2>5. \A c \in Cases : work'[c] = head'[c] BY <1>1, <1>4, <2>2 DEF Paths
  <2>6. Regroups(s, work)' BY <1>1, <2>1, <2>3, <2>5 DEF Regroups, Going
  <2>7. Target(s)' BY <1>2, <2>1 DEF Target, Going
  <2> QED BY <1>1, <1>2, <1>4, <2>1, <2>4, <2>6, <2>7 DEF AtomicStage, IsNext, Going
<1> QED BY <1>5, <1>6 DEF SaveSchema

\* A change keeps the profile of its case and gives it the facets of the planned
\* schema; when the last one is written, all within reach have them.
LEMMA WriteChangeAtomic ==
    ASSUME NEW s \in Servers, IndexInv, TypeInv, AtomicInv, WriteChange(s)
    PROVE  AtomicStage(s)'
<1>1. op[s].at = "changes" /\ UNCHANGED <<staged, head>> BY DEF WriteChange, At
<1>2. work = [p \in Paths |-> work[p]] /\ OpOK(op[s]) /\ op[s].kind = "drain"
  BY <1>1 DEF IndexInv, Shape, OpOK
<1>3. Regroups(s, work) /\ Planned(s) /\ \A p \in Paths : staged[p] = head[p]
  BY <1>1, <1>2 DEF AtomicInv, AtomicStage, IsNext
<1>4. Reaches(s, work) = Reaches(s, head)
  <2>1. Listed(work) = Listed(head) BY <1>3, ListedSame DEF Regroups
  <2> QED BY <2>1 DEF Reaches
<1>5. ASSUME Going(s), Regroups(s, work)',
             \/ op'[s].at = "changes" /\ Planned(s)'
             \/ op'[s].at = "index" /\ Reached(s, work)'
      PROVE  AtomicStage(s)'
  <2>1. Target(s)' BY <1>2, <1>5 DEF Target, Going
  <2> QED BY <1>1, <1>2, <1>3, <1>5, <2>1 DEF AtomicStage, IsNext, Going
<1>6. ASSUME NEW c \in op[s].todo, work' = [work EXCEPT ![c].facets = op[s].changes[c].after],
             op' = [op EXCEPT ![s].todo = @ \ {c}]
      PROVE  AtomicStage(s)'
  <2>1. c \in Cases /\ op[s].todo \ {c} \subseteq DOMAIN op[s].changes BY <1>2 DEF OpOK
  <2>2. op' = [op EXCEPT ![s].todo = op[s].todo \ {c}] BY <1>6
  <2>3. op'[s].at = "changes" /\ Going(s) /\ op'[s].todo = op[s].todo \ {c}
    <3>1. op'[s].todo = op[s].todo \ {c} /\ \A part \in Parts \ {"todo"} : op'[s][part] = op[s][part]
      BY <2>1, <2>2, TodoFacts
    <3> QED BY <1>1, <3>1, GoingOn DEF Parts
  <2>4. work[c] # Absent BY <1>1 DEF TypeInv, Existing
  <2>5. work[c] \in [profile : Profiles, facets : Facets, at : Nat] BY <2>1, <2>4, DocTypes
  <2>6. op[s].changes[c].after \in Facets BY <1>2 DEF TypeInv, OpTypes, OpOK
  <2>7. /\ \A d \in Cases \ {c} : work'[d] = work[d]
        /\ work'[c] = [work[c] EXCEPT !.facets = op[s].changes[c].after]
        /\ work'[SchemaFile] = work[SchemaFile]
    BY <1>2, <1>6, <2>1 DEF Paths
  <2>8. /\ work'[c] \in [profile : Profiles, facets : Facets, at : Nat]
        /\ work'[c].profile = work[c].profile /\ work'[c].facets = op[s].changes[c].after
    BY <2>5, <2>6, <2>7
  <2>9. work'[c] # Absent BY <2>8
  <2>10. c \in Reaches(s, work) /\ op[s].changes[c].after = FacetsOf(work[c].profile, op[s].schema)
    BY <1>3, <2>1, <2>4 DEF Planned
  <2>11. Reaches(s, work)' = Reaches(s, work) /\ Reaches(s, head)' = Reaches(s, head)
    <3>1. Listed(work') = Listed(work) BY <2>4, <2>7, <2>9, ListedSame
    <3> QED BY <1>1, <2>3, <3>1 DEF Reaches, Going
  <2>12. Regroups(s, work)'
    BY <1>1, <1>3, <1>4, <2>3, <2>4, <2>7, <2>8, <2>9, <2>10, <2>11 DEF Regroups, Going
  <2>13. Planned(s)' BY <1>3, <2>3, <2>4, <2>7, <2>8, <2>9, <2>10, <2>11 DEF Planned, Going
  <2> QED BY <1>5, <2>3, <2>12, <2>13
<1>7. CASE /\ op[s].todo = {} /\ UNCHANGED work
           /\ op' = [op EXCEPT ![s].at = "index", ![s].todo = DOMAIN op[s].changes]
  <2>1. op'[s].at = "index" /\ Going(s) BY <1>1, <1>7, ToIndexFacts, GoingOn
  <2>2. Reaches(s, head)' = Reaches(s, head) BY <1>1, <2>1 DEF Reaches, Going
  <2>3. Regroups(s, work)' BY <1>1, <1>3, <1>7, <2>1, <2>2 DEF Regroups, Going
  <2>4. \A c \in Reaches(s, work) : c \in Cases /\ work[c] # Absent BY DEF Reaches, Listed
  <2>5. Reached(s, work)' BY <1>3, <1>4, <1>7, <2>1, <2>2, <2>4 DEF Reached, Planned, Going
  <2> QED BY <1>5, <2>1, <2>3, <2>5
<1> QED BY <1>6, <1>7 DEF WriteChange

\* Indexes and statistics are no part of what a revision shows of its cases.
LEMMA LaterAtomic ==
    ASSUME NEW s \in Servers, IndexInv, AtomicInv, Going(s), UNCHANGED <<staged, head>>,
           op[s].at \in {"index", "stats"}, op'[s].at \in {"stats", "add"},
           work'[SchemaFile] = work[SchemaFile], \A c \in Cases : work'[c] = work[c]
    PROVE  AtomicStage(s)'
<1>1. IsNext(s, work) /\ Reached(s, work) /\ \A p \in Paths : staged[p] = head[p]
  BY DEF AtomicInv, AtomicStage
<1>2. OpOK(op[s]) /\ op[s].at # "done" BY DEF IndexInv, Shape
<1>3. IsNext(s, work)'
  <2>1. CASE op[s].kind = "drain"
    <3>1. Regroups(s, work)' BY <1>1, <1>2, <2>1, IsNextKept DEF Regroups
    <3> QED BY <2>1, <3>1 DEF IsNext, Going
  <2>2. CASE op[s].kind # "drain"
    <3>1. op'[s].kind = op[s].kind /\ op'[s].case = op[s].case /\ op'[s].profile = op[s].profile
      BY DEF Going
    <3>2. op[s].case \in Cases BY <1>2, <2>2 DEF OpOK
    <3>3. Rewrites(s, work) BY <1>1, <2>2 DEF IsNext
    <3>4. work'[op[s].case] = work[op[s].case] BY <3>2
    <3>5. Rewrites(s, work)' BY ZenonT(60), <3>1, <3>3, <3>4 DEF Rewrites, FacetsOf
    <3> QED BY <2>2, <3>1, <3>5 DEF IsNext
  <2> QED BY <2>1, <2>2
<1>4. Target(s)' BY TargetKept DEF AtomicInv
<1>5. Reached(s, work)'
  <2>1. Reaches(s, head)' = Reaches(s, head) BY DEF Reaches, Going
  <2>2. Reaches(s, head) \subseteq Cases BY DEF Reaches, Listed
  <2> QED BY <1>1, <2>1, <2>2 DEF Reached, Going
<1> QED BY <1>1, <1>3, <1>4, <1>5 DEF AtomicInv, AtomicStage, Going

LEMMA RefreshAtomic ==
    ASSUME NEW s \in Servers, IndexInv, AtomicInv, RefreshIndexes(s)
    PROVE  AtomicStage(s)'
<1>1. /\ op[s].at = "index" /\ UNCHANGED <<staged, head>> /\ Goto(s, "stats")
      /\ work' = [work EXCEPT ![IndexFile] = IndexDoc(work, op[s].n)]
  BY DEF RefreshIndexes, At
<1>2. work = [p \in Paths |-> work[p]] BY DEF IndexInv, Shape
<1>3. op'[s].at = "stats" /\ Going(s) BY <1>1, GotoFacts, GoingOn
<1>4. work'[SchemaFile] = work[SchemaFile] /\ \A c \in Cases : work'[c] = work[c]
  BY <1>1, <1>2 DEF Paths
<1> QED BY <1>1, <1>3, <1>4, LaterAtomic

LEMMA ObservationAtomic ==
    ASSUME NEW s \in Servers, IndexInv, AtomicInv, ReplaceObservation(s)
    PROVE  AtomicStage(s)'
<1>1. op[s].at = "stats" /\ UNCHANGED trees BY DEF ReplaceObservation, At
<1>2. ASSUME Going(s), op'[s].at \in {"stats", "add"} PROVE AtomicStage(s)'
  BY <1>1, <1>2, LaterAtomic DEF trees
<1>3. ASSUME NEW c \in op[s].todo, op' = [op EXCEPT ![s].todo = @ \ {c}] PROVE AtomicStage(s)'
  <2>1. op' = [op EXCEPT ![s].todo = op[s].todo \ {c}] BY <1>3
  <2>2. op[s].kind = "drain" => op[s].todo \ {c} \subseteq DOMAIN op[s].changes BY DEF IndexInv, Shape, OpOK
  <2>3. \A part \in Parts \ {"todo"} : op'[s][part] = op[s][part] BY <2>1, <2>2, TodoFacts
  <2> QED BY <1>1, <1>2, <2>3, GoingOn DEF Parts
<1>4. CASE Goto(s, "add") BY <1>1, <1>2, <1>4, GotoFacts, GoingOn
<1> QED BY <1>3, <1>4 DEF ReplaceObservation

\* Named files that differ are staged; the others are those of HEAD.
LEMMA AddAtomic ==
    ASSUME NEW s \in Servers, IndexInv, AtomicInv, GitAdd(s)
    PROVE  AtomicStage(s)'
<1>1. op[s].at = "add" /\ UNCHANGED <<work, head>> /\ Goto(s, "commit") BY DEF GitAdd, At
<1>2. op'[s].at = "commit" /\ Going(s) BY <1>1, GotoFacts, GoingOn
<1>3. IsNext(s, work) /\ Reached(s, work) /\ \A p \in Paths : staged[p] = head[p]
  BY <1>1 DEF AtomicInv, AtomicStage
<1>4. PICK paths : staged' = Add(paths) /\ (paths = Registered(s) \/ paths = Registered(s) \cap ChangedPaths)
  BY DEF GitAdd
<1>5. \A p \in Paths : staged'[p] = IF p \in Registered(s) THEN work[p] ELSE head[p]
  BY <1>3, <1>4 DEF Add, ChangedPaths
<1>6. Target(s)' BY <1>1, <1>2, TargetKept DEF AtomicInv
<1>7. CASE op[s].kind = "drain"
  <2>1. Regroups(s, work) BY <1>3, <1>7 DEF IsNext
  <2>2. \A c \in Cases : staged'[c] = work[c] BY AddFacts
  <2>3. staged'[SchemaFile].schema = work[SchemaFile].schema
    <3>1. CASE op[s].schema = Absent BY <1>5, <2>1, <3>1 DEF Regroups, Paths
    <3>2. CASE op[s].schema # Absent
      <4>1. SchemaFile \in Registered(s) BY <1>7, <3>2 DEF Registered
      <4> QED BY <1>5, <4>1 DEF Paths
    <3> QED BY <3>1, <3>2
  <2>4. Reaches(s, head)' = Reaches(s, head) /\ Reaches(s, head) \subseteq Cases
    BY <1>1, <1>2 DEF Reaches, Listed, Going
  <2>5. Regroups(s, staged)' BY <1>1, <1>2, <2>1, <2>2, <2>3, <2>4 DEF Regroups, Going
  <2>6. Reached(s, staged)' BY <1>2, <1>3, <2>2, <2>4 DEF Reached, Going
  <2> QED BY <1>2, <1>6, <1>7, <2>5, <2>6 DEF AtomicInv, AtomicStage, IsNext, Going
<1>8. CASE op[s].kind # "drain"
  <2>1. op[s].case \in Cases /\ Registered(s) = {op[s].case, IndexFile}
    BY <1>1, <1>8 DEF IndexInv, Shape, OpOK, Registered
  <2>2. /\ staged'[SchemaFile] = head[SchemaFile] /\ staged'[op[s].case] = work[op[s].case]
        /\ \A c \in Cases \ {op[s].case} : staged'[c] = head[c]
    BY <1>5, <2>1 DEF Paths
  <2>3. Rewrites(s, staged)' BY <1>1, <1>2, <1>3, <1>8, <2>2 DEF IsNext, Rewrites, Going
  <2> QED BY <1>2, <1>6, <1>8, <2>3 DEF AtomicInv, AtomicStage, IsNext, Reached, Going
<1> QED BY <1>7, <1>8

\* An operation that is over, or has failed, is about nothing any more.
LEMMA EndAtomic ==
    ASSUME NEW s \in Servers, IndexInv, AtomicInv,
           \/ /\ op'[s].kind = op[s].kind /\ op[s].at # "done"
              /\ op'[s].at \in {"rollback", "undo", "unlock"}
           \/ op'[s] = NoOp
    PROVE  AtomicStage(s)'
BY DEF AtomicInv, AtomicStage, Target, Going, NoOp

LEMMA GotoEnd ==
    ASSUME NEW s \in Servers, IndexInv, NEW at \in {"rollback", "unlock"}, Goto(s, at), op[s].at # "done"
    PROVE  op'[s].kind = op[s].kind /\ op'[s].at = at
BY GotoFacts DEF Parts

LEMMA NextAtomic ==
    ASSUME NEW server, Servers = {server}, IndexInv, TypeInv, AtomicInv, [Next]_vars
    PROVE  AtomicInv'
<1> DEFINE s == server
<1> SUFFICES AtomicStage(s)'
  BY DEF AtomicInv
<1>1. op = [r \in Servers |-> op[r]] /\ s \in Servers /\ OpOK(op[s]) /\ AtomicStage(s) BY DEF IndexInv, Shape, AtomicInv
<1>2. CASE UNCHANGED trees /\ UNCHANGED op
  BY <1>1, <1>2
     DEF trees, AtomicStage, Target, IsNext, Regroups, Rewrites, Planned, Reached, Reaches, Clean, ChangedPaths
<1>3. CASE Step(s)
  <2>1. CASE Unlock(s) BY <1>1, <2>1, EndAtomic DEF Unlock
  <2>2. CASE GitCommit(s) BY <1>1, <2>2, GotoEnd, EndAtomic DEF GitCommit, At
  <2>3. CASE RollBack(s) BY <1>1, <2>3, GotoEnd, EndAtomic DEF RollBack, At
  <2> QED
    BY <1>1, <1>3, <2>1, <2>2, <2>3, BeginAtomic, WriteCaseAtomic, SaveSchemaAtomic, WriteChangeAtomic, RefreshAtomic,
       ObservationAtomic, AddAtomic
       DEF Step
<1>4. ASSUME NEW c \in Cases, NEW f, NEW kind \in {"ingest", "update", "delete"}, Begin(s, CaseOp(kind, c, f)),
             kind = "ingest" => head[c] = Absent
      PROVE  AtomicStage(s)'
  <2>1. op'[s] = CaseOp(kind, c, f) /\ head' = head BY <1>1, <1>4 DEF Begin, trees
  <2>2. op'[s].kind = kind /\ op'[s].at = "lock" /\ op'[s].case = c BY <2>1 DEF CaseOp, NoOp
  <2> QED BY <1>4, <2>1, <2>2 DEF AtomicStage, Target
<1>5. CASE \/ \E c \in Cases, f \in Profiles : Ingest(s, c, f) \/ Update(s, c, f)
           \/ \E c \in Cases : Delete(s, c)
  BY <1>4, <1>5 DEF Ingest, Update, Delete
<1>6. ASSUME op'[s].kind = "drain", op'[s].at = "governing" PROVE AtomicStage(s)'
  BY <1>6 DEF AtomicStage, Target
<1>7. CASE StartDrain(s)
  <2> DEFINE o == [NoOp EXCEPT !.kind = "drain", !.n = ops + 1, !.at = "governing"]
  <2>1. o.kind = "drain" /\ o.at = "governing" BY DEF NoOp
  <2>2. Begin(s, o) BY <1>7 DEF StartDrain
  <2> HIDE DEF o
  <2>3. op'[s] = o BY <1>1, <2>2 DEF Begin
  <2> QED BY <1>6, <2>1, <2>3
<1>8. CASE \E k \in Schemas \cup {Absent} : Govern(s, k) BY <1>1, <1>8, GovernAtomic
<1>9. CASE Acquire(s) BY <1>1, <1>9, AcquireAtomic
<1>10. CASE Raises(s)
  <2>1. op[s].at # "done" BY <1>10 DEF Raises, CaseSteps, DrainSteps
  <2>2. PICK at \in {"rollback", "unlock"} : Goto(s, at) BY <1>10 DEF Raises
  <2> QED BY <1>1, <2>1, <2>2, GotoEnd, EndAtomic
<1>11. CASE Crash(s)
  <2>1. op'[s] = NoOp BY <1>1, <1>11 DEF Crash
  <2> QED BY <1>1, <2>1, EndAtomic
<1>12. CASE \E k \in Schemas : PutSchema(s, k)
  <2>1. UNCHANGED op /\ op[s].at \in {"done", "governing"} BY <1>12 DEF PutSchema
  <2> QED BY <1>1, <2>1 DEF AtomicStage, Target
<1>13. CASE Restart(s) BY <1>2, <1>13 DEF Restart
<1>14. CASE CommitRaises(s)
  <2>1. op[s].at = "commit" BY <1>14 DEF CommitRaises, At
  <2>2. op'[s].kind = op[s].kind /\ op'[s].at \in {"undo", "unlock"} BY <1>1, <1>14, CommitRaisesFacts DEF Parts
  <2> QED BY <1>1, <2>1, <2>2, EndAtomic
<1> HIDE DEF s
<1> QED BY <1>2, <1>3, <1>5, <1>7, <1>8, <1>9, <1>10, <1>11, <1>12, <1>13, <1>14 DEF Next, s, vars, trees

\* The cases of a revision as AtomicWorkspace sees them.
LEMMA CasesOfIs ==
    ASSUME NEW tree, \A c \in Cases : tree[c] \in Docs, NEW c \in Cases
    PROVE  /\ CasesOf(tree)[c] = Absent <=> tree[c] = Absent
           /\ tree[c] # Absent => /\ CasesOf(tree)[c] = [profile |-> tree[c].profile, facets |-> tree[c].facets]
                                  /\ CasesOf(tree)[c].profile = tree[c].profile
                                  /\ tree[c].profile \in Profiles /\ tree[c].facets \in Facets
           /\ tree[c] = Absent => CasesOf(tree)[c] = Absent
<1>1. tree[c] # Absent => tree[c] \in [profile : Profiles, facets : Facets, at : Nat] BY DEF Docs
<1>2. tree[c] # Absent => Observation(tree[c]) \in [profile : Profiles, facets : Facets]
  BY <1>1 DEF Observation
<1>3. tree[c] # Absent => Observation(tree[c]) # Absent BY <1>2
<1> QED BY <1>1, <1>3 DEF CasesOf, Observation

\* The commit of a case operation.
LEMMA CommitsCase ==
    ASSUME NEW s \in Servers, TypeInv, AtomicStage(s), op[s].at = "commit", op[s].kind # "drain",
           op[s].case \in Cases, op[s].profile \in Profiles, head' = staged
    PROVE  Revision!Next
<1> DEFINE case == op[s].case
           now == CasesOf(head)
           then == CasesOf(staged)
           under == head[SchemaFile].schema
           written == [profile |-> op[s].profile, facets |-> FacetsOf(op[s].profile, under)]
<1>1. /\ \A c \in Cases : head[c] \in Docs /\ staged[c] \in Docs
      /\ staged[SchemaFile].schema = under
  BY DEF TypeInv, TypeOK, TreeOK, AtomicStage, IsNext, Rewrites
<1>2. /\ \A c \in Cases \ {case} : staged[c] = head[c]
      /\ IF op[s].kind = "delete" THEN staged[case] = Absent
         ELSE staged[case] # Absent /\ staged[case].profile = op[s].profile
      /\ op[s].kind \in {"ingest", "update", "delete"}
      /\ op[s].kind = "ingest" <=> head[case] = Absent
  BY DEF AtomicStage, IsNext, Rewrites, Target
<1>3. now[case] = Absent <=> op[s].kind = "ingest" BY <1>1, <1>2, CasesOfIs
<1>4. then[case] = IF op[s].kind = "delete" THEN Absent ELSE written
  <2>1. CASE op[s].kind = "delete" BY <1>1, <1>2, <2>1, CasesOfIs
  <2>2. CASE op[s].kind # "delete"
    <3>1. staged[case].facets = FacetsOf(op[s].profile, under) BY <2>2 DEF AtomicStage, IsNext, Rewrites
    <3>2. then[case] = [profile |-> staged[case].profile, facets |-> staged[case].facets]
      BY <1>1, <1>2, <2>2, CasesOfIs
    <3> QED BY <1>2, <2>2, <3>1, <3>2
  <2> QED BY <2>1, <2>2
<1>5. \A c \in Cases \ {case} : then[c] = now[c] BY <1>2 DEF CasesOf
<1>6. now = [c \in Cases |-> now[c]] /\ then = [c \in Cases |-> then[c]] BY DEF CasesOf
<1>7. then = [now EXCEPT ![case] = IF op[s].kind = "delete" THEN Absent ELSE written]
  <2> HIDE DEF now, then, written, case
  <2> QED BY <1>4, <1>5, <1>6
<1>8. head'[SchemaFile].schema = under BY <1>1
<1>9. written = [profile |-> op[s].profile, facets |-> Project[op[s].profile, under]] BY DEF FacetsOf
<1>10. now = CasesOf(head) /\ then = CasesOf(head') OBVIOUS
<1> HIDE DEF now, then, written
<1>11. ASSUME NEW c \in Cases, NEW f \in Profiles, c = case, f = op[s].profile PROVE Revision!Next
  <2>1. CASE op[s].kind = "ingest"
    <3>1. Revision!Input(c, f) BY <1>3, <1>7, <1>8, <1>9, <1>10, <1>11, <2>1 DEF Revision!Input, Revision!Case
    <3> QED BY <3>1 DEF Revision!Next
  <2>2. CASE op[s].kind = "update"
    <3>1. Revision!Update(c, f) BY <1>3, <1>7, <1>8, <1>9, <1>10, <1>11, <2>2 DEF Revision!Update, Revision!Case
    <3> QED BY <3>1 DEF Revision!Next
  <2>3. CASE op[s].kind = "delete"
    <3>1. Revision!Delete(c) BY <1>3, <1>7, <1>8, <1>10, <1>11, <2>3 DEF Revision!Delete
    <3> QED BY <3>1 DEF Revision!Next
  <2> QED BY <1>2, <2>1, <2>2, <2>3
<1> QED BY <1>11

\* What AtomicWorkspace lists are the listed cases of the revision.
LEMMA SameListed == TypeInv => Revision!Listed = Listed(head)
<1> SUFFICES ASSUME TypeInv PROVE Revision!Listed = Listed(head)
  OBVIOUS
<1>1. \A c \in Cases : CasesOf(head)[c] = Absent <=> head[c] = Absent
  BY CasesOfIs DEF TypeInv, TypeOK, TreeOK
<1>2. Listed(CasesOf(head)) = Listed(head) BY <1>1, ListedSame
<1>3. Revision!Listed = Listed(CasesOf(head)) BY DEF Revision!Listed, Listed, Revision!Cardinality, Cardinality
<1> QED BY <1>2, <1>3

\* The commit of a drain: without a schema the revision shows the same, with one
\* the cases it reaches have their facets under it.
LEMMA CommitsDrain ==
    ASSUME NEW s \in Servers, TypeInv, AtomicStage(s), op[s].at = "commit", op[s].kind = "drain", head' = staged
    PROVE  [Revision!Next]_Revision!vars
<1> DEFINE now == CasesOf(head)
           then == CasesOf(staged)
           k == staged[SchemaFile].schema
           accepted == [c \in Cases |-> IF c \in Revision!Listed
                                        THEN [profile |-> now[c].profile, facets |-> Project[now[c].profile, k]]
                                        ELSE now[c]]
<1>1. (\A c \in Cases : head[c] \in Docs /\ staged[c] \in Docs) /\ k \in Schemas
  BY DEF TypeInv, TypeOK, TreeOK
<1>2. Regroups(s, staged) /\ Reached(s, staged) BY DEF AtomicStage, IsNext
<1>3. ASSUME NEW c \in Cases, c \notin Reaches(s, head) PROVE then[c] = now[c]
  <2>1. CASE head[c] = Absent
    <3>1. staged[c] = Absent /\ now[c] = Absent BY <1>1, <1>2, <2>1, CasesOfIs DEF Regroups
    <3> QED BY <1>1, <3>1, CasesOfIs
  <2>2. CASE head[c] # Absent
    <3>1. staged[c] # Absent /\ staged[c].profile = head[c].profile /\ staged[c].facets = head[c].facets
      BY <1>2, <1>3, <2>2 DEF Regroups
    <3>2. now[c] = [profile |-> head[c].profile, facets |-> head[c].facets] BY <1>1, <2>2, CasesOfIs
    <3>3. then[c] = [profile |-> staged[c].profile, facets |-> staged[c].facets] BY <1>1, <3>1, CasesOfIs
    <3> QED BY <3>1, <3>2, <3>3
  <2> QED BY <2>1, <2>2
<1>4. now = CasesOf(head) /\ then = CasesOf(head') /\ head'[SchemaFile].schema = k OBVIOUS
<1>5. now = [c \in Cases |-> now[c]] /\ then = [c \in Cases |-> then[c]] BY DEF CasesOf
<1>6. CASE op[s].schema = Absent
  <2>1. k = head[SchemaFile].schema BY <1>2, <1>6 DEF Regroups
  <2>2. \A c \in Cases : then[c] = now[c] BY <1>3, <1>6 DEF Reaches
  <2> HIDE DEF now, then, k
  <2>3. then = now BY <1>5, <2>2
  <2> QED BY <1>4, <2>1, <2>3 DEF Revision!vars
<1>7. CASE op[s].schema # Absent
  <2>1. k = op[s].schema BY <1>2, <1>7 DEF Regroups
  <2>2. Revision!Listed = Listed(head) BY SameListed
  <2>3. Reaches(s, head) = Listed(head) BY <1>7 DEF Reaches
  <2>4. ASSUME NEW c \in Cases PROVE then[c] = accepted[c]
    <3>1. CASE c \notin Listed(head) BY <1>3, <2>2, <2>3, <3>1
    <3>2. CASE c \in Listed(head)
      <4>1. head[c] # Absent BY <3>2 DEF Listed
      <4>2. staged[c] # Absent /\ staged[c].profile = head[c].profile BY <1>2, <4>1 DEF Regroups
      <4>3. staged[c].facets = FacetsOf(staged[c].profile, k) BY <1>2, <2>1, <2>3, <3>2 DEF Reached
      <4>4. now[c].profile = head[c].profile BY <1>1, <4>1, CasesOfIs
      <4>5. then[c] = [profile |-> staged[c].profile, facets |-> staged[c].facets] BY <1>1, <4>2, CasesOfIs
      <4> QED BY <2>2, <3>2, <4>2, <4>3, <4>4, <4>5 DEF FacetsOf
    <3> QED BY <3>1, <3>2
  <2>5. then = accepted
    <3>1. accepted = [c \in Cases |-> accepted[c]] OBVIOUS
    <3> HIDE DEF then, accepted
    <3> QED BY <1>5, <2>4, <3>1
  <2> HIDE DEF now, then, k
  <2>6. ASSUME NEW q \in Schemas, q = k PROVE Revision!Next
    <3>1. Revision!Accept(q) BY <1>4, <2>5, <2>6 DEF Revision!Accept, Revision!Case
    <3> QED BY <3>1 DEF Revision!Next
  <2> QED BY <1>1, <2>6
<1> QED BY <1>6, <1>7

\* HEAD moves in a commit only.
LEMMA StepsMap ==
    ASSUME NEW server, Servers = {server}, IndexInv, TypeInv, AtomicInv, [Next]_vars
    PROVE  [Revision!Next]_Revision!vars
<1> DEFINE s == server
<1>1. CASE head' = head BY <1>1 DEF Revision!vars
<1>2. CASE GitCommit(s) \/ CommitRaises(s)
  <2>1. op[s].at = "commit" /\ head' = staged /\ AtomicStage(s) /\ OpOK(op[s]) /\ OpTypes(op[s])
    BY <1>2 DEF GitCommit, CommitRaises, At, AtomicInv, IndexInv, Shape, TypeInv
  <2>2. op[s].kind # "drain" => op[s].case \in Cases /\ op[s].profile \in Profiles
    BY <2>1 DEF OpOK, OpTypes
  <2> QED BY <2>1, <2>2, CommitsCase, CommitsDrain
<1>3. ASSUME Step(s), ~GitCommit(s) PROVE head' = head
  BY <1>3 DEF Step, trees, BeginMutation, WriteCase, SaveSchema, WriteChange, RefreshIndexes, ReplaceObservation,
              GitAdd, RollBack, Unlock
<1>4. ASSUME NEW o, Begin(s, o) PROVE head' = head BY <1>4 DEF Begin, trees
<1>5. CASE \/ \E c \in Cases, f \in Profiles : Ingest(s, c, f) \/ Update(s, c, f)
           \/ \E c \in Cases : Delete(s, c)
           \/ StartDrain(s)
  BY SMTT(60), <1>1, <1>4, <1>5 DEF Ingest, Update, Delete, StartDrain
<1>6. CASE \/ \E k \in Schemas \cup {Absent} : Govern(s, k)
           \/ Acquire(s) \/ Raises(s) \/ Crash(s) \/ Restart(s)
           \/ \E k \in Schemas : PutSchema(s, k)
  BY <1>1, <1>6 DEF Govern, Acquire, Raises, Crash, Restart, PutSchema, trees
<1>7. CASE UNCHANGED vars BY <1>1, <1>7 DEF vars
<1> HIDE DEF s
<1> QED BY <1>1, <1>2, <1>3, <1>5, <1>6, <1>7 DEF Next, s

LEMMA InitMaps == Init => Revision!Init
<1> SUFFICES ASSUME Init PROVE Revision!Init
  OBVIOUS
<1> DEFINE files == [p \in Paths |-> IF p = SchemaFile THEN SchemaDoc(FirstSchema, 0) ELSE Absent]
<1>1. Baseline = [files EXCEPT ![IndexFile] = IndexDoc(files, 0)] BY DEF Baseline
<1>2. head[SchemaFile] = SchemaDoc(FirstSchema, 0) /\ \A c \in Cases : head[c] = Absent
  BY <1>1 DEF Init, Paths
<1>3. CasesOf(head) = [c \in Cases |-> Absent] BY <1>2 DEF CasesOf
<1> QED BY <1>2, <1>3 DEF Revision!Init, SchemaDoc

\* What the proof that each commit is one complete operation rests on.
WorkspaceInv == IndexInv /\ TypeInv /\ AtomicInv

LEMMA InitWorkspace == Init => WorkspaceInv
BY InitIndexed, InitTyped, InitAtomic DEF WorkspaceInv

LEMMA NextWorkspace ==
    ASSUME NEW server, Servers = {server}
    PROVE  WorkspaceInv /\ [Next]_vars => WorkspaceInv'
<1>1. WorkspaceInv /\ [Next]_vars => IndexInv' BY NextIndexed DEF WorkspaceInv
<1>2. WorkspaceInv /\ [Next]_vars => TypeInv' BY NextTyped DEF WorkspaceInv
<1>3. WorkspaceInv /\ [Next]_vars => AtomicInv' BY NextAtomic DEF WorkspaceInv
<1> QED BY <1>1, <1>2, <1>3 DEF WorkspaceInv

\* With one server, whoever reads the revisions of a partition sees complete
\* operations, one after the other, whatever fails, crashes or is put meanwhile:
\* a schema comes with the facets of the first ListLimit cases, and leaves those
\* of the others as they are.
THEOREM RevisionsAreAlwaysAtomic ==
    ASSUME NEW server, Servers = {server}
    PROVE  Safety => RevisionsAreAtomic
<1>1. WorkspaceInv /\ [Next]_vars => WorkspaceInv' BY NextWorkspace
<1>2. WorkspaceInv /\ [Next]_vars => [Revision!Next]_Revision!vars BY StepsMap DEF WorkspaceInv
<1> QED BY <1>1, <1>2, InitWorkspace, InitMaps, PTL DEF Safety, RevisionsAreAtomic, Revision!Spec

-----------------------------------------------------------------------------
(* Facets, in a workspace with one server and no more cases than are listed. *)

\* Every case of the revision is listed.
HeadFits == \A c \in Cases : head[c] # Absent => c \in Listed(head)

\* The facets of every case of a revision are those of its schema.
HeadIsProjected ==
    \A c \in Cases : head[c] # Absent =>
        head[c].facets = Project[head[c].profile, head[SchemaFile].schema]

\* The same of what AtomicWorkspace sees of it.
ProjectedCases ==
    \A c \in Cases : CasesOf(head)[c] # Absent =>
        CasesOf(head)[c] = Revision!Case(CasesOf(head)[c].profile, head[SchemaFile].schema)

LEMMA ProjectedCasesAre == TypeInv => (HeadIsProjected <=> ProjectedCases)
<1> SUFFICES ASSUME TypeInv PROVE HeadIsProjected <=> ProjectedCases
  OBVIOUS
<1>1. \A c \in Cases : head[c] \in Docs BY DEF TypeInv, TypeOK, TreeOK
<1>2. ASSUME NEW c \in Cases, head[c] # Absent
      PROVE  head[c].facets = Project[head[c].profile, head[SchemaFile].schema]
             <=> CasesOf(head)[c] = Revision!Case(CasesOf(head)[c].profile, head[SchemaFile].schema)
  <2>1. /\ CasesOf(head)[c] = [profile |-> head[c].profile, facets |-> head[c].facets]
        /\ CasesOf(head)[c].profile = head[c].profile
    BY <1>1, <1>2, CasesOfIs
  <2>2. Revision!Case(head[c].profile, head[SchemaFile].schema)
            = [profile |-> head[c].profile, facets |-> Project[head[c].profile, head[SchemaFile].schema]]
    BY DEF Revision!Case
  <2> DEFINE mapped == CasesOf(head)[c]
             under == head[SchemaFile].schema
             projected == Project[head[c].profile, under]
  <2>3. Revision!Case(mapped.profile, under) = [profile |-> head[c].profile, facets |-> projected] BY <2>1, <2>2
  <2>4. mapped = [profile |-> head[c].profile, facets |-> head[c].facets] BY <2>1
  <2> HIDE DEF mapped, projected
  <2>5. head[c].facets = projected <=> mapped = Revision!Case(mapped.profile, under) BY <2>3, <2>4
  <2> QED BY <2>5 DEF mapped, projected
<1>3. \A c \in Cases : CasesOf(head)[c] = Absent <=> head[c] = Absent BY <1>1, CasesOfIs
<1> QED BY <1>2, <1>3 DEF HeadIsProjected, ProjectedCases

\* A written case is projected under the schema of the revision, and a new schema
\* reaches all cases.
LEMMA NextProjected ==
    ASSUME TypeInv, HeadFits, ProjectedCases, [Revision!Next]_Revision!vars
    PROVE  ProjectedCases'
<1> DEFINE now == CasesOf(head)
           schema == head[SchemaFile].schema
<1>1. now = [c \in Cases |-> now[c]] BY DEF CasesOf
<1>2. \A c \in Cases : now[c] # Absent => c \in Revision!Listed
  <2>1. \A c \in Cases : now[c] = Absent <=> head[c] = Absent BY CasesOfIs DEF TypeInv, TypeOK, TreeOK
  <2> QED BY <2>1, SameListed DEF HeadFits
<1>3. \A f, k : Revision!Case(f, k).profile = f BY DEF Revision!Case
<1>4. ProjectedCases <=> \A c \in Cases : now[c] # Absent => now[c] = Revision!Case(now[c].profile, schema)
  BY DEF ProjectedCases
<1>5. ProjectedCases' <=> \A c \in Cases : now'[c] # Absent => now'[c] = Revision!Case(now'[c].profile, schema')
  BY DEF ProjectedCases, Revision!Case
<1>6. CASE UNCHANGED Revision!vars
  <2>1. now' = now /\ schema' = schema BY <1>6 DEF Revision!vars
  <2> HIDE DEF now, schema
  <2> QED BY <1>4, <1>5, <2>1
<1>7. ASSUME NEW c \in Cases, NEW doc, now' = [now EXCEPT ![c] = doc], schema' = schema,
             doc = Absent \/ \E f : doc = Revision!Case(f, schema)
      PROVE  ProjectedCases'
  <2> HIDE DEF now, schema
  <2> QED BY <1>1, <1>3, <1>4, <1>5, <1>7
<1>8. ASSUME NEW c \in Cases, NEW f, Revision!Input(c, f) \/ Revision!Update(c, f) PROVE ProjectedCases'
  BY <1>7, <1>8 DEF Revision!Input, Revision!Update
<1>9. ASSUME NEW c \in Cases, Revision!Delete(c) PROVE ProjectedCases'
  BY <1>7, <1>9 DEF Revision!Delete
<1>10. ASSUME NEW k, Revision!Accept(k) PROVE ProjectedCases'
  <2>1. /\ schema' = k
        /\ now' = [c \in Cases |-> IF c \in Revision!Listed THEN Revision!Case(now[c].profile, k) ELSE now[c]]
    BY <1>10 DEF Revision!Accept
  <2> HIDE DEF now, schema
  <2> QED BY <1>2, <1>3, <1>5, <2>1
<1> QED BY <1>6, <1>8, <1>9, <1>10 DEF Revision!Next

\* With one server, and as long as no revision has more cases than are listed, no
\* revision mixes two schemas: neither a case written while a drain is planned,
\* nor a schema put meanwhile, nor a failure, however many operations there are.
THEOREM HeadIsAlwaysProjected ==
    ASSUME NEW server, Servers = {server}
    PROVE  Safety /\ []HeadFits => []HeadIsProjected
<1>1. WorkspaceInv /\ [Next]_vars => WorkspaceInv' BY NextWorkspace
<1>2. WorkspaceInv /\ HeadFits /\ ProjectedCases /\ [Next]_vars => ProjectedCases'
  BY StepsMap, NextProjected DEF WorkspaceInv
<1>3. Init => ProjectedCases
  <2>1. Init => \A c \in Cases : CasesOf(head)[c] = Absent BY InitMaps DEF Revision!Init
  <2> QED BY <2>1 DEF ProjectedCases
<1>4. WorkspaceInv /\ ProjectedCases => HeadIsProjected BY ProjectedCasesAre DEF WorkspaceInv
<1> QED BY <1>1, <1>2, <1>3, <1>4, InitWorkspace, PTL DEF Safety
=============================================================================
