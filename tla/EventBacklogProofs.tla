------------------------- MODULE EventBacklogProofs -------------------------
(***************************************************************************)
(* Theorems about EventBacklog for any set of case changes, any batch and  *)
(* window size and any number of drains and incidents.  What a record says *)
(* of a change is proved from where its command, its request or its batch  *)
(* is on the way: IInv.                                                    *)
(***************************************************************************)
EXTENDS EventBacklog, SequenceTheorems, TLAPS

\* The head has committed and has not written back what it owes.
AtCommitted(kind) == queue # <<>> /\ phase = "committed" /\ queue[1].kind = kind

IsDrain(i) == queue[i].kind = "drain"

\* A batch holds published events; a case command is about one change, which
\* is queued until the command has committed, and is about nothing else's.
QueueInv ==
    /\ \A i \in 1..Len(queue) : IsDrain(i) => \A e \in queue[i].of : record[e] # "absent"
    /\ \A i \in 1..Len(queue) : ~IsDrain(i) => \E e \in Events : queue[i].of = {e}
    /\ \A i \in 1..Len(queue) : ~IsDrain(i) /\ (i # 1 \/ phase # "committed") =>
          \A e \in queue[i].of : change[e] = "queued"
    /\ \A i, j \in 1..Len(queue) : i # j /\ ~IsDrain(i) /\ ~IsDrain(j) =>
          queue[i].of \cap queue[j].of = {}

PhaseInv ==
    /\ phase # "taken" => queue # <<>>
    /\ phase = "governing" => queue[1].kind = "drain"
    /\ phase = "committed" => queue[1].kind \in {"input", "drain"}

\* Who still owes a record to a committed change: its request, or the input
\* command that has committed, unless an incident has marked it untold.
ReportInv ==
    /\ waiting \cap released = {}
    /\ \A e \in waiting \cup released : change[e] = "committed" /\ record[e] = "absent"
    /\ AtCommitted("input") => \A e \in queue[1].of :
          change[e] = "committed" /\ record[e] = "absent" /\ e \notin waiting \cup released
    /\ queue = <<>> => waiting = {}
    /\ \A e \in Events :
          change[e] = "committed" /\ record[e] = "absent" =>
             e \in waiting \cup released \cup untold \/ (AtCommitted("input") /\ e \in queue[1].of)
    /\ \A e \in Events : record[e] = "overwritten" => e \in untold

\* As long as nobody interferes the batches are disjoint and pending, and a
\* governed event is completed or about to be.
GovernInv == happened = {} =>
    /\ \A e \in Events : record[e] # "deleted"
    /\ \A i, j \in 1..Len(queue) : i # j /\ IsDrain(i) /\ IsDrain(j) =>
          queue[i].of \cap queue[j].of = {}
    /\ \A i \in 1..Len(queue) : IsDrain(i) => \A e \in queue[i].of : record[e] = "pending"
    /\ \A e \in Events : governed[e] <= 1
    /\ \A e \in Events : governed[e] # 0 =>
          record[e] = "completed" \/ (AtCommitted("drain") /\ e \in queue[1].of)

IInv == TypeOK /\ EventFollowsCommit /\ QueueInv /\ PhaseInv /\ ReportInv /\ GovernInv

\* What a step has to keep besides the types.
RecordInv == QueueInv /\ PhaseInv /\ EventFollowsCommit /\ ReportInv /\ GovernInv

-----------------------------------------------------------------------------
(* The queue and the requests *)

Commands == [kind : Kinds, of : SUBSET Events]

LEMMA HeadIsFirst ==
    ASSUME TypeOK, queue # <<>>
    PROVE  /\ Head(queue) = queue[1] /\ Batch = queue[1].of
           /\ queue[1] \in Commands /\ Batch \subseteq Events
           /\ Len(queue) \in Nat /\ 1 \in 1..Len(queue)
<1>1. queue \in Seq(Commands)
  BY DEF TypeOK, Commands
<1>2. Head(queue) = queue[1] /\ Len(queue) \in Nat \ {0}
  BY <1>1
<1>3. queue[1] \in Commands
  BY <1>1, <1>2
<1>4. QED
  BY <1>2, <1>3 DEF Batch, Commands

LEMMA CommandTypes ==
    ASSUME TypeOK, NEW i \in 1..Len(queue)
    PROVE  queue[i] \in Commands /\ queue[i].kind \in Kinds /\ queue[i].of \subseteq Events
<1>1. queue \in Seq(Commands)
  BY DEF TypeOK, Commands
<1>2. queue[i] \in Commands
  BY <1>1, ElementOfSeq
<1>3. QED
  BY <1>2 DEF Commands

LEMMA TailKeeps ==
    ASSUME TypeOK, queue # <<>>, queue' = Tail(queue)
    PROVE  /\ queue' \in Seq(Commands) /\ Len(queue') \in Nat
           /\ Len(queue') = Len(queue) - 1
           /\ \A i \in 1..Len(queue') : i + 1 \in 1..Len(queue) /\ queue'[i] = queue[i + 1]
<1>1. queue \in Seq(Commands)
  BY DEF TypeOK, Commands
<1>2. QED
  BY <1>1, HeadTailProperties, LenProperties

LEMMA AppendKeeps ==
    ASSUME TypeOK, NEW c \in Commands, queue' = Append(queue, c)
    PROVE  /\ queue' \in Seq(Commands) /\ queue' # <<>>
           /\ Len(queue) \in Nat /\ Len(queue') = Len(queue) + 1
           /\ \A i \in 1..Len(queue) : queue'[i] = queue[i]
           /\ queue'[Len(queue')] = c
<1>1. queue \in Seq(Commands)
  BY DEF TypeOK, Commands
<1>2. QED
  BY <1>1, AppendProperties, LenProperties

\* The requests after the end of a command.
LEMMA FinishReleases ==
    ASSUME NEW edits, Finish(edits)
    PROVE  /\ queue' = Tail(queue) /\ phase' = "taken"
           /\ waiting' \cup released' = waiting \cup released \cup edits
           /\ released \subseteq released' /\ released' \cap waiting' \subseteq released
           /\ waiting' \subseteq waiting \cup edits
           /\ queue' = <<>> => waiting' = {}
BY DEF Finish

-----------------------------------------------------------------------------
(* Types *)

LEMMA InitTypeOK == Init => TypeOK
<1>1. <<>> \in Seq(Events) /\ <<>> \in Seq([kind : Kinds, of : SUBSET Events])
  BY EmptySeq
<1>2. SUFFICES ASSUME Init PROVE TypeOK
  OBVIOUS
<1>3. published \in Seq(Events) /\ queue \in Seq([kind : Kinds, of : SUBSET Events])
  BY <1>1, <1>2 DEF Init
<1>4. /\ change \in [Events -> {"none", "queued", "failed", "committed"}]
      /\ record \in [Events -> {"absent", "pending", "completed", "failed", "deleted", "overwritten"}]
      /\ governed \in [Events -> Nat]
  BY <1>2 DEF Init
<1>5. waiting \cup released \cup deferred \cup untold \subseteq Events
  BY <1>2 DEF Init
<1>6. phase \in {"taken", "governing", "committed"} /\ frozen \in BOOLEAN
  BY <1>2 DEF Init
<1>7. drains \in 0..MaxDrains /\ incidents \in 0..MaxIncidents
  BY <1>2, BacklogAssumption DEF Init
<1>8. QED
  BY <1>3, <1>4, <1>5, <1>6, <1>7 DEF TypeOK

LEMMA FinishType ==
    ASSUME TypeOK, queue # <<>>, NEW edits \in SUBSET Events, Finish(edits)
    PROVE  /\ queue' \in Seq([kind : Kinds, of : SUBSET Events])
           /\ phase' = "taken" /\ waiting' \cup released' \subseteq Events
BY TailKeeps, FinishReleases DEF Commands, TypeOK

\* The outcome of a batch: some of its records take one status.
LEMMA SettleTypes ==
    ASSUME TypeOK, queue # <<>>
    PROVE  /\ BeforeMissing \subseteq Batch /\ BeforeMissing \subseteq Events
           /\ FailBatch => Settle("failed") /\ deferred' \subseteq Events /\ published' = published
           /\ CompleteBatch => /\ deferred' \subseteq Events /\ published' = published
                               /\ \E status \in {"failed", "completed"} : Settle(status)
<1>1. BeforeMissing \subseteq Batch /\ BeforeMissing \subseteq Events
  BY HeadIsFirst DEF BeforeMissing
<1>2. deferred \subseteq Events
  BY DEF TypeOK
<1>3. QED
  BY <1>1, <1>2 DEF FailBatch, CompleteBatch

LEMMA SettleType ==
    ASSUME TypeOK, NEW status \in {"failed", "completed"}, Settle(status)
    PROVE  record' \in [Events -> {"absent", "pending", "completed", "failed", "deleted", "overwritten"}]
BY DEF Settle, TypeOK

LEMMA CaseTypes ==
    ASSUME TypeOK, NEW status \in {"failed", "committed"}, Becomes(status)
    PROVE  change' \in [Events -> {"none", "queued", "failed", "committed"}]
BY DEF Becomes, TypeOK

LEMMA IncidentType ==
    ASSUME TypeOK, NEW what, Incident(what)
    PROVE  incidents' \in 0..MaxIncidents
BY BacklogAssumption DEF Incident, Counted, TypeOK

LEMMA LosesType ==
    ASSUME TypeOK, NEW lost \in SUBSET Events, Loses(lost)
    PROVE  incidents' \in 0..MaxIncidents /\ untold' \subseteq Events
BY BacklogAssumption DEF Loses, Counted, TypeOK

LEMMA PublishType ==
    ASSUME TypeOK, NEW e \in Events, Publish(e)
    PROVE  /\ record' \in [Events -> {"absent", "pending", "completed", "failed", "deleted", "overwritten"}]
           /\ published' \in Seq(Events) /\ deferred' \subseteq Events
BY AppendProperties DEF Publish, TypeOK

LEMMA AssembledReady ==
    ASSUME TypeOK
    PROVE  Assembled \subseteq Events /\ \A e \in Assembled : Ready(e)
BY DEF Assembled, Listed, Newest

LEMMA NextTypeOK == TypeOK /\ [Next]_vars => TypeOK'
<1> SUFFICES ASSUME TypeOK, [Next]_vars PROVE TypeOK'
  OBVIOUS
<1> USE BacklogAssumption
<1>1. ASSUME NEW e \in Events, Submit(e) PROVE TypeOK'
  <2>1. Command("edit", {e}) \in Commands /\ Command("input", {e}) \in Commands
    BY DEF Command, Commands, Kinds
  <2>2. queue' \in Seq([kind : Kinds, of : SUBSET Events])
    BY <1>1, <2>1, AppendKeeps DEF Submit, Commands
  <2>3. QED
    BY <1>1, <2>2 DEF Submit, TypeOK, records, ledger
<1>2. ASSUME NEW e \in Events, EditPublishes(e) PROVE TypeOK'
  BY <1>2, PublishType DEF EditPublishes, TypeOK, worker, ledger
<1>3. ASSUME NEW e \in Events, RequeueEvent(e) PROVE TypeOK'
  BY <1>3, IncidentType DEF RequeueEvent, TypeOK, changes, worker
<1>4. ASSUME NEW e \in Events, DeleteEvent(e) PROVE TypeOK'
  BY <1>4, IncidentType DEF DeleteEvent, TypeOK, changes, worker
<1>5. ASSUME NEW e \in Events, RetryDue(e) PROVE TypeOK'
  BY <1>5 DEF RetryDue, TypeOK, changes, worker, ledger
<1>6. ASSUME RunOnce PROVE TypeOK'
  <2>1. Command("drain", Assembled) \in Commands
    BY AssembledReady DEF Command, Commands, Kinds
  <2>2. queue' \in Seq([kind : Kinds, of : SUBSET Events])
    BY <1>6, <2>1, AppendKeeps DEF RunOnce, Commands
  <2>3. record' \in [Events -> {"absent", "pending", "completed", "failed", "deleted", "overwritten"}]
    BY <1>6 DEF RunOnce, TypeOK, Marked
  <2>4. drains' \in 0..MaxDrains
    BY <1>6 DEF RunOnce, TypeOK
  <2>5. QED
    BY <1>6, <2>2, <2>3, <2>4 DEF RunOnce, TypeOK, changes
<1>7. ASSUME InputCommits PROVE TypeOK'
  BY <1>7, CaseTypes DEF InputCommits, TypeOK, records, ledger
<1>8. ASSUME InputPublishes PROVE TypeOK'
  <2>1. PICK e \in Events : Publish(e)
    BY <1>8, HeadIsFirst DEF InputPublishes, Executes
  <2>2. QED
    BY <1>8, <2>1, PublishType, FinishType DEF InputPublishes, Executes, TypeOK, ledger
<1>9. ASSUME EditCommits PROVE TypeOK'
  BY <1>9, CaseTypes, HeadIsFirst, FinishType DEF EditCommits, Executes, TypeOK, records, ledger
<1>10. ASSUME CaseFails PROVE TypeOK'
  BY <1>10, CaseTypes, FinishType DEF CaseFails, Executes, Failing, TypeOK, records, ledger
<1>11. ASSUME DrainBlocked PROVE TypeOK'
  BY <1>11, SettleTypes, SettleType, FinishType DEF DrainBlocked, Defer, Executes, TypeOK, ledger
<1>12. ASSUME DrainGoverns PROVE TypeOK'
  BY <1>12 DEF DrainGoverns, TypeOK, changes, records, ledger
<1>13. ASSUME DrainReviewed PROVE TypeOK'
  BY <1>13, SettleTypes, SettleType, FinishType DEF DrainReviewed, Executes, TypeOK, ledger
<1>14. ASSUME DrainRaises PROVE TypeOK'
  BY <1>14, SettleTypes, SettleType, FinishType DEF DrainRaises, Executes, TypeOK, ledger
<1>15. ASSUME DrainCommits PROVE TypeOK'
  BY <1>15 DEF DrainCommits, TypeOK, changes, records, ledger
<1>16. ASSUME DrainCompletes PROVE TypeOK'
  BY <1>16, SettleTypes, SettleType, FinishType DEF DrainCompletes, Executes, TypeOK, ledger
<1>17. ASSUME DrainRaisesLate PROVE TypeOK'
  BY <1>17, SettleTypes, SettleType, FinishType, IncidentType DEF DrainRaisesLate, Executes, TypeOK
<1>18. ASSUME Review PROVE TypeOK'
  BY <1>18 DEF Review, TypeOK, changes, records, worker, ledger
<1>19. ASSUME Crash PROVE TypeOK'
  <2>1. queue' \in Seq([kind : Kinds, of : SUBSET Events])
    BY <1>19, EmptySeq DEF Crash
  <2>2. QED
    BY <1>19, <2>1, IncidentType DEF Crash, TypeOK, records
<1>20. ASSUME UNCHANGED vars PROVE TypeOK'
  BY <1>20 DEF vars, changes, records, worker, ledger, TypeOK
<1>21. ASSUME InputUnsaved PROVE TypeOK'
  BY <1>21, HeadIsFirst, FinishType, LosesType DEF InputUnsaved, Executes, TypeOK, records
<1>22. ASSUME CaseRaisesLate PROVE TypeOK'
  BY <1>22, HeadIsFirst, CaseTypes, FinishType, LosesType DEF CaseRaisesLate, Executes, Failing, TypeOK, records
<1>23. ASSUME NEW e \in Events, EditUnsaved(e) PROVE TypeOK'
  BY <1>23, LosesType DEF EditUnsaved, TypeOK, records, worker
<1>24. ASSUME NEW e \in Events, OverwriteEvent(e) PROVE TypeOK'
  BY <1>24, LosesType DEF OverwriteEvent, TypeOK, changes, worker
<1>25. QED
  BY <1>1, <1>2, <1>3, <1>4, <1>5, <1>6, <1>7, <1>8, <1>9, <1>10, <1>11, <1>12, <1>13,
     <1>14, <1>15, <1>16, <1>17, <1>18, <1>19, <1>20, <1>21, <1>22, <1>23, <1>24 DEF Next, Worker

-----------------------------------------------------------------------------
(* The commands on the way *)

\* The end of a command leaves the other commands what they were.
LEMMA FinishQueueInv ==
    ASSUME TypeOK, QueueInv, queue # <<>>, NEW edits, Finish(edits),
           \A e \in Events : record[e] # "absent" => record'[e] # "absent",
           \A i \in 2..Len(queue) : ~IsDrain(i) => \A e \in queue[i].of : change'[e] = change[e]
    PROVE  QueueInv' /\ PhaseInv'
<1>1. phase' = "taken" /\ queue' = Tail(queue)
  BY FinishReleases
<1>2. \A i \in 1..Len(queue') : i + 1 \in 2..Len(queue) /\ i + 1 \in 1..Len(queue) /\ queue'[i] = queue[i + 1]
  BY <1>1, TailKeeps, HeadIsFirst
<1>3. \A i \in 1..Len(queue') : queue'[i].kind = queue[i + 1].kind /\ queue'[i].of = queue[i + 1].of
  BY <1>2
<1>4. \A i \in 1..Len(queue) : queue[i].of \subseteq Events
  BY CommandTypes
<1>5. \A i \in 1..Len(queue') : queue'[i].kind = "drain" => \A e \in queue'[i].of : record'[e] # "absent"
  <2> SUFFICES ASSUME NEW i \in 1..Len(queue'), queue'[i].kind = "drain", NEW e \in queue'[i].of
               PROVE  record'[e] # "absent"
    OBVIOUS
  <2>1. i + 1 \in 1..Len(queue) /\ IsDrain(i + 1) /\ e \in queue[i + 1].of
    BY <1>2, <1>3 DEF IsDrain
  <2>2. QED
    BY <2>1, <1>4 DEF QueueInv
<1>6. \A i \in 1..Len(queue') : queue'[i].kind # "drain" => \E e \in Events : queue'[i].of = {e}
  <2> SUFFICES ASSUME NEW i \in 1..Len(queue'), queue'[i].kind # "drain"
               PROVE  \E e \in Events : queue'[i].of = {e}
    OBVIOUS
  <2>1. i + 1 \in 1..Len(queue) /\ ~IsDrain(i + 1) /\ queue'[i].of = queue[i + 1].of
    BY <1>2, <1>3 DEF IsDrain
  <2>2. QED
    BY <2>1 DEF QueueInv
<1>7. \A i \in 1..Len(queue') : queue'[i].kind # "drain" => \A e \in queue'[i].of : change'[e] = "queued"
  <2> SUFFICES ASSUME NEW i \in 1..Len(queue'), queue'[i].kind # "drain", NEW e \in queue'[i].of
               PROVE  change'[e] = "queued"
    OBVIOUS
  <2>1. i + 1 \in 1..Len(queue) /\ i + 1 # 1 /\ ~IsDrain(i + 1) /\ e \in queue[i + 1].of
    BY <1>2, <1>3 DEF IsDrain
  <2>2. change[e] = "queued"
    BY <2>1 DEF QueueInv
  <2>3. QED
    BY <2>1, <2>2, <1>2
<1>8. \A i, j \in 1..Len(queue') : i # j /\ queue'[i].kind # "drain" /\ queue'[j].kind # "drain" =>
         queue'[i].of \cap queue'[j].of = {}
  <2> SUFFICES ASSUME NEW i \in 1..Len(queue'), NEW j \in 1..Len(queue'), i # j,
                      queue'[i].kind # "drain", queue'[j].kind # "drain"
               PROVE  queue'[i].of \cap queue'[j].of = {}
    OBVIOUS
  <2>1. i + 1 # j + 1 /\ i + 1 \in 1..Len(queue) /\ j + 1 \in 1..Len(queue) /\ ~IsDrain(i + 1) /\ ~IsDrain(j + 1)
    BY <1>2, <1>3 DEF IsDrain
  <2>2. queue[i + 1].of \cap queue[j + 1].of = {}
    BY <2>1 DEF QueueInv
  <2>3. QED
    BY <2>2, <1>3
<1>9. QED
  BY <1>1, <1>5, <1>6, <1>7, <1>8 DEF QueueInv, PhaseInv, IsDrain

\* Records that come and changes that are not those of waiting commands
\* leave the queue as it was.
LEMMA SameQueueInv ==
    ASSUME TypeOK, QueueInv, queue' = queue, phase = phase' \/ IsDrain(1) \/ phase' = "committed",
           \A e \in Events : record[e] # "absent" => record'[e] # "absent",
           \A i \in 1..Len(queue) : ~IsDrain(i) /\ (i # 1 \/ phase' # "committed") =>
              \A e \in queue[i].of : change'[e] = change[e]
    PROVE  QueueInv'
<1>1. \A i \in 1..Len(queue) : queue[i].of \subseteq Events
  BY CommandTypes
<1>2. \A i \in 1..Len(queue) : ~IsDrain(i) /\ (i # 1 \/ phase' # "committed") =>
         \A e \in queue[i].of : change'[e] = "queued"
  BY DEF QueueInv, IsDrain
<1>3. \A i \in 1..Len(queue) : IsDrain(i) => \A e \in queue[i].of : record'[e] # "absent"
  BY <1>1 DEF QueueInv
<1>4. QED
  BY <1>2, <1>3 DEF QueueInv, IsDrain

\* A new command joins the queue.
LEMMA AppendQueueInv ==
    ASSUME TypeOK, QueueInv, PhaseInv, NEW c \in Commands, queue' = Append(queue, c), phase' = phase,
           \A e \in Events : record[e] # "absent" => record'[e] # "absent",
           \A e \in Events : change[e] = "queued" => change'[e] = "queued",
           c.kind = "drain" => \A e \in c.of : record'[e] # "absent",
           c.kind # "drain" =>
              /\ \E e \in Events : c.of = {e} /\ change[e] = "none" /\ change'[e] = "queued"
              /\ phase = "committed" => \A e \in Events : queue[1].of = {e} => change[e] # "none"
    PROVE  QueueInv' /\ PhaseInv'
<1> DEFINE n == Len(queue)
<1>1. /\ n \in Nat /\ Len(queue') = n + 1 /\ queue' # <<>>
      /\ \A i \in 1..n : queue'[i] = queue[i]
      /\ queue'[n + 1] = c
  BY AppendKeeps
<1>2. \A i \in 1..n : queue[i].of \subseteq Events
  BY CommandTypes
<1>3. \A i \in 1..Len(queue') : i \in 1..n \/ i = n + 1
  BY <1>1
<1>4. c.of \subseteq Events
  BY DEF Commands
<1>5. n # 0 <=> queue # <<>>
  BY DEF TypeOK
<1>6. phase = "committed" => n # 0 /\ 1 \in 1..n
  BY <1>1, <1>5 DEF PhaseInv
<1> HIDE DEF n
<1>7. \A i \in 1..Len(queue') : queue'[i].kind = "drain" => \A e \in queue'[i].of : record'[e] # "absent"
  BY <1>1, <1>2, <1>3 DEF QueueInv, IsDrain, n
<1>8. \A i \in 1..Len(queue') : queue'[i].kind # "drain" => \E e \in Events : queue'[i].of = {e}
  BY <1>1, <1>3 DEF QueueInv, IsDrain, n
<1>9. \A i \in 1..Len(queue') : queue'[i].kind # "drain" /\ (i # 1 \/ phase' # "committed") =>
         \A e \in queue'[i].of : change'[e] = "queued"
  <2> SUFFICES ASSUME NEW i \in 1..Len(queue'), queue'[i].kind # "drain", i # 1 \/ phase' # "committed",
                      NEW e \in queue'[i].of
               PROVE  change'[e] = "queued"
    OBVIOUS
  <2>1. CASE i \in 1..n
    BY <2>1, <1>1, <1>2 DEF QueueInv, IsDrain, n
  <2>2. CASE i = n + 1
    BY <2>2, <1>1
  <2>3. QED
    BY <2>1, <2>2, <1>3
<1>10. \A i \in 1..n : c.kind # "drain" /\ ~IsDrain(i) => queue[i].of \cap c.of = {}
  <2> SUFFICES ASSUME NEW i \in 1..n, c.kind # "drain", ~IsDrain(i) PROVE queue[i].of \cap c.of = {}
    OBVIOUS
  <2>1. PICK e \in Events : queue[i].of = {e}
    BY DEF QueueInv, n
  <2>2. PICK f \in Events : c.of = {f} /\ change[f] = "none"
    OBVIOUS
  <2>3. change[e] # "none"
    <3>1. CASE i # 1 \/ phase # "committed"
      BY <3>1, <2>1 DEF QueueInv, n
    <3>2. CASE i = 1 /\ phase = "committed"
      BY <3>2, <2>1
    <3>3. QED
      BY <3>1, <3>2
  <2>4. QED
    BY <2>1, <2>2, <2>3
<1>11. \A i, j \in 1..Len(queue') : i # j /\ queue'[i].kind # "drain" /\ queue'[j].kind # "drain" =>
         queue'[i].of \cap queue'[j].of = {}
  <2> SUFFICES ASSUME NEW i \in 1..Len(queue'), NEW j \in 1..Len(queue'), i # j,
                      queue'[i].kind # "drain", queue'[j].kind # "drain"
               PROVE  queue'[i].of \cap queue'[j].of = {}
    OBVIOUS
  <2>1. CASE i \in 1..n /\ j \in 1..n
    BY <2>1, <1>1 DEF QueueInv, IsDrain, n
  <2>2. CASE i \in 1..n /\ j = n + 1
    BY <2>2, <1>1, <1>10 DEF IsDrain
  <2>3. CASE i = n + 1 /\ j \in 1..n
    BY <2>3, <1>1, <1>10 DEF IsDrain
  <2>4. QED
    BY <2>1, <2>2, <2>3, <1>3
<1>12. PhaseInv'
  BY <1>1, <1>5, <1>6 DEF PhaseInv, n
<1>13. QED
  BY <1>7, <1>8, <1>9, <1>11, <1>12 DEF QueueInv, IsDrain

\* The case command at the head, before it has committed.
LEMMA CaseAtHead ==
    ASSUME IInv, Executes("input", "taken") \/ Executes("edit", "taken")
    PROVE  /\ queue # <<>> /\ phase = "taken" /\ Batch = queue[1].of
           /\ \E e \in Events : Batch = {e} /\ change[e] = "queued" /\ record[e] = "absent"
                               /\ e \notin waiting \cup released
           /\ \A i \in 2..Len(queue) : ~IsDrain(i) => queue[i].of \cap Batch = {}
<1>1. queue # <<>> /\ phase = "taken" /\ Head(queue).kind # "drain"
  BY DEF Executes
<1>2. /\ Batch = queue[1].of /\ ~IsDrain(1) /\ 1 \in 1..Len(queue) /\ Len(queue) \in Nat
      /\ QueueInv /\ ReportInv /\ EventFollowsCommit
  BY <1>1, HeadIsFirst DEF IInv, IsDrain
<1>3. PICK e \in Events : Batch = {e}
  BY <1>2 DEF QueueInv
<1>4. change[e] = "queued"
  BY <1>1, <1>2, <1>3 DEF QueueInv
<1>5. record[e] = "absent" /\ e \notin waiting \cup released
  BY <1>2, <1>4 DEF EventFollowsCommit, ReportInv
<1>6. \A i \in 2..Len(queue) : ~IsDrain(i) => queue[i].of \cap Batch = {}
  BY <1>2 DEF QueueInv
<1>7. QED
  BY <1>1, <1>2, <1>3, <1>4, <1>5, <1>6

LEMMA NotCommitted ==
    ASSUME IInv, AtRequest
    PROVE  \A kind : ~AtCommitted(kind)
BY DEF AtRequest, AtCommitted

LEMMA DrainAtHead ==
    ASSUME IInv, NEW at, Executes("drain", at)
    PROVE  /\ queue # <<>> /\ phase = at /\ Batch = queue[1].of /\ IsDrain(1)
           /\ 1 \in 1..Len(queue) /\ Batch \subseteq Events
           /\ \A e \in Batch : record[e] # "absent"
           /\ ~AtCommitted("input")
<1>1. queue # <<>> /\ phase = at /\ Head(queue).kind = "drain"
  BY DEF Executes
<1>2. Batch = queue[1].of /\ queue[1].kind = "drain" /\ 1 \in 1..Len(queue) /\ Batch \subseteq Events
  BY <1>1, HeadIsFirst DEF IInv
<1>3. QED
  BY <1>1, <1>2 DEF IInv, QueueInv, IsDrain, AtCommitted

-----------------------------------------------------------------------------
(* Steps that end a batch *)

\* What the five endings of a drain have in common: some records of the batch
\* take a status, all of them become completed if it has committed
\* undisturbed, and no case change moves.
DrainEnds(S, status) ==
    /\ Executes("drain", phase)
    /\ S \subseteq Batch /\ status \in {"failed", "completed"}
    /\ record' = [e \in Events |-> IF e \in S THEN status ELSE record[e]]
    /\ Finish({})
    /\ change' = change /\ governed' = governed /\ happened \subseteq happened'
    /\ untold' = untold
    /\ happened' = {} => IF phase = "committed" THEN S = Batch /\ status = "completed"
                                               ELSE status = "failed"

LEMMA DrainEndsReport ==
    ASSUME IInv, NEW S, NEW status, DrainEnds(S, status)
    PROVE  EventFollowsCommit' /\ ReportInv' /\ QueueInv' /\ PhaseInv'
<1>1. /\ queue # <<>> /\ Batch \subseteq Events /\ ~AtCommitted("input")
      /\ \A e \in Batch : record[e] # "absent"
  BY DrainAtHead DEF DrainEnds
<1>2. \A e \in Events : record'[e] = "absent" <=> record[e] = "absent"
  BY <1>1 DEF DrainEnds
<1>3. /\ TypeOK /\ EventFollowsCommit /\ QueueInv /\ ReportInv /\ Finish({}) /\ change' = change
      /\ untold' = untold
  BY DEF IInv, DrainEnds
<1>4. QueueInv' /\ PhaseInv'
  BY <1>1, <1>2, <1>3, FinishQueueInv
<1>5. EventFollowsCommit'
  BY <1>2, <1>3 DEF EventFollowsCommit
<1>6. /\ waiting' \cup released' = waiting \cup released
      /\ released' \cap waiting' \subseteq released /\ waiting' \subseteq waiting
      /\ queue' = <<>> => waiting' = {}
      /\ phase' = "taken"
  BY <1>3, FinishReleases
<1>7. waiting \cup released \subseteq Events
  BY <1>3 DEF TypeOK
<1>8. waiting' \cap released' = {}
  BY <1>3, <1>6 DEF ReportInv
<1>9. \A e \in waiting' \cup released' : change'[e] = "committed" /\ record'[e] = "absent"
  BY <1>2, <1>3, <1>6, <1>7 DEF ReportInv
<1>10. \A e \in Events :
          change'[e] = "committed" /\ record'[e] = "absent" => e \in waiting' \cup released' \cup untold'
  BY <1>1, <1>2, <1>3, <1>6 DEF ReportInv
<1>11. \A e \in Events : record'[e] = "overwritten" => e \in untold'
  BY <1>3 DEF ReportInv, DrainEnds
<1>12. QED
  BY <1>4, <1>5, <1>6, <1>8, <1>9, <1>10, <1>11 DEF ReportInv, AtCommitted

LEMMA DrainEndsGovern ==
    ASSUME IInv, NEW S, NEW status, DrainEnds(S, status)
    PROVE  GovernInv'
<1> SUFFICES ASSUME happened' = {}
             PROVE  /\ \A e \in Events : record'[e] # "deleted"
                    /\ \A i, j \in 1..Len(queue') :
                          i # j /\ queue'[i].kind = "drain" /\ queue'[j].kind = "drain" =>
                             queue'[i].of \cap queue'[j].of = {}
                    /\ \A i \in 1..Len(queue') : queue'[i].kind = "drain" =>
                          \A e \in queue'[i].of : record'[e] = "pending"
                    /\ \A e \in Events : governed'[e] <= 1
                    /\ \A e \in Events : governed'[e] # 0 => record'[e] = "completed"
  BY DEF GovernInv, IsDrain
<1>1. /\ queue # <<>> /\ Batch \subseteq Events /\ Batch = queue[1].of /\ IsDrain(1)
      /\ 1 \in 1..Len(queue)
  BY DrainAtHead DEF DrainEnds
<1>2. happened = {} /\ TypeOK /\ GovernInv
  BY DEF DrainEnds, IInv
<1>3. /\ \A e \in Events : record[e] # "deleted" /\ governed[e] <= 1
      /\ \A i, j \in 1..Len(queue) : i # j /\ IsDrain(i) /\ IsDrain(j) =>
            queue[i].of \cap queue[j].of = {}
      /\ \A i \in 1..Len(queue) : IsDrain(i) => \A e \in queue[i].of : record[e] = "pending"
      /\ \A e \in Events : governed[e] # 0 =>
            record[e] = "completed" \/ (AtCommitted("drain") /\ e \in queue[1].of)
  BY <1>2 DEF GovernInv
<1>4. /\ \A e \in Events : e \notin Batch => record'[e] = record[e]
      /\ \A e \in Events : record'[e] = record[e] \/ record'[e] = status
      /\ status \in {"failed", "completed"}
  BY DEF DrainEnds
<1>5. \A i \in 1..Len(queue') : i + 1 \in 1..Len(queue) /\ i + 1 # 1
                               /\ queue'[i].kind = queue[i + 1].kind /\ queue'[i].of = queue[i + 1].of
  BY <1>1, <1>2, FinishReleases, TailKeeps DEF DrainEnds
<1>6. \A e \in Events : record'[e] # "deleted"
  BY <1>3, <1>4
<1>7. ASSUME NEW i \in 1..Len(queue'), NEW j \in 1..Len(queue'), i # j,
             queue'[i].kind = "drain", queue'[j].kind = "drain"
      PROVE  queue'[i].of \cap queue'[j].of = {}
  <2>1. i + 1 # j + 1 /\ IsDrain(i + 1) /\ IsDrain(j + 1) /\ i + 1 \in 1..Len(queue) /\ j + 1 \in 1..Len(queue)
    BY <1>5, <1>7 DEF IsDrain
  <2>2. queue[i + 1].of \cap queue[j + 1].of = {}
    BY <2>1, <1>3
  <2>3. QED
    BY <2>2, <1>5
<1>8. ASSUME NEW i \in 1..Len(queue'), queue'[i].kind = "drain", NEW e \in queue'[i].of
      PROVE  record'[e] = "pending"
  <2>1. i + 1 # 1 /\ IsDrain(i + 1) /\ i + 1 \in 1..Len(queue) /\ e \in queue[i + 1].of
    BY <1>5, <1>8 DEF IsDrain
  <2>2. record[e] = "pending" /\ queue[i + 1].of \cap queue[1].of = {} /\ e \in Events
    BY <2>1, <1>1, <1>2, <1>3, CommandTypes
  <2>3. QED
    BY <2>1, <2>2, <1>1, <1>4
<1>9. \A e \in Events : governed'[e] <= 1
  BY <1>3 DEF DrainEnds
<1>10. ASSUME NEW e \in Events, governed'[e] # 0 PROVE record'[e] = "completed"
  <2>1. record[e] = "completed" \/ (AtCommitted("drain") /\ e \in Batch)
    BY <1>1, <1>3, <1>10 DEF DrainEnds
  <2>2. CASE e \in Batch
    <3>1. record[e] = "pending"
      BY <2>2, <1>1, <1>3
    <3>2. phase = "committed"
      BY <2>1, <3>1 DEF AtCommitted
    <3>3. QED
      BY <2>2, <3>2 DEF DrainEnds
  <2>3. CASE e \notin Batch
    BY <2>1, <2>3, <1>4
  <2>4. QED
    BY <2>2, <2>3
<1>11. QED
  BY <1>6, <1>7, <1>8, <1>9, <1>10

\* The endings of a drain are endings of that kind.
LEMMA DrainEndings ==
    ASSUME IInv, DrainBlocked \/ DrainReviewed \/ DrainRaises \/ DrainCompletes \/ DrainRaisesLate
    PROVE  \E S, status : DrainEnds(S, status)
<1>1. ASSUME queue # <<>> PROVE BeforeMissing \subseteq Batch
  BY DEF BeforeMissing
<1>2. CASE DrainBlocked
  <2>1. DrainEnds(BeforeMissing, "failed")
    BY <1>1, <1>2 DEF DrainBlocked, Defer, FailBatch, Settle, Executes, DrainEnds, ledger
  <2>2. QED
    BY <2>1
<1>3. CASE DrainReviewed \/ DrainRaises
  <2>1. DrainEnds(BeforeMissing, "failed")
    BY <1>1, <1>3 DEF DrainReviewed, DrainRaises, FailBatch, Settle, Executes, DrainEnds, ledger
  <2>2. QED
    BY <2>1
<1>4. CASE DrainRaisesLate
  <2>1. happened \subseteq happened' /\ happened' # {}
    BY <1>4 DEF DrainRaisesLate, Incident
  <2>2. DrainEnds(BeforeMissing, "failed")
    BY <1>1, <1>4, <2>1 DEF DrainRaisesLate, FailBatch, Settle, Executes, DrainEnds
  <2>3. QED
    BY <2>2
<1>5. CASE DrainCompletes
  <2>1. Executes("drain", phase) /\ Batch \subseteq Events /\ phase = "committed"
    BY <1>5, DrainAtHead DEF DrainCompletes, Executes
  <2>2. CASE BeforeMissing = Batch
    <3>1. DrainEnds(BeforeMissing, "completed")
      BY <1>5, <2>1, <2>2 DEF DrainCompletes, CompleteBatch, Settle, DrainEnds, ledger
    <3>2. QED
      BY <3>1
  <2>3. CASE BeforeMissing # Batch
    <3>1. happened # {}
      <4>1. PICK e \in Batch : e \notin BeforeMissing
        BY <2>3 DEF BeforeMissing
      <4>2. \E x \in Batch : record[x] = "deleted"
        BY <4>1 DEF BeforeMissing
      <4>3. QED
        BY <4>2, <2>1 DEF IInv, GovernInv
    <3>2. DrainEnds(BeforeMissing, "failed")
      BY <1>1, <1>5, <2>1, <2>3, <3>1
      DEF DrainCompletes, CompleteBatch, FailBatch, Settle, Executes, DrainEnds, ledger
    <3>3. QED
      BY <3>2
  <2>4. QED
    BY <2>2, <2>3
<1>6. QED
  BY <1>2, <1>3, <1>4, <1>5

LEMMA DrainEndsInv ==
    ASSUME IInv, DrainBlocked \/ DrainReviewed \/ DrainRaises \/ DrainCompletes \/ DrainRaisesLate
    PROVE  RecordInv'
BY DrainEndings, DrainEndsReport, DrainEndsGovern DEF RecordInv

-----------------------------------------------------------------------------
(* Steps of a drain that has not ended *)

LEMMA DrainGovernsInv == ASSUME IInv, DrainGoverns PROVE RecordInv'
<1>1. /\ queue # <<>> /\ phase = "taken" /\ IsDrain(1) /\ ~AtCommitted("input")
      /\ UNCHANGED <<changes, records, queue, governed, happened>> /\ phase' = "governing"
      /\ untold' = untold
  BY DrainAtHead DEF DrainGoverns, ledger
<1>2. change' = change /\ record' = record /\ waiting' = waiting /\ released' = released /\ queue' = queue
  BY <1>1 DEF changes, records
<1>3. QueueInv'
  BY <1>1, <1>2, SameQueueInv DEF IInv
<1>4. PhaseInv'
  BY <1>1, <1>2 DEF PhaseInv, IsDrain
<1>5. EventFollowsCommit'
  BY <1>2 DEF IInv, EventFollowsCommit
<1>6. ReportInv'
  BY <1>1, <1>2 DEF IInv, ReportInv, AtCommitted
<1>7. GovernInv'
  BY <1>1, <1>2 DEF IInv, GovernInv, AtCommitted, IsDrain
<1>8. QED
  BY <1>3, <1>4, <1>5, <1>6, <1>7 DEF RecordInv

LEMMA DrainCommitsInv == ASSUME IInv, DrainCommits PROVE RecordInv'
<1>1. /\ queue # <<>> /\ phase = "governing" /\ IsDrain(1) /\ ~AtCommitted("input")
      /\ 1 \in 1..Len(queue) /\ Batch = queue[1].of /\ Batch \subseteq Events
      /\ UNCHANGED <<changes, records, queue, happened>> /\ phase' = "committed"
      /\ untold' = untold
  BY DrainAtHead DEF DrainCommits, ledger
<1>2. change' = change /\ record' = record /\ waiting' = waiting /\ released' = released /\ queue' = queue
  BY <1>1 DEF changes, records
<1>3. QueueInv'
  BY <1>1, <1>2, SameQueueInv DEF IInv
<1>4. PhaseInv'
  BY <1>1, <1>2 DEF PhaseInv, IsDrain
<1>5. EventFollowsCommit'
  BY <1>2 DEF IInv, EventFollowsCommit
<1>6. ReportInv'
  BY <1>1, <1>2 DEF IInv, ReportInv, AtCommitted, IsDrain
<1>7. GovernInv'
  <2> SUFFICES ASSUME happened' = {}
               PROVE  /\ \A e \in Events : governed'[e] <= 1
                      /\ \A e \in Events : governed'[e] # 0 =>
                            record'[e] = "completed" \/ e \in queue'[1].of
    BY <1>1, <1>2 DEF IInv, GovernInv, AtCommitted, IsDrain
  <2>1. GovernInv /\ happened = {} /\ TypeOK
    BY <1>1 DEF IInv
  <2>2. \A e \in Batch : record[e] = "pending"
    BY <1>1, <2>1 DEF GovernInv
  <2>3. \A e \in Events : governed[e] \in Nat
    BY <2>1 DEF TypeOK
  <2>4. \A e \in Events : governed[e] # 0 => record[e] = "completed"
    BY <1>1, <2>1 DEF GovernInv, AtCommitted
  <2>5. \A e \in Batch : governed[e] = 0
    BY <1>1, <2>2, <2>4
  <2>6. \A e \in Events : governed'[e] = IF e \in Batch THEN governed[e] + 1 ELSE governed[e]
    BY DEF DrainCommits
  <2>7. \A e \in Events : governed[e] <= 1
    BY <2>1 DEF GovernInv
  <2>8. \A e \in Events : governed'[e] <= 1
    BY <2>5, <2>6, <2>7
  <2>9. QED
    BY <1>1, <1>2, <2>4, <2>6, <2>8
<1>8. QED
  BY <1>3, <1>4, <1>5, <1>6, <1>7 DEF RecordInv

\* A batch is assembled from ready events; if one of them is in a batch
\* already, happened remembers the overlap.
LEMMA RunOnceInv == ASSUME IInv, RunOnce PROVE RecordInv'
<1> DEFINE c == Command("drain", Assembled)
<1>1. /\ TypeOK /\ QueueInv /\ PhaseInv /\ EventFollowsCommit /\ ReportInv /\ GovernInv
      /\ AtRequest /\ \A kind : ~AtCommitted(kind)
  BY NotCommitted DEF IInv, RunOnce
<1>2. Assembled \subseteq Events /\ \A e \in Assembled : record[e] \in {"pending", "failed"}
  BY <1>1, AssembledReady DEF Ready
<1>3. c \in Commands /\ c.kind = "drain" /\ c.of = Assembled
  BY <1>2 DEF Command, Commands, Kinds
<1>4. /\ queue' = Append(queue, c) /\ phase' = phase /\ change' = change
      /\ waiting' = waiting /\ released' = released /\ governed' = governed
      /\ \A e \in Events : record'[e] = IF e \in Assembled THEN "pending" ELSE record[e]
  BY DEF RunOnce, changes, Marked
<1>5. \A e \in Events : record'[e] = "absent" <=> record[e] = "absent"
  BY <1>2, <1>4
<1> HIDE DEF c
<1>6. QueueInv' /\ PhaseInv'
  <2>1. \A e \in c.of : record'[e] # "absent"
    BY <1>2, <1>3, <1>4
  <2>2. QED
    BY <1>1, <1>3, <1>4, <1>5, <2>1, AppendQueueInv
<1>7. /\ queue' # <<>> /\ Len(queue) \in Nat /\ Len(queue') = Len(queue) + 1
      /\ \A i \in 1..Len(queue) : queue'[i] = queue[i]
      /\ queue'[Len(queue) + 1] = c
  BY <1>1, <1>3, <1>4, AppendKeeps
<1>8. \A kind : ~AtCommitted(kind)'
  BY <1>1, <1>4 DEF AtCommitted, AtRequest
<1>9. EventFollowsCommit'
  BY <1>1, <1>4, <1>5 DEF EventFollowsCommit
<1>10. waiting \cup released \subseteq Events /\ happened \subseteq happened'
  BY <1>1 DEF TypeOK, RunOnce
<1>11. untold' = untold /\ \A e \in Events : record'[e] = "overwritten" => record[e] = "overwritten"
  BY <1>4 DEF RunOnce
<1>12. ReportInv'
  BY <1>1, <1>4, <1>5, <1>7, <1>8, <1>10, <1>11 DEF ReportInv
<1>13. GovernInv'
  <2> SUFFICES ASSUME happened' = {} PROVE GovernInv'
    BY DEF GovernInv
  <2>1. happened = {} /\ \A e \in Assembled : ~Outstanding(e)
    BY DEF RunOnce
  <2>2. \A i \in 1..Len(queue) : IsDrain(i) => queue[i].of \cap Assembled = {}
    <3>1. DOMAIN queue = 1..Len(queue)
      BY <1>1 DEF TypeOK
    <3>2. QED
      BY <3>1, <2>1 DEF Outstanding, IsDrain
  <2>3. \A i \in 1..Len(queue) : queue[i].of \subseteq Events
    BY <1>1, CommandTypes
  <2>4. \A i \in 1..Len(queue') : i \in 1..Len(queue) \/ i = Len(queue) + 1
    BY <1>7
  <2>5. ASSUME NEW i \in 1..Len(queue'), NEW j \in 1..Len(queue'), i # j,
               queue'[i].kind = "drain", queue'[j].kind = "drain"
        PROVE  queue'[i].of \cap queue'[j].of = {}
    <3>1. CASE i \in 1..Len(queue) /\ j \in 1..Len(queue)
      BY <3>1, <2>1, <2>5, <1>1, <1>7 DEF GovernInv, IsDrain
    <3>2. CASE i \in 1..Len(queue) /\ j = Len(queue) + 1
      BY <3>2, <2>2, <2>5, <1>3, <1>7 DEF IsDrain
    <3>3. CASE i = Len(queue) + 1 /\ j \in 1..Len(queue)
      BY <3>3, <2>2, <2>5, <1>3, <1>7 DEF IsDrain
    <3>4. QED
      BY <3>1, <3>2, <3>3, <2>4, <2>5
  <2>6. ASSUME NEW i \in 1..Len(queue'), queue'[i].kind = "drain", NEW e \in queue'[i].of
        PROVE  record'[e] = "pending"
    <3>1. CASE i \in 1..Len(queue)
      <4>1. IsDrain(i) /\ e \in queue[i].of /\ e \in Events
        BY <3>1, <2>3, <2>6, <1>7 DEF IsDrain
      <4>2. record[e] = "pending"
        BY <3>1, <4>1, <2>1, <1>1 DEF GovernInv
      <4>3. QED
        BY <4>1, <4>2, <1>4
    <3>2. CASE i = Len(queue) + 1
      BY <3>2, <2>6, <1>2, <1>3, <1>4, <1>7
    <3>3. QED
      BY <3>1, <3>2, <2>4
  <2>7. \A e \in Events : record'[e] # "deleted" /\ governed'[e] <= 1
    BY <2>1, <1>1, <1>4 DEF GovernInv
  <2>8. ASSUME NEW e \in Events, governed'[e] # 0 PROVE record'[e] = "completed"
    BY <2>1, <2>8, <1>1, <1>2, <1>4 DEF GovernInv
  <2>9. QED
    BY <2>5, <2>6, <2>7, <2>8 DEF GovernInv, IsDrain
<1>14. QED
  BY <1>6, <1>9, <1>12, <1>13 DEF RecordInv

-----------------------------------------------------------------------------
(* Steps of a case change *)

\* A record that comes into being belongs to no batch and to no governed event.
LEMMA NewRecordGovern ==
    ASSUME IInv, governed' = governed, happened' = happened,
           ~AtCommitted("drain"),
           \A e \in Events : record'[e] = record[e] \/ (record[e] = "absent" /\ record'[e] = "pending"),
           \A i \in 1..Len(queue') : \E k \in 1..Len(queue) : queue'[i] = queue[k],
           \A i, j \in 1..Len(queue') : i # j => \E k, l \in 1..Len(queue) :
              k # l /\ queue'[i] = queue[k] /\ queue'[j] = queue[l]
    PROVE  GovernInv'
<1> SUFFICES ASSUME happened = {} PROVE GovernInv'
  BY DEF GovernInv
<1>1. /\ TypeOK /\ QueueInv
      /\ \A e \in Events : record[e] # "deleted" /\ governed[e] <= 1
      /\ \A i, j \in 1..Len(queue) : i # j /\ IsDrain(i) /\ IsDrain(j) =>
            queue[i].of \cap queue[j].of = {}
      /\ \A i \in 1..Len(queue) : IsDrain(i) => \A e \in queue[i].of : record[e] = "pending"
      /\ \A e \in Events : governed[e] # 0 => record[e] = "completed"
  BY DEF IInv, GovernInv
<1>2. ASSUME NEW i \in 1..Len(queue'), NEW j \in 1..Len(queue'), i # j,
             queue'[i].kind = "drain", queue'[j].kind = "drain"
      PROVE  queue'[i].of \cap queue'[j].of = {}
  <2>1. PICK k, l \in 1..Len(queue) : k # l /\ queue'[i] = queue[k] /\ queue'[j] = queue[l]
    BY <1>2
  <2>2. QED
    BY SMTT(60), <2>1, <1>1, <1>2 DEF IsDrain
<1>3. ASSUME NEW i \in 1..Len(queue'), queue'[i].kind = "drain", NEW e \in queue'[i].of
      PROVE  record'[e] = "pending"
  <2>1. PICK k \in 1..Len(queue) : queue'[i] = queue[k]
    BY <1>3
  <2>2. IsDrain(k) /\ e \in queue[k].of /\ e \in Events
    BY <2>1, <1>1, <1>3, CommandTypes DEF IsDrain
  <2>3. QED
    BY <2>1, <2>2, <1>1
<1>4. \A e \in Events : record'[e] # "deleted" /\ governed'[e] <= 1
  BY <1>1
<1>5. \A e \in Events : governed'[e] # 0 => record'[e] = "completed"
  BY <1>1
<1>6. QED
  BY <1>2, <1>3, <1>4, <1>5 DEF GovernInv, IsDrain

\* The end of the command at the head leaves commands of the queue.
LEMMA FinishCommands ==
    ASSUME TypeOK, queue # <<>>, NEW edits, Finish(edits)
    PROVE  /\ \A i \in 1..Len(queue') : \E k \in 1..Len(queue) : queue'[i] = queue[k]
           /\ \A i, j \in 1..Len(queue') : i # j => \E k, l \in 1..Len(queue) :
                 k # l /\ queue'[i] = queue[k] /\ queue'[j] = queue[l]
<1>1. \A i \in 1..Len(queue') : i + 1 \in 1..Len(queue) /\ queue'[i] = queue[i + 1]
  BY FinishReleases, TailKeeps
<1>2. QED
  BY <1>1

LEMMA SubmitInv == ASSUME IInv, NEW e \in Events, Submit(e) PROVE RecordInv'
<1>1. PICK kind \in {"edit", "input"} : queue' = Append(queue, Command(kind, {e}))
  BY DEF Submit
<1> DEFINE c == Command(kind, {e})
<1>2. /\ TypeOK /\ QueueInv /\ PhaseInv /\ EventFollowsCommit /\ ReportInv /\ GovernInv
      /\ \A k : ~AtCommitted(k)
  BY NotCommitted DEF IInv, Submit
<1>3. c \in Commands /\ c.kind # "drain" /\ c.of = {e}
  BY DEF Command, Commands, Kinds
<1>4. /\ queue' = Append(queue, c) /\ phase' = phase /\ record' = record /\ phase # "committed"
      /\ waiting' = waiting /\ released' = released /\ governed' = governed /\ happened' = happened
      /\ untold' = untold
      /\ change[e] = "none" /\ change'[e] = "queued"
      /\ \A x \in Events \ {e} : change'[x] = change[x]
  BY <1>1, <1>2 DEF Submit, records, ledger, TypeOK, AtRequest
<1> HIDE DEF c
<1>5. QueueInv' /\ PhaseInv'
  BY <1>2, <1>3, <1>4, AppendQueueInv
<1>6. /\ queue' # <<>> /\ Len(queue) \in Nat /\ Len(queue') = Len(queue) + 1
      /\ \A i \in 1..Len(queue) : queue'[i] = queue[i]
      /\ queue'[Len(queue) + 1] = c
  BY <1>2, <1>3, <1>4, AppendKeeps
<1>7. \A k : ~AtCommitted(k)'
  BY <1>4 DEF AtCommitted
<1>8. EventFollowsCommit'
  BY <1>2, <1>4 DEF EventFollowsCommit
<1>9. ReportInv'
  <2>1. waiting \cup released \subseteq Events /\ e \notin waiting \cup released
    BY <1>2, <1>4 DEF TypeOK, ReportInv
  <2>2. \A x \in Events : change'[x] = "committed" => change[x] = "committed"
    BY <1>4
  <2>3. QED
    BY <2>1, <2>2, <1>2, <1>4, <1>6, <1>7 DEF ReportInv
<1>10. GovernInv'
  <2>1. \A i \in 1..Len(queue') : queue'[i].kind = "drain" => i \in 1..Len(queue) /\ queue'[i] = queue[i]
    BY <1>3, <1>6
  <2>2. QED
    BY <2>1, <1>2, <1>4, <1>7 DEF GovernInv, IsDrain
<1>11. QED
  BY <1>5, <1>8, <1>9, <1>10 DEF RecordInv

LEMMA InputCommitsInv == ASSUME IInv, InputCommits PROVE RecordInv'
<1>1. /\ queue # <<>> /\ phase = "taken" /\ Batch = queue[1].of /\ Executes("input", "taken")
      /\ phase' = "committed" /\ queue' = queue /\ record' = record /\ waiting' = waiting
      /\ released' = released /\ governed' = governed /\ happened' = happened /\ untold' = untold
  BY CaseAtHead DEF InputCommits, records, ledger
<1>2. /\ TypeOK /\ QueueInv /\ EventFollowsCommit /\ ReportInv /\ GovernInv
      /\ queue[1].kind = "input" /\ 1 \in 1..Len(queue)
  BY <1>1, HeadIsFirst DEF IInv, Executes
<1>3. PICK e \in Events : /\ Batch = {e} /\ change[e] = "queued" /\ record[e] = "absent"
                          /\ e \notin waiting \cup released
  BY <1>1, CaseAtHead
<1>4. \A x \in Events : change'[x] = IF x = e THEN "committed" ELSE change[x]
  BY <1>3 DEF InputCommits, Becomes
<1>5. QueueInv'
  <2>1. ASSUME NEW i \in 1..Len(queue), ~IsDrain(i), i # 1 PROVE \A x \in queue[i].of : change'[x] = change[x]
    BY <2>1, <1>1, <1>3, <1>4, <1>2, CaseAtHead, CommandTypes
  <2>2. QED
    BY <2>1, <1>1, <1>2, SameQueueInv
<1>6. PhaseInv'
  BY <1>1, <1>2 DEF PhaseInv
<1>7. EventFollowsCommit'
  BY <1>1, <1>2, <1>4 DEF EventFollowsCommit
<1>8. waiting \cup released \subseteq Events
  BY <1>2 DEF TypeOK
<1>9. ReportInv'
  BY <1>1, <1>2, <1>3, <1>4, <1>8 DEF ReportInv, AtCommitted
<1>10. GovernInv'
  BY <1>1, <1>2 DEF GovernInv, IsDrain, AtCommitted
<1>11. QED
  BY <1>5, <1>6, <1>7, <1>9, <1>10 DEF RecordInv

LEMMA InputPublishesInv == ASSUME IInv, InputPublishes PROVE RecordInv'
<1>1. /\ queue # <<>> /\ phase = "committed" /\ queue[1].kind = "input" /\ 1 \in 1..Len(queue)
      /\ Batch = queue[1].of /\ Finish({}) /\ change' = change /\ governed' = governed
      /\ happened' = happened /\ untold' = untold
      /\ TypeOK /\ QueueInv /\ EventFollowsCommit /\ ReportInv /\ GovernInv
  BY HeadIsFirst DEF InputPublishes, Executes, IInv, ledger
<1>2. PICK e \in Events : Batch = {e}
  BY <1>1 DEF QueueInv, IsDrain
<1>3. change[e] = "committed" /\ record[e] = "absent" /\ e \notin waiting \cup released
  BY <1>1, <1>2 DEF ReportInv, AtCommitted
<1>4. \A x \in Events : record'[x] = IF x = e THEN "pending" ELSE record[x]
  BY <1>1, <1>2 DEF InputPublishes, Publish, TypeOK
<1>5. QueueInv' /\ PhaseInv'
  BY <1>1, <1>4, FinishQueueInv
<1>6. EventFollowsCommit'
  BY <1>1, <1>3, <1>4 DEF EventFollowsCommit
<1>7. /\ waiting' \cup released' = waiting \cup released
      /\ released' \cap waiting' \subseteq released /\ waiting' \subseteq waiting
      /\ queue' = <<>> => waiting' = {}
      /\ phase' = "taken"
  BY <1>1, FinishReleases
<1>8. waiting \cup released \subseteq Events
  BY <1>1 DEF TypeOK
<1>9. ReportInv'
  <2>1. waiting' \cap released' = {}
    BY <1>1, <1>7 DEF ReportInv
  <2>2. \A x \in waiting' \cup released' : change'[x] = "committed" /\ record'[x] = "absent"
    BY <1>1, <1>3, <1>4, <1>7, <1>8 DEF ReportInv
  <2>3. \A x \in Events :
          /\ change'[x] = "committed" /\ record'[x] = "absent" => x \in waiting' \cup released' \cup untold'
          /\ record'[x] = "overwritten" => x \in untold'
    BY <1>1, <1>2, <1>4, <1>7 DEF ReportInv
  <2>4. QED
    BY <2>1, <2>2, <2>3, <1>7 DEF ReportInv, AtCommitted
<1>10. GovernInv'
  <2>1. ~AtCommitted("drain")
    BY <1>1 DEF AtCommitted
  <2>2. QED
    BY <2>1, <1>1, <1>3, <1>4, FinishCommands, NewRecordGovern
<1>11. QED
  BY <1>5, <1>6, <1>9, <1>10 DEF RecordInv

LEMMA EditCommitsInv == ASSUME IInv, EditCommits PROVE RecordInv'
<1>1. /\ queue # <<>> /\ phase = "taken" /\ Batch = queue[1].of /\ Finish(Batch)
      /\ record' = record /\ governed' = governed /\ happened' = happened /\ untold' = untold
      /\ Executes("edit", "taken")
      /\ TypeOK /\ QueueInv /\ EventFollowsCommit /\ ReportInv /\ GovernInv
  BY CaseAtHead DEF EditCommits, records, ledger, IInv
<1>2. PICK e \in Events : /\ Batch = {e} /\ change[e] = "queued" /\ record[e] = "absent"
                          /\ e \notin waiting \cup released
  BY <1>1, CaseAtHead
<1>3. \A x \in Events : change'[x] = IF x = e THEN "committed" ELSE change[x]
  BY <1>2 DEF EditCommits, Becomes
<1>4. QueueInv' /\ PhaseInv'
  <2>1. \A i \in 2..Len(queue) : ~IsDrain(i) => \A x \in queue[i].of : x \in Events /\ x # e
    BY <1>1, <1>2, CaseAtHead, CommandTypes, HeadIsFirst
  <2>2. QED
    BY <2>1, <1>1, <1>3, FinishQueueInv
<1>5. EventFollowsCommit'
  BY <1>1, <1>3 DEF EventFollowsCommit
<1>6. /\ waiting' \cup released' = waiting \cup released \cup {e}
      /\ released' \cap waiting' \subseteq released /\ waiting' \subseteq waiting \cup {e}
      /\ queue' = <<>> => waiting' = {}
      /\ phase' = "taken"
  BY <1>1, <1>2, FinishReleases
<1>7. waiting \cup released \subseteq Events
  BY <1>1 DEF TypeOK
<1>8. ReportInv'
  <2>1. waiting' \cap released' = {}
    BY <1>1, <1>2, <1>6 DEF ReportInv
  <2>2. \A x \in waiting' \cup released' : change'[x] = "committed" /\ record'[x] = "absent"
    BY <1>1, <1>2, <1>3, <1>6, <1>7 DEF ReportInv
  <2>3. \A x \in Events :
          /\ change'[x] = "committed" /\ record'[x] = "absent" => x \in waiting' \cup released' \cup untold'
          /\ record'[x] = "overwritten" => x \in untold'
    BY <1>1, <1>3, <1>6 DEF ReportInv, AtCommitted
  <2>4. QED
    BY <2>1, <2>2, <2>3, <1>6 DEF ReportInv, AtCommitted
<1>9. GovernInv'
  <2>1. ~AtCommitted("drain")
    BY <1>1 DEF AtCommitted
  <2>2. QED
    BY <2>1, <1>1, FinishCommands, NewRecordGovern
<1>10. QED
  BY <1>4, <1>5, <1>8, <1>9 DEF RecordInv

\* A command that fails, or that commits and raises, ends without a request
\* that will publish.
LEMMA CaseFailsInv == ASSUME IInv, CaseFails \/ CaseRaisesLate PROVE RecordInv'
<1>1. /\ queue # <<>> /\ phase = "taken" /\ Batch = queue[1].of /\ Finish({})
      /\ record' = record /\ governed' = governed /\ happened' = happened
      /\ TypeOK /\ QueueInv /\ EventFollowsCommit /\ ReportInv /\ GovernInv
  BY CaseAtHead DEF CaseFails, CaseRaisesLate, Loses, Failing, records, IInv
<1>2. PICK e \in Events : /\ Batch = {e} /\ change[e] = "queued" /\ record[e] = "absent"
                          /\ e \notin waiting \cup released
  BY CaseAtHead DEF CaseFails, CaseRaisesLate
<1>3. /\ untold \subseteq untold'
      /\ \A x \in Events \ {e} : change'[x] = change[x]
      /\ change'[e] = "failed" \/ (change'[e] = "committed" /\ e \in untold')
  BY <1>2 DEF CaseFails, CaseRaisesLate, Loses, Becomes, ledger
<1>4. QueueInv' /\ PhaseInv'
  <2>1. \A i \in 2..Len(queue) : ~IsDrain(i) => \A x \in queue[i].of : x \in Events /\ x # e
    BY <1>1, <1>2, CaseAtHead, CommandTypes, HeadIsFirst DEF CaseFails, CaseRaisesLate
  <2>2. QED
    BY <2>1, <1>1, <1>3, FinishQueueInv
<1>5. EventFollowsCommit'
  BY <1>1, <1>2, <1>3 DEF EventFollowsCommit
<1>6. /\ waiting' \cup released' = waiting \cup released
      /\ released' \cap waiting' \subseteq released /\ waiting' \subseteq waiting
      /\ queue' = <<>> => waiting' = {}
      /\ phase' = "taken"
  BY <1>1, FinishReleases
<1>7. waiting \cup released \subseteq Events
  BY <1>1 DEF TypeOK
<1>8. ReportInv'
  <2>1. waiting' \cap released' = {}
    BY <1>1, <1>6 DEF ReportInv
  <2>2. \A x \in waiting' \cup released' : change'[x] = "committed" /\ record'[x] = "absent"
    BY <1>1, <1>2, <1>3, <1>6, <1>7 DEF ReportInv
  <2>3. \A x \in Events :
          /\ change'[x] = "committed" /\ record'[x] = "absent" => x \in waiting' \cup released' \cup untold'
          /\ record'[x] = "overwritten" => x \in untold'
    BY <1>1, <1>3, <1>6 DEF ReportInv, AtCommitted
  <2>4. QED
    BY <2>1, <2>2, <2>3, <1>6 DEF ReportInv, AtCommitted
<1>9. GovernInv'
  <2>1. ~AtCommitted("drain")
    BY <1>1 DEF AtCommitted
  <2>2. QED
    BY <2>1, <1>1, FinishCommands, NewRecordGovern
<1>10. QED
  BY <1>4, <1>5, <1>8, <1>9 DEF RecordInv

LEMMA EditPublishesInv == ASSUME IInv, NEW e \in Events, EditPublishes(e) PROVE RecordInv'
<1>1. /\ TypeOK /\ QueueInv /\ PhaseInv /\ EventFollowsCommit /\ ReportInv /\ GovernInv
      /\ \A k : ~AtCommitted(k)
      /\ e \in released /\ released' = released \ {e} /\ waiting' = waiting /\ change' = change
      /\ queue' = queue /\ phase' = phase /\ governed' = governed /\ happened' = happened
      /\ untold' = untold
  BY NotCommitted DEF IInv, EditPublishes, worker, ledger
<1>2. change[e] = "committed" /\ record[e] = "absent" /\ e \notin waiting
  BY <1>1 DEF ReportInv
<1>3. \A x \in Events : record'[x] = IF x = e THEN "pending" ELSE record[x]
  BY <1>1 DEF EditPublishes, Publish, TypeOK
<1>4. QueueInv' /\ PhaseInv'
  BY <1>1, <1>3, SameQueueInv DEF PhaseInv
<1>5. EventFollowsCommit'
  BY <1>1, <1>2, <1>3 DEF EventFollowsCommit
<1>6. waiting \cup released \subseteq Events
  BY <1>1 DEF TypeOK
<1>7. \A k : ~AtCommitted(k)'
  BY <1>1 DEF AtCommitted
<1>8. ReportInv'
  <2>1. \A x \in Events :
          /\ change'[x] = "committed" /\ record'[x] = "absent" => x \in waiting' \cup released' \cup untold'
          /\ record'[x] = "overwritten" => x \in untold'
    BY <1>1, <1>3 DEF ReportInv
  <2>2. \A x \in waiting' \cup released' : change'[x] = "committed" /\ record'[x] = "absent"
    BY <1>1, <1>2, <1>3, <1>6 DEF ReportInv
  <2>3. waiting' \cap released' = {} /\ (queue' = <<>> => waiting' = {})
    BY <1>1 DEF ReportInv
  <2>4. QED
    BY <2>1, <2>2, <2>3, <1>7 DEF ReportInv
<1>9. GovernInv'
  BY <1>1, <1>2, <1>3, NewRecordGovern
<1>10. QED
  BY <1>4, <1>5, <1>8, <1>9 DEF RecordInv

-----------------------------------------------------------------------------
(* Steps of the operator, the clock and the process *)

LEMMA IncidentInv ==
    ASSUME IInv, NEW e \in Events, RequeueEvent(e) \/ DeleteEvent(e)
    PROVE  RecordInv'
<1>1. /\ TypeOK /\ QueueInv /\ PhaseInv /\ EventFollowsCommit /\ ReportInv
      /\ \A k : ~AtCommitted(k)
      /\ released' = released /\ waiting' = waiting /\ change' = change
      /\ queue' = queue /\ phase' = phase
      /\ happened' # {} /\ untold' = untold
  BY NotCommitted DEF IInv, RequeueEvent, DeleteEvent, worker, changes, Incident
<1>2. /\ \A x \in Events : record'[x] = "absent" <=> record[x] = "absent"
      /\ \A x \in Events : record'[x] = "overwritten" => record[x] = "overwritten"
  <2>1. \A x \in Events \ {e} : record'[x] = record[x]
    BY <1>1 DEF RequeueEvent, DeleteEvent, TypeOK
  <2>2. record[e] # "absent" /\ record'[e] \in {"pending", "deleted"}
    BY <1>1 DEF RequeueEvent, DeleteEvent, Exists, TypeOK
  <2>3. QED
    BY <2>1, <2>2
<1>3. QueueInv' /\ PhaseInv'
  BY <1>1, <1>2, SameQueueInv DEF PhaseInv
<1>4. EventFollowsCommit'
  BY <1>1, <1>2 DEF EventFollowsCommit
<1>5. waiting \cup released \subseteq Events /\ \A k : ~AtCommitted(k)'
  BY <1>1 DEF TypeOK, AtCommitted
<1>6. ReportInv'
  BY <1>1, <1>2, <1>5 DEF ReportInv
<1>7. GovernInv'
  BY <1>1 DEF GovernInv
<1>8. QED
  BY <1>3, <1>4, <1>6, <1>7 DEF RecordInv

LEMMA CrashInv == ASSUME IInv, Crash PROVE RecordInv'
<1>1. /\ TypeOK /\ EventFollowsCommit
      /\ queue' = <<>> /\ phase' = "taken" /\ waiting' = {} /\ released' = {} /\ record' = record
      /\ happened' # {} /\ ReportInv
      /\ untold' = untold \cup {e \in Events : change[e] = "committed" /\ record[e] = "absent"}
      /\ \A e \in Events : change'[e] = IF change[e] = "queued" THEN "failed" ELSE change[e]
  BY DEF IInv, Crash, Incident, records
<1>2. Len(queue') = 0
  BY <1>1
<1>3. QueueInv' /\ PhaseInv'
  BY <1>1, <1>2 DEF QueueInv, PhaseInv
<1>4. EventFollowsCommit'
  BY <1>1 DEF EventFollowsCommit
<1>5. ReportInv' /\ GovernInv'
  BY <1>1 DEF ReportInv, GovernInv, AtCommitted
<1>6. QED
  BY <1>3, <1>4, <1>5 DEF RecordInv

LEMMA InputUnsavedInv == ASSUME IInv, InputUnsaved PROVE RecordInv'
<1>1. /\ queue # <<>> /\ phase = "committed" /\ queue[1].kind = "input" /\ 1 \in 1..Len(queue)
      /\ Batch = queue[1].of /\ Finish({}) /\ change' = change /\ record' = record
      /\ governed' = governed /\ happened' = happened /\ untold' = untold \cup Batch
      /\ TypeOK /\ QueueInv /\ EventFollowsCommit /\ ReportInv /\ GovernInv
  BY HeadIsFirst DEF InputUnsaved, Executes, Loses, records, IInv
<1>2. QueueInv' /\ PhaseInv'
  BY <1>1, FinishQueueInv
<1>3. EventFollowsCommit'
  BY <1>1 DEF EventFollowsCommit
<1>4. /\ waiting' \cup released' = waiting \cup released
      /\ released' \cap waiting' \subseteq released /\ waiting' \subseteq waiting
      /\ queue' = <<>> => waiting' = {}
      /\ phase' = "taken"
  BY <1>1, FinishReleases
<1>5. ReportInv'
  BY <1>1, <1>4 DEF ReportInv, AtCommitted, TypeOK
<1>6. GovernInv'
  <2>1. ~AtCommitted("drain")
    BY <1>1 DEF AtCommitted
  <2>2. QED
    BY <2>1, <1>1, FinishCommands, NewRecordGovern
<1>7. QED
  BY <1>2, <1>3, <1>5, <1>6 DEF RecordInv

LEMMA EditUnsavedInv == ASSUME IInv, NEW e \in Events, EditUnsaved(e) PROVE RecordInv'
<1>1. /\ TypeOK /\ QueueInv /\ PhaseInv /\ EventFollowsCommit /\ ReportInv /\ GovernInv
      /\ \A k : ~AtCommitted(k)
      /\ released' = released \ {e} /\ waiting' = waiting /\ change' = change /\ record' = record
      /\ queue' = queue /\ phase' = phase /\ governed' = governed /\ happened' = happened
      /\ untold' = untold \cup {e}
  BY NotCommitted DEF IInv, EditUnsaved, Loses, worker, records
<1>2. QueueInv' /\ PhaseInv' /\ EventFollowsCommit'
  BY <1>1 DEF QueueInv, PhaseInv, EventFollowsCommit, IsDrain
<1>3. ReportInv'
  BY <1>1 DEF ReportInv, AtCommitted
<1>4. GovernInv'
  BY <1>1 DEF GovernInv, IsDrain, AtCommitted
<1>5. QED
  BY <1>2, <1>3, <1>4 DEF RecordInv

\* The file that another event takes is in no batch.
LEMMA OverwriteInv == ASSUME IInv, NEW e \in Events, OverwriteEvent(e) PROVE RecordInv'
<1>1. /\ TypeOK /\ QueueInv /\ PhaseInv /\ EventFollowsCommit /\ ReportInv /\ GovernInv
      /\ released' = released /\ waiting' = waiting /\ change' = change
      /\ queue' = queue /\ phase' = phase /\ governed' = governed /\ happened' = happened
      /\ untold' = untold \cup {e}
  BY DEF IInv, OverwriteEvent, Loses, worker, changes
<1>2. /\ record[e] = "pending"
      /\ \A x \in Events : record'[x] = IF x = e THEN "overwritten" ELSE record[x]
  BY <1>1 DEF OverwriteEvent, TypeOK
<1>3. \A i \in 1..Len(queue) : IsDrain(i) => e \notin queue[i].of
  <2>1. DOMAIN queue = 1..Len(queue)
    BY <1>1 DEF TypeOK
  <2>2. QED
    BY <2>1 DEF OverwriteEvent, Outstanding, IsDrain
<1>4. QueueInv' /\ PhaseInv'
  BY <1>1, <1>2, SameQueueInv DEF PhaseInv
<1>5. EventFollowsCommit'
  BY <1>1, <1>2 DEF EventFollowsCommit
<1>6. waiting \cup released \subseteq Events
  BY <1>1 DEF TypeOK
<1>7. AtCommitted("input") => 1 \in 1..Len(queue) /\ queue[1].of \subseteq Events
  BY <1>1, HeadIsFirst DEF AtCommitted, Commands
<1>8. ReportInv'
  BY <1>1, <1>2, <1>6, <1>7 DEF ReportInv, AtCommitted
<1>9. GovernInv'
  <2> SUFFICES ASSUME happened = {} PROVE GovernInv'
    BY <1>1 DEF GovernInv
  <2>1. \A i \in 1..Len(queue) : queue[i].of \subseteq Events
    BY <1>1, CommandTypes
  <2>2. \A i \in 1..Len(queue) : IsDrain(i) => \A x \in queue[i].of : record'[x] = "pending"
    BY <2>1, <1>1, <1>2, <1>3 DEF GovernInv
  <2>3. AtCommitted("drain") => 1 \in 1..Len(queue) /\ IsDrain(1)
    BY <1>1, HeadIsFirst DEF AtCommitted, IsDrain
  <2>4. \A x \in Events : governed[x] # 0 => record'[x] = "completed" \/ (AtCommitted("drain") /\ x \in queue[1].of)
    BY <2>3, <1>1, <1>2, <1>3 DEF GovernInv
  <2>5. QED
    BY <2>2, <2>4, <1>1, <1>2 DEF GovernInv, IsDrain, AtCommitted
<1>10. QED
  BY <1>4, <1>5, <1>8, <1>9 DEF RecordInv

\* The clock, the review and the steps of others concern none of it.
LEMMA OtherInv ==
    ASSUME IInv, UNCHANGED <<changes, record, worker, governed, happened, untold>>
    PROVE  RecordInv'
BY DEF changes, worker, IInv, RecordInv, QueueInv, PhaseInv, EventFollowsCommit, ReportInv, GovernInv,
       IsDrain, AtCommitted

-----------------------------------------------------------------------------
(* The theorems *)

LEMMA InitIInv == Init => IInv
<1> SUFFICES ASSUME Init PROVE IInv
  OBVIOUS
<1>1. queue = <<>> /\ Len(queue) = 0 /\ TypeOK
  BY InitTypeOK DEF Init
<1>2. QueueInv /\ PhaseInv /\ EventFollowsCommit
  BY <1>1 DEF Init, QueueInv, PhaseInv, EventFollowsCommit
<1>3. ReportInv /\ GovernInv
  BY <1>1 DEF Init, ReportInv, GovernInv, AtCommitted
<1>4. QED
  BY <1>1, <1>2, <1>3 DEF IInv

LEMMA NextIInv == IInv /\ [Next]_vars => IInv'
<1> SUFFICES ASSUME IInv, [Next]_vars PROVE RecordInv'
  BY NextTypeOK DEF IInv, RecordInv
<1>1. ASSUME NEW e \in Events,
             \/ Submit(e) \/ EditPublishes(e) \/ RequeueEvent(e) \/ DeleteEvent(e)
             \/ EditUnsaved(e) \/ OverwriteEvent(e) \/ RetryDue(e)
      PROVE  RecordInv'
  <2>1. CASE RetryDue(e)
    BY <2>1, OtherInv DEF RetryDue, ledger
  <2>2. QED
    BY <1>1, <2>1, SubmitInv, EditPublishesInv, IncidentInv, EditUnsavedInv, OverwriteInv
<1>2. CASE InputCommits \/ InputPublishes \/ InputUnsaved \/ EditCommits \/ CaseFails \/ CaseRaisesLate
  BY <1>2, InputCommitsInv, InputPublishesInv, InputUnsavedInv, EditCommitsInv, CaseFailsInv
<1>3. CASE DrainGoverns \/ DrainCommits
  BY <1>3, DrainGovernsInv, DrainCommitsInv
<1>4. CASE DrainBlocked \/ DrainReviewed \/ DrainRaises \/ DrainCompletes \/ DrainRaisesLate
  BY <1>4, DrainEndsInv
<1>5. CASE RunOnce
  BY <1>5, RunOnceInv
<1>6. CASE Review
  BY <1>6, OtherInv DEF Review, records, ledger
<1>7. CASE Crash
  BY <1>7, CrashInv
<1>8. CASE UNCHANGED vars
  BY <1>8, OtherInv DEF vars, records, ledger
<1>9. QED
  BY <1>1, <1>2, <1>3, <1>4, <1>5, <1>6, <1>7, <1>8 DEF Next, Worker

\* In every reachable state the record of a change agrees with where its command,
\* its request or its batch is on the way: a committed change without a record
\* is owed one by its command or its request, or an incident has lost it.
THEOREM Invariance == Safety => []IInv
BY InitIInv, NextIInv, PTL DEF Safety

\* Every field keeps its type, and the ledger their bounds.
THEOREM TypeCorrect == Spec => []TypeOK
<1>1. IInv => TypeOK
  BY DEF IInv
<1>2. QED
  BY <1>1, Invariance, PTL DEF Spec

\* record_event runs for changes that are in Git and for no other.
THEOREM EventFollowsCommitAlways == Spec => []EventFollowsCommit
<1>1. IInv => EventFollowsCommit
  BY DEF IInv
<1>2. QED
  BY <1>1, Invariance, PTL DEF Spec

\* An idle partition whose requests have returned owes no event, but for the
\* changes whose event one of the four named incidents has lost.
THEOREM CommitIsReportedAlways == Spec => []CommitIsReported
<1>1. IInv => CommitIsReported
  BY DEF IInv, ReportInv, CommitIsReported, AtCommitted
<1>2. QED
  BY <1>1, Invariance, PTL DEF Spec

\* An undisturbed change is governed by one committed drain at most, however
\* many batches it comes back in.
THEOREM GovernedOnceAlways == Spec => []GovernedOnce
<1>1. IInv => GovernedOnce
  BY DEF IInv, GovernInv, GovernedOnce
<1>2. QED
  BY <1>1, Invariance, PTL DEF Spec
=============================================================================
