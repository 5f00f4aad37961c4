------------------------- MODULE AgentRuntimeProofs -------------------------
(***************************************************************************)
(* Theorems about AgentRuntime for any requests, with any limits, and any  *)
(* decisions of the model.  RunInv says what holds of a run at each place  *)
(* of its execution.  Behind them, theorems about TraceReplay for any      *)
(* sessions of a run: TraceInv says what holds of the rows after each      *)
(* write, and the reader's promises follow from it.                        *)
(***************************************************************************)
EXTENDS AgentRuntime, TraceReplay, FiniteSetTheorems, WellFoundedInduction, TLAPS

RowType == [status: Final \cup {"none", "running"}, count: Nat, calls: [Kinds -> Nat]]
TraceType == [work: Nat, extra: Nat, calls: [Kinds -> Nat]]
MemoryType == [failed: BOOLEAN, verdict: Verdicts, subruns: Nat]
DecisionType == [actions: Seq(Capabilities), stop: BOOLEAN, review: BOOLEAN]

\* How far the trace of the request's run may be when it stands at a place.
StepsAt(r) ==
    /\ pc[r] = "idle" => Length(trace[r]) = 0
    /\ pc[r] = "planning" => Length(trace[r]) <= request[r].work.steps + 2
    /\ pc[r] \in {"acting", "checking", "gate", "waiting"} =>
          Length(trace[r]) <= request[r].work.steps
    /\ pc[r] = "ended" => Length(trace[r]) <= request[r].work.steps + 3

\* A call is in the trace and not in the row only if its tool raised.
CallsAt(r) ==
    /\ \A k \in Kinds : trace[r].calls[k] <= request[r].work.calls[k]
    /\ pc[r] = "idle" => row[r].calls = NoCalls
    /\ trace[r].calls = row[r].calls \/ (memory[r].failed /\ pc[r] \in {"checking", "ended"})

SubrunsAt(r) ==
    /\ memory[r].subruns <= request[r].subruns
    /\ pc[r] = "waiting" => request[r].allowSubrun /\ memory[r].subruns < request[r].subruns

FailureAt(r) ==
    memory[r].failed =>
        /\ pc[r] \in {"acting", "checking", "ended"}
        /\ pc[r] = "ended" => row[r].status = "failed"

RunInv(r) ==
    /\ pc[r] = "acting" => decision[r].actions # <<>>
    /\ row[r].count = Length(trace[r]) \/ (r # Main /\ pc[r] = "planning")
    /\ FailureAt(r)
    /\ r = Main => StepsAt(r) /\ CallsAt(r) /\ SubrunsAt(r)
    /\ pc[r] = "waiting" => request[r].mode = "subrun"
    /\ pc[r] = "ended" => row[r].status \in Final
    /\ (r # Main /\ pc[r] # "idle") => request[r].mode = "deterministic"

IInv == TypeOK /\ \A r \in Runs : RunInv(r)

\* What a step leaves alone of a run.
Same0(q) == request'[q] = request[q] /\ decision'[q] = decision[q]
Same(q) == /\ Same0(q)
           /\ row'[q] = row[q] /\ trace'[q] = trace[q]
           /\ memory'[q] = memory[q] /\ pc'[q] = pc[q]

USE RuntimeAssumption

-----------------------------------------------------------------------------
(* What the shared effects do to the rows and traces *)

LEMMA StoredType ==
    ASSUME NEW t \in TraceType, NEW w \in Nat, NEW x \in Nat
    PROVE  /\ Stored(t, w, x) \in TraceType
           /\ Stored(t, w, x).calls = t.calls
           /\ Length(Stored(t, w, x)) = Length(t) + w + x
           /\ Length(t) \in Nat
<1>1. t.work \in Nat /\ t.extra \in Nat /\ t.calls \in [Kinds -> Nat] BY DEF TraceType
<1>2. t.work + w \in Nat /\ t.extra + x \in Nat BY <1>1
<1> QED BY <1>1, <1>2 DEF Stored, TraceType, Length

LEMMA CountedRow ==
    ASSUME NEW w \in RowType, NEW t, Length(t) \in Nat
    PROVE  /\ Counted(w, t) \in RowType
           /\ Counted(w, t).calls = w.calls
           /\ Counted(w, t).count = Length(t)
           /\ Counted(w, t).status = w.status
BY DEF Counted, RowType

LEMMA AppendFacts ==
    ASSUME TypeOK, NEW r \in Runs, NEW w \in Nat, NEW x \in Nat, AppendStep(r, w, x)
    PROVE  /\ trace' \in [Runs -> TraceType]
           /\ row' \in [Runs -> RowType]
           /\ Length(trace[r])' = Length(trace[r]) + w + x
           /\ trace'[r].calls = trace[r].calls
           /\ row'[r].count = Length(trace'[r])
           /\ row'[r].calls = row[r].calls
           /\ row'[r].status = row[r].status
           /\ \A q \in Runs : q # r => trace'[q] = trace[q] /\ row'[q] = row[q]
<1>1. trace \in [Runs -> TraceType] /\ row \in [Runs -> RowType]
  BY DEF TypeOK, TraceType, RowType
<1>2. trace'[r] = Stored(trace[r], w, x) /\ \A q \in Runs : q # r => trace'[q] = trace[q]
  BY <1>1 DEF AppendStep
<1>3. /\ row'[r] = Counted(row[r], Stored(trace[r], w, x))
      /\ \A q \in Runs : q # r => row'[q] = row[q]
  BY <1>1 DEF AppendStep
<1>4. /\ Stored(trace[r], w, x) \in TraceType
      /\ Stored(trace[r], w, x).calls = trace[r].calls
      /\ Length(Stored(trace[r], w, x)) = Length(trace[r]) + w + x
      /\ Length(trace[r]) \in Nat
  BY <1>1, StoredType
<1>5. trace' \in [Runs -> TraceType] BY <1>1, <1>4 DEF AppendStep
<1>6. /\ Counted(row[r], Stored(trace[r], w, x)) \in RowType
      /\ row'[r].calls = row[r].calls /\ row'[r].status = row[r].status
      /\ row'[r].count = Length(Stored(trace[r], w, x))
  BY <1>1, <1>3, <1>4, CountedRow
<1>7. row' \in [Runs -> RowType] BY <1>1, <1>6 DEF AppendStep
<1> QED BY <1>2, <1>3, <1>4, <1>5, <1>6, <1>7 DEF Length

LEMMA FinishFacts ==
    ASSUME TypeOK, NEW r \in Runs, NEW s \in Final, NEW x \in Nat, Finish(r, s, x)
    PROVE  /\ trace' \in [Runs -> TraceType]
           /\ row' \in [Runs -> RowType]
           /\ pc' \in [Runs -> Places]
           /\ Length(trace[r])' = Length(trace[r]) + x
           /\ trace'[r].calls = trace[r].calls
           /\ row'[r].count = Length(trace'[r])
           /\ row'[r].calls = row[r].calls
           /\ row'[r].status = s
           /\ pc'[r] = "ended"
           /\ \A q \in Runs : q # r => /\ trace'[q] = trace[q]
                                       /\ row'[q] = row[q]
                                       /\ pc'[q] = pc[q]
<1>1. trace \in [Runs -> TraceType] /\ row \in [Runs -> RowType]
  BY DEF TypeOK, TraceType, RowType
<1>2. trace'[r] = Stored(trace[r], 0, x) /\ \A q \in Runs : q # r => trace'[q] = trace[q]
  BY <1>1 DEF Finish
<1>3. /\ row'[r] = [row[r] EXCEPT !.status = s, !.count = Length(Stored(trace[r], 0, x))]
      /\ \A q \in Runs : q # r => row'[q] = row[q]
  BY <1>1 DEF Finish
<1>4. /\ Stored(trace[r], 0, x) \in TraceType
      /\ Stored(trace[r], 0, x).calls = trace[r].calls
      /\ Length(Stored(trace[r], 0, x)) = Length(trace[r]) + x
      /\ Length(trace[r]) \in Nat
  BY <1>1, StoredType
<1>5. trace' \in [Runs -> TraceType] BY <1>1, <1>4 DEF Finish
<1>6. row' \in [Runs -> RowType]
  <2>1. row[r] \in RowType BY <1>1
  <2>2. Length(Stored(trace[r], 0, x)) \in Nat BY <1>4
  <2>3. [row[r] EXCEPT !.status = s, !.count = Length(Stored(trace[r], 0, x))] \in RowType
    BY <2>1, <2>2 DEF RowType
  <2> QED BY <1>1, <2>3 DEF Finish
<1>7. /\ pc' \in [Runs -> Places] /\ pc'[r] = "ended"
      /\ \A q \in Runs : q # r => pc'[q] = pc[q]
  BY DEF Finish, TypeOK, Places
<1> QED BY <1>1, <1>2, <1>3, <1>4, <1>5, <1>6, <1>7 DEF Length, RowType

LEMMA RequestFacts ==
    ASSUME TypeOK, NEW r \in Runs
    PROVE  /\ request[r] \in RequestType
           /\ request[r].work.steps \in Nat
           /\ request[r].subruns \in Nat
           /\ \A k \in Kinds : request[r].work.calls[k] \in Nat
<1>1. request[r] \in RequestType BY DEF TypeOK
<1>2. request[r].work \in Bounds /\ request[r].subruns \in Nat BY <1>1 DEF RequestType
<1>3. request[r].work.steps \in Nat /\ request[r].work.calls \in [Kinds -> Nat]
  BY <1>2 DEF Bounds
<1> QED BY <1>1, <1>2, <1>3

LEMMA RaiseFacts ==
    ASSUME TypeOK, NEW r \in Runs, NEW w \in Nat, Raise(r, w)
    PROVE  /\ TypeOK'
           /\ Length(trace[r])' = Length(trace[r]) + w + 1
           /\ trace'[r].calls = trace[r].calls
           /\ row'[r].count = Length(trace'[r])
           /\ row'[r].calls = row[r].calls
           /\ row'[r].status = "failed"
           /\ memory'[r].failed
           /\ memory'[r].subruns = memory[r].subruns
           /\ pc'[r] = "ended"
           /\ \A q \in Runs : q # r => Same(q)
           /\ Same0(r)
<1>1. /\ trace \in [Runs -> TraceType] /\ row \in [Runs -> RowType]
      /\ memory \in [Runs -> MemoryType]
  BY DEF TypeOK, TraceType, RowType, MemoryType
<1>2. trace'[r] = Stored(trace[r], w, 1) /\ \A q \in Runs : q # r => trace'[q] = trace[q]
  BY <1>1 DEF Raise
<1>3. /\ row'[r] = [row[r] EXCEPT !.status = "failed", !.count = Length(Stored(trace[r], w, 1))]
      /\ \A q \in Runs : q # r => row'[q] = row[q]
  BY <1>1 DEF Raise
<1>4. /\ Stored(trace[r], w, 1) \in TraceType
      /\ Stored(trace[r], w, 1).calls = trace[r].calls
      /\ Length(Stored(trace[r], w, 1)) = Length(trace[r]) + w + 1
      /\ Length(trace[r]) \in Nat
  BY <1>1, StoredType
<1>5. trace' \in [Runs -> TraceType] BY <1>1, <1>4 DEF Raise
<1>6. row' \in [Runs -> RowType]
  <2>1. row[r] \in RowType BY <1>1
  <2>2. Length(Stored(trace[r], w, 1)) \in Nat BY <1>4
  <2>3. [row[r] EXCEPT !.status = "failed", !.count = Length(Stored(trace[r], w, 1))]
          \in RowType
    BY <2>1, <2>2 DEF RowType, Final
  <2> QED BY <1>1, <2>3 DEF Raise
<1>7. /\ pc' \in [Runs -> Places] /\ pc'[r] = "ended"
      /\ \A q \in Runs : q # r => pc'[q] = pc[q]
  BY DEF Raise, TypeOK, Places
<1>8. /\ memory'[r] = [memory[r] EXCEPT !.failed = TRUE]
      /\ memory' \in [Runs -> MemoryType]
      /\ \A q \in Runs : q # r => memory'[q] = memory[q]
  BY <1>1 DEF Raise, MemoryType
<1>9. memory'[r].failed /\ memory'[r].subruns = memory[r].subruns
  BY <1>1, <1>8 DEF MemoryType
<1>10. TypeOK'
  <2>1. raised' \in [Runs -> BOOLEAN] BY DEF Raise, TypeOK
  <2>2. UNCHANGED <<request, decision, satisfied>> BY DEF Raise
  <2> QED BY <1>5, <1>6, <1>7, <1>8, <2>1, <2>2
          DEF TypeOK, RowType, TraceType, MemoryType
<1>11. row'[r].count = Length(trace'[r]) /\ row'[r].calls = row[r].calls
       /\ row'[r].status = "failed"
  BY <1>1, <1>2, <1>3 DEF RowType
<1>12. request' = request /\ decision' = decision BY DEF Raise
<1>13. Length(trace[r])' = Length(trace[r]) + w + 1 /\ trace'[r].calls = trace[r].calls
  BY <1>2, <1>4 DEF Length
<1> QED BY <1>2, <1>3, <1>7, <1>8, <1>9, <1>10, <1>11, <1>12, <1>13 DEF Same, Same0

-----------------------------------------------------------------------------
(* A step keeps the invariant *)

LEMMA OthersKeep ==
    ASSUME IInv, NEW q \in Runs, Same(q)
    PROVE  RunInv(q)'
<1>1. RunInv(q) BY DEF IInv
<1>2. /\ request'[q] = request[q] /\ decision'[q] = decision[q] /\ row'[q] = row[q]
      /\ trace'[q] = trace[q] /\ memory'[q] = memory[q] /\ pc'[q] = pc[q]
  BY DEF Same, Same0
<1> QED BY <1>1, <1>2 DEF RunInv, StepsAt, CallsAt, SubrunsAt, FailureAt, Length

LEMMA RunKeeps ==
    ASSUME IInv, NEW r \in Runs, TypeOK', RunInv(r)', \A q \in Runs : q # r => Same(q)
    PROVE  IInv'
<1>1. \A q \in Runs : RunInv(q)' BY OthersKeep
<1> QED BY <1>1 DEF IInv

LEMMA RaiseKeeps ==
    ASSUME IInv, NEW r \in Runs, NEW w \in Nat, Raise(r, w), pc[r] # "idle",
           r = Main => Length(trace[r]) + w <= request[r].work.steps + 2
    PROVE  IInv'
<1>1. TypeOK /\ RunInv(r) BY DEF IInv
<1>2. /\ TypeOK'
      /\ Length(trace[r])' = Length(trace[r]) + w + 1
      /\ trace'[r].calls = trace[r].calls
      /\ row'[r].count = Length(trace'[r])
      /\ row'[r].calls = row[r].calls
      /\ row'[r].status = "failed"
      /\ memory'[r].failed
      /\ memory'[r].subruns = memory[r].subruns
      /\ pc'[r] = "ended"
      /\ \A q \in Runs : q # r => Same(q)
      /\ request'[r] = request[r]
  BY <1>1, RaiseFacts DEF Same0
<1>3. FailureAt(r)' BY <1>2 DEF FailureAt
<1>4. ASSUME r = Main PROVE StepsAt(r)' /\ CallsAt(r)' /\ SubrunsAt(r)'
  <2>1. StepsAt(r)'
    <3>1. Length(trace[r]) \in Nat BY <1>1, StoredType DEF TypeOK, TraceType
    <3> QED BY <1>2, <1>4, <1>1, <3>1, RequestFacts DEF StepsAt
  <2>2. CallsAt(r)' BY <1>1, <1>2, <1>4 DEF CallsAt, RunInv
  <2>3. SubrunsAt(r)' BY <1>1, <1>2, <1>4 DEF SubrunsAt, RunInv
  <2> QED BY <2>1, <2>2, <2>3
<1>5. (r # Main /\ pc'[r] # "idle") => request'[r].mode = "deterministic"
  BY <1>1, <1>2 DEF RunInv
<1>6. RunInv(r)' BY <1>2, <1>3, <1>4, <1>5 DEF RunInv, Final, Length
<1> QED BY <1>2, <1>6, RunKeeps

LEMMA FinishKeeps ==
    ASSUME IInv, NEW r \in Runs, NEW s \in Final, NEW x \in Nat, Finish(r, s, x),
           pc[r] # "idle",
           request' = request, decision' = decision, raised' = raised, satisfied' = satisfied,
           memory' \in [Runs -> MemoryType], \A q \in Runs : q # r => memory'[q] = memory[q],
           memory[r].failed => memory'[r].failed,
           memory'[r].failed => s = "failed",
           r = Main => /\ memory'[r].subruns <= request[r].subruns
                       /\ Length(trace[r]) + x <= request[r].work.steps + 3
    PROVE  IInv'
<1>1. TypeOK /\ RunInv(r) BY DEF IInv
<1>2. /\ trace' \in [Runs -> TraceType]
      /\ row' \in [Runs -> RowType]
      /\ pc' \in [Runs -> Places]
      /\ Length(trace[r])' = Length(trace[r]) + x
      /\ trace'[r].calls = trace[r].calls
      /\ row'[r].count = Length(trace'[r])
      /\ row'[r].calls = row[r].calls
      /\ row'[r].status = s
      /\ pc'[r] = "ended"
      /\ \A q \in Runs : q # r => Same(q)
  BY <1>1, FinishFacts DEF Same, Same0
<1>3. TypeOK' BY <1>1, <1>2 DEF TypeOK, RowType, TraceType, MemoryType
<1>4. FailureAt(r)' BY <1>2 DEF FailureAt
<1>5. ASSUME r = Main PROVE StepsAt(r)' /\ CallsAt(r)' /\ SubrunsAt(r)'
  <2>1. StepsAt(r)' BY <1>2, <1>5 DEF StepsAt
  <2>2. CallsAt(r)' BY <1>1, <1>2, <1>5 DEF CallsAt, RunInv
  <2>3. SubrunsAt(r)' BY <1>2, <1>5 DEF SubrunsAt
  <2> QED BY <2>1, <2>2, <2>3
<1>6. (r # Main /\ pc'[r] # "idle") => request'[r].mode = "deterministic"
  BY <1>1 DEF RunInv
<1>7. RunInv(r)' BY <1>2, <1>4, <1>5, <1>6 DEF RunInv, Length
<1> QED BY <1>2, <1>3, <1>7, RunKeeps

LEMMA MoveKeeps ==
    ASSUME IInv, NEW r \in Runs, TypeOK', request' = request,
           \A q \in Runs : q # r => Same(q),
           pc[r] # "idle", pc'[r] \in {"planning", "acting", "checking", "gate"},
           pc'[r] = "acting" => decision'[r].actions # <<>>,
           row'[r].count = Length(trace'[r]),
           memory'[r].failed => pc'[r] \in {"acting", "checking"},
           r = Main =>
              /\ Length(trace'[r]) <= request[r].work.steps + (IF pc'[r] = "planning" THEN 2 ELSE 0)
              /\ CallsAt(r)'
              /\ memory'[r].subruns <= request[r].subruns
    PROVE  IInv'
<1>1. TypeOK /\ RunInv(r) BY DEF IInv
<1>2. Length(trace[r])' = Length(trace'[r]) BY DEF Length
<1>3. FailureAt(r)' BY DEF FailureAt
<1>4. ASSUME r = Main PROVE StepsAt(r)' /\ CallsAt(r)' /\ SubrunsAt(r)'
  <2>1. request[r].work.steps \in Nat BY <1>1, RequestFacts
  <2>2. pc'[r] = "planning" => Length(trace[r])' <= request'[r].work.steps + 2
    BY <1>2, <1>4
  <2>3. pc'[r] # "planning" => Length(trace[r])' <= request'[r].work.steps
    BY <1>2, <1>4, <2>1
  <2>4. StepsAt(r)' BY <2>2, <2>3 DEF StepsAt
  <2>5. CallsAt(r)' BY <1>4
  <2>6. SubrunsAt(r)' BY <1>4 DEF SubrunsAt
  <2> QED BY <2>4, <2>5, <2>6
<1>5. (r # Main /\ pc'[r] # "idle") => request'[r].mode = "deterministic"
  BY <1>1 DEF RunInv
<1>6. RunInv(r)' BY <1>2, <1>3, <1>4, <1>5 DEF RunInv
<1> QED BY <1>6, RunKeeps

LEMMA PlansType ==
    ASSUME TypeOK, NEW r \in Runs, NEW d \in Plans(r)
    PROVE  d \in DecisionType
<1>1. PICK e \in Drafts \cup {StopDraft} : d = Normalized(e, request[r]) BY DEF Plans
<1>2. e \in DraftType
  <2>1. <<>> \in Seq(Capabilities) OBVIOUS
  <2>2. StopDraft \in DraftType BY <2>1 DEF StopDraft, DraftType
  <2> QED BY <2>2
<1>3. request[r].contract \in BOOLEAN BY RequestFacts DEF RequestType
<1>4. /\ e.actions \in Seq(Capabilities) /\ e.stop \in BOOLEAN
      /\ e.review \in BOOLEAN /\ e.conforms \in BOOLEAN
  BY <1>2 DEF DraftType
<1>5. (e.stop \/ e.actions = <<>>) \in BOOLEAN BY <1>4
<1> QED BY <1>1, <1>3, <1>4, <1>5 DEF Normalized, DecisionType

LEMMA LengthNat ==
    ASSUME TypeOK, NEW r \in Runs
    PROVE  Length(trace[r]) \in Nat
BY StoredType DEF TypeOK, TraceType

\* With the row up to date, the guard of a budget bounds the trace.
LEMMA RoomBounds ==
    ASSUME TypeOK, RunInv(Main), NEW n \in Nat, Room(Main, n)
    PROVE  Length(trace[Main]) + n <= request[Main].work.steps
BY DEF RunInv, Room

LEMMA PlanKeeps ==
    ASSUME IInv, NEW r \in Runs, Plan(r)
    PROVE  IInv'
<1>1. TypeOK /\ RunInv(r) /\ pc[r] = "planning" /\ Room(r, 1) /\ AppendStep(r, 1, 0)
  BY DEF IInv, Plan
<1>2. PICK d \in Plans(r) :
         /\ decision' = [decision EXCEPT ![r] = d]
         /\ pc' = [pc EXCEPT ![r] = IF d.actions = <<>> THEN "checking" ELSE "acting"]
  BY DEF Plan
<1>3. d \in DecisionType BY <1>1, PlansType
<1>4. UNCHANGED <<request, memory, raised, satisfied>> BY DEF Plan
<1>5. /\ decision' \in [Runs -> DecisionType] /\ decision'[r] = d
      /\ \A q \in Runs : q # r => decision'[q] = decision[q]
  BY <1>1, <1>2, <1>3 DEF TypeOK, DecisionType
<1>6. /\ pc' \in [Runs -> Places]
      /\ pc'[r] = IF d.actions = <<>> THEN "checking" ELSE "acting"
      /\ \A q \in Runs : q # r => pc'[q] = pc[q]
  BY <1>1, <1>2 DEF TypeOK, Places
<1>7. /\ trace' \in [Runs -> TraceType] /\ row' \in [Runs -> RowType]
      /\ Length(trace[r])' = Length(trace[r]) + 1
      /\ trace'[r].calls = trace[r].calls
      /\ row'[r].count = Length(trace'[r])
      /\ row'[r].calls = row[r].calls
      /\ \A q \in Runs : q # r => trace'[q] = trace[q] /\ row'[q] = row[q]
  <2>1. Length(trace[r]) \in Nat BY <1>1, LengthNat
  <2>2. Length(trace[r])' = Length(trace[r]) + 1 + 0 BY <1>1, AppendFacts
  <2>3. Length(trace[r])' = Length(trace[r]) + 1 BY <2>1, <2>2
  <2> QED BY <1>1, <2>3, AppendFacts
<1>8. TypeOK' BY <1>1, <1>4, <1>5, <1>6, <1>7 DEF TypeOK, TraceType, RowType, DecisionType
<1>9. ~memory[r].failed BY <1>1 DEF RunInv, FailureAt
<1>10. ASSUME r = Main
       PROVE  Length(trace'[r]) <= request[r].work.steps /\ CallsAt(r)'
                /\ memory'[r].subruns <= request[r].subruns
  <2>1. Length(trace'[r]) <= request[r].work.steps
    BY <1>1, <1>7, <1>10, RoomBounds DEF Length
  <2>2. CallsAt(r)' BY <1>1, <1>4, <1>6, <1>7, <1>9, <1>10 DEF RunInv, CallsAt
  <2>3. memory'[r].subruns <= request[r].subruns
    BY <1>1, <1>4, <1>10 DEF RunInv, SubrunsAt
  <2> QED BY <2>1, <2>2, <2>3
<1>11. \A q \in Runs : q # r => Same(q) BY <1>4, <1>5, <1>6, <1>7 DEF Same, Same0
<1>12. pc'[r] = "acting" => decision'[r].actions # <<>> BY <1>5, <1>6
<1>13. pc'[r] \in {"acting", "checking"} BY <1>6
<1>14. ~memory'[r].failed BY <1>4, <1>9
<1>15. r = Main =>
         Length(trace'[r]) <= request[r].work.steps + (IF pc'[r] = "planning" THEN 2 ELSE 0)
  BY <1>1, <1>10, <1>13, RequestFacts
<1> QED BY <1>1, <1>4, <1>7, <1>8, <1>10, <1>11, <1>12, <1>13, <1>14, <1>15, MoveKeeps

LEMMA PlanningRaisesKeeps ==
    ASSUME IInv, NEW r \in Runs, PlanningRaises(r)
    PROVE  IInv'
<1>1. TypeOK /\ RunInv(r) /\ pc[r] = "planning" BY DEF IInv, PlanningRaises
<1>2. r = Main => Length(trace[r]) <= request[r].work.steps + 2
  BY <1>1 DEF RunInv, StepsAt
<1>3. CASE Raise(r, 0) BY <1>1, <1>2, <1>3, RaiseKeeps, LengthNat
<1>4. CASE Room(r, 1) /\ Raise(r, 1)
  <2>1. r = Main => Length(trace[r]) + 1 <= request[r].work.steps
    BY <1>1, <1>4, RoomBounds
  <2>2. r = Main => Length(trace[r]) + 1 <= request[r].work.steps + 2
    BY <1>1, <2>1, LengthNat, RequestFacts
  <2> QED BY <1>1, <1>4, <2>2, RaiseKeeps
<1> QED BY <1>3, <1>4 DEF PlanningRaises

LEMMA LoopContinuesKeeps ==
    ASSUME IInv, NEW r \in Runs, LoopContinues(r) \/ LoopCompletes(r)
    PROVE  IInv'
<1>1. TypeOK /\ RunInv(r) /\ pc[r] = "checking"
  BY DEF IInv, LoopContinues, LoopCompletes
<1>2. UNCHANGED <<request, row, trace, memory, decision, raised, satisfied>>
  BY DEF LoopContinues, LoopCompletes
<1>3. ~memory[r].failed BY DEF LoopContinues, LoopCompletes, LoopStatus
<1>4. /\ pc' \in [Runs -> Places] /\ pc'[r] \in {"planning", "gate"}
      /\ \A q \in Runs : q # r => pc'[q] = pc[q]
  BY <1>1 DEF LoopContinues, LoopCompletes, TypeOK, Places
<1>5. TypeOK' BY <1>1, <1>2, <1>4 DEF TypeOK
<1>6. \A q \in Runs : q # r => Same(q) BY <1>2, <1>4 DEF Same, Same0
<1>7. row'[r].count = Length(trace'[r]) BY <1>1, <1>2 DEF RunInv
<1>8. ASSUME r = Main
      PROVE  /\ Length(trace'[r]) <= request[r].work.steps
             /\ Length(trace'[r]) <= request[r].work.steps + 2
             /\ CallsAt(r)' /\ memory'[r].subruns <= request[r].subruns
  <2>1. Length(trace'[r]) <= request[r].work.steps
    BY <1>1, <1>2, <1>8 DEF RunInv, StepsAt
  <2>2. CallsAt(r)' BY <1>1, <1>2, <1>3, <1>4, <1>8 DEF RunInv, CallsAt
  <2>3. memory'[r].subruns <= request[r].subruns
    BY <1>1, <1>2, <1>8 DEF RunInv, SubrunsAt
  <2>4. Length(trace'[r]) <= request[r].work.steps + 2
    BY <1>1, <1>2, <2>1, LengthNat, RequestFacts
  <2> QED BY <2>1, <2>2, <2>3, <2>4
<1>9. r = Main =>
        Length(trace'[r]) <= request[r].work.steps + (IF pc'[r] = "planning" THEN 2 ELSE 0)
  BY <1>1, <1>8, RequestFacts
<1> QED BY <1>1, <1>2, <1>3, <1>4, <1>5, <1>6, <1>7, <1>8, <1>9, MoveKeeps

LEMMA LoopStopsKeeps ==
    ASSUME IInv, NEW r \in Runs, LoopStops(r)
    PROVE  IInv'
<1>1. TypeOK /\ RunInv(r) /\ pc[r] = "checking" BY DEF IInv, LoopStops
<1>2. LoopStatus(r) \in Final BY DEF LoopStops, Final
<1>3. memory[r].failed => LoopStatus(r) = "failed" BY DEF LoopStatus
<1>4. Finish(r, LoopStatus(r), 0) /\ UNCHANGED <<request, memory, decision, raised, satisfied>>
  BY DEF LoopStops
<1>5. memory \in [Runs -> MemoryType] BY <1>1 DEF TypeOK, MemoryType
<1>6. ASSUME r = Main
      PROVE  /\ memory[r].subruns <= request[r].subruns
             /\ Length(trace[r]) + 0 <= request[r].work.steps + 3
  <2>1. memory[r].subruns <= request[r].subruns BY <1>1, <1>6 DEF RunInv, SubrunsAt
  <2>2. Length(trace[r]) <= request[r].work.steps BY <1>1, <1>6 DEF RunInv, StepsAt
  <2> QED BY <1>1, <2>1, <2>2, LengthNat, RequestFacts
<1> QED BY <1>1, <1>2, <1>3, <1>4, <1>5, <1>6, FinishKeeps

LEMMA VerifierRaisesKeeps ==
    ASSUME IInv, NEW r \in Runs, VerifierRaises(r)
    PROVE  IInv'
<1>1. TypeOK /\ RunInv(r) /\ pc[r] \in {"checking", "gate"} /\ Raise(r, 0)
  BY DEF IInv, VerifierRaises
<1>2. ASSUME r = Main PROVE Length(trace[r]) + 0 <= request[r].work.steps + 2
  <2>1. Length(trace[r]) <= request[r].work.steps BY <1>1, <1>2 DEF RunInv, StepsAt
  <2> QED BY <1>1, <2>1, LengthNat, RequestFacts
<1> QED BY <1>1, <1>2, RaiseKeeps

LEMMA GateRetriesKeeps ==
    ASSUME IInv, NEW r \in Runs, GateRetries(r)
    PROVE  IInv'
<1>1. TypeOK /\ RunInv(r) /\ pc[r] = "gate" /\ AppendStep(r, 0, 1)
  BY DEF IInv, GateRetries
<1>2. UNCHANGED <<request, memory, decision, raised, satisfied>> BY DEF GateRetries
<1>3. ~memory[r].failed BY <1>1 DEF RunInv, FailureAt
<1>4. /\ pc' \in [Runs -> Places] /\ pc'[r] = "planning"
      /\ \A q \in Runs : q # r => pc'[q] = pc[q]
  BY <1>1 DEF GateRetries, TypeOK, Places
<1>5. /\ trace' \in [Runs -> TraceType] /\ row' \in [Runs -> RowType]
      /\ Length(trace[r])' = Length(trace[r]) + 1
      /\ trace'[r].calls = trace[r].calls
      /\ row'[r].count = Length(trace'[r])
      /\ row'[r].calls = row[r].calls
      /\ \A q \in Runs : q # r => trace'[q] = trace[q] /\ row'[q] = row[q]
  <2>1. Length(trace[r]) \in Nat BY <1>1, LengthNat
  <2>2. Length(trace[r])' = Length(trace[r]) + 0 + 1 BY <1>1, AppendFacts
  <2>3. Length(trace[r])' = Length(trace[r]) + 1 BY <2>1, <2>2
  <2> QED BY <1>1, <2>3, AppendFacts
<1>6. TypeOK' BY <1>1, <1>2, <1>4, <1>5 DEF TypeOK, TraceType, RowType
<1>7. \A q \in Runs : q # r => Same(q) BY <1>2, <1>4, <1>5 DEF Same, Same0
<1>8. ASSUME r = Main
      PROVE  /\ Length(trace'[r]) <= request[r].work.steps + 2
             /\ CallsAt(r)' /\ memory'[r].subruns <= request[r].subruns
  <2>1. Length(trace[r]) <= request[r].work.steps BY <1>1, <1>8 DEF RunInv, StepsAt
  <2>2. Length(trace'[r]) <= request[r].work.steps + 2
    BY <1>1, <1>5, <2>1, LengthNat, RequestFacts DEF Length
  <2>3. CallsAt(r)' BY <1>1, <1>2, <1>3, <1>4, <1>5, <1>8 DEF RunInv, CallsAt
  <2>4. memory'[r].subruns <= request[r].subruns
    BY <1>1, <1>2, <1>8 DEF RunInv, SubrunsAt
  <2> QED BY <2>2, <2>3, <2>4
<1>9. r = Main =>
        Length(trace'[r]) <= request[r].work.steps + (IF pc'[r] = "planning" THEN 2 ELSE 0)
  BY <1>4, <1>8
<1> QED BY <1>1, <1>2, <1>3, <1>4, <1>5, <1>6, <1>7, <1>8, <1>9, MoveKeeps

LEMMA GateEndsKeeps ==
    ASSUME IInv, NEW r \in Runs, GatePasses(r) \/ GateRefusesSubrun(r)
    PROVE  IInv'
<1>1. TypeOK /\ RunInv(r) /\ pc[r] = "gate"
  BY DEF IInv, GatePasses, GateRefusesSubrun
<1>2. PICK s \in Final : Finish(r, s, 0) BY DEF GatePasses, GateRefusesSubrun, Final
<1>3. UNCHANGED <<request, memory, decision, raised, satisfied>>
  BY DEF GatePasses, GateRefusesSubrun
<1>4. ~memory[r].failed BY <1>1 DEF RunInv, FailureAt
<1>5. memory \in [Runs -> MemoryType] BY <1>1 DEF TypeOK, MemoryType
<1>6. ASSUME r = Main
      PROVE  /\ memory[r].subruns <= request[r].subruns
             /\ Length(trace[r]) + 0 <= request[r].work.steps + 3
  <2>1. memory[r].subruns <= request[r].subruns BY <1>1, <1>6 DEF RunInv, SubrunsAt
  <2>2. Length(trace[r]) <= request[r].work.steps BY <1>1, <1>6 DEF RunInv, StepsAt
  <2> QED BY <1>1, <2>1, <2>2, LengthNat, RequestFacts
<1> QED BY <1>1, <1>2, <1>3, <1>4, <1>5, <1>6, FinishKeeps

-----------------------------------------------------------------------------
(* The subrun: only the run of the request starts one *)

LEMMA LaunchFailsKeeps ==
    ASSUME IInv, NEW r \in Runs, LaunchFails(r)
    PROVE  IInv'
<1>1. /\ TypeOK /\ RunInv(r) /\ pc[r] = "gate" /\ MaySpawn(r)
      /\ Finish(r, "requires_review", 1)
      /\ memory' = [memory EXCEPT ![r].subruns = @ + 1]
      /\ UNCHANGED <<request, decision, raised, satisfied>>
  BY DEF IInv, LaunchFails, Spawns
<1>2. ~memory[r].failed BY <1>1 DEF RunInv, FailureAt
<1>3. memory \in [Runs -> MemoryType] BY <1>1 DEF TypeOK, MemoryType
<1>4. /\ memory'[r] = [memory[r] EXCEPT !.subruns = @ + 1]
      /\ \A q \in Runs : q # r => memory'[q] = memory[q]
  BY <1>1, <1>3
<1>5. memory[r].subruns + 1 \in Nat BY <1>3 DEF MemoryType
<1>6. /\ memory' \in [Runs -> MemoryType]
      /\ memory'[r].failed = memory[r].failed
      /\ memory'[r].subruns = memory[r].subruns + 1
  BY <1>1, <1>3, <1>4, <1>5 DEF MemoryType
<1>7. ASSUME r = Main
      PROVE  /\ memory'[r].subruns <= request[r].subruns
             /\ Length(trace[r]) + 1 <= request[r].work.steps + 3
  <2>1. memory[r].subruns < request[r].subruns BY <1>1 DEF MaySpawn
  <2>2. memory[r].subruns \in Nat BY <1>3 DEF MemoryType
  <2>3. Length(trace[r]) <= request[r].work.steps BY <1>1, <1>7 DEF RunInv, StepsAt
  <2> QED BY <1>1, <1>6, <2>1, <2>2, <2>3, LengthNat, RequestFacts
<1> QED BY <1>1, <1>2, <1>4, <1>6, <1>7, FinishKeeps DEF Final

\* A child has no subrun to wait for.
LEMMA WaitsIsMain ==
    ASSUME IInv, NEW r \in Runs, pc[r] = "waiting" \/ Spawns(r)
    PROVE  r = Main
<1>1. RunInv(r) BY DEF IInv
<1>2. request[r].mode = "subrun" BY <1>1 DEF RunInv, Spawns
<1>3. pc[r] # "idle" BY DEF Spawns
<1> QED BY <1>1, <1>2, <1>3 DEF RunInv

LEMMA AnswerFinal ==
    ASSUME IInv, NEW c \in Runs, pc[c] = "ended"
    PROVE  Answer(c) \in Final \cup {"retry"}
<1>1. row[c].status \in Final BY DEF IInv, RunInv
<1> QED BY <1>1 DEF Answer, Final

LEMMA SubrunRetriesKeeps ==
    ASSUME IInv, NEW r \in Runs, SubrunRetries(r)
    PROVE  IInv'
<1>1. /\ TypeOK /\ RunInv(r) /\ pc[r] = "waiting" /\ AppendStep(r, 0, 2)
      /\ memory' = [memory EXCEPT ![r].subruns = @ + 1]
      /\ pc' = [pc EXCEPT ![r] = "planning"]
      /\ UNCHANGED <<request, decision, raised, satisfied>>
  BY DEF IInv, SubrunRetries, SubrunEnded
<1>2. r = Main BY <1>1, WaitsIsMain
<1>3. ~memory[r].failed BY <1>1 DEF RunInv, FailureAt
<1>4. /\ pc' \in [Runs -> Places] /\ pc'[r] = "planning"
      /\ \A q \in Runs : q # r => pc'[q] = pc[q]
  BY <1>1 DEF TypeOK, Places
<1>5. /\ trace' \in [Runs -> TraceType] /\ row' \in [Runs -> RowType]
      /\ Length(trace[r])' = Length(trace[r]) + 2
      /\ trace'[r].calls = trace[r].calls
      /\ row'[r].count = Length(trace'[r])
      /\ row'[r].calls = row[r].calls
      /\ \A q \in Runs : q # r => trace'[q] = trace[q] /\ row'[q] = row[q]
  <2>1. AppendStep(r, 0, 2) /\ 0 \in Nat /\ 2 \in Nat BY <1>1
  <2>2. Length(trace[r]) + 0 + 2 = Length(trace[r]) + 2 BY <1>1, LengthNat
  <2>3. Length(trace[r])' = Length(trace[r]) + 0 + 2 BY <1>1, <2>1, AppendFacts
  <2> QED BY <1>1, <2>1, <2>2, <2>3, AppendFacts
<1>6. memory \in [Runs -> MemoryType] BY <1>1 DEF TypeOK, MemoryType
<1>7. /\ memory'[r] = [memory[r] EXCEPT !.subruns = @ + 1]
      /\ \A q \in Runs : q # r => memory'[q] = memory[q]
  BY <1>1, <1>6
<1>8. memory[r].subruns + 1 \in Nat BY <1>6 DEF MemoryType
<1>9. /\ memory' \in [Runs -> MemoryType]
      /\ memory'[r].failed = memory[r].failed
      /\ memory'[r].subruns = memory[r].subruns + 1
  BY <1>1, <1>6, <1>7, <1>8 DEF MemoryType
<1>10. TypeOK' BY <1>1, <1>4, <1>5, <1>9 DEF TypeOK, TraceType, RowType, MemoryType
<1>11. \A q \in Runs : q # r => Same(q) BY <1>1, <1>4, <1>5, <1>7 DEF Same, Same0
<1>12. Length(trace'[r]) <= request[r].work.steps + 2
  <2>1. Length(trace[r]) <= request[r].work.steps BY <1>1, <1>2 DEF RunInv, StepsAt
  <2> QED BY <1>1, <1>5, <2>1, LengthNat, RequestFacts DEF Length
<1>13. CallsAt(r)' BY <1>1, <1>2, <1>3, <1>4, <1>5 DEF RunInv, CallsAt
<1>14. memory'[r].subruns <= request[r].subruns
  <2>1. memory[r].subruns < request[r].subruns BY <1>1, <1>2 DEF RunInv, SubrunsAt
  <2>2. memory[r].subruns \in Nat BY <1>6 DEF MemoryType
  <2> QED BY <1>1, <1>9, <2>1, <2>2, RequestFacts
<1>15. Length(trace'[r]) <= request[r].work.steps + (IF pc'[r] = "planning" THEN 2 ELSE 0)
  BY <1>4, <1>12
<1> QED BY <1>1, <1>3, <1>4, <1>5, <1>9, <1>10, <1>11, <1>13, <1>14, <1>15, MoveKeeps

LEMMA SubrunDecidesKeeps ==
    ASSUME IInv, NEW r \in Runs, SubrunDecides(r)
    PROVE  IInv'
<1>1. /\ TypeOK /\ RunInv(r) /\ pc[r] = "waiting"
      /\ Answer(r + 1) # "retry"
      /\ Finish(r, Answer(r + 1), 1)
      /\ UNCHANGED <<request, decision, raised, satisfied>>
  BY DEF IInv, SubrunDecides, SubrunEnded
<1>2. r = Main BY <1>1, WaitsIsMain
<1>3. Answer(r + 1) \in Final
  <2>1. pc[r + 1] = "ended" BY DEF SubrunDecides, SubrunEnded
  <2>2. r + 1 \in Runs BY <1>2 DEF Main, Runs
  <2> QED BY <1>1, <2>1, <2>2, AnswerFinal
<1>4. ~memory[r].failed BY <1>1 DEF RunInv, FailureAt
<1>5. memory \in [Runs -> MemoryType] BY <1>1 DEF TypeOK, MemoryType
<1>6. DEFINE m == [memory[r] EXCEPT !.subruns = @ + 1,
                                    !.failed = @ \/ Answer(r + 1) = "failed"]
<1>7. /\ memory'[r] = m
      /\ \A q \in Runs : q # r => memory'[q] = memory[q]
      /\ m \in MemoryType => memory' \in [Runs -> MemoryType]
  BY <1>5 DEF SubrunDecides
<1>8. /\ m \in MemoryType
      /\ m.subruns = memory[r].subruns + 1
      /\ m.failed = (memory[r].failed \/ Answer(r + 1) = "failed")
  <2>1. memory[r] \in MemoryType /\ memory[r].subruns + 1 \in Nat
    BY <1>5 DEF MemoryType
  <2>2. (memory[r].failed \/ Answer(r + 1) = "failed") \in BOOLEAN OBVIOUS
  <2> QED BY <2>1, <2>2 DEF MemoryType
<1>9. /\ memory'[r].subruns <= request[r].subruns
      /\ Length(trace[r]) + 1 <= request[r].work.steps + 3
  <2>1. memory[r].subruns < request[r].subruns BY <1>1, <1>2 DEF RunInv, SubrunsAt
  <2>2. memory[r].subruns \in Nat BY <1>5 DEF MemoryType
  <2>3. Length(trace[r]) <= request[r].work.steps BY <1>1, <1>2 DEF RunInv, StepsAt
  <2>4. memory'[r].subruns = memory[r].subruns + 1 BY <1>7, <1>8
  <2> QED BY <1>1, <2>1, <2>2, <2>3, <2>4, LengthNat, RequestFacts
<1>10. memory'[r].failed => Answer(r + 1) = "failed" BY <1>4, <1>7, <1>8
<1>11. memory' \in [Runs -> MemoryType] BY <1>7, <1>8
<1> QED BY <1>1, <1>3, <1>4, <1>7, <1>9, <1>10, <1>11, FinishKeeps

LEMMA ChildRequestType ==
    ASSUME NEW q \in RequestType
    PROVE  ChildRequest(q) \in RequestType /\ ChildRequest(q).mode = "deterministic"
<1>1. q.child \in Bounds BY DEF RequestType
<1>2. AtLeastOne(q.child.steps) \in Nat BY <1>1 DEF AtLeastOne, Bounds
<1>3. [q.child EXCEPT !.steps = AtLeastOne(@)] \in Bounds BY <1>1, <1>2 DEF Bounds
<1> QED BY <1>3 DEF ChildRequest, RequestType

LEMMA LaunchKeeps ==
    ASSUME IInv, NEW r \in Runs, Launch(r)
    PROVE  IInv'
<1>1. /\ TypeOK /\ Spawns(r) /\ pc[r] = "gate" /\ request[r].mode = "subrun"
      /\ MaySpawn(r) /\ RunInv(r)
  BY DEF IInv, Launch, Spawns
<1>2. r = Main BY <1>1, WaitsIsMain
<1>3. Main \in Runs /\ Main + 1 \in Runs /\ Main # Main + 1 BY DEF Main, Runs
<1>4. /\ request[Main] \in RequestType
      /\ ChildRequest(request[Main]) \in RequestType
      /\ ChildRequest(request[Main]).mode = "deterministic"
  BY <1>1, <1>3, RequestFacts, ChildRequestType
<1>5. Started \in RowType /\ Fresh \in MemoryType
  BY DEF Started, NoRow, NoCalls, RowType, Fresh, MemoryType, Verdicts
<1>6. UNCHANGED <<trace, decision, satisfied>> BY DEF Launch
<1>7. /\ request' = [request EXCEPT ![Main + 1] = ChildRequest(request[Main])]
      /\ row' = [row EXCEPT ![Main + 1] = Started]
      /\ memory' = [memory EXCEPT ![Main + 1] = Fresh]
      /\ raised' = [raised EXCEPT ![Main + 1] = FALSE]
      /\ pc' = [pc EXCEPT ![Main] = "waiting", ![Main + 1] = "planning"]
  BY <1>2 DEF Launch
<1>8. TypeOK'
  <2>1. request' \in [Runs -> RequestType] BY <1>1, <1>4, <1>7 DEF TypeOK
  <2>2. row' \in [Runs -> RowType] BY <1>1, <1>5, <1>7 DEF TypeOK, RowType
  <2>3. memory' \in [Runs -> MemoryType] BY <1>1, <1>5, <1>7 DEF TypeOK, MemoryType
  <2>4. raised' \in [Runs -> BOOLEAN] BY <1>1, <1>7 DEF TypeOK
  <2>5. pc' \in [Runs -> Places] BY <1>1, <1>7 DEF TypeOK, Places
  <2> QED BY <1>1, <1>6, <2>1, <2>2, <2>3, <2>4, <2>5 DEF TypeOK, RowType, MemoryType
<1>9. ASSUME NEW q \in Runs, q # Main + 1
      PROVE  request'[q] = request[q] /\ row'[q] = row[q] /\ memory'[q] = memory[q]
  BY <1>1, <1>7, <1>9 DEF TypeOK
<1>10. pc'[Main] = "waiting" /\ pc'[Main + 1] = "planning"
  BY <1>1, <1>3, <1>7 DEF TypeOK
<1>11. RunInv(Main)'
  <2>1. /\ request'[Main] = request[Main] /\ row'[Main] = row[Main]
        /\ memory'[Main] = memory[Main] /\ trace'[Main] = trace[Main]
    BY <1>3, <1>6, <1>9
  <2>2. ~memory[Main].failed BY <1>1, <1>2 DEF RunInv, FailureAt
  <2>3. StepsAt(Main)' BY <1>1, <1>2, <1>10, <2>1 DEF RunInv, StepsAt, Length
  <2>4. CallsAt(Main)' BY <1>1, <1>2, <1>10, <2>1, <2>2 DEF RunInv, CallsAt
  <2>5. SubrunsAt(Main)' BY <1>1, <1>2, <1>10, <2>1 DEF RunInv, SubrunsAt, MaySpawn
  <2>6. FailureAt(Main)' BY <2>1, <2>2 DEF FailureAt
  <2>7. row[Main].count = Length(trace[Main]) BY <1>1, <1>2 DEF RunInv
  <2> QED BY <1>1, <1>2, <1>10, <2>1, <2>3, <2>4, <2>5, <2>6, <2>7 DEF RunInv, Length
<1>12. RunInv(Main + 1)'
  <2>1. request'[Main + 1] = ChildRequest(request[Main]) /\ memory'[Main + 1] = Fresh
    BY <1>1, <1>3, <1>7 DEF TypeOK
  <2>2. FailureAt(Main + 1)' BY <2>1 DEF FailureAt, Fresh
  <2>3. Main + 1 # Main BY <1>3
  <2>4. request'[Main + 1].mode = "deterministic" BY <1>4, <2>1
  <2> QED BY <1>10, <2>2, <2>3, <2>4 DEF RunInv
<1>13. ASSUME NEW q \in Runs, q # Main, q # Main + 1 PROVE RunInv(q)'
  <2>1. pc'[q] = pc[q] BY <1>1, <1>7, <1>13 DEF TypeOK
  <2>2. Same(q) BY <1>6, <1>9, <1>13, <2>1 DEF Same, Same0
  <2> QED BY <2>2, OthersKeep
<1> QED BY <1>8, <1>11, <1>12, <1>13 DEF IInv

-----------------------------------------------------------------------------
(* The actions of a decision *)

LEMMA CalledTrace ==
    ASSUME NEW t \in TraceType, NEW k \in Kinds
    PROVE  /\ Called(t, k) \in TraceType
           /\ Called(t, k).calls = [t.calls EXCEPT ![k] = @ + 1]
           /\ Length(Called(t, k)) = Length(t)
<1>1. t.calls \in [Kinds -> Nat] BY DEF TraceType
<1>2. t.calls[k] + 1 \in Nat BY <1>1
<1>3. [t.calls EXCEPT ![k] = @ + 1] \in [Kinds -> Nat] BY <1>1, <1>2
<1> QED BY <1>3 DEF Called, TraceType, Length

LEMMA CalledRow ==
    ASSUME NEW w \in RowType, NEW k \in Kinds
    PROVE  /\ Called(w, k) \in RowType
           /\ Called(w, k).calls = [w.calls EXCEPT ![k] = @ + 1]
           /\ Called(w, k).count = w.count
           /\ Called(w, k).status = w.status
<1>1. w.calls \in [Kinds -> Nat] BY DEF RowType
<1>2. w.calls[k] + 1 \in Nat BY <1>1
<1>3. [w.calls EXCEPT ![k] = @ + 1] \in [Kinds -> Nat] BY <1>1, <1>2
<1> QED BY <1>3 DEF Called, RowType

LEMMA RememberedType ==
    ASSUME NEW m \in MemoryType, NEW k \in Kinds, NEW o \in Outcomes(k)
    PROVE  Remembered(m, k, o) \in MemoryType /\ Remembered(m, k, o).subruns = m.subruns
<1>1. (m.failed \/ o = "failed") \in BOOLEAN OBVIOUS
<1>2. (IF k # "skill" THEN m.verdict ELSE IF o = "failed" THEN "plain" ELSE o) \in Verdicts
  BY DEF Outcomes, Verdicts, MemoryType
<1> QED BY <1>1, <1>2 DEF Remembered, MemoryType

\* What a call that is in the trace needs of the run, whatever becomes of it.
LEMMA CallBounds ==
    ASSUME IInv, NEW r \in Runs, pc[r] = "acting", NEW k, CanCall(r, k)
    PROVE  /\ k \in Kinds
           /\ r = Main =>
                 /\ Length(trace[r]) + 3 <= request[r].work.steps
                 /\ trace[r].calls = row[r].calls
                 /\ trace[r].calls[k] + 1 <= request[r].work.calls[k]
<1>1. TypeOK /\ RunInv(r) BY DEF IInv
<1>2. k \in Kinds
  <2>1. request[r].work \in Bounds BY <1>1, RequestFacts DEF RequestType
  <2> QED BY <2>1 DEF CanCall, Allowed, Bounds
<1>3. ASSUME r = Main
      PROVE  /\ Length(trace[r]) + 3 <= request[r].work.steps
             /\ trace[r].calls = row[r].calls
             /\ trace[r].calls[k] + 1 <= request[r].work.calls[k]
  <2>1. Length(trace[r]) + 3 <= request[r].work.steps
    BY <1>1, <1>3, RoomBounds DEF CanCall
  <2>2. trace[r].calls = row[r].calls BY <1>1, <1>3 DEF RunInv, CallsAt
  <2>3. row[r].calls[k] \in Nat /\ request[r].work.calls[k] \in Nat
    BY <1>1, <1>2, RequestFacts DEF TypeOK
  <2> QED BY <2>1, <2>2, <2>3 DEF CanCall, CallLeft
<1> QED BY <1>2, <1>3

\* The trace after a call.
LEMMA CallStored ==
    ASSUME TypeOK, NEW r \in Runs, NEW k \in Kinds,
           trace' = [trace EXCEPT ![r] = Called(Stored(@, 3, 0), k)]
    PROVE  /\ trace' \in [Runs -> TraceType]
           /\ Length(trace'[r]) = Length(trace[r]) + 3
           /\ Length(Stored(trace[r], 3, 0)) = Length(trace[r]) + 3
           /\ trace'[r].calls = [trace[r].calls EXCEPT ![k] = @ + 1]
           /\ \A q \in Runs : q # r => trace'[q] = trace[q]
<1>1. trace \in [Runs -> TraceType] BY DEF TypeOK, TraceType
<1>2. /\ Stored(trace[r], 3, 0) \in TraceType
      /\ Stored(trace[r], 3, 0).calls = trace[r].calls
      /\ Length(Stored(trace[r], 3, 0)) = Length(trace[r]) + 3
  <2>1. trace[r] \in TraceType /\ 3 \in Nat /\ 0 \in Nat BY <1>1
  <2>2. Length(trace[r]) + 3 + 0 = Length(trace[r]) + 3 BY LengthNat
  <2> QED BY <2>1, <2>2, StoredType
<1>3. /\ trace'[r] = Called(Stored(trace[r], 3, 0), k)
      /\ \A q \in Runs : q # r => trace'[q] = trace[q]
  BY <1>1
<1>4. /\ trace'[r] \in TraceType
      /\ trace'[r].calls = [trace[r].calls EXCEPT ![k] = @ + 1]
      /\ Length(trace'[r]) = Length(trace[r]) + 3
  BY <1>2, <1>3, CalledTrace
<1>5. trace' \in [Runs -> TraceType] BY <1>1, <1>3, <1>4
<1> QED BY <1>2, <1>3, <1>4, <1>5

LEMMA ActKeeps ==
    ASSUME IInv, NEW r \in Runs, Act(r)
    PROVE  IInv'
<1> DEFINE k == Head(decision[r].actions)
           rest == Tail(decision[r].actions)
<1>1. /\ TypeOK /\ RunInv(r) /\ pc[r] = "acting" /\ CanCall(r, k)
      /\ satisfied' \in FileAfter(k)
      /\ trace' = [trace EXCEPT ![r] = Called(Stored(@, 3, 0), k)]
      /\ row' = [row EXCEPT ![r] = Called(Counted(@, Stored(trace[r], 3, 0)), k)]
      /\ decision' = [decision EXCEPT ![r].actions = rest]
      /\ pc' = [pc EXCEPT ![r] = IF rest = <<>> THEN "checking" ELSE "acting"]
      /\ UNCHANGED <<request, raised>>
  BY DEF IInv, Act
<1>2. PICK o \in Outcomes(k) : memory' = [memory EXCEPT ![r] = Remembered(@, k, o)]
  BY DEF Act
<1>3. /\ k \in Kinds
      /\ r = Main =>
            /\ Length(trace[r]) + 3 <= request[r].work.steps
            /\ trace[r].calls = row[r].calls
            /\ trace[r].calls[k] + 1 <= request[r].work.calls[k]
  BY <1>1, CallBounds
<1> HIDE DEF k
<1>4. /\ trace' \in [Runs -> TraceType]
      /\ Length(trace'[r]) = Length(trace[r]) + 3
      /\ Length(Stored(trace[r], 3, 0)) = Length(trace[r]) + 3
      /\ trace'[r].calls = [trace[r].calls EXCEPT ![k] = @ + 1]
      /\ \A q \in Runs : q # r => trace'[q] = trace[q]
  BY <1>1, <1>3, CallStored
<1>5. /\ row' \in [Runs -> RowType]
      /\ row'[r].count = Length(trace'[r])
      /\ row'[r].calls = [row[r].calls EXCEPT ![k] = @ + 1]
      /\ \A q \in Runs : q # r => row'[q] = row[q]
  <2>1. row \in [Runs -> RowType] BY <1>1 DEF TypeOK, RowType
  <2>2. /\ row'[r] = Called(Counted(row[r], Stored(trace[r], 3, 0)), k)
        /\ \A q \in Runs : q # r => row'[q] = row[q]
    BY <1>1, <2>1
  <2>3. Length(Stored(trace[r], 3, 0)) \in Nat BY <1>1, <1>4, LengthNat
  <2>4. /\ row'[r] \in RowType
        /\ row'[r].count = Length(Stored(trace[r], 3, 0))
        /\ row'[r].calls = [row[r].calls EXCEPT ![k] = @ + 1]
    <3> DEFINE w == Counted(row[r], Stored(trace[r], 3, 0))
    <3>1. w \in RowType /\ w.calls = row[r].calls /\ w.count = Length(Stored(trace[r], 3, 0))
      BY <2>1, <2>3, CountedRow
    <3> HIDE DEF w
    <3>2. /\ Called(w, k) \in RowType /\ Called(w, k).count = w.count
          /\ Called(w, k).calls = [w.calls EXCEPT ![k] = @ + 1]
      BY <1>3, <3>1, CalledRow
    <3>3. row'[r] = Called(w, k) BY <2>2 DEF w
    <3> QED BY <3>1, <3>2, <3>3
  <2>5. row' \in [Runs -> RowType] BY <1>1, <2>1, <2>2, <2>4
  <2> QED BY <1>4, <2>2, <2>4, <2>5
<1>6. /\ memory' \in [Runs -> MemoryType]
      /\ memory'[r].subruns = memory[r].subruns
      /\ \A q \in Runs : q # r => memory'[q] = memory[q]
  <2>1. memory \in [Runs -> MemoryType] BY <1>1 DEF TypeOK, MemoryType
  <2>2. Remembered(memory[r], k, o) \in MemoryType
           /\ Remembered(memory[r], k, o).subruns = memory[r].subruns
    BY <1>2, <1>3, <2>1, RememberedType
  <2> QED BY <1>2, <2>1, <2>2
<1>7. /\ decision' \in [Runs -> DecisionType] /\ decision'[r].actions = rest
      /\ \A q \in Runs : q # r => decision'[q] = decision[q]
  <2>1. decision \in [Runs -> DecisionType] BY <1>1 DEF TypeOK, DecisionType
  <2>2. decision[r] \in DecisionType /\ decision[r].actions \in Seq(Capabilities)
    BY <2>1 DEF DecisionType
  <2>3. rest \in Seq(Capabilities) BY <1>1, <2>2 DEF RunInv
  <2>4. [decision[r] EXCEPT !.actions = rest] \in DecisionType
    BY <2>2, <2>3 DEF DecisionType
  <2>5. /\ decision'[r] = [decision[r] EXCEPT !.actions = rest]
        /\ \A q \in Runs : q # r => decision'[q] = decision[q]
    BY <1>1, <2>1
  <2>6. decision'[r].actions = rest BY <2>2, <2>5 DEF DecisionType
  <2>7. decision' \in [Runs -> DecisionType] BY <1>1, <2>1, <2>4
  <2> QED BY <2>5, <2>6, <2>7
<1>8. /\ pc' \in [Runs -> Places]
      /\ pc'[r] = IF rest = <<>> THEN "checking" ELSE "acting"
      /\ \A q \in Runs : q # r => pc'[q] = pc[q]
  BY <1>1 DEF TypeOK, Places
<1>9. TypeOK'
  <2>1. satisfied' \in BOOLEAN BY <1>1 DEF FileAfter, TypeOK
  <2> QED BY <1>1, <1>4, <1>5, <1>6, <1>7, <1>8, <2>1
          DEF TypeOK, TraceType, RowType, MemoryType, DecisionType
<1>10. \A q \in Runs : q # r => Same(q)
  BY <1>1, <1>4, <1>5, <1>6, <1>7, <1>8 DEF Same, Same0
<1>11. pc'[r] = "acting" => decision'[r].actions # <<>> BY <1>7, <1>8
<1>12. pc'[r] \in {"acting", "checking"} BY <1>8
<1>13. ASSUME r = Main
       PROVE  /\ Length(trace'[r]) <= request[r].work.steps
              /\ CallsAt(r)' /\ memory'[r].subruns <= request[r].subruns
  <2>1. trace'[r].calls = row'[r].calls BY <1>3, <1>4, <1>5, <1>13
  <2>2. ASSUME NEW j \in Kinds PROVE trace'[r].calls[j] <= request'[r].work.calls[j]
    <3>1. trace[r].calls \in [Kinds -> Nat] BY <1>1 DEF TypeOK
    <3>2. trace[r].calls[j] <= request[r].work.calls[j]
      BY <1>1, <1>13 DEF RunInv, CallsAt
    <3>3. trace'[r].calls[j] = IF j = k THEN trace[r].calls[k] + 1 ELSE trace[r].calls[j]
      BY <1>4, <3>1
    <3> QED BY <1>1, <1>3, <1>13, <3>2, <3>3
  <2>3. CallsAt(r)' BY <1>12, <2>1, <2>2 DEF CallsAt
  <2>4. memory'[r].subruns <= request[r].subruns
    BY <1>1, <1>6, <1>13 DEF RunInv, SubrunsAt
  <2>5. Length(trace'[r]) <= request[r].work.steps BY <1>3, <1>4, <1>13
  <2> QED BY <2>3, <2>4, <2>5
<1>14. r = Main =>
         Length(trace'[r]) <= request[r].work.steps + (IF pc'[r] = "planning" THEN 2 ELSE 0)
  BY <1>1, <1>12, <1>13, RequestFacts
<1> QED BY <1>1, <1>5, <1>9, <1>10, <1>11, <1>12, <1>13, <1>14, MoveKeeps

LEMMA RecordErrorFacts ==
    ASSUME TypeOK, NEW r \in Runs, NEW w \in Nat, RecordError(r, w)
    PROVE  /\ memory' \in [Runs -> MemoryType]
           /\ memory'[r].subruns = memory[r].subruns /\ memory'[r].failed
           /\ decision' \in [Runs -> DecisionType]
           /\ pc' \in [Runs -> Places] /\ pc'[r] = "checking"
           /\ \A q \in Runs : q # r => /\ memory'[q] = memory[q]
                                       /\ decision'[q] = decision[q]
                                       /\ pc'[q] = pc[q]
<1>1. memory \in [Runs -> MemoryType] /\ decision \in [Runs -> DecisionType]
  BY DEF TypeOK, MemoryType, DecisionType
<1>2. /\ memory'[r] = [memory[r] EXCEPT !.failed = TRUE]
      /\ \A q \in Runs : q # r => memory'[q] = memory[q]
  BY <1>1 DEF RecordError
<1>3. memory'[r] \in MemoryType /\ memory'[r].subruns = memory[r].subruns /\ memory'[r].failed
  BY <1>1, <1>2 DEF MemoryType
<1>4. memory' \in [Runs -> MemoryType] BY <1>1, <1>2, <1>3 DEF RecordError
<1>5. /\ decision'[r] = [decision[r] EXCEPT !.actions = <<>>]
      /\ \A q \in Runs : q # r => decision'[q] = decision[q]
  BY <1>1 DEF RecordError
<1>6. [decision[r] EXCEPT !.actions = <<>>] \in DecisionType
  <2>1. <<>> \in Seq(Capabilities) OBVIOUS
  <2> QED BY <1>1, <2>1 DEF DecisionType
<1>7. decision' \in [Runs -> DecisionType] BY <1>1, <1>6 DEF RecordError
<1>8. /\ pc' \in [Runs -> Places] /\ pc'[r] = "checking"
      /\ \A q \in Runs : q # r => pc'[q] = pc[q]
  BY DEF RecordError, TypeOK, Places
<1> QED BY <1>2, <1>3, <1>4, <1>5, <1>7, <1>8

LEMMA ActionRefusedKeeps ==
    ASSUME IInv, NEW r \in Runs, ActionRefused(r)
    PROVE  IInv'
<1> DEFINE k == Head(decision[r].actions)
           w == IF Allowed(r, k) /\ Room(r, 1) THEN 1 ELSE 0
<1>1. /\ TypeOK /\ RunInv(r) /\ pc[r] = "acting"
      /\ \/ RecordError(r, w) /\ AppendStep(r, w + 1, 0)
         \/ ~Room(r, w + 1) /\ Raise(r, w)
  BY DEF IInv, ActionRefused
<1>2. w \in Nat OBVIOUS
<1> HIDE DEF k, w
<1>3. CASE RecordError(r, w) /\ AppendStep(r, w + 1, 0)
  <2>1. UNCHANGED <<request, raised, satisfied>> /\ Room(r, w + 1)
    BY <1>3 DEF RecordError
  <2>2. /\ memory' \in [Runs -> MemoryType]
        /\ memory'[r].subruns = memory[r].subruns /\ memory'[r].failed
        /\ decision' \in [Runs -> DecisionType]
        /\ pc' \in [Runs -> Places] /\ pc'[r] = "checking"
        /\ \A q \in Runs : q # r => /\ memory'[q] = memory[q]
                                    /\ decision'[q] = decision[q]
                                    /\ pc'[q] = pc[q]
    BY <1>1, <1>2, <1>3, RecordErrorFacts
  <2>3. /\ trace' \in [Runs -> TraceType] /\ row' \in [Runs -> RowType]
        /\ Length(trace[r])' = Length(trace[r]) + (w + 1)
        /\ trace'[r].calls = trace[r].calls
        /\ row'[r].count = Length(trace'[r])
        /\ row'[r].calls = row[r].calls
        /\ \A q \in Runs : q # r => trace'[q] = trace[q] /\ row'[q] = row[q]
    <3>1. w + 1 \in Nat /\ 0 \in Nat BY <1>2
    <3>2. Length(trace[r]) + (w + 1) + 0 = Length(trace[r]) + (w + 1)
      BY <1>1, <3>1, LengthNat
    <3>3. Length(trace[r])' = Length(trace[r]) + (w + 1) + 0
      BY <1>1, <1>3, <3>1, AppendFacts
    <3> QED BY <1>1, <1>3, <3>1, <3>2, <3>3, AppendFacts
  <2>4. TypeOK'
    BY <1>1, <2>1, <2>2, <2>3 DEF TypeOK, TraceType, RowType, MemoryType, DecisionType
  <2>5. \A q \in Runs : q # r => Same(q) BY <2>1, <2>2, <2>3 DEF Same, Same0
  <2>6. ASSUME r = Main
        PROVE  /\ Length(trace'[r]) <= request[r].work.steps
               /\ CallsAt(r)' /\ memory'[r].subruns <= request[r].subruns
    <3>1. w + 1 \in Nat BY <1>2
    <3>2. Length(trace[r]) + (w + 1) <= request[r].work.steps
      BY <1>1, <2>1, <2>6, <3>1, RoomBounds
    <3>3. Length(trace'[r]) <= request[r].work.steps BY <2>3, <3>2 DEF Length
    <3>4. CallsAt(r)' BY <1>1, <2>1, <2>2, <2>3, <2>6 DEF RunInv, CallsAt
    <3>5. memory'[r].subruns <= request[r].subruns
      BY <1>1, <2>2, <2>6 DEF RunInv, SubrunsAt
    <3> QED BY <3>3, <3>4, <3>5
  <2>7. r = Main =>
          Length(trace'[r]) <= request[r].work.steps + (IF pc'[r] = "planning" THEN 2 ELSE 0)
    BY <1>1, <2>2, <2>6, RequestFacts
  <2> QED BY <1>1, <2>1, <2>2, <2>3, <2>4, <2>5, <2>6, <2>7, MoveKeeps
<1>4. CASE Raise(r, w)
  <2>1. w = 0 \/ w = 1 BY DEF w
  <2>2. ASSUME r = Main PROVE Length(trace[r]) + w <= request[r].work.steps + 2
    <3>1. Length(trace[r]) <= request[r].work.steps BY <1>1, <2>2 DEF RunInv, StepsAt
    <3> QED BY <1>1, <2>1, <3>1, LengthNat, RequestFacts
  <2> QED BY <1>1, <1>2, <1>4, <2>2, RaiseKeeps
<1> QED BY <1>1, <1>3, <1>4

LEMMA ToolRaisesKeeps ==
    ASSUME IInv, NEW r \in Runs, ToolRaises(r)
    PROVE  IInv'
<1>1. /\ TypeOK /\ RunInv(r) /\ pc[r] = "acting" /\ CanCall(r, "tool")
      /\ RecordError(r, 2)
      /\ trace' = [trace EXCEPT ![r] = Called(Stored(@, 3, 0), "tool")]
      /\ row' = [row EXCEPT ![r] = Counted(@, Stored(trace[r], 3, 0))]
  BY DEF IInv, ToolRaises
<1>2. /\ "tool" \in Kinds
      /\ r = Main =>
            /\ Length(trace[r]) + 3 <= request[r].work.steps
            /\ trace[r].calls["tool"] + 1 <= request[r].work.calls["tool"]
  BY <1>1, CallBounds
<1>3. UNCHANGED <<request, raised, satisfied>> BY <1>1 DEF RecordError
<1>4. /\ memory' \in [Runs -> MemoryType]
      /\ memory'[r].subruns = memory[r].subruns /\ memory'[r].failed
      /\ decision' \in [Runs -> DecisionType]
      /\ pc' \in [Runs -> Places] /\ pc'[r] = "checking"
      /\ \A q \in Runs : q # r => /\ memory'[q] = memory[q]
                                  /\ decision'[q] = decision[q]
                                  /\ pc'[q] = pc[q]
  BY <1>1, RecordErrorFacts
<1>5. /\ trace' \in [Runs -> TraceType]
      /\ Length(trace'[r]) = Length(trace[r]) + 3
      /\ Length(Stored(trace[r], 3, 0)) = Length(trace[r]) + 3
      /\ trace'[r].calls = [trace[r].calls EXCEPT !["tool"] = @ + 1]
      /\ \A q \in Runs : q # r => trace'[q] = trace[q]
  BY <1>1, <1>2, CallStored
<1>6. /\ row' \in [Runs -> RowType]
      /\ row'[r].count = Length(trace'[r])
      /\ \A q \in Runs : q # r => row'[q] = row[q]
  <2>1. row \in [Runs -> RowType] BY <1>1 DEF TypeOK, RowType
  <2>2. Length(Stored(trace[r], 3, 0)) \in Nat BY <1>1, <1>5, LengthNat
  <2>3. Counted(row[r], Stored(trace[r], 3, 0)) \in RowType
           /\ Counted(row[r], Stored(trace[r], 3, 0)).count = Length(Stored(trace[r], 3, 0))
    BY <2>1, <2>2, CountedRow
  <2> QED BY <1>1, <1>5, <2>1, <2>3
<1>7. TypeOK'
  BY <1>1, <1>3, <1>4, <1>5, <1>6 DEF TypeOK, TraceType, RowType, MemoryType, DecisionType
<1>8. \A q \in Runs : q # r => Same(q) BY <1>3, <1>4, <1>5, <1>6 DEF Same, Same0
<1>9. ASSUME r = Main
      PROVE  /\ Length(trace'[r]) <= request[r].work.steps
             /\ CallsAt(r)' /\ memory'[r].subruns <= request[r].subruns
  <2>1. ASSUME NEW j \in Kinds PROVE trace'[r].calls[j] <= request'[r].work.calls[j]
    <3>1. trace[r].calls \in [Kinds -> Nat] BY <1>1 DEF TypeOK
    <3>2. trace[r].calls[j] <= request[r].work.calls[j]
      BY <1>1, <1>9 DEF RunInv, CallsAt
    <3>3. trace'[r].calls[j] =
             IF j = "tool" THEN trace[r].calls["tool"] + 1 ELSE trace[r].calls[j]
      BY <1>5, <3>1
    <3> QED BY <1>2, <1>3, <1>9, <3>2, <3>3
  <2>2. CallsAt(r)' BY <1>4, <2>1 DEF CallsAt
  <2>3. memory'[r].subruns <= request[r].subruns
    BY <1>1, <1>4, <1>9 DEF RunInv, SubrunsAt
  <2>4. Length(trace'[r]) <= request[r].work.steps BY <1>2, <1>5, <1>9
  <2> QED BY <2>2, <2>3, <2>4
<1>10. r = Main =>
         Length(trace'[r]) <= request[r].work.steps + (IF pc'[r] = "planning" THEN 2 ELSE 0)
  BY <1>1, <1>4, <1>9, RequestFacts
<1> QED BY <1>1, <1>3, <1>4, <1>6, <1>7, <1>8, <1>9, <1>10, MoveKeeps

-----------------------------------------------------------------------------
(* The invariant *)

LEMMA RequestKeeps ==
    ASSUME IInv, Request
    PROVE  IInv'
<1>1. /\ TypeOK /\ Main \in Runs /\ RunInv(Main) /\ pc[Main] = "idle"
      /\ row' = [row EXCEPT ![Main] = Started]
      /\ pc' = [pc EXCEPT ![Main] = "planning"]
      /\ UNCHANGED <<request, trace, memory, decision, raised, satisfied>>
  BY DEF IInv, Request, Main, Runs
<1>2. Started \in RowType /\ Started.count = 0 /\ Started.calls = NoCalls
  BY DEF Started, NoRow, NoCalls, RowType
<1>3. /\ row' \in [Runs -> RowType] /\ row'[Main] = Started
      /\ \A q \in Runs : q # Main => row'[q] = row[q]
  BY <1>1, <1>2 DEF TypeOK, RowType
<1>4. /\ pc' \in [Runs -> Places] /\ pc'[Main] = "planning"
      /\ \A q \in Runs : q # Main => pc'[q] = pc[q]
  BY <1>1 DEF TypeOK, Places
<1>5. TypeOK' BY <1>1, <1>3, <1>4 DEF TypeOK, RowType
<1>6. \A q \in Runs : q # Main => Same(q) BY <1>1, <1>3, <1>4 DEF Same, Same0
<1>7. Length(trace[Main]) = 0 /\ ~memory[Main].failed
  BY <1>1 DEF RunInv, StepsAt, FailureAt
<1>8. StepsAt(Main)'
  <2>1. 0 <= request[Main].work.steps + 2 BY <1>1, RequestFacts
  <2> QED BY <1>1, <1>4, <1>7, <2>1 DEF StepsAt, Length
<1>9. CallsAt(Main)'
  <2>1. trace[Main].calls = NoCalls BY <1>1 DEF RunInv, CallsAt
  <2> QED BY <1>1, <1>2, <1>3, <1>4, <2>1 DEF RunInv, CallsAt
<1>10. SubrunsAt(Main)' BY <1>1, <1>4 DEF RunInv, SubrunsAt
<1>11. FailureAt(Main)' BY <1>1, <1>7 DEF FailureAt
<1>12. row'[Main].count = Length(trace[Main])' BY <1>1, <1>2, <1>3, <1>7 DEF Length
<1>13. RunInv(Main)' BY <1>4, <1>8, <1>9, <1>10, <1>11, <1>12 DEF RunInv
<1> QED BY <1>1, <1>5, <1>6, <1>13, RunKeeps

LEMMA InitInv == Init => IInv
<1> SUFFICES ASSUME Init PROVE IInv
  OBVIOUS
<1>1. PICK q \in Requests : request = [r \in Runs |-> q] BY DEF Init
<1>2. request \in [Runs -> RequestType] BY <1>1
<1>3. /\ NoRow \in RowType /\ NoSteps \in TraceType /\ Fresh \in MemoryType
      /\ NoDecision \in DecisionType
  <2>1. <<>> \in Seq(Capabilities) OBVIOUS
  <2> QED BY <2>1 DEF NoRow, NoSteps, NoCalls, Fresh, NoDecision,
                      RowType, TraceType, MemoryType, DecisionType, Verdicts
<1>4. TypeOK BY <1>2, <1>3 DEF Init, TypeOK, RowType, TraceType, MemoryType, DecisionType, Places
<1>5. ASSUME NEW r \in Runs PROVE RunInv(r)
  <2>1. pc[r] = "idle" /\ trace[r] = NoSteps /\ row[r] = NoRow /\ memory[r] = Fresh
    BY DEF Init
  <2>2. /\ Length(trace[r]) = 0 /\ row[r].count = 0
        /\ trace[r].calls = NoCalls /\ row[r].calls = NoCalls
        /\ ~memory[r].failed /\ memory[r].subruns = 0
    BY <2>1 DEF NoSteps, NoRow, Fresh, Length
  <2>3. StepsAt(r) BY <2>1, <2>2 DEF StepsAt
  <2>4. CallsAt(r) BY <1>4, <2>1, <2>2, RequestFacts DEF CallsAt, NoCalls
  <2>5. SubrunsAt(r) BY <1>4, <2>1, <2>2, RequestFacts DEF SubrunsAt
  <2>6. FailureAt(r) BY <2>2 DEF FailureAt
  <2> QED BY <2>1, <2>2, <2>3, <2>4, <2>5, <2>6 DEF RunInv
<1> QED BY <1>4, <1>5 DEF IInv

LEMMA StutterInv == ASSUME IInv, UNCHANGED vars PROVE IInv'
<1>1. \A r \in Runs : Same(r) BY DEF vars, Same, Same0
<1>2. TypeOK' BY DEF IInv, TypeOK, vars
<1> QED BY <1>1, <1>2, OthersKeep DEF IInv

LEMMA StepInv == IInv /\ [Next]_vars => IInv'
<1> SUFFICES ASSUME IInv, [Next]_vars PROVE IInv'
  OBVIOUS
<1>1. CASE Request BY <1>1, RequestKeeps
<1>2. ASSUME NEW r \in Runs, Execute(r) PROVE IInv'
  <2>1. CASE Plan(r) BY <2>1, PlanKeeps
  <2>2. CASE PlanningRaises(r) BY <2>2, PlanningRaisesKeeps
  <2>3. CASE Act(r) BY <2>3, ActKeeps
  <2>4. CASE ActionRefused(r) BY <2>4, ActionRefusedKeeps
  <2>5. CASE ToolRaises(r) BY <2>5, ToolRaisesKeeps
  <2>6. CASE LoopContinues(r) \/ LoopCompletes(r) BY <2>6, LoopContinuesKeeps
  <2>7. CASE LoopStops(r) BY <2>7, LoopStopsKeeps
  <2>8. CASE VerifierRaises(r) BY <2>8, VerifierRaisesKeeps
  <2>9. CASE GateRetries(r) BY <2>9, GateRetriesKeeps
  <2>10. CASE GatePasses(r) \/ GateRefusesSubrun(r) BY <2>10, GateEndsKeeps
  <2> QED BY <1>2, <2>1, <2>2, <2>3, <2>4, <2>5, <2>6, <2>7, <2>8, <2>9, <2>10 DEF Execute
<1>3. ASSUME NEW r \in Runs, Subrun(r) PROVE IInv'
  <2>1. CASE Launch(r) BY <2>1, LaunchKeeps
  <2>2. CASE LaunchFails(r) BY <2>2, LaunchFailsKeeps
  <2>3. CASE SubrunRetries(r) BY <2>3, SubrunRetriesKeeps
  <2>4. CASE SubrunDecides(r) BY <2>4, SubrunDecidesKeeps
  <2> QED BY <1>3, <2>1, <2>2, <2>3, <2>4 DEF Subrun
<1>4. CASE UNCHANGED vars BY <1>4, StutterInv
<1> QED BY <1>1, <1>2, <1>3, <1>4 DEF Next, Progress

\* For any requests and any decisions of the model.
LEMMA Inductive == Spec => []IInv
<1> QED BY InitInv, StepInv, PTL DEF Spec

-----------------------------------------------------------------------------
(* What follows from it *)

\* Every variable of a run has its type, whatever the model plans.
THEOREM TypeCorrect == Spec => []TypeOK
<1>1. IInv => TypeOK BY DEF IInv
<1> QED BY <1>1, Inductive, PTL

\* Repair rounds, feedback and subrun observations, none of which has a budget, add
\* at most three steps to the step budget of the request.
THEOREM StepBudgetAlways == Spec => []StepBudget
<1>1. ASSUME IInv PROVE StepBudget
  <2>1. TypeOK /\ RunInv(Main) /\ Main \in Runs BY <1>1 DEF IInv, Main, Runs
  <2>2. pc[Main] \in Places BY <2>1 DEF TypeOK
  <2>3. Length(trace[Main]) \in Nat /\ request[Main].work.steps \in Nat
    BY <2>1, LengthNat, RequestFacts
  <2>4. StepsAt(Main) BY <2>1 DEF RunInv
  <2> QED BY <2>2, <2>3, <2>4 DEF StepBudget, StepsAt, Places
<1>2. IInv => StepBudget BY <1>1
<1> QED BY <1>2, Inductive, PTL

\* The calls of a run, over all its repair rounds, stay within the budget of their kind.
THEOREM CallBudgetAlways == Spec => []CallBudget
<1>1. IInv => CallBudget BY DEF IInv, RunInv, CallsAt, CallBudget, Main, Runs
<1> QED BY <1>1, Inductive, PTL

\* The row of a run that has ended counts the steps of its trace.
THEOREM StepCountAlwaysTrace == Spec => []StepCountIsTrace
<1>1. IInv => StepCountIsTrace BY DEF IInv, RunInv, StepCountIsTrace
<1> QED BY <1>1, Inductive, PTL

\* Only the run of the request waits for a subrun, and it starts no more than the
\* request allows.
THEOREM NeverNests == Spec => []NoNesting
<1>1. ASSUME IInv PROVE NoNesting
  <2>1. Main \in Runs /\ RunInv(Main) BY <1>1 DEF IInv, Main, Runs
  <2>2. ASSUME NEW r \in Runs, pc[r] = "waiting" PROVE r = Main /\ request[r].allowSubrun
    BY <1>1, <2>1, <2>2, WaitsIsMain DEF RunInv, SubrunsAt
  <2>3. memory[Main].subruns <= request[Main].subruns BY <2>1 DEF RunInv, SubrunsAt
  <2> QED BY <2>2, <2>3 DEF NoNesting
<1>2. IInv => NoNesting BY <1>1
<1> QED BY <1>2, Inductive, PTL

\* A run with a failure plans nothing any more and ends failed.
THEOREM FailureAlwaysEndsRun == Spec => []FailureEndsRun
<1>1. IInv => FailureEndsRun BY DEF IInv, RunInv, FailureAt, FailureEndsRun
<1> QED BY <1>1, Inductive, PTL

-----------------------------------------------------------------------------
(* A completed run is verified: one run executes at a time, so what its end *)
(* was decided on is still what it was                                     *)

StackInv ==
    /\ \A r \in Runs : (r # Main /\ pc[r] \notin {"idle", "ended"}) => pc[Main] = "waiting"
    /\ pc[Main + 2] = "idle"

VerifiedInv ==
    /\ StackInv
    /\ pc[Main] # "ended" => row[Main].status # "completed"
    /\ pc[Main] \in {"gate", "waiting"} =>
          (decision[Main].review => request[Main].acceptance = "stops")
    /\ CompletedIsVerified

LEMMA ExecuteFrame ==
    ASSUME TypeOK, NEW r \in Runs, Execute(r)
    PROVE  /\ pc[r] \notin {"idle", "waiting", "ended"}
           /\ request' = request
           /\ \A q \in Runs : q # r => Same(q)
<1>1. CASE Plan(r)
  BY <1>1 DEF Plan, AppendStep, Same, Same0, TypeOK
<1>2. CASE PlanningRaises(r)
  BY <1>2 DEF PlanningRaises, Raise, Same, Same0, TypeOK
<1>3. CASE Act(r)
  BY <1>3 DEF Act, Same, Same0, TypeOK
<1>4. CASE ActionRefused(r)
  <2>1. PICK w \in Nat : \/ RecordError(r, w) /\ AppendStep(r, w + 1, 0)
                         \/ Raise(r, w)
    BY <1>4 DEF ActionRefused
  <2>2. pc[r] = "acting" BY <1>4 DEF ActionRefused
  <2> QED BY <2>1, <2>2 DEF RecordError, AppendStep, Raise, Same, Same0, TypeOK
<1>5. CASE ToolRaises(r)
  BY <1>5 DEF ToolRaises, RecordError, Same, Same0, TypeOK
<1>6. CASE LoopContinues(r) \/ LoopCompletes(r)
  BY <1>6 DEF LoopContinues, LoopCompletes, Same, Same0, TypeOK
<1>7. CASE LoopStops(r)
  BY <1>7 DEF LoopStops, Finish, Same, Same0, TypeOK
<1>8. CASE VerifierRaises(r)
  BY <1>8 DEF VerifierRaises, Raise, Same, Same0, TypeOK
<1>9. CASE GateRetries(r)
  BY <1>9 DEF GateRetries, AppendStep, Same, Same0, TypeOK
<1>10. CASE GatePasses(r) \/ GateRefusesSubrun(r)
  BY <1>10 DEF GatePasses, GateRefusesSubrun, Finish, Same, Same0, TypeOK
<1> QED BY <1>1, <1>2, <1>3, <1>4, <1>5, <1>6, <1>7, <1>8, <1>9, <1>10 DEF Execute

LEMMA OpenKeeps ==
    ASSUME VerifiedInv, StackInv', row'[Main].status # "completed",
           pc'[Main] \in {"gate", "waiting"} =>
              (decision'[Main].review => request'[Main].acceptance = "stops")
    PROVE  VerifiedInv'
BY DEF VerifiedInv, CompletedIsVerified

\* The child runs while its parent waits.
LEMMA ChildKeepsVerified ==
    ASSUME IInv, VerifiedInv, NEW r \in Runs, r # Main, Execute(r)
    PROVE  VerifiedInv'
<1>1. TypeOK /\ Main \in Runs /\ Main + 2 \in Runs BY DEF IInv, Main, Runs
<1>2. /\ pc[r] \notin {"idle", "waiting", "ended"} /\ request' = request
      /\ \A q \in Runs : q # r => Same(q)
  BY <1>1, ExecuteFrame
<1>3. pc[Main] = "waiting" /\ r # Main + 2 BY <1>2 DEF VerifiedInv, StackInv
<1>4. Same(Main) /\ Same(Main + 2) BY <1>1, <1>2, <1>3
<1>5. StackInv' BY <1>3, <1>4 DEF VerifiedInv, StackInv, Same
<1> QED BY <1>2, <1>3, <1>4, <1>5, OpenKeeps DEF VerifiedInv, Same, Same0

LEMMA MainKeepsVerified ==
    ASSUME IInv, VerifiedInv, Execute(Main)
    PROVE  VerifiedInv'
<1>1. TypeOK /\ Main \in Runs /\ Main + 2 \in Runs /\ Main # Main + 2
  BY DEF IInv, Main, Runs
<1>2. /\ pc[Main] \notin {"idle", "waiting", "ended"} /\ request' = request
      /\ \A q \in Runs : q # Main => Same(q)
  BY <1>1, ExecuteFrame
<1>3. StackInv' BY <1>1, <1>2 DEF VerifiedInv, StackInv, Same
<1>4. row[Main].status # "completed" BY <1>2 DEF VerifiedInv
<1>5. row[Main] \in RowType /\ pc[Main] \in Places BY <1>1 DEF TypeOK, RowType
<1>6. CASE Plan(Main) \/ GateRetries(Main)
  <2>1. PICK w \in Nat, x \in Nat : AppendStep(Main, w, x)
    BY <1>6 DEF Plan, GateRetries
  <2>2. row'[Main].status = row[Main].status BY <1>1, <2>1, AppendFacts
  <2>3. pc'[Main] \notin {"gate", "waiting"}
    BY <1>1, <1>6 DEF Plan, GateRetries, TypeOK
  <2> QED BY <1>3, <1>4, <2>2, <2>3, OpenKeeps
<1>7. ASSUME NEW w \in Nat, Raise(Main, w) PROVE VerifiedInv'
  <2>1. row'[Main].status = "failed" /\ pc'[Main] = "ended"
    BY <1>1, <1>7, RaiseFacts
  <2> QED BY <1>3, <2>1, OpenKeeps
<1>8. CASE PlanningRaises(Main) BY <1>7, <1>8 DEF PlanningRaises
<1>9. CASE Act(Main)
  <2>1. PICK k : /\ CanCall(Main, k)
                 /\ row' = [row EXCEPT ![Main] = Called(Counted(@, Stored(trace[Main], 3, 0)), k)]
    BY <1>9 DEF Act
  <2>2. k \in Kinds BY <1>9, <1>1, <2>1, CallBounds DEF Act
  <2>3. Length(Stored(trace[Main], 3, 0)) \in Nat
    BY <1>1, StoredType DEF TypeOK, TraceType
  <2>4. /\ Counted(row[Main], Stored(trace[Main], 3, 0)) \in RowType
        /\ Counted(row[Main], Stored(trace[Main], 3, 0)).status = row[Main].status
    BY <1>5, <2>3, CountedRow
  <2>5. Called(Counted(row[Main], Stored(trace[Main], 3, 0)), k).status = row[Main].status
    BY <2>2, <2>4, CalledRow
  <2>6. row'[Main].status = row[Main].status BY <1>1, <2>1, <2>5 DEF TypeOK
  <2>7. pc'[Main] \notin {"gate", "waiting"} BY <1>1, <1>9 DEF Act, TypeOK
  <2> QED BY <1>3, <1>4, <2>6, <2>7, OpenKeeps
<1>10. CASE ActionRefused(Main)
  <2>1. PICK w \in Nat : \/ RecordError(Main, w) /\ AppendStep(Main, w + 1, 0)
                         \/ Raise(Main, w)
    BY <1>10 DEF ActionRefused
  <2>2. CASE RecordError(Main, w) /\ AppendStep(Main, w + 1, 0)
    <3>1. w + 1 \in Nat /\ 0 \in Nat OBVIOUS
    <3>2. row'[Main].status = row[Main].status BY <1>1, <2>2, <3>1, AppendFacts
    <3>3. pc'[Main] = "checking" BY <1>1, <2>2, RecordErrorFacts
    <3> QED BY <1>3, <1>4, <3>2, <3>3, OpenKeeps
  <2> QED BY <1>7, <2>1, <2>2
<1>11. CASE ToolRaises(Main)
  <2>1. RecordError(Main, 2)
          /\ row' = [row EXCEPT ![Main] = Counted(@, Stored(trace[Main], 3, 0))]
    BY <1>11 DEF ToolRaises
  <2>2. Length(Stored(trace[Main], 3, 0)) \in Nat
    BY <1>1, StoredType DEF TypeOK, TraceType
  <2>3. row'[Main].status = row[Main].status
    BY <1>1, <1>5, <2>1, <2>2, CountedRow DEF TypeOK
  <2>4. pc'[Main] = "checking" BY <1>1, <2>1, RecordErrorFacts
  <2> QED BY <1>3, <1>4, <2>3, <2>4, OpenKeeps
<1>12. CASE LoopContinues(Main) \/ LoopCompletes(Main)
  <2>1. row' = row /\ decision' = decision BY <1>12 DEF LoopContinues, LoopCompletes
  <2>2. pc'[Main] \in {"gate", "waiting"} =>
          (decision[Main].review => request[Main].acceptance = "stops")
    BY <1>1, <1>12 DEF LoopContinues, LoopCompletes, LoopStatus, TypeOK
  <2> QED BY <1>2, <1>3, <1>4, <2>1, <2>2, OpenKeeps
<1>13. ASSUME NEW s \in Final, Finish(Main, s, 0), s # "completed" PROVE VerifiedInv'
  <2>1. row'[Main].status = s /\ pc'[Main] = "ended" BY <1>1, <1>13, FinishFacts
  <2> QED BY <1>3, <1>13, <2>1, OpenKeeps
<1>14. CASE LoopStops(Main) BY <1>13, <1>14 DEF LoopStops, Final
<1>15. CASE VerifierRaises(Main) BY <1>7, <1>15 DEF VerifierRaises
<1>16. CASE GateRefusesSubrun(Main) BY <1>13, <1>16 DEF GateRefusesSubrun, Final
<1>17. CASE GatePasses(Main)
  <2>1. /\ pc[Main] = "gate" /\ Accepted(Main) /\ request[Main].mode = "deterministic"
        /\ Finish(Main, "completed", 0)
        /\ UNCHANGED <<request, memory, decision, raised, satisfied>>
    BY <1>17 DEF GatePasses
  <2>2. pc'[Main] = "ended" BY <1>1, <2>1, FinishFacts DEF Final
  <2>3. ~memory[Main].failed BY <1>1, <2>1 DEF IInv, RunInv, FailureAt
  <2>4. decision[Main].review => request[Main].acceptance = "stops"
    BY <2>1 DEF VerifiedInv
  <2>5. CompletedIsVerified' BY <2>1, <2>3, <2>4 DEF CompletedIsVerified, Accepted
  <2> QED BY <1>3, <2>2, <2>5 DEF VerifiedInv
<1> QED BY <1>6, <1>8, <1>9, <1>10, <1>11, <1>12, <1>14, <1>15, <1>16, <1>17 DEF Execute

LEMMA SubrunKeepsVerified ==
    ASSUME IInv, VerifiedInv, NEW r \in Runs, Subrun(r)
    PROVE  VerifiedInv'
<1>1. TypeOK /\ Runs = {Main, Main + 1, Main + 2} BY DEF IInv, Main, Runs
<1>2. r = Main
  BY WaitsIsMain DEF Subrun, Launch, LaunchFails, SubrunRetries, SubrunDecides, SubrunEnded
<1>3. Main \in Runs /\ Main + 1 \in Runs /\ Main # Main + 1 /\ Main + 2 \notin {Main, Main + 1}
  BY DEF Main, Runs
<1>4. CASE Launch(Main)
  <2>1. /\ pc[Main] = "gate" /\ UNCHANGED decision
        /\ request' = [request EXCEPT ![Main + 1] = ChildRequest(request[Main])]
        /\ row' = [row EXCEPT ![Main + 1] = Started]
        /\ pc' = [pc EXCEPT ![Main] = "waiting", ![Main + 1] = "planning"]
    BY <1>4 DEF Launch, Spawns
  <2>2. /\ request'[Main] = request[Main] /\ row'[Main] = row[Main]
        /\ pc'[Main] = "waiting" /\ pc'[Main + 2] = pc[Main + 2]
    BY <1>1, <1>3, <2>1 DEF TypeOK
  <2>3. StackInv' BY <2>2 DEF VerifiedInv, StackInv
  <2> QED BY <2>1, <2>2, <2>3, OpenKeeps DEF VerifiedInv
<1>5. CASE LaunchFails(Main)
  <2>1. pc[Main] = "gate" /\ Finish(Main, "requires_review", 1)
    BY <1>5 DEF LaunchFails, Spawns
  <2>2. /\ row'[Main].status = "requires_review" /\ pc'[Main] = "ended"
        /\ \A q \in Runs : q # Main => pc'[q] = pc[q]
    BY <1>1, <1>3, <2>1, FinishFacts DEF Final
  <2>3. StackInv' BY <1>1, <1>3, <2>1, <2>2 DEF VerifiedInv, StackInv
  <2> QED BY <2>2, <2>3, OpenKeeps
<1>6. CASE SubrunRetries(Main)
  <2>1. pc[Main + 1] = "ended" /\ AppendStep(Main, 0, 2)
          /\ pc' = [pc EXCEPT ![Main] = "planning"]
    BY <1>6 DEF SubrunRetries, SubrunEnded
  <2>2. /\ pc'[Main] = "planning" /\ \A q \in Runs : q # Main => pc'[q] = pc[q]
    BY <1>1, <1>3, <2>1 DEF TypeOK
  <2>3. row'[Main].status = row[Main].status BY <1>1, <1>3, <2>1, AppendFacts
  <2>4. StackInv' BY <1>1, <1>3, <2>1, <2>2 DEF VerifiedInv, StackInv
  <2>5. row[Main].status # "completed"
    BY <1>6 DEF SubrunRetries, SubrunEnded, VerifiedInv
  <2> QED BY <2>2, <2>3, <2>4, <2>5, OpenKeeps
<1>7. CASE SubrunDecides(Main)
  <2>1. /\ pc[Main] = "waiting" /\ pc[Main + 1] = "ended" /\ Answer(Main + 1) # "retry"
        /\ Finish(Main, Answer(Main + 1), 1)
        /\ memory' = [memory EXCEPT ![Main].subruns = @ + 1,
                        ![Main].failed = @ \/ Answer(Main + 1) = "failed"]
        /\ UNCHANGED <<request, decision, raised, satisfied>>
    BY <1>7 DEF SubrunDecides, SubrunEnded
  <2>2. Answer(Main + 1) \in Final BY <1>3, <2>1, AnswerFinal
  <2>3. /\ row'[Main].status = Answer(Main + 1) /\ pc'[Main] = "ended"
        /\ \A q \in Runs : q # Main => pc'[q] = pc[q] /\ row'[q] = row[q]
    BY <1>1, <1>3, <2>1, <2>2, FinishFacts
  <2>4. StackInv' BY <1>1, <1>3, <2>1, <2>3 DEF VerifiedInv, StackInv
  <2>5. ASSUME Answer(Main + 1) = "completed" PROVE CompletedIsVerified'
    <3>1. ~memory[Main].failed BY <1>3, <2>1 DEF IInv, RunInv, FailureAt
    <3>2. memory[Main] \in MemoryType /\ memory[Main + 1] \in MemoryType
      BY <1>1, <1>3 DEF TypeOK, MemoryType
    <3>3. memory' = [memory EXCEPT ![Main] =
                       [memory[Main] EXCEPT !.subruns = @ + 1,
                                            !.failed = @ \/ Answer(Main + 1) = "failed"]]
      BY <2>1
    <3>4. /\ memory'[Main] = [memory[Main] EXCEPT !.subruns = @ + 1,
                                !.failed = @ \/ Answer(Main + 1) = "failed"]
          /\ memory'[Main + 1] = memory[Main + 1]
      BY <1>1, <1>3, <3>3 DEF TypeOK
    <3>5. memory'[Main].subruns = memory[Main].subruns + 1
      BY <3>2, <3>4 DEF MemoryType
    <3>6. memory'[Main].failed = (memory[Main].failed \/ Answer(Main + 1) = "failed")
      BY <3>2, <3>4 DEF MemoryType
    <3>7. ~memory'[Main].failed /\ memory'[Main].subruns > 0
      BY <2>5, <3>1, <3>2, <3>5, <3>6 DEF MemoryType
    <3>8. decision[Main].review => request[Main].acceptance = "stops"
      BY <2>1 DEF VerifiedInv
    <3>9. request[Main].mode = "subrun" BY <1>3, <2>1 DEF IInv, RunInv
    <3>10. ChildApproves
      <4>1. memory[Main + 1].verdict \in Verdicts BY <3>2 DEF MemoryType
      <4> QED BY <2>5, <4>1 DEF Answer, ChildApproves, Verdicts
    <3>11. ChildApproves' BY <1>3, <2>1, <2>3, <3>4, <3>10 DEF ChildApproves
    <3> QED BY <2>1, <3>7, <3>8, <3>9, <3>11 DEF CompletedIsVerified
  <2>6. CompletedIsVerified' BY <2>3, <2>5 DEF CompletedIsVerified
  <2> QED BY <2>3, <2>4, <2>6 DEF VerifiedInv
<1> QED BY <1>2, <1>4, <1>5, <1>6, <1>7 DEF Subrun

LEMMA RequestKeepsVerified ==
    ASSUME IInv, VerifiedInv, Request
    PROVE  VerifiedInv'
<1>1. /\ TypeOK /\ Main \in Runs /\ Main + 2 \in Runs /\ Main # Main + 2
      /\ pc[Main] = "idle"
      /\ row' = [row EXCEPT ![Main] = Started]
      /\ pc' = [pc EXCEPT ![Main] = "planning"]
  BY DEF IInv, Request, Main, Runs
<1>2. /\ row'[Main] = Started /\ pc'[Main] = "planning"
      /\ \A q \in Runs : q # Main => pc'[q] = pc[q]
  BY <1>1 DEF TypeOK
<1>3. row'[Main].status # "completed" BY <1>2 DEF Started, NoRow
<1>4. StackInv' BY <1>1, <1>2 DEF VerifiedInv, StackInv
<1> QED BY <1>2, <1>3, <1>4, OpenKeeps

\* A run is completed only with no failed action, no review skipped, its acceptance
\* checks met or its verification subrun in favour: for any requests and decisions.
THEOREM CompletedIsAlwaysVerified == Spec => []CompletedIsVerified
<1>1. Init => VerifiedInv
  <2> SUFFICES ASSUME Init PROVE VerifiedInv
    OBVIOUS
  <2>1. \A r \in Runs : pc[r] = "idle" /\ row[r].status = "none"
    BY DEF Init, NoRow
  <2> QED BY <2>1 DEF VerifiedInv, StackInv, CompletedIsVerified, Main, Runs
<1>2. IInv /\ VerifiedInv /\ [Next]_vars => VerifiedInv'
  <2> SUFFICES ASSUME IInv, VerifiedInv, [Next]_vars PROVE VerifiedInv'
    OBVIOUS
  <2>1. CASE Request BY <2>1, RequestKeepsVerified
  <2>2. ASSUME NEW r \in Runs, Execute(r) PROVE VerifiedInv'
    BY <2>2, ChildKeepsVerified, MainKeepsVerified
  <2>3. ASSUME NEW r \in Runs, Subrun(r) PROVE VerifiedInv'
    BY <2>3, SubrunKeepsVerified
  <2>4. CASE UNCHANGED vars
    BY <2>4 DEF vars, VerifiedInv, StackInv, CompletedIsVerified, ChildApproves, Accepted
  <2> QED BY <2>1, <2>2, <2>3, <2>4 DEF Next, Progress
<1>3. VerifiedInv => CompletedIsVerified BY DEF VerifiedInv
<1> QED BY <1>1, <1>2, <1>3, Inductive, PTL DEF Spec

-----------------------------------------------------------------------------
(* The trace.  As long as nobody deletes it, rows are only appended, so that *)
(* what a reader makes of a step depends on the steps before it and does not *)
(* change.                                                                   *)

StepTypes == {"decision", "decision_error", "action", "observation",
              "tool_call", "skill_call", "tool_result", "skill_result"}
StepRows == [type: StepTypes, name: Int, meta: Int, of: Nat, turn: Int, session: Nat,
             index: Nat, answered: BOOLEAN, listed: BOOLEAN]
ArtifactRows == [type: {"runtime_request", "planner_context", "llm_prompt", "llm_response", "decision"},
                 title: Int, meta: Int, turn: Int, session: Nat, listed: BOOLEAN]

\* A session that has come so far has decided a turn.
Deciding == {"decided", "acting", "action", "called"}
Turned == Deciding \cup {"ended", "verified"}
Planning == {"plan", "context", "prompted", "answered"}

\* The writes of a session.
TraceWrites ==
    \/ Start \/ RecordContext \/ RecordPrompt \/ RecordResponse
    \/ StopDecides \/ ModelDecides \/ StopsBeforeActions \/ RecordDecisionArtifact
    \/ RecordAction \/ RecordCall \/ RecordResult \/ RecordDecisionError
    \/ NextTurnFollows \/ LoopEnds \/ RecordFeedback \/ RecordVerification \/ RecordRetry
    \/ SessionEnds \/ Fatal

\* Where nobody has deleted anything, the index of a step is its place.
TraceTypes ==
    /\ deleting = "nothing" /\ \A i \in DOMAIN steps : steps[i].index = i - 1
    /\ steps \in Seq(StepRows) /\ artifacts \in Seq(ArtifactRows)
    /\ recorded \in BOOLEAN /\ turnCount \in Nat /\ session \in Nat
    /\ writing \in Planning \cup Turned \cup {"rest"}
    /\ executing \in [actions: Int, stop: BOOLEAN, meta: Int]
    /\ todo \in Int
    /\ call \in [kind: CallKinds \cup {"none"}, meta: Int, step: Nat]
    /\ writing \in {"action", "called"} => call.kind \in CallKinds
    /\ writing \in Turned => turnCount >= 1

Below == {b \in Nat \X Nat : b[1] < b[2]}

LEMMA BelowIsWellFounded == IsWellFoundedOn(Below, Nat)
<1>1. \A i, j : <<i, j>> \in Below <=> i \in Nat /\ j \in Nat /\ i < j BY DEF Below
<1> QED BY <1>1, NatLessThanWellFounded, IsWellFoundedOnSubrelation DEF Below, OpToRel

LEMMA LeastExists ==
    ASSUME NEW S \in SUBSET Nat, S # {}
    PROVE  \E n \in S : \A m \in S : n <= m
<1>1. \E n \in S : \A m \in S : ~(<<m, n>> \in Below) BY BelowIsWellFounded, WFMin, Zenon
<1>2. PICK n \in S : \A m \in S : ~(<<m, n>> \in Below) BY <1>1, Zenon
<1>3. \A m \in S : m \in Nat /\ n \in Nat /\ ~(m < n) BY <1>2 DEF Below
<1>4. \A m \in S : n <= m BY <1>3
<1> QED BY <1>2, <1>4

LEMMA LastExists ==
    ASSUME NEW n \in Nat, NEW S \in SUBSET (1..n), S # {}
    PROVE  LastOf(S) \in S /\ \A j \in S : j <= LastOf(S)
<1> DEFINE T == {n - i : i \in S}
<1>1. \A i \in S : i \in Nat /\ n - i \in Nat OBVIOUS
<1>2. T \in SUBSET Nat /\ T # {} BY <1>1
<1>3. \E m \in T : \A k \in T : m <= k
  <2> HIDE DEF T
  <2> QED BY <1>2, LeastExists, Zenon
<1>4. PICK i \in S : \A k \in T : n - i <= k BY <1>3
<1>5. ASSUME NEW j \in S PROVE j <= i
  <2>1. n - i <= n - j BY <1>4
  <2> QED BY <1>1, <2>1
<1>6. \E l \in S : \A j \in S : j <= l BY <1>5
<1> QED BY <1>6 DEF LastOf

LEMMA RowAppended ==
    ASSUME NEW T, NEW s \in Seq(T), NEW e \in T, NEW t, t = Append(s, e)
    PROVE  /\ t \in Seq(T) /\ Len(s) \in Nat /\ Len(t) = Len(s) + 1
           /\ DOMAIN s = 1..Len(s) /\ DOMAIN t = 1..(Len(s) + 1)
           /\ \A i \in 1..Len(s) : t[i] = s[i]
           /\ t[Len(s) + 1] = e
OBVIOUS

\* Place(i) of the steps s.
PlaceIn(s, i) ==
    LET named == {j \in 1..i : Names(s[j])}
    IN  IF named = {} THEN None ELSE TurnOfStep(s[LastOf(named)])

LEMMA PlaceIsIn ==
    /\ \A i : Place(i) = PlaceIn(steps, i)
    /\ \A i : Place(i)' = PlaceIn(steps', i)
BY DEF Place, PlaceIn, Names, TurnOfStep, LastOf

\* Where the reader of a trace is when he has read i steps.
LEMMA PlaceOfNext ==
    ASSUME NEW s, NEW i \in Nat \ {0}
    PROVE  /\ Names(s[i]) => PlaceIn(s, i) = TurnOfStep(s[i])
           /\ ~Names(s[i]) => PlaceIn(s, i) = PlaceIn(s, i - 1)
<1> DEFINE named == {j \in 1..i : Names(s[j])}
<1>2. ASSUME Names(s[i]) PROVE PlaceIn(s, i) = TurnOfStep(s[i])
  <2>1. named \in SUBSET (1..i) /\ i \in named BY <1>2
  <2>2. LastOf(named) \in named /\ \A j \in named : j <= LastOf(named)
    <3> HIDE DEF named
    <3> QED BY <2>1, LastExists
  <2>3. LastOf(named) = i
    <3>1. LastOf(named) \in 1..i /\ i <= LastOf(named) BY <2>1, <2>2
    <3> QED BY <3>1
  <2> QED BY <2>1, <2>3 DEF PlaceIn
<1>3. ASSUME ~Names(s[i]) PROVE PlaceIn(s, i) = PlaceIn(s, i - 1)
  <2>1. named = {j \in 1..(i - 1) : Names(s[j])} BY <1>3
  <2> QED BY <2>1 DEF PlaceIn
<1> QED BY <1>2, <1>3

LEMMA PlaceOfNone == ASSUME NEW s PROVE PlaceIn(s, 0) = None
<1>1. {j \in 1..0 : Names(s[j])} = {} OBVIOUS
<1> QED BY <1>1 DEF PlaceIn

LEMMA PlaceIsOfPrefix ==
    ASSUME NEW s, NEW t, NEW i \in Nat, \A j \in 1..i : t[j] = s[j]
    PROVE  PlaceIn(t, i) = PlaceIn(s, i)
<1> DEFINE named == {j \in 1..i : Names(s[j])}
<1>1. {j \in 1..i : Names(t[j])} = named OBVIOUS
<1>2. CASE named = {} BY <1>1, <1>2 DEF PlaceIn
<1>3. CASE named # {}
  <2>1. LastOf(named) \in 1..i
    <3>1. named \in SUBSET (1..i) OBVIOUS
    <3> HIDE DEF named
    <3> QED BY <1>3, <3>1, LastExists
  <2>2. t[LastOf(named)] = s[LastOf(named)] BY <2>1
  <2> QED BY <1>1, <1>3, <2>2 DEF PlaceIn
<1> QED BY <1>2, <1>3

-----------------------------------------------------------------------------
(* What holds of the rows after each write.                                  *)

\* Unless a payload names a turn, each step is placed in the turn that wrote
\* it: the decision of the turn, and its errors and observations, say so, and
\* nothing else does.
Placed(step, place) ==
    /\ IsFatal(step) \/ place \in {None, step.turn}
    /\ step.type \notin {"decision", "decision_error", "observation"} => step.meta = None

RowsPlaced == \A i \in DOMAIN steps : Placed(steps[i], Place(i))

PlacesInv ==
    /\ writing \in Deciding => Place(Len(steps)) \in {None, turnCount - 1}
    /\ writing \in {"action", "called"} => call.meta = None
    /\ RowsPlaced

OwnName(step) == step.type = "decision" => step.name = step.turn /\ step.turn \in Nat
DecisionsInv == \A i \in DOMAIN steps : OwnName(steps[i])

TurnInv == DecisionsInv /\ ("hint" \notin disturbed => PlacesInv)

\* The session s has written an artifact that the reader puts into turn t.
WroteIn(rows, s, type, t) ==
    \E i \in DOMAIN rows : rows[i].type = type /\ rows[i].session = s /\ TurnOfArtifact(rows[i]) = t

Wrote(type, t) == WroteIn(artifacts, session, type, t)

\* Sessions follow each other in the rows; s is the last.
InSessions(rows, s) ==
    /\ \A i \in DOMAIN rows : rows[i].session <= s
    /\ \A i, j \in DOMAIN rows : i <= j => rows[i].session <= rows[j].session

\* What the turn that is decided next has already written.
ContextInv ==
    /\ writing \in {"plan", "context"} \cup Turned =>
         \A t \in Nat : t >= turnCount => ~Wrote("llm_prompt", t) /\ ~Wrote("llm_response", t)
    /\ writing \in {"prompted", "answered"} =>
         /\ \A t \in Nat : t > turnCount => ~Wrote("llm_prompt", t) /\ ~Wrote("llm_response", t)
         /\ Wrote("llm_prompt", turnCount)
    /\ writing \in {"context", "prompted", "answered"} => Wrote("planner_context", turnCount)
    /\ writing = "answered" => Wrote("llm_response", turnCount)

\* A decision of the session has the artifacts that led to it, and turns are
\* decided in their order.
Reasoned(t, answered) ==
    /\ t < turnCount /\ Wrote("planner_context", t)
    /\ Wrote("llm_prompt", t) <=> answered
    /\ Wrote("llm_response", t) <=> answered

Decides(step, s) == step.type = "decision" /\ step.session = s

DecidedInv ==
    /\ \A i \in DOMAIN steps : Decides(steps[i], session) => Reasoned(steps[i].turn, steps[i].answered)
    /\ \A i, j \in DOMAIN steps :
         Decides(steps[i], session) /\ Decides(steps[j], session) /\ i < j => steps[i].turn < steps[j].turn

\* Actions follow the artifact of their decision.
Acts(step, s) == step.type = "action" /\ step.session = s

ActedInv ==
    /\ writing = "decided" => executing.meta = None
    /\ writing \in {"acting", "action", "called"} => Wrote("decision", turnCount - 1)
    /\ \A i \in DOMAIN steps : Acts(steps[i], session) => Wrote("decision", steps[i].turn)

RowsInv ==
    /\ artifacts = <<>> => steps = <<>> /\ writing = "rest"
    /\ InSessions(steps, session) /\ InSessions(artifacts, session)

FirstInv == session = 0 => ~recorded /\ writing = "rest" /\ disturbed = {} /\ artifacts = <<>> /\ steps = <<>>

SessionInv ==
    /\ FirstInv /\ RowsInv /\ ContextInv /\ DecidedInv
    /\ "hint" \notin disturbed => ActedInv

Calls == {"tool_call", "skill_call"}
Results == {"tool_result", "skill_result"}
Answers(result, call1) == \E kind \in CallKinds : result = ResultStep[kind] /\ call1 = CallStep[kind]

\* A result follows its call.
ResultsFollow(rows) ==
    \A i \in DOMAIN rows : rows[i].type \in Results =>
        i > 1 /\ rows[i].of = i - 1 /\ Answers(rows[i].type, rows[i - 1].type)

\* A call whose result is not there.
Unanswered(rows, i) ==
    /\ i \in DOMAIN rows /\ rows[i].type \in Calls
    /\ i + 1 \in DOMAIN rows => rows[i + 1].type \notin Results

\* It is the last of its turn.
LastOfTurn(rows) ==
    \A i, j \in DOMAIN rows :
        Unanswered(rows, i) /\ i < j /\ rows[j].type \in Calls \cup Results => rows[i].turn # rows[j].turn

CallsBelow(rows, count) == \A i \in DOMAIN rows : rows[i].type \in Calls \cup Results => rows[i].turn < count

AnswersInv ==
    /\ ResultsFollow(steps) /\ LastOfTurn(steps) /\ CallsBelow(steps, turnCount)
    /\ writing \in {"decided", "action"} \/ (writing = "acting" /\ todo > 0) =>
         \A i \in DOMAIN steps : Unanswered(steps, i) => steps[i].turn # turnCount - 1
    /\ writing = "called" =>
         /\ call.step = Len(steps) /\ Len(steps) > 0 /\ steps[Len(steps)].type = CallStep[call.kind]
         /\ \A i \in DOMAIN steps : Unanswered(steps, i) /\ steps[i].turn = turnCount - 1 => i = Len(steps)

AnswerInv == disturbed = {} => AnswersInv

WritingInv == TraceTypes /\ TurnInv /\ SessionInv /\ AnswerInv

\* A deletion that no session disturbs takes the steps from the first on.
DeletingInv ==
    /\ session # 0 /\ writing = "rest" /\ steps \in Seq(StepRows)
    /\ DecisionsInv /\ ("hint" \notin disturbed => RowsPlaced)
    /\ deleting = "steps" => \A i \in DOMAIN steps : steps[i].listed

TraceInv ==
    IF "deleted" \notin disturbed THEN WritingInv
    ELSE "torn" \notin disturbed => DeletingInv

-----------------------------------------------------------------------------
(* Rows and types.                                                           *)

LEMMA CallTypes ==
    \A kind \in CallKinds : CallStep[kind] \in Calls /\ ResultStep[kind] \in Results
BY DEF CallKinds, CallStep, ResultStep, Calls, Results

LEMMA CallsAreSteps == Calls \cup Results \subseteq StepTypes \ {"decision", "decision_error", "observation", "action"}
BY DEF StepTypes, Calls, Results

LEMMA MetasAreInts == \A meta \in Metas : meta \in Int
BY TraceAssumption DEF Metas, None

LEMMA TypesOfState ==
    ASSUME TraceTypes
    PROVE  /\ turnCount \in Nat /\ turnCount \in Int /\ turnCount - 1 \in Int /\ session \in Nat
           /\ None \in Int /\ 0 \in Nat /\ LastTurn \in Int
           /\ Len(steps) \in Nat /\ DOMAIN steps = 1..Len(steps)
           /\ Len(artifacts) \in Nat /\ DOMAIN artifacts = 1..Len(artifacts)
BY DEF TraceTypes, None, LastTurn

LEMMA AppendedInPlace ==
    ASSUME NEW T, NEW s \in Seq(T), NEW e \in T
    PROVE  s \o <<e>> \o <<>> = Append(s, e)
OBVIOUS

\* The step with the highest index comes last.
LEMMA StepAppended ==
    ASSUME TraceTypes, NEW type, NEW name, NEW meta, NEW of, NEW turn,
           SaveStep(RunStep(type, name, meta, of, turn))
    PROVE  steps' = Append(steps, RunStep(type, name, meta, of, turn))
<1> DEFINE step == RunStep(type, name, meta, of, turn)
           before == {i \in DOMAIN steps : steps[i].index <= step.index}
<1>1. /\ steps \in Seq(StepRows) /\ Len(steps) \in Nat /\ DOMAIN steps = 1..Len(steps)
      /\ \A i \in DOMAIN steps : steps[i].index = i - 1
  BY DEF TraceTypes
<1>2. step.index = Len(steps) BY DEF RunStep
<1>3. before = 1..Len(steps) BY <1>1, <1>2
<1>4. Cardinality(before) = Len(steps)
  <2>1. PICK n \in Nat : n = Len(steps) BY <1>1
  <2>2. Cardinality(1..n) = IF 1 > n THEN 0 ELSE n - 1 + 1 BY FS_Interval
  <2>3. Cardinality(1..Len(steps)) = Len(steps) BY SMTT(60), <2>1, <2>2
  <2> HIDE DEF before
  <2> QED BY SMTT(60), <1>3, <2>3
<1>5. steps' = SubSeq(steps, 1, Len(steps)) \o <<step>> \o SubSeq(steps, Len(steps) + 1, Len(steps))
  BY <1>4 DEF SaveStep
<1>6. SubSeq(steps, 1, Len(steps)) = steps /\ SubSeq(steps, Len(steps) + 1, Len(steps)) = <<>> BY <1>1
<1> HIDE DEF step
<1>7. steps \in Seq(StepRows \cup {step}) /\ step \in StepRows \cup {step} BY <1>1
<1>8. steps' = Append(steps, step) BY <1>5, <1>6, <1>7, AppendedInPlace
<1> QED BY <1>8 DEF step

LEMMA StepIsSaved ==
    ASSUME TraceTypes, NEW type \in StepTypes, NEW name \in Int, NEW meta \in Int, NEW of \in Nat,
           NEW turn \in Int, SaveStep(RunStep(type, name, meta, of, turn))
    PROVE  \E step \in StepRows :
             /\ steps' = Append(steps, step) /\ step.session = session
             /\ step = RunStep(type, name, meta, of, turn)
<1> DEFINE step == RunStep(type, name, meta, of, turn)
<1>1. step \in StepRows /\ step.session = session BY DEF TraceTypes, RunStep, StepRows
<1>2. steps' = Append(steps, step) BY StepAppended
<1> QED BY <1>1, <1>2

LEMMA ArtifactIsSaved ==
    ASSUME TraceTypes, NEW type \in {"planner_context", "llm_prompt", "llm_response", "decision"},
           NEW title \in Int, NEW meta \in Int, NEW turn \in Int, RecordArtifact(type, title, meta, turn)
    PROVE  \E artifact \in ArtifactRows :
             /\ artifacts' = Append(artifacts, artifact) /\ artifact.session = session
             /\ artifact.type = type
             /\ TurnOfArtifact(artifact) = IF type = "decision" /\ meta # None THEN meta ELSE title
<1> DEFINE artifact == RunArtifact(type, title, meta, turn)
<1>1. artifact \in ArtifactRows BY DEF TraceTypes, RunArtifact, ArtifactRows
<1>2. /\ artifact.session = session /\ artifact.type = type
      /\ TurnOfArtifact(artifact) = IF type = "decision" /\ meta # None THEN meta ELSE title
  BY DEF RunArtifact, TurnOfArtifact
<1>3. artifacts' = Append(artifacts, artifact) BY DEF RecordArtifact, SaveArtifact
<1> QED BY <1>1, <1>2, <1>3

LEMMA StepIsWritten ==
    ASSUME TraceTypes, NEW type \in StepTypes, NEW name \in Int, NEW meta \in Int, NEW of \in Nat,
           NEW turn \in Int, SaveStep(RunStep(type, name, meta, of, turn))
    PROVE  \E step \in StepRows :
             steps' = Append(steps, step) /\ step.session = session /\ step.index = Len(steps)
<1>1. RunStep(type, name, meta, of, turn).index = Len(steps) BY DEF RunStep
<1> QED BY <1>1, StepIsSaved

\* The rows that a session appends are its own.
LEMMA RowsWritten ==
    ASSUME TraceTypes, TraceWrites, ~Start
    PROVE  /\ writing # "rest" /\ session' = session /\ (\A d \in disturbed : d \in disturbed')
           /\ \/ UNCHANGED artifacts
              \/ \E artifact \in ArtifactRows : artifacts' = Append(artifacts, artifact) /\ artifact.session = session
           /\ UNCHANGED steps \/ \E step \in StepRows : steps' = Append(steps, step) /\ step.session = session /\ step.index = Len(steps)
<1>0. /\ turnCount \in Int /\ turnCount - 1 \in Int /\ None \in Int /\ 0 \in Nat /\ LastTurn \in Int
  BY TypesOfState
<1>1. CASE RecordContext BY <1>0, <1>1, ArtifactIsSaved DEF RecordContext
<1>2. CASE RecordPrompt BY <1>0, <1>2, ArtifactIsSaved DEF RecordPrompt
<1>3. CASE RecordResponse BY <1>0, <1>3, ArtifactIsSaved DEF RecordResponse
<1>4. CASE StopDecides \/ ModelDecides
  <2>1. /\ SaveStep(RunStep("decision", turnCount, None, 0, turnCount)) /\ UNCHANGED <<artifacts, session>>
        /\ writing # "rest" /\ \A d \in disturbed : d \in disturbed'
    BY <1>4 DEF StopDecides, ModelDecides, Decided, SaveNewStep, Hinted
  <2>2. "decision" \in StepTypes BY DEF StepTypes
  <2>3. \E step \in StepRows : steps' = Append(steps, step) /\ step.session = session /\ step.index = Len(steps)
    BY <1>0, <2>1, <2>2, StepIsWritten
  <2> QED BY <2>1, <2>3
<1>5. CASE RecordDecisionArtifact
  <2>1. executing.meta \in Int BY DEF TraceTypes
  <2>2. \E artifact \in ArtifactRows : artifacts' = Append(artifacts, artifact) /\ artifact.session = session
    BY <1>0, <1>5, <2>1, ArtifactIsSaved DEF RecordDecisionArtifact
  <2> QED BY <1>5, <2>2 DEF RecordDecisionArtifact
<1>6. CASE RecordAction
  <2>1. PICK meta \in Metas : SaveNewStep("action", None, meta, 0, turnCount - 1) /\ Hinted(meta)
    BY <1>6 DEF RecordAction
  <2>2. meta \in Int /\ "action" \in StepTypes BY MetasAreInts DEF StepTypes
  <2>3. \E step \in StepRows : steps' = Append(steps, step) /\ step.session = session /\ step.index = Len(steps)
    BY <1>0, <2>1, <2>2, StepIsWritten DEF SaveNewStep
  <2> QED BY <1>6, <2>1, <2>3 DEF RecordAction, Hinted
<1>7. CASE RecordCall
  <2>1. call.meta \in Int /\ CallStep[call.kind] \in StepTypes
    BY <1>7, CallTypes, CallsAreSteps DEF RecordCall, TraceTypes
  <2>2. \E step \in StepRows : steps' = Append(steps, step) /\ step.session = session /\ step.index = Len(steps)
    BY <1>0, <1>7, <2>1, StepIsWritten DEF RecordCall, SaveNewStep
  <2> QED BY <1>7, <2>2 DEF RecordCall
<1>8. CASE RecordResult
  <2>1. PICK meta \in Metas :
          SaveNewStep(ResultStep[call.kind], None, meta, call.step, turnCount - 1) /\ Hinted(meta)
    BY <1>8 DEF RecordResult
  <2>2. ResultStep[call.kind] \in StepTypes /\ meta \in Int /\ call.step \in Nat
    BY <1>8, CallTypes, CallsAreSteps, MetasAreInts DEF RecordResult, TraceTypes
  <2>3. \E step \in StepRows : steps' = Append(steps, step) /\ step.session = session /\ step.index = Len(steps)
    BY <1>0, <2>1, <2>2, StepIsWritten DEF SaveNewStep
  <2> QED BY <1>8, <2>1, <2>3 DEF RecordResult, Hinted
<1>9. CASE RecordDecisionError
  <2>1. \E step \in StepRows : steps' = Append(steps, step) /\ step.session = session /\ step.index = Len(steps)
    BY <1>0, <1>9, StepIsWritten DEF RecordDecisionError, SaveNewStep, StepTypes
  <2> QED BY <1>9, <2>1 DEF RecordDecisionError, ExecutionFails
<1>10. CASE RecordFeedback \/ RecordVerification \/ RecordRetry
  <2>1. PICK next : RecordObservation(next) BY <1>10 DEF RecordFeedback, RecordVerification, RecordRetry
  <2>2. \E step \in StepRows : steps' = Append(steps, step) /\ step.session = session /\ step.index = Len(steps)
    BY <1>0, <2>1, StepIsWritten DEF RecordObservation, SaveNewStep, StepTypes
  <2> QED BY <1>10, <2>1, <2>2 DEF RecordObservation, RecordFeedback, RecordVerification, RecordRetry
<1>11. CASE Fatal
  <2>1. \E step \in StepRows : steps' = Append(steps, step) /\ step.session = session /\ step.index = Len(steps)
    BY <1>0, <1>11, StepIsWritten DEF Fatal, StepTypes
  <2> QED BY <1>11, <2>1 DEF Fatal, Raises, ExecutionFails
<1>12. CASE StopsBeforeActions BY <1>12 DEF StopsBeforeActions
<1>13. CASE NextTurnFollows \/ LoopEnds BY <1>13 DEF NextTurnFollows, LoopEnds
<1>14. CASE SessionEnds BY <1>14 DEF SessionEnds
<1> QED
  BY <1>1, <1>2, <1>3, <1>4, <1>5, <1>6, <1>7, <1>8, <1>9, <1>10, <1>11, <1>12, <1>13, <1>14 DEF TraceWrites

\* A session begins with its request.
LEMMA RowsOfStart ==
    ASSUME TraceTypes, Start
    PROVE  \E artifact \in ArtifactRows :
             /\ artifacts' = Append(artifacts, artifact) /\ artifact.session = session'
             /\ artifact.type = "runtime_request" /\ session' = session + 1 /\ UNCHANGED steps
<1> DEFINE artifact == [RunArtifact("runtime_request", None, None, 0) EXCEPT !.session = session + 1]
<1>1. artifact \in ArtifactRows /\ artifact.session = session + 1 /\ artifact.type = "runtime_request"
  <2>1. session \in Nat /\ session + 1 \in Nat /\ None \in Int /\ 0 \in Int BY TypesOfState
  <2> DEFINE base == RunArtifact("runtime_request", None, None, 0)
  <2>2. base \in ArtifactRows BY <2>1 DEF RunArtifact, ArtifactRows
  <2>3. base.type = "runtime_request" BY DEF RunArtifact
  <2> HIDE DEF base
  <2>4. [base EXCEPT !.session = session + 1] \in ArtifactRows BY <2>1, <2>2 DEF ArtifactRows
  <2>5. /\ [base EXCEPT !.session = session + 1].session = session + 1
        /\ [base EXCEPT !.session = session + 1].type = "runtime_request"
    BY <2>2, <2>3 DEF ArtifactRows
  <2> QED BY <2>4, <2>5 DEF base
<1>2. artifacts' = Append(artifacts, artifact) /\ session' = session + 1 /\ UNCHANGED steps
  BY DEF Start, SaveArtifact
<1> QED BY <1>1, <1>2

LEMMA RowTypesKept ==
    ASSUME TraceTypes, [TraceWrites]_traceVars
    PROVE  /\ steps' \in Seq(StepRows) /\ artifacts' \in Seq(ArtifactRows) /\ session' \in Nat
           /\ \A i \in DOMAIN steps' : steps'[i].index = i - 1
<1>1. /\ \A i \in DOMAIN steps : steps[i].index = i - 1
      /\ steps \in Seq(StepRows) /\ artifacts \in Seq(ArtifactRows) /\ session \in Nat BY DEF TraceTypes
<1>2. CASE Start BY <1>1, <1>2, RowsOfStart, RowAppended
<1>3. CASE UNCHANGED traceVars BY <1>1, <1>3 DEF traceVars
<1>4. CASE TraceWrites /\ ~Start
  <2>1. artifacts' \in Seq(ArtifactRows) /\ session' \in Nat BY <1>1, <1>4, RowsWritten, RowAppended
  <2>2. CASE UNCHANGED steps BY <1>1, <2>1, <2>2
  <2>3. ASSUME NEW step \in StepRows, steps' = Append(steps, step), step.index = Len(steps)
        PROVE  steps' \in Seq(StepRows) /\ \A i \in DOMAIN steps' : steps'[i].index = i - 1
    BY <1>1, <2>3, RowAppended
  <2> QED BY <1>4, <2>1, <2>2, <2>3, RowsWritten
<1> QED BY <1>2, <1>3, <1>4

LEMMA ActionsLeftIsInt == ASSUME TraceTypes PROVE ActionsLeft \in Int
<1> DEFINE S == {i \in DOMAIN steps : steps[i].type = "action"}
<1>1. IsFiniteSet(S)
  <2>1. IsFiniteSet(1..Len(steps)) BY TypesOfState, FS_Interval
  <2>2. S \in SUBSET (1..Len(steps)) BY TypesOfState
  <2> QED BY <2>1, <2>2, FS_Subset
<1>2. Cardinality(S) \in Nat
  <2> HIDE DEF S
  <2> QED BY <1>1, FS_CardinalityType
<1> QED BY <1>2, TraceAssumption DEF ActionsLeft

\* What a session knows of the decision it executes.
ExecutionTypes ==
    /\ executing \in [actions: Int, stop: BOOLEAN, meta: Int] /\ todo \in Int
    /\ call \in [kind: CallKinds \cup {"none"}, meta: Int, step: Nat]

LEMMA NothingTypes ==
    /\ NothingExecuting \in [actions: Int, stop: BOOLEAN, meta: Int]
    /\ [NothingExecuting EXCEPT !.stop = TRUE] \in [actions: Int, stop: BOOLEAN, meta: Int]
    /\ NoCall \in [kind: CallKinds \cup {"none"}, meta: Int, step: Nat]
<1>1. None \in Int BY DEF None
<1> HIDE DEF None
<1>2. NothingExecuting \in [actions: Int, stop: BOOLEAN, meta: Int] BY <1>1 DEF NothingExecuting
<1>3. [NothingExecuting EXCEPT !.stop = TRUE] \in [actions: Int, stop: BOOLEAN, meta: Int] BY <1>2
<1>4. NoCall \in [kind: CallKinds \cup {"none"}, meta: Int, step: Nat] BY <1>1 DEF NoCall
<1> QED BY <1>2, <1>3, <1>4

LEMMA TypesAtFirst == TraceInit => TraceTypes
<1> SUFFICES ASSUME TraceInit PROVE TraceTypes OBVIOUS
<1>1. steps \in Seq(StepRows) /\ artifacts \in Seq(ArtifactRows) BY DEF TraceInit
<1>2. ExecutionTypes BY NothingTypes DEF TraceInit, ExecutionTypes
<1>3. /\ writing = "rest" /\ recorded = FALSE /\ turnCount = 0 /\ session = 0
      /\ deleting = "nothing" /\ DOMAIN steps = {}
  BY DEF TraceInit
<1> QED BY <1>1, <1>2, <1>3 DEF TraceTypes, ExecutionTypes, Planning, Turned, Deciding

LEMMA ForgetTypes == Forget => ExecutionTypes'
<1> SUFFICES ASSUME Forget PROVE ExecutionTypes' OBVIOUS
<1>1. executing' = NothingExecuting /\ todo' = 0 /\ call' = NoCall BY DEF Forget
<1> QED BY <1>1, NothingTypes DEF ExecutionTypes

LEMMA ExecutionTypesKept == ASSUME TraceTypes, [TraceWrites]_traceVars PROVE ExecutionTypes'
<1>0. ExecutionTypes BY DEF TraceTypes, ExecutionTypes
<1>1. CASE Start \/ StopsBeforeActions \/ NextTurnFollows \/ LoopEnds \/ Fatal
  BY <1>1, ForgetTypes DEF Start, StopsBeforeActions, NextTurnFollows, LoopEnds, Fatal
<1>2. ASSUME NEW new \in [actions: Int, stop: BOOLEAN, meta: Int], Decided(new) PROVE ExecutionTypes'
  <2>1. executing' = new /\ todo' = new.actions /\ call' = NoCall BY <1>2 DEF Decided
  <2> QED BY <2>1, NothingTypes DEF ExecutionTypes
<1>3. CASE StopDecides BY <1>2, <1>3, NothingTypes DEF StopDecides
<1>4. CASE ModelDecides
  <2>1. PICK n \in 0..ActionsLeft, stop \in BOOLEAN, meta \in Metas :
          Decided([actions |-> n, stop |-> stop, meta |-> meta])
    BY <1>4 DEF ModelDecides
  <2>2. [actions |-> n, stop |-> stop, meta |-> meta] \in [actions: Int, stop: BOOLEAN, meta: Int]
    BY ActionsLeftIsInt, MetasAreInts
  <2> QED BY <1>2, <2>1, <2>2
<1>5. CASE RecordAction
  <2>1. PICK kind \in CallKinds, meta \in Metas : call' = [kind |-> kind, meta |-> meta, step |-> 0]
    BY <1>5 DEF RecordAction
  <2>2. call' \in [kind: CallKinds \cup {"none"}, meta: Int, step: Nat] BY <2>1, MetasAreInts
  <2> QED BY <1>0, <1>5, <2>2 DEF RecordAction, ExecutionTypes
<1>6. CASE RecordCall
  <2>1. call' = [call EXCEPT !.step = Len(steps) + 1] BY <1>6 DEF RecordCall
  <2>2. call' \in [kind: CallKinds \cup {"none"}, meta: Int, step: Nat]
    BY SMTT(60), <1>0, <2>1, TypesOfState DEF ExecutionTypes
  <2> QED BY <1>0, <1>6, <2>2 DEF RecordCall, ExecutionTypes
<1>7. CASE RecordResult \/ RecordDecisionError
  BY <1>0, <1>7 DEF RecordResult, RecordDecisionError, ExecutionTypes
<1>8. CASE \/ RecordContext \/ RecordPrompt \/ RecordResponse \/ RecordDecisionArtifact \/ RecordFeedback
           \/ RecordVerification \/ RecordRetry \/ SessionEnds \/ UNCHANGED traceVars
  BY <1>0, <1>8 DEF RecordContext, RecordPrompt, RecordResponse, RecordDecisionArtifact, RecordFeedback,
      RecordVerification, RecordRetry, RecordObservation, SessionEnds, traceVars, acting, ExecutionTypes
<1> QED BY <1>1, <1>3, <1>4, <1>5, <1>6, <1>7, <1>8 DEF TraceWrites

\* Where the session stands.
Course ==
    /\ recorded \in BOOLEAN /\ turnCount \in Nat
    /\ writing \in Planning \cup Turned \cup {"rest"}
    /\ writing \in {"action", "called"} => call.kind \in CallKinds
    /\ writing \in Turned => turnCount >= 1

LEMMA CourseKept == ASSUME TraceTypes, [TraceWrites]_traceVars PROVE Course'
<1>0. Course BY DEF TraceTypes, Course
<1>1. CASE Start BY <1>1 DEF Start, SaveRow, Course, Planning, Turned, Deciding
<1>2. CASE RecordContext \/ RecordPrompt \/ RecordResponse
  BY <1>0, <1>2 DEF RecordContext, RecordPrompt, RecordResponse, Course, Planning, Turned, Deciding
<1>3. CASE StopDecides \/ ModelDecides
  <2>1. writing' = "decided" /\ turnCount' = turnCount + 1 /\ recorded' = recorded
    BY <1>3 DEF StopDecides, ModelDecides, Decided, SaveNewStep
  <2> QED BY <1>0, <2>1 DEF Course, Planning, Turned, Deciding
<1>4. CASE StopsBeforeActions \/ RecordDecisionArtifact
  BY <1>0, <1>4 DEF StopsBeforeActions, RecordDecisionArtifact, Course, Planning, Turned, Deciding
<1>5. CASE RecordAction
  <2>1. PICK kind \in CallKinds, meta \in Metas :
          call' = [kind |-> kind, meta |-> meta, step |-> 0] /\ recorded' = recorded
    BY <1>5 DEF RecordAction, SaveNewStep
  <2>2. call'.kind \in CallKinds BY <2>1
  <2> QED BY <1>0, <1>5, <2>1, <2>2 DEF RecordAction, Course, Planning, Turned, Deciding
<1>6. CASE RecordCall
  <2>1. call'.kind = call.kind BY <1>6 DEF RecordCall, TraceTypes
  <2>2. recorded' = recorded /\ writing = "action" /\ writing' = "called" /\ UNCHANGED turnCount
    BY <1>6 DEF RecordCall, SaveNewStep
  <2> QED BY <1>0, <2>1, <2>2 DEF Course, Planning, Turned, Deciding
<1>7. CASE RecordResult \/ RecordDecisionError
  <2>1. recorded' = recorded /\ writing \in Turned /\ writing' = "acting" /\ UNCHANGED turnCount
    BY <1>7 DEF RecordResult, RecordDecisionError, ExecutionFails, SaveNewStep, Turned, Deciding
  <2> QED BY <1>0, <2>1 DEF Course, Planning, Turned, Deciding
<1>8. CASE NextTurnFollows \/ LoopEnds
  BY <1>0, <1>8 DEF NextTurnFollows, LoopEnds, Course, Planning, Turned, Deciding
<1>9. CASE RecordFeedback \/ RecordVerification \/ RecordRetry
  <2>1. recorded' = recorded /\ writing \in Turned /\ writing' \in {"plan", "verified"} /\ UNCHANGED turnCount
    BY <1>9 DEF RecordFeedback, RecordVerification, RecordRetry, RecordObservation, SaveNewStep, Turned
  <2> QED BY <1>0, <2>1 DEF Course, Planning, Turned, Deciding
<1>10. CASE SessionEnds \/ Fatal
  BY <1>0, <1>10 DEF SessionEnds, Fatal, SaveRow, Course, Planning, Turned, Deciding
<1>11. CASE UNCHANGED traceVars BY <1>0, <1>11 DEF acting, traceVars, Course
<1> QED
  BY <1>1, <1>2, <1>3, <1>4, <1>5, <1>6, <1>7, <1>8, <1>9, <1>10, <1>11 DEF TraceWrites

LEMMA NothingIsDeleted == ASSUME [TraceWrites]_traceVars PROVE UNCHANGED deleting
BY DEF TraceWrites, Start, RecordContext, RecordPrompt, RecordResponse, StopDecides, ModelDecides, Decided,
       StopsBeforeActions, RecordDecisionArtifact, RecordAction, RecordCall, RecordResult, RecordDecisionError,
       NextTurnFollows, LoopEnds, RecordFeedback, RecordVerification, RecordRetry, RecordObservation,
       SessionEnds, Fatal, traceVars

LEMMA TypesKept == ASSUME TraceTypes, [TraceWrites]_traceVars PROVE TraceTypes'
BY NothingIsDeleted, CourseKept, RowTypesKept, ExecutionTypesKept DEF TraceTypes, ExecutionTypes, Course

-----------------------------------------------------------------------------
(* Turns.                                                                    *)

LEMMA StepPlaced ==
    ASSUME NEW s \in Seq(StepRows), NEW step \in StepRows, NEW t, t = Append(s, step)
    PROVE  /\ \A i \in 0..Len(s) : PlaceIn(t, i) = PlaceIn(s, i)
           /\ Names(step) => PlaceIn(t, Len(s) + 1) = TurnOfStep(step)
           /\ ~Names(step) => PlaceIn(t, Len(s) + 1) = PlaceIn(s, Len(s))
<1>1. /\ Len(s) \in Nat /\ Len(s) + 1 \in Nat \ {0} /\ (Len(s) + 1) - 1 = Len(s)
      /\ \A i \in 1..Len(s) : t[i] = s[i]
      /\ t[Len(s) + 1] = step
  BY RowAppended
<1>2. ASSUME NEW i \in 0..Len(s) PROVE PlaceIn(t, i) = PlaceIn(s, i)
  <2>1. i \in Nat /\ \A j \in 1..i : t[j] = s[j] BY <1>1
  <2> QED BY <2>1, PlaceIsOfPrefix
<1>3. Len(s) \in 0..Len(s) BY <1>1
<1>4. Names(step) => PlaceIn(t, Len(s) + 1) = TurnOfStep(step) BY <1>1, PlaceOfNext
<1>5. ~Names(step) => PlaceIn(t, Len(s) + 1) = PlaceIn(s, Len(s)) BY <1>1, <1>2, <1>3, PlaceOfNext
<1> QED BY <1>2, <1>4, <1>5

\* A step that is saved in its place leaves all in theirs.
LEMMA RowsStayPlaced ==
    ASSUME TraceTypes, RowsPlaced, NEW step \in StepRows, steps' = Append(steps, step),
           Placed(step, IF Names(step) THEN TurnOfStep(step) ELSE Place(Len(steps)))
    PROVE  /\ RowsPlaced'
           /\ Place(Len(steps))' = IF Names(step) THEN TurnOfStep(step) ELSE Place(Len(steps))
<1>1. steps \in Seq(StepRows) BY DEF TraceTypes
<1>2. /\ Len(steps) \in Nat /\ Len(steps') = Len(steps) + 1 /\ DOMAIN steps = 1..Len(steps)
      /\ DOMAIN steps' = 1..(Len(steps) + 1)
      /\ \A i \in 1..Len(steps) : steps'[i] = steps[i]
      /\ steps'[Len(steps) + 1] = step
  BY <1>1, RowAppended
<1>3. PlaceIn(steps', Len(steps) + 1) = IF Names(step) THEN TurnOfStep(step) ELSE Place(Len(steps))
  BY <1>1, StepPlaced, PlaceIsIn
<1>4. ASSUME NEW i \in DOMAIN steps' PROVE Placed(steps'[i], PlaceIn(steps', i))
  <2>1. CASE i = Len(steps) + 1 BY <1>2, <1>3, <2>1
  <2>2. CASE i # Len(steps) + 1
    <3>1. i \in DOMAIN steps /\ i \in 0..Len(steps) /\ steps'[i] = steps[i] BY <1>2, <2>2
    <3>2. PlaceIn(steps', i) = PlaceIn(steps, i) BY <1>1, <3>1, StepPlaced
    <3>3. Placed(steps[i], PlaceIn(steps, i)) BY <3>1, PlaceIsIn DEF RowsPlaced
    <3> QED BY <3>1, <3>2, <3>3
  <2> QED BY <2>1, <2>2
<1>5. RowsPlaced'
  <2>1. ASSUME NEW i \in DOMAIN steps' PROVE Placed(steps'[i], Place(i)') BY SMTT(60), <1>4, PlaceIsIn
  <2> QED BY <2>1 DEF RowsPlaced, Placed, IsFatal
<1>6. Place(Len(steps))' = PlaceIn(steps', Len(steps'))
  BY DEF Place, PlaceIn, Names, TurnOfStep, LastOf
<1> QED BY <1>2, <1>3, <1>5, <1>6

LEMMA RowsSame ==
    ASSUME UNCHANGED steps
    PROVE  /\ RowsPlaced' <=> RowsPlaced
           /\ Place(Len(steps))' = Place(Len(steps))
           /\ DecisionsInv' <=> DecisionsInv
<1>1. \A i : PlaceIn(steps', i) = PlaceIn(steps, i) OBVIOUS
<1>2. \A i : Place(i)' = Place(i) BY <1>1, PlaceIsIn
<1>3. Place(Len(steps))' = Place(Len(steps)) BY DEF Place, Names, TurnOfStep, LastOf
<1> QED BY <1>2, <1>3 DEF RowsPlaced, Placed, IsFatal, DecisionsInv, OwnName

LEMMA DecisionsStay ==
    ASSUME TraceTypes, DecisionsInv, NEW step \in StepRows, steps' = Append(steps, step), OwnName(step)
    PROVE  DecisionsInv'
<1>1. steps \in Seq(StepRows) BY DEF TraceTypes
<1>2. /\ Len(steps) \in Nat /\ DOMAIN steps = 1..Len(steps)
      /\ DOMAIN steps' = 1..(Len(steps) + 1)
      /\ \A i \in 1..Len(steps) : steps'[i] = steps[i]
      /\ steps'[Len(steps) + 1] = step
  BY <1>1, RowAppended
<1>3. ASSUME NEW i \in DOMAIN steps' PROVE OwnName(steps'[i])
  <2>1. CASE i = Len(steps) + 1 BY <1>2, <2>1
  <2>2. CASE i # Len(steps) + 1
    <3>1. i \in DOMAIN steps /\ steps'[i] = steps[i] BY <1>2, <2>2
    <3> QED BY <3>1 DEF DecisionsInv
  <2> QED BY <2>1, <2>2
<1> QED BY <1>3 DEF DecisionsInv, OwnName

LEMMA TurnsAtFirst == TraceInit => TurnInv
<1> SUFFICES ASSUME TraceInit PROVE TurnInv OBVIOUS
<1>1. DOMAIN steps = {} BY DEF TraceInit
<1> QED BY <1>1 DEF TraceInit, TurnInv, DecisionsInv, PlacesInv, RowsPlaced, Deciding

LEMMA TurnsAfterStep ==
    ASSUME TraceTypes, TurnInv, "hint" \in disturbed => "hint" \in disturbed',
           NEW step \in StepRows, steps' = Append(steps, step), OwnName(step),
           "hint" \notin disturbed' /\ PlacesInv
              => Placed(step, IF Names(step) THEN TurnOfStep(step) ELSE Place(Len(steps)))
    PROVE  /\ DecisionsInv'
           /\ "hint" \notin disturbed' =>
                /\ PlacesInv /\ RowsPlaced'
                /\ Place(Len(steps))' = IF Names(step) THEN TurnOfStep(step) ELSE Place(Len(steps))
<1>1. DecisionsInv' BY DecisionsStay DEF TurnInv
<1>2. ASSUME "hint" \notin disturbed'
      PROVE  /\ PlacesInv /\ RowsPlaced'
             /\ Place(Len(steps))' = IF Names(step) THEN TurnOfStep(step) ELSE Place(Len(steps))
  <2>1. PlacesInv BY <1>2 DEF TurnInv
  <2>2. Placed(step, IF Names(step) THEN TurnOfStep(step) ELSE Place(Len(steps))) BY <1>2, <2>1
  <2>3. RowsPlaced BY <2>1 DEF PlacesInv
  <2> QED BY <2>1, <2>2, <2>3, RowsStayPlaced
<1> QED BY <1>1, <1>2

\* Where no step is saved.
LEMMA TurnsWithoutStep ==
    ASSUME TurnInv, UNCHANGED steps, "hint" \in disturbed => "hint" \in disturbed',
           \/ writing' \notin Deciding
           \/ writing \in Deciding /\ writing' \notin {"action", "called"} /\ turnCount' = turnCount
           \/ UNCHANGED <<writing, turnCount, call>>
    PROVE  TurnInv'
<1>1. DecisionsInv' BY RowsSame DEF TurnInv
<1>2. ASSUME "hint" \notin disturbed' PROVE PlacesInv'
  <2>1. PlacesInv BY <1>2 DEF TurnInv
  <2>2. RowsPlaced' /\ Place(Len(steps))' = Place(Len(steps)) BY <2>1, RowsSame DEF PlacesInv
  <2> QED BY <2>1, <2>2 DEF PlacesInv, Deciding
<1> QED BY <1>1, <1>2 DEF TurnInv

LEMMA TurnsDecided ==
    ASSUME TraceTypes, TurnInv, NEW new, Decided(new), "hint" \in disturbed => "hint" \in disturbed'
    PROVE  TurnInv'
<1> DEFINE step == RunStep("decision", turnCount, None, 0, turnCount)
<1>1. turnCount \in Nat /\ turnCount \in Int /\ None \in Int /\ 0 \in Nat /\ session \in Nat BY DEF TraceTypes, None
<1>2. steps' = Append(steps, step) BY StepAppended DEF Decided, SaveNewStep
<1>3. /\ step \in StepRows /\ OwnName(step) /\ Names(step) /\ TurnOfStep(step) = turnCount
      /\ Placed(step, turnCount)
  BY <1>1 DEF RunStep, StepRows, StepTypes, OwnName, Names, TurnOfStep, Placed
<1>4. DecisionsInv' /\ ("hint" \notin disturbed' => RowsPlaced' /\ Place(Len(steps))' = turnCount)
  <2> HIDE DEF step
  <2> QED BY <1>2, <1>3, TurnsAfterStep
<1>5. writing' = "decided" /\ turnCount' - 1 = turnCount BY <1>1 DEF Decided
<1> QED BY <1>4, <1>5 DEF TurnInv, PlacesInv

\* Any other step of the session that the reader places by what came before.
LEMMA TurnsInTurn ==
    ASSUME TraceTypes, TurnInv, NEW type \in StepTypes \ {"decision", "decision_error", "observation"},
           NEW meta \in Int, NEW of \in Nat,
           SaveNewStep(type, None, meta, of, turnCount - 1),
           writing \in Deciding, writing' \in Deciding, UNCHANGED turnCount,
           "hint" \in disturbed \/ meta # None => "hint" \in disturbed',
           "hint" \notin disturbed' /\ writing' \in {"action", "called"} => call'.meta = None
    PROVE  TurnInv'
<1> DEFINE step == RunStep(type, None, meta, of, turnCount - 1)
<1>1. turnCount - 1 \in Int /\ None \in Int /\ session \in Nat BY DEF TraceTypes, None
<1>2. steps' = Append(steps, step) BY StepAppended DEF SaveNewStep
<1>3. step \in StepRows /\ OwnName(step) BY <1>1 DEF RunStep, StepRows, OwnName
<1>4. ASSUME "hint" \notin disturbed', PlacesInv
      PROVE  /\ ~Names(step)
             /\ Placed(step, Place(Len(steps))) /\ Place(Len(steps)) \in {None, turnCount - 1}
  <2>1. meta = None BY <1>4
  <2>2. ~Names(step) BY <2>1 DEF RunStep, Names, TurnOfStep
  <2>3. Place(Len(steps)) \in {None, turnCount - 1} BY <1>4 DEF PlacesInv
  <2> QED BY <2>1, <2>2, <2>3 DEF RunStep, Placed
<1>5. /\ DecisionsInv'
      /\ "hint" \notin disturbed' =>
           PlacesInv /\ RowsPlaced' /\ Place(Len(steps))' = IF Names(step) THEN TurnOfStep(step) ELSE Place(Len(steps))
  <2> HIDE DEF step
  <2> QED BY <1>2, <1>3, <1>4, TurnsAfterStep
<1>6. "hint" \notin disturbed' => PlacesInv'
  <2> HIDE DEF step
  <2> QED BY <1>4, <1>5 DEF PlacesInv
<1> QED BY <1>5, <1>6 DEF TurnInv

LEMMA TurnsObserved ==
    ASSUME TraceTypes, TurnInv, writing \in Turned, NEW next, next \notin Deciding, RecordObservation(next)
    PROVE  TurnInv'
<1> DEFINE step == RunStep("observation", None, LastTurn, 0, turnCount - 1)
<1>1. LastTurn = turnCount - 1 /\ turnCount - 1 \in Nat /\ turnCount - 1 \in Int /\ None \in Int /\ session \in Nat
  BY DEF TraceTypes, None, LastTurn
<1>2. steps' = Append(steps, step) BY StepAppended DEF RecordObservation, SaveNewStep
<1>3. step \in StepRows /\ OwnName(step) BY <1>1 DEF RunStep, StepRows, StepTypes, OwnName
<1>4. Names(step) /\ TurnOfStep(step) = turnCount - 1 /\ Placed(step, turnCount - 1)
  BY <1>1 DEF RunStep, Names, TurnOfStep, Placed, None
<1>5. DecisionsInv' /\ ("hint" \notin disturbed' => RowsPlaced')
  <2> HIDE DEF step
  <2> QED BY <1>2, <1>3, <1>4, TurnsAfterStep DEF RecordObservation
<1> QED BY <1>5 DEF TurnInv, PlacesInv, RecordObservation, Deciding

LEMMA TurnsKept == ASSUME TraceTypes, TurnInv, [TraceWrites]_traceVars PROVE TurnInv'
<1>1. CASE \/ Start \/ RecordContext \/ RecordPrompt \/ RecordResponse \/ StopsBeforeActions
           \/ RecordDecisionArtifact \/ NextTurnFollows \/ LoopEnds \/ SessionEnds \/ UNCHANGED traceVars
  BY <1>1, TurnsWithoutStep
     DEF Start, RecordContext, RecordPrompt, RecordResponse, StopsBeforeActions, RecordDecisionArtifact,
         NextTurnFollows, LoopEnds, SessionEnds, traceVars, Deciding
<1>2. CASE StopDecides BY <1>2, TurnsDecided DEF StopDecides
<1>3. CASE ModelDecides
  <2>1. PICK n \in 0..ActionsLeft, stop \in BOOLEAN, meta \in Metas :
          Decided([actions |-> n, stop |-> stop, meta |-> meta]) /\ Hinted(meta)
    BY <1>3 DEF ModelDecides
  <2>2. "hint" \in disturbed => "hint" \in disturbed' BY <2>1 DEF Hinted
  <2> QED BY <2>1, <2>2, TurnsDecided
<1>4. CASE RecordAction
  <2>1. PICK kind \in CallKinds, meta \in Metas :
          /\ SaveNewStep("action", None, meta, 0, turnCount - 1)
          /\ call' = [kind |-> kind, meta |-> meta, step |-> 0]
          /\ Hinted(meta)
    BY <1>4 DEF RecordAction
  <2>2. meta \in Int /\ ("hint" \in disturbed \/ meta # None => "hint" \in disturbed') /\ call'.meta = meta
    BY <2>1, MetasAreInts DEF Hinted
  <2>3. "action" \in StepTypes \ {"decision", "decision_error", "observation"} BY DEF StepTypes
  <2>4. writing \in Deciding /\ writing' \in Deciding /\ UNCHANGED turnCount BY <1>4 DEF RecordAction, Deciding
  <2> QED BY <2>1, <2>2, <2>3, <2>4, TurnsInTurn
<1>5. CASE RecordCall
  <2>1. /\ call.kind \in CallKinds /\ call.meta \in Int
        /\ CallStep[call.kind] \in StepTypes \ {"decision", "decision_error", "observation"}
    BY <1>5, CallTypes DEF RecordCall, TraceTypes, Calls, StepTypes
  <2>2. /\ writing = "action" /\ writing' \in Deciding /\ UNCHANGED <<turnCount, disturbed>>
        /\ call' = [call EXCEPT !.step = Len(steps) + 1]
    BY <1>5 DEF RecordCall, Deciding
  <2>3. call'.meta = call.meta BY <2>2 DEF TraceTypes
  <2>4. ASSUME "hint" \notin disturbed PROVE call.meta = None BY <2>2, <2>4 DEF TurnInv, PlacesInv
  <2>5. SaveNewStep(CallStep[call.kind], None, call.meta, 0, turnCount - 1) BY <1>5 DEF RecordCall
  <2>6. writing \in Deciding BY <2>2 DEF Deciding
  <2>7. "hint" \in disturbed \/ call.meta # None => "hint" \in disturbed' BY <2>2, <2>4
  <2>8. "hint" \notin disturbed' /\ writing' \in {"action", "called"} => call'.meta = None BY <2>2, <2>3, <2>4
  <2> QED BY <2>1, <2>2, <2>5, <2>6, <2>7, <2>8, TurnsInTurn
<1>6. CASE RecordResult
  <2>1. PICK meta \in Metas :
          SaveNewStep(ResultStep[call.kind], None, meta, call.step, turnCount - 1) /\ Hinted(meta)
    BY <1>6 DEF RecordResult
  <2>2. /\ ResultStep[call.kind] \in StepTypes \ {"decision", "decision_error", "observation"}
        /\ meta \in Int /\ call.step \in Nat
    BY <1>6, CallTypes, MetasAreInts DEF RecordResult, TraceTypes, Results, StepTypes
  <2>3. "hint" \in disturbed \/ meta # None => "hint" \in disturbed' BY <2>1 DEF Hinted
  <2>4. writing \in Deciding /\ writing' = "acting" /\ writing' \in Deciding /\ UNCHANGED turnCount
    BY <1>6 DEF RecordResult, Deciding
  <2> QED BY <2>1, <2>2, <2>3, <2>4, TurnsInTurn
<1>7. CASE RecordDecisionError
  <2> DEFINE step == RunStep("decision_error", turnCount - 1, None, 0, turnCount - 1)
  <2>1. writing \in Deciding /\ writing' = "acting" /\ UNCHANGED <<turnCount, disturbed>>
    BY <1>7 DEF RecordDecisionError, ExecutionFails, Deciding
  <2>2. turnCount - 1 \in Nat /\ turnCount - 1 \in Int /\ None \in Int /\ session \in Nat
    BY <2>1 DEF TraceTypes, Turned, None
  <2>3. steps' = Append(steps, step) BY <1>7, StepAppended DEF RecordDecisionError, SaveNewStep
  <2>4. /\ step \in StepRows /\ OwnName(step) /\ Names(step) /\ TurnOfStep(step) = turnCount - 1
        /\ Placed(step, turnCount - 1)
    BY <2>2 DEF RunStep, StepRows, StepTypes, OwnName, Names, TurnOfStep, Placed, None
  <2>5. DecisionsInv' /\ ("hint" \notin disturbed' => RowsPlaced' /\ Place(Len(steps))' = turnCount - 1)
    <3> HIDE DEF step
    <3> QED BY <2>1, <2>3, <2>4, TurnsAfterStep
  <2> HIDE DEF step
  <2> QED BY <2>1, <2>5 DEF TurnInv, PlacesInv
<1>8. CASE RecordFeedback \/ RecordVerification \/ RecordRetry
  BY <1>8, TurnsObserved DEF RecordFeedback, RecordVerification, RecordRetry, Turned, Deciding
<1>9. CASE Fatal
  <2> DEFINE step == RunStep("decision_error", None, None, 0, turnCount)
  <2>1. turnCount \in Int /\ None \in Int /\ session \in Nat BY DEF TraceTypes, None
  <2>2. steps' = Append(steps, step) /\ writing' \notin Deciding /\ UNCHANGED disturbed
    BY <1>9, StepAppended DEF Fatal, Deciding
  <2>3. step \in StepRows /\ OwnName(step) /\ \A place : Placed(step, place)
    BY <2>1 DEF RunStep, StepRows, StepTypes, OwnName, Placed, IsFatal
  <2>4. DecisionsInv' /\ ("hint" \notin disturbed' => RowsPlaced')
    <3> HIDE DEF step
    <3> QED BY <2>2, <2>3, TurnsAfterStep
  <2> HIDE DEF step
  <2> QED BY <2>2, <2>4 DEF TurnInv, PlacesInv, Deciding
<1> QED
  BY <1>1, <1>2, <1>3, <1>4, <1>5, <1>6, <1>7, <1>8, <1>9 DEF TraceWrites

-----------------------------------------------------------------------------
(* What the reader rebuilds.                                                 *)

LEMMA ReplayIs ==
    /\ DOMAIN Replay = IF recorded THEN Turns ELSE {}
    /\ \A n \in DOMAIN Replay : Replay[n] = ReplayTurn(n)
BY DEF Replay

LEMMA LastOfPositions ==
    ASSUME steps \in Seq(StepRows), NEW type, NEW n, Positions(type, n) # {}
    PROVE  LastOf(Positions(type, n)) \in Positions(type, n)
<1>1. Len(steps) \in Nat /\ DOMAIN steps = 1..Len(steps) OBVIOUS
<1>2. Positions(type, n) \in SUBSET (1..Len(steps)) BY <1>1 DEF Positions
<1> QED BY <1>1, <1>2, LastExists

LEMMA ShownSteps ==
    ASSUME steps \in Seq(StepRows), NEW n
    PROVE  /\ \A i \in StepsIn(ReplayTurn(n)) : i \in DOMAIN steps /\ Place(i) = n
           /\ \A i \in DOMAIN steps :
                steps[i].type # "decision" /\ Place(i) = n => i \in StepsIn(ReplayTurn(n))
<1>1. ASSUME NEW i \in StepsIn(ReplayTurn(n)) PROVE i \in DOMAIN steps /\ Place(i) = n
  <2>1. \E type : i \in Positions(type, n)
    <3>1. CASE i = LastOf(Positions("decision", n)) /\ i # 0
      <4>1. Positions("decision", n) # {} BY <3>1 DEF LastOf
      <4> QED BY <3>1, <4>1, LastOfPositions
    <3>2. CASE i \in Positions("action", n) \/ i \in Positions("decision_error", n) \/ i \in Positions("observation", n)
      BY <3>2
    <3>3. CASE \E kind \in CallKinds : i \in Positions(CallStep[kind], n) \/ i \in Positions(ResultStep[kind], n)
      BY <3>3
    <3> QED BY <3>1, <3>2, <3>3 DEF StepsIn, ReplayTurn
  <2> QED BY <2>1 DEF Positions
<1>2. ASSUME NEW i \in DOMAIN steps, steps[i].type # "decision", Place(i) = n
      PROVE  i \in StepsIn(ReplayTurn(n))
  <2>1. steps[i].type \in StepTypes
    <3>1. steps[i] \in StepRows BY <1>2
    <3> QED BY <3>1 DEF StepRows
  <2>2. i \in Positions(steps[i].type, n) BY <1>2 DEF Positions
  <2>3. CASE steps[i].type \in {"action", "decision_error", "observation"}
    BY <2>2, <2>3 DEF StepsIn, ReplayTurn
  <2>4. CASE steps[i].type \in Calls \cup Results
    <3>1. \E kind \in CallKinds : steps[i].type = CallStep[kind] \/ steps[i].type = ResultStep[kind]
      BY <2>4 DEF CallKinds, CallStep, ResultStep, Calls, Results
    <3>2. PICK kind \in CallKinds : i \in Positions(CallStep[kind], n) \/ i \in Positions(ResultStep[kind], n)
      BY <2>2, <3>1
    <3> QED BY <3>2 DEF StepsIn, ReplayTurn
  <2> QED BY <1>2, <2>1, <2>3, <2>4 DEF StepTypes, Calls, Results
<1> QED BY <1>1, <1>2

\* After a decision there is no step that the reader cannot place.
LEMMA PlacedAfterDecision ==
    ASSUME steps \in Seq(StepRows), DecisionsInv, NEW i \in DOMAIN steps, NEW j \in DOMAIN steps, j <= i,
           steps[j].type = "decision"
    PROVE  Place(i) # None
<1> DEFINE named == {k \in 1..i : Names(steps[k])}
<1>1. Len(steps) \in Nat /\ DOMAIN steps = 1..Len(steps) OBVIOUS
<1>2. i \in Nat /\ named \in SUBSET (1..i) /\ j \in named BY <1>1 DEF Names
<1>3. LastOf(named) \in named
  <2> HIDE DEF named
  <2> QED BY <1>2, LastExists
<1>4. PICK l \in named : l = LastOf(named) BY <1>3
<1>5. Place(i) = TurnOfStep(steps[l]) BY <1>2, <1>4 DEF Place
<1>6. l \in DOMAIN steps /\ Names(steps[l]) BY <1>1, <1>2, <1>4
<1>7. TurnOfStep(steps[l]) # None
  <2>1. CASE steps[l].type = "decision"
    <3>1. steps[l].name \in Nat BY <1>6, <2>1 DEF DecisionsInv, OwnName
    <3> QED BY <2>1, <3>1 DEF TurnOfStep, None
  <2>2. CASE steps[l].type # "decision" BY <1>6, <2>2 DEF Names
  <2> QED BY <2>1, <2>2
<1> QED BY <1>5, <1>7

LEMMA TurnsAreShown ==
    ASSUME steps \in Seq(StepRows), DecisionsInv, "hint" \notin disturbed => RowsPlaced
    PROVE  StepsAreInTheirTurn
<1> SUFFICES ASSUME recorded, "hint" \notin disturbed
             PROVE  /\ \A n \in DOMAIN Replay : \A i \in StepsIn(Replay[n]) :
                         steps[i].turn = n \/ IsFatal(steps[i])
                    /\ \A i \in DOMAIN steps :
                         /\ steps[i].type # "decision"
                         /\ \E j \in DOMAIN steps : steps[j].type = "decision" /\ j < i
                         => \E n \in DOMAIN Replay : i \in StepsIn(Replay[n])
  BY DEF StepsAreInTheirTurn
<1>1. DOMAIN Replay = Turns /\ \A n \in DOMAIN Replay : Replay[n] = ReplayTurn(n) BY ReplayIs
<1>2. RowsPlaced /\ DecisionsInv OBVIOUS
<1>3. ASSUME NEW n \in DOMAIN Replay, NEW i \in StepsIn(Replay[n])
      PROVE  steps[i].turn = n \/ IsFatal(steps[i])
  <2>1. i \in DOMAIN steps /\ Place(i) = n BY <1>1, <1>3, ShownSteps
  <2>2. n # None BY <1>1, <1>3 DEF Turns
  <2> QED BY <1>2, <2>1, <2>2 DEF RowsPlaced, Placed
<1>4. ASSUME NEW i \in DOMAIN steps, steps[i].type # "decision",
             NEW j \in DOMAIN steps, steps[j].type = "decision", j < i
      PROVE  \E n \in DOMAIN Replay : i \in StepsIn(Replay[n])
  <2>1. j <= i
    <3>1. Len(steps) \in Nat /\ DOMAIN steps = 1..Len(steps) OBVIOUS
    <3> QED BY <1>4, <3>1
  <2>2. Place(i) # None BY <1>2, <1>4, <2>1, PlacedAfterDecision
  <2>3. Place(i) \in DOMAIN Replay BY <1>1, <2>2 DEF Turns
  <2>4. i \in StepsIn(Replay[Place(i)]) BY <1>1, <1>4, <2>3, ShownSteps
  <2> QED BY <2>3, <2>4
<1> QED BY <1>3, <1>4

-----------------------------------------------------------------------------
(* Sessions.                                                                 *)

LEMMA SessionsGrow ==
    ASSUME NEW T, \A new \in T : new.session \in Nat, NEW rows \in Seq(T), NEW new \in T,
           NEW s \in Nat, s <= new.session, InSessions(rows, s)
    PROVE  InSessions(Append(rows, new), new.session)
<1> DEFINE more == Append(rows, new)
<1>1. /\ Len(rows) \in Nat /\ DOMAIN rows = 1..Len(rows) /\ DOMAIN more = 1..(Len(rows) + 1)
      /\ \A i \in 1..Len(rows) : more[i] = rows[i] /\ rows[i] \in T
      /\ more[Len(rows) + 1] = new
  BY RowAppended
<1> HIDE DEF more
<1>2. \A i \in DOMAIN rows : rows[i].session \in Nat /\ rows[i].session <= s BY <1>1 DEF InSessions
<1>3. ASSUME NEW i \in DOMAIN more PROVE more[i].session <= new.session
  <2>1. CASE i = Len(rows) + 1 BY <1>1, <2>1
  <2>2. CASE i # Len(rows) + 1 BY <1>1, <1>2, <2>2
  <2> QED BY <2>1, <2>2
<1>4. ASSUME NEW i \in DOMAIN more, NEW j \in DOMAIN more, i <= j PROVE more[i].session <= more[j].session
  <2>1. CASE j = Len(rows) + 1 BY <1>1, <1>3, <2>1
  <2>2. CASE j # Len(rows) + 1
    <3>1. i \in DOMAIN rows /\ j \in DOMAIN rows BY <1>1, <1>4, <2>2
    <3>2. rows[i].session <= rows[j].session BY <1>4, <3>1 DEF InSessions
    <3> QED BY <1>1, <3>1, <3>2
  <2> QED BY <2>1, <2>2
<1>5. InSessions(more, new.session) BY <1>3, <1>4 DEF InSessions
<1> QED BY <1>5 DEF more

LEMMA WroteAppended ==
    ASSUME NEW rows \in Seq(ArtifactRows), NEW new \in ArtifactRows, NEW s, NEW type, NEW t
    PROVE  WroteIn(Append(rows, new), s, type, t) <=>
             \/ WroteIn(rows, s, type, t)
             \/ new.type = type /\ new.session = s /\ TurnOfArtifact(new) = t
<1> DEFINE more == Append(rows, new)
<1>1. /\ Len(rows) \in Nat /\ DOMAIN rows = 1..Len(rows) /\ DOMAIN more = 1..(Len(rows) + 1)
      /\ \A i \in 1..Len(rows) : more[i] = rows[i]
      /\ more[Len(rows) + 1] = new
  BY RowAppended
<1> HIDE DEF more
<1>2. WroteIn(more, s, type, t) <=>
        \/ WroteIn(rows, s, type, t)
        \/ new.type = type /\ new.session = s /\ TurnOfArtifact(new) = t
  <2>1. ASSUME WroteIn(more, s, type, t)
        PROVE  WroteIn(rows, s, type, t) \/ (new.type = type /\ new.session = s /\ TurnOfArtifact(new) = t)
    <3>1. PICK i \in DOMAIN more : more[i].type = type /\ more[i].session = s /\ TurnOfArtifact(more[i]) = t
      BY <2>1 DEF WroteIn
    <3>2. CASE i = Len(rows) + 1 BY <1>1, <3>1, <3>2
    <3>3. CASE i # Len(rows) + 1
      <4>1. i \in DOMAIN rows /\ more[i] = rows[i] BY <1>1, <3>3
      <4> QED BY <3>1, <4>1 DEF WroteIn
    <3> QED BY <3>2, <3>3
  <2>2. ASSUME WroteIn(rows, s, type, t) PROVE WroteIn(more, s, type, t)
    <3>1. PICK i \in DOMAIN rows : rows[i].type = type /\ rows[i].session = s /\ TurnOfArtifact(rows[i]) = t
      BY <2>2 DEF WroteIn
    <3>2. i \in DOMAIN more /\ more[i] = rows[i] BY <1>1
    <3> QED BY <3>1, <3>2 DEF WroteIn
  <2>3. ASSUME new.type = type, new.session = s, TurnOfArtifact(new) = t PROVE WroteIn(more, s, type, t)
    <3>1. Len(rows) + 1 \in DOMAIN more BY <1>1
    <3> QED BY <1>1, <2>3, <3>1 DEF WroteIn
  <2> QED BY <2>1, <2>2, <2>3
<1> QED BY <1>2 DEF more

LEMMA NothingOfNext ==
    ASSUME NEW rows, NEW s \in Nat, InSessions(rows, s)
    PROVE  \A i \in DOMAIN rows : rows[i].session # s + 1
BY DEF InSessions

LEMMA WroteIsIn ==
    \A type, t : /\ Wrote(type, t) <=> WroteIn(artifacts, session, type, t)
                 /\ Wrote(type, t)' <=> WroteIn(artifacts', session', type, t)
BY DEF Wrote, WroteIn, TurnOfArtifact

LEMMA FirstKept ==
    ASSUME TraceTypes, FirstInv, [TraceWrites]_traceVars
    PROVE  FirstInv'
<1>1. session \in Nat BY TypesOfState
<1>2. CASE Start BY <1>1, <1>2 DEF Start, FirstInv
<1>3. CASE UNCHANGED traceVars BY <1>3 DEF traceVars, FirstInv
<1>4. CASE TraceWrites /\ ~Start BY <1>4, RowsWritten DEF FirstInv
<1> QED BY <1>2, <1>3, <1>4

LEMMA RowSessions ==
    (\A new \in StepRows : new.session \in Nat) /\ (\A new \in ArtifactRows : new.session \in Nat)
BY DEF StepRows, ArtifactRows

LEMMA RowsKept ==
    ASSUME TraceTypes, FirstInv, RowsInv, TraceWrites
    PROVE  RowsInv'
<1>1. steps \in Seq(StepRows) /\ artifacts \in Seq(ArtifactRows) /\ session \in Nat BY DEF TraceTypes
<1>2. InSessions(steps, session) /\ InSessions(artifacts, session) BY DEF RowsInv
<1>3. CASE Start
  <2>1. PICK artifact \in ArtifactRows :
          /\ artifacts' = Append(artifacts, artifact) /\ artifact.session = session'
          /\ session' = session + 1 /\ UNCHANGED steps
    BY <1>3, RowsOfStart
  <2>2. InSessions(artifacts', session')
    <3>1. session <= artifact.session BY <1>1, <2>1
    <3> QED BY <1>1, <1>2, <2>1, <3>1, RowSessions, SessionsGrow
  <2>3. InSessions(steps', session')
    <3>1. \A i \in DOMAIN steps : steps[i].session \in Nat BY <1>1, RowSessions
    <3> QED BY <1>1, <1>2, <2>1, <3>1 DEF InSessions
  <2>4. artifacts' # <<>> BY <1>1, <2>1
  <2> QED BY <2>2, <2>3, <2>4 DEF RowsInv
<1>4. CASE ~Start
  <2>1. /\ writing # "rest" /\ session' = session
        /\ \/ UNCHANGED artifacts
           \/ \E artifact \in ArtifactRows : artifacts' = Append(artifacts, artifact) /\ artifact.session = session
        /\ UNCHANGED steps \/ \E step \in StepRows : steps' = Append(steps, step) /\ step.session = session
    BY <1>4, RowsWritten
  <2>2. artifacts # <<>> BY <2>1 DEF RowsInv
  <2>3. InSessions(artifacts', session) /\ artifacts' # <<>>
    <3>1. CASE UNCHANGED artifacts BY <1>2, <2>2, <3>1
    <3>2. ASSUME NEW artifact \in ArtifactRows, artifacts' = Append(artifacts, artifact), artifact.session = session
          PROVE  InSessions(artifacts', session) /\ artifacts' # <<>>
      <4>1. InSessions(Append(artifacts, artifact), artifact.session)
        BY <1>1, <1>2, <3>2, RowSessions, SessionsGrow
      <4> QED BY <1>1, <3>2, <4>1
    <3> QED BY <2>1, <3>1, <3>2
  <2>4. InSessions(steps', session)
    <3>1. CASE UNCHANGED steps BY <1>2, <3>1
    <3>2. ASSUME NEW step \in StepRows, steps' = Append(steps, step), step.session = session
          PROVE  InSessions(steps', session)
      <4>1. InSessions(Append(steps, step), step.session) BY <1>1, <1>2, <3>2, RowSessions, SessionsGrow
      <4> QED BY <3>2, <4>1
    <3> QED BY <2>1, <3>1, <3>2
  <2> QED BY <2>1, <2>3, <2>4 DEF RowsInv
<1> QED BY <1>3, <1>4

\* What a session wrote stays, and only a write of its own adds to it.
LEMMA WroteSame ==
    ASSUME UNCHANGED <<artifacts, session>>
    PROVE  \A type, t : Wrote(type, t)' <=> Wrote(type, t)
BY WroteIsIn

LEMMA WroteMore ==
    ASSUME TraceTypes, NEW type \in {"planner_context", "llm_prompt", "llm_response", "decision"},
           NEW title \in Int, NEW meta \in Int, NEW turn \in Int, RecordArtifact(type, title, meta, turn),
           UNCHANGED session
    PROVE  \A other, t : Wrote(other, t)' <=>
             \/ Wrote(other, t)
             \/ other = type /\ t = IF type = "decision" /\ meta # None THEN meta ELSE title
<1>1. PICK artifact \in ArtifactRows :
        /\ artifacts' = Append(artifacts, artifact) /\ artifact.session = session
        /\ artifact.type = type
        /\ TurnOfArtifact(artifact) = IF type = "decision" /\ meta # None THEN meta ELSE title
  BY ArtifactIsSaved
<1>2. artifacts \in Seq(ArtifactRows) BY DEF TraceTypes
<1>3. \A other, t : WroteIn(artifacts', session, other, t) <=>
        \/ WroteIn(artifacts, session, other, t)
        \/ artifact.type = other /\ TurnOfArtifact(artifact) = t
  BY <1>1, <1>2, WroteAppended
<1> QED BY <1>1, <1>3, WroteIsIn

LEMMA WroteAtStart ==
    ASSUME TraceTypes, RowsInv, Start
    PROVE  \A type, t : type # "runtime_request" => ~Wrote(type, t)'
<1>1. PICK artifact \in ArtifactRows :
        /\ artifacts' = Append(artifacts, artifact) /\ artifact.type = "runtime_request"
        /\ session' = session + 1
  BY RowsOfStart
<1>2. artifacts \in Seq(ArtifactRows) /\ session \in Nat BY DEF TraceTypes
<1>3. \A type, t : ~WroteIn(artifacts, session', type, t)
  <2>1. \A i \in DOMAIN artifacts : artifacts[i].session # session + 1
    BY <1>2, NothingOfNext DEF RowsInv
  <2> QED BY <1>1, <2>1 DEF WroteIn
<1>4. \A type, t : WroteIn(artifacts', session', type, t) => type = "runtime_request"
  BY <1>1, <1>2, <1>3, WroteAppended
<1> QED BY <1>4, WroteIsIn

LEMMA ContextKept ==
    ASSUME TraceTypes, RowsInv, ContextInv, TraceWrites
    PROVE  ContextInv'
<1>0. /\ turnCount \in Nat /\ turnCount \in Int /\ None \in Int /\ 0 \in Nat /\ turnCount - 1 \in Int
  BY TypesOfState
<1>1. CASE Start
  <2>1. writing' = "plan" BY <1>1 DEF Start
  <2>2. \A t : ~Wrote("llm_prompt", t)' /\ ~Wrote("llm_response", t)' BY <1>1, WroteAtStart
  <2> QED BY <2>1, <2>2 DEF ContextInv
<1>2. CASE RecordContext
  <2>1. writing = "plan" /\ writing' = "context" /\ UNCHANGED <<turnCount, session>> BY <1>2 DEF RecordContext
  <2>2. \A other, t : Wrote(other, t)' <=> Wrote(other, t) \/ (other = "planner_context" /\ t = turnCount)
    BY <1>0, <1>2, <2>1, WroteMore DEF RecordContext
  <2> QED BY <2>1, <2>2 DEF ContextInv, Turned, Deciding
<1>3. CASE RecordPrompt
  <2>1. writing = "context" /\ writing' = "prompted" /\ UNCHANGED <<turnCount, session>> BY <1>3 DEF RecordPrompt
  <2>2. \A other, t : Wrote(other, t)' <=> Wrote(other, t) \/ (other = "llm_prompt" /\ t = turnCount)
    BY <1>0, <1>3, <2>1, WroteMore DEF RecordPrompt
  <2>3. Wrote("planner_context", turnCount)' BY <2>1, <2>2 DEF ContextInv
  <2>4. \A t \in Nat : t > turnCount => ~Wrote("llm_prompt", t)' /\ ~Wrote("llm_response", t)'
    BY <1>0, <2>1, <2>2 DEF ContextInv
  <2>5. Wrote("llm_prompt", turnCount)' BY <2>1, <2>2
  <2> QED BY <2>1, <2>3, <2>4, <2>5 DEF ContextInv, Turned, Deciding
<1>4. CASE RecordResponse
  <2>1. writing = "prompted" /\ writing' = "answered" /\ UNCHANGED <<turnCount, session>> BY <1>4 DEF RecordResponse
  <2>2. \A other, t : Wrote(other, t)' <=> Wrote(other, t) \/ (other = "llm_response" /\ t = turnCount)
    BY <1>0, <1>4, <2>1, WroteMore DEF RecordResponse
  <2>3. Wrote("planner_context", turnCount)' /\ Wrote("llm_prompt", turnCount)' BY <2>1, <2>2 DEF ContextInv
  <2>4. \A t \in Nat : t > turnCount => ~Wrote("llm_prompt", t)' /\ ~Wrote("llm_response", t)'
    BY <1>0, <2>1, <2>2 DEF ContextInv
  <2>5. Wrote("llm_response", turnCount)' BY <2>1, <2>2
  <2> QED BY <2>1, <2>3, <2>4, <2>5 DEF ContextInv, Turned, Deciding
<1>5. CASE StopDecides \/ ModelDecides
  <2>1. /\ writing \in {"context", "answered"} /\ writing' = "decided" /\ turnCount' = turnCount + 1
        /\ UNCHANGED <<artifacts, session>>
    BY <1>5 DEF StopDecides, ModelDecides, Decided
  <2>2. \A t \in Nat : t >= turnCount + 1 => ~Wrote("llm_prompt", t) /\ ~Wrote("llm_response", t)
    BY <1>0, <2>1 DEF ContextInv
  <2>3. \A t \in Nat : t >= turnCount' => ~Wrote("llm_prompt", t)' /\ ~Wrote("llm_response", t)'
    BY <2>1, <2>2, WroteSame
  <2> QED BY <2>1, <2>3 DEF ContextInv
<1>6. CASE RecordDecisionArtifact
  <2>1. /\ writing = "decided" /\ writing' = "acting" /\ UNCHANGED <<turnCount, session>>
        /\ executing.meta \in Int
    BY <1>6 DEF RecordDecisionArtifact, TraceTypes
  <2>2. \A t : /\ Wrote("llm_prompt", t)' <=> Wrote("llm_prompt", t)
               /\ Wrote("llm_response", t)' <=> Wrote("llm_response", t)
    BY <1>0, <1>6, <2>1, WroteMore DEF RecordDecisionArtifact
  <2> QED BY <2>1, <2>2 DEF ContextInv, Turned, Deciding
<1>7. CASE \/ StopsBeforeActions \/ RecordAction \/ RecordCall \/ RecordResult \/ RecordDecisionError
           \/ NextTurnFollows \/ LoopEnds \/ RecordFeedback \/ RecordVerification \/ RecordRetry \/ SessionEnds \/ Fatal
  <2>1. UNCHANGED <<artifacts, turnCount, session>>
    BY <1>7 DEF StopsBeforeActions, RecordAction, RecordCall, RecordResult, RecordDecisionError, NextTurnFollows,
        LoopEnds, RecordFeedback, RecordVerification, RecordRetry, RecordObservation, SessionEnds, Fatal
  <2>2. (writing \in Turned /\ writing' \in Turned \cup {"plan"}) \/ writing' = "rest"
    BY <1>7 DEF StopsBeforeActions, RecordAction, RecordCall, RecordResult, RecordDecisionError, ExecutionFails,
        NextTurnFollows, LoopEnds, RecordFeedback, RecordVerification, RecordRetry, RecordObservation, SessionEnds,
        Fatal, Turned, Deciding
  <2>3. \A type, t : Wrote(type, t)' <=> Wrote(type, t) BY <2>1, WroteSame
  <2> QED BY <2>1, <2>2, <2>3 DEF ContextInv, Turned, Deciding
<1> QED BY <1>1, <1>2, <1>3, <1>4, <1>5, <1>6, <1>7 DEF TraceWrites

LEMMA OtherSteps ==
    ASSUME TraceTypes, TraceWrites, ~Start, ~StopDecides, ~ModelDecides
    PROVE  /\ UNCHANGED <<turnCount, session>>
           /\ UNCHANGED steps \/ \E step \in StepRows :
                /\ steps' = Append(steps, step) /\ step.type # "decision" /\ step.session = session
                /\ step.type = "action" => writing = "acting" /\ step.turn = turnCount - 1
<1>0. /\ turnCount \in Int /\ turnCount - 1 \in Int /\ None \in Int /\ 0 \in Nat /\ LastTurn \in Int
  BY TypesOfState
<1> DEFINE Done ==
             /\ UNCHANGED <<turnCount, session>>
             /\ UNCHANGED steps \/ \E step \in StepRows :
                  /\ steps' = Append(steps, step) /\ step.type # "decision" /\ step.session = session
                  /\ step.type = "action" => writing = "acting" /\ step.turn = turnCount - 1
<1>1. CASE \/ RecordContext \/ RecordPrompt \/ RecordResponse \/ StopsBeforeActions \/ RecordDecisionArtifact
           \/ NextTurnFollows \/ LoopEnds \/ SessionEnds
  BY <1>1 DEF RecordContext, RecordPrompt, RecordResponse, StopsBeforeActions, RecordDecisionArtifact,
      NextTurnFollows, LoopEnds, SessionEnds
<1>2. CASE RecordAction
  <2>1. PICK meta \in Metas : SaveStep(RunStep("action", None, meta, 0, turnCount - 1))
    BY <1>2 DEF RecordAction, SaveNewStep
  <2>2. meta \in Int /\ "action" \in StepTypes BY MetasAreInts DEF StepTypes
  <2>3. PICK step \in StepRows : /\ steps' = Append(steps, step) /\ step.session = session
                                 /\ step = RunStep("action", None, meta, 0, turnCount - 1)
    BY <1>0, <2>1, <2>2, StepIsSaved
  <2>4. step.type = "action" /\ step.turn = turnCount - 1 BY <2>3 DEF RunStep
  <2> QED BY <1>2, <2>3, <2>4 DEF RecordAction
<1>3. ASSUME NEW type \in StepTypes \ {"decision", "action"}, NEW name \in Int, NEW meta \in Int, NEW of \in Nat,
             NEW turn \in Int, SaveStep(RunStep(type, name, meta, of, turn)), UNCHANGED <<turnCount, session>>
      PROVE  Done
  <2>1. PICK step \in StepRows : /\ steps' = Append(steps, step) /\ step.session = session
                                 /\ step = RunStep(type, name, meta, of, turn)
    BY <1>3, StepIsSaved
  <2>2. step.type = type BY <2>1 DEF RunStep
  <2> QED BY <1>3, <2>1, <2>2
<1>4. CASE RecordCall
  <2>1. call.meta \in Int /\ CallStep[call.kind] \in StepTypes \ {"decision", "action"}
    BY <1>4, CallTypes, CallsAreSteps DEF RecordCall, TraceTypes
  <2> QED BY <1>0, <1>3, <1>4, <2>1 DEF RecordCall, SaveNewStep
<1>5. CASE RecordResult
  <2>1. PICK meta \in Metas : SaveStep(RunStep(ResultStep[call.kind], None, meta, call.step, turnCount - 1))
    BY <1>5 DEF RecordResult, SaveNewStep
  <2>2. ResultStep[call.kind] \in StepTypes \ {"decision", "action"} /\ meta \in Int /\ call.step \in Nat
    BY <1>5, CallTypes, CallsAreSteps, MetasAreInts DEF RecordResult, TraceTypes
  <2> QED BY <1>0, <1>3, <1>5, <2>1, <2>2 DEF RecordResult
<1>6. {"decision_error", "observation"} \subseteq StepTypes \ {"decision", "action"} BY DEF StepTypes
<1>7. CASE RecordDecisionError BY <1>0, <1>3, <1>6, <1>7 DEF RecordDecisionError, SaveNewStep
<1>8. CASE RecordFeedback \/ RecordVerification \/ RecordRetry
  BY <1>0, <1>3, <1>6, <1>8 DEF RecordFeedback, RecordVerification, RecordRetry, RecordObservation, SaveNewStep
<1>9. CASE Fatal BY <1>0, <1>3, <1>6, <1>9 DEF Fatal
<1> QED BY <1>1, <1>2, <1>4, <1>5, <1>7, <1>8, <1>9 DEF TraceWrites

\* A decision that is there keeps its artifacts, if none is written for it.
LEMMA DecidedStays ==
    ASSUME TraceTypes, DecidedInv, UNCHANGED <<turnCount, session>>,
           UNCHANGED steps
             \/ \E step \in StepRows : steps' = Append(steps, step) /\ step.type # "decision",
           \A t \in Int : t < turnCount =>
             /\ Wrote("planner_context", t) => Wrote("planner_context", t)'
             /\ Wrote("llm_prompt", t)' <=> Wrote("llm_prompt", t)
             /\ Wrote("llm_response", t)' <=> Wrote("llm_response", t)
    PROVE  DecidedInv'
<1>1. steps \in Seq(StepRows) BY DEF TraceTypes
<1>2. \A i \in DOMAIN steps' : Decides(steps'[i], session) => i \in DOMAIN steps /\ steps'[i] = steps[i]
  <2>1. CASE UNCHANGED steps BY <2>1
  <2>2. ASSUME NEW step \in StepRows, steps' = Append(steps, step), step.type # "decision",
               NEW i \in DOMAIN steps', Decides(steps'[i], session)
        PROVE  i \in DOMAIN steps /\ steps'[i] = steps[i]
    BY <1>1, <2>2, RowAppended DEF Decides
  <2> QED BY <2>1, <2>2
<1>3. ASSUME NEW i \in DOMAIN steps', Decides(steps'[i], session)
      PROVE  Reasoned(steps[i].turn, steps[i].answered)'
  <2>1. i \in DOMAIN steps /\ steps'[i] = steps[i] BY <1>2, <1>3
  <2>2. Reasoned(steps[i].turn, steps[i].answered) BY <1>3, <2>1 DEF DecidedInv
  <2>3. steps[i] \in StepRows BY <1>1, <2>1
  <2>4. PICK t \in Int, answered \in BOOLEAN : t = steps[i].turn /\ answered = steps[i].answered
    BY <2>3 DEF StepRows
  <2>5. /\ t < turnCount /\ Wrote("planner_context", t)
        /\ Wrote("llm_prompt", t) <=> answered
        /\ Wrote("llm_response", t) <=> answered
    BY <2>2, <2>4 DEF Reasoned
  <2>6. Reasoned(t, answered)' BY <2>5 DEF Reasoned
  <2> QED BY <2>1, <2>4, <2>6 DEF Reasoned, Wrote, WroteIn, TurnOfArtifact
<1>4. ASSUME NEW i \in DOMAIN steps', NEW j \in DOMAIN steps', Decides(steps'[i], session),
             Decides(steps'[j], session), i < j
      PROVE  steps'[i].turn < steps'[j].turn
  BY <1>2, <1>4 DEF DecidedInv
<1> QED BY <1>3, <1>4 DEF DecidedInv, Decides

LEMMA DecidedKept ==
    ASSUME TraceTypes, RowsInv, ContextInv, DecidedInv, TraceWrites
    PROVE  DecidedInv'
<1>0. /\ turnCount \in Nat /\ turnCount \in Int /\ None \in Int /\ 0 \in Nat /\ turnCount - 1 \in Int
      /\ session \in Nat /\ steps \in Seq(StepRows)
  BY TypesOfState DEF TraceTypes
<1>1. CASE Start
  <2>1. UNCHANGED steps /\ session' = session + 1 BY <1>1 DEF Start
  <2>2. \A i \in DOMAIN steps : steps[i].session # session + 1 BY <1>0, NothingOfNext DEF RowsInv
  <2> QED BY <2>1, <2>2 DEF DecidedInv, Decides
<1>2. CASE StopDecides \/ ModelDecides
  <2>1. /\ writing \in {"context", "answered"} /\ turnCount' = turnCount + 1 /\ UNCHANGED <<artifacts, session>>
        /\ SaveStep(RunStep("decision", turnCount, None, 0, turnCount))
    BY <1>2 DEF StopDecides, ModelDecides, Decided, SaveNewStep
  <2>2. PICK step \in StepRows : /\ steps' = Append(steps, step) /\ step.session = session
                                 /\ step = RunStep("decision", turnCount, None, 0, turnCount)
    BY <1>0, <2>1, StepIsSaved DEF StepTypes
  <2>3. step.turn = turnCount /\ step.answered = (writing = "answered") BY <2>2 DEF RunStep
  <2>4. /\ Len(steps) \in Nat /\ DOMAIN steps = 1..Len(steps) /\ DOMAIN steps' = 1..(Len(steps) + 1)
        /\ \A i \in 1..Len(steps) : steps'[i] = steps[i] /\ steps[i] \in StepRows
        /\ steps'[Len(steps) + 1] = step
    BY <1>0, <2>2, RowAppended
  <2>5. /\ Wrote("planner_context", turnCount)
        /\ Wrote("llm_prompt", turnCount) <=> writing = "answered"
        /\ Wrote("llm_response", turnCount) <=> writing = "answered"
    BY <1>0, <2>1 DEF ContextInv
  <2>6. \A t : /\ Wrote("planner_context", t)' <=> Wrote("planner_context", t)
               /\ Wrote("llm_prompt", t)' <=> Wrote("llm_prompt", t)
               /\ Wrote("llm_response", t)' <=> Wrote("llm_response", t)
    BY <2>1, WroteSame
  <2>7. \A i \in DOMAIN steps : Decides(steps[i], session) =>
          /\ steps[i].turn \in Int /\ steps[i].turn < turnCount /\ Wrote("planner_context", steps[i].turn)
          /\ steps[i].answered \in BOOLEAN
          /\ Wrote("llm_prompt", steps[i].turn) <=> steps[i].answered
          /\ Wrote("llm_response", steps[i].turn) <=> steps[i].answered
    BY <2>4 DEF DecidedInv, Reasoned, StepRows
  <2>8. ASSUME NEW i \in DOMAIN steps', Decides(steps'[i], session)
        PROVE  Reasoned(steps[i].turn, steps[i].answered)'
    <3>0. steps'[i].turn \in Int /\ steps'[i].answered \in BOOLEAN
      <4>1. CASE i = Len(steps) + 1 BY <1>0, <2>3, <2>4, <4>1
      <4>2. CASE i # Len(steps) + 1
        <5>1. i \in DOMAIN steps /\ steps'[i] = steps[i] BY <2>4, <4>2
        <5> QED BY <2>7, <2>8, <5>1
      <4> QED BY <4>1, <4>2
    <3>1. PICK t \in Int, answered \in BOOLEAN : t = steps'[i].turn /\ answered = steps'[i].answered
      BY <3>0
    <3>2. /\ t < turnCount + 1 /\ Wrote("planner_context", t)
          /\ Wrote("llm_prompt", t) <=> answered
          /\ Wrote("llm_response", t) <=> answered
      <4>1. CASE i = Len(steps) + 1 BY <1>0, <2>3, <2>4, <2>5, <3>1, <4>1
      <4>2. CASE i # Len(steps) + 1
        <5>1. i \in DOMAIN steps /\ steps'[i] = steps[i] BY <2>4, <4>2
        <5> QED BY <1>0, <2>7, <2>8, <3>1, <5>1
      <4> QED BY <4>1, <4>2
    <3>3. Reasoned(t, answered)' BY <2>1, <2>6, <3>2 DEF Reasoned
    <3> QED BY <3>1, <3>3 DEF Reasoned, Wrote, WroteIn, TurnOfArtifact
  <2>9. ASSUME NEW i \in DOMAIN steps', NEW j \in DOMAIN steps', Decides(steps'[i], session),
               Decides(steps'[j], session), i < j
        PROVE  steps'[i].turn < steps'[j].turn
    <3>1. i \in DOMAIN steps /\ steps'[i] = steps[i] BY <2>4, <2>9
    <3>2. CASE j = Len(steps) + 1 BY <2>3, <2>4, <2>7, <2>9, <3>1, <3>2
    <3>3. CASE j # Len(steps) + 1
      <4>1. j \in DOMAIN steps /\ steps'[j] = steps[j] BY <2>4, <3>3
      <4> QED BY <2>9, <3>1, <4>1 DEF DecidedInv
    <3> QED BY <3>2, <3>3
  <2> QED BY <2>1, <2>8, <2>9 DEF DecidedInv, Decides
<1>3. CASE ~Start /\ ~StopDecides /\ ~ModelDecides
  <2>1. /\ UNCHANGED <<turnCount, session>>
        /\ UNCHANGED steps
             \/ \E step \in StepRows : steps' = Append(steps, step) /\ step.type # "decision"
    BY <1>3, OtherSteps
  <2>2. ASSUME NEW t \in Int, t < turnCount
        PROVE  /\ Wrote("planner_context", t) => Wrote("planner_context", t)'
               /\ Wrote("llm_prompt", t)' <=> Wrote("llm_prompt", t)
               /\ Wrote("llm_response", t)' <=> Wrote("llm_response", t)
    <3>0. t # turnCount BY <1>0, <2>2
    <3>1. CASE RecordContext
      <4>1. \A other : Wrote(other, t)' <=> Wrote(other, t) \/ (other = "planner_context" /\ t = turnCount)
        BY <1>0, <2>1, <3>1, WroteMore DEF RecordContext
      <4> QED BY <3>0, <4>1
    <3>2. CASE RecordPrompt
      <4>1. \A other : Wrote(other, t)' <=> Wrote(other, t) \/ (other = "llm_prompt" /\ t = turnCount)
        BY <1>0, <2>1, <3>2, WroteMore DEF RecordPrompt
      <4> QED BY <3>0, <4>1
    <3>3. CASE RecordResponse
      <4>1. \A other : Wrote(other, t)' <=> Wrote(other, t) \/ (other = "llm_response" /\ t = turnCount)
        BY <1>0, <2>1, <3>3, WroteMore DEF RecordResponse
      <4> QED BY <3>0, <4>1
    <3>4. CASE RecordDecisionArtifact
      <4>1. executing.meta \in Int BY DEF TraceTypes
      <4>2. \A other : other # "decision" => (Wrote(other, t)' <=> Wrote(other, t))
        BY <1>0, <2>1, <3>4, <4>1, WroteMore DEF RecordDecisionArtifact
      <4> QED BY <4>2
    <3>5. CASE \/ StopsBeforeActions \/ RecordAction \/ RecordCall \/ RecordResult \/ RecordDecisionError
               \/ NextTurnFollows \/ LoopEnds \/ RecordFeedback \/ RecordVerification \/ RecordRetry
               \/ SessionEnds \/ Fatal
      <4>1. UNCHANGED <<artifacts, session>>
        BY <3>5 DEF StopsBeforeActions, RecordAction, RecordCall, RecordResult, RecordDecisionError, NextTurnFollows,
            LoopEnds, RecordFeedback, RecordVerification, RecordRetry, RecordObservation, SessionEnds, Fatal
      <4> QED BY <4>1, WroteSame
    <3> QED BY <1>3, <3>1, <3>2, <3>3, <3>4, <3>5 DEF TraceWrites
  <2> QED BY <2>1, <2>2, DecidedStays
<1> QED BY <1>1, <1>2, <1>3

LEMMA WroteStays ==
    ASSUME TraceTypes, TraceWrites, ~Start
    PROVE  \A type, t : Wrote(type, t) => Wrote(type, t)'
<1>1. artifacts \in Seq(ArtifactRows) BY DEF TraceTypes
<1>2. /\ session' = session
      /\ UNCHANGED artifacts \/ \E artifact \in ArtifactRows : artifacts' = Append(artifacts, artifact)
  BY RowsWritten
<1>3. CASE UNCHANGED artifacts BY <1>2, <1>3, WroteSame
<1>4. CASE \E artifact \in ArtifactRows : artifacts' = Append(artifacts, artifact)
  <2>1. \A type, t : WroteIn(artifacts, session, type, t) => WroteIn(artifacts', session, type, t)
    BY <1>1, <1>4, WroteAppended
  <2> QED BY <1>2, <2>1, WroteIsIn
<1> QED BY <1>2, <1>3, <1>4

LEMMA ActedKept ==
    ASSUME TraceTypes, RowsInv, ActedInv, TraceWrites, "hint" \notin disturbed'
    PROVE  ActedInv'
<1>0. /\ turnCount \in Nat /\ turnCount \in Int /\ None \in Int /\ turnCount - 1 \in Int
      /\ session \in Nat /\ steps \in Seq(StepRows)
  BY TypesOfState DEF TraceTypes
<1>1. CASE Start
  <2>1. UNCHANGED steps /\ session' = session + 1 /\ writing' = "plan" BY <1>1 DEF Start
  <2>2. \A i \in DOMAIN steps : steps[i].session # session + 1 BY <1>0, NothingOfNext DEF RowsInv
  <2> QED BY <2>1, <2>2 DEF ActedInv, Acts
<1>2. CASE ~Start
  <2>1. session' = session /\ (\A type, t : Wrote(type, t) => Wrote(type, t)') BY <1>2, RowsWritten, WroteStays
  <2>2. \A i \in DOMAIN steps : Acts(steps[i], session) => Wrote("decision", steps[i].turn) BY DEF ActedInv
  <2>3. writing' = "decided" => executing'.meta = None
    <3>1. CASE StopDecides
      <4>1. executing' = [NothingExecuting EXCEPT !.stop = TRUE] BY <3>1 DEF StopDecides, Decided
      <4> QED BY <4>1 DEF NothingExecuting
    <3>2. CASE ModelDecides
      <4>1. PICK n \in 0..ActionsLeft, stop \in BOOLEAN, meta \in Metas :
              executing' = [actions |-> n, stop |-> stop, meta |-> meta] /\ Hinted(meta)
        BY <3>2 DEF ModelDecides, Decided
      <4>2. meta = None BY <4>1 DEF Hinted
      <4> QED BY <4>1, <4>2
    <3>3. ASSUME ~StopDecides, ~ModelDecides PROVE writing' # "decided"
      BY <1>2, <3>3
         DEF TraceWrites, RecordContext, RecordPrompt, RecordResponse, StopsBeforeActions, RecordDecisionArtifact,
             RecordAction, RecordCall, RecordResult, RecordDecisionError, NextTurnFollows, LoopEnds,
             RecordFeedback, RecordVerification, RecordRetry, RecordObservation, SessionEnds, Fatal
    <3> QED BY <3>1, <3>2, <3>3
  <2>4. ASSUME writing' \in {"acting", "action", "called"}
        PROVE  turnCount' = turnCount /\ Wrote("decision", turnCount - 1)'
    <3>1. CASE RecordDecisionArtifact
      <4>1. writing = "decided" /\ UNCHANGED turnCount BY <3>1 DEF RecordDecisionArtifact
      <4>2. executing.meta = None BY <4>1 DEF ActedInv
      <4>3. turnCount - 1 # None BY <4>1 DEF TraceTypes, Turned, Deciding, None
      <4>4. \A t : Wrote("decision", t)' <=> Wrote("decision", t) \/ t = turnCount - 1
        BY <1>0, <2>1, <3>1, <4>2, <4>3, WroteMore DEF RecordDecisionArtifact
      <4> QED BY <4>1, <4>4
    <3>2. CASE RecordAction \/ RecordCall \/ RecordResult \/ RecordDecisionError
      <4>1. writing \in {"acting", "action", "called"} /\ UNCHANGED turnCount
        BY <3>2 DEF RecordAction, RecordCall, RecordResult, RecordDecisionError, ExecutionFails
      <4>2. Wrote("decision", turnCount - 1) BY <4>1 DEF ActedInv
      <4> QED BY <2>1, <4>1, <4>2
    <3>3. ASSUME ~RecordDecisionArtifact, ~RecordAction, ~RecordCall, ~RecordResult, ~RecordDecisionError
          PROVE  FALSE
      BY <1>2, <2>4, <3>3
         DEF TraceWrites, RecordContext, RecordPrompt, RecordResponse, StopDecides, ModelDecides, Decided,
             StopsBeforeActions, NextTurnFollows, LoopEnds, RecordFeedback, RecordVerification, RecordRetry,
             RecordObservation, SessionEnds, Fatal
    <3> QED BY <3>1, <3>2, <3>3
  <2>5. ASSUME NEW i \in DOMAIN steps', Acts(steps'[i], session), NEW t, t = steps'[i].turn
        PROVE  Wrote("decision", t)'
    <3>1. CASE i \in DOMAIN steps /\ steps'[i] = steps[i] BY <2>1, <2>2, <2>5, <3>1
    <3>2. CASE ~(i \in DOMAIN steps /\ steps'[i] = steps[i])
      <4>1. ~StopDecides /\ ~ModelDecides
        <5>1. ASSUME StopDecides \/ ModelDecides PROVE FALSE
          <6>1. steps' = Append(steps, RunStep("decision", turnCount, None, 0, turnCount))
            BY <5>1, StepAppended DEF StopDecides, ModelDecides, Decided, SaveNewStep
          <6>2. PICK step : step = RunStep("decision", turnCount, None, 0, turnCount) OBVIOUS
          <6>3. step.type = "decision" /\ steps' = Append(steps, step) BY <6>1, <6>2 DEF RunStep
          <6>4. steps'[i] = step BY <1>0, <2>5, <3>2, <6>3
          <6> QED BY <2>5, <6>3, <6>4 DEF Acts
        <5> QED BY <5>1
      <4>2. PICK step \in StepRows :
              /\ steps' = Append(steps, step)
              /\ step.type = "action" => writing = "acting" /\ step.turn = turnCount - 1
        BY <1>2, <3>2, <4>1, OtherSteps
      <4>3. steps'[i] = step BY <1>0, <3>2, <4>2, RowAppended
      <4>4. writing = "acting" /\ t = turnCount - 1 BY <2>5, <4>2, <4>3 DEF Acts
      <4>5. Wrote("decision", turnCount - 1) BY <4>4 DEF ActedInv
      <4> QED BY <2>1, <4>4, <4>5
    <3> QED BY <3>1, <3>2
  <2>6. \A i \in DOMAIN steps' : Acts(steps'[i], session) => WroteIn(artifacts', session', "decision", steps'[i].turn)
    BY <2>5, WroteIsIn
  <2>7. writing' \in {"acting", "action", "called"} => WroteIn(artifacts', session', "decision", turnCount' - 1)
    BY <2>4, WroteIsIn
  <2> QED BY <2>1, <2>3, <2>6, <2>7 DEF ActedInv, Acts, Wrote, WroteIn, TurnOfArtifact
<1> QED BY <1>1, <1>2

LEMMA SessionsAtFirst == TraceInit => SessionInv
<1> SUFFICES ASSUME TraceInit PROVE SessionInv OBVIOUS
<1>1. DOMAIN steps = {} /\ DOMAIN artifacts = {} BY DEF TraceInit
<1> QED
  BY <1>1 DEF TraceInit, SessionInv, FirstInv, RowsInv, InSessions, ContextInv, DecidedInv, ActedInv, Turned, Deciding

LEMMA SessionsKept ==
    ASSUME TraceTypes, SessionInv, [TraceWrites]_traceVars
    PROVE  SessionInv'
<1>1. FirstInv' BY FirstKept DEF SessionInv
<1>2. CASE TraceWrites
  <2>1. \A d \in disturbed : d \in disturbed'
    <3>1. CASE Start BY <3>1 DEF Start
    <3>2. CASE ~Start BY <1>2, <3>2, RowsWritten
    <3> QED BY <3>1, <3>2
  <2>2. FirstInv /\ RowsInv /\ ContextInv /\ DecidedInv /\ ("hint" \notin disturbed => ActedInv)
    BY DEF SessionInv
  <2>3. "hint" \notin disturbed' => ActedInv' BY <1>2, <2>1, <2>2, ActedKept
  <2>4. RowsInv' /\ ContextInv' /\ DecidedInv' BY <1>2, <2>2, RowsKept, ContextKept, DecidedKept
  <2> QED BY <1>1, <2>3, <2>4 DEF SessionInv
<1>3. CASE UNCHANGED traceVars
  BY <1>3 DEF traceVars, SessionInv, FirstInv, RowsInv, InSessions, ContextInv, DecidedInv, ActedInv, Reasoned,
      Decides, Acts, Wrote, WroteIn, TurnOfArtifact
<1> QED BY <1>2, <1>3

\* What is shown of a turn is what the last session wrote of it.
LEMMA ShownIsOfSession ==
    ASSUME TraceTypes, InSessions(artifacts, session), NEW type, NEW t
    PROVE  Wrote(type, t) <=> Shown(type, t) # 0 /\ artifacts[Shown(type, t)].session = session
<1> DEFINE C == Candidates(type, t)
<1>1. Len(artifacts) \in Nat /\ DOMAIN artifacts = 1..Len(artifacts) BY TypesOfState
<1>2. C \in SUBSET (1..Len(artifacts)) BY <1>1 DEF Candidates
<1>3. C # {} => LastOf(C) \in C /\ \A i \in C : i <= LastOf(C)
  <2> HIDE DEF C
  <2> QED BY <1>1, <1>2, LastExists
<1>4. ASSUME Wrote(type, t) PROVE Shown(type, t) # 0 /\ artifacts[Shown(type, t)].session = session
  <2>1. PICK i \in C : artifacts[i].session = session BY <1>4 DEF Wrote, WroteIn, Candidates
  <2>2. LastOf(C) \in C /\ i <= LastOf(C) BY <1>3, <2>1
  <2>3. i \in DOMAIN artifacts /\ LastOf(C) \in DOMAIN artifacts BY <2>1, <2>2 DEF Candidates
  <2>4. artifacts[LastOf(C)].session <= session /\ session <= artifacts[LastOf(C)].session
    BY <2>1, <2>2, <2>3 DEF InSessions
  <2>5. artifacts[LastOf(C)].session \in Nat /\ session \in Nat
    <3>1. artifacts \in Seq(ArtifactRows) /\ session \in Nat BY DEF TraceTypes
    <3>2. artifacts[LastOf(C)] \in ArtifactRows BY <2>3, <3>1
    <3> QED BY <3>1, <3>2, RowSessions
  <2>6. artifacts[LastOf(C)].session = session BY <2>4, <2>5
  <2>7. LastOf(C) # 0 BY <1>1, <2>3
  <2> QED BY <2>6, <2>7 DEF Shown
<1>5. ASSUME Shown(type, t) # 0, artifacts[Shown(type, t)].session = session PROVE Wrote(type, t)
  <2>1. C # {} BY <1>5 DEF Shown, LastOf
  <2>2. Shown(type, t) \in C BY <1>3, <2>1 DEF Shown
  <2> QED BY <1>5, <2>2 DEF Candidates, Wrote, WroteIn
<1> QED BY <1>4, <1>5

LEMMA SessionsAreShown == TraceTypes /\ TurnInv /\ SessionInv => LastSessionIsShown
<1> SUFFICES ASSUME TraceTypes, TurnInv, SessionInv PROVE LastSessionIsShown OBVIOUS
<1> SUFFICES ASSUME recorded, "deleted" \notin disturbed, NEW i \in DOMAIN steps,
                    steps[i].type = "decision", steps[i].session = session
             PROVE  LET turn == Replay[steps[i].turn]
                        Written(k) == k # 0 /\ artifacts[k].session = session
                    IN /\ turn.decision = i
                       /\ Written(turn.planner_context)
                       /\ Written(turn.llm_prompt) = steps[i].answered
                       /\ Written(turn.llm_response) = steps[i].answered
                       /\ "hint" \notin disturbed /\ (\E k \in turn.actions : k > i)
                            => Written(turn.decision_artifact)
  BY DEF LastSessionIsShown
<1> DEFINE t == steps[i].turn
           D == Positions("decision", t)
<1>1. /\ Len(steps) \in Nat /\ DOMAIN steps = 1..Len(steps) /\ steps \in Seq(StepRows) /\ session \in Nat
  BY TypesOfState DEF TraceTypes
<1>2. RowsInv /\ DecidedInv /\ ("hint" \notin disturbed => ActedInv) BY DEF SessionInv
<1>3. InSessions(steps, session) /\ InSessions(artifacts, session) BY <1>2 DEF RowsInv
<1>4. DecisionsInv BY DEF TurnInv
<1>5. \A j \in DOMAIN steps : steps[j].type = "decision" => Place(j) = steps[j].turn /\ steps[j].turn \in Nat
  <2>1. ASSUME NEW j \in DOMAIN steps, steps[j].type = "decision" PROVE Place(j) = steps[j].turn /\ steps[j].turn \in Nat
    <3>1. Names(steps[j]) /\ TurnOfStep(steps[j]) = steps[j].turn /\ steps[j].turn \in Nat
      BY <1>4, <2>1 DEF Names, TurnOfStep, DecisionsInv, OwnName
    <3>2. j \in Nat \ {0} BY <1>1
    <3> QED BY <3>1, <3>2, PlaceOfNext, PlaceIsIn
  <2> QED BY <2>1
<1>6. t \in DOMAIN Replay /\ Replay[t] = ReplayTurn(t)
  <2>1. t # None /\ t \in {Place(j) : j \in DOMAIN steps} BY <1>5 DEF None
  <2>2. t \in Turns BY <2>1 DEF Turns
  <2> QED BY <2>2, ReplayIs
<1>7. D \in SUBSET (1..Len(steps)) /\ i \in D BY <1>1, <1>5 DEF Positions
<1>8. LastOf(D) \in D /\ \A j \in D : j <= LastOf(D)
  <2> HIDE DEF D
  <2> QED BY <1>1, <1>7, LastExists
<1>9. \A j \in DOMAIN steps : i <= j => steps[j].session = session
  <2>1. ASSUME NEW j \in DOMAIN steps, i <= j PROVE steps[j].session = session
    <3>1. steps[j].session <= session /\ session <= steps[j].session BY <1>3, <2>1 DEF InSessions
    <3>2. steps[j] \in StepRows BY <1>1
    <3>3. steps[j].session \in Nat BY <3>2, RowSessions
    <3> QED BY <1>1, <3>1, <3>3
  <2> QED BY <2>1
<1>10. LastOf(D) = i
  <2>1. PICK l \in D : l = LastOf(D) BY <1>8
  <2>2. l \in DOMAIN steps /\ steps[l].type = "decision" /\ Place(l) = t /\ i <= l BY <1>7, <1>8, <2>1 DEF Positions
  <2>3. steps[l].session = session /\ steps[l].turn = t BY <1>5, <1>9, <2>2
  <2>4. i < l => steps[i].turn < steps[l].turn BY <1>2, <2>2, <2>3 DEF DecidedInv, Decides
  <2>5. ~(i < l) BY <1>5, <2>3, <2>4
  <2> QED BY <1>1, <2>1, <2>2, <2>5
<1>11. Reasoned(t, steps[i].answered) BY <1>2 DEF DecidedInv, Decides
<1>12. \A type : Wrote(type, t) <=> Shown(type, t) # 0 /\ artifacts[Shown(type, t)].session = session
  BY <1>3, ShownIsOfSession
<1>13. ASSUME "hint" \notin disturbed, NEW k \in Positions("action", t), k > i PROVE Wrote("decision", t)
  <2>1. k \in DOMAIN steps /\ steps[k].type = "action" /\ Place(k) = t BY DEF Positions
  <2>2. steps[k].session = session BY <1>1, <1>9, <1>13, <2>1
  <2>3. t # None BY <1>5 DEF None
  <2>4. steps[k].turn = t
    BY <1>13, <2>1, <2>3 DEF TurnInv, PlacesInv, RowsPlaced, Placed, IsFatal
  <2> QED BY <1>2, <1>13, <2>1, <2>2, <2>4 DEF ActedInv, Acts
<1>14. /\ ReplayTurn(t).decision = LastOf(D) /\ ReplayTurn(t).actions = Positions("action", t)
       /\ ReplayTurn(t).decision_artifact = Shown("decision", t)
       /\ ReplayTurn(t).planner_context = Shown("planner_context", t)
       /\ ReplayTurn(t).llm_prompt = Shown("llm_prompt", t)
       /\ ReplayTurn(t).llm_response = Shown("llm_response", t)
  BY DEF ReplayTurn
<1>15. /\ Wrote("planner_context", t)
       /\ Wrote("llm_prompt", t) <=> steps[i].answered
       /\ Wrote("llm_response", t) <=> steps[i].answered
  BY <1>11 DEF Reasoned
<1>16. steps[i].answered \in BOOLEAN
  <2>1. steps[i] \in StepRows BY <1>1
  <2> QED BY <2>1 DEF StepRows
<1> HIDE DEF t, D
<1>17. /\ Replay[t].decision = i
       /\ Replay[t].planner_context # 0 /\ artifacts[Replay[t].planner_context].session = session
       /\ (Replay[t].llm_prompt # 0 /\ artifacts[Replay[t].llm_prompt].session = session) = steps[i].answered
       /\ (Replay[t].llm_response # 0 /\ artifacts[Replay[t].llm_response].session = session) = steps[i].answered
       /\ "hint" \notin disturbed /\ (\E k \in Replay[t].actions : k > i)
            => Replay[t].decision_artifact # 0 /\ artifacts[Replay[t].decision_artifact].session = session
  BY <1>6, <1>10, <1>12, <1>13, <1>14, <1>15, <1>16
<1> QED BY <1>17 DEF t

-----------------------------------------------------------------------------
(* Calls and their results.                                                  *)

LEMMA UnansweredAppended ==
    ASSUME NEW rows \in Seq(StepRows), NEW step \in StepRows, NEW more, more = Append(rows, step), NEW i
    PROVE  Unanswered(more, i) <=>
             \/ Unanswered(rows, i) /\ (i = Len(rows) => step.type \notin Results)
             \/ i = Len(rows) + 1 /\ step.type \in Calls
<1>1. /\ Len(rows) \in Nat /\ DOMAIN rows = 1..Len(rows) /\ DOMAIN more = 1..(Len(rows) + 1)
      /\ \A k \in 1..Len(rows) : more[k] = rows[k]
      /\ more[Len(rows) + 1] = step
  BY SMTT(60), RowAppended
<1>2. CASE i = Len(rows) + 1
  <2>1. i \in DOMAIN more /\ i \notin DOMAIN rows /\ i + 1 \notin DOMAIN more BY SMTT(60), <1>1, <1>2
  <2> QED BY ZenonT(60), <1>1, <1>2, <2>1 DEF Unanswered
<1>3. CASE i = Len(rows) /\ i \in DOMAIN rows
  <2>1. i \in DOMAIN more /\ i + 1 \in DOMAIN more /\ i + 1 \notin DOMAIN rows BY <1>1, <1>3
  <2>2. more[i] = rows[i] /\ more[i + 1] = step BY <1>1, <1>3
  <2> QED BY <1>1, <1>3, <2>1, <2>2 DEF Unanswered
<1>4. CASE i # Len(rows) /\ i \in DOMAIN rows
  <2>1. i \in DOMAIN more /\ i + 1 \in DOMAIN more /\ i + 1 \in DOMAIN rows BY <1>1, <1>4
  <2>2. more[i] = rows[i] /\ more[i + 1] = rows[i + 1] BY <1>1, <2>1
  <2> QED BY <1>1, <1>4, <2>1, <2>2 DEF Unanswered
<1>5. CASE i # Len(rows) + 1 /\ i \notin DOMAIN rows
  <2>1. i \notin DOMAIN more BY <1>1, <1>5
  <2> QED BY <1>5, <2>1 DEF Unanswered
<1> QED BY SMTT(60), <1>2, <1>3, <1>4, <1>5

\* A step that is no result leaves each call as it was; a call is the last of
\* its turn if none was lost in it before.
LEMMA CallsGrow ==
    ASSUME NEW rows \in Seq(StepRows), NEW step \in StepRows, NEW more, more = Append(rows, step),
           ResultsFollow(rows), LastOfTurn(rows), step.type \notin Results,
           step.type \in Calls => \A i \in DOMAIN rows : Unanswered(rows, i) => rows[i].turn # step.turn
    PROVE  ResultsFollow(more) /\ LastOfTurn(more)
<1>1. /\ Len(rows) \in Nat /\ DOMAIN rows = 1..Len(rows) /\ DOMAIN more = 1..(Len(rows) + 1)
      /\ \A k \in 1..Len(rows) : more[k] = rows[k]
      /\ more[Len(rows) + 1] = step
  BY RowAppended
<1>2. ResultsFollow(more)
  <2>1. ASSUME NEW i \in DOMAIN more, more[i].type \in Results
        PROVE  i > 1 /\ more[i].of = i - 1 /\ Answers(more[i].type, more[i - 1].type)
    <3>1. i \in DOMAIN rows /\ more[i] = rows[i] BY <1>1, <2>1
    <3>2. i > 1 /\ rows[i].of = i - 1 /\ Answers(rows[i].type, rows[i - 1].type)
      BY <2>1, <3>1 DEF ResultsFollow
    <3>3. more[i - 1] = rows[i - 1] BY <1>1, <3>1, <3>2
    <3> QED BY <3>1, <3>2, <3>3
  <2> QED BY <2>1 DEF ResultsFollow
<1>3. LastOfTurn(more)
  <2>1. ASSUME NEW i \in DOMAIN more, NEW j \in DOMAIN more, Unanswered(more, i), i < j,
               more[j].type \in Calls \cup Results
        PROVE  more[i].turn # more[j].turn
    <3>1. i \in DOMAIN rows /\ more[i] = rows[i] BY <1>1, <2>1
    <3>2. Unanswered(rows, i)
      <4>1. i # Len(rows) + 1 BY <1>1, <3>1
      <4> QED BY <2>1, <4>1, UnansweredAppended
    <3>3. CASE j = Len(rows) + 1 BY <1>1, <2>1, <3>1, <3>2, <3>3
    <3>4. CASE j # Len(rows) + 1
      <4>1. j \in DOMAIN rows /\ more[j] = rows[j] BY <1>1, <3>4
      <4> QED BY <2>1, <3>1, <3>2, <4>1 DEF LastOfTurn
    <3> QED BY <3>3, <3>4
  <2> QED BY <2>1 DEF LastOfTurn
<1> QED BY <1>2, <1>3

\* A result after the only call of its turn that has none.
LEMMA ResultGrows ==
    ASSUME NEW rows \in Seq(StepRows), NEW step \in StepRows, NEW more, more = Append(rows, step),
           ResultsFollow(rows), LastOfTurn(rows), step.type \in Results, Len(rows) > 0,
           step.of = Len(rows), Answers(step.type, rows[Len(rows)].type),
           \A i \in DOMAIN rows : Unanswered(rows, i) /\ rows[i].turn = step.turn => i = Len(rows)
    PROVE  ResultsFollow(more) /\ LastOfTurn(more)
<1>1. /\ Len(rows) \in Nat /\ DOMAIN rows = 1..Len(rows) /\ DOMAIN more = 1..(Len(rows) + 1)
      /\ \A k \in 1..Len(rows) : more[k] = rows[k]
      /\ more[Len(rows) + 1] = step
  BY RowAppended
<1>2. ResultsFollow(more)
  <2>1. ASSUME NEW i \in DOMAIN more, more[i].type \in Results
        PROVE  i > 1 /\ more[i].of = i - 1 /\ Answers(more[i].type, more[i - 1].type)
    <3>1. CASE i = Len(rows) + 1
      <4>1. i - 1 = Len(rows) /\ more[i] = step /\ i > 1 BY <1>1, <3>1
      <4>2. Len(rows) \in 1..Len(rows) BY <1>1
      <4>3. more[Len(rows)] = rows[Len(rows)] BY <1>1, <4>2
      <4>4. more[i - 1] = rows[Len(rows)] BY ONLY <4>1, <4>3
      <4> QED BY <4>1, <4>4
    <3>2. CASE i # Len(rows) + 1
      <4>1. i \in DOMAIN rows /\ more[i] = rows[i] BY <1>1, <3>2
      <4>2. i > 1 /\ rows[i].of = i - 1 /\ Answers(rows[i].type, rows[i - 1].type)
        BY <2>1, <4>1 DEF ResultsFollow
      <4>3. more[i - 1] = rows[i - 1] BY <1>1, <4>1, <4>2
      <4> QED BY <4>1, <4>2, <4>3
    <3> QED BY <3>1, <3>2
  <2> QED BY <2>1 DEF ResultsFollow
<1>3. step.type \notin Calls BY DEF Calls, Results
<1>4. LastOfTurn(more)
  <2>1. ASSUME NEW i \in DOMAIN more, NEW j \in DOMAIN more, Unanswered(more, i), i < j,
               more[j].type \in Calls \cup Results
        PROVE  more[i].turn # more[j].turn
    <3>1. Unanswered(rows, i) /\ i # Len(rows) BY <1>3, <2>1, UnansweredAppended
    <3>2. i \in DOMAIN rows /\ more[i] = rows[i] BY <1>1, <3>1 DEF Unanswered
    <3>3. CASE j = Len(rows) + 1 BY <1>1, <3>1, <3>2, <3>3
    <3>4. CASE j # Len(rows) + 1
      <4>1. j \in DOMAIN rows /\ more[j] = rows[j] BY <1>1, <3>4
      <4> QED BY <2>1, <3>1, <3>2, <4>1 DEF LastOfTurn
    <3> QED BY <3>3, <3>4
  <2> QED BY <2>1 DEF LastOfTurn
<1> QED BY <1>2, <1>4

LEMMA CallsStayBelow ==
    ASSUME NEW rows \in Seq(StepRows), NEW step \in StepRows, NEW count \in Nat, NEW next \in Nat,
           count <= next, CallsBelow(rows, count), step.type \in Calls \cup Results => step.turn < next
    PROVE  CallsBelow(Append(rows, step), next)
<1> DEFINE more == Append(rows, step)
<1>1. /\ Len(rows) \in Nat /\ DOMAIN rows = 1..Len(rows) /\ DOMAIN more = 1..(Len(rows) + 1)
      /\ \A k \in 1..Len(rows) : more[k] = rows[k] /\ rows[k] \in StepRows
      /\ more[Len(rows) + 1] = step
  BY RowAppended
<1> HIDE DEF more
<1>2. ASSUME NEW i \in DOMAIN more, more[i].type \in Calls \cup Results PROVE more[i].turn < next
  <2>1. CASE i = Len(rows) + 1 BY <1>1, <1>2, <2>1
  <2>2. CASE i # Len(rows) + 1
    <3>1. i \in DOMAIN rows /\ more[i] = rows[i] /\ rows[i] \in StepRows BY <1>1, <2>2
    <3>2. rows[i].turn < count /\ rows[i].turn \in Int BY <1>2, <3>1 DEF CallsBelow, StepRows
    <3> QED BY <3>1, <3>2
  <2> QED BY <2>1, <2>2
<1>3. CallsBelow(more, next) BY <1>2 DEF CallsBelow
<1> QED BY <1>3 DEF more

LEMMA AnswersAtFirst == TraceInit => AnswerInv
<1> SUFFICES ASSUME TraceInit PROVE AnswersInv BY DEF AnswerInv
<1>1. DOMAIN steps = {} /\ writing = "rest" BY DEF TraceInit
<1> QED BY <1>1 DEF AnswersInv, ResultsFollow, LastOfTurn, CallsBelow

\* A step that is neither call nor result.
LEMMA AnswersBeside ==
    ASSUME TraceTypes, AnswersInv, turnCount' \in {turnCount, turnCount + 1}, writing' # "called",
           UNCHANGED steps \/ \E step \in StepRows :
             steps' = Append(steps, step) /\ step.type \notin Calls \cup Results,
           writing' \in {"decided", "action"} \/ (writing' = "acting" /\ todo' > 0) =>
             \/ turnCount' = turnCount + 1
             \/ turnCount' = turnCount /\ (writing = "decided" \/ (writing = "acting" /\ todo > 0))
    PROVE  AnswersInv'
<1>1. steps \in Seq(StepRows) /\ turnCount \in Nat /\ turnCount' \in Nat /\ turnCount <= turnCount'
  BY DEF TraceTypes
<1>2. /\ ResultsFollow(steps') /\ LastOfTurn(steps') /\ CallsBelow(steps', turnCount')
      /\ \A i : Unanswered(steps', i) => Unanswered(steps, i) /\ steps'[i] = steps[i]
  <2>1. CASE UNCHANGED steps
    <3>1. CallsBelow(steps, turnCount')
      <4>1. ASSUME NEW i \in DOMAIN steps, steps[i].type \in Calls \cup Results PROVE steps[i].turn < turnCount'
        <5>1. steps[i].turn < turnCount BY <4>1 DEF AnswersInv, CallsBelow
        <5>2. steps[i] \in StepRows BY <1>1
        <5>3. steps[i].turn \in Int BY <5>2 DEF StepRows
        <5> QED BY <1>1, <5>1, <5>3
      <4> QED BY <4>1 DEF CallsBelow
    <3> QED BY <2>1, <3>1 DEF AnswersInv
  <2>2. ASSUME NEW step \in StepRows, steps' = Append(steps, step), step.type \notin Calls \cup Results
        PROVE  /\ ResultsFollow(steps') /\ LastOfTurn(steps') /\ CallsBelow(steps', turnCount')
               /\ \A i : Unanswered(steps', i) => Unanswered(steps, i) /\ steps'[i] = steps[i]
    <3>1. ResultsFollow(steps') /\ LastOfTurn(steps') BY <1>1, <2>2, CallsGrow DEF AnswersInv
    <3>2. CallsBelow(steps', turnCount') BY <1>1, <2>2, CallsStayBelow DEF AnswersInv
    <3>3. ASSUME NEW i, Unanswered(steps', i) PROVE Unanswered(steps, i) /\ steps'[i] = steps[i]
      <4>1. Unanswered(steps, i) BY <1>1, <2>2, <3>3, UnansweredAppended
      <4>2. i \in 1..Len(steps) BY <1>1, <4>1 DEF Unanswered
      <4> QED BY <1>1, <2>2, <4>1, <4>2
    <3> QED BY <3>1, <3>2, <3>3
  <2> QED BY <2>1, <2>2
<1>3. ASSUME writing' \in {"decided", "action"} \/ (writing' = "acting" /\ todo' > 0),
             NEW i \in DOMAIN steps', Unanswered(steps', i)
      PROVE  steps'[i].turn # turnCount' - 1
  <2>1. Unanswered(steps, i) /\ steps'[i] = steps[i] BY <1>2, <1>3
  <2>2. i \in DOMAIN steps /\ steps[i].type \in Calls BY <2>1 DEF Unanswered
  <2>3. CASE turnCount' = turnCount + 1
    <3>1. steps[i].turn < turnCount BY <2>2 DEF AnswersInv, CallsBelow
    <3> QED BY <1>1, <2>1, <2>3, <3>1
  <2>4. CASE turnCount' = turnCount /\ (writing = "decided" \/ (writing = "acting" /\ todo > 0))
    BY <2>1, <2>2, <2>4 DEF AnswersInv
  <2> QED BY <1>3, <2>3, <2>4
<1> QED BY <1>2, <1>3 DEF AnswersInv, ResultsFollow, LastOfTurn, CallsBelow, Unanswered, Answers

LEMMA SavedBeside ==
    ASSUME TraceTypes, NEW type \in StepTypes \ (Calls \cup Results), NEW name \in Int, NEW meta \in Int,
           NEW of \in Nat, NEW turn \in Int, SaveStep(RunStep(type, name, meta, of, turn))
    PROVE  \E step \in StepRows : steps' = Append(steps, step) /\ step.type \notin Calls \cup Results
<1>1. PICK step \in StepRows : steps' = Append(steps, step) /\ step = RunStep(type, name, meta, of, turn)
  BY StepIsSaved
<1>2. step.type = type BY <1>1 DEF RunStep
<1> QED BY <1>1, <1>2

LEMMA AnswersKept ==
    ASSUME TraceTypes, SessionInv, AnswerInv, [TraceWrites]_traceVars
    PROVE  AnswerInv'
<1> SUFFICES ASSUME disturbed' = {} PROVE AnswersInv' BY DEF AnswerInv
<1>0. /\ turnCount \in Nat /\ turnCount \in Int /\ turnCount - 1 \in Int /\ None \in Int /\ 0 \in Nat
      /\ LastTurn \in Int /\ steps \in Seq(StepRows) /\ Len(steps) \in Nat
  BY TypesOfState DEF TraceTypes
<1>1. {"decision", "decision_error", "action", "observation"} \subseteq StepTypes \ (Calls \cup Results)
  BY DEF StepTypes, Calls, Results
<1>2. CASE steps' = <<>> /\ writing' \in {"plan", "rest"}
  <2>1. DOMAIN steps' = {} BY <1>2
  <2> QED BY <1>2, <2>1 DEF AnswersInv, ResultsFollow, LastOfTurn, CallsBelow
<1>3. CASE Start
  <2>1. session = 0 /\ writing' = "plan" /\ UNCHANGED steps BY <1>3 DEF Start
  <2>2. steps = <<>> BY <2>1 DEF SessionInv, FirstInv
  <2> QED BY <1>2, <2>1, <2>2
<1>5. ASSUME TraceWrites, ~Start PROVE AnswersInv
  <2>1. disturbed = {} BY <1>5, RowsWritten
  <2> QED BY <2>1 DEF AnswerInv
<1>6. CASE StopDecides \/ ModelDecides
  <2>1. /\ turnCount' = turnCount + 1 /\ writing' = "decided"
        /\ SaveStep(RunStep("decision", turnCount, None, 0, turnCount))
    BY <1>6 DEF StopDecides, ModelDecides, Decided, SaveNewStep
  <2>2. \E step \in StepRows : steps' = Append(steps, step) /\ step.type \notin Calls \cup Results
    BY <1>0, <1>1, <2>1, SavedBeside
  <2>3. AnswersInv
    <3>1. TraceWrites /\ ~Start
      BY <1>6, <2>1 DEF TraceWrites, Start, DeleteRun
    <3> QED BY <1>5, <3>1
  <2> QED BY <2>1, <2>2, <2>3, AnswersBeside
<1>7. CASE \/ RecordContext \/ RecordPrompt \/ RecordResponse \/ StopsBeforeActions \/ RecordDecisionArtifact
           \/ NextTurnFollows \/ LoopEnds \/ SessionEnds
  <2>1. UNCHANGED <<steps, turnCount, session>>
    BY <1>7 DEF RecordContext, RecordPrompt, RecordResponse, StopsBeforeActions, RecordDecisionArtifact,
        NextTurnFollows, LoopEnds, SessionEnds
  <2>2. \/ writing' \notin {"decided", "action", "acting", "called"}
        \/ writing = "decided" /\ writing' = "acting"
    BY <1>7 DEF RecordContext, RecordPrompt, RecordResponse, StopsBeforeActions, RecordDecisionArtifact,
        NextTurnFollows, LoopEnds, SessionEnds
  <2>3. disturbed = {}
    BY <1>7 DEF RecordContext, RecordPrompt, RecordResponse, StopsBeforeActions, RecordDecisionArtifact,
        NextTurnFollows, LoopEnds, SessionEnds
  <2>4. AnswersInv BY <2>3 DEF AnswerInv
  <2> QED BY <2>1, <2>2, <2>4, AnswersBeside
<1>8. CASE RecordAction
  <2>1. PICK meta \in Metas : SaveNewStep("action", None, meta, 0, turnCount - 1) /\ Hinted(meta)
    BY <1>8 DEF RecordAction
  <2>2. meta \in Int /\ SaveStep(RunStep("action", None, meta, 0, turnCount - 1)) /\ disturbed = {}
    BY <2>1, MetasAreInts DEF SaveNewStep, Hinted
  <2>3. \E step \in StepRows : steps' = Append(steps, step) /\ step.type \notin Calls \cup Results
    BY <1>0, <1>1, <2>2, SavedBeside
  <2>4. AnswersInv BY <2>2 DEF AnswerInv
  <2>5. writing = "acting" /\ todo > 0 /\ writing' = "action" /\ UNCHANGED turnCount BY <1>8 DEF RecordAction
  <2> QED BY <2>3, <2>4, <2>5, AnswersBeside
<1>9. CASE RecordDecisionError
  <2>1. /\ SaveStep(RunStep("decision_error", turnCount - 1, None, 0, turnCount - 1)) /\ disturbed = {}
        /\ todo' = 0 /\ writing' = "acting" /\ UNCHANGED turnCount
    BY <1>9 DEF RecordDecisionError, SaveNewStep
  <2>2. \E step \in StepRows : steps' = Append(steps, step) /\ step.type \notin Calls \cup Results
    BY <1>0, <1>1, <2>1, SavedBeside
  <2>3. AnswersInv BY <2>1 DEF AnswerInv
  <2> QED BY <2>1, <2>2, <2>3, AnswersBeside
<1>10. CASE RecordFeedback \/ RecordVerification \/ RecordRetry
  <2>1. /\ SaveStep(RunStep("observation", None, LastTurn, 0, turnCount - 1)) /\ disturbed = {}
        /\ writing' \in {"plan", "verified"} /\ UNCHANGED turnCount
    BY <1>10 DEF RecordFeedback, RecordVerification, RecordRetry, RecordObservation, SaveNewStep
  <2>2. \E step \in StepRows : steps' = Append(steps, step) /\ step.type \notin Calls \cup Results
    BY <1>0, <1>1, <2>1, SavedBeside
  <2>3. AnswersInv BY <2>1 DEF AnswerInv
  <2> QED BY <2>1, <2>2, <2>3, AnswersBeside
<1>11. CASE Fatal
  <2>1. /\ SaveStep(RunStep("decision_error", None, None, 0, turnCount)) /\ disturbed = {}
        /\ writing' = "rest" /\ UNCHANGED turnCount
    BY <1>11 DEF Fatal
  <2>2. \E step \in StepRows : steps' = Append(steps, step) /\ step.type \notin Calls \cup Results
    BY <1>0, <1>1, <2>1, SavedBeside
  <2>3. AnswersInv BY <2>1 DEF AnswerInv
  <2> QED BY <2>1, <2>2, <2>3, AnswersBeside
<1>12. CASE RecordCall
  <2>1. /\ writing = "action" /\ writing' = "called" /\ UNCHANGED <<turnCount, disturbed>>
        /\ SaveStep(RunStep(CallStep[call.kind], None, call.meta, 0, turnCount - 1))
    BY <1>12 DEF RecordCall, SaveNewStep
  <2>2. call.kind \in CallKinds /\ call.meta \in Int BY <2>1 DEF TraceTypes
  <2>3. CallStep[call.kind] \in Calls BY <2>2, CallTypes
  <2>4. CallStep[call.kind] \in StepTypes /\ CallStep[call.kind] \notin Results
    BY <2>3 DEF StepTypes, Calls, Results
  <2>5. PICK step \in StepRows : /\ steps' = Append(steps, step)
                                 /\ step = RunStep(CallStep[call.kind], None, call.meta, 0, turnCount - 1)
    <3> DEFINE type == CallStep[call.kind]
               meta == call.meta
    <3>1. type \in StepTypes /\ meta \in Int /\ SaveStep(RunStep(type, None, meta, 0, turnCount - 1))
      BY <2>1, <2>2, <2>4
    <3> HIDE DEF type, meta
    <3>2. \E step \in StepRows : steps' = Append(steps, step) /\ step = RunStep(type, None, meta, 0, turnCount - 1)
      BY <1>0, <3>1, StepIsSaved
    <3> QED BY <3>2 DEF type, meta
  <2>6. step.type = CallStep[call.kind] /\ step.turn = turnCount - 1 BY <2>5 DEF RunStep
  <2>7. AnswersInv BY <2>1 DEF AnswerInv
  <2>8. \A i \in DOMAIN steps : Unanswered(steps, i) => steps[i].turn # turnCount - 1
    BY <2>1, <2>7 DEF AnswersInv
  <2>9. ResultsFollow(steps') /\ LastOfTurn(steps')
    <3>1. steps \in Seq(StepRows) /\ step \in StepRows /\ steps' = Append(steps, step) BY <1>0, <2>5
    <3>2. ResultsFollow(steps) /\ LastOfTurn(steps) BY <2>7 DEF AnswersInv
    <3>3. step.type \notin Results BY <2>4, <2>6
    <3>4. step.type \in Calls => \A i \in DOMAIN steps : Unanswered(steps, i) => steps[i].turn # step.turn
      BY <2>6, <2>8
    <3> QED BY <3>1, <3>2, <3>3, <3>4, CallsGrow
  <2>10. CallsBelow(steps', turnCount)
    BY <1>0, <2>5, <2>6, <2>7, CallsStayBelow DEF AnswersInv
  <2>11. /\ Len(steps') = Len(steps) + 1 /\ steps'[Len(steps) + 1] = step /\ DOMAIN steps = 1..Len(steps)
         /\ \A i \in 1..Len(steps) : steps'[i] = steps[i]
    BY <1>0, <2>5, RowAppended
  <2>12. ASSUME NEW i \in DOMAIN steps', Unanswered(steps', i), steps'[i].turn = turnCount - 1
         PROVE  i = Len(steps')
    <3>1. CASE i = Len(steps) + 1 BY <2>11, <3>1
    <3>2. CASE i # Len(steps) + 1
      <4>1. Unanswered(steps, i) BY <1>0, <2>5, <2>12, <3>2, UnansweredAppended
      <4>2. i \in DOMAIN steps /\ steps'[i] = steps[i] BY <2>11, <4>1 DEF Unanswered
      <4> QED BY <2>8, <2>12, <4>1, <4>2
    <3> QED BY <3>1, <3>2
  <2>13. call'.step = Len(steps) + 1 /\ call'.kind = call.kind BY <1>12 DEF RecordCall, TraceTypes
  <2> QED BY <1>0, <2>1, <2>6, <2>9, <2>10, <2>11, <2>12, <2>13
          DEF AnswersInv, ResultsFollow, LastOfTurn, CallsBelow, Unanswered, Answers
<1>13. CASE RecordResult
  <2>1. PICK meta \in Metas :
          SaveNewStep(ResultStep[call.kind], None, meta, call.step, turnCount - 1) /\ Hinted(meta)
    BY <1>13 DEF RecordResult
  <2>2. /\ SaveStep(RunStep(ResultStep[call.kind], None, meta, call.step, turnCount - 1)) /\ disturbed = {}
        /\ meta \in Int
    BY <2>1, MetasAreInts DEF SaveNewStep, Hinted
  <2>3. writing = "called" /\ writing' = "acting" /\ UNCHANGED turnCount BY <1>13 DEF RecordResult
  <2>4. call.kind \in CallKinds /\ call.step \in Nat BY <2>3 DEF TraceTypes
  <2>5. ResultStep[call.kind] \in Results /\ CallStep[call.kind] \in Calls BY <2>4, CallTypes
  <2>6. ResultStep[call.kind] \in StepTypes BY <2>5 DEF StepTypes, Results
  <2>7. PICK step \in StepRows : /\ steps' = Append(steps, step)
                                 /\ step = RunStep(ResultStep[call.kind], None, meta, call.step, turnCount - 1)
    BY <1>0, <2>2, <2>4, <2>6, StepIsSaved
  <2>8. step.type = ResultStep[call.kind] /\ step.turn = turnCount - 1 /\ step.of = call.step BY <2>7 DEF RunStep
  <2>9. AnswersInv BY <2>2 DEF AnswerInv
  <2>10. /\ call.step = Len(steps) /\ Len(steps) > 0 /\ steps[Len(steps)].type = CallStep[call.kind]
         /\ \A i \in DOMAIN steps : Unanswered(steps, i) /\ steps[i].turn = turnCount - 1 => i = Len(steps)
    BY <2>3, <2>9 DEF AnswersInv
  <2>11. Answers(step.type, steps[Len(steps)].type) BY <2>4, <2>8, <2>10 DEF Answers
  <2>12. ResultsFollow(steps') /\ LastOfTurn(steps')
    <3>1. ResultsFollow(steps) /\ LastOfTurn(steps) BY <2>9 DEF AnswersInv
    <3>2. step.type \in Results /\ step.of = Len(steps) BY <2>5, <2>8, <2>10
    <3>3. \A i \in DOMAIN steps : Unanswered(steps, i) /\ steps[i].turn = step.turn => i = Len(steps)
      BY <2>8, <2>10
    <3> QED BY <1>0, <2>7, <2>10, <2>11, <3>1, <3>2, <3>3, ResultGrows
  <2>13. CallsBelow(steps', turnCount) BY <1>0, <2>7, <2>8, <2>9, CallsStayBelow DEF AnswersInv
  <2>14. ASSUME NEW i \in DOMAIN steps', Unanswered(steps', i) PROVE steps'[i].turn # turnCount - 1
    <3>1. step.type \in Results /\ step.type \notin Calls BY <2>5, <2>8 DEF Calls, Results
    <3>2. Unanswered(steps, i) /\ i # Len(steps) BY <1>0, <2>7, <2>14, <3>1, UnansweredAppended
    <3>3. i \in DOMAIN steps BY <3>2 DEF Unanswered
    <3>4. steps'[i] = steps[i] BY <1>0, <2>7, <3>3, RowAppended
    <3> QED BY <2>10, <3>2, <3>3, <3>4
  <2> QED BY <2>3, <2>12, <2>13, <2>14 DEF AnswersInv, ResultsFollow, LastOfTurn, CallsBelow, Unanswered, Answers
<1>14. CASE UNCHANGED traceVars
  BY <1>14 DEF traceVars, AnswerInv, AnswersInv, ResultsFollow, LastOfTurn, CallsBelow, Unanswered, Answers
<1> QED
  BY <1>3, <1>6, <1>7, <1>8, <1>9, <1>10, <1>11, <1>12, <1>13, <1>14 DEF TraceWrites

\* As many results as calls that have one.
LEMMA ShiftedCardinality ==
    ASSUME NEW S \in SUBSET Nat, IsFiniteSet(S), NEW T, T = {i - 1 : i \in S}
    PROVE  IsFiniteSet(T) /\ Cardinality(T) = Cardinality(S)
<1> DEFINE f == [i \in S |-> i - 1]
<1>1. f \in [S -> T] OBVIOUS
<1>2. \A i, j \in S : f[i] = f[j] => i = j
  <2>1. ASSUME NEW i \in S, NEW j \in S, f[i] = f[j] PROVE i = j
    <3>1. i - 1 = j - 1 /\ i \in Nat /\ j \in Nat BY <2>1
    <3> QED BY <3>1
  <2> QED BY <2>1
<1>3. \A j \in T : \E i \in S : f[i] = j OBVIOUS
<1>4. f \in Bijection(S, T)
  <2> HIDE DEF f
  <2> QED BY <1>1, <1>2, <1>3 DEF Bijection, Injection, Surjection, IsInjective
<1>5. ExistsBijection(S, T)
  <2> HIDE DEF f
  <2> QED BY <1>4 DEF ExistsBijection
<1> QED BY <1>5, FS_Bijection

LEMMA BeforeTells ==
    ASSUME NEW S \in SUBSET Nat, IsFiniteSet(S), NEW i \in S, NEW j \in S, Before(S, i) = Before(S, j)
    PROVE  i = j
<1>1. ASSUME NEW k \in S, NEW l \in S, k < l PROVE Before(S, k) # Before(S, l)
  <2> DEFINE K == {x \in S : x < k}
             L == {x \in S : x < l}
  <2>1. IsFiniteSet(L) /\ K \in SUBSET L /\ k \in L /\ k \notin K
    <3>1. L \in SUBSET S OBVIOUS
    <3>2. IsFiniteSet(L)
      <4> HIDE DEF L
      <4> QED BY <3>1, FS_Subset
    <3>3. k \in Nat /\ l \in Nat OBVIOUS
    <3>4. \A x \in S : x < k => x < l
      <4>1. ASSUME NEW x \in S, x < k PROVE x < l
        <5>1. x \in Nat OBVIOUS
        <5> QED BY <1>1, <3>3, <4>1, <5>1
      <4> QED BY <4>1
    <3>5. K \in SUBSET L BY <3>4
    <3>6. k \in L BY <1>1
    <3>7. k \notin K BY <3>3
    <3> QED BY <3>2, <3>5, <3>6, <3>7
  <2>2. Cardinality(L) # Cardinality(K)
    <3> HIDE DEF K, L
    <3> QED BY <2>1, FS_Subset
  <2> QED BY <2>2 DEF Before
<1>2. i \in Nat /\ j \in Nat OBVIOUS
<1> QED BY <1>1, <1>2

\* The calls and the results that are shown of a turn.
LEMMA ResultsOfTurn ==
    ASSUME TraceTypes, PlacesInv, AnswersInv, NEW n, n # None, NEW kind \in CallKinds
    PROVE  /\ \A r \in Positions(ResultStep[kind], n) :
                r \in Nat /\ r - 1 \in Positions(CallStep[kind], n) /\ steps[r].of = r - 1
           /\ \A c \in Positions(CallStep[kind], n) :
                c \in Nat /\ (c + 1 \in Positions(ResultStep[kind], n) \/ Unanswered(steps, c))
           /\ \A c, d \in Positions(CallStep[kind], n) : Unanswered(steps, c) => d <= c
<1>1. Len(steps) \in Nat /\ DOMAIN steps = 1..Len(steps) BY TypesOfState
<1>2. \A one, other \in CallKinds : CallStep[one] = CallStep[other] \/ ResultStep[one] = ResultStep[other] => one = other
  BY DEF CallKinds, CallStep, ResultStep
<1>3. \A i \in DOMAIN steps : steps[i].type \in Calls \cup Results =>
        ~Names(steps[i]) /\ Place(i) = Place(i - 1) /\ ~IsFatal(steps[i])
  <2>1. ASSUME NEW i \in DOMAIN steps, steps[i].type \in Calls \cup Results
        PROVE  ~Names(steps[i]) /\ Place(i) = Place(i - 1) /\ ~IsFatal(steps[i])
    <3>1. steps[i].type \notin {"decision", "decision_error", "observation"} BY <2>1 DEF Calls, Results
    <3>2. steps[i].meta = None BY <3>1 DEF PlacesInv, RowsPlaced, Placed
    <3>3. ~Names(steps[i]) /\ ~IsFatal(steps[i]) BY <3>1, <3>2 DEF Names, TurnOfStep, IsFatal
    <3>4. i \in Nat \ {0} BY <1>1
    <3> QED BY <3>3, <3>4, PlaceOfNext, PlaceIsIn
  <2> QED BY <2>1
<1>4. CallStep[kind] \in Calls /\ ResultStep[kind] \in Results BY CallTypes
<1>5. ASSUME NEW r \in Positions(ResultStep[kind], n)
      PROVE  r \in Nat /\ r - 1 \in Positions(CallStep[kind], n) /\ steps[r].of = r - 1
  <2>1. r \in DOMAIN steps /\ steps[r].type = ResultStep[kind] /\ Place(r) = n BY DEF Positions
  <2>2. r > 1 /\ steps[r].of = r - 1 /\ Answers(steps[r].type, steps[r - 1].type)
    BY <1>4, <2>1 DEF AnswersInv, ResultsFollow
  <2>3. steps[r - 1].type = CallStep[kind] BY <1>2, <2>1, <2>2 DEF Answers
  <2>4. Place(r - 1) = n BY <1>3, <1>4, <2>1
  <2>5. r - 1 \in DOMAIN steps /\ r \in Nat BY <1>1, <2>1, <2>2
  <2> QED BY <2>2, <2>3, <2>4, <2>5 DEF Positions
<1>6. ASSUME NEW c \in Positions(CallStep[kind], n), ~Unanswered(steps, c)
      PROVE  c + 1 \in Positions(ResultStep[kind], n)
  <2>1. c \in DOMAIN steps /\ steps[c].type = CallStep[kind] /\ Place(c) = n BY DEF Positions
  <2>2. c + 1 \in DOMAIN steps /\ steps[c + 1].type \in Results BY <1>4, <1>6, <2>1 DEF Unanswered
  <2>3. (c + 1) - 1 = c BY <1>1, <2>1
  <2>4. Answers(steps[c + 1].type, steps[c].type) BY <2>2, <2>3 DEF AnswersInv, ResultsFollow
  <2>5. steps[c + 1].type = ResultStep[kind] BY <1>2, <2>1, <2>4 DEF Answers
  <2>6. Place(c + 1) = n BY <1>3, <2>1, <2>2, <2>3
  <2> QED BY <2>2, <2>5, <2>6 DEF Positions
<1>7. ASSUME NEW c \in Positions(CallStep[kind], n), NEW d \in Positions(CallStep[kind], n), Unanswered(steps, c)
      PROVE  d <= c
  <2>1. /\ c \in DOMAIN steps /\ steps[c].type = CallStep[kind] /\ Place(c) = n
        /\ d \in DOMAIN steps /\ steps[d].type = CallStep[kind] /\ Place(d) = n
    BY DEF Positions
  <2>2. steps[c].turn = n /\ steps[d].turn = n
    BY <1>3, <1>4, <2>1 DEF PlacesInv, RowsPlaced, Placed
  <2>3. ~(c < d) BY <1>4, <1>7, <2>1, <2>2 DEF AnswersInv, LastOfTurn
  <2> QED BY <1>1, <2>1, <2>3
<1>8. \A c \in Positions(CallStep[kind], n) : c \in Nat BY <1>1 DEF Positions
<1> QED BY <1>5, <1>6, <1>7, <1>8

LEMMA ResultsAnswer == TraceTypes /\ TurnInv /\ AnswerInv => ResultsAnswerCalls
<1> SUFFICES ASSUME TraceTypes, TurnInv, AnswerInv, disturbed = {}, NEW n \in DOMAIN Replay, NEW kind \in CallKinds
             PROVE  LET calls == Replay[n].calls[kind]
                        results == Replay[n].results[kind]
                    IN /\ Cardinality(results) \in {Cardinality(calls), Cardinality(calls) - 1}
                       /\ \A c \in calls, r \in results :
                            Before(calls, c) = Before(results, r) => steps[r].of = c
  BY DEF ResultsAnswerCalls
<1> DEFINE C == Positions(CallStep[kind], n)
           R == Positions(ResultStep[kind], n)
           A == {r - 1 : r \in R}
<1>1. PlacesInv /\ AnswersInv BY DEF TurnInv, AnswerInv
<1>2. n # None /\ Replay[n] = ReplayTurn(n) BY ReplayIs DEF Turns
<1>3. Replay[n].calls[kind] = C /\ Replay[n].results[kind] = R BY <1>2 DEF ReplayTurn
<1>4. /\ \A r \in R : r \in Nat /\ r - 1 \in C /\ steps[r].of = r - 1
      /\ \A c \in C : c \in Nat /\ (c + 1 \in R \/ Unanswered(steps, c))
      /\ \A c, d \in C : Unanswered(steps, c) => d <= c
  BY <1>1, <1>2, ResultsOfTurn
<1>5. IsFiniteSet(C) /\ C \in SUBSET Nat /\ IsFiniteSet(R) /\ R \in SUBSET Nat
  <2>1. Len(steps) \in Nat /\ DOMAIN steps = 1..Len(steps) BY TypesOfState
  <2>2. IsFiniteSet(1..Len(steps)) BY <2>1, FS_Interval
  <2>3. C \in SUBSET (1..Len(steps)) /\ R \in SUBSET (1..Len(steps)) BY <2>1 DEF Positions
  <2>4. IsFiniteSet(C) /\ IsFiniteSet(R)
    <3> HIDE DEF C, R
    <3> QED BY <2>2, <2>3, FS_Subset
  <2> QED BY <2>3, <2>4
<1> HIDE DEF C, R
<1>6. IsFiniteSet(A) /\ Cardinality(A) = Cardinality(R)
  <2> HIDE DEF A
  <2> QED BY <1>5, ShiftedCardinality DEF A
<1>7. A \in SUBSET C BY <1>4
<1>8. \A c \in C : c \in A \/ Unanswered(steps, c)
  <2>1. ASSUME NEW c \in C, c + 1 \in R PROVE c \in A
    <3>1. c = (c + 1) - 1 BY <1>4
    <3> QED BY <2>1, <3>1
  <2> QED BY <1>4, <2>1
<1>9. Cardinality(R) \in {Cardinality(C), Cardinality(C) - 1}
  <2>1. CASE C = A BY <1>6, <2>1
  <2>2. CASE C # A
    <3>1. PICK u \in C : u \notin A BY <1>7, <2>2
    <3>2. Unanswered(steps, u) BY <1>8, <3>1
    <3>3. \A c \in C : c \in A \/ c = u
      <4>1. ASSUME NEW c \in C, c \notin A PROVE c = u
        <5>1. Unanswered(steps, c) BY <1>8, <4>1
        <5>2. c <= u /\ u <= c /\ c \in Nat /\ u \in Nat BY <1>4, <3>1, <3>2, <5>1
        <5> QED BY <5>2
      <4> QED BY <4>1
    <3>4. C = A \cup {u} BY <1>7, <3>1, <3>3
    <3>5. Cardinality(C) = Cardinality(A) + 1
      <4> HIDE DEF A
      <4> QED BY <1>6, <3>1, <3>4, FS_AddElement
    <3>6. Cardinality(A) \in Nat
      <4> HIDE DEF A
      <4> QED BY <1>6, FS_CardinalityType
    <3> QED BY <1>6, <3>5, <3>6
  <2> QED BY <2>1, <2>2
<1>10. ASSUME NEW c \in C, NEW r \in R, Before(C, c) = Before(R, r) PROVE steps[r].of = c
  <2> DEFINE RB == {j \in R : j < r}
             CB == {j \in C : j < r - 1}
  <2>1. r \in Nat /\ r - 1 \in C /\ steps[r].of = r - 1 BY <1>4
  <2>2. CB = {j - 1 : j \in RB}
    <3>1. ASSUME NEW i \in CB PROVE i \in {j - 1 : j \in RB}
      <4>1. i \in C /\ i < r - 1 /\ i \in Nat BY <1>4
      <4>2. ~Unanswered(steps, i) BY <1>4, <2>1, <4>1
      <4>3. i + 1 \in R BY <1>4, <4>1, <4>2
      <4>4. i + 1 < r /\ (i + 1) - 1 = i BY <2>1, <4>1
      <4>5. i + 1 \in RB BY <4>3, <4>4
      <4> QED BY <4>4, <4>5
    <3>2. ASSUME NEW j \in RB PROVE j - 1 \in CB
      <4>1. j \in Nat /\ j - 1 \in C /\ j < r BY <1>4
      <4>2. j - 1 < r - 1 BY <2>1, <4>1
      <4> QED BY <4>1, <4>2
    <3> QED BY <3>1, <3>2
  <2>3. RB \in SUBSET R /\ RB \in SUBSET Nat BY <1>5
  <2>4. IsFiniteSet(RB)
    <3> HIDE DEF RB
    <3> QED BY <1>5, <2>3, FS_Subset
  <2>5. Cardinality(CB) = Cardinality(RB)
    <3> HIDE DEF RB, CB
    <3> QED BY <2>2, <2>3, <2>4, ShiftedCardinality
  <2>6. Before(C, r - 1) = Before(C, c) BY <1>10, <2>5 DEF Before
  <2>7. r - 1 = c
    <3> DEFINE d == r - 1
    <3> HIDE DEF d
    <3>1. d \in C /\ Before(C, d) = Before(C, c) BY <2>1, <2>6 DEF d
    <3>2. d = c BY <1>5, <3>1, BeforeTells
    <3> QED BY <3>2 DEF d
  <2> QED BY <2>1, <2>7
<1> QED BY <1>3, <1>9, <1>10

-----------------------------------------------------------------------------
(* Theorems of the trace.                                                    *)

-----------------------------------------------------------------------------
(* A deletion.  What it lists and unlinks leaves each step that is left where *)
(* the reader had it, or with no turn: the steps before it are gone.          *)

LEMMA PlaceOfSame ==
    ASSUME NEW s, NEW t, NEW i \in Nat,
           \A j \in 1..i : (Names(t[j]) <=> Names(s[j])) /\ TurnOfStep(t[j]) = TurnOfStep(s[j])
    PROVE  PlaceIn(t, i) = PlaceIn(s, i)
<1> DEFINE named == {j \in 1..i : Names(s[j])}
<1>1. {j \in 1..i : Names(t[j])} = named OBVIOUS
<1>2. CASE named = {} BY <1>1, <1>2 DEF PlaceIn
<1>3. CASE named # {}
  <2>1. LastOf(named) \in 1..i
    <3>1. named \in SUBSET (1..i) OBVIOUS
    <3> HIDE DEF named
    <3> QED BY <1>3, <3>1, LastExists
  <2>2. TurnOfStep(t[LastOf(named)]) = TurnOfStep(s[LastOf(named)]) BY <2>1
  <2> QED BY <1>1, <1>3, <2>2 DEF PlaceIn
<1> QED BY <1>2, <1>3

LEMMA PlaceOfTail ==
    ASSUME NEW s, NEW t, NEW i \in Nat, \A j \in 1..i : t[j] = s[j + 1]
    PROVE  PlaceIn(t, i) \in {None, PlaceIn(s, i + 1)}
<1> DEFINE left == {j \in 1..i : Names(t[j])}
           named == {j \in 1..(i + 1) : Names(s[j])}
<1>1. CASE left = {} BY <1>1 DEF PlaceIn
<1>2. CASE left # {}
  <2>1. left \in SUBSET (1..i) /\ named \in SUBSET (1..(i + 1)) /\ i + 1 \in Nat OBVIOUS
  <2>2. LastOf(left) \in left /\ \A j \in left : j <= LastOf(left)
    <3> HIDE DEF left
    <3> QED BY <1>2, <2>1, LastExists
  <2>3. PICK l \in left : l = LastOf(left) BY <2>2
  <2>4. l + 1 \in named BY <2>3
  <2>5. LastOf(named) \in named /\ \A j \in named : j <= LastOf(named)
    <3> HIDE DEF named
    <3> QED BY <2>1, <2>4, LastExists
  <2>6. PICK m \in named : m = LastOf(named) BY <2>5
  <2>7. m = l + 1
    <3>1. l + 1 <= m BY <2>4, <2>5, <2>6
    <3>2. m - 1 \in left BY <2>1, <2>3, <3>1
    <3>3. m - 1 <= l BY <2>2, <2>3, <3>2
    <3> QED BY <2>1, <3>1, <3>3
  <2>8. PlaceIn(t, i) = TurnOfStep(t[l]) BY <1>2, <2>3 DEF PlaceIn
  <2>9. PlaceIn(s, i + 1) = TurnOfStep(s[m]) BY <2>4, <2>6 DEF PlaceIn
  <2> QED BY <2>7, <2>8, <2>9
<1> QED BY <1>1, <1>2

LEMMA RowsListed ==
    ASSUME steps \in Seq(StepRows), steps' = Listed(steps), DecisionsInv, NEW shown \in BOOLEAN, shown => RowsPlaced
    PROVE  /\ steps' \in Seq(StepRows) /\ DecisionsInv' /\ (shown => RowsPlaced')
           /\ \A i \in DOMAIN steps' : steps'[i].listed
<1>1. /\ Len(steps) \in Nat /\ DOMAIN steps = 1..Len(steps) /\ DOMAIN steps' = DOMAIN steps
      /\ \A i \in DOMAIN steps : steps[i] \in StepRows /\ steps'[i] = [steps[i] EXCEPT !.listed = TRUE]
  BY DEF Listed
<1>2. ASSUME NEW i \in DOMAIN steps
      PROVE  /\ steps'[i] \in StepRows /\ steps'[i].listed
             /\ OwnName(steps'[i]) <=> OwnName(steps[i])
             /\ Names(steps'[i]) <=> Names(steps[i])
             /\ TurnOfStep(steps'[i]) = TurnOfStep(steps[i])
             /\ \A place : Placed(steps'[i], place) <=> Placed(steps[i], place)
  <2>1. PICK old \in StepRows : old = steps[i] BY <1>1
  <2>2. PICK new \in StepRows : new = [old EXCEPT !.listed = TRUE] BY DEF StepRows
  <2>3. /\ new.type = old.type /\ new.name = old.name /\ new.meta = old.meta /\ new.turn = old.turn
        /\ new.listed
    BY <2>2 DEF StepRows
  <2>4. steps'[i] = new BY <1>1, <2>1, <2>2
  <2> QED BY <2>1, <2>3, <2>4 DEF OwnName, Names, TurnOfStep, Placed, IsFatal
<1>3. steps' \in Seq(StepRows)
  <2>1. steps' = [i \in 1..Len(steps) |-> steps'[i]] BY <1>1 DEF Listed
  <2> QED BY <1>1, <1>2, <2>1
<1>4. DecisionsInv'
  <2>1. \A i \in DOMAIN steps' : OwnName(steps'[i]) BY <1>1, <1>2 DEF DecisionsInv
  <2> QED BY <2>1 DEF DecisionsInv, OwnName
<1>5. ASSUME shown PROVE RowsPlaced'
  <2>1. ASSUME NEW i \in DOMAIN steps' PROVE Placed(steps'[i], Place(i)')
    <3>1. i \in Nat /\ \A j \in 1..i : j \in DOMAIN steps BY <1>1
    <3>2. PlaceIn(steps', i) = PlaceIn(steps, i) BY <1>2, <3>1, PlaceOfSame
    <3>3. Placed(steps[i], PlaceIn(steps, i)) BY <1>1, <1>5, PlaceIsIn DEF RowsPlaced
    <3> QED BY <1>1, <1>2, <3>2, <3>3, PlaceIsIn
  <2> QED BY <2>1 DEF RowsPlaced, Placed, IsFatal
<1> QED BY <1>1, <1>2, <1>3, <1>4, <1>5

LEMMA FirstUnlinked ==
    ASSUME steps \in Seq(StepRows), steps # <<>>, \A i \in DOMAIN steps : steps[i].listed
    PROVE  Unlinked(steps) = Tail(steps)
<1>1. Len(steps) \in Nat \ {0} /\ DOMAIN steps = 1..Len(steps) OBVIOUS
<1>2. ListedIn(steps) = 1..Len(steps) BY <1>1 DEF ListedIn
<1> DEFINE first == CHOOSE i \in ListedIn(steps) : \A j \in ListedIn(steps) : i <= j
<1>3. first = 1
  <2>1. 1 \in ListedIn(steps) /\ \A j \in ListedIn(steps) : 1 <= j BY <1>1, <1>2
  <2>2. first \in ListedIn(steps) /\ \A j \in ListedIn(steps) : first <= j BY <2>1
  <2>3. first <= 1 /\ 1 <= first BY <2>1, <2>2
  <2>4. first \in Nat BY <1>1, <1>2, <2>2
  <2> QED BY <2>3, <2>4
<1>4. Unlinked(steps) = SubSeq(steps, 1, 0) \o SubSeq(steps, 2, Len(steps))
  <2>1. Unlinked(steps) = SubSeq(steps, 1, first - 1) \o SubSeq(steps, first + 1, Len(steps)) BY DEF Unlinked
  <2> HIDE DEF first
  <2>2. first - 1 = 0 /\ first + 1 = 2 BY <1>3
  <2> QED BY <2>1, <2>2
<1>5. SubSeq(steps, 1, 0) = <<>> /\ SubSeq(steps, 2, Len(steps)) = Tail(steps) BY <1>1
<1>6. Tail(steps) \in Seq(StepRows) BY <1>1
<1> QED BY <1>4, <1>5, <1>6

LEMMA RowsUnlinked ==
    ASSUME steps \in Seq(StepRows), steps # <<>>, \A i \in DOMAIN steps : steps[i].listed,
           steps' = Unlinked(steps), DecisionsInv, NEW shown \in BOOLEAN, shown => RowsPlaced
    PROVE  /\ steps' \in Seq(StepRows) /\ DecisionsInv' /\ (shown => RowsPlaced')
           /\ \A i \in DOMAIN steps' : steps'[i].listed
<1>1. steps' = Tail(steps) BY FirstUnlinked
<1>2. /\ Len(steps) \in Nat /\ DOMAIN steps = 1..Len(steps) /\ DOMAIN steps' = 1..(Len(steps) - 1)
      /\ \A i \in DOMAIN steps' : i + 1 \in DOMAIN steps /\ steps'[i] = steps[i + 1]
      /\ steps' \in Seq(StepRows)
  BY <1>1
<1>3. DecisionsInv'
  <2>1. \A i \in DOMAIN steps' : OwnName(steps'[i]) BY <1>2 DEF DecisionsInv
  <2> QED BY <2>1 DEF DecisionsInv, OwnName
<1>4. ASSUME shown PROVE RowsPlaced'
  <2>1. ASSUME NEW i \in DOMAIN steps' PROVE Placed(steps'[i], Place(i)')
    <3>1. i \in Nat /\ \A j \in 1..i : steps'[j] = steps[j + 1] BY <1>2
    <3>2. PlaceIn(steps', i) \in {None, PlaceIn(steps, i + 1)} BY <3>1, PlaceOfTail
    <3>3. Placed(steps[i + 1], PlaceIn(steps, i + 1)) BY <1>2, <1>4, PlaceIsIn DEF RowsPlaced
    <3>4. Placed(steps[i + 1], PlaceIn(steps', i)) BY <3>2, <3>3 DEF Placed
    <3> QED BY <1>2, <3>4, PlaceIsIn
  <2> QED BY <2>1 DEF RowsPlaced, Placed, IsFatal
<1> QED BY <1>2, <1>3, <1>4

\* Where a deletion has begun, no session starts.
LEMMA DeletionKept ==
    ASSUME DeletingInv, "deleted" \in disturbed, [TraceNext]_traceVars, "torn" \notin disturbed'
    PROVE  DeletingInv' /\ "deleted" \in disturbed'
<1> DEFINE shown == "hint" \notin disturbed
<1>0. /\ session # 0 /\ writing = "rest" /\ steps \in Seq(StepRows) /\ DecisionsInv
      /\ shown \in BOOLEAN /\ (shown => RowsPlaced)
      /\ deleting = "steps" => \A i \in DOMAIN steps : steps[i].listed
  BY DEF DeletingInv
<1>1. ~TraceWrites
  BY <1>0 DEF TraceWrites, Start, RecordContext, RecordPrompt, RecordResponse, StopDecides, ModelDecides,
       StopsBeforeActions, RecordDecisionArtifact, RecordAction, RecordCall, RecordResult, RecordDecisionError,
       ExecutionFails, NextTurnFollows, LoopEnds, RecordFeedback, RecordVerification, RecordRetry,
       SessionEnds, Fatal, Raises
<1>2. ~DeleteRun BY DEF DeleteRun
<1>3. CASE UnlinkArtifact \/ UnlinkRow \/ UNCHANGED traceVars
  <2>1. /\ UNCHANGED <<session, writing, steps, disturbed>>
        /\ deleting' = "steps" => deleting = "steps"
    BY <1>3 DEF UnlinkArtifact, UnlinkRow, traceVars
  <2>2. (RowsPlaced' <=> RowsPlaced) /\ (DecisionsInv' <=> DecisionsInv) BY <2>1, RowsSame
  <2> QED BY <1>0, <2>1, <2>2 DEF DeletingInv
<1>4. CASE ListSteps
  <2>1. steps' = Listed(steps) /\ UNCHANGED <<session, writing, disturbed>> BY <1>4 DEF ListSteps
  <2>2. /\ steps' \in Seq(StepRows) /\ DecisionsInv' /\ (shown => RowsPlaced')
        /\ \A i \in DOMAIN steps' : steps'[i].listed
    <3> HIDE DEF shown
    <3> QED BY <1>0, <2>1, RowsListed
  <2> QED BY <1>0, <2>1, <2>2 DEF DeletingInv
<1>5. CASE UnlinkStep
  <2>1. /\ steps' = Unlinked(steps) /\ UNCHANGED <<session, writing, disturbed>> /\ steps # <<>>
        /\ \A i \in DOMAIN steps : steps[i].listed
    BY <1>0, <1>5 DEF UnlinkStep, ListedIn
  <2>2. /\ steps' \in Seq(StepRows) /\ DecisionsInv' /\ (shown => RowsPlaced')
        /\ \A i \in DOMAIN steps' : steps'[i].listed
    <3> HIDE DEF shown
    <3> QED BY <1>0, <2>1, RowsUnlinked
  <2> QED BY <1>0, <2>1, <2>2 DEF DeletingInv
<1> QED BY <1>1, <1>2, <1>3, <1>4, <1>5 DEF TraceNext, TraceWrites

-----------------------------------------------------------------------------

LEMMA TraceInvAtFirst == TraceInit => TraceInv
<1> SUFFICES ASSUME TraceInit PROVE TraceInv OBVIOUS
<1>1. WritingInv BY TypesAtFirst, TurnsAtFirst, SessionsAtFirst, AnswersAtFirst DEF WritingInv
<1> QED BY <1>1 DEF TraceInit, TraceInv

LEMMA TraceInvKept == TraceInv /\ [TraceNext]_traceVars => TraceInv'
<1> SUFFICES ASSUME TraceInv, [TraceNext]_traceVars PROVE TraceInv' OBVIOUS
<1>1. CASE "deleted" \notin disturbed
  <2>1. TraceTypes /\ TurnInv /\ SessionInv /\ AnswerInv BY <1>1 DEF TraceInv, WritingInv
  <2>2. CASE [TraceWrites]_traceVars
    <3>1. WritingInv' BY <2>1, <2>2, TypesKept, TurnsKept, SessionsKept, AnswersKept DEF WritingInv
    <3>2. "deleted" \notin disturbed'
      <4>1. CASE UNCHANGED traceVars BY <1>1, <4>1 DEF traceVars
      <4>2. CASE TraceWrites
        <5>1. CASE Start BY <1>1, <5>1 DEF Start
        <5>2. CASE ModelDecides
          <6>1. PICK meta : Hinted(meta) BY <5>2 DEF ModelDecides
          <6> QED BY <1>1, <6>1 DEF Hinted
        <5>3. CASE RecordAction
          <6>1. PICK meta : Hinted(meta) BY <5>3 DEF RecordAction
          <6> QED BY <1>1, <6>1 DEF Hinted
        <5>4. CASE RecordResult
          <6>1. PICK meta : Hinted(meta) BY <5>4 DEF RecordResult
          <6> QED BY <1>1, <6>1 DEF Hinted
        <5>5. ASSUME ~Start, ~ModelDecides, ~RecordAction, ~RecordResult PROVE UNCHANGED disturbed
          BY <4>2, <5>5
             DEF TraceWrites, RecordContext, RecordPrompt, RecordResponse, StopDecides, StopsBeforeActions,
                 RecordDecisionArtifact, RecordCall, RecordDecisionError, NextTurnFollows, LoopEnds,
                 RecordFeedback, RecordVerification, RecordRetry, RecordObservation, SessionEnds, Fatal
        <5> QED BY <1>1, <5>1, <5>2, <5>3, <5>4, <5>5
      <4> QED BY <2>2, <4>1, <4>2
    <3> QED BY <3>1, <3>2 DEF TraceInv
  <2>3. CASE DeleteRun
    <3>1. /\ "deleted" \in disturbed' /\ deleting' = "artifacts" /\ UNCHANGED <<steps, session, writing>>
          /\ recorded /\ ("hint" \notin disturbed' => "hint" \notin disturbed)
          /\ "torn" \notin disturbed' => writing = "rest"
      BY <2>3 DEF DeleteRun
    <3>2. session # 0 BY <2>1, <3>1 DEF SessionInv, FirstInv
    <3>3. steps \in Seq(StepRows) /\ DecisionsInv /\ ("hint" \notin disturbed => RowsPlaced)
      BY <2>1 DEF TraceTypes, TurnInv, PlacesInv
    <3>4. (RowsPlaced' <=> RowsPlaced) /\ (DecisionsInv' <=> DecisionsInv) BY <3>1, RowsSame
    <3>5. "torn" \notin disturbed' => DeletingInv' BY <3>1, <3>2, <3>3, <3>4 DEF DeletingInv
    <3> QED BY <3>1, <3>5 DEF TraceInv
  <2>4. CASE UnlinkArtifact \/ ListSteps \/ UnlinkStep \/ UnlinkRow
    BY <2>1, <2>4 DEF UnlinkArtifact, ListSteps, UnlinkStep, UnlinkRow, TraceTypes
  <2> QED BY <2>2, <2>3, <2>4 DEF TraceNext, TraceWrites
<1>2. CASE "deleted" \in disturbed
  <2>1. "deleted" \in disturbed' /\ ("torn" \in disturbed => "torn" \in disturbed')
    BY <1>2 DEF TraceNext, Start, RecordContext, RecordPrompt, RecordResponse, StopDecides, ModelDecides, Hinted,
               StopsBeforeActions, RecordDecisionArtifact, RecordAction, RecordCall, RecordResult,
               RecordDecisionError, NextTurnFollows, LoopEnds, RecordFeedback, RecordVerification, RecordRetry,
               RecordObservation, SessionEnds, Fatal, DeleteRun, UnlinkArtifact, ListSteps, UnlinkStep, UnlinkRow,
               traceVars
  <2>2. ASSUME "torn" \notin disturbed' PROVE DeletingInv'
    <3>1. DeletingInv BY <1>2, <2>1, <2>2 DEF TraceInv
    <3> QED BY <1>2, <2>2, <3>1, DeletionKept
  <2> QED BY <2>1, <2>2 DEF TraceInv
<1> QED BY <1>1, <1>2

\* After any write of any sessions of a run, whatever was retried, repeated or
\* hinted, the rows are as TraceInv says: each step placed in the turn that
\* wrote it, each decision of the last session after the artifacts that led to
\* it, each result after its call; and while a deletion takes them file by file,
\* with no session at work, each step that is left is placed in its turn or
\* nowhere (TraceReplay; recorder.py, service.py:242-246).
THEOREM TraceIsInOrder == TraceSpec => []TraceInv
<1>1. TraceInit => TraceInv BY TraceInvAtFirst
<1>2. TraceInv /\ [TraceNext]_traceVars => TraceInv' BY TraceInvKept
<1> QED BY <1>1, <1>2, PTL DEF TraceSpec

\* The reader shows each step in the turn that wrote it, with any limits on
\* turns, actions, steps and sessions, also half way through a deletion, unless a
\* session writes beside it (recorder.py:208-247).
THEOREM TurnsAreRebuilt == TraceSpec => []StepsAreInTheirTurn
<1>1. ASSUME TraceInv PROVE StepsAreInTheirTurn
  <2>1. CASE "torn" \in disturbed BY <2>1 DEF StepsAreInTheirTurn
  <2>2. CASE "torn" \notin disturbed
    <3>1. steps \in Seq(StepRows) /\ DecisionsInv /\ ("hint" \notin disturbed => RowsPlaced)
      BY <1>1, <2>2 DEF TraceInv, WritingInv, DeletingInv, TraceTypes, TurnInv, PlacesInv
    <3> QED BY <3>1, TurnsAreShown
  <2> QED BY <2>1, <2>2
<1> QED BY <1>1, TraceIsInOrder, PTL

\* The reader shows each decision of the last session with its context and, if
\* the model made it, with the prompt and the response of this session, until
\* the run is deleted (recorder.py:249-261, service.py:118-224).
THEOREM LastSessionIsRebuilt == TraceSpec => []LastSessionIsShown
<1>1. ASSUME TraceInv PROVE LastSessionIsShown
  <2>1. CASE "deleted" \in disturbed BY <2>1 DEF LastSessionIsShown
  <2>2. CASE "deleted" \notin disturbed BY <1>1, <2>2, SessionsAreShown DEF TraceInv, WritingInv
  <2> QED BY <2>1, <2>2
<1> QED BY <1>1, TraceIsInOrder, PTL

\* The reader shows the results of a turn in the order of the calls that they
\* answer, and at most one call too many (capability_executor.py:72-163).
THEOREM ResultsArePaired == TraceSpec => []ResultsAnswerCalls
<1>1. ASSUME TraceInv PROVE ResultsAnswerCalls
  <2>1. CASE "deleted" \in disturbed BY <2>1 DEF ResultsAnswerCalls
  <2>2. CASE "deleted" \notin disturbed BY <1>1, <2>2, ResultsAnswer DEF TraceInv, WritingInv
  <2> QED BY <2>1, <2>2
<1> QED BY <1>1, TraceIsInOrder, PTL
=============================================================================
