-------------------------- MODULE GovernanceProofs --------------------------
(***************************************************************************)
(* The properties of Governance for any keys, any statistics and any       *)
(* behaviour of the language model.  The argument has two parts: lemmas    *)
(* about the fit metrics (what a passing schema satisfies without the      *)
(* rounding, and that more support never makes it fail), and an invariant  *)
(* that ties the runtime run to a proposal, hence to evidence that does    *)
(* not contradict itself.                                                  *)
(***************************************************************************)
EXTENDS Governance, FiniteSetTheorems, TLAPS

-----------------------------------------------------------------------------
(* Fit metrics *)

\* The sizes of a schema and of its supported and unsupported entries.
LEMMA SchemaSizes ==
    ASSUME NEW schema \in Schemas, NEW counts \in Counts
    PROVE  /\ Len(schema) \in Nat
           /\ IsFiniteSet(Supported(schema, counts))
           /\ Cardinality(Supported(schema, counts)) \in Nat
           /\ Cardinality(DOMAIN schema \ Supported(schema, counts))
                = Len(schema) - Cardinality(Supported(schema, counts))
  <1> DEFINE S == Supported(schema, counts)
  <1>1. Len(schema) \in Nat /\ DOMAIN schema = 1..Len(schema)
    BY DEF Schemas
  <1>2. IsFiniteSet(DOMAIN schema) /\ Cardinality(DOMAIN schema) = Len(schema)
    <2>1. /\ IsFiniteSet(1..Len(schema))
          /\ Cardinality(1..Len(schema)) = IF 1 > Len(schema) THEN 0 ELSE Len(schema) - 1 + 1
      BY <1>1, FS_Interval
    <2> QED
      BY <1>1, <2>1
  <1>3. S \subseteq DOMAIN schema
    BY DEF Supported
  <1>4. IsFiniteSet(S)
    BY <1>2, <1>3, FS_Subset
  <1>5. DOMAIN schema \cap S = S
    BY <1>3
  <1>6. Cardinality(S) \in Nat
    BY <1>4, FS_CardinalityType
  <1>7. Cardinality(DOMAIN schema \ S) = Cardinality(DOMAIN schema) - Cardinality(DOMAIN schema \cap S)
    BY <1>2, <1>4, FS_Difference
  <1> QED
    BY <1>1, <1>2, <1>4, <1>5, <1>6, <1>7

\* The keys of a schema are keys, and counts are numbers.
LEMMA KeysAreCounted ==
    ASSUME NEW schema \in Schemas, NEW counts \in Counts
    PROVE  /\ KeysOf(schema) \subseteq Keys
           /\ \A i \in DOMAIN schema : schema[i] \in Keys
           /\ \A k \in Keys : counts[k] \in Nat
  BY DEF Schemas, Counts, KeysOf

\* At most two unsupported entries leave the rounding of the coverage no room: a
\* schema that passes at 0.695 also passes at 0.70.
LEMMA FitIsExact ==
    ASSUME NEW schema \in Schemas, NEW current \in Schemas, NEW counts \in Counts,
           NEW cases \in Nat, Fit(schema, current, counts, cases)
    PROVE  /\ 10 * Cardinality(Supported(schema, counts)) >= 7 * Len(schema)
           /\ Cardinality(DOMAIN schema \ Supported(schema, counts)) <= MaxUnobserved
           /\ \A k \in KeysOf(schema) \ KeysOf(current) :
                 counts[k] >= 2 /\ 10 * (counts[k] + 1) > 3 * cases
  <1> DEFINE n == Len(schema)
             s == Cardinality(Supported(schema, counts))
             u == Cardinality(DOMAIN schema \ Supported(schema, counts))
  <1>1. n \in Nat /\ s \in Nat /\ u = n - s
    BY SchemaSizes
  <1>2. 200 * s >= 139 * n /\ u <= 2
    <2>1. u <= MaxUnobserved
      BY DEF Fit
    <2>2. MaxUnobserved \in 0..2
      BY GovernanceAssumption
    <2>3. 200 * s >= 139 * n
      BY DEF Fit, Covered
    <2> QED
      BY <1>1, <2>1, <2>2, <2>3
  <1>3. 10 * s >= 7 * n
    <2> HIDE DEF n, s, u
    <2> QED
      BY <1>1, <1>2
  <1>4. ASSUME NEW k \in KeysOf(schema) \ KeysOf(current)
        PROVE  counts[k] >= 2 /\ 10 * (counts[k] + 1) > 3 * cases
    <2>1. k \in Keys /\ counts[k] \in Nat
      BY KeysAreCounted
    <2>2. ~(counts[k] < Support(cases))
      BY <1>4 DEF Fit, WeakNew
    <2>3. (3 * cases) \div 10 \in Nat
      OBVIOUS
    <2>4. counts[k] >= 2 /\ counts[k] >= (3 * cases) \div 10
      BY <2>1, <2>2, <2>3 DEF Support, Larger
    <2>5. 10 * ((3 * cases) \div 10) > 3 * cases - 10
      OBVIOUS
    <2> QED
      BY <2>1, <2>3, <2>4, <2>5
  <1> QED
    BY <1>3, <1>4 DEF Fit

\* Larger counts never make a passing schema fail.
LEMMA FitIsMonotone ==
    ASSUME NEW schema \in Schemas, NEW current \in Schemas, NEW cases \in Nat,
           NEW low \in Counts, NEW high \in Counts,
           \A k \in Keys : low[k] <= high[k],
           Fit(schema, current, low, cases)
    PROVE  Fit(schema, current, high, cases)
  <1> DEFINE n == Len(schema)
             sl == Cardinality(Supported(schema, low))
             sh == Cardinality(Supported(schema, high))
  <1>1. /\ n \in Nat /\ sl \in Nat /\ sh \in Nat
        /\ Cardinality(DOMAIN schema \ Supported(schema, low)) = n - sl
        /\ Cardinality(DOMAIN schema \ Supported(schema, high)) = n - sh
    BY SchemaSizes
  <1>2. /\ \A k \in Keys : low[k] \in Nat /\ high[k] \in Nat /\ low[k] <= high[k]
        /\ \A i \in DOMAIN schema : schema[i] \in Keys
        /\ KeysOf(schema) \subseteq Keys
    BY KeysAreCounted
  <1>3. sl <= sh
    <2>1. Supported(schema, low) \subseteq Supported(schema, high)
      BY <1>2 DEF Supported
    <2>2. IsFiniteSet(Supported(schema, high))
      BY SchemaSizes
    <2> QED
      BY <2>1, <2>2, FS_Subset
  <1>4. Covered(schema, high)
    <2>1. 200 * sl >= 139 * n
      BY DEF Fit, Covered
    <2>2. 200 * sh >= 139 * n
      <3> HIDE DEF n, sl, sh
      <3> QED
        BY <1>1, <1>3, <2>1
    <2> QED
      BY <2>2 DEF Covered
  <1>5. Cardinality(DOMAIN schema \ Supported(schema, high)) <= MaxUnobserved
    <2>1. n - sl <= MaxUnobserved
      BY <1>1 DEF Fit
    <2>2. MaxUnobserved \in Int
      BY GovernanceAssumption
    <2>3. n - sh <= MaxUnobserved
      <3> HIDE DEF n, sl, sh
      <3> QED
        BY <1>1, <1>3, <2>1, <2>2
    <2> QED
      BY <1>1, <2>3
  <1>6. WeakNew(schema, current, high, cases) = {}
    <2>1. Support(cases) \in Int
      BY DEF Support, Larger
    <2> QED
      BY <1>2, <2>1 DEF Fit, WeakNew
  <1> QED
    BY <1>4, <1>5, <1>6 DEF Fit

\* Taking the prefixes off keeps the order of counts.
LEMMA NormalizedIsMonotone ==
    ASSUME NEW sem \in Counts, NEW fac \in Counts, NEW lowSem \in Counts, NEW lowFac \in Counts,
           \A k \in Keys : lowSem[k] <= sem[k] /\ lowFac[k] <= fac[k]
    PROVE  /\ Normalized(sem, fac) \in Counts
           /\ Normalized(lowSem, lowFac) \in Counts
           /\ \A k \in Keys : Normalized(lowSem, lowFac)[k] <= Normalized(sem, fac)[k]
  <1>1. \A k \in DOMAIN FacetNamed : k \in Keys => FacetNamed[k] \in Keys
    BY GovernanceAssumption
  <1>2. \A k \in Keys : /\ sem[k] \in Nat /\ fac[k] \in Nat
                        /\ lowSem[k] \in Nat /\ lowFac[k] \in Nat
    BY DEF Counts
  <1>3. \A k \in Keys : /\ Normalized(sem, fac)[k] \in Nat
                        /\ Normalized(lowSem, lowFac)[k] \in Nat
                        /\ Normalized(lowSem, lowFac)[k] <= Normalized(sem, fac)[k]
    <2> TAKE k \in Keys
    <2>1. CASE k \in DOMAIN FacetNamed
      <3>1. FacetNamed[k] \in Keys
        BY <1>1, <2>1
      <3>2. /\ Normalized(sem, fac)[k] = Larger(sem[k], fac[FacetNamed[k]])
            /\ Normalized(lowSem, lowFac)[k] = Larger(lowSem[k], lowFac[FacetNamed[k]])
        BY <2>1 DEF Normalized
      <3> QED
        BY <1>2, <3>1, <3>2 DEF Larger
    <2>2. CASE k \notin DOMAIN FacetNamed
      BY <1>2, <2>2 DEF Normalized
    <2> QED
      BY <2>1, <2>2
  <1>4. /\ Normalized(sem, fac) = [k \in Keys |-> Normalized(sem, fac)[k]]
        /\ Normalized(lowSem, lowFac) = [k \in Keys |-> Normalized(lowSem, lowFac)[k]]
    BY DEF Normalized
  <1> QED
    BY <1>3, <1>4 DEF Counts

\* The entries a request shows are the frozen ones or zero.
LEMMA TopIsLower ==
    ASSUME NEW counts \in Counts, NEW other \in Counts, NEW tie
    PROVE  /\ Top(counts, other, tie) \in Counts
           /\ \A k \in Keys : Top(counts, other, tie)[k] <= counts[k]
  <1>1. \A k \in Keys : counts[k] \in Nat
    BY DEF Counts
  <1>2. \A k \in Keys : Top(counts, other, tie)[k] \in {0, counts[k]}
    BY DEF Top
  <1>3. Top(counts, other, tie) = [k \in Keys |-> Top(counts, other, tie)[k]]
    BY DEF Top
  <1>4. \A k \in Keys : Top(counts, other, tie)[k] \in Nat /\ Top(counts, other, tie)[k] <= counts[k]
    BY <1>1, <1>2
  <1> QED
    BY <1>3, <1>4 DEF Counts

\* The counts a request shows are no larger than the frozen ones.
LEMMA ShownIsLower ==
    ASSUME NEW e \in EvidenceType
    PROVE  /\ Shown(e) \in Counts
           /\ Frozen(e) \in Counts
           /\ \A k \in Keys : Shown(e)[k] <= Frozen(e)[k]
  <1>1. e.semantic \in Counts /\ e.facet \in Counts
    BY DEF EvidenceType
  <1>2. /\ Top(e.semantic, e.facet, 0) \in Counts
        /\ Top(e.facet, e.semantic, 1) \in Counts
        /\ \A k \in Keys : /\ Top(e.semantic, e.facet, 0)[k] <= e.semantic[k]
                           /\ Top(e.facet, e.semantic, 1)[k] <= e.facet[k]
    BY <1>1, TopIsLower
  <1> QED
    BY <1>1, <1>2, NormalizedIsMonotone DEF Shown, Frozen

\* What the model may write is a schema or none.
LEMMA CandidatesAreSchemas == \A c \in Candidates : c = NoSchema \/ c \in Schemas
  BY GovernanceAssumption DEF Candidates

\* What ChangeIsSupported says of a changed schema.
Supports(schema) ==
    /\ 10 * Cardinality(Supported(schema, Frozen(evidence))) >= 7 * Len(schema)
    /\ Cardinality(DOMAIN schema \ Supported(schema, Frozen(evidence))) <= MaxUnobserved
    /\ \A k \in KeysOf(schema) \ KeysOf(evidence.current) :
          Frozen(evidence)[k] >= 2 /\ 10 * (Frozen(evidence)[k] + 1) > 3 * evidence.cases

\* An accepted schema that is not the current one went through the gate.
LEMMA GateSupports ==
    ASSUME TypeOK, NEW c \in Schemas
    PROVE  /\ Gate(c) \in [decision : {"none", "accepted", "no_change", "requires_review"},
                           schema : Schemas \cup {NoSchema}]
           /\ Gate(c).schema # NoSchema => Supports(Gate(c).schema)
  <1>1. /\ Frozen(evidence) \in Counts /\ evidence.cases \in Nat
        /\ evidence.current \in Schemas
    BY ShownIsLower DEF TypeOK, EvidenceType
  <1>2. CASE Fit(c, evidence.current, Frozen(evidence), evidence.cases)
    <2>1. Gate(c) = Accept(c)
      BY <1>2 DEF Gate
    <2>2. Gate(c).schema = c
      BY <2>1 DEF Accept
    <2>3. Gate(c) \in [decision : {"none", "accepted", "no_change", "requires_review"},
                       schema : Schemas \cup {NoSchema}]
      BY <2>1 DEF Accept, Candidates
    <2> QED
      BY <1>1, <1>2, <2>2, <2>3, FitIsExact DEF Supports
  <1>3. CASE ~Fit(c, evidence.current, Frozen(evidence), evidence.cases)
    BY <1>3 DEF Gate, Review, Candidates
  <1> QED
    BY <1>2, <1>3

-----------------------------------------------------------------------------
(* The invariant *)

\* A run is under way only for an effective proposal, which contradictory
\* evidence never yields.
RunHasProposal ==
    /\ stage = "assess" => result = NoResult /\ report = NoReport
    /\ stage = "runtime" => result = NoResult /\ Consistency(evidence) # "inconsistent"

\* An honest report that passed is the fit of its candidate to the shown counts.
Passing(c, e) == c \in Schemas /\ Fit(c, e.current, Shown(e), e.cases)

HonestReport ==
    report.passed /\ report.honest =>
        \A c, e : c = report.candidate /\ e = evidence => Passing(c, e)

IInv == /\ TypeOK
        /\ RunHasProposal
        /\ HonestReport
        /\ ChangeIsSupported
        /\ ContradictionIsReviewed
        /\ RejectionKeepsSchema

\* What the initial states satisfy.
LEMMA InitInvariant == Init => IInv
  <1> SUFFICES ASSUME Init PROVE IInv
    OBVIOUS
  <1> USE DEF Init
  <1>1. TypeOK
    BY GovernanceAssumption DEF TypeOK, Empty, NoReport, NoResult, Candidates
  <1>2. RunHasProposal /\ HonestReport /\ ChangeIsSupported
    BY DEF RunHasProposal, HonestReport, ChangeIsSupported, Changed, NoResult, NoReport
  <1>3. ContradictionIsReviewed /\ RejectionKeepsSchema
    BY DEF ContradictionIsReviewed, RejectionKeepsSchema
  <1> QED
    BY <1>1, <1>2, <1>3 DEF IInv

\* Results that keep the schema or ask for a review change nothing.
LEMMA KeptIsSupported ==
    ASSUME TypeOK, evidence' = evidence, NEW d,
           result' = Keep(d) \/ result' = Review \/ result' = NoResult
    PROVE  ChangeIsSupported'
  <1>1. result'.schema \in {NoSchema, evidence'.current}
    BY DEF Keep, Review, NoResult
  <1> QED
    BY <1>1 DEF ChangeIsSupported, Changed

\* The proposal is a pair of key sets.
LEMMA ProposalType ==
    ASSUME NEW e \in EvidenceType
    PROVE  Propose(e) \in [new : SUBSET Keys, removed : SUBSET Keys]
  <1>1. Promoted(e) \subseteq Keys
    BY DEF Promoted, Promotable
  <1>2. Demoted(e) \subseteq Keys
    BY DEF Demoted, EvidenceType, Schemas
  <1> QED
    BY <1>1, <1>2 DEF Propose, Empty

LEMMA AssessKeeps == IInv /\ Assess => IInv'
  <1> SUFFICES ASSUME IInv, Assess PROVE IInv'
    OBVIOUS
  <1> USE DEF IInv, Assess
  <1>1. evidence \in EvidenceType /\ result = NoResult /\ report = NoReport
    BY DEF TypeOK, RunHasProposal
  <1>2. proposal' = Propose(evidence)
    OBVIOUS
  <1>3. CASE Effective(proposal')
    <2>1. stage' = "runtime" /\ source' = source /\ result' = result
      BY <1>3
    <2>2. Consistency(evidence) # "inconsistent"
      BY <1>2, <1>3 DEF Propose, Empty, Effective
    <2>3. TypeOK'
      BY <1>1, <1>2, <2>1, ProposalType DEF TypeOK
    <2>4. RunHasProposal' /\ HonestReport'
      BY <1>1, <2>1, <2>2 DEF RunHasProposal, HonestReport, Consistency, NoReport
    <2>5. ChangeIsSupported'
      BY <1>1, <2>1, KeptIsSupported
    <2>6. ContradictionIsReviewed' /\ RejectionKeepsSchema'
      BY <2>1 DEF ContradictionIsReviewed, RejectionKeepsSchema
    <2> QED
      BY <2>3, <2>4, <2>5, <2>6
  <1>4. CASE ~Effective(proposal')
    <2>1. stage' = "done" /\ source' = "policy" /\ result' = Base
      BY <1>4
    <2>2. Base = Review \/ Base = Keep("no_change")
      BY DEF Base
    <2>3. Review \in [decision : {"none", "accepted", "no_change", "requires_review"},
                      schema : Schemas \cup {NoSchema}]
      BY DEF Review, Candidates
    <2>4. Keep("no_change") \in [decision : {"none", "accepted", "no_change", "requires_review"},
                                 schema : Schemas \cup {NoSchema}]
      BY <1>1 DEF Keep, Candidates, EvidenceType
    <2>5. TypeOK'
      BY <1>1, <1>2, <2>1, <2>2, <2>3, <2>4, ProposalType DEF TypeOK
    <2>6. RunHasProposal' /\ HonestReport'
      BY <1>1, <2>1 DEF RunHasProposal, HonestReport, NoReport
    <2>7. ChangeIsSupported'
      BY <2>1, <2>2, KeptIsSupported
    <2>8. ContradictionIsReviewed'
      BY <2>1 DEF ContradictionIsReviewed, Base, Consistency
    <2>9. RejectionKeepsSchema'
      BY <1>1 DEF RejectionKeepsSchema, NoReport
    <2> QED
      BY <2>5, <2>6, <2>7, <2>8, <2>9
  <1> QED
    BY <1>3, <1>4

LEMMA ValidateKeeps ==
    ASSUME IInv, NEW c \in Candidates, NEW honest \in BOOLEAN, Validate(c, honest)
    PROVE  IInv'
  <1> USE DEF IInv, Validate
  <1>1. PICK passed \in Verdicts(c, honest) :
           report' = [made |-> TRUE, passed |-> passed, honest |-> honest, candidate |-> c]
    OBVIOUS
  <1>2. passed \in BOOLEAN
    BY DEF Verdicts, Fit
  <1>3. calls' \in 0..MaxCalls
    BY GovernanceAssumption DEF TypeOK, CallLeft
  <1>4. attempted' \in Candidates
    BY DEF TypeOK, Attempt
  <1>5. report' \in [made : BOOLEAN, passed : BOOLEAN, honest : BOOLEAN, candidate : Candidates]
    BY <1>1, <1>2
  <1>6. TypeOK'
    BY <1>3, <1>4, <1>5 DEF TypeOK
  <1>7. RunHasProposal'
    BY DEF RunHasProposal, Consistency
  <1>8. HonestReport'
    <2> SUFFICES ASSUME honest, passed PROVE Passing(c, evidence)
      BY <1>1 DEF HonestReport
    <2>1. passed = Fit(c, evidence.current, Shown(evidence), evidence.cases)
      BY DEF Verdicts
    <2> QED
      BY <2>1, CandidatesAreSchemas DEF Passing
  <1>9. ChangeIsSupported'
    BY KeptIsSupported DEF RunHasProposal
  <1>10. ContradictionIsReviewed' /\ RejectionKeepsSchema'
    BY DEF ContradictionIsReviewed, RejectionKeepsSchema
  <1> QED
    BY <1>6, <1>7, <1>8, <1>9, <1>10

\* What follows from the decision, for the run as it stands after its last step.
LEMMA DecideKeeps ==
    ASSUME IInv, stage = "runtime",
           NEW status \in Statuses, NEW budgetStop \in BOOLEAN, NEW outcome \in Outcomes,
           NEW schema \in Candidates, NEW candidate \in Candidates,
           Decide(status, budgetStop, outcome, schema, candidate),
           attempted' \in Candidates,
           UNCHANGED <<evidence, proposal, calls, report>>
    PROVE  IInv'
  <1> USE DEF IInv
  <1>1. /\ stage' = "done" /\ Consistency(evidence) # "inconsistent"
        /\ evidence.current \in Schemas
    BY DEF Decide, RunHasProposal, TypeOK, EvidenceType
  <1> DEFINE Results == [decision : {"none", "accepted", "no_change", "requires_review"},
                         schema : Schemas \cup {NoSchema}]
  <1>2. Keep("accepted") \in Results /\ Review \in Results
    BY <1>1 DEF Keep, Review, Candidates
  <1>3. \/ /\ Rejected /\ source' = "rejection" /\ result' = Keep("accepted")
        \/ /\ ~Rejected /\ source' \in {"recovery", "run", "payload"}
           /\ \/ result' \in {Keep("accepted"), Review}
              \/ \E c \in Schemas : result' = Gate(c)
    <2>1. CASE Rejected
      BY <2>1 DEF Decide
    <2>2. CASE ~Rejected /\ Recoverable(status, budgetStop, candidate)
      <3>1. source' = "recovery" /\ result' = Gate(candidate)
        BY <2>2 DEF Decide
      <3>2. candidate \in Schemas
        BY <2>2, CandidatesAreSchemas DEF Recoverable
      <3> QED
        BY <2>2, <3>1, <3>2
    <2>3. CASE ~Rejected /\ ~Recoverable(status, budgetStop, candidate) /\ status # "completed"
      BY <2>3 DEF Decide
    <2>4. CASE ~Rejected /\ ~Recoverable(status, budgetStop, candidate) /\ status = "completed"
      <3>1. source' = "payload"
        BY <2>4 DEF Decide
      <3>2. CASE outcome = "no_change"
        BY <2>4, <3>1, <3>2 DEF Decide
      <3>3. CASE outcome = "accepted" /\ schema # NoSchema /\ report.made
        <4>1. result' = Gate(schema)
          BY <2>4, <3>3 DEF Decide
        <4>2. schema \in Schemas
          BY <3>3, CandidatesAreSchemas
        <4> QED
          BY <2>4, <3>1, <4>1, <4>2
      <3>4. CASE /\ outcome # "no_change"
                 /\ ~(outcome = "accepted" /\ schema # NoSchema /\ report.made)
        BY <2>4, <3>1, <3>4 DEF Decide
      <3> QED
        BY <3>2, <3>3, <3>4
    <2> QED
      BY <2>1, <2>2, <2>3, <2>4
  <1>4. result' \in Results
    BY <1>2, <1>3, GateSupports
  <1>5. TypeOK'
    BY <1>1, <1>3, <1>4 DEF TypeOK
  <1>6. RunHasProposal'
    BY <1>1 DEF RunHasProposal
  <1>7. HonestReport'
    BY DEF HonestReport
  <1>8. ChangeIsSupported'
    <2>1. CASE result' \in {Keep("accepted"), Review}
      BY <2>1, KeptIsSupported
    <2>2. CASE \E c \in Schemas : result' = Gate(c)
      <3>1. PICK c \in Schemas : result' = Gate(c)
        BY <2>2
      <3>2. result'.schema # NoSchema => Supports(result'.schema)
        BY <3>1, GateSupports
      <3> QED
        BY <3>2 DEF ChangeIsSupported, Changed, Supports, Supported, Frozen, Normalized, KeysOf
    <2> QED
      BY <1>3, <2>1, <2>2
  <1>9. ContradictionIsReviewed'
    BY <1>1 DEF ContradictionIsReviewed, Consistency
  <1>10. RejectionKeepsSchema'
    BY <1>3 DEF RejectionKeepsSchema, Rejected, Keep, Accept
  <1> QED
    BY <1>5, <1>6, <1>7, <1>8, <1>9, <1>10

LEMMA EndRunKeeps ==
    ASSUME IInv, NEW status \in Statuses, NEW budgetStop \in BOOLEAN,
           NEW outcome \in Outcomes, NEW schema \in Candidates,
           EndRun(status, budgetStop, outcome, schema)
    PROVE  IInv'
  <1>1. attempted \in Candidates
    BY DEF IInv, TypeOK
  <1> QED
    BY <1>1, DecideKeeps DEF EndRun

LEMMA CallOverBudgetKeeps ==
    ASSUME IInv, NEW c \in Candidates, CallOverBudget(c)
    PROVE  IInv'
  <1>1. attempted' \in Candidates
    BY DEF IInv, TypeOK, CallOverBudget, Attempt
  <1>2. "failed" \in Statuses /\ TRUE \in BOOLEAN /\ "invalid" \in Outcomes
        /\ NoSchema \in Candidates
    BY DEF Statuses, Outcomes, Candidates
  <1> QED
    BY <1>1, <1>2, DecideKeeps DEF CallOverBudget

LEMMA SkillFailsKeeps ==
    ASSUME IInv, NEW c \in Candidates, SkillFails(c)
    PROVE  IInv'
  <1> USE DEF IInv, SkillFails
  <1>1. report' \in [made : BOOLEAN, passed : BOOLEAN, honest : BOOLEAN, candidate : Candidates]
    OBVIOUS
  <1>2. calls' \in 0..MaxCalls /\ attempted' \in Candidates
    BY GovernanceAssumption DEF TypeOK, CallLeft, Attempt
  <1>3. TypeOK'
    BY <1>1, <1>2 DEF TypeOK
  <1>4. RunHasProposal' /\ HonestReport'
    BY DEF RunHasProposal, HonestReport, Consistency
  <1>5. ChangeIsSupported'
    BY KeptIsSupported DEF RunHasProposal
  <1>6. ContradictionIsReviewed' /\ RejectionKeepsSchema'
    BY DEF ContradictionIsReviewed, RejectionKeepsSchema
  <1> QED
    BY <1>3, <1>4, <1>5, <1>6

LEMMA RuntimeRaisesKeeps == IInv /\ RuntimeRaises => IInv'
  <1> SUFFICES ASSUME IInv, RuntimeRaises PROVE IInv'
    OBVIOUS
  <1> USE DEF IInv, RuntimeRaises
  <1>1. TypeOK'
    BY DEF TypeOK
  <1>2. RunHasProposal'
    BY DEF RunHasProposal
  <1>3. HonestReport'
    BY DEF HonestReport
  <1>4. ChangeIsSupported'
    BY KeptIsSupported DEF RunHasProposal
  <1>5. ContradictionIsReviewed' /\ RejectionKeepsSchema'
    BY DEF RunHasProposal, ContradictionIsReviewed, RejectionKeepsSchema, Consistency
  <1> QED
    BY <1>1, <1>2, <1>3, <1>4, <1>5

LEMMA StepKeeps == IInv /\ [Next]_vars => IInv'
  <1> SUFFICES ASSUME IInv, [Next]_vars PROVE IInv'
    OBVIOUS
  <1>1. CASE Assess
    BY <1>1, AssessKeeps
  <1>2. CASE \E c \in Candidates, honest \in BOOLEAN : Validate(c, honest)
    BY <1>2, ValidateKeeps
  <1>3. CASE \E status \in Statuses, budgetStop \in BOOLEAN, outcome \in Outcomes,
               schema \in Candidates : EndRun(status, budgetStop, outcome, schema)
    BY <1>3, EndRunKeeps
  <1>4. CASE \E c \in Candidates : CallOverBudget(c) \/ SkillFails(c)
    BY <1>4, CallOverBudgetKeeps, SkillFailsKeeps
  <1>5. CASE RuntimeRaises
    BY <1>5, RuntimeRaisesKeeps
  <1>6. CASE UNCHANGED vars
    <2> USE <1>6 DEF vars, IInv
    <2>1. TypeOK' /\ RunHasProposal'
      BY DEF TypeOK, RunHasProposal, Consistency
    <2>2. HonestReport'
      BY DEF HonestReport
    <2>3. ChangeIsSupported'
      BY DEF ChangeIsSupported, Changed, Supported, Frozen, Normalized, KeysOf
    <2>4. ContradictionIsReviewed' /\ RejectionKeepsSchema'
      BY DEF ContradictionIsReviewed, RejectionKeepsSchema, Consistency
    <2> QED
      BY <2>1, <2>2, <2>3, <2>4
  <1> QED
    BY <1>1, <1>2, <1>3, <1>4, <1>5, <1>6 DEF Next

\* The strengthened invariant holds in every reachable state.
THEOREM Invariance == Spec => []IInv
  BY InitInvariant, StepKeeps, PTL DEF Spec

\* Every variable keeps its type, and calls stay within the skill budget.
THEOREM TypeCorrect == Spec => []TypeOK
  <1>1. IInv => TypeOK
    BY DEF IInv
  <1> QED
    BY <1>1, Invariance, PTL

\* For any statistics, keys and behaviour of the model, which may list a key more
\* than once: an accepted schema has the support that the policy asks for, entry
\* by entry and without its rounding.
THEOREM ChangeIsAlwaysSupported == Spec => []ChangeIsSupported
  <1>1. IInv => ChangeIsSupported
    BY DEF IInv
  <1> QED
    BY <1>1, Invariance, PTL

\* No run of the model turns contradictory evidence into an acceptance.
THEOREM ContradictionIsAlwaysReviewed == Spec => []ContradictionIsReviewed
  <1>1. IInv => ContradictionIsReviewed
    BY DEF IInv
  <1> QED
    BY <1>1, Invariance, PTL

\* A failed last validation keeps the current schema.
THEOREM RejectionAlwaysKeepsSchema == Spec => []RejectionKeepsSchema
  <1>1. IInv => RejectionKeepsSchema
    BY DEF IInv
  <1> QED
    BY <1>1, Invariance, PTL

\* Cutting the counts to the largest entries is on the safe side: what passes
\* with them passes the final gate.
THEOREM HonestPassIsAlwaysKept == Spec => []HonestPassIsKept
  <1>1. IInv => HonestPassIsKept
    <2> SUFFICES ASSUME IInv, report.passed, report.honest
                 PROVE  Gate(report.candidate) = Accept(report.candidate)
      BY DEF HonestPassIsKept
    <2>1. /\ report.candidate \in Schemas
          /\ Fit(report.candidate, evidence.current, Shown(evidence), evidence.cases)
      BY DEF IInv, HonestReport, Passing
    <2>2. evidence \in EvidenceType /\ evidence.current \in Schemas /\ evidence.cases \in Nat
      BY DEF IInv, TypeOK, EvidenceType
    <2>3. Fit(report.candidate, evidence.current, Frozen(evidence), evidence.cases)
      BY <2>1, <2>2, ShownIsLower, FitIsMonotone
    <2> QED
      BY <2>3 DEF Gate
  <1> QED
    BY <1>1, Invariance, PTL
=============================================================================
