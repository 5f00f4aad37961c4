----------------------------- MODULE Governance -----------------------------
(***************************************************************************)
(* One governance assessment of a partition (internal/knowledge/           *)
(* governance/): the frozen evidence, the deterministic proposal, the      *)
(* read-only runtime run that refines it, and the final gate.  Nothing is  *)
(* written here; the result is what the drain workflow goes on with.       *)
(*                                                                         *)
(* The runtime run is reduced to what governance reads of it: the calls of *)
(* governance.validate_candidate in their order, and how the run ends.     *)
(* Inputs of a call are composed by the language model, which may copy the *)
(* counts it was shown or write others.  A facet key is a number: its rank *)
(* among the names.  A schema is the list of its keys, in which nothing    *)
(* forbids a key to occur twice.                                           *)
(***************************************************************************)
EXTENDS Integers, Sequences, FiniteSets

CONSTANTS Keys,           \* facet and semantic keys, by lexical rank; none is
                          \* itself called "semantic_profile:..."
          FacetNamed,     \* of the keys called "facet:" and a key, that key
          Excluded,       \* keys never proposed: title, keywords, actions
          Evidences,      \* the frozen inputs an assessment may start from
          Written,        \* the schemas the language model may write
          MaxNewKeys,     \* SemanticKeyPromotionProposal.max_new_keys
          MaxUnobserved,  \* PartitionFitMetrics.max_unobserved_keys
          TopLimit,       \* entries of the statistics the model is shown
          MaxCalls,       \* max_skill_calls of the run: one per read skill
          NoSchema        \* no schema, or one that cannot be parsed

Counts == [Keys -> Nat]
Schemas == Seq(Keys)
Candidates == Written \cup {NoSchema}
KeysOf(schema) == {schema[i] : i \in DOMAIN schema}
Indexes == [present : BOOLEAN, cases : Nat, semantic : Counts, facet : Counts]
Plugins == {"promotion", "demotion"}
EvidenceType ==
    [cases : Nat, semantic : Counts, facet : Counts,   \* statistics snapshot
     index : Indexes,                                   \* materialized indexes
     current : Schemas, enabled : SUBSET Keys,          \* facet schema
     observed : SUBSET Keys,                            \* keys of the batch
     broken : SUBSET Plugins]                           \* plugins that raise

ASSUME GovernanceAssumption ==
    /\ Keys \subseteq Nat /\ IsFiniteSet(Keys)
    /\ Excluded \subseteq Keys
    /\ \E named \in SUBSET Keys : FacetNamed \in [named -> Keys]
    /\ Written \subseteq Schemas
    /\ Evidences \subseteq EvidenceType
    /\ MaxNewKeys \in Nat
    /\ MaxUnobserved \in 0..2
    /\ TopLimit \in Nat
    /\ MaxCalls \in Nat
    /\ NoSchema \notin Schemas

VARIABLES
    evidence,   \* what preparation froze at the beginning of the drain
    stage,      \* "assess", "runtime", "done"
    proposal,   \* suggested_new_keys and suggested_removed_keys
    calls,      \* executed calls of the validation skill
    report,     \* the latest validation report of the run
    attempted,  \* the latest parsable candidate among the recorded actions
    source,     \* what the result was taken from
    result      \* GovernanceResult: decision, accepted_schema

vars == <<evidence, stage, proposal, calls, report, attempted, source, result>>

NoReport == [made |-> FALSE, passed |-> FALSE, honest |-> FALSE, candidate |-> NoSchema]
NoResult == [decision |-> "none", schema |-> NoSchema]
Review == [decision |-> "requires_review", schema |-> NoSchema]
Accept(schema) == [decision |-> "accepted", schema |-> schema]
Keep(decision) == [decision |-> decision, schema |-> evidence.current]

Larger(a, b) == IF a >= b THEN a ELSE b
Support(cases) == Larger(2, (3 * cases) \div 10)     \* max(2, int(cases * 0.3))

-----------------------------------------------------------------------------
(* Preparation *)

\* A partition without statistics cannot contradict its index.
Consistency(e) ==
    IF e.cases = 0 THEN "unavailable"
    ELSE IF /\ e.index.present
            /\ e.index.cases \in {0, e.cases}
            /\ e.index.semantic = e.semantic
         THEN "consistent" ELSE "inconsistent"

\* Plugins take the statistics, and the index where those have no key at all.
Evidenced(stats, indexed) == IF \E k \in Keys : stats[k] > 0 THEN stats ELSE indexed
SemanticCounts(e) == Evidenced(e.semantic, e.index.semantic)
FacetCounts(e) == Evidenced(e.facet, e.index.facet)
CaseCount(e) == IF e.cases > 0 THEN e.cases ELSE e.index.cases

-----------------------------------------------------------------------------
(* Proposal *)

Promotable(e) ==
    {k \in Keys \ (e.enabled \cup Excluded) :
        CaseCount(e) > 0 /\ SemanticCounts(e)[k] >= Support(CaseCount(e))}

Stronger(counts, j, k) == counts[j] > counts[k] \/ (counts[j] = counts[k] /\ j < k)

\* The MaxNewKeys best supported of them, ties in lexical order.
Promoted(e) ==
    {k \in Promotable(e) :
        Cardinality({j \in Promotable(e) : Stronger(SemanticCounts(e), j, k)}) < MaxNewKeys}

Demoted(e) ==
    {k \in e.enabled \ e.observed : SemanticCounts(e)[k] = 0 /\ FacetCounts(e)[k] = 0}

Empty == [new |-> {}, removed |-> {}]

ProposeAlways(e) ==      \* mutant: contradictory evidence does not block the proposal
    [new |-> IF "promotion" \in e.broken THEN {} ELSE Promoted(e),
     removed |-> IF "demotion" \in e.broken THEN {} ELSE Demoted(e)]

Propose(e) ==
    IF Consistency(e) = "inconsistent" THEN Empty
    ELSE [new |-> IF "promotion" \in e.broken THEN {} ELSE Promoted(e),
          removed |-> IF "demotion" \in e.broken THEN {} ELSE Demoted(e)]

Effective(p) == p.new # {} \/ p.removed # {}

-----------------------------------------------------------------------------
(* Validation: the fit metrics, the only registered plugin *)

\* The entries of a schema, by their position: a key counts as often as it occurs.
Supported(schema, counts) == {i \in DOMAIN schema : counts[schema[i]] > 0}
WeakNew(schema, current, counts, cases) ==
    {k \in KeysOf(schema) \ KeysOf(current) : counts[k] < Support(cases)}
\* round(supported / keys, 2) >= 0.70: the quotient is at least 0.695.
Covered(schema, counts) == 200 * Cardinality(Supported(schema, counts)) >= 139 * Len(schema)

Fit(schema, current, counts, cases) ==
    /\ Covered(schema, counts)
    /\ Cardinality(DOMAIN schema \ Supported(schema, counts)) <= MaxUnobserved
    /\ WeakNew(schema, current, counts, cases) = {}

\* case_key_stats holds "semantic_profile:..." and "facet:..." entries side by
\* side and only the first prefix is taken off: a key that is itself called
\* "facet:..." is supported by the cases that have the facet.
Normalized(semantic, facet) ==
    [k \in Keys |-> IF k \in DOMAIN FacetNamed THEN Larger(semantic[k], facet[FacetNamed[k]])
                    ELSE semantic[k]]
Frozen(e) == Normalized(e.semantic, e.facet)

\* The request shows the TopLimit largest entries, "facet:..." before
\* "semantic_profile:..." where they are equal.
ShownMixed(e) ==      \* mutant: facet entries are taken for semantic ones
    [k \in Keys |-> Larger(e.semantic[k], e.facet[k])]

Top(counts, other, tie) ==
    [k \in Keys |->
        LET before == Cardinality({j \in Keys : counts[j] > 0 /\ Stronger(counts, j, k)})
                      + Cardinality({j \in Keys : other[j] > 0 /\ other[j] >= counts[k] + tie})
        IN IF before < TopLimit THEN counts[k] ELSE 0]

Shown(e) == Normalized(Top(e.semantic, e.facet, 0), Top(e.facet, e.semantic, 1))

-----------------------------------------------------------------------------
Init ==
    /\ evidence \in Evidences
    /\ stage = "assess"
    /\ proposal = Empty
    /\ calls = 0
    /\ report = NoReport
    /\ attempted = NoSchema
    /\ source = "none"
    /\ result = NoResult

\* assess_deterministic, in the order of its returns.
Base ==
    IF Consistency(evidence) = "inconsistent" THEN Review
    ELSE IF evidence.broken # {} THEN Review
    ELSE IF Effective(Propose(evidence)) THEN Review
    ELSE Keep("no_change")

\* assess_async: the agent is asked whenever there is an effective proposal.
Assess ==
    /\ stage = "assess"
    /\ proposal' = Propose(evidence)
    /\ IF Effective(proposal')
       THEN stage' = "runtime" /\ UNCHANGED <<source, result>>
       ELSE stage' = "done" /\ source' = "policy" /\ result' = Base
    /\ UNCHANGED <<evidence, calls, report, attempted>>

\* The trace keeps an action before its skill is executed.
Attempt(c) == attempted' = IF c = NoSchema THEN attempted ELSE c

\* The verdict on c: deterministic for the counts that were shown.  With other
\* counts, or a candidate that is no schema, the model gets what it gets.
Verdicts(c, honest) ==
    IF honest THEN {Fit(c, evidence.current, Shown(evidence), evidence.cases)} ELSE BOOLEAN

CallLeft == calls < MaxCalls

\* governance.validate_candidate is called and answers.
Validate(c, honest) ==
    /\ stage = "runtime" /\ CallLeft
    /\ honest => c # NoSchema
    /\ calls' = calls + 1
    /\ Attempt(c)
    /\ \E passed \in Verdicts(c, honest) :
          report' = [made |-> TRUE, passed |-> passed, honest |-> honest, candidate |-> c]
    /\ UNCHANGED <<evidence, stage, proposal, source, result>>

-----------------------------------------------------------------------------
(* The end of the run: GovernanceRuntimeAgent.decide and                   *)
(* GovernanceService._apply_runtime_decision, without an await in between  *)

Statuses == {"completed", "failed", "requires_review"}
\* Payloads of the final decision: complete ones carry their schema.
Outcomes == {"no_change", "accepted", "requires_review", "invalid"}

GateOpen(c) == Accept(c)      \* mutant: the final gate is gone

Gate(c) ==
    IF Fit(c, evidence.current, Frozen(evidence), evidence.cases) THEN Accept(c) ELSE Review

RejectedNever == FALSE      \* mutant: a failed validation is not authoritative
Rejected == report.made /\ ~report.passed
Recoverable(status, budgetStop, candidate) ==
    /\ report.made /\ report.passed
    /\ status # "completed" /\ budgetStop
    /\ candidate # NoSchema

\* status and budgetStop: how the run ended, and whether its summary speaks of
\* an exhausted budget; candidate: the latest candidate of its trace.
Decide(status, budgetStop, outcome, schema, candidate) ==
    /\ stage' = "done"
    /\ IF Rejected THEN source' = "rejection" /\ result' = Keep("accepted")
       ELSE IF Recoverable(status, budgetStop, candidate)
            THEN source' = "recovery" /\ result' = Gate(candidate)
       ELSE IF status # "completed" THEN source' = "run" /\ result' = Review
       ELSE /\ source' = "payload"
            /\ result' = CASE outcome = "no_change" -> Keep("accepted")
                           [] outcome = "accepted" /\ schema # NoSchema /\ report.made
                                -> Gate(schema)
                           [] OTHER -> Review

\* The model ends the run; only a completed one has a payload.
EndRun(status, budgetStop, outcome, schema) ==
    /\ stage = "runtime"
    /\ status # "completed" => outcome = "invalid"
    /\ outcome # "accepted" => schema = NoSchema
    /\ Decide(status, budgetStop, outcome, schema, attempted)
    /\ UNCHANGED <<evidence, proposal, calls, report, attempted>>

\* A further call: its action is recorded, the skill budget raises, the run fails.
CallOverBudget(c) ==
    /\ stage = "runtime" /\ ~CallLeft
    /\ Attempt(c)
    /\ Decide("failed", TRUE, "invalid", NoSchema, attempted')
    /\ UNCHANGED <<evidence, proposal, calls, report>>

\* The skill raises: its result is a report that did not pass, and the rest of
\* the run may follow.
SkillFails(c) ==
    /\ stage = "runtime" /\ CallLeft
    /\ calls' = calls + 1
    /\ Attempt(c)
    /\ report' = [made |-> TRUE, passed |-> FALSE, honest |-> FALSE, candidate |-> c]
    /\ UNCHANGED <<evidence, stage, proposal, source, result>>

\* run_request raises and the drain with it: there is no result.
RuntimeRaises ==
    /\ stage = "runtime"
    /\ stage' = "done" /\ source' = "exception"
    /\ UNCHANGED <<evidence, proposal, calls, report, attempted, result>>

Next ==
    \/ Assess
    \/ \E c \in Candidates, honest \in BOOLEAN : Validate(c, honest)
    \/ \E status \in Statuses, budgetStop \in BOOLEAN, outcome \in Outcomes,
          schema \in Candidates : EndRun(status, budgetStop, outcome, schema)
    \/ \E c \in Candidates : CallOverBudget(c) \/ SkillFails(c)
    \/ RuntimeRaises

Spec == Init /\ [][Next]_vars

-----------------------------------------------------------------------------
(* Properties *)

TypeOK ==
    /\ evidence \in EvidenceType
    /\ stage \in {"assess", "runtime", "done"}
    /\ proposal \in [new : SUBSET Keys, removed : SUBSET Keys]
    /\ calls \in 0..MaxCalls
    /\ report \in [made : BOOLEAN, passed : BOOLEAN, honest : BOOLEAN, candidate : Candidates]
    /\ attempted \in Candidates
    /\ source \in {"none", "policy", "rejection", "recovery", "run", "payload", "exception"}
    /\ result \in [decision : {"none", "accepted", "no_change", "requires_review"},
                   schema : Schemas \cup {NoSchema}]

Changed == result.schema \notin {NoSchema, evidence.current}

\* Whatever the model validated, wrote or forged: a schema other than the
\* current one is accepted only if the frozen statistics support 70 % of its
\* entries (unrounded: service.py:436 and fit_metrics.py:107 round), at most
\* MaxUnobserved entries have no support, and every key it adds occurs in at
\* least two cases and about three in ten.  Entries, not keys: a supported key
\* that is listed five times carries two keys of the current schema that no
\* case has any more (a finding); and a key that is called "facet:..." is
\* supported by the cases with that facet.
ChangeIsSupported ==
    Changed =>
        LET support == Frozen(evidence)
        IN  /\ 10 * Cardinality(Supported(result.schema, support)) >= 7 * Len(result.schema)
            /\ Cardinality(DOMAIN result.schema \ Supported(result.schema, support)) <= MaxUnobserved
            /\ \A k \in KeysOf(result.schema) \ KeysOf(evidence.current) :
                  support[k] >= 2 /\ 10 * (support[k] + 1) > 3 * evidence.cases

\* Statistics that contradict the materialized semantic index end in a review,
\* and no run of the model can turn that into an acceptance
\* (service.py:173-195).  The facet index is not compared (collector.py:196),
\* whatever docs/governance.md:24 says of both.
ContradictionIsReviewed ==
    stage = "done" /\ Consistency(evidence) = "inconsistent" => result = Review

\* A candidate whose last validation failed never changes the schema, however
\* the run ended and whatever its payload claims: the current schema stays in
\* force, without a review.  runtime_agent.py:74-92 means it so ("not an
\* unresolved manual-review condition"); docs/governance.md:239 promises a
\* review instead (a finding).
RejectionKeepsSchema ==
    stage = "done" /\ report.made /\ ~report.passed /\ source # "exception"
    => result = Accept(evidence.current)

\* What passed validation with the counts of the request, which are cut to the
\* largest entries of semantic and facet keys together, is not refused by the
\* final gate on the full statistics (runtime_agent.py:411, service.py:436).
HonestPassIsKept ==
    report.passed /\ report.honest => Gate(report.candidate) = Accept(report.candidate)

=============================================================================
