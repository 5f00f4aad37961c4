-------------------------- MODULE CaseStatistics --------------------------
(***************************************************************************)
(* The statistics and the indexes of one partition as functions of its     *)
(* cases: internal/knowledge/statistics (normaliser, aggregator, reader),  *)
(* internal/domain/partition/profile_builder and the facet projection of   *)
(* internal/domain/case/facet_resolver.  No state: CaseCatalog keeps the   *)
(* snapshots and calls these operators in the order of the handlers.       *)
(*                                                                         *)
(* A profile is a function from keys to sets of values, empty for a key    *)
(* that is absent or has no value: no function below tells the two apart.  *)
(***************************************************************************)
EXTENDS Integers, FiniteSets

CONSTANTS Ids,      \* case ids; natural numbers, in the order of their file names
          Keys,     \* keys of profiles and definitions, stripped
          Values,   \* values, stripped
          Fold,     \* str.casefold of a key
          Rank,     \* the position of a key in a profile's dictionary
          Text,     \* f"{key}:{value}", which two pairs may share
          Cap       \* list_by_partition(size=500)

ASSUME StatisticsAssumption ==
    /\ Ids \subseteq Nat /\ IsFiniteSet(Ids)
    /\ Fold \in [Keys -> Keys] /\ \A k \in Keys : Fold[Fold[k]] = Fold[k]
    /\ Rank \in [Keys -> Nat] /\ \A j, k \in Keys : Rank[j] = Rank[k] => j = k
    /\ Cap \in Nat \ {0}

Profiles == [Keys -> SUBSET Values]
Fields == {"facet", "semantic_profile"}
Empty == [k \in Keys |-> {}]
Entries == UNION {{Text[k][v] : v \in Values} : k \in Keys}

\* The values of a profile with their keys.
Pairs(profile) == {x \in [key : Keys, value : Values] : x.value \in profile[x.key]}

-----------------------------------------------------------------------------
(* Projection *)

LastOf(S) == CHOOSE i \in S : \A j \in S : j <= i

\* project_from_semantic_profile: enabled definitions take the values of their
\* own key; definitions whose keys fold together share the last one's key and
\* the values of the last of them that has any.
Project(profile, schema) ==
    [k \in Keys |->
        LET same == {i \in DOMAIN schema : schema[i].enabled /\ Fold[schema[i].key] = Fold[k]}
            full == {i \in same : profile[schema[i].key] # {}}
        IN  IF full # {} /\ schema[LastOf(same)].key = k
            THEN profile[schema[LastOf(full)].key] ELSE {}]

-----------------------------------------------------------------------------
(* Observations and snapshots *)

\* Keys that fold together collide: the last one with values remains.
Normalized(mapping) ==
    [k \in Keys |->
        LET full == {j \in Keys : Fold[j] = k /\ mapping[j] # {}}
        IN  IF full = {} THEN {}
            ELSE mapping[CHOOSE j \in full : \A i \in full : Rank[i] <= Rank[j]]]

Observation(doc) ==
    [facet |-> Normalized(doc.facets), semantic_profile |-> Normalized(doc.profile)]

\* CaseStatisticsSnapshot.  A count of zero is an entry that was popped.
Zero == [count   |-> 0,
         keys    |-> [f \in Fields |-> [k \in Keys |-> 0]],
         values  |-> [f \in Fields |-> [k \in Keys |-> [v \in Values |-> 0]]],
         support |-> [f \in Fields |-> [e \in Entries |-> {}]]]

Plus(n, holds) == IF holds THEN n + 1 ELSE n
Minus(n, holds) == IF holds /\ n > 0 THEN n - 1 ELSE n

\* The entries of the support index that a mapping touches.
TextsOf(mapping) == UNION {{Text[k][v] : v \in mapping[k]} : k \in Keys}

AddObservation(s, id, o) ==
    [count   |-> s.count + 1,
     keys    |-> [f \in Fields |-> [k \in Keys |-> Plus(s.keys[f][k], o[f][k] # {})]],
     values  |-> [f \in Fields |-> [k \in Keys |-> [v \in Values |->
                     Plus(s.values[f][k][v], v \in o[f][k])]]],
     support |-> [f \in Fields |-> LET texts == TextsOf(o[f]) IN [e \in Entries |->
                     IF e \in texts THEN s.support[f][e] \cup {id} ELSE s.support[f][e]]]]

\* Counts never go below zero: an observation that was never applied can be removed.
RemoveObservation(s, id, o) ==
    [count   |-> Minus(s.count, TRUE),
     keys    |-> [f \in Fields |-> [k \in Keys |-> Minus(s.keys[f][k], o[f][k] # {})]],
     values  |-> [f \in Fields |-> [k \in Keys |-> [v \in Values |->
                     Minus(s.values[f][k][v], v \in o[f][k])]]],
     support |-> [f \in Fields |-> LET texts == TextsOf(o[f]) IN [e \in Entries |->
                     IF e \in texts THEN s.support[f][e] \ {id} ELSE s.support[f][e]]]]

ReplaceOnly(s, id, old, new) == AddObservation(s, id, new)      \* mutant: the old observation stays

ReplaceObservation(s, id, old, new) == AddObservation(RemoveObservation(s, id, old), id, new)

\* Each case of a plan is replaced, here in the order of the ids.
Replacing(s, before, after, changes) ==
    LET upTo[n \in Nat] ==
            LET rest == IF n = 0 THEN s ELSE upTo[n - 1]
            IN  IF n \in changes
                THEN ReplaceObservation(rest, n, Observation(before[n]), Observation(after[n])) ELSE rest
    IN  upTo

ReplaceObservations(s, before, after, changes) ==
    IF changes = {} THEN s ELSE Replacing(s, before, after, changes)[LastOf(changes)]

\* find_supporting_cases with one condition; conditions on several are
\* combined by intersection (all) or union (any).
Supporting(s, field, key, vals) == UNION {s.support[field][Text[key][v]] : v \in vals}
SupportingAll(s, filters) ==
    {id \in Ids : filters # {} /\ \A q \in filters : id \in Supporting(s, q.field, q.key, q.values)}
SupportingAny(s, filters) ==
    UNION {Supporting(s, q.field, q.key, q.values) : q \in filters}

\* What the snapshot stands for: build over the observations of all cases.
Aggregate(docs, live) ==
    LET With(f, k, v) == {i \in live : v \in Observation(docs[i])[f][k]}
        Having(f, k) == {i \in live : Observation(docs[i])[f][k] # {}}
        Under(f, e) == {i \in live : \E k \in Keys : \E v \in Observation(docs[i])[f][k] : Text[k][v] = e}
    IN  [count   |-> Cardinality(live),
         keys    |-> [f \in Fields |-> [k \in Keys |-> Cardinality(Having(f, k))]],
         values  |-> [f \in Fields |-> [k \in Keys |-> [v \in Values |-> Cardinality(With(f, k, v))]]],
         support |-> [f \in Fields |-> [e \in Entries |-> Under(f, e)]]]

-----------------------------------------------------------------------------
(* Indexes *)

\* list_by_partition: the first Cap files.
Listed(live) == {i \in live : Cardinality({j \in live : j < i}) < Cap}

\* build_semantic_index_document and build_facet_index_document count the
\* listed cases by key; keys are stripped and not folded.
KeyCounts(docs, listed, field) ==
    [k \in Keys |-> Cardinality({i \in listed : docs[i][field][k] # {}})]
SemanticIndex(docs, live) ==
    [cases |-> Cardinality(Listed(live)), keys |-> KeyCounts(docs, Listed(live), "profile")]
FacetIndex(docs, live) ==
    [cases |-> Cardinality(Listed(live)), keys |-> KeyCounts(docs, Listed(live), "facets")]
NoIndex == [cases |-> 0, keys |-> [k \in Keys |-> 0]]
=============================================================================
