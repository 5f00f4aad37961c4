----------------------------- MODULE CaseQuery -----------------------------
(***************************************************************************)
(* The read path of a query: the filters of the planner                    *)
(* (internal/product/query/planner), recall in the local case repository,  *)
(* the merge of its two branches (query/service) and the deterministic     *)
(* ranking (query/ranking).  Scores of the text and of the embedding are   *)
(* data of the model; what filters and ranks is the profile.               *)
(***************************************************************************)
EXTENDS CaseStatistics

CONSTANTS Lower,     \* str.lower of a value
          Slashed,   \* the keys and values that contain "/", which separates the parts of a filter
          Matched,   \* the key and the value that _match_facet_filters reads in a filter,
          Ranked,    \* and those that rerank_cases reads, in lower case (of a key, its folding)
          RecallSize \* of the request, not below its size

ASSUME QueryAssumption ==
    /\ Lower \in [Values -> Values] /\ \A v \in Values : Lower[Lower[v]] = Lower[v]
    /\ \A k \in Keys \ Slashed, v \in Values \ Slashed :
           /\ Matched[k][v] = [key |-> k, value |-> v]
           /\ Ranked[k][v] = [key |-> Fold[k], value |-> Lower[v]]
    /\ RecallSize \in Nat \ {0}

FiltersFolded(profile, schema) ==       \* mutant: the filter is lower-cased
    {f \in [key : Keys, value : Values] :
        /\ \E i \in DOMAIN schema : schema[i].key = f.key
        /\ \E v \in profile[f.key] : Lower[v] = f.value}

\* _build_facet_filters: every definition counts, enabled or not.  Values that
\* are equal in lower case give one filter, here the least of them in order.
Filters(profile, schema) ==
    {f \in [key : Keys, value : Values] :
        /\ \E i \in DOMAIN schema : schema[i].key = f.key
        /\ f.value \in profile[f.key]
        /\ f.value = CHOOSE v \in profile[f.key] : Lower[v] = Lower[f.value]}

\* _match_facet_filters splits a filter at "/" and takes its second and third
\* part: other ones than were meant, where the key or the value has a slash.
Passes(doc, filters) ==
    \A f \in filters :
        LET m == Matched[f.key][f.value] IN m.key \in Keys /\ m.value \in doc.facets[m.key]

\* _filter_documents
Passing(docs, live, filters) == {i \in live : Passes(docs[i], filters)}

\* A branch returns the best of the cases that it scored; which of equals goes
\* by the time of update or the name of the file.
Recalls(scored, score) ==
    {hits \in SUBSET scored :
        /\ Cardinality(hits) = IF Cardinality(scored) < RecallSize THEN Cardinality(scored) ELSE RecallSize
        /\ \A i \in hits, j \in scored \ hits : score[i] >= score[j]}

\* _merge_hits: lexical and vector are the scores of the cases that each branch
\* found; without an embedding the second one finds none.
Merged(lexical, vector) ==
    [i \in DOMAIN lexical \cup DOMAIN vector |->
        CHOOSE score \in ({lexical[j] : j \in DOMAIN lexical \cap {i}} \cup {vector[j] : j \in DOMAIN vector \cap {i}}) :
            /\ i \in DOMAIN lexical => lexical[i] <= score
            /\ i \in DOMAIN vector => vector[i] <= score]

LowerOf(profile) == {Lower[v] : v \in UNION {profile[k] : k \in Keys}}

\* rerank_cases, twice its scores: 2 per facet that a filter names, 1.5 per
\* value of the profile in common, and a bonus if the title (2) or the summary
\* (1.5) contains the text.
Bonuses == {0, 3, 4, 7}
FinalScore(doc, base, bonus, profile, filters) ==
    LET matches == {m \in [key : Keys, value : Values] :
                        /\ m.value \in doc.facets[m.key]
                        /\ \E f \in filters : Ranked[f.key][f.value] = [key |-> Fold[m.key], value |-> Lower[m.value]]}
    IN  2 * base + bonus + 4 * Cardinality(matches)
            + 3 * Cardinality(LowerOf(profile) \cap LowerOf(doc.profile))

\* execute: the size best hits; between equals the order of the merge decides,
\* so any choice of them.
IsAnswer(answer, docs, hits, bonus, profile, filters, size) ==
    LET score == [i \in DOMAIN hits |-> FinalScore(docs[i], hits[i], bonus[i], profile, filters)]
    IN  /\ answer \subseteq DOMAIN hits
        /\ Cardinality(answer) = IF Cardinality(DOMAIN hits) < size THEN Cardinality(DOMAIN hits) ELSE size
        /\ \A i \in answer, j \in DOMAIN hits \ answer : score[i] >= score[j]
=============================================================================
