---------------------------- MODULE CaseCatalog ----------------------------
(***************************************************************************)
(* What one partition says about its cases: the case files, the semantic   *)
(* and the facet index, the statistics outside Git and the events that a   *)
(* drain reads, under every operation that writes one of them: case input, *)
(* update and delete, the apply of a drain, the partition and facet-schema *)
(* requests, and the runtime skills that write case files on their own.    *)
(* Handlers are atomic: PartitionTaskQueue and PartitionWorkspace have     *)
(* their interleavings, exceptions and crashes.  Here the data is exact.   *)
(*                                                                         *)
(* Of Git only the question remains whether the workspace is clean: every  *)
(* operation with a transaction refuses one that is not, and the others    *)
(* leave one behind.                                                       *)
(***************************************************************************)
EXTENDS CaseQuery, WorkingSet

CONSTANTS CaseProfiles,  \* what extraction or a request can give a case
          Schemas,       \* sequences of definitions [key, enabled]
          Wordings,      \* what the wording of a query scores with each case
          MaxOps,        \* bound on requests, drains and skills
          MaxBypass      \* bound on the skills and partition deletions among them

ASSUME CatalogAssumption ==
    /\ CaseProfiles \subseteq Profiles /\ \A p \in CaseProfiles : IsFiniteSet(Pairs(p))
    /\ Schemas \subseteq Seq([key : Keys, enabled : BOOLEAN])
    /\ <<>> \in Schemas
    /\ Wordings \subseteq [Ids -> [lexical : Nat, vector : Int, embedded : BOOLEAN, bonus : Bonuses]]
    /\ MaxOps \in Nat /\ MaxBypass \in Nat

VARIABLES
    status,          \* of partition.json, or "absent"
    schema,          \* the definitions of facet_schema.json, in order
    docs, live,      \* case files, and which exist
    drafts,          \* accepted inputs whose task has not run
    semantic, facet, \* the two index files
    statistics,      \* the case snapshot
    dirty,           \* Git sees an uncommitted change
    unsent, events,  \* events about to be published, and pending ones
    used,            \* case ids given out; uuid4 never repeats one
    untracked,       \* case files were written past the statistics
    ops, bypass

vars == <<status, schema, docs, live, drafts, semantic, facet, statistics, dirty,
          unsent, events, used, untracked, ops, bypass>>
partition == <<status, schema>>
cases == <<docs, live, used>>
derived == <<semantic, facet, statistics>>
journal == <<unsent, events>>

NoDoc == [profile |-> Empty, facets |-> Empty]
NoDraft == [profile |-> Empty, facets |-> Empty, queued |-> FALSE]

\* create_knowbase_partition: three profile files and the baseline commit.
Init ==
    /\ status = "active" /\ schema = <<>>
    /\ docs = [i \in Ids |-> NoDoc] /\ live = {} /\ used = {}
    /\ drafts = [i \in Ids |-> NoDraft]
    /\ semantic = NoIndex /\ facet = NoIndex /\ statistics = Zero
    /\ dirty = FALSE
    /\ unsent = {} /\ events = <<>>
    /\ untracked = FALSE
    /\ ops = 0 /\ bypass = 0

Request == ops < MaxOps /\ ops' = ops + 1

-----------------------------------------------------------------------------
(* Case input, update and delete *)

DraftOf(i) == [profile |-> drafts[i].profile, facets |-> drafts[i].facets]     \* mutant: the facets of the draft

\* Facets of the caller or of the draft are not accepted as truth.
Written(i) == [profile |-> drafts[i].profile, facets |-> Project(drafts[i].profile, schema)]

RefreshFacetIndexOnly ==             \* mutant: the semantic index is not rebuilt
    semantic' = semantic /\ facet' = FacetIndex(docs', live')

\* _refresh_partition_indexes
RefreshIndexes == semantic' = SemanticIndex(docs', live') /\ facet' = FacetIndex(docs', live')

Event(i, kind, changed, facets) ==
    [case |-> i, kind |-> kind, at |-> ops', changed |-> changed, facets |-> facets]

\* ingest: the status is checked and the draft is made under the schema of now,
\* the task of the partition writes the case later.
Accept(i, p) ==
    /\ status = "active"
    /\ i \notin used
    /\ Request
    /\ used' = used \cup {i}
    /\ drafts' = [drafts EXCEPT ![i] = [profile |-> p, facets |-> Project(p, schema), queued |-> TRUE]]
    /\ UNCHANGED <<partition, docs, live, derived, dirty, journal, untracked, bypass>>

\* _execute_case_input: the partition must exist, its status does not matter.
Input(i) ==
    /\ drafts[i].queued
    /\ ops' = ops
    /\ drafts' = [drafts EXCEPT ![i] = NoDraft]
    /\ IF dirty \/ status = "absent"
       THEN UNCHANGED <<docs, live, derived, events>>          \* the task fails
       ELSE /\ docs' = [docs EXCEPT ![i] = Written(i)]
            /\ live' = live \cup {i}
            /\ RefreshIndexes
            /\ statistics' = AddObservation(statistics, i, Observation(docs'[i]))
            /\ events' = Append(events, Event(i, "create", {"semantic_profile", "facets"}, docs'[i].facets))
    /\ UNCHANGED <<partition, used, dirty, unsent, untracked, bypass>>

\* update_case, with a new profile or with other fields only: facets are
\* projected again in both cases.
Update(i, p) ==
    /\ i \in live
    /\ status # "absent" /\ ~dirty
    /\ Request
    /\ docs' = [docs EXCEPT ![i] = [profile |-> p, facets |-> Project(p, schema)]]
    /\ live' = live
    /\ RefreshIndexes
    /\ statistics' = ReplaceObservation(statistics, i, Observation(docs[i]), Observation(docs'[i]))
    /\ unsent' = unsent \cup
           {Event(i, "update", {f \in {"semantic_profile", "facets"} :
                                    \/ f = "semantic_profile" /\ docs'[i].profile # docs[i].profile
                                    \/ f = "facets" /\ docs'[i].facets # docs[i].facets}, docs'[i].facets)}
    /\ UNCHANGED <<partition, used, drafts, dirty, events, untracked, bypass>>

\* delete_case.  Without the partition document the file goes and the indexes
\* raise: the delete fails after it has deleted.
Delete(i) ==
    /\ i \in live
    /\ ~dirty
    /\ Request
    /\ live' = live \ {i}
    /\ docs' = [docs EXCEPT ![i] = NoDoc]
    /\ IF status = "absent"
       THEN dirty' = TRUE /\ untracked' = TRUE /\ UNCHANGED <<derived, unsent>>
       ELSE /\ RefreshIndexes
            /\ statistics' = RemoveObservation(statistics, i, Observation(docs[i]))
            /\ unsent' = unsent \cup {Event(i, "delete", {}, docs[i].facets)}
            /\ UNCHANGED <<dirty, untracked>>
    /\ UNCHANGED <<partition, used, drafts, events, bypass>>

\* The request that edited a case publishes when it resumes, in any order.  The
\* time of an update is that of the document, the time of a deletion is now.
Publish(e) ==
    /\ unsent' = unsent \ {e}
    /\ events' = Append(events, IF e.kind = "delete" THEN [e EXCEPT !.at = ops] ELSE e)
    /\ UNCHANGED <<partition, cases, drafts, derived, dirty, untracked, ops, bypass>>

\* A batch takes the pending events.
Assemble ==
    /\ events # <<>>
    /\ events' = <<>>
    /\ UNCHANGED <<partition, cases, drafts, derived, dirty, unsent, untracked, ops, bypass>>

-----------------------------------------------------------------------------
(* A drain, the partition requests and the skills *)

\* KnowledgeMutationExecutor.apply of the plan for an accepted schema.
ApplyPlan(new) ==
    LET changes == {i \in Listed(live) : docs[i].facets # Project(docs[i].profile, new)}
        after == [i \in Ids |-> IF i \in changes
                                THEN [docs[i] EXCEPT !.facets = Project(docs[i].profile, new)] ELSE docs[i]]
    IN  /\ status # "absent" /\ ~dirty
        /\ Request
        /\ schema' = new
        /\ docs' = after
        /\ live' = live
        /\ RefreshIndexes
        /\ statistics' = ReplaceObservations(statistics, docs, after, changes)
        /\ UNCHANGED <<status, used, drafts, dirty, journal, untracked, bypass>>

\* The schema request writes the file and nothing else.
PutSchema(new) ==
    /\ status # "absent" /\ new # schema
    /\ Request
    /\ schema' = new
    /\ dirty' = TRUE
    /\ UNCHANGED <<status, cases, drafts, derived, journal, untracked, bypass>>

PutPartition(new) ==
    /\ status # "absent"
    /\ Request
    /\ status' = new
    /\ dirty' = TRUE
    /\ UNCHANGED <<schema, cases, drafts, derived, journal, untracked, bypass>>

Bypass == Request /\ bypass < MaxBypass /\ bypass' = bypass + 1

\* delete_knowbase_partition: the listed cases and the four profile files; the
\* cases beyond the list, the statistics, events and the repository stay.
DeletePartition ==
    /\ status # "absent"
    /\ Bypass
    /\ status' = "absent" /\ schema' = <<>>
    /\ live' = live \ Listed(live)
    /\ docs' = [i \in Ids |-> IF i \in live' THEN docs[i] ELSE NoDoc]
    /\ semantic' = NoIndex /\ facet' = NoIndex
    /\ dirty' = TRUE
    /\ untracked' = (untracked \/ live # {})
    /\ UNCHANGED <<used, drafts, statistics, journal>>

\* create_knowbase_partition under the old name: the files are written, then
\* the repository refuses them as uncommitted changes.
RecreatePartition(new) ==
    /\ status = "absent"
    /\ Request
    /\ status' = new
    /\ dirty' = TRUE
    /\ UNCHANGED <<schema, cases, drafts, derived, journal, untracked, bypass>>

\* refresh_case_facets: with force, or when the projection differs.
RefreshCaseFacets(i) ==
    /\ i \in live
    /\ Bypass
    /\ docs' = [docs EXCEPT ![i].facets = Project(docs[i].profile, schema)]
    /\ dirty' = TRUE
    /\ untracked' = (untracked \/ docs' # docs)
    /\ UNCHANGED <<partition, live, used, drafts, derived, journal>>

\* refresh_selected_cases_facets also rebuilds the facet index.
RefreshSelected(selected) ==
    /\ status # "absent"
    /\ Bypass
    /\ docs' = [i \in Ids |-> IF i \in selected \cap live
                              THEN [docs[i] EXCEPT !.facets = Project(docs[i].profile, schema)] ELSE docs[i]]
    /\ facet' = FacetIndex(docs', live)
    /\ dirty' = TRUE
    /\ untracked' = (untracked \/ docs' # docs)
    /\ UNCHANGED <<partition, live, used, drafts, semantic, statistics, journal>>

\* rebuild_case extracts profile and facets again.
RebuildCase(i, p) ==
    /\ i \in live
    /\ status # "absent"
    /\ Bypass
    /\ docs' = [docs EXCEPT ![i] = [profile |-> p, facets |-> Project(p, schema)]]
    /\ dirty' = TRUE
    /\ untracked' = (untracked \/ docs' # docs)
    /\ UNCHANGED <<partition, live, used, drafts, derived, journal>>

\* Uncommitted changes are refused "and left to manual handling": the operator
\* commits them.
CommitByHand ==
    /\ dirty
    /\ dirty' = FALSE
    /\ UNCHANGED <<partition, cases, drafts, derived, journal, untracked, ops, bypass>>

Next ==
    \/ \E i \in Ids, p \in CaseProfiles : Accept(i, p) \/ Update(i, p) \/ RebuildCase(i, p)
    \/ \E i \in Ids : Input(i) \/ Delete(i) \/ RefreshCaseFacets(i)
    \/ \E e \in unsent : Publish(e)
    \/ Assemble
    \/ \E new \in Schemas : ApplyPlan(new) \/ PutSchema(new)
    \/ \E new \in {"active", "inactive"} : PutPartition(new) \/ RecreatePartition(new)
    \/ DeletePartition
    \/ \E selected \in SUBSET Ids : RefreshSelected(selected)
    \/ CommitByHand

Spec == Init /\ [][Next]_vars

-----------------------------------------------------------------------------
(* Properties *)

Docs == [profile : Profiles, facets : Profiles]

\* Profiles, facets, indexes and snapshot keep their types: counts stay natural
\* when an observation is removed that was never added.  Only a live case has
\* data, only an id given out has a draft.
TypeOK ==
    /\ status \in {"absent", "active", "inactive"} /\ schema \in Schemas
    /\ live \subseteq used /\ used \subseteq Ids
    /\ \A i \in Ids : /\ docs[i].profile \in Profiles /\ docs[i].facets \in Profiles
                      /\ i \notin live => docs[i] = NoDoc
                      /\ drafts[i].queued => i \in used \ live
    /\ semantic.cases \in Nat /\ facet.cases \in Nat /\ statistics.count \in Nat
    /\ statistics.keys \in [Fields -> [Keys -> Nat]]
    /\ dirty \in BOOLEAN /\ untracked \in BOOLEAN
    /\ \A e \in unsent : e.case \in used /\ e.at \in 0..MaxOps
    /\ ops \in 0..MaxOps /\ bypass \in 0..MaxBypass

\* Adding and removing observations one by one keeps exactly what building the
\* snapshot anew over all cases would give, and a support query names the cases
\* that have one of its values, and those that have a value of a key which is
\* written the same, for the index knows only the text of the two; however
\* schemas, inputs, updates and deletes follow each other, until something writes
\* case files past the statistics.
StatisticsAreExact ==
    untracked \/ /\ statistics = Aggregate(docs, live)
                 /\ \A k \in Keys, v \in Values :
                        LET has == {[field |-> "facet", key |-> k, values |-> {v}]}
                            had == {[field |-> "semantic_profile", key |-> k, values |-> {v}]}
                            of(f) == {i \in live : \E j \in Keys : \E w \in Observation(docs[i])[f][j] :
                                                       Text[j][w] = Text[k][v]}
                        IN  /\ SupportingAll(statistics, has \cup had) = of("facet") \cap of("semantic_profile")
                            /\ SupportingAny(statistics, has \cup had) = of("facet") \cup of("semantic_profile")

\* The evidence of a drain is consistent: the semantic index, built from the
\* listed files with keys as they are, counts what the statistics count with
\* keys folded.  So it is while the partition fits into one list, no key of a
\* profile changes when it is folded, and nothing bypassed the statistics.
Plain(p) == \A k \in Keys : p[k] # {} => Fold[k] = k
EvidenceAgrees ==
    \/ untracked \/ Cardinality(live) > Cap
    \/ \E i \in live : ~Plain(docs[i].profile)
    \/ /\ semantic.cases = statistics.count
       /\ semantic.keys = statistics.keys["semantic_profile"]
       /\ (\A i \in live : Plain(docs[i].facets)) => facet.keys = statistics.keys["facet"]

\* Whoever writes a case leaves it projected under the schema of that moment,
\* not of the moment its draft was made or its facets were planned.
WrittenIsProjected ==
    [][\A i \in live' : docs'[i] # docs[i] => docs'[i].facets = Project(docs'[i].profile, schema')]_vars

\* A query understood exactly as a case finds it: the case passes the filters,
\* it is recalled unless as many other cases that pass are as near to the
\* embedding, and whatever the wording scores, the best answer is the case, or
\* one that scores the same, or one that the wording favours, or one that has the
\* value asked for in two spellings.  Not promised for stale facets, for
\* definitions that are disabled or share a folded key, which the filters take
\* and the projection does not, and for filters with a slash in key or value.
Regular(i) ==
    /\ docs[i].facets = Project(docs[i].profile, schema)
    /\ \A d, e \in DOMAIN schema :
           /\ docs[i].profile[schema[d].key] # {} =>
                  /\ schema[d].enabled /\ schema[d].key \notin Slashed
                  /\ docs[i].profile[schema[d].key] \cap Slashed = {}
           /\ Fold[schema[d].key] = Fold[schema[e].key] => d = e
OneSpelling(i) ==
    \A j, k \in Keys : \A v \in docs[i].facets[j], w \in docs[i].facets[k] :
        Fold[j] = Fold[k] /\ Lower[v] = Lower[w] => j = k /\ v = w

\* The best answer among the cases that the two branches recall.
FoundFirst(i, wording, passing, profile, filters) ==
    LET lexical == [j \in passing |-> wording[j].lexical]
        vector == [j \in passing |-> wording[j].vector]
        bonus == [j \in passing |-> wording[j].bonus]
        named == {j \in passing : wording[j].lexical > 0}
        embedded == {j \in passing : wording[j].embedded}
    IN  \A near \in Recalls(embedded, vector), worded \in Recalls(named, lexical) :
            LET hits == Merged([j \in worded |-> lexical[j]], [j \in near |-> vector[j]])
                Favour(j) == 2 * hits[j] + bonus[j]
                IsBest(j) == IsAnswer({j}, docs, hits, bonus, profile, filters, 1)
            IN  /\ i \in embedded /\ Cardinality({j \in embedded : vector[j] >= vector[i]}) <= RecallSize
                       => i \in DOMAIN hits
                /\ i \in DOMAIN hits /\ OneSpelling(i) =>
                       \A j \in DOMAIN hits \ {i} :
                           OneSpelling(j) /\ Favour(j) <= Favour(i) /\ IsBest(j) => IsBest(i)

SelfRetrieval ==
    \A i \in live : Regular(i) =>
        LET profile == docs[i].profile
            filters == Filters(profile, schema)
            passing == Passing(docs, live, filters)
        IN  /\ i \in passing
            /\ \A wording \in Wordings : FoundFirst(i, wording, passing, profile, filters)

\* In whatever order edits published, the events of a case collapse to one, and
\* its group has every changed field and every facet they saw, is a deletion
\* exactly if one of them is, and then the case is gone; the list of affected
\* cases names each of them once.
WorkingSetFollowsCases ==
    LET affected == AffectedCases(events)
        known == {e.case : e \in ToSet(events)}
    IN  /\ \A g \in Groups(events) :
               LET of == {e \in ToSet(events) : e.case = g.case}
               IN  /\ Len(Collapse(events, Of(events, g.case))) = 1
                   /\ g.changed = UNION {e.changed : e \in of}
                   /\ g.facets = [k \in Keys |-> UNION {e.facets[k] : e \in of}]
                   /\ g.priority = 20 <=> \E e \in of : e.kind = "delete"
                   /\ g.priority = 20 => g.case \notin live
        /\ ToSet(affected) = known
        /\ Len(affected) = Cardinality(known)
=============================================================================
