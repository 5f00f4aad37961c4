------------------------- MODULE CaseCatalogProofs -------------------------
(***************************************************************************)
(* For any cases, schemas, keys and values, and any number of requests,    *)
(* drains and skills: whoever writes a case leaves it projected under the  *)
(* schema of that moment; statistics and indexes are those of the files,   *)
(* and agree; the types; a case is found by a query for what it is; and a  *)
(* drain is told of each case once, all that happened to it.               *)
(*                                                                         *)
(* A plan replaces the observations of its cases one after the other, with *)
(* a recursive function on the numbers, and the events of a case are       *)
(* absorbed one after the other, with one on sets: what they compute is    *)
(* written down, and no least argument computes something else.            *)
(***************************************************************************)
EXTENDS CaseCatalog, FiniteSetTheorems, WellFoundedInduction, TLAPS

\* A case file has a profile and facets, and there is one for each id: what a
\* step that writes only the facets leaves alone can be read off its EXCEPT.
Doc(p, f) == [profile |-> p, facets |-> f]
DocsInv ==
    /\ docs = [i \in Ids |-> Doc(docs[i].profile, docs[i].facets)]
    /\ live \subseteq Ids

\* The body of WrittenIsProjected.
Projected == \A i \in live' : docs'[i] # docs[i] => docs'[i].facets = Project(docs'[i].profile, schema')

-----------------------------------------------------------------------------
(* Steps that write one case *)

\* One case is written anew, under a schema that stays: input, update and the
\* skill that extracts a case again.
LEMMA WriteOneKeeps ==
    ASSUME DocsInv, NEW i \in Ids, NEW p,
           docs' = [docs EXCEPT ![i] = Doc(p, Project(p, schema))],
           live' \subseteq Ids, schema' = schema
    PROVE  DocsInv' /\ Projected
<1>1. \A j \in Ids : docs'[j] = IF j = i THEN Doc(p, Project(p, schema)) ELSE docs[j]
  BY DEF DocsInv
<1>2. docs' = [j \in Ids |-> Doc(docs'[j].profile, docs'[j].facets)]
  <2>1. docs' = [j \in Ids |-> docs'[j]] BY DEF DocsInv
  <2>2. \A j \in Ids : docs'[j] = Doc(docs'[j].profile, docs'[j].facets) BY <1>1 DEF DocsInv, Doc
  <2> QED BY <2>1, <2>2
<1>3. Projected BY <1>1 DEF Projected, Doc
<1> QED BY <1>2, <1>3 DEF DocsInv

\* The facets of some cases are projected again: an applied plan, under its new
\* schema, and the skills that refresh facets, under the present one.
LEMMA ProjectSomeKeeps ==
    ASSUME DocsInv, NEW S,
           docs' = [i \in Ids |-> IF i \in S
                                  THEN [docs[i] EXCEPT !.facets = Project(docs[i].profile, schema')] ELSE docs[i]],
           live' = live
    PROVE  DocsInv' /\ Projected
<1>1. \A j \in Ids : docs'[j] = IF j \in S THEN Doc(docs[j].profile, Project(docs[j].profile, schema')) ELSE docs[j]
  BY DEF DocsInv, Doc
<1>2. docs' = [j \in Ids |-> Doc(docs'[j].profile, docs'[j].facets)]
  <2>1. docs' = [j \in Ids |-> docs'[j]] OBVIOUS
  <2>2. \A j \in Ids : docs'[j] = Doc(docs'[j].profile, docs'[j].facets) BY <1>1 DEF DocsInv, Doc
  <2> QED BY <2>1, <2>2
<1>3. Projected BY <1>1 DEF Projected, Doc, DocsInv
<1> QED BY <1>2, <1>3 DEF DocsInv

\* Cases go and nothing else is written.
LEMMA RemoveKeeps ==
    ASSUME DocsInv, NEW S,
           docs' = [i \in Ids |-> IF i \in S THEN docs[i] ELSE NoDoc],
           live' \subseteq S, live' \subseteq Ids
    PROVE  DocsInv' /\ Projected
<1>1. \A j \in Ids : docs'[j] = IF j \in S THEN docs[j] ELSE NoDoc
  OBVIOUS
<1>2. docs' = [j \in Ids |-> Doc(docs'[j].profile, docs'[j].facets)]
  <2>1. docs' = [j \in Ids |-> docs'[j]] OBVIOUS
  <2>2. \A j \in Ids : docs'[j] = Doc(docs'[j].profile, docs'[j].facets) BY <1>1 DEF DocsInv, Doc, NoDoc
  <2> QED BY <2>1, <2>2
<1>3. Projected BY <1>1 DEF Projected
<1> QED BY <1>2, <1>3 DEF DocsInv

LEMMA SameDocsKeep ==
    ASSUME DocsInv, docs' = docs, live' = live
    PROVE  DocsInv' /\ Projected
BY DEF DocsInv, Projected

-----------------------------------------------------------------------------
(* The actions *)

LEMMA InputKeeps ==
    ASSUME DocsInv, NEW i \in Ids, Input(i)
    PROVE  DocsInv' /\ Projected
<1>1. CASE UNCHANGED <<docs, live>> BY <1>1, SameDocsKeep
<1>2. CASE docs' = [docs EXCEPT ![i] = Written(i)] /\ live' = live \cup {i}
  <2>1. Written(i) = Doc(drafts[i].profile, Project(drafts[i].profile, schema)) BY DEF Written, Doc
  <2>2. schema' = schema BY DEF Input, partition
  <2>3. live' \subseteq Ids BY <1>2 DEF DocsInv
  <2> QED BY <1>2, <2>1, <2>2, <2>3, WriteOneKeeps
<1> QED BY <1>1, <1>2 DEF Input

LEMMA UpdateKeeps ==
    ASSUME DocsInv, NEW i \in Ids, NEW p \in CaseProfiles, Update(i, p) \/ RebuildCase(i, p)
    PROVE  DocsInv' /\ Projected
<1>1. docs' = [docs EXCEPT ![i] = Doc(p, Project(p, schema))] BY DEF Update, RebuildCase, Doc
<1>2. schema' = schema /\ live' = live BY DEF Update, RebuildCase, partition
<1>3. live' \subseteq Ids BY <1>2 DEF DocsInv
<1> QED BY <1>1, <1>2, <1>3, WriteOneKeeps

LEMMA DeleteKeeps ==
    ASSUME DocsInv, NEW i \in Ids, Delete(i)
    PROVE  DocsInv' /\ Projected
<1>1. docs' = [docs EXCEPT ![i] = NoDoc] /\ live' = live \ {i} BY DEF Delete
<1>2. docs' = [j \in Ids |-> IF j \in Ids \ {i} THEN docs[j] ELSE NoDoc] BY <1>1 DEF DocsInv
<1>3. live' \subseteq Ids \ {i} /\ live' \subseteq Ids BY <1>1 DEF DocsInv
<1> QED BY <1>2, <1>3, RemoveKeeps

LEMMA DeletePartitionKeeps ==
    ASSUME DocsInv, DeletePartition
    PROVE  DocsInv' /\ Projected
<1>1. docs' = [i \in Ids |-> IF i \in live' THEN docs[i] ELSE NoDoc] BY DEF DeletePartition
<1>2. live' \subseteq Ids BY DEF DeletePartition, DocsInv
<1> QED BY <1>1, <1>2, RemoveKeeps

LEMMA ApplyPlanKeeps ==
    ASSUME DocsInv, NEW new \in Schemas, ApplyPlan(new)
    PROVE  DocsInv' /\ Projected
<1> DEFINE changes == {i \in Listed(live) : docs[i].facets # Project(docs[i].profile, new)}
<1>1. schema' = new /\ live' = live BY DEF ApplyPlan
<1>2. docs' = [i \in Ids |-> IF i \in changes
                             THEN [docs[i] EXCEPT !.facets = Project(docs[i].profile, new)] ELSE docs[i]]
  BY DEF ApplyPlan
<1> HIDE DEF changes
<1> QED BY <1>1, <1>2, ProjectSomeKeeps

LEMMA RefreshKeeps ==
    ASSUME DocsInv,
           (\E i \in Ids : RefreshCaseFacets(i)) \/ (\E selected \in SUBSET Ids : RefreshSelected(selected))
    PROVE  DocsInv' /\ Projected
<1>1. ASSUME NEW i \in Ids, RefreshCaseFacets(i) PROVE DocsInv' /\ Projected
  <2>1. docs' = [docs EXCEPT ![i].facets = Project(docs[i].profile, schema)] BY <1>1 DEF RefreshCaseFacets
  <2>2. schema' = schema /\ live' = live BY <1>1 DEF RefreshCaseFacets, partition
  <2>3. docs' = [j \in Ids |-> IF j \in {i} THEN [docs[j] EXCEPT !.facets = Project(docs[j].profile, schema')]
                               ELSE docs[j]]
    BY <2>1, <2>2 DEF DocsInv
  <2> QED BY <2>2, <2>3, ProjectSomeKeeps
<1>2. ASSUME NEW selected \in SUBSET Ids, RefreshSelected(selected) PROVE DocsInv' /\ Projected
  <2>1. schema' = schema /\ live' = live BY <1>2 DEF RefreshSelected, partition
  <2>2. docs' = [i \in Ids |-> IF i \in selected \cap live
                               THEN [docs[i] EXCEPT !.facets = Project(docs[i].profile, schema')] ELSE docs[i]]
    BY <1>2, <2>1 DEF RefreshSelected
  <2> QED BY <2>1, <2>2, ProjectSomeKeeps
<1> QED BY <1>1, <1>2

LEMMA NextKeeps == DocsInv /\ [Next]_vars => DocsInv' /\ Projected
<1> SUFFICES ASSUME DocsInv, [Next]_vars PROVE DocsInv' /\ Projected
  OBVIOUS
<1>1. CASE \E i \in Ids, p \in CaseProfiles : Accept(i, p) BY <1>1, SameDocsKeep DEF Accept
<1>2. CASE \E i \in Ids, p \in CaseProfiles : Update(i, p) \/ RebuildCase(i, p) BY <1>2, UpdateKeeps
<1>3. CASE \E i \in Ids : Input(i) BY <1>3, InputKeeps
<1>4. CASE \E i \in Ids : Delete(i) BY <1>4, DeleteKeeps
<1>5. CASE (\E i \in Ids : RefreshCaseFacets(i)) \/ (\E selected \in SUBSET Ids : RefreshSelected(selected))
  BY <1>5, RefreshKeeps
<1>6. CASE (\E e \in unsent : Publish(e)) \/ Assemble \/ CommitByHand
  BY <1>6, SameDocsKeep DEF Publish, Assemble, CommitByHand, cases
<1>7. CASE \E new \in Schemas : ApplyPlan(new) BY <1>7, ApplyPlanKeeps
<1>8. CASE \E new \in Schemas : PutSchema(new) BY <1>8, SameDocsKeep DEF PutSchema, cases
<1>9. CASE \E new \in {"active", "inactive"} : PutPartition(new) \/ RecreatePartition(new)
  BY <1>9, SameDocsKeep DEF PutPartition, RecreatePartition, cases
<1>10. CASE DeletePartition BY <1>10, DeletePartitionKeeps
<1>11. CASE UNCHANGED vars BY <1>11, SameDocsKeep DEF vars, cases
<1> QED
  BY <1>1, <1>2, <1>3, <1>4, <1>5, <1>6, <1>7, <1>8, <1>9, <1>10, <1>11 DEF Next

\* Whatever schemas and requests follow each other, a case that was accepted
\* under an old schema or planned under a new one is never written with facets
\* of another schema than that of the file at that moment.
THEOREM WrittenIsAlwaysProjected == Spec => WrittenIsProjected
<1>1. Init => DocsInv BY DEF Init, DocsInv, NoDoc, Doc
<1>2. DocsInv /\ [Next]_vars => DocsInv' /\ Projected BY NextKeeps
<1>3. Projected <=> (\A i \in live' : docs'[i] # docs[i] => docs'[i].facets = Project(docs'[i].profile, schema'))
  BY DEF Projected
<1> QED BY <1>1, <1>2, <1>3, PTL DEF Spec, WrittenIsProjected
-----------------------------------------------------------------------------
(* Numbers *)

Below == {p \in Nat \X Nat : p[1] < p[2]}
LEMMA BelowIsWellFounded == IsWellFoundedOn(Below, Nat)
BY NatLessThanWellFounded DEF OpToRel, Below

LEMMA LeastExists ==
    ASSUME NEW S \in SUBSET Nat, S # {}
    PROVE  \E n \in S : \A m \in S : n <= m
<1>1. \E n \in S : \A m \in S : ~(<<m, n>> \in Below) BY BelowIsWellFounded, WFMin, Zenon
<1>2. PICK n \in S : \A m \in S : ~(<<m, n>> \in Below) BY <1>1, Zenon
<1>3. \A m \in S : m \in Nat /\ n \in Nat /\ ~(m < n) BY <1>2 DEF Below
<1>4. \A m \in S : n <= m BY <1>3
<1> QED BY <1>2, <1>4

\* A finite set of numbers has a last one.
LEMMA LastExists ==
    ASSUME NEW S \in SUBSET Nat, IsFiniteSet(S), S # {}
    PROVE  LastOf(S) \in S /\ \A j \in S : j <= LastOf(S)
<1> DEFINE HasLast(T) == \E i \in T : \A j \in T : j <= i
           sizes == {n \in Nat : \E T \in SUBSET S : T # {} /\ Cardinality(T) = n /\ ~HasLast(T)}
<1>1. CASE HasLast(S) BY <1>1 DEF LastOf
<1>2. CASE ~HasLast(S)
  <2>1. sizes # {} /\ sizes \in SUBSET Nat
    <3>1. Cardinality(S) \in Nat BY FS_CardinalityType
    <3>2. S \in SUBSET S OBVIOUS
    <3> HIDE DEF HasLast
    <3>3. Cardinality(S) \in sizes BY <1>2, <3>1, <3>2
    <3> QED BY <3>3
  <2> HIDE DEF sizes
  <2>2. PICK n \in sizes : \A m \in sizes : n <= m BY <2>1, LeastExists, Zenon
  <2> USE DEF sizes
  <2>3. PICK T \in SUBSET S : T # {} /\ Cardinality(T) = n /\ ~HasLast(T) BY <2>2
  <2>4. PICK t \in T : TRUE BY <2>3
  <2> DEFINE R == T \ {t}
  <2>5. IsFiniteSet(T) BY <2>3, FS_Subset
  <2>6. IsFiniteSet(R) /\ Cardinality(R) = n - 1 BY <2>3, <2>4, <2>5, FS_RemoveElement
  <2>7. n \in Nat /\ Cardinality(R) \in Nat BY <2>2, <2>6, FS_CardinalityType
  <2>8. t \in Nat /\ T \subseteq Nat /\ R \subseteq S BY <2>3, <2>4
  <2>9. HasLast(T)
    <3>1. CASE R = {} BY <2>4, <2>8, <3>1
    <3>2. CASE R # {}
      <4>1. n - 1 \notin sizes BY <2>2, <2>6, <2>7
      <4>2. HasLast(R)
        <5> HIDE DEF HasLast
        <5> QED BY <2>6, <2>7, <2>8, <3>2, <4>1
      <4>3. PICK i \in R : \A j \in R : j <= i BY <4>2
      <4>4. i \in Nat /\ i \in T BY <2>8, <4>3
      <4>5. CASE i <= t
        <5>1. \A j \in T : j <= t BY <2>8, <4>3, <4>4, <4>5
        <5> QED BY <2>4, <5>1
      <4>6. CASE t <= i
        <5>1. \A j \in T : j <= i BY <2>8, <4>3, <4>4, <4>6
        <5> QED BY <4>4, <5>1
      <4> QED BY <2>8, <4>4, <4>5, <4>6
    <3> QED BY <3>1, <3>2
  <2> QED BY <2>3, <2>9
<1> QED BY <1>1, <1>2

-----------------------------------------------------------------------------
(* Snapshots: adding, removing and replacing one observation of an exact one *)

LEMMA CountPlus ==
    ASSUME NEW A, IsFiniteSet(A), NEW i, i \notin A, NEW holds \in BOOLEAN
    PROVE  Cardinality(IF holds THEN A \cup {i} ELSE A) = Plus(Cardinality(A), holds)
BY FS_AddElement DEF Plus

LEMMA CountMinus ==
    ASSUME NEW A, IsFiniteSet(A), NEW i, NEW holds \in BOOLEAN, holds <=> i \in A
    PROVE  Cardinality(A \ {i}) = Minus(Cardinality(A), holds)
<1>1. Cardinality(A \ {i}) = IF holds THEN Cardinality(A) - 1 ELSE Cardinality(A) BY FS_RemoveElement
<1>2. Cardinality(A) \in Nat BY FS_CardinalityType
<1>3. holds => Cardinality(A) # 0 BY FS_EmptySet
<1> QED BY <1>1, <1>2, <1>3 DEF Minus

With(d, S, f, k, v) == {i \in S : v \in Observation(d[i])[f][k]}
Having(d, S, f, k) == {i \in S : Observation(d[i])[f][k] # {}}
Under(d, S, f, e) == {i \in S : e \in TextsOf(Observation(d[i])[f])}

LEMMA AggregateIs ==
    ASSUME NEW d, NEW S
    PROVE  Aggregate(d, S) =
              [count   |-> Cardinality(S),
               keys    |-> [f \in Fields |-> [k \in Keys |-> Cardinality(Having(d, S, f, k))]],
               values  |-> [f \in Fields |-> [k \in Keys |-> [v \in Values |-> Cardinality(With(d, S, f, k, v))]]],
               support |-> [f \in Fields |-> [e \in Entries |-> Under(d, S, f, e)]]]
<1>1. \A f, e : Under(d, S, f, e) =
          {i \in S : \E k \in Keys : \E v \in Observation(d[i])[f][k] : Text[k][v] = e}
  BY DEF Under, TextsOf
<1>2. [f \in Fields |-> [e \in Entries |->
          {i \in S : \E k \in Keys : \E v \in Observation(d[i])[f][k] : Text[k][v] = e}]]
      = [f \in Fields |-> [e \in Entries |-> Under(d, S, f, e)]]
  BY <1>1
<1>3. Aggregate(d, S) =
          [count   |-> Cardinality(S),
           keys    |-> [f \in Fields |-> [k \in Keys |-> Cardinality(Having(d, S, f, k))]],
           values  |-> [f \in Fields |-> [k \in Keys |-> [v \in Values |-> Cardinality(With(d, S, f, k, v))]]],
           support |-> [f \in Fields |-> [e \in Entries |->
              {i \in S : \E k \in Keys : \E v \in Observation(d[i])[f][k] : Text[k][v] = e}]]]
  BY DEF Aggregate, With, Having
<1> QED BY <1>2, <1>3

\* Only the observations of the live cases count.
LEMMA AggregateSame ==
    ASSUME NEW d, NEW e, NEW S, \A i \in S : Observation(e[i]) = Observation(d[i])
    PROVE  Aggregate(e, S) = Aggregate(d, S)
<1>1. \A f, k : Having(e, S, f, k) = Having(d, S, f, k) BY DEF Having
<1>2. \A f, k, v : With(e, S, f, k, v) = With(d, S, f, k, v) BY DEF With
<1>3. \A f, t : Under(e, S, f, t) = Under(d, S, f, t) BY DEF Under
<1> QED BY <1>1, <1>2, <1>3, AggregateIs

LEMMA AddExact ==
    ASSUME NEW S, IsFiniteSet(S), NEW i, i \notin S, NEW d, NEW e,
           \A j \in S : Observation(e[j]) = Observation(d[j])
    PROVE  AddObservation(Aggregate(d, S), i, Observation(e[i])) = Aggregate(e, S \cup {i})
<1> DEFINE o == Observation(e[i])
           T == S \cup {i}
<1>1. Cardinality(T) = Cardinality(S) + 1 BY FS_AddElement
<1>2. \A f, k : Cardinality(Having(e, T, f, k)) = Plus(Cardinality(Having(d, S, f, k)), o[f][k] # {})
  <2> SUFFICES ASSUME NEW f, NEW k
               PROVE  Cardinality(Having(e, T, f, k)) = Plus(Cardinality(Having(d, S, f, k)), o[f][k] # {})
    OBVIOUS
  <2>1. IsFiniteSet(Having(d, S, f, k)) /\ i \notin Having(d, S, f, k) BY FS_Subset DEF Having
  <2>2. Having(e, T, f, k) = IF o[f][k] # {} THEN Having(d, S, f, k) \cup {i} ELSE Having(d, S, f, k)
    BY DEF Having
  <2> HIDE DEF o, T
  <2> QED BY <2>1, <2>2, CountPlus
<1>3. \A f, k, v : With(e, T, f, k, v) = IF v \in o[f][k] THEN With(d, S, f, k, v) \cup {i} ELSE With(d, S, f, k, v)
  BY DEF With
<1>4. \A f, k, v : Cardinality(With(e, T, f, k, v)) = Plus(Cardinality(With(d, S, f, k, v)), v \in o[f][k])
  <2> SUFFICES ASSUME NEW f, NEW k, NEW v
               PROVE  Cardinality(With(e, T, f, k, v)) = Plus(Cardinality(With(d, S, f, k, v)), v \in o[f][k])
    OBVIOUS
  <2> DEFINE has == v \in o[f][k]
             A == With(d, S, f, k, v)
  <2>1. IsFiniteSet(A) /\ i \notin A BY FS_Subset DEF With
  <2>2. With(e, T, f, k, v) = IF has THEN A \cup {i} ELSE A BY <1>3
  <2>3. has \in BOOLEAN OBVIOUS
  <2> HIDE DEF o, T, has, A
  <2>4. Cardinality(With(e, T, f, k, v)) = Plus(Cardinality(A), has) BY <2>1, <2>2, <2>3, CountPlus
  <2> QED BY <2>4 DEF has, A
<1>12. \A f, t : Under(e, T, f, t) = IF t \in TextsOf(o[f]) THEN Under(d, S, f, t) \cup {i} ELSE Under(d, S, f, t)
  BY DEF Under
<1> HIDE DEF o, T
<1>5. Aggregate(e, T).count = Cardinality(S) + 1 BY <1>1, AggregateIs
<1>6. Aggregate(e, T).keys = [f \in Fields |-> [k \in Keys |-> Plus(Cardinality(Having(d, S, f, k)), o[f][k] # {})]]
  <2> DEFINE after(f, k) == Plus(Cardinality(Having(d, S, f, k)), o[f][k] # {})
  <2>1. \A f, k : Cardinality(Having(e, T, f, k)) = after(f, k) BY <1>2
  <2> HIDE DEF after
  <2>2. Aggregate(e, T).keys = [f \in Fields |-> [k \in Keys |-> after(f, k)]] BY <2>1, AggregateIs
  <2> QED BY <2>2 DEF after
<1>7. Aggregate(e, T).values = [f \in Fields |-> [k \in Keys |-> [v \in Values |->
                                   Plus(Cardinality(With(d, S, f, k, v)), v \in o[f][k])]]]
  BY <1>4, AggregateIs
<1>8. Aggregate(e, T).support = [f \in Fields |-> [t \in Entries |->
                 IF t \in TextsOf(o[f]) THEN Under(d, S, f, t) \cup {i} ELSE Under(d, S, f, t)]]
  <2> DEFINE after(f, t) == IF t \in TextsOf(o[f]) THEN Under(d, S, f, t) \cup {i} ELSE Under(d, S, f, t)
  <2>1. \A f, t : Under(e, T, f, t) = after(f, t) BY <1>12
  <2> HIDE DEF after
  <2>2. Aggregate(e, T).support = [f \in Fields |-> [t \in Entries |-> after(f, t)]] BY <2>1, AggregateIs
  <2> QED BY <2>2 DEF after
<1>9. Aggregate(e, T) = [count |-> Aggregate(e, T).count, keys |-> Aggregate(e, T).keys,
                         values |-> Aggregate(e, T).values, support |-> Aggregate(e, T).support]
  BY AggregateIs
<1>10. AddObservation(Aggregate(d, S), i, o) =
        [count   |-> Cardinality(S) + 1,
         keys    |-> [f \in Fields |-> [k \in Keys |-> Plus(Cardinality(Having(d, S, f, k)), o[f][k] # {})]],
         values  |-> [f \in Fields |-> [k \in Keys |-> [v \in Values |->
                         Plus(Cardinality(With(d, S, f, k, v)), v \in o[f][k])]]],
         support |-> [f \in Fields |-> [t \in Entries |->
                         IF t \in TextsOf(o[f]) THEN Under(d, S, f, t) \cup {i} ELSE Under(d, S, f, t)]]]
  BY AggregateIs DEF AddObservation
<1>11. AddObservation(Aggregate(d, S), i, o) = Aggregate(e, T) BY <1>5, <1>6, <1>7, <1>8, <1>9, <1>10
<1> QED BY <1>11 DEF o, T

\* Removing needs no bound: a case of the snapshot is in each of its counts.
LEMMA RemoveExact ==
    ASSUME NEW S, IsFiniteSet(S), NEW i \in S, NEW d
    PROVE  RemoveObservation(Aggregate(d, S), i, Observation(d[i])) = Aggregate(d, S \ {i})
<1> DEFINE o == Observation(d[i])
           T == S \ {i}
<1>1. Cardinality(T) = Minus(Cardinality(S), TRUE) BY CountMinus
<1>2. \A f, k : Cardinality(Having(d, T, f, k)) = Minus(Cardinality(Having(d, S, f, k)), o[f][k] # {})
  <2> SUFFICES ASSUME NEW f, NEW k
               PROVE  Cardinality(Having(d, T, f, k)) = Minus(Cardinality(Having(d, S, f, k)), o[f][k] # {})
    OBVIOUS
  <2> DEFINE has == o[f][k] # {}
             A == Having(d, S, f, k)
  <2>1. IsFiniteSet(A) BY FS_Subset DEF Having
  <2>2. Having(d, T, f, k) = A \ {i} /\ (has <=> i \in A) BY DEF Having
  <2>3. has \in BOOLEAN OBVIOUS
  <2> HIDE DEF o, T, has, A
  <2>4. Cardinality(Having(d, T, f, k)) = Minus(Cardinality(A), has) BY <2>1, <2>2, <2>3, CountMinus
  <2> QED BY <2>4 DEF has, A
<1>3. \A f, k, v : With(d, T, f, k, v) = IF v \in o[f][k] THEN With(d, S, f, k, v) \ {i} ELSE With(d, S, f, k, v)
  BY DEF With
<1>4. \A f, k, v : Cardinality(With(d, T, f, k, v)) = Minus(Cardinality(With(d, S, f, k, v)), v \in o[f][k])
  <2> SUFFICES ASSUME NEW f, NEW k, NEW v
               PROVE  Cardinality(With(d, T, f, k, v)) = Minus(Cardinality(With(d, S, f, k, v)), v \in o[f][k])
    OBVIOUS
  <2> DEFINE has == v \in o[f][k]
             A == With(d, S, f, k, v)
  <2>1. IsFiniteSet(A) BY FS_Subset DEF With
  <2>2. With(d, T, f, k, v) = A \ {i} /\ (has <=> i \in A) BY DEF With
  <2>3. has \in BOOLEAN OBVIOUS
  <2> HIDE DEF o, T, has, A
  <2>4. Cardinality(With(d, T, f, k, v)) = Minus(Cardinality(A), has) BY <2>1, <2>2, <2>3, CountMinus
  <2> QED BY <2>4 DEF has, A
<1>12. \A f, t : Under(d, T, f, t) = IF t \in TextsOf(o[f]) THEN Under(d, S, f, t) \ {i} ELSE Under(d, S, f, t)
  BY DEF Under
<1> HIDE DEF o, T
<1>5. Aggregate(d, T).count = Minus(Cardinality(S), TRUE) BY <1>1, AggregateIs
<1>6. Aggregate(d, T).keys = [f \in Fields |-> [k \in Keys |-> Minus(Cardinality(Having(d, S, f, k)), o[f][k] # {})]]
  <2> DEFINE after(f, k) == Minus(Cardinality(Having(d, S, f, k)), o[f][k] # {})
  <2>1. \A f, k : Cardinality(Having(d, T, f, k)) = after(f, k) BY <1>2
  <2> HIDE DEF after
  <2>2. Aggregate(d, T).keys = [f \in Fields |-> [k \in Keys |-> after(f, k)]] BY <2>1, AggregateIs
  <2> QED BY <2>2 DEF after
<1>7. Aggregate(d, T).values = [f \in Fields |-> [k \in Keys |-> [v \in Values |->
                                   Minus(Cardinality(With(d, S, f, k, v)), v \in o[f][k])]]]
  BY <1>4, AggregateIs
<1>8. Aggregate(d, T).support = [f \in Fields |-> [t \in Entries |->
                 IF t \in TextsOf(o[f]) THEN Under(d, S, f, t) \ {i} ELSE Under(d, S, f, t)]]
  <2> DEFINE after(f, t) == IF t \in TextsOf(o[f]) THEN Under(d, S, f, t) \ {i} ELSE Under(d, S, f, t)
  <2>1. \A f, t : Under(d, T, f, t) = after(f, t) BY <1>12
  <2> HIDE DEF after
  <2>2. Aggregate(d, T).support = [f \in Fields |-> [t \in Entries |-> after(f, t)]] BY <2>1, AggregateIs
  <2> QED BY <2>2 DEF after
<1>9. Aggregate(d, T) = [count |-> Aggregate(d, T).count, keys |-> Aggregate(d, T).keys,
                         values |-> Aggregate(d, T).values, support |-> Aggregate(d, T).support]
  BY AggregateIs
<1>10. RemoveObservation(Aggregate(d, S), i, o) =
        [count   |-> Minus(Cardinality(S), TRUE),
         keys    |-> [f \in Fields |-> [k \in Keys |-> Minus(Cardinality(Having(d, S, f, k)), o[f][k] # {})]],
         values  |-> [f \in Fields |-> [k \in Keys |-> [v \in Values |->
                         Minus(Cardinality(With(d, S, f, k, v)), v \in o[f][k])]]],
         support |-> [f \in Fields |-> [t \in Entries |->
                         IF t \in TextsOf(o[f]) THEN Under(d, S, f, t) \ {i} ELSE Under(d, S, f, t)]]]
  BY AggregateIs DEF RemoveObservation
<1>11. RemoveObservation(Aggregate(d, S), i, o) = Aggregate(d, T) BY <1>5, <1>6, <1>7, <1>8, <1>9, <1>10
<1> QED BY <1>11 DEF o, T

LEMMA ReplaceExact ==
    ASSUME NEW S, IsFiniteSet(S), NEW i \in S, NEW d, NEW e,
           \A j \in S : j # i => Observation(e[j]) = Observation(d[j])
    PROVE  ReplaceObservation(Aggregate(d, S), i, Observation(d[i]), Observation(e[i])) = Aggregate(e, S)
<1> DEFINE T == S \ {i}
<1>1. IsFiniteSet(T) /\ i \notin T /\ T \cup {i} = S BY FS_Subset
<1>2. RemoveObservation(Aggregate(d, S), i, Observation(d[i])) = Aggregate(d, T) BY RemoveExact
<1>3. \A j \in T : Observation(e[j]) = Observation(d[j]) OBVIOUS
<1> HIDE DEF T
<1>4. AddObservation(Aggregate(d, T), i, Observation(e[i])) = Aggregate(e, T \cup {i}) BY <1>1, <1>3, AddExact
<1> QED BY <1>1, <1>2, <1>4 DEF ReplaceObservation

-----------------------------------------------------------------------------
(* A plan replaces many observations *)

LEMMA ReplacingSteps ==
    ASSUME NEW s, NEW before, NEW after, NEW changes, NEW g,
           g = [n \in Nat |-> LET rest == IF n = 0 THEN s ELSE g[n - 1]
                              IN  IF n \in changes
                                  THEN ReplaceObservation(rest, n, Observation(before[n]), Observation(after[n])) ELSE rest]
    PROVE  Replacing(s, before, after, changes) = g
<1> DEFINE f == Replacing(s, before, after, changes)
<1>1. f = [n \in Nat |-> LET rest == IF n = 0 THEN s ELSE f[n - 1]
                              IN  IF n \in changes
                                  THEN ReplaceObservation(rest, n, Observation(before[n]), Observation(after[n])) ELSE rest]
  BY DEF Replacing
<1> HIDE DEF f
<1>2. \A n \in Nat : f[n] = g[n]
  <2> DEFINE S == {n \in Nat : f[n] # g[n]}
  <2> SUFFICES ASSUME S # {} PROVE FALSE
    OBVIOUS
  <2>1. PICK n \in S : \A m \in S : n <= m
    <3> HIDE DEF S
    <3>1. S \in SUBSET Nat BY DEF S
    <3> QED BY <3>1, LeastExists, Zenon
  <2>2. n \in Nat /\ f[n] # g[n] OBVIOUS
  <2>3. CASE n = 0 BY <1>1, <2>2, <2>3
  <2>4. CASE n # 0
    <3>1. n - 1 \in Nat /\ n - 1 \notin S BY <2>1, <2>2, <2>4
    <3>2. f[n - 1] = g[n - 1] BY <3>1
    <3>3. /\ f[n] = IF n \in changes
                    THEN ReplaceObservation(f[n - 1], n, Observation(before[n]), Observation(after[n])) ELSE f[n - 1]
          /\ g[n] = IF n \in changes
                    THEN ReplaceObservation(g[n - 1], n, Observation(before[n]), Observation(after[n])) ELSE g[n - 1]
      BY <1>1, <2>2, <2>4
    <3> QED BY <2>2, <3>2, <3>3
  <2> QED BY <2>3, <2>4
<1> QED BY <1>1, <1>2 DEF f

\* The replacement of all cases of a plan gives the snapshot of the new files.
LEMMA ReplacementsAreExact ==
    ASSUME NEW S \in SUBSET Nat, IsFiniteSet(S), NEW d, NEW e, NEW changes \in SUBSET S,
           \A j \in S \ changes : Observation(e[j]) = Observation(d[j])
    PROVE  ReplaceObservations(Aggregate(d, S), d, e, changes) = Aggregate(e, S)
<1> DEFINE mixed(n) == [i \in S |-> IF i <= n THEN e[i] ELSE d[i]]
           g == [n \in Nat |-> Aggregate(mixed(n), S)]
           rest(n) == IF n = 0 THEN Aggregate(d, S) ELSE g[n - 1]
           step(n) == IF n \in changes
                      THEN ReplaceObservation(rest(n), n, Observation(d[n]), Observation(e[n])) ELSE rest(n)
<1>1. CASE changes = {}
  <2>1. Aggregate(e, S) = Aggregate(d, S) BY ZenonT(60), <1>1, AggregateSame
  <2> QED BY <1>1, <2>1 DEF ReplaceObservations
<1>2. CASE changes # {}
  <2>1. \A n \in Nat : g[n] = step(n)
    <3> SUFFICES ASSUME NEW n \in Nat PROVE g[n] = step(n)
      OBVIOUS
    <3> DEFINE b == [i \in S |-> IF i < n THEN e[i] ELSE d[i]]
    <3>1. rest(n) = Aggregate(b, S)
      <4>1. CASE n = 0
        <5>1. \A i \in S : b[i] = d[i] BY <4>1
        <5>2. Aggregate(b, S) = Aggregate(d, S)
          <6> HIDE DEF b
          <6> QED BY <5>1, AggregateSame
        <5> QED BY <4>1, <5>2
      <4>2. CASE n # 0
        <5>1. n - 1 \in Nat /\ \A i \in S : i <= n - 1 <=> i < n BY <4>2
        <5>2. mixed(n - 1) = b BY <5>1
        <5>3. g[n - 1] = Aggregate(mixed(n - 1), S) BY <5>1
        <5> QED BY <4>2, <5>2, <5>3
      <4> QED BY <4>1, <4>2
    <3>2. g[n] = Aggregate(mixed(n), S) OBVIOUS
    <3>3. CASE n \in changes
      <4>1. n \in S /\ b[n] = d[n] /\ mixed(n)[n] = e[n] BY <3>3
      <4>2. \A j \in S : j # n => mixed(n)[j] = b[j]
        <5> SUFFICES ASSUME NEW j \in S, j # n PROVE (j <= n) <=> (j < n)
          OBVIOUS
        <5>1. j \in Nat OBVIOUS
        <5> QED BY <5>1
      <4> HIDE DEF b, mixed
      <4>3. ReplaceObservation(Aggregate(b, S), n, Observation(b[n]), Observation(mixed(n)[n])) = Aggregate(mixed(n), S)
        BY <4>1, <4>2, ReplaceExact
      <4> QED BY <3>1, <3>2, <3>3, <4>1, <4>3
    <3>4. CASE n \notin changes
      <4>1. \A j \in S : Observation(mixed(n)[j]) = Observation(b[j])
        <5> SUFFICES ASSUME NEW j \in S PROVE Observation(mixed(n)[j]) = Observation(b[j])
          OBVIOUS
        <5>1. CASE j = n BY <3>4, <5>1
        <5>2. CASE j # n
          <6>1. j \in Nat /\ ((j <= n) <=> (j < n)) BY <5>2
          <6> QED BY <6>1
        <5> QED BY <5>1, <5>2
      <4> HIDE DEF b, mixed
      <4>2. Aggregate(mixed(n), S) = Aggregate(b, S) BY <4>1, AggregateSame
      <4> QED BY <3>1, <3>2, <3>4, <4>2
    <3> QED BY <3>3, <3>4
  <2>2. g = [n \in Nat |-> step(n)]
    <3> HIDE DEF step
    <3> QED BY <2>1
  <2>3. Replacing(Aggregate(d, S), d, e, changes) = g
    <3> HIDE DEF mixed, g
    <3> QED BY <2>2, ReplacingSteps
  <2>4. LastOf(changes) \in changes /\ \A j \in changes : j <= LastOf(changes)
    BY <1>2, LastExists, FS_Subset
  <2> DEFINE l == LastOf(changes)
  <2>5. \A j \in S : Observation(mixed(l)[j]) = Observation(e[j])
    <3> SUFFICES ASSUME NEW j \in S PROVE Observation(mixed(l)[j]) = Observation(e[j])
      OBVIOUS
    <3>1. CASE j \in changes BY <2>4, <3>1
    <3>2. CASE j \notin changes BY <3>2
    <3> QED BY <3>1, <3>2
  <2>6. g[l] = Aggregate(e, S)
    <3>1. g[l] = Aggregate(mixed(l), S) BY <2>4
    <3> HIDE DEF mixed, g
    <3> QED BY <2>5, <3>1, AggregateSame
  <2> HIDE DEF g
  <2> QED BY <1>2, <2>3, <2>6 DEF ReplaceObservations
<1> QED BY <1>1, <1>2

-----------------------------------------------------------------------------
(* The files of the cases *)

\* Only live cases have data, only ids given out are live, and a queued draft
\* is one of a case that is not live yet.
FilesInv ==
    /\ schema \in Schemas
    /\ live \subseteq used /\ used \subseteq Ids
    /\ drafts = [i \in Ids |-> drafts[i]]
    /\ \A i \in Ids : docs[i].profile \in CaseProfiles \cup {Empty}
    /\ \A i \in Ids : i \notin live => docs[i] = NoDoc
    /\ \A i \in Ids : drafts[i].queued => i \in used \ live /\ drafts[i].profile \in CaseProfiles
    /\ untracked \in BOOLEAN

LEMMA SameFilesKeep ==
    ASSUME FilesInv, UNCHANGED cases, UNCHANGED drafts, schema' \in Schemas, untracked' \in BOOLEAN
    PROVE  FilesInv'
BY DEF FilesInv, cases

\* Profiles of live cases change, or only their facets do.
LEMMA WriteFilesKeep ==
    ASSUME FilesInv, live' = live, used' = used, drafts' = drafts, schema' \in Schemas, untracked' \in BOOLEAN,
           \A i \in Ids : \/ docs'[i] = docs[i]
                          \/ i \in live /\ docs'[i].profile \in CaseProfiles \cup {Empty}
    PROVE  FilesInv'
BY DEF FilesInv

LEMMA AcceptKeepsFiles ==
    ASSUME FilesInv, NEW i \in Ids, NEW p \in CaseProfiles, Accept(i, p)
    PROVE  FilesInv'
<1>1. /\ used' = used \cup {i} /\ i \notin used
      /\ UNCHANGED <<docs, live, schema, untracked>>
  BY DEF Accept, partition
<1>2. \A j \in Ids : drafts'[j] = IF j = i THEN [profile |-> p, facets |-> Project(p, schema), queued |-> TRUE]
                                           ELSE drafts[j]
  BY DEF Accept, FilesInv
<1>3. drafts' = [j \in Ids |-> drafts'[j]] BY DEF Accept, FilesInv
<1>4. \A j \in Ids : drafts'[j].queued => j \in used' \ live' /\ drafts'[j].profile \in CaseProfiles
  BY <1>1, <1>2 DEF FilesInv
<1> QED BY <1>1, <1>3, <1>4 DEF FilesInv

LEMMA InputKeepsFiles ==
    ASSUME DocsInv, FilesInv, NEW i \in Ids, Input(i)
    PROVE  FilesInv'
<1>1. drafts[i].queued /\ UNCHANGED <<used, schema, untracked>> BY DEF Input, partition
<1>2. i \in used /\ i \notin live /\ drafts[i].profile \in CaseProfiles BY <1>1 DEF FilesInv
<1>3. \A j \in Ids : drafts'[j] = IF j = i THEN NoDraft ELSE drafts[j] BY DEF Input, FilesInv
<1>4. drafts' = [j \in Ids |-> drafts'[j]] BY DEF Input, FilesInv
<1>5. CASE UNCHANGED <<docs, live>>
  <2>1. \A j \in Ids : drafts'[j].queued => j \in used' \ live' /\ drafts'[j].profile \in CaseProfiles
    BY <1>1, <1>3, <1>5 DEF FilesInv, NoDraft
  <2> QED BY <1>1, <1>4, <1>5, <2>1 DEF FilesInv
<1>6. CASE docs' = [docs EXCEPT ![i] = Written(i)] /\ live' = live \cup {i}
  <2>1. \A j \in Ids : drafts'[j].queued => j \in used' \ live' /\ drafts'[j].profile \in CaseProfiles
    BY <1>1, <1>3, <1>6 DEF FilesInv, NoDraft
  <2>2. \A j \in Ids : docs'[j] = IF j = i THEN Written(i) ELSE docs[j] BY <1>6 DEF DocsInv
  <2>3. Written(i).profile \in CaseProfiles BY <1>2 DEF Written
  <2>4. live' \subseteq used' BY <1>1, <1>2, <1>6 DEF FilesInv
  <2> QED BY <1>1, <1>4, <1>6, <2>1, <2>2, <2>3, <2>4 DEF FilesInv
<1> QED BY <1>5, <1>6 DEF Input

LEMMA DeleteKeepsFiles ==
    ASSUME DocsInv, FilesInv, (\E i \in Ids : Delete(i)) \/ DeletePartition
    PROVE  FilesInv'
<1>1. /\ live' \subseteq live /\ used' = used /\ drafts' = drafts
      /\ schema' \in Schemas /\ untracked' \in BOOLEAN
  BY CatalogAssumption DEF Delete, DeletePartition, FilesInv, partition
<1>2. \A j \in Ids : docs'[j] = IF j \in live' THEN docs[j] ELSE NoDoc
  <2>1. ASSUME NEW i \in Ids, Delete(i) PROVE \A j \in Ids : docs'[j] = IF j \in live' THEN docs[j] ELSE NoDoc
    <3>1. docs' = [docs EXCEPT ![i] = NoDoc] /\ live' = live \ {i} BY <2>1 DEF Delete
    <3> QED BY <3>1 DEF DocsInv, FilesInv
  <2>2. CASE DeletePartition BY <2>2 DEF DeletePartition
  <2> QED BY <2>1, <2>2
<1>3. \A j \in Ids : docs'[j].profile \in CaseProfiles \cup {Empty} BY <1>2 DEF FilesInv, NoDoc
<1> QED BY <1>1, <1>2, <1>3 DEF FilesInv

LEMMA WritesKeepFiles ==
    ASSUME DocsInv, FilesInv, NEW i \in Ids, NEW p \in CaseProfiles, Update(i, p) \/ RebuildCase(i, p)
    PROVE  FilesInv'
<1>1. docs' = [docs EXCEPT ![i] = Doc(p, Project(p, schema))] /\ i \in live BY DEF Update, RebuildCase, Doc
<1>2. \A j \in Ids : docs'[j] = IF j = i THEN Doc(p, Project(p, schema)) ELSE docs[j] BY <1>1 DEF DocsInv
<1>3. Doc(p, Project(p, schema)).profile \in CaseProfiles \cup {Empty} BY DEF Doc
<1>4. /\ live' = live /\ used' = used /\ drafts' = drafts
      /\ schema' \in Schemas /\ untracked' \in BOOLEAN
  BY DEF Update, RebuildCase, FilesInv, partition
<1> QED BY <1>1, <1>2, <1>3, <1>4, WriteFilesKeep

\* Only the facets of live cases change.
LEMMA FacetsKeepFiles ==
    ASSUME DocsInv, FilesInv,
           \/ \E new \in Schemas : ApplyPlan(new)
           \/ \E i \in Ids : RefreshCaseFacets(i)
           \/ \E selected \in SUBSET Ids : RefreshSelected(selected)
    PROVE  /\ FilesInv'
           /\ live' = live
           /\ \A j \in Ids : /\ docs'[j].profile = docs[j].profile
                             /\ j \notin live => docs'[j] = docs[j]
<1>1. /\ live' = live /\ used' = used /\ drafts' = drafts
      /\ schema' \in Schemas /\ untracked' \in BOOLEAN
  BY DEF ApplyPlan, RefreshCaseFacets, RefreshSelected, FilesInv, partition
<1>2. \A j \in Ids : docs'[j].profile = docs[j].profile /\ (j \notin live => docs'[j] = docs[j])
  <2>1. ASSUME NEW new \in Schemas, ApplyPlan(new)
        PROVE  \A j \in Ids : docs'[j].profile = docs[j].profile /\ (j \notin live => docs'[j] = docs[j])
    <3> DEFINE changes == {i \in Listed(live) : docs[i].facets # Project(docs[i].profile, new)}
    <3>1. changes \subseteq live BY DEF Listed
    <3>2. docs' = [i \in Ids |-> IF i \in changes
                                 THEN [docs[i] EXCEPT !.facets = Project(docs[i].profile, new)] ELSE docs[i]]
      BY <2>1 DEF ApplyPlan
    <3> HIDE DEF changes
    <3> QED BY <3>1, <3>2 DEF DocsInv, Doc
  <2>2. ASSUME NEW i \in Ids, RefreshCaseFacets(i)
        PROVE  \A j \in Ids : docs'[j].profile = docs[j].profile /\ (j \notin live => docs'[j] = docs[j])
    <3>1. docs' = [docs EXCEPT ![i].facets = Project(docs[i].profile, schema)] /\ i \in live
      BY <2>2 DEF RefreshCaseFacets
    <3> QED BY <3>1 DEF DocsInv, Doc
  <2>3. ASSUME NEW selected \in SUBSET Ids, RefreshSelected(selected)
        PROVE  \A j \in Ids : docs'[j].profile = docs[j].profile /\ (j \notin live => docs'[j] = docs[j])
    <3>1. docs' = [i \in Ids |-> IF i \in selected \cap live
                              THEN [docs[i] EXCEPT !.facets = Project(docs[i].profile, schema)] ELSE docs[i]]
      BY <2>3 DEF RefreshSelected
    <3> QED BY <3>1 DEF DocsInv, Doc
  <2> QED BY <2>1, <2>2, <2>3
<1>3. \A j \in Ids : docs'[j] = docs[j] \/ (j \in live /\ docs'[j].profile \in CaseProfiles \cup {Empty})
  BY <1>2 DEF FilesInv
<1> QED BY <1>1, <1>2, <1>3, WriteFilesKeep

LEMMA NextKeepsFiles == DocsInv /\ FilesInv /\ [Next]_vars => FilesInv'
<1> SUFFICES ASSUME DocsInv, FilesInv, [Next]_vars PROVE FilesInv'
  OBVIOUS
<1> USE DEF partition
<1>1. CASE \E i \in Ids, p \in CaseProfiles : Accept(i, p) BY <1>1, AcceptKeepsFiles
<1>2. CASE \E i \in Ids, p \in CaseProfiles : Update(i, p) \/ RebuildCase(i, p) BY <1>2, WritesKeepFiles
<1>3. CASE \E i \in Ids : Input(i) BY <1>3, InputKeepsFiles
<1>4. CASE (\E i \in Ids : Delete(i)) \/ DeletePartition BY <1>4, DeleteKeepsFiles
<1>5. CASE \/ \E new \in Schemas : ApplyPlan(new)
           \/ \E i \in Ids : RefreshCaseFacets(i)
           \/ \E selected \in SUBSET Ids : RefreshSelected(selected)
  BY <1>5, FacetsKeepFiles
<1>6. CASE (\E e \in unsent : Publish(e)) \/ Assemble \/ CommitByHand
  <2>1. UNCHANGED <<cases, drafts, schema, untracked>> BY <1>6 DEF Publish, Assemble, CommitByHand
  <2> QED BY <2>1, SameFilesKeep DEF FilesInv
<1>7. CASE \E new \in Schemas : PutSchema(new) BY <1>7, SameFilesKeep DEF PutSchema, FilesInv
<1>8. CASE \E new \in {"active", "inactive"} : PutPartition(new) \/ RecreatePartition(new)
  BY <1>8, SameFilesKeep DEF PutPartition, RecreatePartition, FilesInv
<1>9. CASE UNCHANGED vars BY <1>9, SameFilesKeep DEF vars, FilesInv
<1> QED BY <1>1, <1>2, <1>3, <1>4, <1>5, <1>6, <1>7, <1>8, <1>9 DEF Next

LEMMA InitFiles == Init => DocsInv /\ FilesInv
<1> SUFFICES ASSUME Init PROVE DocsInv /\ FilesInv
  OBVIOUS
<1>1. DocsInv BY DEF Init, DocsInv, NoDoc, Doc
<1>2. \A i \in Ids : docs[i] = NoDoc /\ drafts[i] = NoDraft BY DEF Init
<1>3. drafts = [i \in Ids |-> drafts[i]] /\ schema \in Schemas /\ live = {} /\ used = {} /\ untracked = FALSE
  BY CatalogAssumption DEF Init
<1>4. NoDoc.profile = Empty /\ NoDraft.queued = FALSE BY DEF NoDoc, NoDraft
<1> QED BY <1>1, <1>2, <1>3, <1>4 DEF FilesInv

LEMMA FiniteCases == ASSUME FilesInv PROVE live \in SUBSET Nat /\ IsFiniteSet(live) /\ live \subseteq Ids
BY StatisticsAssumption, FS_Subset DEF FilesInv

-----------------------------------------------------------------------------
(* Exactness: snapshot and indexes are those of the files *)

ExactInv ==
    \/ untracked
    \/ /\ statistics = Aggregate(docs, live)
       /\ semantic = SemanticIndex(docs, live) /\ facet = FacetIndex(docs, live)

\* Cases that are not live do not count.
LEMMA SameCasesSameIndexes ==
    ASSUME NEW d, NEW e, NEW S, \A i \in S : e[i] = d[i]
    PROVE  SemanticIndex(e, S) = SemanticIndex(d, S) /\ FacetIndex(e, S) = FacetIndex(d, S)
<1>1. \A i \in Listed(S) : e[i] = d[i] BY DEF Listed
<1>2. \A k : \A f : {i \in Listed(S) : e[i][f][k] # {}} = {i \in Listed(S) : d[i][f][k] # {}} BY <1>1
<1>3. KeyCounts(e, Listed(S), "profile") = KeyCounts(d, Listed(S), "profile") BY <1>2 DEF KeyCounts
<1>4. KeyCounts(e, Listed(S), "facets") = KeyCounts(d, Listed(S), "facets") BY <1>2 DEF KeyCounts
<1> QED BY <1>3, <1>4 DEF SemanticIndex, FacetIndex

LEMMA NoCases ==
    ASSUME NEW d
    PROVE  SemanticIndex(d, {}) = NoIndex /\ FacetIndex(d, {}) = NoIndex /\ Aggregate(d, {}) = Zero
<1>1. Listed({}) = {} /\ Cardinality({}) = 0 BY FS_EmptySet DEF Listed
<1>2. \A f, k : {i \in {} : d[i][f][k] # {}} = {} OBVIOUS
<1>3. KeyCounts(d, {}, "profile") = [k \in Keys |-> 0] /\ KeyCounts(d, {}, "facets") = [k \in Keys |-> 0]
  BY <1>1, <1>2 DEF KeyCounts
<1>4. \A f, k, v : Having(d, {}, f, k) = {} /\ With(d, {}, f, k, v) = {} BY DEF Having, With
<1>6. \A f, e : Under(d, {}, f, e) = {} BY DEF Under
<1>5. Aggregate(d, {}) = Zero BY <1>1, <1>4, <1>6, AggregateIs DEF Zero
<1> QED BY <1>1, <1>3, <1>5 DEF SemanticIndex, FacetIndex, NoIndex

LEMMA SameKeepExact ==
    ASSUME ExactInv, UNCHANGED cases, UNCHANGED derived, untracked' = untracked
    PROVE  ExactInv'
BY DEF ExactInv, cases, derived

LEMMA InputKeepsExact ==
    ASSUME DocsInv, FilesInv, ExactInv, NEW i \in Ids, Input(i)
    PROVE  ExactInv'
<1>1. i \notin live BY DEF Input, FilesInv
<1>2. CASE UNCHANGED <<docs, live, derived, events>>
  BY <1>2 DEF Input, ExactInv, derived
<1>3. CASE /\ docs' = [docs EXCEPT ![i] = Written(i)] /\ live' = live \cup {i} /\ RefreshIndexes
           /\ statistics' = AddObservation(statistics, i, Observation(docs'[i]))
  <2>1. untracked' = untracked BY DEF Input
  <2>2. \A j \in live : docs'[j] = docs[j] BY <1>1, <1>3, FiniteCases DEF DocsInv
  <2>3. statistics = Aggregate(docs, live) => statistics' = Aggregate(docs', live')
    <3>1. \A j \in live : Observation(docs'[j]) = Observation(docs[j]) BY <2>2
    <3>2. AddObservation(Aggregate(docs, live), i, Observation(docs'[i])) = Aggregate(docs', live \cup {i})
      BY <1>1, <3>1, FiniteCases, AddExact
    <3> QED BY <1>3, <3>2
  <2> QED BY <1>3, <2>1, <2>3 DEF ExactInv, RefreshIndexes
<1> QED BY <1>2, <1>3 DEF Input

LEMMA UpdateKeepsExact ==
    ASSUME DocsInv, FilesInv, ExactInv, NEW i \in Ids, NEW p \in CaseProfiles, Update(i, p)
    PROVE  ExactInv'
<1>1. /\ i \in live /\ live' = live /\ untracked' = untracked /\ RefreshIndexes
      /\ docs' = [docs EXCEPT ![i] = [profile |-> p, facets |-> Project(p, schema)]]
      /\ statistics' = ReplaceObservation(statistics, i, Observation(docs[i]), Observation(docs'[i]))
  BY DEF Update
<1>2. \A j \in live : j # i => docs'[j] = docs[j] BY <1>1, FiniteCases DEF DocsInv
<1>3. \A j \in live : j # i => Observation(docs'[j]) = Observation(docs[j]) BY <1>2
<1>4. ReplaceObservation(Aggregate(docs, live), i, Observation(docs[i]), Observation(docs'[i])) = Aggregate(docs', live)
  BY ZenonT(60), <1>1, <1>3, FiniteCases, ReplaceExact
<1> QED BY <1>1, <1>4 DEF ExactInv, RefreshIndexes

LEMMA DeleteKeepsExact ==
    ASSUME DocsInv, FilesInv, ExactInv, NEW i \in Ids, Delete(i)
    PROVE  ExactInv'
<1>1. i \in live /\ live' = live \ {i} /\ docs' = [docs EXCEPT ![i] = NoDoc] BY DEF Delete
<1>2. CASE status = "absent" BY <1>2 DEF Delete, ExactInv
<1>3. CASE status # "absent"
  <2>1. /\ RefreshIndexes /\ untracked' = untracked
        /\ statistics' = RemoveObservation(statistics, i, Observation(docs[i]))
    BY <1>3 DEF Delete
  <2>2. RemoveObservation(Aggregate(docs, live), i, Observation(docs[i])) = Aggregate(docs, live \ {i})
    BY <1>1, FiniteCases, RemoveExact
  <2>3. \A j \in live' : Observation(docs'[j]) = Observation(docs[j]) BY <1>1, FiniteCases DEF DocsInv
  <2>4. Aggregate(docs', live') = Aggregate(docs, live') BY <2>3, AggregateSame
  <2> QED BY <1>1, <2>1, <2>2, <2>4 DEF ExactInv, RefreshIndexes
<1> QED BY <1>2, <1>3

LEMMA ApplyPlanKeepsExact ==
    ASSUME DocsInv, FilesInv, ExactInv, NEW new \in Schemas, ApplyPlan(new)
    PROVE  ExactInv'
<1> DEFINE changes == {i \in Listed(live) : docs[i].facets # Project(docs[i].profile, new)}
           after == [i \in Ids |-> IF i \in changes
                                   THEN [docs[i] EXCEPT !.facets = Project(docs[i].profile, new)] ELSE docs[i]]
<1>1. /\ live' = live /\ untracked' = untracked /\ RefreshIndexes /\ docs' = after
      /\ statistics' = ReplaceObservations(statistics, docs, after, changes)
  BY DEF ApplyPlan
<1>2. changes \in SUBSET live BY DEF Listed
<1>3. \A j \in live \ changes : after[j] = docs[j]
  <2> HIDE DEF changes
  <2> QED BY FiniteCases
<1> HIDE DEF changes, after
<1>4. \A j \in live \ changes : Observation(after[j]) = Observation(docs[j]) BY <1>3
<1>5. ReplaceObservations(Aggregate(docs, live), docs, after, changes) = Aggregate(after, live)
  BY <1>2, <1>4, FiniteCases, ReplacementsAreExact
<1> QED BY <1>1, <1>5 DEF ExactInv, RefreshIndexes

\* What writes past the statistics either changes nothing or is tracked no longer.
LEMMA BypassKeepsExact ==
    ASSUME DocsInv, FilesInv, ExactInv,
           \/ \E i \in Ids : RefreshCaseFacets(i)
           \/ \E i \in Ids, p \in CaseProfiles : RebuildCase(i, p)
           \/ \E selected \in SUBSET Ids : RefreshSelected(selected)
    PROVE  ExactInv'
<1>1. /\ live' = live /\ semantic' = semantic /\ statistics' = statistics
      /\ facet' = facet \/ facet' = FacetIndex(docs', live)
      /\ untracked' = (untracked \/ docs' # docs)
  BY DEF RefreshCaseFacets, RebuildCase, RefreshSelected, derived
<1>2. CASE untracked' BY <1>2 DEF ExactInv
<1>3. CASE ~untracked'
  <2>1. docs' = docs /\ ~untracked BY <1>1, <1>3
  <2> QED BY <1>1, <2>1 DEF ExactInv
<1> QED BY <1>2, <1>3

LEMMA DeletePartitionKeepsExact ==
    ASSUME ExactInv, DeletePartition
    PROVE  ExactInv'
<1>1. /\ untracked' = (untracked \/ live # {}) /\ semantic' = NoIndex /\ facet' = NoIndex
      /\ statistics' = statistics /\ live' \subseteq live
  BY DEF DeletePartition
<1>2. CASE live # {} BY <1>1, <1>2 DEF ExactInv
<1>3. CASE live = {}
  <2>1. live' = {} BY <1>1, <1>3
  <2>2. Aggregate(docs', {}) = Aggregate(docs, {}) BY NoCases
  <2> QED BY <1>1, <1>3, <2>1, <2>2, NoCases DEF ExactInv
<1> QED BY <1>2, <1>3

LEMMA NextKeepsExact == DocsInv /\ FilesInv /\ ExactInv /\ [Next]_vars => ExactInv'
<1> SUFFICES ASSUME DocsInv, FilesInv, ExactInv, [Next]_vars PROVE ExactInv'
  OBVIOUS
<1>1. CASE \E i \in Ids, p \in CaseProfiles : Accept(i, p)
  BY <1>1 DEF Accept, ExactInv, derived
<1>2. CASE \E i \in Ids, p \in CaseProfiles : Update(i, p) BY <1>2, UpdateKeepsExact
<1>3. CASE \E i \in Ids : Input(i) BY <1>3, InputKeepsExact
<1>4. CASE \E i \in Ids : Delete(i) BY <1>4, DeleteKeepsExact
<1>5. CASE \/ \E i \in Ids : RefreshCaseFacets(i)
           \/ \E i \in Ids, p \in CaseProfiles : RebuildCase(i, p)
           \/ \E selected \in SUBSET Ids : RefreshSelected(selected)
  BY <1>5, BypassKeepsExact
<1>6. CASE (\E e \in unsent : Publish(e)) \/ Assemble \/ CommitByHand
  BY <1>6, SameKeepExact DEF Publish, Assemble, CommitByHand
<1>7. CASE \E new \in Schemas : ApplyPlan(new) BY <1>7, ApplyPlanKeepsExact
<1>8. CASE \E new \in Schemas : PutSchema(new) BY <1>8, SameKeepExact DEF PutSchema
<1>9. CASE \E new \in {"active", "inactive"} : PutPartition(new) \/ RecreatePartition(new)
  BY <1>9, SameKeepExact DEF PutPartition, RecreatePartition
<1>10. CASE DeletePartition BY <1>10, DeletePartitionKeepsExact
<1>11. CASE UNCHANGED vars
  <2>1. UNCHANGED <<cases, derived, untracked>> BY <1>11 DEF vars, cases, derived
  <2> QED BY <2>1, SameKeepExact
<1> QED
  BY <1>1, <1>2, <1>3, <1>4, <1>5, <1>6, <1>7, <1>8, <1>9, <1>10, <1>11 DEF Next

CatalogInv == DocsInv /\ FilesInv /\ ExactInv

\* However schemas, inputs, updates, deletes and drains follow each other, the
\* files, the snapshot and both indexes stay of one mind, until something
\* writes case files past the statistics.
THEOREM Exactness == Spec => []CatalogInv
<1>1. Init => CatalogInv
  <2>1. Init => ExactInv BY NoCases DEF Init, ExactInv
  <2> QED BY <2>1, InitFiles DEF CatalogInv
<1>2. CatalogInv /\ [Next]_vars => CatalogInv'
  BY NextKeeps, NextKeepsFiles, NextKeepsExact DEF CatalogInv
<1> QED BY <1>1, <1>2, PTL DEF Spec

-----------------------------------------------------------------------------
(* What the exact snapshot answers *)

LEMMA SupportIs ==
    ASSUME NEW d, NEW S, NEW f \in Fields, NEW k \in Keys, NEW v \in Values
    PROVE  Supporting(Aggregate(d, S), f, k, {v}) =
              {i \in S : \E j \in Keys : \E w \in Observation(d[i])[f][j] : Text[j][w] = Text[k][v]}
<1>1. Text[k][v] \in Entries BY DEF Entries
<1>2. Aggregate(d, S).support[f][Text[k][v]] = Under(d, S, f, Text[k][v]) BY <1>1, AggregateIs
<1> QED BY <1>2 DEF Supporting, Under, TextsOf

\* The statistics kept one observation at a time are those built over all files,
\* and a support query names exactly the cases with an entry of its text, under
\* whatever key and value that text was written.
THEOREM StatisticsAreAlwaysExact == Spec => []StatisticsAreExact
<1>1. CatalogInv => StatisticsAreExact
  <2> SUFFICES ASSUME CatalogInv, ~untracked, NEW k \in Keys, NEW v \in Values
               PROVE  LET has == {[field |-> "facet", key |-> k, values |-> {v}]}
                          had == {[field |-> "semantic_profile", key |-> k, values |-> {v}]}
                          of(f) == {i \in live : \E j \in Keys : \E w \in Observation(docs[i])[f][j] :
                                                     Text[j][w] = Text[k][v]}
                      IN  /\ SupportingAll(statistics, has \cup had) = of("facet") \cap of("semantic_profile")
                          /\ SupportingAny(statistics, has \cup had) = of("facet") \cup of("semantic_profile")
    BY DEF StatisticsAreExact, CatalogInv, ExactInv
  <2> DEFINE has == {[field |-> "facet", key |-> k, values |-> {v}]}
             had == {[field |-> "semantic_profile", key |-> k, values |-> {v}]}
             of(f) == {i \in live : \E j \in Keys : \E w \in Observation(docs[i])[f][j] :
                                        Text[j][w] = Text[k][v]}
  <2>1. statistics = Aggregate(docs, live) BY DEF CatalogInv, ExactInv
  <2>2. \A f \in Fields : Supporting(statistics, f, k, {v}) = of(f) BY <2>1, SupportIs
  <2>3. \A f : of(f) \subseteq Ids BY FiniteCases DEF CatalogInv
  <2> HIDE DEF of
  <2>4. Supporting(statistics, "facet", k, {v}) = of("facet") /\ of("facet") \subseteq Ids
    BY <2>2, <2>3 DEF Fields
  <2>5. Supporting(statistics, "semantic_profile", k, {v}) = of("semantic_profile") BY <2>2 DEF Fields
  <2>6. SupportingAll(statistics, has \cup had) = of("facet") \cap of("semantic_profile")
    BY <2>4, <2>5 DEF SupportingAll
  <2>7. SupportingAny(statistics, has \cup had) = of("facet") \cup of("semantic_profile")
    BY <2>4, <2>5 DEF SupportingAny
  <2> QED BY <2>6, <2>7 DEF of
<1> QED BY <1>1, Exactness, PTL

\* Folding the keys of a profile whose keys do not change when folded is nothing.
LEMMA PlainNormalized ==
    ASSUME NEW p, Plain(p), NEW k \in Keys
    PROVE  Normalized(p)[k] # {} <=> p[k] # {}
<1> DEFINE full == {j \in Keys : Fold[j] = k /\ p[j] # {}}
           last == CHOOSE j \in full : \A i \in full : Rank[i] <= Rank[j]
<1>1. Normalized(p)[k] = IF full = {} THEN {} ELSE p[last] BY DEF Normalized
<1>2. full \subseteq {k} /\ (k \in full <=> p[k] # {}) BY DEF Plain
<1> HIDE DEF full, last
<1>3. CASE k \in full
  <2>1. full = {k} BY <1>2, <1>3
  <2>2. Rank[k] <= Rank[k] BY StatisticsAssumption
  <2>3. last \in full BY <2>1, <2>2 DEF last
  <2>4. last = k BY <2>1, <2>3
  <2> QED BY <1>1, <1>2, <1>3, <2>4
<1>4. CASE k \notin full BY <1>1, <1>2, <1>4
<1> QED BY <1>3, <1>4

LEMMA AllListed ==
    ASSUME NEW S, IsFiniteSet(S), S \subseteq Nat, Cardinality(S) <= Cap
    PROVE  Listed(S) = S
<1> SUFFICES ASSUME NEW i \in S PROVE Cardinality({j \in S : j < i}) < Cap
  BY DEF Listed
<1> DEFINE T == {j \in S : j < i}
<1>1. T \subseteq S /\ T # S OBVIOUS
<1> HIDE DEF T
<1>2. Cardinality(T) <= Cardinality(S) /\ Cardinality(T) # Cardinality(S) BY <1>1, FS_Subset
<1>3. Cardinality(T) \in Nat /\ Cardinality(S) \in Nat BY <1>1, FS_Subset, FS_CardinalityType
<1>4. Cardinality(T) < Cap BY <1>2, <1>3, StatisticsAssumption
<1> QED BY <1>4 DEF T

\* A drain that reads index and statistics of an ordinary partition is told the
\* same counts by both.
THEOREM EvidenceAlwaysAgrees == Spec => []EvidenceAgrees
<1>1. CatalogInv => EvidenceAgrees
  <2> SUFFICES ASSUME CatalogInv, ~untracked, ~(Cardinality(live) > Cap), \A i \in live : Plain(docs[i].profile)
               PROVE  /\ semantic.cases = statistics.count
                      /\ semantic.keys = statistics.keys["semantic_profile"]
                      /\ (\A i \in live : Plain(docs[i].facets)) => facet.keys = statistics.keys["facet"]
    BY DEF EvidenceAgrees
  <2>1. statistics = Aggregate(docs, live) /\ semantic = SemanticIndex(docs, live) /\ facet = FacetIndex(docs, live)
    BY DEF CatalogInv, ExactInv
  <2>2. Listed(live) = live
    <3>1. IsFiniteSet(live) /\ live \subseteq Nat BY FiniteCases DEF CatalogInv
    <3>2. Cardinality(live) <= Cap BY <3>1, FS_CardinalityType, StatisticsAssumption
    <3> QED BY <3>1, <3>2, AllListed
  <2>3. semantic.cases = statistics.count BY <2>1, <2>2, AggregateIs DEF SemanticIndex
  <2>4. semantic.keys = statistics.keys["semantic_profile"]
    <3>1. \A k \in Keys : Having(docs, live, "semantic_profile", k) = {i \in live : docs[i]["profile"][k] # {}}
      BY PlainNormalized DEF Having, Observation
    <3>2. statistics.keys["semantic_profile"] = [k \in Keys |-> Cardinality(Having(docs, live, "semantic_profile", k))]
      BY <2>1, AggregateIs DEF Fields
    <3>3. semantic.keys = [k \in Keys |-> Cardinality({i \in live : docs[i]["profile"][k] # {}})]
      BY <2>1, <2>2 DEF SemanticIndex, KeyCounts
    <3> QED BY <3>1, <3>2, <3>3
  <2>5. ASSUME \A i \in live : Plain(docs[i].facets) PROVE facet.keys = statistics.keys["facet"]
    <3>1. \A k \in Keys : Having(docs, live, "facet", k) = {i \in live : docs[i]["facets"][k] # {}}
      BY <2>5, PlainNormalized DEF Having, Observation
    <3>2. statistics.keys["facet"] = [k \in Keys |-> Cardinality(Having(docs, live, "facet", k))]
      BY <2>1, AggregateIs DEF Fields
    <3>3. facet.keys = [k \in Keys |-> Cardinality({i \in live : docs[i]["facets"][k] # {}})]
      BY <2>1, <2>2 DEF FacetIndex, KeyCounts
    <3> QED BY <3>1, <3>2, <3>3
  <2> QED BY <2>3, <2>4, <2>5
<1> QED BY <1>1, Exactness, PTL

-----------------------------------------------------------------------------
(* Types *)

LEMMA SchemaType ==
    ASSUME NEW s \in Schemas
    PROVE  /\ DOMAIN s = 1..Len(s) /\ IsFiniteSet(DOMAIN s) /\ DOMAIN s \subseteq Nat
           /\ \A i \in DOMAIN s : s[i].key \in Keys /\ s[i].enabled \in BOOLEAN
<1> DEFINE D == [key : Keys, enabled : BOOLEAN]
<1>1. s \in Seq(D) BY CatalogAssumption
<1>2. \A x \in D : x.key \in Keys /\ x.enabled \in BOOLEAN OBVIOUS
<1> HIDE DEF D
<1>3. Len(s) \in Nat /\ DOMAIN s = 1..Len(s) /\ \A i \in DOMAIN s : s[i] \in D BY <1>1
<1>4. IsFiniteSet(1..Len(s)) BY <1>3, FS_Interval
<1> QED BY <1>2, <1>3, <1>4

LEMMA ProjectType ==
    ASSUME NEW p \in Profiles, NEW s \in Schemas
    PROVE  Project(p, s) \in Profiles
<1> SUFFICES ASSUME NEW k \in Keys PROVE Project(p, s)[k] \in SUBSET Values
  BY DEF Project, Profiles
<1> DEFINE same == {i \in DOMAIN s : s[i].enabled /\ Fold[s[i].key] = Fold[k]}
           full == {i \in same : p[s[i].key] # {}}
<1>1. Project(p, s)[k] = IF full # {} /\ s[LastOf(same)].key = k THEN p[s[LastOf(full)].key] ELSE {}
  BY DEF Project
<1>2. full \in SUBSET Nat /\ IsFiniteSet(full) /\ full \subseteq DOMAIN s BY SchemaType, FS_Subset
<1> HIDE DEF same, full
<1>3. CASE full # {}
  <2>1. LastOf(full) \in DOMAIN s BY <1>2, <1>3, LastExists
  <2>2. s[LastOf(full)].key \in Keys BY <2>1, SchemaType
  <2> QED BY <1>1, <2>2 DEF Profiles
<1>4. CASE full = {} BY <1>1, <1>4
<1> QED BY SMTT(60), <1>3, <1>4

\* The projection of a finite profile is finite: each of its values is one of
\* the profile under the key of a definition.
LEMMA ProjectFinite ==
    ASSUME NEW p \in Profiles, IsFiniteSet(Pairs(p)), NEW s \in Schemas
    PROVE  IsFiniteSet(Pairs(Project(p, s)))
<1> DEFINE same(k) == {i \in DOMAIN s : s[i].enabled /\ Fold[s[i].key] = Fold[k]}
           full(k) == {i \in same(k) : p[s[i].key] # {}}
           Q == Pairs(Project(p, s))
           origin == [x \in Q |-> <<LastOf(same(x.key)), [key |-> s[LastOf(full(x.key))].key, value |-> x.value]>>]
           T == (DOMAIN s) \X Pairs(p)
<1>1. IsFiniteSet(DOMAIN s) /\ DOMAIN s \subseteq Nat BY SchemaType
<1>2. \A i \in DOMAIN s : s[i].key \in Keys BY SchemaType
<1>3. IsFiniteSet(T) BY <1>1, FS_Product
<1>4. \A x \in Q : /\ x.key \in Keys /\ x.value \in Values /\ x = [key |-> x.key, value |-> x.value]
                   /\ LastOf(same(x.key)) \in DOMAIN s /\ s[LastOf(same(x.key))].key = x.key
                   /\ LastOf(full(x.key)) \in DOMAIN s
                   /\ x.value \in p[s[LastOf(full(x.key))].key]
  <2> SUFFICES ASSUME NEW x \in Q
               PROVE  /\ x.key \in Keys /\ x.value \in Values /\ x = [key |-> x.key, value |-> x.value]
                      /\ LastOf(same(x.key)) \in DOMAIN s /\ s[LastOf(same(x.key))].key = x.key
                      /\ LastOf(full(x.key)) \in DOMAIN s
                      /\ x.value \in p[s[LastOf(full(x.key))].key]
    OBVIOUS
  <2>1. x \in [key : Keys, value : Values] /\ x.value \in Project(p, s)[x.key] BY DEF Pairs
  <2>2. x.key \in Keys /\ x.value \in Values /\ x = [key |-> x.key, value |-> x.value] BY SMTT(60), <2>1
  <2> DEFINE k == x.key
  <2>3. Project(p, s)[k] = IF full(k) # {} /\ s[LastOf(same(k))].key = k THEN p[s[LastOf(full(k))].key] ELSE {}
    BY <2>2 DEF Project
  <2>4. full(k) # {} /\ s[LastOf(same(k))].key = k /\ x.value \in p[s[LastOf(full(k))].key]
    <3> HIDE DEF same, full
    <3> QED BY <2>1, <2>3
  <2>5. full(k) \subseteq DOMAIN s /\ same(k) \subseteq DOMAIN s /\ full(k) \subseteq same(k) OBVIOUS
  <2> HIDE DEF same, full
  <2>6. IsFiniteSet(full(k)) /\ IsFiniteSet(same(k)) /\ full(k) \in SUBSET Nat /\ same(k) \in SUBSET Nat /\ same(k) # {}
    BY <1>1, <2>4, <2>5, FS_Subset
  <2>7. LastOf(full(k)) \in DOMAIN s /\ LastOf(same(k)) \in DOMAIN s
    BY <2>4, <2>5, <2>6, LastExists
  <2> QED BY <2>2, <2>4, <2>7
<1> HIDE DEF same, full, Q
<1>5. origin \in [Q -> T]
  <2> SUFFICES ASSUME NEW x \in Q PROVE origin[x] \in T
    OBVIOUS
  <2> DEFINE y == [key |-> s[LastOf(full(x.key))].key, value |-> x.value]
  <2>1. y \in [key : Keys, value : Values] /\ y.value \in p[y.key] BY <1>2, <1>4
  <2>2. y \in Pairs(p) BY <2>1 DEF Pairs
  <2>3. origin[x] = <<LastOf(same(x.key)), y>> OBVIOUS
  <2> HIDE DEF y, origin
  <2> QED BY <1>4, <2>2, <2>3
<1>6. \A x, y \in Q : origin[x] = origin[y] => x = y
  <2> SUFFICES ASSUME NEW x \in Q, NEW y \in Q, origin[x] = origin[y] PROVE x = y
    OBVIOUS
  <2>1. LastOf(same(x.key)) = LastOf(same(y.key)) /\ x.value = y.value OBVIOUS
  <2>2. x.key = y.key BY <1>4, <2>1
  <2> QED BY <1>4, <2>1, <2>2
<1>7. origin \in Injection(Q, T) BY <1>5, <1>6 DEF Injection, IsInjective
<1> HIDE DEF origin, T
<1>8. IsFiniteSet(Q) BY <1>3, <1>7, FS_Injection
<1> QED BY <1>8 DEF Q

LEMMA ProfileType ==
    ASSUME NEW p \in CaseProfiles \cup {Empty}
    PROVE  p \in Profiles /\ IsFiniteSet(Pairs(p))
<1>1. CASE p \in CaseProfiles BY <1>1, CatalogAssumption
<1>2. CASE p = Empty
  <2>1. Pairs(p) = {} BY <1>2 DEF Pairs, Empty
  <2> QED BY <1>2, <2>1, FS_EmptySet DEF Empty, Profiles
<1> QED BY <1>1, <1>2

FacetsInv == \A i \in Ids : docs[i].facets \in Profiles /\ IsFiniteSet(Pairs(docs[i].facets))

\* Facets that change are projected: their type is that of a projection.
LEMMA NextKeepsFacets ==
    ASSUME FacetsInv, Projected, FilesInv'
    PROVE  FacetsInv'
<1> SUFFICES ASSUME NEW i \in Ids PROVE docs'[i].facets \in Profiles /\ IsFiniteSet(Pairs(docs'[i].facets))
  BY DEF FacetsInv
<1>1. CASE docs'[i] = docs[i] BY <1>1 DEF FacetsInv
<1>2. CASE i \in live' /\ docs'[i] # docs[i]
  <2>1. docs'[i].facets = Project(docs'[i].profile, schema') BY <1>2 DEF Projected
  <2>2. docs'[i].profile \in Profiles /\ IsFiniteSet(Pairs(docs'[i].profile)) /\ schema' \in Schemas
    BY ProfileType DEF FilesInv
  <2> QED BY <2>1, <2>2, ProjectType, ProjectFinite
<1>3. CASE i \notin live'
  <2>1. docs'[i].facets = Empty BY <1>3 DEF FilesInv, NoDoc
  <2> QED BY <2>1, ProfileType
<1> QED BY <1>1, <1>2, <1>3

\* The counts of a snapshot, an exact one or not.
Counts(s) == s.count \in Nat /\ s.keys \in [Fields -> [Keys -> Nat]]

LEMMA AddCounts ==
    ASSUME NEW s, NEW id, NEW o, Counts(s)
    PROVE  Counts(AddObservation(s, id, o))
BY DEF Counts, AddObservation, Plus

LEMMA RemoveCounts ==
    ASSUME NEW s, NEW id, NEW o, Counts(s)
    PROVE  Counts(RemoveObservation(s, id, o))
BY DEF Counts, RemoveObservation, Minus

LEMMA ReplaceCounts ==
    ASSUME NEW s, NEW before, NEW after, NEW changes \in SUBSET Nat, IsFiniteSet(changes), Counts(s)
    PROVE  Counts(ReplaceObservations(s, before, after, changes))
<1> DEFINE f == Replacing(s, before, after, changes)
           new(r, n) == IF n \in changes
                        THEN ReplaceObservation(r, n, Observation(before[n]), Observation(after[n])) ELSE r
           bad == {n \in Nat : ~Counts(f[n])}
<1>1. f = [n \in Nat |-> LET rest == IF n = 0 THEN s ELSE f[n - 1]
                              IN  IF n \in changes
                                  THEN ReplaceObservation(rest, n, Observation(before[n]), Observation(after[n])) ELSE rest]
  BY DEF Replacing
<1>2. \A r, n : Counts(r) => Counts(new(r, n)) BY AddCounts, RemoveCounts DEF ReplaceObservation
<1> HIDE DEF f
<1>3. f[0] = new(s, 0) /\ \A n \in Nat : n # 0 => f[n] = new(f[n - 1], n) BY <1>1
<1> HIDE DEF new
<1>4. ASSUME bad # {} PROVE FALSE
  <2>1. PICK n \in bad : \A m \in bad : n <= m
    <3>1. bad \in SUBSET Nat OBVIOUS
    <3> HIDE DEF bad
    <3> QED BY <1>4, <3>1, LeastExists, Zenon
  <2>2. n \in Nat /\ ~Counts(f[n]) BY <2>1
  <2>3. CASE n = 0 BY <1>2, <1>3, <2>2, <2>3
  <2>4. CASE n # 0
    <3>1. n - 1 \in Nat /\ n - 1 \notin bad BY <2>1, <2>2, <2>4
    <3>2. Counts(f[n - 1]) BY <3>1
    <3> QED BY <1>2, <1>3, <2>2, <2>4, <3>2
  <2> QED BY <2>3, <2>4
<1>5. changes # {} => LastOf(changes) \in Nat BY LastExists
<1>6. changes # {} => Counts(f[LastOf(changes)]) BY <1>4, <1>5
<1> QED BY <1>6 DEF ReplaceObservations, f

RestInv ==
    /\ status \in {"absent", "active", "inactive"}
    /\ semantic.cases \in Nat /\ facet.cases \in Nat /\ Counts(statistics)
    /\ dirty \in BOOLEAN
    /\ \A e \in unsent : e.case \in used /\ e.at \in 0..MaxOps
    /\ ops \in 0..MaxOps /\ bypass \in 0..MaxBypass

LEMMA IndexType ==
    ASSUME NEW d, NEW S, IsFiniteSet(S)
    PROVE  SemanticIndex(d, S).cases \in Nat /\ FacetIndex(d, S).cases \in Nat
<1>1. Cardinality(Listed(S)) \in Nat BY FS_Subset, FS_CardinalityType DEF Listed
<1> QED BY <1>1 DEF SemanticIndex, FacetIndex

LEMMA RequestType == ASSUME RestInv, Request PROVE ops' \in 0..MaxOps
BY CatalogAssumption DEF RestInv, Request

LEMMA BypassType == ASSUME RestInv, Bypass PROVE ops' \in 0..MaxOps /\ bypass' \in 0..MaxBypass
BY CatalogAssumption DEF RestInv, Request, Bypass

\* An edit owes one event.
LEMMA EditOwes ==
    ASSUME RestInv, Request, NEW i \in used, used' = used, NEW kind, NEW changed, NEW facets,
           unsent' = unsent \cup {Event(i, kind, changed, facets)}
    PROVE  \A e \in unsent' : e.case \in used' /\ e.at \in 0..MaxOps
<1> DEFINE new == Event(i, kind, changed, facets)
<1>1. new.case = i /\ new.at = ops' BY DEF Event
<1> HIDE DEF new
<1>2. unsent' = unsent \cup {new} BY DEF new
<1> QED BY <1>1, <1>2, RequestType DEF RestInv

LEMMA WritesKeepRest ==
    ASSUME FilesInv, FilesInv', RestInv, NEW i \in Ids, NEW p \in CaseProfiles,
           Accept(i, p) \/ Update(i, p) \/ RebuildCase(i, p)
    PROVE  RestInv'
<1> USE DEF partition, derived
<1>1. CASE Accept(i, p) BY <1>1, RequestType DEF Accept, RestInv, journal
<1>2. CASE Update(i, p)
  <2>1. Counts(statistics') BY <1>2, AddCounts, RemoveCounts DEF Update, ReplaceObservation, RestInv
  <2>2. ops' \in 0..MaxOps /\ Request BY <1>2, RequestType DEF Update
  <2>3. i \in used /\ used' = used BY <1>2 DEF Update, FilesInv
  <2>4. \E changed : unsent' = unsent \cup {Event(i, "update", changed, docs'[i].facets)} BY <1>2 DEF Update
  <2>5. \A e \in unsent' : e.case \in used' /\ e.at \in 0..MaxOps BY <2>2, <2>3, <2>4, EditOwes
  <2>6. IsFiniteSet(live') BY StatisticsAssumption, FS_Subset DEF FilesInv
  <2>7. semantic'.cases \in Nat /\ facet'.cases \in Nat BY <1>2, <2>6, IndexType DEF Update, RefreshIndexes
  <2>8. UNCHANGED <<status, dirty, bypass>> BY <1>2 DEF Update
  <2> QED BY <2>1, <2>2, <2>5, <2>7, <2>8 DEF RestInv
<1>3. CASE RebuildCase(i, p) BY <1>3, BypassType DEF RebuildCase, RestInv, journal
<1> QED BY <1>1, <1>2, <1>3

LEMMA InputKeepsRest ==
    ASSUME FilesInv', RestInv, NEW i \in Ids, Input(i)
    PROVE  RestInv'
<1>1. UNCHANGED <<status, used, dirty, unsent, ops, bypass>> BY DEF Input, partition
<1>2. CASE UNCHANGED <<docs, live, derived, events>> BY <1>1, <1>2 DEF RestInv, derived
<1>3. CASE RefreshIndexes /\ statistics' = AddObservation(statistics, i, Observation(docs'[i]))
  <2>1. Counts(statistics') BY <1>3, AddCounts DEF RestInv
  <2>2. IsFiniteSet(live') BY StatisticsAssumption, FS_Subset DEF FilesInv
  <2>3. semantic'.cases \in Nat /\ facet'.cases \in Nat BY <1>3, <2>2, IndexType DEF RefreshIndexes
  <2> QED BY <1>1, <2>1, <2>3 DEF RestInv
<1> QED BY <1>2, <1>3 DEF Input

LEMMA DeleteKeepsRest ==
    ASSUME FilesInv, FilesInv', RestInv, NEW i \in Ids, Delete(i)
    PROVE  RestInv'
<1>1. Request /\ ops' \in 0..MaxOps /\ UNCHANGED <<status, used, bypass>> BY RequestType DEF Delete, partition
<1>2. CASE dirty' = TRUE /\ UNCHANGED <<derived, unsent>> BY <1>1, <1>2 DEF RestInv, derived
<1>3. CASE /\ RefreshIndexes /\ statistics' = RemoveObservation(statistics, i, Observation(docs[i]))
           /\ unsent' = unsent \cup {Event(i, "delete", {}, docs[i].facets)} /\ dirty' = dirty
  <2>1. Counts(statistics') BY <1>3, RemoveCounts DEF RestInv
  <2>2. i \in used BY DEF Delete, FilesInv
  <2>3. \A e \in unsent' : e.case \in used' /\ e.at \in 0..MaxOps BY <1>1, <1>3, <2>2, EditOwes
  <2>4. IsFiniteSet(live') BY StatisticsAssumption, FS_Subset DEF FilesInv
  <2>5. semantic'.cases \in Nat /\ facet'.cases \in Nat BY <1>3, <2>4, IndexType DEF RefreshIndexes
  <2> QED BY <1>1, <1>3, <2>1, <2>3, <2>5 DEF RestInv
<1> QED BY <1>2, <1>3 DEF Delete

LEMMA NextKeepsRest == FilesInv /\ RestInv /\ [Next]_vars /\ FilesInv' => RestInv'
<1> SUFFICES ASSUME FilesInv, RestInv, [Next]_vars, FilesInv' PROVE RestInv'
  OBVIOUS
<1>0. IsFiniteSet(live) /\ IsFiniteSet(live') BY StatisticsAssumption, FS_Subset DEF FilesInv
<1> USE DEF partition, derived, cases, journal
<1>1. CASE \E i \in Ids, p \in CaseProfiles : Accept(i, p) \/ Update(i, p) \/ RebuildCase(i, p)
  BY <1>1, WritesKeepRest
<1>2. CASE \E i \in Ids : Input(i) \/ Delete(i) BY <1>2, InputKeepsRest, DeleteKeepsRest
<1>3. CASE \E i \in Ids : RefreshCaseFacets(i)
  BY <1>3, BypassType DEF RefreshCaseFacets, RestInv
<1>4. CASE \E selected \in SUBSET Ids : RefreshSelected(selected)
  <2>1. facet'.cases \in Nat BY <1>0, <1>4, IndexType DEF RefreshSelected
  <2> QED BY <1>4, <2>1, BypassType DEF RefreshSelected, RestInv
<1>5. CASE \E e \in unsent : Publish(e) BY <1>5 DEF Publish, RestInv
<1>6. CASE Assemble \/ CommitByHand BY <1>6 DEF Assemble, CommitByHand, RestInv
<1>7. CASE \E new \in Schemas : ApplyPlan(new)
  <2>1. PICK new \in Schemas : ApplyPlan(new) BY <1>7
  <2> DEFINE changes == {i \in Listed(live) : docs[i].facets # Project(docs[i].profile, new)}
             after == [i \in Ids |-> IF i \in changes
                                     THEN [docs[i] EXCEPT !.facets = Project(docs[i].profile, new)] ELSE docs[i]]
  <2>2. /\ Request /\ RefreshIndexes /\ UNCHANGED <<status, used, dirty, unsent, bypass>>
        /\ statistics' = ReplaceObservations(statistics, docs, after, changes)
    BY <2>1 DEF ApplyPlan
  <2>3. changes \in SUBSET Nat /\ IsFiniteSet(changes)
    BY <1>0, FiniteCases, FS_Subset DEF Listed
  <2> HIDE DEF changes, after
  <2>4. Counts(statistics') BY <2>2, <2>3, ReplaceCounts DEF RestInv
  <2>5. semantic'.cases \in Nat /\ facet'.cases \in Nat BY <1>0, <2>2, IndexType DEF RefreshIndexes
  <2> QED BY <2>2, <2>4, <2>5, RequestType DEF RestInv
<1>8. CASE \E new \in Schemas : PutSchema(new) BY <1>8, RequestType DEF PutSchema, RestInv
<1>9. CASE \E new \in {"active", "inactive"} : PutPartition(new) \/ RecreatePartition(new)
  BY <1>9, RequestType DEF PutPartition, RecreatePartition, RestInv
<1>10. CASE DeletePartition
  BY <1>10, BypassType DEF DeletePartition, RestInv, NoIndex
<1>11. CASE UNCHANGED vars BY <1>11 DEF vars, RestInv
<1> QED
  BY <1>1, <1>2, <1>3, <1>4, <1>5, <1>6, <1>7, <1>8, <1>9, <1>10, <1>11 DEF Next

LEMMA InitRest == Init => DocsInv /\ FilesInv /\ FacetsInv /\ RestInv
<1> SUFFICES ASSUME Init PROVE FacetsInv /\ RestInv
  BY InitFiles
<1>1. FacetsInv BY ProfileType DEF Init, FacetsInv, NoDoc
<1>2. Counts(statistics) BY DEF Init, Counts, Zero
<1>3. semantic.cases \in Nat /\ facet.cases \in Nat BY DEF Init, NoIndex
<1>4. status = "active" /\ dirty = FALSE /\ unsent = {} /\ ops = 0 /\ bypass = 0 BY DEF Init
<1>5. MaxOps \in Nat /\ MaxBypass \in Nat BY CatalogAssumption
<1>6. ops \in 0..MaxOps /\ bypass \in 0..MaxBypass BY <1>4, <1>5
<1> QED BY <1>1, <1>2, <1>3, <1>4, <1>6 DEF RestInv

\* Profiles and facets keep their type and the counts stay natural, whatever is
\* removed that was never added.
THEOREM TypeAlwaysCorrect == Spec => []TypeOK
<1> DEFINE Inv == DocsInv /\ FilesInv /\ FacetsInv /\ RestInv
<1>1. Init => Inv BY InitRest
<1>2. Inv /\ [Next]_vars => Inv'
  BY NextKeeps, NextKeepsFiles, NextKeepsFacets, NextKeepsRest
<1>3. Inv => TypeOK
  <2> SUFFICES ASSUME Inv PROVE TypeOK
    OBVIOUS
  <2>1. \A i \in Ids : docs[i].profile \in Profiles BY ProfileType DEF FilesInv
  <2> QED BY <2>1 DEF FilesInv, FacetsInv, RestInv, Counts, TypeOK
<1> QED BY <1>1, <1>2, <1>3, PTL DEF Spec

-----------------------------------------------------------------------------
(* A case is found again *)

LEMMA MergedIs ==
    ASSUME NEW lexical, NEW vector,
           \A i \in DOMAIN lexical : lexical[i] \in Int, \A i \in DOMAIN vector : vector[i] \in Int
    PROVE  LET hits == Merged(lexical, vector)
           IN  DOMAIN hits = DOMAIN lexical \cup DOMAIN vector /\ \A i \in DOMAIN hits : hits[i] \in Int
<1> DEFINE hits == Merged(lexical, vector)
           scores(i) == {lexical[j] : j \in DOMAIN lexical \cap {i}} \cup {vector[j] : j \in DOMAIN vector \cap {i}}
           Highest(i, score) == /\ i \in DOMAIN lexical => lexical[i] <= score
                                /\ i \in DOMAIN vector => vector[i] <= score
<1>1. DOMAIN hits = DOMAIN lexical \cup DOMAIN vector BY DEF Merged
<1>2. ASSUME NEW i \in DOMAIN hits PROVE hits[i] \in Int
  <2>1. hits[i] = CHOOSE score \in scores(i) : Highest(i, score) BY <1>1 DEF Merged
  <2>2. /\ i \in DOMAIN lexical => lexical[i] \in scores(i)
        /\ i \in DOMAIN vector => vector[i] \in scores(i)
    OBVIOUS
  <2>3. \E score \in scores(i) : Highest(i, score)
    <3>1. CASE i \in DOMAIN lexical /\ (i \in DOMAIN vector => vector[i] <= lexical[i])
      <4>1. Highest(i, lexical[i]) BY <3>1
      <4> QED BY <2>2, <3>1, <4>1
    <3>2. CASE i \in DOMAIN vector /\ (i \in DOMAIN lexical => lexical[i] <= vector[i])
      <4>1. Highest(i, vector[i]) BY <3>2
      <4> QED BY <2>2, <3>2, <4>1
    <3> QED BY <1>1, <1>2, <3>1, <3>2
  <2>4. scores(i) \subseteq Int OBVIOUS
  <2> HIDE DEF scores, Highest
  <2> QED BY <2>1, <2>3, <2>4
<1> QED BY <1>1, <1>2

\* A case that has at most RecallSize cases as near as it is, itself included,
\* is among those recalled.
LEMMA NearIsRecalled ==
    ASSUME NEW scored, IsFiniteSet(scored), NEW score, \A j \in scored : score[j] \in Int,
           NEW hits \in Recalls(scored, score), NEW i \in scored,
           Cardinality({j \in scored : score[j] >= score[i]}) <= RecallSize
    PROVE  i \in hits
<1> SUFFICES ASSUME i \notin hits PROVE FALSE
  OBVIOUS
<1> DEFINE near == {j \in scored : score[j] >= score[i]}
<1>1. /\ hits \subseteq scored
      /\ Cardinality(hits) = IF Cardinality(scored) < RecallSize THEN Cardinality(scored) ELSE RecallSize
      /\ \A m \in hits : score[m] >= score[i]
  BY DEF Recalls
<1>2. hits \cup {i} \subseteq near BY <1>1
<1>3. IsFiniteSet(near) /\ near \in SUBSET scored BY FS_Subset
<1>4. Cardinality(near) <= Cardinality(scored) BY <1>3, FS_Subset
<1>5. IsFiniteSet(hits) BY <1>1, FS_Subset
<1>6. Cardinality(hits \cup {i}) = Cardinality(hits) + 1 BY <1>5, FS_AddElement
<1> HIDE DEF near
<1>7. Cardinality(hits \cup {i}) <= Cardinality(near) BY <1>2, <1>3, FS_Subset
<1>8. Cardinality(hits) \in Nat /\ Cardinality(near) \in Nat /\ Cardinality(scored) \in Nat
  BY <1>3, <1>5, FS_CardinalityType
<1>9. Cardinality(near) <= RecallSize BY DEF near
<1> QED BY <1>1, <1>4, <1>6, <1>7, <1>8, <1>9, QueryAssumption

\* In a schema without folded twins, enabled where the profile has values, every
\* filter is a facet of the projection.
LEMMA FiltersAreFacets ==
    ASSUME NEW p \in Profiles, NEW s \in Schemas,
           \A d \in DOMAIN s : p[s[d].key] # {} => s[d].enabled,
           \A d, e \in DOMAIN s : Fold[s[d].key] = Fold[s[e].key] => d = e,
           NEW f \in Filters(p, s)
    PROVE  f.value \in Project(p, s)[f.key]
<1>1. f.key \in Keys /\ f.value \in p[f.key] BY DEF Filters
<1>2. PICK d \in DOMAIN s : s[d].key = f.key BY DEF Filters
<1> DEFINE same == {i \in DOMAIN s : s[i].enabled /\ Fold[s[i].key] = Fold[f.key]}
           full == {i \in same : p[s[i].key] # {}}
<1>3. same = {d} /\ full = {d} BY <1>1, <1>2
<1>4. LastOf({d}) = d
  <2>1. d \in Nat BY SMTT(60), SchemaType
  <2> QED BY <2>1 DEF LastOf
<1>5. Project(p, s)[f.key] = IF full # {} /\ s[LastOf(same)].key = f.key THEN p[s[LastOf(full)].key] ELSE {}
  BY <1>1 DEF Project
<1> HIDE DEF same, full
<1> QED BY <1>1, <1>2, <1>3, <1>4, <1>5

LEMMA LowerFinite ==
    ASSUME NEW p \in Profiles, IsFiniteSet(Pairs(p))
    PROVE  IsFiniteSet(LowerOf(p))
<1> DEFINE lowered == [x \in Pairs(p) |-> Lower[x.value]]
<1>1. \A x \in Pairs(p) : lowered[x] \in LowerOf(p) BY DEF Pairs, LowerOf
<1>2. \A y \in LowerOf(p) : \E x \in Pairs(p) : lowered[x] = y
  <2> SUFFICES ASSUME NEW k \in Keys, NEW v \in p[k] PROVE \E x \in Pairs(p) : lowered[x] = Lower[v]
    BY DEF LowerOf
  <2>1. v \in Values BY DEF Profiles
  <2>2. [key |-> k, value |-> v] \in Pairs(p) BY <2>1 DEF Pairs
  <2> QED BY <2>2
<1>3. lowered \in Surjection(Pairs(p), LowerOf(p)) BY <1>1, <1>2 DEF Surjection
<1> QED BY <1>3, FS_Surjection

\* Filters without a slash, which both readers split as they were meant.
Unsplit(filters) ==
    /\ filters \subseteq [key : Keys, value : Values]
    /\ \A f \in filters : f.key \notin Slashed /\ f.value \notin Slashed

LEMMA PassesIs ==
    ASSUME NEW doc, NEW filters, Unsplit(filters)
    PROVE  Passes(doc, filters) <=> \A f \in filters : f.value \in doc.facets[f.key]
<1>1. ASSUME NEW f \in filters
      PROVE  LET m == Matched[f.key][f.value]
             IN  m.key \in Keys /\ m.key = f.key /\ m.value = f.value
  <2>1. f.key \in Keys \ Slashed /\ f.value \in Values \ Slashed BY DEF Unsplit
  <2>2. Matched[f.key][f.value] = [key |-> f.key, value |-> f.value] BY <2>1, QueryAssumption
  <2> QED BY <2>1, <2>2
<1>2. \A f \in filters :
          (LET m == Matched[f.key][f.value] IN m.key \in Keys /\ m.value \in doc.facets[m.key])
              <=> f.value \in doc.facets[f.key]
  BY <1>1
<1> QED BY <1>2 DEF Passes

\* The facets of a document that a filter names.
Matches(doc, filters) ==
    {m \in [key : Keys, value : Values] :
        /\ m.value \in doc.facets[m.key]
        /\ \E f \in filters : Ranked[f.key][f.value] = [key |-> Fold[m.key], value |-> Lower[m.value]]}

\* Of a document that passes the filters and has one spelling of each, nothing
\* but the filters themselves.
LEMMA MatchesAreFilters ==
    ASSUME NEW doc, NEW filters, Unsplit(filters), Passes(doc, filters),
           \A j, k \in Keys : \A v \in doc.facets[j], w \in doc.facets[k] :
               Fold[j] = Fold[k] /\ Lower[v] = Lower[w] => j = k /\ v = w
    PROVE  Matches(doc, filters) = filters
<1>1. ASSUME NEW f \in filters
      PROVE  /\ f \in [key : Keys, value : Values] /\ f.value \in doc.facets[f.key]
             /\ Ranked[f.key][f.value] = [key |-> Fold[f.key], value |-> Lower[f.value]]
  <2>1. f \in [key : Keys, value : Values] /\ f.key \notin Slashed /\ f.value \notin Slashed BY DEF Unsplit
  <2>2. f.key \in Keys \ Slashed /\ f.value \in Values \ Slashed BY <2>1
  <2>3. f.value \in doc.facets[f.key] BY PassesIs
  <2> QED BY <2>1, <2>2, <2>3, QueryAssumption
<1>2. \A f \in filters : f \in Matches(doc, filters) BY <1>1 DEF Matches
<1>3. ASSUME NEW m \in Matches(doc, filters) PROVE m \in filters
  <2>1. m \in [key : Keys, value : Values] /\ m.value \in doc.facets[m.key] BY DEF Matches
  <2>2. PICK f \in filters : Ranked[f.key][f.value] = [key |-> Fold[m.key], value |-> Lower[m.value]]
    BY DEF Matches
  <2>3. [key |-> Fold[f.key], value |-> Lower[f.value]] = [key |-> Fold[m.key], value |-> Lower[m.value]]
    BY <1>1, <2>2
  <2>6. Fold[f.key] = Fold[m.key] /\ Lower[f.value] = Lower[m.value] BY <2>3
  <2>7. f \in [key : Keys, value : Values] /\ f.value \in doc.facets[f.key] BY <1>1
  <2>4. f.key = m.key /\ f.value = m.value BY <2>1, <2>6, <2>7
  <2>5. f = m BY <2>1, <2>4, <2>7
  <2> QED BY <2>5
<1> QED BY <1>2, <1>3

LEMMA ScoreIs ==
    ASSUME NEW doc, NEW p \in Profiles, IsFiniteSet(Pairs(p)), NEW filters,
           doc.facets \in Profiles, IsFiniteSet(Pairs(doc.facets)), NEW base, NEW bonus
    PROVE  /\ FinalScore(doc, base, bonus, p, filters) =
                  2 * base + bonus + 4 * Cardinality(Matches(doc, filters))
                      + 3 * Cardinality(LowerOf(p) \cap LowerOf(doc.profile))
           /\ Cardinality(Matches(doc, filters)) \in Nat
           /\ Cardinality(LowerOf(p) \cap LowerOf(doc.profile)) \in Nat
           /\ Cardinality(LowerOf(p) \cap LowerOf(doc.profile)) <= Cardinality(LowerOf(p))
<1>1. Matches(doc, filters) \subseteq Pairs(doc.facets) BY DEF Matches, Pairs
<1>2. IsFiniteSet(Matches(doc, filters)) BY <1>1, FS_Subset
<1>3. FinalScore(doc, base, bonus, p, filters) =
          2 * base + bonus + 4 * Cardinality(Matches(doc, filters))
              + 3 * Cardinality(LowerOf(p) \cap LowerOf(doc.profile))
  BY DEF FinalScore, Matches
<1>4. LowerOf(p) \cap LowerOf(doc.profile) \in SUBSET LowerOf(p) OBVIOUS
<1>5. IsFiniteSet(LowerOf(p)) BY LowerFinite
<1> QED BY <1>2, <1>3, <1>4, <1>5, FS_Subset, FS_CardinalityType

LEMMA FiltersOfRegular ==
    ASSUME FilesInv, NEW i \in live, Regular(i)
    PROVE  /\ Unsplit(Filters(docs[i].profile, schema))
           /\ Passes(docs[i], Filters(docs[i].profile, schema))
<1> DEFINE profile == docs[i].profile
           filters == Filters(profile, schema)
<1>1. profile \in Profiles /\ schema \in Schemas BY FiniteCases, ProfileType DEF FilesInv
<1>2. \A f \in filters : f.value \in Project(profile, schema)[f.key] BY <1>1, FiltersAreFacets DEF Regular
<1>3. Unsplit(filters)
  <2>1. filters \subseteq [key : Keys, value : Values] BY DEF Filters
  <2>2. ASSUME NEW f \in filters PROVE f.key \notin Slashed /\ f.value \notin Slashed
    <3>1. PICK d \in DOMAIN schema : schema[d].key = f.key BY DEF Filters
    <3>2. f.value \in profile[f.key] BY DEF Filters
    <3> QED BY <3>1, <3>2 DEF Regular
  <2> QED BY <2>1, <2>2 DEF Unsplit
<1> HIDE DEF filters
<1>4. Passes(docs[i], filters) BY <1>2, <1>3, PassesIs DEF Regular
<1> QED BY <1>3, <1>4 DEF filters

\* Whatever cases are recalled with it and whatever their wording scores, a case
\* asked for as it is is recalled among its nearest, and is the best answer if
\* one that the wording does not favour is.
LEMMA RegularFoundFirst ==
    ASSUME FilesInv, FacetsInv, NEW i \in live, NEW filters, Unsplit(filters), Passes(docs[i], filters),
           NEW wording \in Wordings
    PROVE  FoundFirst(i, wording, Passing(docs, live, filters), docs[i].profile, filters)
<1> DEFINE profile == docs[i].profile
           passing == Passing(docs, live, filters)
           lexical == [j \in passing |-> wording[j].lexical]
           vector == [j \in passing |-> wording[j].vector]
           bonus == [j \in passing |-> wording[j].bonus]
           named == {j \in passing : wording[j].lexical > 0}
           embedded == {j \in passing : wording[j].embedded}
<1>1. live \subseteq Ids /\ IsFiniteSet(live) BY FiniteCases
<1>2. passing \subseteq live /\ (\A j \in passing : Passes(docs[j], filters)) BY DEF Passing
<1>3. /\ lexical \in [passing -> Int] /\ vector \in [passing -> Int] /\ bonus \in [passing -> Int]
      /\ named \subseteq passing /\ embedded \subseteq passing /\ IsFiniteSet(embedded)
  <2>1. \A j \in passing : wording[j] \in [lexical : Nat, vector : Int, embedded : BOOLEAN, bonus : Bonuses]
    BY <1>1, <1>2, CatalogAssumption
  <2>2. Bonuses \subseteq Int BY DEF Bonuses
  <2>3. IsFiniteSet(embedded) BY <1>1, <1>2, FS_Subset
  <2>4. \A j \in passing : wording[j].lexical \in Int /\ wording[j].vector \in Int /\ wording[j].bonus \in Int
    <3> SUFFICES ASSUME NEW j \in passing
                 PROVE  wording[j].lexical \in Int /\ wording[j].vector \in Int /\ wording[j].bonus \in Int
      OBVIOUS
    <3> DEFINE w == wording[j]
    <3>1. w \in [lexical : Nat, vector : Int, embedded : BOOLEAN, bonus : Bonuses] BY <2>1
    <3> HIDE DEF w
    <3>2. w.lexical \in Nat /\ w.vector \in Int /\ w.bonus \in Bonuses BY <3>1
    <3>4. w.bonus \in Int BY <2>2, <3>2, Zenon
    <3>5. \A n \in Nat : n \in Int OBVIOUS
    <3>6. w.lexical \in Int BY <3>2, <3>5, Zenon
    <3>3. w.lexical \in Int /\ w.vector \in Int /\ w.bonus \in Int BY <3>2, <3>4, <3>6
    <3> QED BY <3>3 DEF w
  <2>5. named \subseteq passing /\ embedded \subseteq passing OBVIOUS
  <2>6. lexical \in [passing -> Int] /\ vector \in [passing -> Int] /\ bonus \in [passing -> Int]
    BY <2>4
  <2> QED BY <2>3, <2>5, <2>6
<1>4. \A j \in live : /\ docs[j].profile \in Profiles /\ IsFiniteSet(Pairs(docs[j].profile))
                      /\ docs[j].facets \in Profiles /\ IsFiniteSet(Pairs(docs[j].facets))
  BY <1>1, ProfileType DEF FilesInv, FacetsInv
<1> SUFFICES ASSUME NEW near \in Recalls(embedded, vector), NEW worded \in Recalls(named, lexical)
             PROVE  LET hits == Merged([j \in worded |-> lexical[j]], [j \in near |-> vector[j]])
                        Favour(j) == 2 * hits[j] + bonus[j]
                        IsBest(j) == IsAnswer({j}, docs, hits, bonus, profile, filters, 1)
                    IN  /\ i \in embedded /\ Cardinality({j \in embedded : vector[j] >= vector[i]}) <= RecallSize
                               => i \in DOMAIN hits
                        /\ i \in DOMAIN hits /\ OneSpelling(i) =>
                               \A j \in DOMAIN hits \ {i} :
                                   OneSpelling(j) /\ Favour(j) <= Favour(i) /\ IsBest(j) => IsBest(i)
  BY DEF FoundFirst
<1> HIDE DEF passing, lexical, vector, bonus, named, embedded
<1> DEFINE hits == Merged([j \in worded |-> lexical[j]], [j \in near |-> vector[j]])
           Favour(j) == 2 * hits[j] + bonus[j]
           score == [j \in DOMAIN hits |-> FinalScore(docs[j], hits[j], bonus[j], profile, filters)]
<1>5. worded \subseteq passing /\ near \subseteq passing BY <1>3 DEF Recalls
<1>6. DOMAIN hits = worded \cup near /\ \A j \in DOMAIN hits : hits[j] \in Int
  <2> DEFINE A == [j \in worded |-> lexical[j]]
             B == [j \in near |-> vector[j]]
  <2>1. \A j \in DOMAIN A : A[j] \in Int BY <1>3, <1>5
  <2>2. \A j \in DOMAIN B : B[j] \in Int BY <1>3, <1>5
  <2>3. DOMAIN A = worded /\ DOMAIN B = near OBVIOUS
  <2> HIDE DEF A, B
  <2>4. /\ DOMAIN Merged(A, B) = DOMAIN A \cup DOMAIN B
        /\ \A j \in DOMAIN Merged(A, B) : Merged(A, B)[j] \in Int
    BY <2>1, <2>2, MergedIs
  <2> QED BY <2>3, <2>4 DEF A, B
<1> HIDE DEF hits
<1>7. \A j \in DOMAIN hits : j \in passing /\ j \in live BY <1>2, <1>5, <1>6
<1>8. ASSUME i \in embedded, Cardinality({j \in embedded : vector[j] >= vector[i]}) <= RecallSize
      PROVE  i \in DOMAIN hits
  <2>1. \A j \in embedded : vector[j] \in Int BY <1>3
  <2>2. i \in near BY <1>3, <1>8, <2>1, NearIsRecalled
  <2> QED BY <1>6, <2>2
<1>9. ASSUME i \in DOMAIN hits, OneSpelling(i), NEW j \in DOMAIN hits \ {i}, OneSpelling(j),
             Favour(j) <= Favour(i), IsAnswer({j}, docs, hits, bonus, profile, filters, 1)
      PROVE  IsAnswer({i}, docs, hits, bonus, profile, filters, 1)
  <2> DEFINE agreed(m) == Cardinality(Matches(docs[m], filters))
             shared(m) == Cardinality(LowerOf(profile) \cap LowerOf(docs[m].profile))
  <2>1. \A m \in DOMAIN hits \ {j} : score[j] >= score[m] BY <1>9 DEF IsAnswer
  <2>2. \A m \in DOMAIN hits : /\ score[m] = 2 * hits[m] + bonus[m] + 4 * agreed(m) + 3 * shared(m)
                               /\ agreed(m) \in Nat /\ shared(m) \in Nat
                               /\ shared(m) <= Cardinality(LowerOf(profile))
    <3> SUFFICES ASSUME NEW m \in DOMAIN hits
                 PROVE  /\ score[m] = 2 * hits[m] + bonus[m] + 4 * agreed(m) + 3 * shared(m)
                        /\ agreed(m) \in Nat /\ shared(m) \in Nat
                        /\ shared(m) <= Cardinality(LowerOf(profile))
      OBVIOUS
    <3>1. score[m] = FinalScore(docs[m], hits[m], bonus[m], profile, filters) OBVIOUS
    <3>2. m \in live /\ profile \in Profiles /\ IsFiniteSet(Pairs(profile)) BY <1>4, <1>7
    <3>3. docs[m].facets \in Profiles /\ IsFiniteSet(Pairs(docs[m].facets)) BY <1>4, <3>2
    <3> HIDE DEF score, profile
    <3>4. /\ FinalScore(docs[m], hits[m], bonus[m], profile, filters) =
                 2 * hits[m] + bonus[m] + 4 * Cardinality(Matches(docs[m], filters))
                     + 3 * Cardinality(LowerOf(profile) \cap LowerOf(docs[m].profile))
          /\ Cardinality(Matches(docs[m], filters)) \in Nat
          /\ Cardinality(LowerOf(profile) \cap LowerOf(docs[m].profile)) \in Nat
          /\ Cardinality(LowerOf(profile) \cap LowerOf(docs[m].profile)) <= Cardinality(LowerOf(profile))
      BY <3>2, <3>3, ScoreIs
    <3> QED BY <3>1, <3>4
  <2>3. Matches(docs[i], filters) = filters /\ Matches(docs[j], filters) = filters
    <3>1. Passes(docs[j], filters) BY <1>2, <1>7
    <3> QED BY <1>9, <3>1, MatchesAreFilters DEF OneSpelling
  <2>4. agreed(i) = agreed(j) /\ shared(j) <= shared(i)
    <3>1. LowerOf(profile) \cap LowerOf(docs[i].profile) = LowerOf(profile) OBVIOUS
    <3> QED BY <1>9, <2>2, <2>3, <3>1
  <2>5. \A m \in DOMAIN hits : hits[m] \in Int /\ bonus[m] \in Int BY <1>3, <1>6, <1>7
  <2> HIDE DEF score, agreed, shared
  <2>6. \A m \in DOMAIN hits : score[m] \in Int BY <2>2, <2>5
  <2>7. score[i] >= score[j] BY <1>9, <2>2, <2>4, <2>5
  <2>8. \A m \in DOMAIN hits \ {i} : score[i] >= score[m]
    <3> SUFFICES ASSUME NEW m \in DOMAIN hits \ {i} PROVE score[i] >= score[m]
      OBVIOUS
    <3>1. m = j \/ score[j] >= score[m] BY <2>1
    <3>2. score[i] \in Int /\ score[j] \in Int /\ score[m] \in Int BY <1>9, <2>6
    <3> QED BY <2>7, <3>1, <3>2
  <2>9. Cardinality({i}) = 1 /\ Cardinality({j}) = 1 BY FS_Singleton
  <2>10. Cardinality({i}) = IF Cardinality(DOMAIN hits) < 1 THEN Cardinality(DOMAIN hits) ELSE 1
    BY <1>9, <2>9 DEF IsAnswer
  <2> QED BY <1>9, <2>8, <2>10 DEF IsAnswer, score
<1> QED BY <1>8, <1>9 DEF hits

\* Asked for exactly as it is, a regular case passes its own filters, is recalled
\* when it is among the nearest, and is the best answer unless one that the
\* wording favours is, or one with another spelling of a value.
THEOREM CasesAreAlwaysRetrieved == Spec => []SelfRetrieval
<1> DEFINE Inv == FilesInv /\ FacetsInv
<1>1. Inv => SelfRetrieval
  <2> SUFFICES ASSUME Inv, NEW i \in live, Regular(i)
               PROVE  LET profile == docs[i].profile
                          filters == Filters(profile, schema)
                          passing == Passing(docs, live, filters)
                      IN  /\ i \in passing
                          /\ \A wording \in Wordings : FoundFirst(i, wording, passing, profile, filters)
    BY DEF SelfRetrieval
  <2> DEFINE filters == Filters(docs[i].profile, schema)
  <2>1. Unsplit(filters) /\ Passes(docs[i], filters) BY FiltersOfRegular
  <2> HIDE DEF filters
  <2>2. i \in Passing(docs, live, filters) BY <2>1 DEF Passing
  <2>3. \A wording \in Wordings :
            FoundFirst(i, wording, Passing(docs, live, filters), docs[i].profile, filters)
    BY <2>1, RegularFoundFirst
  <2> QED BY <2>2, <2>3 DEF filters
<1>2. Spec => []Inv
  <2>1. Init => DocsInv /\ Inv
    <3>1. Init => FacetsInv BY ProfileType DEF Init, FacetsInv, NoDoc
    <3> QED BY <3>1, InitFiles
  <2>2. DocsInv /\ Inv /\ [Next]_vars => (DocsInv /\ Inv)'
    BY NextKeeps, NextKeepsFiles, NextKeepsFacets
  <2> QED BY <2>1, <2>2, PTL DEF Spec
<1> QED BY <1>1, <1>2, PTL

-----------------------------------------------------------------------------
(* The events of a case *)

Kinds == {"create", "update", "delete"}
EventRecords == [case : Ids, kind : Kinds, at : Nat,
            changed : SUBSET {"semantic_profile", "facets"}, facets : Profiles]

\* Of the events of one case a creation is the first and a deletion the last.
Ordered(e, f) ==
    e.case = f.case => /\ e.kind = "create" \/ f.kind = "delete" => e.at < f.at
                       /\ f.kind = "create" \/ e.kind = "delete" => f.at < e.at

OrderedBatch(batch) ==
    /\ batch \in Seq(EventRecords)
    /\ \A i, j \in DOMAIN batch : i # j => Ordered(batch[i], batch[j])

\* Published or not, the events of a case are in order, only a case that has
\* been written has one, and no case that exists has a deletion.
EventsInv ==
    /\ OrderedBatch(events)
    /\ unsent \subseteq EventRecords
    /\ \A e \in unsent : e.kind # "create"
    /\ \A e, f \in unsent : e # f => Ordered(e, f)
    /\ \A j \in DOMAIN events, f \in unsent : Ordered(events[j], f)
    /\ \A e \in unsent \cup {events[j] : j \in DOMAIN events} :
           /\ e.at <= ops
           /\ e.case \in used /\ ~drafts[e.case].queued
           /\ e.kind = "delete" => e.case \notin live

LEMMA ValuesFinite ==
    ASSUME NEW S, IsFiniteSet(S), NEW f
    PROVE  IsFiniteSet({f[x] : x \in S})
<1> DEFINE T == {f[x] : x \in S}
           g == [x \in S |-> f[x]]
<1>1. g \in [S -> T] /\ \A t \in T : \E x \in S : g[x] = t OBVIOUS
<1>2. g \in Surjection(S, T) BY <1>1 DEF Surjection
<1> HIDE DEF g
<1> QED BY <1>2, FS_Surjection

\* A finite set has a last member by one number and, where it is the same, another.
LEMMA LastByTwo ==
    ASSUME NEW S, IsFiniteSet(S), S # {}, NEW p, NEW q, \A x \in S : p[x] \in Nat /\ q[x] \in Nat
    PROVE  \E z \in S : \A x \in S : p[x] < p[z] \/ (p[x] = p[z] /\ q[x] <= q[z])
<1> DEFINE ps == {p[x] : x \in S}
           last == LastOf(ps)
           ends == {x \in S : p[x] = last}
           qs == {q[x] : x \in ends}
<1>1. ps \in SUBSET Nat /\ ps # {} /\ IsFiniteSet(ps) BY ValuesFinite
<1>2. last \in ps /\ \A t \in ps : t <= last
  <2> HIDE DEF ps
  <2> QED BY <1>1, LastExists
<1>3. IsFiniteSet(ends) BY FS_Subset
<1>4. qs \in SUBSET Nat /\ qs # {} /\ IsFiniteSet(qs)
  <2>1. IsFiniteSet(qs)
    <3> HIDE DEF ends
    <3> QED BY <1>3, ValuesFinite
  <2>2. ends # {} BY <1>2
  <2> QED BY <2>1, <2>2
<1>5. LastOf(qs) \in qs /\ \A t \in qs : t <= LastOf(qs)
  <2> HIDE DEF qs
  <2> QED BY <1>4, LastExists
<1>6. PICK z \in ends : q[z] = LastOf(qs) BY <1>5
<1>7. ASSUME NEW x \in S PROVE p[x] < p[z] \/ (p[x] = p[z] /\ q[x] <= q[z])
  <2>1. p[x] \in ps /\ p[x] <= last /\ p[z] = last /\ p[x] \in Nat /\ last \in Nat BY <1>1, <1>2, <1>6
  <2>2. CASE p[x] = last
    <3>1. q[x] \in qs BY <2>2
    <3>2. q[x] <= q[z] BY <1>5, <1>6, <3>1
    <3> QED BY <2>1, <2>2, <3>2
  <2>3. CASE p[x] # last
    <3>1. p[x] < last BY ONLY <2>1, <2>3
    <3> QED BY <2>1, <3>1
  <2> QED BY <2>2, <2>3
<1> QED BY <1>6, <1>7

LEMMA EntriesOf ==
    ASSUME NEW batch, OrderedBatch(batch)
    PROVE  /\ IsFiniteSet(DOMAIN batch) /\ DOMAIN batch \subseteq Nat
           /\ \A i \in DOMAIN batch : batch[i] \in EventRecords
<1>1. Len(batch) \in Nat /\ DOMAIN batch = 1..Len(batch) BY DEF OrderedBatch
<1> QED BY SMTT(60), <1>1, FS_Interval DEF OrderedBatch

\* A set of events has a latest one.
LEMMA LatestIs ==
    ASSUME NEW batch, OrderedBatch(batch), NEW S \in SUBSET DOMAIN batch, S # {}
    PROVE  /\ Latest(batch, S) \in S
           /\ \A j \in S \ {Latest(batch, S)} : Earlier(batch, j, Latest(batch, S))
<1>1. IsFiniteSet(S) /\ \A i \in S : batch[i].at \in Nat /\ i \in Nat
  BY EntriesOf, FS_Subset DEF EventRecords
<1> DEFINE p == [i \in S |-> batch[i].at]
           q == [i \in S |-> i]
<1>2. \E z \in S : \A i \in S : p[i] < p[z] \/ (p[i] = p[z] /\ q[i] <= q[z])
  <2>1. \A i \in S : p[i] \in Nat /\ q[i] \in Nat BY <1>1
  <2> HIDE DEF p, q
  <2> QED BY <1>1, <2>1, LastByTwo
<1>3. PICK z \in S : \A i \in S : batch[i].at < batch[z].at \/ (batch[i].at = batch[z].at /\ i <= z)
  BY <1>2
<1>4. \A j \in S \ {z} : Earlier(batch, j, z) BY <1>1, <1>3 DEF Earlier
<1> QED BY <1>4 DEF Latest

LEMMA MergeIs ==
    ASSUME NEW first, NEW case, NEW kind, NEW at, NEW changed, NEW facets, NEW priority
    PROVE  Merge(first, [case |-> case, kind |-> kind, at |-> at, changed |-> changed,
                         facets |-> facets, priority |-> priority])
               = [case |-> case, kind |-> IF kind = "delete" THEN "delete" ELSE first.kind, at |-> at,
                  changed |-> first.changed \cup changed,
                  facets |-> [k \in DOMAIN facets |-> first.facets[k] \cup facets[k]],
                  priority |-> Least(first.priority, priority)]
<1> DEFINE next == [case |-> case, kind |-> kind, at |-> at, changed |-> changed,
                    facets |-> facets, priority |-> priority]
           k1 == IF next.kind = "delete" THEN "delete" ELSE first.kind
           k2 == first.changed \cup next.changed
           k3 == [k \in DOMAIN next.facets |-> first.facets[k] \cup next.facets[k]]
           k4 == Least(first.priority, next.priority)
<1>1. Merge(first, next) = [[[[next EXCEPT !.kind = k1] EXCEPT !.changed = k2] EXCEPT !.facets = k3] EXCEPT !.priority = k4]
  BY DEF Merge
<1>2. /\ next.kind = kind /\ next.changed = changed /\ next.facets = facets /\ next.priority = priority
  OBVIOUS
<1>3. /\ k1 = IF kind = "delete" THEN "delete" ELSE first.kind
      /\ k2 = first.changed \cup changed
      /\ k3 = [k \in DOMAIN facets |-> first.facets[k] \cup facets[k]]
      /\ k4 = Least(first.priority, priority)
  BY <1>2
<1> HIDE DEF k1, k2, k3, k4
<1>4. [[[[next EXCEPT !.kind = k1] EXCEPT !.changed = k2] EXCEPT !.facets = k3] EXCEPT !.priority = k4]
          = [case |-> case, kind |-> k1, at |-> at, changed |-> k2, facets |-> k3, priority |-> k4]
  <2> DEFINE n1 == [case |-> case, kind |-> k1, at |-> at, changed |-> changed, facets |-> facets, priority |-> priority]
             n2 == [case |-> case, kind |-> k1, at |-> at, changed |-> k2, facets |-> facets, priority |-> priority]
             n3 == [case |-> case, kind |-> k1, at |-> at, changed |-> k2, facets |-> k3, priority |-> priority]
             n4 == [case |-> case, kind |-> k1, at |-> at, changed |-> k2, facets |-> k3, priority |-> k4]
  <2>1. [next EXCEPT !.kind = k1] = n1 OBVIOUS
  <2>2. [n1 EXCEPT !.changed = k2] = n2 OBVIOUS
  <2>3. [n2 EXCEPT !.facets = k3] = n3 OBVIOUS
  <2>4. [n3 EXCEPT !.priority = k4] = n4 OBVIOUS
  <2>5. n4 = [case |-> case, kind |-> k1, at |-> at, changed |-> k2, facets |-> k3, priority |-> k4] OBVIOUS
  <2> HIDE DEF n1, n2, n3, n4, next
  <2> QED BY <2>1, <2>2, <2>3, <2>4, <2>5
<1> QED BY <1>1, <1>3, <1>4

\* What the events at the places in T collapse to.
KindOf(batch, T) ==
    IF \E i \in T : batch[i].kind = "delete" THEN "delete"
    ELSE IF \E i \in T : batch[i].kind = "create" THEN "create" ELSE "update"
Collapsed(batch, T) ==
    [case |-> batch[Latest(batch, T)].case,
     kind |-> KindOf(batch, T),
     at |-> batch[Latest(batch, T)].at,
     changed |-> UNION {batch[i].changed : i \in T},
     facets |-> [k \in Keys |-> UNION {batch[i].facets[k] : i \in T}],
     priority |-> Priority(KindOf(batch, T))]

\* Among the events of one case the latest alone may be a deletion, the others
\* alone a creation.
LEMMA LatestKind ==
    ASSUME NEW batch, OrderedBatch(batch), NEW case, NEW T \in SUBSET Of(batch, case), T # {},
           NEW j \in T \ {Latest(batch, T)}
    PROVE  batch[j].kind # "delete" /\ batch[Latest(batch, T)].kind # "create"
<1> DEFINE i == Latest(batch, T)
<1>1. T \subseteq DOMAIN batch /\ i \in T /\ Earlier(batch, j, i) BY LatestIs DEF Of
<1>2. batch[i].case = case /\ batch[j].case = case /\ i \in DOMAIN batch /\ j \in DOMAIN batch /\ i # j
  BY <1>1 DEF Of
<1>3. batch[i].at \in Nat /\ batch[j].at \in Nat BY <1>2, EntriesOf DEF EventRecords
<1>4. batch[j].at <= batch[i].at BY <1>1, <1>3 DEF Earlier
<1>5. Ordered(batch[i], batch[j]) BY <1>2 DEF OrderedBatch
<1>6. ~(batch[i].at < batch[j].at) BY <1>3, <1>4
<1> QED BY <1>2, <1>5, <1>6 DEF Ordered

LEMMA AbsorbOne ==
    ASSUME NEW batch, OrderedBatch(batch), NEW i \in DOMAIN batch, Latest(batch, {i}) = i
    PROVE  Absorb(<<>>, Signal(batch[i])) = <<Collapsed(batch, {i})>>
<1>1. batch[i] \in EventRecords BY EntriesOf
<1>2. KindOf(batch, {i}) = batch[i].kind BY <1>1 DEF KindOf, EventRecords, Kinds
<1>3. UNION {batch[j].changed : j \in {i}} = batch[i].changed OBVIOUS
<1>4. batch[i].facets = [k \in Keys |-> UNION {batch[j].facets[k] : j \in {i}}]
  <2>1. \A k \in Keys : UNION {batch[j].facets[k] : j \in {i}} = batch[i].facets[k] OBVIOUS
  <2>2. batch[i].facets = [k \in Keys |-> batch[i].facets[k]] BY <1>1 DEF EventRecords, Profiles
  <2> QED BY <2>1, <2>2
<1>5. Signal(batch[i]) = Collapsed(batch, {i}) BY <1>2, <1>3, <1>4 DEF Signal, Collapsed
<1> QED BY <1>5 DEF Absorb

LEMMA AbsorbNext ==
    ASSUME NEW first, NEW next, first.kind \in {"create", "update"}, next.kind \in {"update", "delete"}
    PROVE  Absorb(<<first>>, next) = <<Merge(first, next)>>
<1>1. Last(<<first>>) = first /\ Len(<<first>>) = 1 /\ <<first>> # <<>> BY DEF Last
<1>2. Absorb(<<first>>, next) = [<<first>> EXCEPT ![1] = Merge(@, next)] BY <1>1 DEF Absorb
<1>3. [<<first>> EXCEPT ![1] = Merge(@, next)] = <<Merge(first, next)>> OBVIOUS
<1> QED BY <1>2, <1>3

LEMMA AbsorbLatest ==
    ASSUME NEW batch, OrderedBatch(batch), NEW case, NEW T \in SUBSET Of(batch, case), T # {},
           T \ {Latest(batch, T)} # {}
    PROVE  Absorb(<<Collapsed(batch, T \ {Latest(batch, T)})>>, Signal(batch[Latest(batch, T)]))
               = <<Collapsed(batch, T)>>
<1> DEFINE i == Latest(batch, T)
           R == T \ {i}
           first == Collapsed(batch, R)
           next == Signal(batch[i])
<1>1. T \subseteq DOMAIN batch /\ i \in T BY LatestIs DEF Of
<1>2. \A j \in T : batch[j] \in EventRecords BY <1>1, EntriesOf
<1>3. (\A j \in R : batch[j].kind # "delete") /\ batch[i].kind # "create" BY LatestKind
<1> HIDE DEF i
<1>4. /\ KindOf(batch, R) \in {"create", "update"} /\ batch[i].kind \in {"update", "delete"}
      /\ KindOf(batch, T) = IF batch[i].kind = "delete" THEN "delete" ELSE KindOf(batch, R)
  <2>1. batch[i].kind \in {"update", "delete"} BY <1>1, <1>2, <1>3 DEF EventRecords, Kinds
  <2>2. (\E j \in T : batch[j].kind = "delete") <=> batch[i].kind = "delete" BY <1>1, <1>3
  <2>3. (\E j \in T : batch[j].kind = "create") <=> (\E j \in R : batch[j].kind = "create") BY <1>1, <1>3
  <2> HIDE DEF R
  <2> QED BY <1>3, <2>1, <2>2, <2>3 DEF KindOf
<1>5. Priority(KindOf(batch, T)) = Least(Priority(KindOf(batch, R)), Priority(batch[i].kind))
  BY <1>4 DEF Priority, Least
<1>6. (UNION {batch[j].changed : j \in R}) \cup batch[i].changed = UNION {batch[j].changed : j \in T} BY <1>1
<1>7. DOMAIN batch[i].facets = Keys BY <1>1, <1>2 DEF EventRecords, Profiles
<1>8. \A k \in Keys : (UNION {batch[j].facets[k] : j \in R}) \cup batch[i].facets[k]
                          = UNION {batch[j].facets[k] : j \in T}
  BY <1>1
<1>9. Merge(first, next) = Collapsed(batch, T)
  <2>1. /\ first.kind = KindOf(batch, R) /\ first.priority = Priority(KindOf(batch, R))
        /\ first.changed = UNION {batch[j].changed : j \in R}
        /\ \A k \in Keys : first.facets[k] = UNION {batch[j].facets[k] : j \in R}
    BY DEF Collapsed
  <2> HIDE DEF first, R
  <2>2. [k \in DOMAIN next.facets |-> first.facets[k] \cup next.facets[k]]
            = [k \in Keys |-> UNION {batch[j].facets[k] : j \in T}]
    BY <1>7, <1>8, <2>1 DEF Signal
  <2>3. Merge(first, next) = [case |-> batch[i].case,
                              kind |-> IF batch[i].kind = "delete" THEN "delete" ELSE first.kind,
                              at |-> batch[i].at,
                              changed |-> first.changed \cup batch[i].changed,
                              facets |-> [k \in DOMAIN next.facets |-> first.facets[k] \cup next.facets[k]],
                              priority |-> Least(first.priority, Priority(batch[i].kind))]
    BY MergeIs DEF Signal
  <2>4. first.changed \cup batch[i].changed = UNION {batch[j].changed : j \in T} BY <1>6, <2>1
  <2> QED BY <1>4, <1>5, <2>1, <2>2, <2>3, <2>4 DEF Collapsed, i
<1>10. first.kind \in {"create", "update"} /\ next.kind \in {"update", "delete"} BY <1>4 DEF Collapsed, Signal
<1> HIDE DEF first, next
<1>11. Absorb(<<first>>, next) = <<Merge(first, next)>> BY <1>10, AbsorbNext
<1> QED BY <1>9, <1>11 DEF first, next, R, i

\* The loop over the events of a case makes one of any of them.
LEMMA CollapsingIs ==
    ASSUME NEW batch, OrderedBatch(batch), NEW case
    PROVE  LET S == Of(batch, case)
           IN  \A T \in SUBSET S : T # {} => Collapsing(batch, S)[T] = <<Collapsed(batch, T)>>
<1> DEFINE S == Of(batch, case)
           made(T) == IF T = {} THEN <<>> ELSE <<Collapsed(batch, T)>>
           step(c, T) == IF T = {} THEN <<>>
                         ELSE Absorb(c[T \ {Latest(batch, T)}], Signal(batch[Latest(batch, T)]))
           w == [T \in SUBSET S |-> made(T)]
           c == Collapsing(batch, S)
<1>1. IsFiniteSet(S)
  <2>1. S \subseteq DOMAIN batch BY DEF Of
  <2> QED BY <2>1, EntriesOf, FS_Subset
<1>2. ASSUME NEW T \in SUBSET S PROVE made(T) = step(w, T)
  <2>1. CASE T = {} BY <2>1
  <2>2. CASE T # {}
    <3> DEFINE i == Latest(batch, T)
    <3>1. i \in T /\ i \in DOMAIN batch /\ i \in S BY <2>2, LatestIs DEF Of
    <3>2. CASE T \ {i} = {}
      <4>1. T = {i} BY <3>1, <3>2
      <4>2. w[{}] = <<>> OBVIOUS
      <4>3. Absorb(<<>>, Signal(batch[i])) = <<Collapsed(batch, {i})>> BY <3>1, <4>1, AbsorbOne
      <4> QED BY <2>2, <3>2, <4>1, <4>2, <4>3
    <3>3. CASE T \ {i} # {}
      <4>1. w[T \ {i}] = <<Collapsed(batch, T \ {i})>> BY <3>3
      <4>2. Absorb(<<Collapsed(batch, T \ {i})>>, Signal(batch[i])) = <<Collapsed(batch, T)>>
        BY <2>2, <3>3, AbsorbLatest
      <4> QED BY <2>2, <4>1, <4>2
    <3> QED BY <3>2, <3>3
  <2> QED BY <2>1, <2>2
<1>3. w = [T \in SUBSET S |-> step(w, T)]
  <2> HIDE DEF step, made
  <2>1. \A T \in SUBSET S : made(T) = step(w, T) BY <1>2
  <2>2. \A T \in SUBSET S : w[T] = made(T) OBVIOUS
  <2> QED BY <2>1
<1>4. \E d : d = [T \in SUBSET S |-> step(d, T)] BY <1>3
<1>5. c = CHOOSE d : d = [T \in SUBSET S |-> step(d, T)] BY DEF Collapsing
<1>6. c = [T \in SUBSET S |-> step(c, T)]
  <2> HIDE DEF c, step
  <2> QED BY <1>4, <1>5
<1>7. \A T \in SUBSET S : c[T] = made(T)
  <2> DEFINE wrong == {T \in SUBSET S : c[T] # made(T)}
             sizes == {Cardinality(T) : T \in wrong}
  <2> SUFFICES ASSUME wrong # {} PROVE FALSE
    OBVIOUS
  <2>1. \A T \in wrong : IsFiniteSet(T) /\ Cardinality(T) \in Nat BY <1>1, FS_Subset, FS_CardinalityType
  <2>2. sizes \in SUBSET Nat /\ sizes # {} BY <2>1
  <2>3. PICK n \in sizes : \A m \in sizes : n <= m
    <3> HIDE DEF sizes
    <3> QED BY <2>2, LeastExists, Zenon
  <2>4. PICK T \in wrong : Cardinality(T) = n BY <2>3
  <2>5. T \in SUBSET S /\ c[T] # made(T) OBVIOUS
  <2>6. c[T] = step(c, T) /\ made(T) = step(w, T)
    <3> HIDE DEF step, made, c, w
    <3> QED BY <1>2, <1>6, <2>5
  <2>7. T # {} BY <2>5, <2>6
  <2> DEFINE i == Latest(batch, T)
  <2>8. i \in T
    <3>1. T \subseteq DOMAIN batch BY <2>5 DEF Of
    <3> QED BY <2>7, <3>1, LatestIs
  <2>9. Cardinality(T \ {i}) = n - 1 /\ n \in Nat BY <2>1, <2>4, <2>8, FS_RemoveElement
  <2>10. T \ {i} \notin wrong
    <3> HIDE DEF wrong
    <3> SUFFICES ASSUME T \ {i} \in wrong PROVE FALSE
      OBVIOUS
    <3>1. Cardinality(T \ {i}) \in sizes OBVIOUS
    <3>2. n <= n - 1 BY <2>3, <2>9, <3>1
    <3> QED BY <2>9, <3>2
  <2>11. c[T \ {i}] = w[T \ {i}]
    <3>1. T \ {i} \in SUBSET S BY <2>5
    <3> QED BY <2>10, <3>1
  <2>12. step(c, T) = step(w, T)
    <3> HIDE DEF c, w
    <3> QED BY <2>11
  <2> QED BY <2>5, <2>6, <2>12
<1> QED BY <1>7

LEMMA GroupIs ==
    ASSUME NEW batch, OrderedBatch(batch), NEW case, Of(batch, case) # {}
    PROVE  LET S == Of(batch, case)
               g == Group(batch, case)
           IN  /\ g.case = case
               /\ Len(Collapse(batch, S)) = 1
               /\ g.changed = UNION {batch[i].changed : i \in S}
               /\ g.facets = [k \in Keys |-> UNION {batch[i].facets[k] : i \in S}]
               /\ g.priority = Priority(KindOf(batch, S))
               /\ g.latest \in Nat
<1> DEFINE S == Of(batch, case)
           m == Collapsed(batch, S)
           collapsed == Collapse(batch, S)
           merged == ToSet(collapsed)
           kinds == {batch[i].kind : i \in S}
<1>1. collapsed = <<m>> BY CollapsingIs DEF Collapse
<1>2. merged = {m} /\ Head(collapsed) = m /\ Len(collapsed) = 1
  <2> HIDE DEF m, collapsed
  <2> QED BY <1>1 DEF ToSet
<1>3. Latest(batch, S) \in S /\ S \subseteq DOMAIN batch BY LatestIs DEF Of
<1>4. /\ m.changed = UNION {batch[i].changed : i \in S}
      /\ m.facets = [k \in Keys |-> UNION {batch[i].facets[k] : i \in S}]
      /\ m.priority = Priority(KindOf(batch, S)) /\ m.at = batch[Latest(batch, S)].at
  BY DEF Collapsed
<1>5. m.at \in Nat BY <1>3, <1>4, EntriesOf DEF EventRecords
<1>6. m.priority \in Nat BY <1>4 DEF Priority
<1> HIDE DEF m
<1>7. Group(batch, case) =
          [case |-> case,
           changed |-> UNION {e.changed : e \in merged},
           facets |-> [k \in DOMAIN Head(collapsed).facets |-> UNION {e.facets[k] : e \in merged}],
           latest |-> CHOOSE t \in {e.at : e \in merged} : \A e \in merged : e.at <= t,
           priority |-> CHOOSE p \in {e.priority : e \in merged} : \A e \in merged : p <= e.priority,
           cancelled |-> {"create", "delete"} \subseteq kinds /\ "update" \notin kinds]
  BY DEF Group
<1> HIDE DEF collapsed, merged, S, kinds
<1>8. (UNION {e.changed : e \in merged}) = m.changed BY <1>2
<1>9. [k \in DOMAIN Head(collapsed).facets |-> UNION {e.facets[k] : e \in merged}] = m.facets
  <2>1. \A k : (UNION {e.facets[k] : e \in merged}) = m.facets[k] BY <1>2
  <2>2. m.facets = [k \in DOMAIN m.facets |-> m.facets[k]] BY <1>4
  <2> QED BY <1>2, <2>1, <2>2
<1>10. (CHOOSE t \in {e.at : e \in merged} : \A e \in merged : e.at <= t) = m.at BY <1>2, <1>5
<1>11. (CHOOSE p \in {e.priority : e \in merged} : \A e \in merged : p <= e.priority) = m.priority BY <1>2, <1>6
<1>12. /\ Group(batch, case).case = case /\ Group(batch, case).changed = m.changed
       /\ Group(batch, case).facets = m.facets /\ Group(batch, case).priority = m.priority
       /\ Group(batch, case).latest = m.at
  BY <1>7, <1>8, <1>9, <1>10, <1>11
<1> QED BY <1>2, <1>4, <1>5, <1>12 DEF S, collapsed

LEMMA DeletionIs ==
    ASSUME NEW batch, OrderedBatch(batch), NEW S \in SUBSET DOMAIN batch
    PROVE  Priority(KindOf(batch, S)) = 20 <=> \E i \in S : batch[i].kind = "delete"
BY DEF Priority, KindOf

\* Sorting: a finite set can be listed in the order of the groups.
InOrder(s, n, G) ==
    /\ s \in [1..n -> G]
    /\ \A g \in G : \E k \in 1..n : s[k] = g
    /\ \A k, l \in 1..n : k < l => ~Ahead(s[l], s[k])

LEMMA RearmostExists ==
    ASSUME NEW G, IsFiniteSet(G), G # {}, \A g \in G : g.priority \in Nat /\ g.latest \in Nat
    PROVE  \E z \in G : \A g \in G : ~Ahead(z, g)
<1> DEFINE p == [g \in G |-> g.priority]
           q == [g \in G |-> g.latest]
<1>1. \E z \in G : \A g \in G : p[g] < p[z] \/ (p[g] = p[z] /\ q[g] <= q[z])
  <2>1. \A g \in G : p[g] \in Nat /\ q[g] \in Nat OBVIOUS
  <2> HIDE DEF p, q
  <2> QED BY <2>1, LastByTwo
<1>2. PICK z \in G : \A g \in G : g.priority < z.priority \/ (g.priority = z.priority /\ g.latest <= z.latest)
  BY <1>1
<1> QED BY <1>2 DEF Ahead

LEMMA OrderExists ==
    ASSUME NEW G, IsFiniteSet(G), \A g \in G : g.priority \in Nat /\ g.latest \in Nat
    PROVE  \E s : InOrder(s, Cardinality(G), G)
<1> DEFINE sizes == {n \in Nat : \E H \in SUBSET G : Cardinality(H) = n /\ ~\E s : InOrder(s, n, H)}
<1> SUFFICES ASSUME ~\E s : InOrder(s, Cardinality(G), G) PROVE FALSE
  OBVIOUS
<1>1. sizes \in SUBSET Nat /\ Cardinality(G) \in sizes BY FS_CardinalityType
<1>2. PICK n \in sizes : \A m \in sizes : n <= m
  <2> HIDE DEF sizes
  <2> QED BY <1>1, LeastExists, Zenon
<1>3. PICK H \in SUBSET G : Cardinality(H) = n /\ ~\E s : InOrder(s, n, H) BY <1>2
<1>4. n \in Nat /\ IsFiniteSet(H) BY <1>3, FS_Subset
<1>5. CASE H = {}
  <2>1. n = 0 /\ 1..n = {} BY <1>3, <1>5, FS_EmptySet
  <2>2. InOrder([k \in 1..n |-> k], n, H) BY <1>5, <2>1 DEF InOrder
  <2> QED BY <1>3, <2>2
<1>6. CASE H # {}
  <2>1. PICK z \in H : \A g \in H : ~Ahead(z, g) BY <1>4, <1>6, RearmostExists
  <2> DEFINE R == H \ {z}
  <2>2. IsFiniteSet(R) /\ Cardinality(R) = n - 1 /\ n - 1 \in Nat
    <3>1. IsFiniteSet(R) /\ Cardinality(R) = n - 1 BY <1>3, <1>4, <2>1, FS_RemoveElement
    <3>2. Cardinality(R) \in Nat BY <3>1, FS_CardinalityType
    <3> QED BY <3>1, <3>2
  <2>3. n - 1 \notin sizes BY <1>2, <1>4, <2>2
  <2>4. PICK s : InOrder(s, n - 1, R) BY <1>3, <2>2, <2>3
  <2> DEFINE t == [k \in 1..n |-> IF k = n THEN z ELSE s[k]]
  <2>5. t \in [1..n -> H]
    <3>1. \A k \in 1..n : k # n => k \in 1..(n - 1) BY <1>4
    <3>2. \A k \in 1..(n - 1) : s[k] \in H BY <2>4 DEF InOrder
    <3> QED BY <2>1, <3>1, <3>2
  <2>6. \A g \in H : \E k \in 1..n : t[k] = g
    <3> SUFFICES ASSUME NEW g \in H PROVE \E k \in 1..n : t[k] = g
      OBVIOUS
    <3>1. n \in 1..n BY <2>2
    <3>2. CASE g = z BY <3>1, <3>2
    <3>3. CASE g # z
      <4>1. PICK k \in 1..(n - 1) : s[k] = g BY <2>4, <3>3 DEF InOrder
      <4>2. k \in 1..n /\ k # n BY <2>2
      <4> QED BY <4>1, <4>2
    <3> QED BY <3>2, <3>3
  <2>7. \A k, l \in 1..n : k < l => ~Ahead(t[l], t[k])
    <3> SUFFICES ASSUME NEW k \in 1..n, NEW l \in 1..n, k < l PROVE ~Ahead(t[l], t[k])
      OBVIOUS
    <3>1. k \in 1..(n - 1) /\ t[k] = s[k] /\ t[k] \in H BY <1>4, <2>5
    <3>2. CASE l = n BY <2>1, <3>1, <3>2
    <3>3. CASE l # n
      <4>1. l \in 1..(n - 1) /\ t[l] = s[l] BY <1>4, <3>3
      <4> QED BY <2>4, <3>1, <4>1 DEF InOrder
    <3> QED BY <3>2, <3>3
  <2> HIDE DEF t
  <2>8. InOrder(t, n, H) BY <2>5, <2>6, <2>7 DEF InOrder
  <2> QED BY <1>3, <2>8
<1> QED BY <1>5, <1>6

LEMMA SortedIs ==
    ASSUME NEW G, IsFiniteSet(G), \A g \in G : g.priority \in Nat /\ g.latest \in Nat
    PROVE  InOrder(Sorted(G), Cardinality(G), G)
<1>1. PICK s : InOrder(s, Cardinality(G), G) BY OrderExists
<1> DEFINE fits(t) == /\ \A g \in G : \E n \in DOMAIN t : t[n] = g
                      /\ \A m, n \in DOMAIN t : m < n => ~Ahead(t[n], t[m])
<1>2. s \in [1..Cardinality(G) -> G] /\ fits(s) BY <1>1 DEF InOrder
<1>3. Sorted(G) = CHOOSE t \in [1..Cardinality(G) -> G] : fits(t) BY DEF Sorted
<1>4. Sorted(G) \in [1..Cardinality(G) -> G] /\ fits(Sorted(G))
  <2> HIDE DEF fits
  <2> QED BY <1>2, <1>3
<1> QED BY <1>4 DEF InOrder

LEMMA GroupsFollowCases ==
    ASSUME EventsInv
    PROVE  WorkingSetFollowsCases
<1> DEFINE known == {e.case : e \in ToSet(events)}
           groups == Groups(events)
           affected == AffectedCases(events)
           size == Cardinality(groups)
<1>1. OrderedBatch(events) BY DEF EventsInv
<1>2. ToSet(events) = {events[j] : j \in DOMAIN events} BY DEF ToSet
<1>3. \A case \in known : Of(events, case) # {} BY <1>2 DEF Of
<1>4. groups = {Group(events, case) : case \in known} BY DEF Groups
<1>5. ASSUME NEW case \in known
      PROVE  LET g == Group(events, case)
                 of == {e \in ToSet(events) : e.case = case}
             IN  /\ g.case = case
                 /\ g.priority \in Nat /\ g.latest \in Nat
                 /\ Len(Collapse(events, Of(events, case))) = 1
                 /\ g.changed = UNION {e.changed : e \in of}
                 /\ g.facets = [k \in Keys |-> UNION {e.facets[k] : e \in of}]
                 /\ g.priority = 20 <=> \E e \in of : e.kind = "delete"
                 /\ g.priority = 20 => case \notin live
  <2> DEFINE S == Of(events, case)
             g == Group(events, case)
             of == {e \in ToSet(events) : e.case = case}
  <2>1. /\ g.case = case /\ Len(Collapse(events, S)) = 1
        /\ g.changed = UNION {events[j].changed : j \in S}
        /\ g.facets = [k \in Keys |-> UNION {events[j].facets[k] : j \in S}]
        /\ g.priority = Priority(KindOf(events, S)) /\ g.latest \in Nat
    BY <1>1, <1>3, GroupIs
  <2>2. of = {events[j] : j \in S} BY <1>2 DEF Of
  <2>3. g.priority = 20 <=> \E j \in S : events[j].kind = "delete"
    <3>1. S \subseteq DOMAIN events BY DEF Of
    <3> QED BY <1>1, <2>1, <3>1, DeletionIs
  <2>4. g.priority \in Nat BY <2>1 DEF Priority
  <2>5. \A j \in S : events[j].kind = "delete" => case \notin live BY DEF EventsInv, Of
  <2> HIDE DEF g, S, of
  <2>6. (UNION {e.changed : e \in of}) = UNION {events[j].changed : j \in S} BY <2>2
  <2>7. \A k \in Keys : (UNION {e.facets[k] : e \in of}) = UNION {events[j].facets[k] : j \in S} BY <2>2
  <2>8. g.facets = [k \in Keys |-> UNION {e.facets[k] : e \in of}] BY <2>1, <2>7
  <2>9. (\E e \in of : e.kind = "delete") <=> \E j \in S : events[j].kind = "delete" BY <2>2
  <2> QED BY <2>1, <2>3, <2>4, <2>5, <2>6, <2>8, <2>9 DEF g, S, of
<1>6. IsFiniteSet(known)
  <2> DEFINE of == [j \in DOMAIN events |-> events[j].case]
  <2>1. known = {of[j] : j \in DOMAIN events} BY <1>2
  <2> HIDE DEF known, of
  <2> QED BY <1>1, <2>1, EntriesOf, ValuesFinite
<1>7. IsFiniteSet(groups) /\ size = Cardinality(known)
  <2> DEFINE f == [case \in known |-> Group(events, case)]
  <2>1. f \in [known -> groups] /\ \A g \in groups : \E case \in known : f[case] = g BY <1>4
  <2>2. \A c, d \in known : f[c] = f[d] => c = d BY <1>5
  <2> HIDE DEF known, f, groups
  <2>3. f \in Bijection(known, groups) BY <2>1, <2>2 DEF Bijection, Injection, Surjection, IsInjective
  <2>4. ExistsBijection(known, groups) BY <2>3 DEF ExistsBijection
  <2>5. IsFiniteSet(groups) /\ Cardinality(groups) = Cardinality(known) BY <1>6, <2>4, FS_Bijection
  <2> QED BY <2>5 DEF groups
<1>8. InOrder(Sorted(groups), size, groups)
  <2>1. ASSUME NEW g \in groups PROVE g.priority \in Nat /\ g.latest \in Nat
    <3>1. PICK case \in known : g = Group(events, case) BY <1>4
    <3> HIDE DEF known, groups
    <3> QED BY <1>5, <3>1
  <2> HIDE DEF groups
  <2> QED BY <1>7, <2>1, SortedIs DEF size
<1>9. size \in Nat /\ affected = [n \in 1..size |-> Sorted(groups)[n].case]
  BY <1>7, FS_CardinalityType DEF AffectedCases
<1>10. Len(affected) = Cardinality(known)
  <2> HIDE DEF affected, size, known
  <2> QED BY <1>7, <1>9
<1>11. ToSet(affected) = known
  <2>1. ToSet(affected) = {Sorted(groups)[n].case : n \in 1..size}
    <3> HIDE DEF affected, size, groups
    <3>1. DOMAIN affected = 1..size /\ \A n \in 1..size : affected[n] = Sorted(groups)[n].case BY <1>9
    <3>2. ToSet(affected) = {affected[n] : n \in DOMAIN affected} BY DEF ToSet
    <3> QED BY <3>1, <3>2
  <2>2. known = {g.case : g \in groups}
    <3> HIDE DEF known, groups
    <3>1. \A case \in known : Group(events, case).case = case BY <1>5
    <3> QED BY <1>4, <3>1
  <2> HIDE DEF known, groups, size, affected
  <2>3. \A n \in 1..size : Sorted(groups)[n] \in groups BY <1>8 DEF InOrder
  <2>4. \A g \in groups : \E n \in 1..size : Sorted(groups)[n] = g BY <1>8 DEF InOrder
  <2> QED BY <2>1, <2>2, <2>3, <2>4
<1>12. ASSUME NEW g \in groups
       PROVE  LET of == {e \in ToSet(events) : e.case = g.case}
              IN  /\ Len(Collapse(events, Of(events, g.case))) = 1
                  /\ g.changed = UNION {e.changed : e \in of}
                  /\ g.facets = [k \in Keys |-> UNION {e.facets[k] : e \in of}]
                  /\ g.priority = 20 <=> \E e \in of : e.kind = "delete"
                  /\ g.priority = 20 => g.case \notin live
  <2>1. PICK case \in known : g = Group(events, case) BY <1>4
  <2>2. g.case = case BY <1>5, <2>1
  <2> HIDE DEF known, groups
  <2> QED BY <1>5, <2>1, <2>2
<1> HIDE DEF known, groups, affected
<1> QED BY <1>10, <1>11, <1>12 DEF WorkingSetFollowsCases, known, groups, affected

-----------------------------------------------------------------------------
(* Every step keeps the events of a case in order *)

\* What EventsInv says of one event.
Justified(e) == /\ e.at <= ops
                /\ e.case \in used /\ ~drafts[e.case].queued
                /\ e.kind = "delete" => e.case \notin live
Journal == unsent \cup {events[j] : j \in DOMAIN events}

LEMMA JournalIs ==
    ASSUME EventsInv, RestInv
    PROVE  /\ \A e \in Journal : e \in EventRecords /\ Justified(e) /\ e.at \in Nat
           /\ ops \in Nat
           /\ events \in Seq(EventRecords) /\ Len(events) \in Nat /\ DOMAIN events = 1..Len(events)
<1>1. events \in Seq(EventRecords) BY DEF EventsInv, OrderedBatch
<1>2. Len(events) \in Nat /\ DOMAIN events = 1..Len(events) BY <1>1
<1>3. \A j \in DOMAIN events : events[j] \in EventRecords BY <1>1
<1>4. \A e \in Journal : e \in EventRecords BY <1>3 DEF EventsInv, Journal
<1>5. \A e \in Journal : Justified(e) BY DEF EventsInv, Journal, Justified
<1>6. \A e \in EventRecords : e.at \in Nat BY DEF EventRecords
<1>7. ops \in Nat BY CatalogAssumption DEF RestInv
<1> QED BY <1>1, <1>2, <1>4, <1>5, <1>6, <1>7

LEMMA SameJournalKeeps ==
    ASSUME EventsInv, RestInv, UNCHANGED journal, ops' \in Nat, ops <= ops',
           \A e \in Journal : /\ e.case \in used' /\ ~drafts'[e.case].queued
                              /\ e.kind = "delete" => e.case \notin live'
    PROVE  EventsInv'
<1>1. events' = events /\ unsent' = unsent BY DEF journal
<1>2. \A e \in Journal : e.at <= ops' BY JournalIs DEF Justified
<1>3. \A e \in unsent' \cup {events'[j] : j \in DOMAIN events'} :
           /\ e.at <= ops'
           /\ e.case \in used' /\ ~drafts'[e.case].queued
           /\ e.kind = "delete" => e.case \notin live'
  BY <1>1, <1>2 DEF Journal
<1>4. /\ OrderedBatch(events')
      /\ unsent' \subseteq EventRecords
      /\ \A e \in unsent' : e.kind # "create"
      /\ \A e, f \in unsent' : e # f => Ordered(e, f)
      /\ \A j \in DOMAIN events', f \in unsent' : Ordered(events'[j], f)
  BY <1>1 DEF EventsInv
<1> QED BY <1>3, <1>4 DEF EventsInv

\* An event of a live case comes after all the others of the case.
LEMMA NewIsLast ==
    ASSUME EventsInv, RestInv, NEW new, new.at = ops', ops' = ops + 1,
           new.kind \in {"update", "delete"}, new.case \in live, NEW e \in Journal
    PROVE  Ordered(e, new) /\ Ordered(new, e)
<1>1. e.at \in Nat /\ e.at < new.at BY JournalIs DEF Justified
<1>2. e.case = new.case => e.kind # "delete" BY JournalIs DEF Justified
<1> QED BY <1>1, <1>2 DEF Ordered

LEMMA OweKeeps ==
    ASSUME EventsInv, RestInv, NEW new \in EventRecords, new.at = ops', ops' = ops + 1,
           new.kind \in {"update", "delete"}, new.case \in live, new.case \in used, ~drafts[new.case].queued,
           unsent' = unsent \cup {new}, UNCHANGED <<events, used, drafts>>,
           live' \subseteq live, new.kind = "delete" => new.case \notin live'
    PROVE  EventsInv'
<1>1. \A e \in Journal : Ordered(e, new) /\ Ordered(new, e) BY NewIsLast
<1>2. unsent \subseteq Journal /\ \A j \in DOMAIN events : events[j] \in Journal BY DEF Journal
<1>3. /\ OrderedBatch(events')
      /\ unsent' \subseteq EventRecords
      /\ \A e \in unsent' : e.kind # "create"
  BY DEF EventsInv
<1>4. \A e, f \in unsent' : e # f => Ordered(e, f) BY <1>1, <1>2 DEF EventsInv
<1>5. \A j \in DOMAIN events', f \in unsent' : Ordered(events'[j], f) BY <1>1, <1>2 DEF EventsInv
<1>6. ASSUME NEW e \in unsent' \cup {events'[j] : j \in DOMAIN events'}
      PROVE  /\ e.at <= ops'
             /\ e.case \in used' /\ ~drafts'[e.case].queued
             /\ e.kind = "delete" => e.case \notin live'
  <2>1. ops \in Nat BY JournalIs
  <2>2. CASE e = new BY <2>1, <2>2
  <2>3. CASE e \in Journal
    <3>1. Justified(e) /\ e.at \in Nat BY <2>3, JournalIs
    <3> QED BY <2>1, <3>1 DEF Justified
  <2> QED BY <2>2, <2>3 DEF Journal
<1> QED BY <1>3, <1>4, <1>5, <1>6 DEF EventsInv

\* Published, an event stays in order, with its time or with the present one.
LEMMA PublishKeepsEvents ==
    ASSUME EventsInv, RestInv, NEW e \in unsent, Publish(e)
    PROVE  EventsInv'
<1> DEFINE new == IF e.kind = "delete" THEN [e EXCEPT !.at = ops] ELSE e
<1>1. /\ unsent' = unsent \ {e} /\ events' = Append(events, new)
      /\ UNCHANGED <<live, used, drafts, ops>>
  BY DEF Publish, cases
<1>2. e \in Journal /\ unsent \subseteq Journal /\ \A j \in DOMAIN events : events[j] \in Journal BY DEF Journal
<1>3. e \in EventRecords /\ Justified(e) /\ ops \in Nat /\ e.at \in Nat BY <1>2, JournalIs
<1>4. /\ new \in EventRecords /\ new.case = e.case /\ new.kind = e.kind /\ new.at \in Nat
      /\ e.at <= new.at /\ new.at <= ops /\ (e.kind # "delete" => new = e)
  BY <1>3 DEF EventRecords, Justified
<1> HIDE DEF new
<1>5. ASSUME NEW f \in Journal, Ordered(e, f)
      PROVE  Ordered(new, f) /\ Ordered(f, new)
  <2>1. f.at \in Nat BY JournalIs
  <2>2. CASE e.kind # "delete" BY <1>4, <1>5, <2>2 DEF Ordered
  <2>3. CASE e.kind = "delete" BY <1>3, <1>4, <1>5, <2>1, <2>3 DEF Ordered
  <2> QED BY <2>2, <2>3
<1>6. ASSUME NEW f \in unsent' PROVE Ordered(new, f)
  <2>1. f \in Journal /\ Ordered(e, f) BY <1>1, <1>2 DEF EventsInv
  <2> QED BY <1>5, <2>1
<1>7. ASSUME NEW j \in DOMAIN events PROVE Ordered(new, events[j]) /\ Ordered(events[j], new)
  <2>1. Ordered(events[j], e) BY DEF EventsInv
  <2>2. Ordered(e, events[j]) BY <2>1 DEF Ordered
  <2> QED BY <1>2, <1>5, <2>2
<1>8. /\ events' \in Seq(EventRecords) /\ DOMAIN events' = 1..(Len(events) + 1)
      /\ events'[Len(events) + 1] = new
      /\ \A j \in 1..Len(events) : events'[j] = events[j]
      /\ Len(events) \in Nat /\ DOMAIN events = 1..Len(events)
  BY <1>1, <1>4, JournalIs
<1>9. \A j \in DOMAIN events' : j = Len(events) + 1 \/ j \in DOMAIN events BY <1>8
<1>10. \A i, j \in DOMAIN events' : i # j => Ordered(events'[i], events'[j])
  <2> SUFFICES ASSUME NEW i \in DOMAIN events', NEW j \in DOMAIN events', i # j PROVE Ordered(events'[i], events'[j])
    OBVIOUS
  <2>1. CASE i \in DOMAIN events /\ j \in DOMAIN events
    <3>1. Ordered(events[i], events[j]) BY <2>1 DEF EventsInv, OrderedBatch
    <3> QED BY <1>8, <2>1, <3>1
  <2>2. CASE i \in DOMAIN events /\ j = Len(events) + 1 BY <1>7, <1>8, <2>2
  <2>3. CASE i = Len(events) + 1 /\ j \in DOMAIN events BY <1>7, <1>8, <2>3
  <2> QED BY <1>9, <2>1, <2>2, <2>3
<1>11. \A j \in DOMAIN events', f \in unsent' : Ordered(events'[j], f)
  <2> SUFFICES ASSUME NEW j \in DOMAIN events', NEW f \in unsent' PROVE Ordered(events'[j], f)
    OBVIOUS
  <2>1. CASE j \in DOMAIN events
    <3>1. Ordered(events[j], f) BY <1>1, <2>1 DEF EventsInv
    <3> QED BY <1>8, <2>1, <3>1
  <2>2. CASE j = Len(events) + 1 BY <1>6, <1>8, <2>2
  <2> QED BY <1>9, <2>1, <2>2
<1>12. \A g, f \in unsent' : g # f => Ordered(g, f) BY <1>1 DEF EventsInv
<1>13. unsent' \subseteq EventRecords /\ \A f \in unsent' : f.kind # "create" BY <1>1 DEF EventsInv
<1>14. ASSUME NEW f \in unsent' \cup {events'[j] : j \in DOMAIN events'}
       PROVE  f.at <= ops' /\ f.case \in used' /\ ~drafts'[f.case].queued /\ (f.kind = "delete" => f.case \notin live')
  <2>1. CASE f = new BY <1>1, <1>3, <1>4, <2>1 DEF Justified
  <2>2. CASE f \in Journal BY <1>1, <2>2, JournalIs DEF Justified
  <2>3. f = new \/ f \in Journal BY <1>1, <1>2, <1>8, <1>9
  <2> QED BY <2>1, <2>2, <2>3
<1> QED BY <1>8, <1>10, <1>11, <1>12, <1>13, <1>14 DEF EventsInv, OrderedBatch

\* A case whose draft is queued has no event; its creation is the first.
LEMMA InputKeepsEvents ==
    ASSUME FilesInv, FilesInv', FacetsInv', EventsInv, RestInv, NEW i \in Ids, Input(i)
    PROVE  EventsInv'
<1>1. /\ drafts[i].queued /\ drafts' = [drafts EXCEPT ![i] = NoDraft]
      /\ UNCHANGED <<used, unsent, ops>> /\ i \in used /\ i \notin live
  BY DEF Input, FilesInv
<1>2. \A j \in Ids : drafts'[j] = IF j = i THEN NoDraft ELSE drafts[j] BY <1>1 DEF FilesInv
<1>3. used \subseteq Ids /\ ops \in Nat BY JournalIs DEF FilesInv
<1>4. \A e \in Journal : /\ e.case \in used' /\ ~drafts'[e.case].queued /\ e.case # i
                         /\ e.at \in Nat /\ e.at <= ops' /\ e \in EventRecords
                         /\ e.kind = "delete" => e.case \notin live
  <2> SUFFICES ASSUME NEW e \in Journal
               PROVE  /\ e.case \in used' /\ ~drafts'[e.case].queued /\ e.case # i
                      /\ e.at \in Nat /\ e.at <= ops' /\ e \in EventRecords
                      /\ e.kind = "delete" => e.case \notin live
    OBVIOUS
  <2>1. Justified(e) /\ e.at \in Nat /\ e \in EventRecords BY JournalIs
  <2>2. e.case # i BY <1>1, <2>1 DEF Justified
  <2>3. drafts'[e.case] = drafts[e.case] BY <1>2, <1>3, <2>1, <2>2 DEF Justified
  <2> QED BY <1>1, <2>1, <2>2, <2>3 DEF Justified
<1>5. CASE live' = live /\ events' = events
  <2>1. UNCHANGED journal BY <1>1, <1>5 DEF journal
  <2> QED BY <1>1, <1>3, <1>4, <1>5, <2>1, SameJournalKeeps
<1>6. CASE /\ live' = live \cup {i}
           /\ events' = Append(events, Event(i, "create", {"semantic_profile", "facets"}, docs'[i].facets))
  <2> DEFINE new == Event(i, "create", {"semantic_profile", "facets"}, docs'[i].facets)
  <2>1. new \in EventRecords /\ new.case = i /\ new.kind = "create" /\ new.at = ops'
    BY <1>1, <1>3 DEF Event, EventRecords, Kinds, FacetsInv
  <2> HIDE DEF new
  <2>2. /\ events' \in Seq(EventRecords) /\ DOMAIN events' = 1..(Len(events) + 1)
        /\ events'[Len(events) + 1] = new
        /\ \A j \in 1..Len(events) : events'[j] = events[j]
        /\ Len(events) \in Nat /\ DOMAIN events = 1..Len(events)
    BY <1>6, <2>1, JournalIs DEF new
  <2>3. \A j \in DOMAIN events' : j = Len(events) + 1 \/ j \in DOMAIN events BY <2>2
  <2>4. unsent \subseteq Journal /\ \A j \in DOMAIN events : events[j] \in Journal BY DEF Journal
  <2>5. \A e \in Journal : Ordered(new, e) /\ Ordered(e, new) BY <1>4, <2>1 DEF Ordered
  <2>6. ASSUME NEW j \in DOMAIN events', NEW k \in DOMAIN events', j # k PROVE Ordered(events'[j], events'[k])
    <3>1. CASE j \in DOMAIN events /\ k \in DOMAIN events
      <4>1. Ordered(events[j], events[k]) BY <2>6, <3>1 DEF EventsInv, OrderedBatch
      <4> QED BY <2>2, <3>1, <4>1
    <3>2. CASE j \in DOMAIN events /\ k = Len(events) + 1 BY <2>2, <2>4, <2>5, <3>2
    <3>3. CASE j = Len(events) + 1 /\ k \in DOMAIN events BY <2>2, <2>4, <2>5, <3>3
    <3> QED BY <2>3, <2>6, <3>1, <3>2, <3>3
  <2>7. ASSUME NEW j \in DOMAIN events', NEW f \in unsent' PROVE Ordered(events'[j], f)
    <3>1. CASE j \in DOMAIN events
      <4>1. Ordered(events[j], f) BY <1>1, <3>1 DEF EventsInv
      <4> QED BY <2>2, <3>1, <4>1
    <3>2. CASE j = Len(events) + 1 BY <1>1, <2>2, <2>4, <2>5, <3>2
    <3> QED BY <2>3, <3>1, <3>2
  <2>8. /\ unsent' \subseteq EventRecords /\ \A f \in unsent' : f.kind # "create"
        /\ \A g, f \in unsent' : g # f => Ordered(g, f)
    BY <1>1 DEF EventsInv
  <2>9. ASSUME NEW f \in unsent' \cup {events'[j] : j \in DOMAIN events'}
        PROVE  f.at <= ops' /\ f.case \in used' /\ ~drafts'[f.case].queued /\ (f.kind = "delete" => f.case \notin live')
    <3>1. f = new \/ f \in Journal BY <1>1, <2>2, <2>3, <2>4
    <3>2. CASE f = new
      <4>1. drafts'[i].queued = FALSE BY <1>2 DEF NoDraft
      <4> QED BY <1>1, <1>3, <2>1, <3>2, <4>1
    <3>3. CASE f \in Journal BY <1>4, <1>6, <3>3
    <3> QED BY <3>1, <3>2, <3>3
  <2> QED BY <2>2, <2>6, <2>7, <2>8, <2>9 DEF EventsInv, OrderedBatch
<1> QED BY <1>5, <1>6 DEF Input, derived

LEMMA EditsKeepEvents ==
    ASSUME FilesInv, FacetsInv, FacetsInv', EventsInv, RestInv, NEW i \in Ids,
           Delete(i) \/ \E p \in CaseProfiles : Update(i, p)
    PROVE  EventsInv'
<1>1. /\ i \in live /\ i \in used /\ ~drafts[i].queued /\ ops' = ops + 1 /\ ops \in Nat
      /\ UNCHANGED <<events, used, drafts>>
  BY JournalIs DEF Delete, Update, Request, FilesInv
<1>2. CASE \E p \in CaseProfiles : Update(i, p)
  <2>1. live' = live BY <1>2 DEF Update
  <2>2. PICK changed \in SUBSET {"semantic_profile", "facets"} :
            unsent' = unsent \cup {Event(i, "update", changed, docs'[i].facets)}
    BY <1>2 DEF Update
  <2> DEFINE new == Event(i, "update", changed, docs'[i].facets)
  <2>3. new \in EventRecords /\ new.case = i /\ new.kind = "update" /\ new.at = ops'
    BY <1>1 DEF Event, EventRecords, Kinds, FacetsInv
  <2> HIDE DEF new
  <2>4. unsent' = unsent \cup {new} BY <2>2 DEF new
  <2> QED BY <1>1, <2>1, <2>3, <2>4, OweKeeps
<1>3. CASE Delete(i)
  <2>1. live' = live \ {i} BY <1>3 DEF Delete
  <2>2. CASE unsent' = unsent
    <3>1. UNCHANGED journal BY <1>1, <2>2 DEF journal
    <3>2. \A e \in Journal : Justified(e) BY JournalIs
    <3>3. ops' \in Nat /\ ops <= ops' BY <1>1
    <3> QED BY <1>1, <2>1, <3>1, <3>2, <3>3, SameJournalKeeps DEF Justified
  <2>3. CASE unsent' = unsent \cup {Event(i, "delete", {}, docs[i].facets)}
    <3> DEFINE new == Event(i, "delete", {}, docs[i].facets)
    <3>1. new \in EventRecords /\ new.case = i /\ new.kind = "delete" /\ new.at = ops'
      BY <1>1 DEF Event, EventRecords, Kinds, FacetsInv
    <3> HIDE DEF new
    <3>2. unsent' = unsent \cup {new} BY <2>3 DEF new
    <3> QED BY <1>1, <2>1, <3>1, <3>2, OweKeeps
  <2> QED BY <1>3, <2>2, <2>3 DEF Delete
<1> QED BY <1>2, <1>3

LEMMA AcceptKeepsEvents ==
    ASSUME FilesInv, EventsInv, RestInv, NEW i \in Ids, NEW p \in CaseProfiles, Accept(i, p)
    PROVE  EventsInv'
<1>1. /\ i \notin used /\ used' = used \cup {i} /\ live' = live /\ ops' = ops + 1 /\ UNCHANGED journal
      /\ drafts' = [drafts EXCEPT ![i] = [profile |-> p, facets |-> Project(p, schema), queued |-> TRUE]]
  BY DEF Accept, Request
<1>2. \A j \in Ids : j # i => drafts'[j] = drafts[j] BY <1>1 DEF FilesInv
<1>3. \A e \in Journal : Justified(e) BY JournalIs
<1>4. \A e \in Journal : e.case \in used /\ e.case # i /\ e.case \in Ids BY <1>1, <1>3 DEF Justified, FilesInv
<1>5. \A e \in Journal : /\ e.case \in used' /\ ~drafts'[e.case].queued
                         /\ e.kind = "delete" => e.case \notin live'
  BY <1>1, <1>2, <1>3, <1>4 DEF Justified
<1>6. ops' \in Nat /\ ops <= ops' BY <1>1, JournalIs
<1> QED BY <1>1, <1>5, <1>6, SameJournalKeeps

LEMMA NextKeepsEvents ==
    ASSUME FilesInv, FilesInv', FacetsInv, FacetsInv', RestInv, EventsInv, [Next]_vars
    PROVE  EventsInv'
<1>1. CASE \E i \in Ids, p \in CaseProfiles : Accept(i, p) BY <1>1, AcceptKeepsEvents
<1>2. CASE \E i \in Ids : Input(i) BY <1>2, InputKeepsEvents
<1>3. CASE (\E i \in Ids : Delete(i)) \/ \E i \in Ids, p \in CaseProfiles : Update(i, p)
  BY <1>3, EditsKeepEvents
<1>4. CASE \E e \in unsent : Publish(e) BY <1>4, PublishKeepsEvents
<1>5. CASE Assemble
  <2>1. events' = <<>> /\ UNCHANGED <<unsent, ops, used, drafts, live>> BY <1>5 DEF Assemble, cases
  <2>2. events' \in Seq(EventRecords) /\ DOMAIN events' = {} BY <2>1
  <2> QED BY <2>1, <2>2 DEF EventsInv, OrderedBatch
<1>6. CASE UNCHANGED <<journal, used, drafts>> /\ live' \subseteq live /\ (ops' = ops \/ ops' = ops + 1)
  <2>1. \A e \in Journal : Justified(e) BY JournalIs
  <2>2. ops' \in Nat /\ ops <= ops' BY <1>6, JournalIs
  <2> QED BY <1>6, <2>1, <2>2, SameJournalKeeps DEF Justified
<1>7. ASSUME \/ \E i \in Ids, p \in CaseProfiles : RebuildCase(i, p)
             \/ \E i \in Ids : RefreshCaseFacets(i)
             \/ \E new \in Schemas : ApplyPlan(new) \/ PutSchema(new)
             \/ \E new \in {"active", "inactive"} : PutPartition(new) \/ RecreatePartition(new)
             \/ DeletePartition
             \/ \E selected \in SUBSET Ids : RefreshSelected(selected)
             \/ CommitByHand
             \/ UNCHANGED vars
      PROVE  UNCHANGED <<journal, used, drafts>> /\ live' \subseteq live /\ (ops' = ops \/ ops' = ops + 1)
  <2> USE DEF Bypass, Request, cases, journal
  <2>1. CASE \E i \in Ids, p \in CaseProfiles : RebuildCase(i, p) BY <2>1 DEF RebuildCase
  <2>2. CASE \E i \in Ids : RefreshCaseFacets(i) BY <2>2 DEF RefreshCaseFacets
  <2>3. CASE \E new \in Schemas : ApplyPlan(new) BY <2>3 DEF ApplyPlan
  <2>4. CASE \E new \in Schemas : PutSchema(new) BY <2>4 DEF PutSchema
  <2>5. CASE \E new \in {"active", "inactive"} : PutPartition(new) \/ RecreatePartition(new)
    BY <2>5 DEF PutPartition, RecreatePartition
  <2>6. CASE DeletePartition BY <2>6 DEF DeletePartition
  <2>7. CASE \E selected \in SUBSET Ids : RefreshSelected(selected) BY <2>7 DEF RefreshSelected
  <2>8. CASE CommitByHand \/ UNCHANGED vars BY <2>8 DEF CommitByHand, vars
  <2> QED BY <1>7, <2>1, <2>2, <2>3, <2>4, <2>5, <2>6, <2>7, <2>8
<1> QED BY <1>1, <1>2, <1>3, <1>4, <1>5, <1>6, <1>7 DEF Next

\* In whatever order edits publish and batches are taken, what a drain is told of
\* a case is one thing: all that changed, and a deletion exactly if it is gone.
THEOREM WorkingSetAlwaysFollows == Spec => []WorkingSetFollowsCases
<1> DEFINE Inv == DocsInv /\ FilesInv /\ FacetsInv /\ RestInv /\ EventsInv
<1>1. Init => Inv
  <2> SUFFICES ASSUME Init PROVE EventsInv
    BY InitRest
  <2>1. events = <<>> /\ unsent = {} BY DEF Init
  <2>2. events \in Seq(EventRecords) /\ DOMAIN events = {} BY <2>1
  <2> QED BY <2>1, <2>2 DEF EventsInv, OrderedBatch
<1>2. Inv /\ [Next]_vars => Inv'
  <2> SUFFICES ASSUME Inv, [Next]_vars PROVE Inv'
    OBVIOUS
  <2>1. DocsInv' /\ FilesInv' /\ FacetsInv' /\ RestInv'
    BY NextKeeps, NextKeepsFiles, NextKeepsFacets, NextKeepsRest
  <2> QED BY <2>1, NextKeepsEvents
<1>3. Inv => WorkingSetFollowsCases BY GroupsFollowCases
<1> QED BY <1>1, <1>2, <1>3, PTL DEF Spec
=============================================================================
