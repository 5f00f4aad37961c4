-------------------------- MODULE AtomicWorkspace --------------------------
(***************************************************************************)
(* What the Git workspace of a partition promises those who read its       *)
(* revisions, with no files, no index, no lock and no failures in sight:   *)
(* a revision is a schema and a set of projected cases, and the next one   *)
(* differs from it by one complete operation.                              *)
(***************************************************************************)
EXTENDS Integers, FiniteSets

CONSTANTS Cases, Profiles, Schemas,
          ListLimit, Rank,   \* how many cases a change of the schema reaches, in which order
          Project,       \* facets of a profile under a schema
          FirstSchema, Absent

VARIABLES schema,   \* of the revision
          cases     \* profile and facets of each case, or Absent

vars == <<schema, cases>>

Init == schema = FirstSchema /\ cases = [c \in Cases |-> Absent]

Case(profile, under) == [profile |-> profile, facets |-> Project[profile, under]]

Input(c, profile) ==
    /\ cases[c] = Absent
    /\ cases' = [cases EXCEPT ![c] = Case(profile, schema)]
    /\ UNCHANGED schema

Update(c, profile) ==
    /\ cases[c] # Absent
    /\ cases' = [cases EXCEPT ![c] = Case(profile, schema)]
    /\ UNCHANGED schema

Delete(c) ==
    /\ cases[c] # Absent
    /\ cases' = [cases EXCEPT ![c] = Absent]
    /\ UNCHANGED schema

Listed ==
    {c \in Cases :
        /\ cases[c] # Absent
        /\ Cardinality({d \in Cases : cases[d] # Absent /\ Rank[d] < Rank[c]}) < ListLimit}

\* A schema is accepted for all listed cases at once and for no other.
Accept(k) ==
    /\ schema' = k
    /\ cases' = [c \in Cases |-> IF c \in Listed THEN Case(cases[c].profile, k) ELSE cases[c]]

Next ==
    \/ \E c \in Cases, f \in Profiles : Input(c, f) \/ Update(c, f)
    \/ \E c \in Cases : Delete(c)
    \/ \E k \in Schemas : Accept(k)

Spec == Init /\ [][Next]_vars
=============================================================================
