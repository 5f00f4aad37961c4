---------------------------- MODULE WorkingSet ----------------------------
(***************************************************************************)
(* internal/knowledge/batch/working_set_builder: the events of a batch,    *)
(* grouped by case and collapsed to what a drain has to look at.  The loop *)
(* over the sorted events is a recursive function on sets: what it makes   *)
(* of a set is what it makes of all but the latest, which then comes next. *)
(***************************************************************************)
EXTENDS Integers, FiniteSets, Sequences, SequencesExt

Priority(kind) == CASE kind = "delete" -> 20 [] kind = "create" -> 30 [] OTHER -> 50

Least(m, n) == IF m <= n THEN m ELSE n

EarlierPublished(events, i, j) == i < j     \* mutant: events are not ordered by their time

\* The key of _extract_event_signals: the occurrence, and between two events of
\* one moment the event id, here the place in the batch.
Earlier(events, i, j) ==
    \/ events[i].at < events[j].at
    \/ events[i].at = events[j].at /\ i < j

Latest(events, S) == CHOOSE i \in S : \A j \in S \ {i} : Earlier(events, j, i)

Signal(event) ==
    [case |-> event.case, kind |-> event.kind, at |-> event.at, changed |-> event.changed,
     facets |-> event.facets, priority |-> Priority(event.kind)]

Merge(first, next) ==
    [next EXCEPT !.kind = IF next.kind = "delete" THEN "delete" ELSE first.kind,
                 !.changed = first.changed \cup next.changed,
                 !.facets = [k \in DOMAIN next.facets |-> first.facets[k] \cup next.facets[k]],
                 !.priority = Least(first.priority, next.priority)]

Absorb(collapsed, event) ==
    IF /\ collapsed # <<>>
       /\ Last(collapsed).kind \in {"create", "update"}
       /\ event.kind \in {"update", "delete"}
    THEN [collapsed EXCEPT ![Len(collapsed)] = Merge(@, event)]
    ELSE Append(collapsed, event)

\* _collapse_events, of the events at the places in S, from the earliest on.
Collapsing(events, S) ==
    LET c[T \in SUBSET S] ==
            IF T = {} THEN <<>>
            ELSE Absorb(c[T \ {Latest(events, T)}], Signal(events[Latest(events, T)]))
    IN  c
Collapse(events, S) == Collapsing(events, S)[S]

Of(events, case) == {i \in DOMAIN events : events[i].case = case}

\* _build_resource_groups for one case.
Group(events, case) ==
    LET collapsed == Collapse(events, Of(events, case))
        merged == ToSet(collapsed)
        kinds == {events[i].kind : i \in Of(events, case)}
    IN  [case |-> case,
         changed |-> UNION {e.changed : e \in merged},
         facets |-> [k \in DOMAIN Head(collapsed).facets |-> UNION {e.facets[k] : e \in merged}],
         latest |-> CHOOSE t \in {e.at : e \in merged} : \A e \in merged : e.at <= t,
         priority |-> CHOOSE p \in {e.priority : e \in merged} : \A e \in merged : p <= e.priority,
         cancelled |-> {"create", "delete"} \subseteq kinds /\ "update" \notin kinds]

Groups(events) == {Group(events, e.case) : e \in ToSet(events)}

\* build: groups in order of priority, then of the latest event.
Ahead(g, h) ==
    \/ g.priority < h.priority
    \/ g.priority = h.priority /\ g.latest < h.latest
Sorted(groups) ==
    CHOOSE s \in [1..Cardinality(groups) -> groups] :
        /\ \A g \in groups : \E n \in DOMAIN s : s[n] = g
        /\ \A m, n \in DOMAIN s : m < n => ~Ahead(s[n], s[m])
AffectedCases(events) ==
    LET groups == Groups(events)
        sorted == Sorted(groups)
    IN  [n \in 1..Cardinality(groups) |-> sorted[n].case]
=============================================================================
