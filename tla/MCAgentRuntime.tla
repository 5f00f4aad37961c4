--------------------------- MODULE MCAgentRuntime ---------------------------
(***************************************************************************)
(* Small requests for AgentRuntime.  A call costs three steps and a        *)
(* decision one: seven or eight steps allow two calls and a repair round.  *)
(***************************************************************************)
EXTENDS AgentRuntime

Calls(t, s) == [k \in Kinds |-> IF k = "tool" THEN t ELSE s]

Verification == [steps |-> 5, calls |-> Calls(1, 1), allowed |-> {"skill"}]

Base == [work |-> [steps |-> 7, calls |-> Calls(1, 2), allowed |-> Kinds],
         contract |-> FALSE, acceptance |-> "none", mode |-> "deterministic",
         child |-> Verification, subruns |-> 2, allowSubrun |-> TRUE]

\* The request of governance: a skill, an output contract, no verification.
Governance ==
    [Base EXCEPT !.work = [steps |-> 8, calls |-> Calls(4, 1), allowed |-> {"skill"}],
                 !.contract = TRUE, !.allowSubrun = FALSE]

\* A verification without a step of its own: build_child_request grants it one.
Stingy == [Base EXCEPT !.mode = "subrun", !.child.steps = 0, !.subruns = 1]

ManyRequests ==
    {Governance, Stingy}
    \cup {[Base EXCEPT !.acceptance = a, !.mode = m] :
            a \in {"none", "required", "stops"}, m \in {"deterministic", "subrun"}}
    \cup {[Base EXCEPT !.mode = "subrun", !.allowSubrun = FALSE]}

SubrunRequests == {[Base EXCEPT !.mode = "subrun"]}

Draft(a, s, v, c) == [actions |-> a, stop |-> s, review |-> v, conforms |-> c]

\* No action, one or two of each kind; the flags that matter for each.
SomeDrafts ==
    {Draft(a, s, v, c) :
        a \in {<<>>, <<"tool">>, <<"skill">>, <<"tool", "tool">>, <<"skill", "skill">>,
               <<"skill", "tool">>, <<"unknown">>, <<"skill", "unknown">>},
        s \in BOOLEAN, v \in BOOLEAN, c \in BOOLEAN}
=============================================================================
