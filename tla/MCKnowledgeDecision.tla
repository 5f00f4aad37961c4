------------------------ MODULE MCKnowledgeDecision ------------------------
(* Servers and decisions are interchangeable: each run picks how many. *)
EXTENDS KnowledgeDecision, TLC

CONSTANTS s1, s2, d1, d2, d3

OneServer == {s1}
TwoServers == {s1, s2}
ThreeDecisions == {d1, d2, d3}

DecisionSymmetry == Permutations(Decisions)
=============================================================================
