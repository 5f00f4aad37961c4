---------------------------- MODULE MCGovernance ----------------------------
(* Two proposable keys, an excluded one and one that is called "facet:" and *)
(* the first; ten cases or none, so that the threshold of three lies        *)
(* between the counts, and indexes that agree with the statistics, differ   *)
(* in one key, differ in their size or are missing.  The model may list a   *)
(* key five times.                                                          *)
EXTENDS Governance

MCKeys == 1..4
MCFacetNamed == [k \in {4} |-> 1]
MCWritten == {<<>>, <<1>>, <<2>>, <<1, 2>>, <<3, 1>>, <<4>>, <<1, 2, 4>>, <<1, 1, 1, 1, 1, 2, 3>>,
              <<3, 3, 3, 3, 3, 1, 2>>, <<3, 3, 3, 1, 1>>}
MCNoSchema == <<0>>
MCExcluded == {3}
MCCounts == {[k \in MCKeys |-> IF k = 1 THEN a ELSE IF k = 2 THEN b ELSE IF k = 3 THEN 3 ELSE 0] : a, b \in {0, 2, 3}}
Zero == [k \in MCKeys |-> 0]
MCFacet == {Zero, [Zero EXCEPT ![1] = 3]}
MCIndexes(cases, semantic) ==
    {[present |-> TRUE, cases |-> cases, semantic |-> semantic, facet |-> Zero],
     [present |-> TRUE, cases |-> 0, semantic |-> semantic, facet |-> Zero],
     [present |-> TRUE, cases |-> 9, semantic |-> semantic, facet |-> Zero],
     [present |-> TRUE, cases |-> cases, semantic |-> [semantic EXCEPT ![2] = 1], facet |-> Zero],
     [present |-> FALSE, cases |-> 0, semantic |-> Zero, facet |-> Zero]}
MCEvidences ==
    UNION {
      {[cases |-> c, semantic |-> IF c = 0 THEN Zero ELSE s, facet |-> IF c = 0 THEN Zero ELSE f,
        index |-> i, current |-> cur, enabled |-> KeysOf(cur) \ off, observed |-> obs,
        broken |-> b] :
          i \in MCIndexes(c, s), cur \in {<<>>, <<1>>, <<1, 2>>}, off \in {{}, {2}}, obs \in {{}, {2}},
          b \in {{}, {"promotion"}, {"demotion"}}} :
      c \in {0, 10}, s \in MCCounts, f \in MCFacet}
=============================================================================
