--------------------------- MODULE MCCaseCatalog ---------------------------
(* Three cases, a list of two and a recall of two; keys of which two fold   *)
(* together, a value in two cases of its letter, a key and a value with a   *)
(* slash, of which each is written the same with another value or key.      *)
EXTENDS CaseCatalog

MCFold == [k \in Keys |-> IF k = "Area" THEN "area" ELSE k]
MCRank == [k \in Keys |-> CASE k = "Area" -> 1 [] k = "area" -> 2 [] OTHER -> 3]
MCText == [k \in Keys |-> [v \in Values |-> k \o ":" \o v]]
MCLower == [v \in Values |-> IF v = "A" THEN "a" ELSE v]
MCSlashed == {"area:a/b", "a/b:a"}

Pair(k, v) == [key |-> k, value |-> v]
MCMatched == [k \in Keys |-> [v \in Values |->
    IF k = "area:a/b" THEN Pair("area:a", "b") ELSE Pair(k, IF v = "a/b:a" THEN "a" ELSE v)]]
MCRanked == [k \in Keys |-> [v \in Values |->
    IF v = "a/b:a" THEN Pair("a", "b:a")
    ELSE Pair(IF k = "area:a/b" THEN "b" ELSE MCFold[k], MCLower[v])]]

P(area, Area, other) == [k \in Keys |-> CASE k = "area" -> area [] k = "Area" -> Area [] OTHER -> other]
MCProfiles == {P({"A"}, {}, {"a"}), P({"a", "a/b:a"}, {"A"}, {"a"})}

On(k) == [key |-> k, enabled |-> TRUE]
Off(k) == [key |-> k, enabled |-> FALSE]
MCSchemas == {<<>>, <<On("area")>>, <<On("Area"), On("area"), Off("area:a/b")>>}

Score(lexical, vector, embedded, bonus) ==
    [lexical |-> lexical, vector |-> vector, embedded |-> embedded, bonus |-> bonus]
MCWordings ==
    {[i \in Ids |-> Score(0, 1, TRUE, 0)],
     [i \in Ids |-> Score(IF i = 1 THEN 3 ELSE 0, -i, i # 2, IF i = 3 THEN 7 ELSE 0)]}
=============================================================================
