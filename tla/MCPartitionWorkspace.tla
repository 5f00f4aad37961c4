------------------------ MODULE MCPartitionWorkspace ------------------------
(* Three cases of which list_by_partition returns two, or two of which it
   returns one, two profiles and two schemas.  Under the first schema both
   profiles have the same facets, the second tells them apart: a schema change
   changes the facets of one case and not of the other, and an update can
   change a profile without changing the facets. *)
EXTENDS PartitionWorkspace

CONSTANTS s1, s2, c1, c2, c3, plain, rich, k1, k2, none, few

OneServer == {s1}
TwoServers == {s1, s2}
MCCases == {c1, c2}
ThreeCases == {c1, c2, c3}
MCProfiles == {plain, rich}
MCSchemas == {k1, k2}
MCFacets == {none, few}
MCRank == [c \in Cases |-> CASE c = c1 -> 1 [] c = c2 -> 2 [] OTHER -> 3]
MCProject == [x \in MCProfiles \X MCSchemas |-> IF x = <<rich, k2>> THEN few ELSE none]
=============================================================================
