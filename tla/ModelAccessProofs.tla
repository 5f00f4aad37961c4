------------------------- MODULE ModelAccessProofs -------------------------
(***************************************************************************)
(* For any objects, replies, lengths and number of requests: the vectors   *)
(* of the stored cases agree, no request asks more than twice for an       *)
(* object, what is read from the last reply is used, and an object wrapped *)
(* into other text is read as it was meant, whatever the text.             *)
(***************************************************************************)
EXTENDS ModelAccess, FiniteSetTheorems, SequenceTheorems, WellFoundedInduction, TLAPS

-----------------------------------------------------------------------------
(* Embeddings.  The dimension of the provider, once it is not 0, is the      *)
(* length of every vector stored since; a configured one is never given up.  *)

Dimensioned ==
    /\ dimensions \in Nat
    /\ stored \subseteq Nat
    /\ restarts \in Nat
    /\ Configured # 0 => dimensions = Configured

VectorInv == Dimensioned /\ StoredVectorsAgree

\* What the provider learns from an empty or a refused vector is nothing.
LEMMA LearnedKeeps ==
    ASSUME NEW d \in Nat, NEW n \in Nat
    PROVE  /\ Learned(d, n) \in Nat
           /\ d # 0 => Learned(d, n) = d
           /\ Accepts(d, n) => n \in {0, Learned(d, n)}
BY DEF Learned, Accepts

LEMMA InitVectors == Init => VectorInv
BY AccessAssumption DEF Init, VectorInv, Dimensioned, StoredVectorsAgree

\* A stored case.
LEMMA StoreCaseVectors ==
    ASSUME VectorInv, NEW n \in Lengths, NEW m \in Lengths, StoreCase(n, m)
    PROVE  VectorInv'
<1> DEFINE d == Learned(dimensions, n)
           e == Learned(d, m)
<1>1. n \in Nat /\ m \in Nat /\ Configured \in Nat BY AccessAssumption
<1>2. dimensions \in Nat /\ stored \subseteq Nat /\ restarts \in Nat BY DEF VectorInv, Dimensioned
<1>3. d \in Nat /\ (dimensions # 0 => d = dimensions) /\ n \in {0, d}
  BY <1>1, <1>2, LearnedKeeps DEF StoreCase
<1>4. e \in Nat /\ (d # 0 => e = d) /\ m \in {0, e}
  BY <1>1, <1>3, LearnedKeeps DEF StoreCase
<1>5. dimensions' = e /\ stored' = stored \cup {n, m} /\ restarts' = restarts BY DEF StoreCase
<1> HIDE DEF d, e
<1>6. Dimensioned'
  <2>1. dimensions' \in Nat /\ stored' \subseteq Nat /\ restarts' \in Nat BY <1>1, <1>2, <1>4, <1>5
  <2>2. Configured # 0 => dimensions' = Configured BY <1>3, <1>4, <1>5 DEF VectorInv, Dimensioned
  <2> QED BY <2>1, <2>2 DEF Dimensioned
<1>7. StoredVectorsAgree'
  <2> SUFFICES ASSUME restarts = 0 \/ Configured # 0, NEW k \in stored \cup {n, m}
               PROVE  k \in {0, e}
    BY <1>5 DEF StoredVectorsAgree
  <2>1. CASE k \in stored BY <2>1, <1>3, <1>4 DEF VectorInv, StoredVectorsAgree
  <2>2. CASE k \in {n, m} BY <2>2, <1>3, <1>4
  <2> QED BY <2>1, <2>2
<1> QED BY <1>6, <1>7 DEF VectorInv

\* A refused case and a query store nothing, and a dimension that is known stays.
LEMMA LearnVectors ==
    ASSUME VectorInv,
           dimensions' \in {dimensions} \cup {Learned(dimensions, n) : n \in Lengths},
           UNCHANGED <<stored, restarts>>
    PROVE  VectorInv'
<1>1. dimensions \in Nat /\ stored \subseteq Nat /\ restarts \in Nat BY DEF VectorInv, Dimensioned
<1>2. dimensions' \in Nat /\ (dimensions # 0 => dimensions' = dimensions)
  <2>1. CASE dimensions' = dimensions BY <2>1, <1>1
  <2>2. CASE \E n \in Lengths : dimensions' = Learned(dimensions, n)
    BY <2>2, <1>1, LearnedKeeps, AccessAssumption
  <2> QED BY <2>1, <2>2
<1>3. Dimensioned' BY <1>1, <1>2 DEF VectorInv, Dimensioned
<1>4. StoredVectorsAgree' BY <1>2 DEF VectorInv, StoredVectorsAgree
<1> QED BY <1>3, <1>4 DEF VectorInv

\* A restart forgets what was learned and keeps what is configured.
LEMMA RestartVectors ==
    ASSUME VectorInv, Restart
    PROVE  VectorInv'
<1>1. /\ dimensions' = Configured /\ stored' = stored /\ restarts' = restarts + 1
      /\ restarts \in Nat /\ Configured \in Nat
  BY AccessAssumption DEF Restart, VectorInv, Dimensioned
<1>2. restarts' # 0 /\ restarts' \in Nat BY <1>1
<1>3. Configured # 0 => dimensions' = dimensions BY <1>1 DEF VectorInv, Dimensioned
<1> QED BY <1>1, <1>2, <1>3 DEF VectorInv, Dimensioned, StoredVectorsAgree

\* Everything else leaves them alone.
LEMMA OthersKeepVectors ==
    ASSUME VectorInv, UNCHANGED <<dimensions, stored, restarts>>
    PROVE  VectorInv'
BY DEF VectorInv, Dimensioned, StoredVectorsAgree

LEMMA NextVectors == VectorInv /\ [Next]_vars => VectorInv'
<1> SUFFICES ASSUME VectorInv, [Next]_vars PROVE VectorInv'
  OBVIOUS
<1>1. CASE BeginCase \/ BeginSuggestion \/ BeginDecision \/ (\E blank \in BOOLEAN : BeginQuery(blank))
  BY <1>1, OthersKeepVectors
     DEF BeginCase, BeginSuggestion, BeginDecision, BeginQuery, Start, vectors
<1>2. CASE \E r \in Replies : Summarise(r) \/ Ask(r) \/ Repair(r)
  BY <1>2, OthersKeepVectors DEF Summarise, Ask, Repair, Complete, vectors
<1>3. CASE CallRaises \/ ToRepair \/ RepairFails
  BY <1>3, OthersKeepVectors DEF CallRaises, ToRepair, RepairFails, vectors
<1>4. CASE UseForCase \/ UseForQuery \/ UseForSuggestion \/ UseForDecision
  BY <1>4, OthersKeepVectors
     DEF UseForCase, UseForQuery, UseForSuggestion, UseForDecision, Validate, vectors
<1>5. CASE \E n, m \in Lengths : StoreCase(n, m) BY <1>5, StoreCaseVectors
<1>6. CASE CaseNotEmbedded BY <1>6, LearnVectors DEF CaseNotEmbedded
<1>7. CASE EmbedQuery BY <1>7, LearnVectors DEF EmbedQuery
<1>8. CASE AnswerQuery BY <1>8, OthersKeepVectors DEF AnswerQuery, vectors
<1>9. CASE Restart BY <1>9, RestartVectors
<1>10. CASE UNCHANGED vars BY <1>10, OthersKeepVectors DEF vars
<1> QED
  BY <1>1, <1>2, <1>3, <1>4, <1>5, <1>6, <1>7, <1>8, <1>9, <1>10 DEF Next

\* Whatever lengths the service answers with, the vectors that are stored can be
\* compared: with a configured dimension always, without one until a restart.
THEOREM StoredVectorsAlwaysAgree == Spec => []StoredVectorsAgree
<1>1. Init => VectorInv BY InitVectors
<1>2. VectorInv /\ [Next]_vars => VectorInv' BY NextVectors
<1>3. VectorInv => StoredVectorsAgree BY DEF VectorInv
<1> QED BY <1>1, <1>2, <1>3, PTL DEF Spec

-----------------------------------------------------------------------------
(* Completions.  How many were asked for is told by where the request stands; *)
(* a case has one more, for its summary.                                      *)

Base == IF kind = "ingest" THEN 1 ELSE 0

CallsInv ==
    /\ calls \in Nat
    /\ step = "summary" => kind = "ingest" /\ calls = 0
    /\ step = "ask" => calls = Base
    /\ step \in {"read", "repair"} => calls = Base + 1
    /\ calls <= Base + 2

CallsBounded == calls <= IF kind = "ingest" THEN 3 ELSE 2

LEMMA NextCalls == CallsInv /\ [Next]_vars => CallsInv'
<1> SUFFICES ASSUME CallsInv, [Next]_vars PROVE CallsInv'
  OBVIOUS
<1> USE DEF CallsInv, Base
<1>1. CASE BeginCase BY <1>1 DEF BeginCase, Start, GoOn, End
<1>2. CASE BeginSuggestion \/ BeginDecision BY <1>2 DEF BeginSuggestion, BeginDecision, Start, GoOn, End
<1>3. ASSUME NEW blank \in BOOLEAN, BeginQuery(blank) PROVE CallsInv'
  BY <1>3 DEF BeginQuery, Start, GoOn, End
<1>4. ASSUME NEW r \in Replies, Summarise(r) PROVE CallsInv' BY <1>4 DEF Summarise
<1>5. ASSUME NEW r \in Replies, Ask(r) PROVE CallsInv' BY <1>5 DEF Ask, Complete
<1>6. ASSUME NEW r \in Replies, Repair(r) PROVE CallsInv' BY <1>6 DEF Repair, Complete
<1>7. CASE CallRaises BY <1>7 DEF CallRaises, End
<1>8. CASE ToRepair BY <1>8 DEF ToRepair
<1>9. CASE RepairFails BY <1>9 DEF RepairFails, End
<1>10. CASE UseForCase \/ UseForQuery
  BY <1>10 DEF UseForCase, UseForQuery, Validate, KeepProfile, End
<1>11. CASE UseForSuggestion \/ UseForDecision
  BY <1>11 DEF UseForSuggestion, UseForDecision, Validate, Answered, End
<1>12. CASE \E n, m \in Lengths : StoreCase(n, m) BY <1>12 DEF StoreCase, End
<1>13. CASE CaseNotEmbedded BY <1>13 DEF CaseNotEmbedded, End
<1>14. CASE EmbedQuery BY <1>14 DEF EmbedQuery
<1>15. CASE AnswerQuery BY <1>15 DEF AnswerQuery, End
<1>16. CASE Restart BY <1>16 DEF Restart
<1>17. CASE UNCHANGED vars BY <1>17 DEF vars
<1> QED
  BY <1>1, <1>2, <1>3, <1>4, <1>5, <1>6, <1>7, <1>8, <1>9, <1>10, <1>11, <1>12, <1>13,
     <1>14, <1>15, <1>16, <1>17 DEF Next

\* A repair is never repaired: a request asks the model at most twice, and a case
\* once more for its summary, whatever the replies are and however calls fail.
THEOREM CallsAlwaysBounded == Spec => []CallsBounded
<1>1. Init => CallsInv BY DEF Init, CallsInv, Base
<1>2. CallsInv /\ [Next]_vars => CallsInv' BY NextCalls
<1>3. CallsInv => CallsBounded BY DEF CallsInv, CallsBounded, Base
<1> QED BY <1>1, <1>2, <1>3, PTL DEF Spec

-----------------------------------------------------------------------------
(* Numbers: what a fold computes is proved by the least counterexample *)

Below == {p \in Nat \X Nat : p[1] < p[2]}
LEMMA BelowIsWellFounded == IsWellFoundedOn(Below, Nat)
BY NatLessThanWellFounded DEF OpToRel, Below

LEMMA LeastExists ==
    ASSUME NEW S \in SUBSET Nat, S # {}
    PROVE  \E n \in S : \A m \in S : n <= m
<1>1. \E n \in S : \A m \in S : ~(<<m, n>> \in Below) BY BelowIsWellFounded, WFMin, Zenon
<1>2. PICK n \in S : \A m \in S : ~(<<m, n>> \in Below) BY <1>1, Zenon
<1>3. \A m \in S : m \in Nat /\ n \in Nat /\ ~(m < n) BY <1>2 DEF Below
<1>4. \A m \in S : n <= m BY <1>3
<1> QED BY <1>2, <1>4

\* A set that has 0 and with each number below the bound its successor.
LEMMA UpTo ==
    ASSUME NEW S, NEW bound \in Nat, 0 \in S, \A n \in 1..bound : n - 1 \in S => n \in S
    PROVE  bound \in S
<1> DEFINE bad == {n \in Nat : n <= bound /\ n \notin S}
<1>1. ASSUME bad # {} PROVE FALSE
  <2>1. PICK n \in bad : \A m \in bad : n <= m
    <3>1. bad \in SUBSET Nat OBVIOUS
    <3> HIDE DEF bad
    <3> QED BY <1>1, <3>1, LeastExists, Zenon
  <2>2. n \in 1..bound /\ n - 1 \in Nat /\ n - 1 \notin bad BY <2>1
  <2> QED BY <2>1, <2>2
<1> QED BY <1>1

-----------------------------------------------------------------------------
(* Deduplicated values *)

LEMMA KeptSteps ==
    ASSUME NEW values
    PROVE  /\ Kept(values)[0] = <<>>
           /\ \A n \in Nat \ {0} : Kept(values)[n] = Keep(Kept(values)[n - 1], values[n])
<1> DEFINE f == Kept(values)
<1>1. f = [n \in Nat |-> IF n = 0 THEN <<>> ELSE Keep(f[n - 1], values[n])]
  BY DEF Kept
<1> HIDE DEF f
<1>2. f[0] = <<>> /\ \A n \in Nat \ {0} : f[n] = Keep(f[n - 1], values[n])
  BY <1>1
<1> QED BY <1>2 DEF f

\* What is kept of the first n values: one spelling of each, up to the limit.
KeptOf(s, values, n) ==
    /\ s \in Seq(Values) /\ Len(s) <= Limit
    /\ \A i, j \in 1..Len(s) : Lower[s[i]] = Lower[s[j]] => i = j
    /\ \A i \in 1..Len(s) : \E m \in 1..n : s[i] = values[m]
    /\ Len(s) < Limit => \A m \in 1..n : \E i \in 1..Len(s) : Lower[s[i]] = Lower[values[m]]

LEMMA KeptStep ==
    ASSUME NEW values \in Seq(Values), NEW n \in 1..Len(values), NEW s, KeptOf(s, values, n - 1), Limit \in Nat
    PROVE  KeptOf(Keep(s, values[n]), values, n)
<1> DEFINE v == values[n]
           seen == \E i \in 1..Len(s) : Lower[s[i]] = Lower[v]
<1>1. n \in Nat /\ n \in 1..n /\ (1..n) = (1..(n - 1)) \cup {n} /\ v \in Values OBVIOUS
<1>2. s \in Seq(Values) /\ Len(s) \in Nat /\ Len(s) <= Limit BY DEF KeptOf
<1>3. (\E w \in ToSet(s) : Lower[w] = Lower[v]) <=> seen BY <1>2 DEF ToSet
<1> HIDE DEF v, seen
<1>4. CASE seen \/ Len(s) >= Limit
  <2>1. \A i \in 1..Len(s) : \E m \in 1..n : s[i] = values[m] BY <1>1 DEF KeptOf
  <2>2. ASSUME Len(s) < Limit, NEW m \in 1..n PROVE \E i \in 1..Len(s) : Lower[s[i]] = Lower[values[m]]
    <3>1. CASE m = n BY <1>2, <1>4, <2>2, <3>1 DEF seen, v
    <3>2. CASE m # n BY <1>1, <2>2, <3>2 DEF KeptOf
    <3> QED BY <3>1, <3>2
  <2>3. KeptOf(s, values, n) BY <1>2, <2>1, <2>2 DEF KeptOf
  <2> QED BY <1>3, <1>4, <2>3 DEF v, Keep
<1>5. CASE ~seen /\ ~(Len(s) >= Limit)
  <2> DEFINE t == Append(s, v)
             l == Len(s)
  <2>1. l \in Nat /\ t \in Seq(Values) /\ Len(t) = l + 1 /\ t[l + 1] = v /\ \A i \in 1..l : t[i] = s[i]
    BY <1>1, <1>2
  <2>2. l + 1 <= Limit BY <1>2, <1>5
  <2>3. /\ \A i, j \in 1..l : Lower[s[i]] = Lower[s[j]] => i = j
        /\ \A i \in 1..l : \E m \in 1..(n - 1) : s[i] = values[m]
        /\ \A m \in 1..(n - 1) : \E i \in 1..l : Lower[s[i]] = Lower[values[m]]
        /\ \A i \in 1..l : Lower[s[i]] # Lower[v]
    BY <1>2, <1>5 DEF KeptOf, seen
  <2>4. 1..(l + 1) = (1..l) \cup {l + 1} BY <2>1
  <2> HIDE DEF t, l
  <2>5. ASSUME NEW i \in 1..(l + 1), NEW j \in 1..(l + 1), Lower[t[i]] = Lower[t[j]] PROVE i = j
    <3>1. CASE i \in 1..l /\ j \in 1..l BY <2>1, <2>3, <2>5, <3>1
    <3>2. CASE i \in 1..l /\ j = l + 1 BY <2>1, <2>3, <2>5, <3>2
    <3>3. CASE i = l + 1 /\ j \in 1..l BY <2>1, <2>3, <2>5, <3>3
    <3>4. CASE i = l + 1 /\ j = l + 1 BY <3>4
    <3> QED BY <2>4, <3>1, <3>2, <3>3, <3>4
  <2>6. ASSUME NEW i \in 1..(l + 1) PROVE \E m \in 1..n : t[i] = values[m]
    <3>1. CASE i \in 1..l
      <4>1. PICK m \in 1..(n - 1) : s[i] = values[m] BY <2>3, <3>1
      <4> QED BY <1>1, <2>1, <3>1, <4>1
    <3>2. CASE i = l + 1 BY <1>1, <2>1, <3>2 DEF v
    <3> QED BY <2>4, <3>1, <3>2
  <2>7. ASSUME NEW m \in 1..n PROVE \E i \in 1..(l + 1) : Lower[t[i]] = Lower[values[m]]
    <3>1. CASE m = n
      <4>1. l + 1 \in 1..(l + 1) /\ Lower[t[l + 1]] = Lower[values[m]] BY <2>1, <2>4, <3>1 DEF v
      <4> QED BY <4>1
    <3>2. CASE m # n
      <4>1. m \in 1..(n - 1) BY <1>1, <3>2
      <4>2. PICK i \in 1..l : Lower[s[i]] = Lower[values[m]] BY <2>3, <4>1
      <4>3. i \in 1..(l + 1) /\ Lower[t[i]] = Lower[values[m]] BY <2>1, <2>4, <4>2
      <4> QED BY <4>3
    <3> QED BY <3>1, <3>2
  <2>8. KeptOf(t, values, n) BY <2>1, <2>2, <2>5, <2>6, <2>7 DEF KeptOf
  <2> QED BY <1>3, <1>5, <2>8 DEF t, v, Keep
<1> QED BY <1>4, <1>5

LEMMA DedupeKeeps ==
    ASSUME NEW values \in Seq(Values)
    PROVE  KeptOf(Dedupe(values), values, Len(values))
<1> DEFINE f == Kept(values)
           S == {n \in Nat : KeptOf(f[n], values, n)}
<1>1. Limit \in Nat /\ Len(values) \in Nat BY AccessAssumption
<1>2. 0 \in S
  <2>1. f[0] = <<>> BY KeptSteps
  <2>2. KeptOf(<<>>, values, 0) BY <1>1 DEF KeptOf
  <2> QED BY <2>1, <2>2
<1>3. ASSUME NEW n \in 1..Len(values), n - 1 \in S PROVE n \in S
  <2>1. n \in Nat \ {0} BY <1>1
  <2>2. KeptOf(f[n - 1], values, n - 1) BY <1>3
  <2>3. f[n] = Keep(f[n - 1], values[n]) BY <2>1, KeptSteps
  <2> HIDE DEF f
  <2>4. KeptOf(f[n], values, n) BY <1>1, <2>2, <2>3, KeptStep
  <2> QED BY <2>1, <2>4
<1> HIDE DEF S
<1>4. Len(values) \in S BY <1>1, <1>2, <1>3, UpTo
<1> QED BY <1>4 DEF S, Dedupe

-----------------------------------------------------------------------------
(* Texts without their blocks *)

LEMMA SearchedSteps ==
    ASSUME NEW text, NEW open, NEW close
    PROVE  /\ Searched(text, open, close)[0] = [kept |-> <<>>, since |-> 0]
           /\ \A n \in Nat \ {0} : Searched(text, open, close)[n] =
                                       WithoutToken(Searched(text, open, close)[n - 1], text[n], open, close)
<1> DEFINE f == Searched(text, open, close)
<1>1. f = [n \in Nat |-> IF n = 0 THEN [kept |-> <<>>, since |-> 0]
                         ELSE WithoutToken(f[n - 1], text[n], open, close)]
  BY DEF Searched
<1> HIDE DEF f
<1>2. f[0] = [kept |-> <<>>, since |-> 0] /\ \A n \in Nat \ {0} : f[n] = WithoutToken(f[n - 1], text[n], open, close)
  BY <1>1
<1> QED BY <1>2 DEF f

\* In the kept text no opening mark stands before the open block, and no closing
\* one within it; and its tokens are tokens of the text, in their order.
KeptText(s, text, open, close, n) ==
    /\ s.kept \in Seq(Tokens) /\ s.since \in 0..Len(s.kept)
    /\ \A i \in 1..Len(s.kept) : s.kept[i] = open => s.since # 0 /\ s.since <= i
    /\ s.since # 0 => \A i \in 1..Len(s.kept) : s.kept[i] = close => i <= s.since
    /\ \A i \in 1..Len(s.kept) : \E m \in 1..n : s.kept[i] = text[m]
    /\ \A i, j \in 1..Len(s.kept) : i < j => \E l, m \in 1..n : l < m /\ s.kept[i] = text[l] /\ s.kept[j] = text[m]

LEMMA KeptTextStep ==
    ASSUME NEW text \in Seq(Tokens), NEW open, NEW close, NEW n \in 1..Len(text),
           NEW s, KeptText(s, text, open, close, n - 1)
    PROVE  KeptText(WithoutToken(s, text[n], open, close), text, open, close, n)
<1> DEFINE c == text[n]
           k == s.kept
           l == Len(k)
           t == WithoutToken(s, c, open, close)
<1>1. n \in Nat /\ 1..n = (1..(n - 1)) \cup {n} /\ c \in Tokens /\ \A m \in 1..(n - 1) : m < n OBVIOUS
<1>2. k \in Seq(Tokens) /\ l \in Nat /\ s.since \in 0..l BY DEF KeptText
<1>3. /\ \A i \in 1..l : k[i] = open => s.since # 0 /\ s.since <= i
      /\ s.since # 0 => \A i \in 1..l : k[i] = close => i <= s.since
      /\ \A i \in 1..l : \E m \in 1..(n - 1) : k[i] = text[m]
      /\ \A i, j \in 1..l : i < j => \E p, m \in 1..(n - 1) : p < m /\ k[i] = text[p] /\ k[j] = text[m]
  BY DEF KeptText
<1>4. CASE s.since # 0 /\ c = close
  <2> DEFINE u == SubSeq(k, 1, s.since - 1)
             h == s.since - 1
  <2>1. h \in 0..l /\ u \in Seq(Tokens) /\ Len(u) = h /\ \A i \in 1..h : u[i] = k[i] BY <1>2, <1>4
  <2>2. t.kept = u /\ t.since = 0 BY <1>4 DEF WithoutToken
  <2>3. \A i \in 1..h : i \in 1..l /\ ~(s.since <= i) BY <1>2, <1>4
  <2> HIDE DEF u, h, t, k, l, c
  <2>4. ASSUME NEW i \in 1..h PROVE u[i] # open
    <3>1. i \in 1..l /\ ~(s.since <= i) /\ u[i] = k[i] BY <2>1, <2>3
    <3> QED BY <1>3, <3>1
  <2>5. ASSUME NEW i \in 1..h PROVE \E m \in 1..n : u[i] = text[m]
    <3>1. i \in 1..l /\ u[i] = k[i] BY <2>1, <2>3
    <3>2. PICK m \in 1..(n - 1) : k[i] = text[m] BY <1>3, <3>1
    <3> QED BY <1>1, <3>1, <3>2
  <2>6. ASSUME NEW i \in 1..h, NEW j \in 1..h, i < j
        PROVE  \E p, m \in 1..n : p < m /\ u[i] = text[p] /\ u[j] = text[m]
    <3>1. i \in 1..l /\ j \in 1..l /\ u[i] = k[i] /\ u[j] = k[j] BY <2>1, <2>3
    <3>2. PICK p \in 1..(n - 1), m \in 1..(n - 1) : p < m /\ k[i] = text[p] /\ k[j] = text[m] BY <1>3, <2>6, <3>1
    <3>3. p \in 1..n /\ m \in 1..n BY <1>1
    <3> QED BY <3>1, <3>2, <3>3
  <2>7. t.kept \in Seq(Tokens) /\ Len(t.kept) = h /\ t.since = 0 /\ h \in Nat BY <1>2, <2>1, <2>2
  <2>8. t.since \in 0..Len(t.kept) BY <2>7
  <2>9. \A i \in 1..Len(t.kept) : t.kept[i] # open /\ \E m \in 1..n : t.kept[i] = text[m] BY <2>2, <2>4, <2>5, <2>7
  <2>10. \A i, j \in 1..Len(t.kept) : i < j => \E p, m \in 1..n : p < m /\ t.kept[i] = text[p] /\ t.kept[j] = text[m]
    BY <2>2, <2>6, <2>7
  <2>11. KeptText(t, text, open, close, n) BY <2>7, <2>8, <2>9, <2>10 DEF KeptText
  <2> QED BY <2>11 DEF t, c
<1>5. CASE ~(s.since # 0 /\ c = close)
  <2> DEFINE u == Append(k, c)
             b == IF s.since = 0 /\ c = open THEN l + 1 ELSE s.since
  <2>1. u \in Seq(Tokens) /\ Len(u) = l + 1 /\ u[l + 1] = c /\ \A i \in 1..l : u[i] = k[i] BY <1>1, <1>2
  <2>2. t.kept = u /\ t.since = b BY <1>5 DEF WithoutToken
  <2>3. 1..(l + 1) = (1..l) \cup {l + 1} /\ \A i \in 1..l : i < l + 1 BY <1>2
  <2> HIDE DEF u, t, k, l, c
  <2>4. b \in 0..(l + 1) BY <1>2
  <2>5. ASSUME NEW i \in 1..(l + 1), u[i] = open PROVE b # 0 /\ b <= i
    <3>1. CASE i \in 1..l
      <4>1. k[i] = open BY <2>1, <2>5, <3>1
      <4>2. s.since # 0 /\ s.since <= i BY <1>3, <3>1, <4>1
      <4> QED BY <4>2
    <3>2. CASE i = l + 1 BY <1>2, <2>1, <2>5, <3>2
    <3> QED BY <2>3, <3>1, <3>2
  <2>6. ASSUME b # 0, NEW i \in 1..(l + 1), u[i] = close PROVE i <= b
    <3>1. CASE s.since = 0
      <4>1. b = l + 1 BY <2>6, <3>1
      <4> QED BY <1>2, <4>1
    <3>2. CASE s.since # 0
      <4>1. b = s.since BY <3>2
      <4>2. i \in 1..l BY <1>5, <2>1, <2>3, <2>6, <3>2
      <4>3. k[i] = close BY <2>1, <2>6, <4>2
      <4> QED BY <1>3, <3>2, <4>1, <4>2, <4>3
    <3> QED BY <3>1, <3>2
  <2>7. ASSUME NEW i \in 1..(l + 1) PROVE \E m \in 1..n : u[i] = text[m]
    <3>1. CASE i \in 1..l
      <4>1. PICK m \in 1..(n - 1) : k[i] = text[m] BY <1>3, <3>1
      <4> QED BY <1>1, <2>1, <3>1, <4>1
    <3>2. CASE i = l + 1 BY <1>1, <2>1, <3>2 DEF c
    <3> QED BY <2>3, <3>1, <3>2
  <2>8. ASSUME NEW i \in 1..(l + 1), NEW j \in 1..(l + 1), i < j
        PROVE  \E p, m \in 1..n : p < m /\ u[i] = text[p] /\ u[j] = text[m]
    <3>1. i \in 1..l BY <1>2, <2>8
    <3>2. CASE j \in 1..l
      <4>1. PICK p \in 1..(n - 1), m \in 1..(n - 1) : p < m /\ k[i] = text[p] /\ k[j] = text[m]
        BY <1>3, <2>8, <3>1, <3>2
      <4>2. p \in 1..n /\ m \in 1..n BY <1>1
      <4> QED BY <2>1, <3>1, <3>2, <4>1, <4>2
    <3>3. CASE j = l + 1
      <4>1. PICK p \in 1..(n - 1) : k[i] = text[p] BY <1>3, <3>1
      <4>2. p \in 1..n /\ n \in 1..n /\ p < n BY <1>1
      <4>3. u[i] = text[p] /\ u[j] = text[n] BY <2>1, <3>1, <3>3, <4>1 DEF c
      <4> QED BY <4>2, <4>3
    <3> QED BY <2>3, <3>2, <3>3
  <2> HIDE DEF b
  <2>9. t.kept \in Seq(Tokens) /\ Len(t.kept) = l + 1 /\ t.since \in 0..Len(t.kept) BY <2>1, <2>2, <2>4
  <2>10. KeptText(t, text, open, close, n)
    BY <2>2, <2>5, <2>6, <2>7, <2>8, <2>9 DEF KeptText
  <2> QED BY <2>10 DEF t, c
<1> QED BY <1>4, <1>5

\* Nothing remains of a complete block, and no new one comes about.
LEMMA WithoutIsUnpaired ==
    ASSUME NEW text \in Seq(Tokens), NEW open, NEW close
    PROVE  /\ Without(text, open, close) \in Seq(Tokens)
           /\ Unpaired(Without(text, open, close), open, close)
           /\ \A a, b : Unpaired(text, a, b) => Unpaired(Without(text, open, close), a, b)
<1> DEFINE f == Searched(text, open, close)
           S == {n \in Nat : KeptText(f[n], text, open, close, n)}
           last == f[Len(text)]
<1>1. Len(text) \in Nat OBVIOUS
<1>2. 0 \in S
  <2>1. f[0].kept = <<>> /\ f[0].since = 0 BY SearchedSteps
  <2> HIDE DEF f
  <2>2. Len(<<>>) = 0 /\ <<>> \in Seq(Tokens) /\ 1..0 = {} OBVIOUS
  <2>3. KeptText(f[0], text, open, close, 0) BY <2>1, <2>2 DEF KeptText
  <2> QED BY <2>3
<1>3. ASSUME NEW n \in 1..Len(text), n - 1 \in S PROVE n \in S
  <2>1. n \in Nat \ {0} BY <1>1
  <2>2. f[n] = WithoutToken(f[n - 1], text[n], open, close) BY <2>1, SearchedSteps
  <2> HIDE DEF f
  <2>3. KeptText(f[n], text, open, close, n) BY <1>3, <2>2, KeptTextStep
  <2> QED BY <2>1, <2>3
<1> HIDE DEF S
<1>4. Len(text) \in S BY <1>1, <1>2, <1>3, UpTo
<1>5. KeptText(last, text, open, close, Len(text)) BY <1>4 DEF S
<1>6. Without(text, open, close) = last.kept BY DEF Without
<1> HIDE DEF f, last
<1>7. last.kept \in Seq(Tokens) /\ last.since \in 0..Len(last.kept) BY <1>5 DEF KeptText
<1>8. Unpaired(last.kept, open, close)
  <2> SUFFICES ASSUME NEW i \in 1..Len(last.kept), NEW j \in 1..Len(last.kept), i < j,
                      last.kept[i] = open, last.kept[j] = close
               PROVE  FALSE
    BY DEF Unpaired
  <2>1. last.since # 0 /\ last.since <= i /\ j <= last.since BY <1>5 DEF KeptText
  <2> QED BY <1>7, <2>1
<1>9. ASSUME NEW a, NEW b, Unpaired(text, a, b) PROVE Unpaired(last.kept, a, b)
  <2> SUFFICES ASSUME NEW i \in 1..Len(last.kept), NEW j \in 1..Len(last.kept), i < j,
                      last.kept[i] = a, last.kept[j] = b
               PROVE  FALSE
    BY DEF Unpaired
  <2>1. PICK l \in 1..Len(text), m \in 1..Len(text) : l < m /\ last.kept[i] = text[l] /\ last.kept[j] = text[m]
    BY <1>5 DEF KeptText
  <2> QED BY <1>9, <2>1 DEF Unpaired
<1> QED BY <1>6, <1>7, <1>8, <1>9

\* A summary shows no complete thought and no fenced text.
LEMMA SummaryIsClean ==
    ASSUME NEW text \in Seq(Tokens)
    PROVE  /\ Unpaired(Summary(text), "think", "unthink")
           /\ Unpaired(Summary(text), "fence", "fence")
           /\ Summary(text) \in Seq(Tokens)
<1> DEFINE rest == Without(Without(text, "think", "unthink"), "fence", "fence")
<1>1. rest \in Seq(Tokens) /\ Unpaired(rest, "think", "unthink") /\ Unpaired(rest, "fence", "fence")
  BY WithoutIsUnpaired
<1>2. Summary(text) = IF rest # <<>> /\ Head(rest) \in {"think", "unthink"} THEN Tail(rest) ELSE rest
  BY DEF Summary
<1> HIDE DEF rest
<1>3. CASE Summary(text) = rest BY <1>1, <1>3
<1>4. CASE rest # <<>> /\ Summary(text) = Tail(rest)
  <2> DEFINE tail == Tail(rest)
  <2>1. tail \in Seq(Tokens) /\ Len(tail) = Len(rest) - 1 /\ \A i \in 1..Len(tail) : tail[i] = rest[i + 1]
    BY <1>1, <1>4
  <2>2. Len(rest) \in Nat /\ Len(tail) \in Nat BY <1>1, <2>1
  <2>3. \A i \in 1..Len(tail) : i + 1 \in 1..Len(rest) BY <2>1, <2>2
  <2>4. \A i, j \in 1..Len(tail) : i < j => i + 1 < j + 1 BY <2>2
  <2> HIDE DEF tail
  <2>5. \A a, b : Unpaired(rest, a, b) => Unpaired(tail, a, b) BY <2>1, <2>3, <2>4 DEF Unpaired
  <2> QED BY <1>1, <1>4, <2>1, <2>5 DEF tail
<1> QED BY <1>2, <1>3, <1>4

-----------------------------------------------------------------------------
(* What becomes of an answer *)

\* A reply that is read is one of the model, an object is one that it gave, and
\* there is none before it is read; who still has a step to go has no outcome.
ReplyInv ==
    /\ step \in {"read", "reread"} => reply \in Replies
    /\ object \in Objects \cup {Unreadable}
    /\ step \in {"summary", "ask", "read", "repair", "reread"} => object = Unreadable
    /\ step # "idle" => outcome = "none"

\* What the profile of a request is made of.
Source == IF object = Unreadable THEN NoProfile ELSE RawProfile(object)

UseInv ==
    /\ (step \in {"embed", "answer"} \/ outcome = "done") /\ kind \in {"ingest", "query"} => profile = Sanitized(Source)
    /\ outcome = "failed" => ~client \/ raised \/ object = Unreadable \/ ~Fits(kind, object)

SummaryInv == Unpaired(summary, "think", "unthink") /\ Unpaired(summary, "fence", "fence") /\ summary \in Seq(Tokens)

LEMMA ReplyType ==
    ASSUME NEW r \in Replies
    PROVE  r \in Seq(Tokens) /\ Read(r) \in Objects \cup {Unreadable}
BY AccessAssumption

LEMMA NoSummary == Unpaired(<<>>, "think", "unthink") /\ Unpaired(<<>>, "fence", "fence") /\ <<>> \in Seq(Tokens)
BY DEF Unpaired

LEMMA NextSummary == SummaryInv /\ [Next]_vars => SummaryInv'
<1> SUFFICES ASSUME SummaryInv, [Next]_vars PROVE SummaryInv'
  OBVIOUS
<1>1. CASE summary' = summary BY <1>1 DEF SummaryInv
<1>2. CASE summary' = <<>> BY <1>2, NoSummary DEF SummaryInv
<1>3. CASE \E r \in Replies : Summarise(r)
  <2>1. PICK r \in Replies : summary' = Summary(r) BY <1>3 DEF Summarise
  <2> QED BY <2>1, ReplyType, SummaryIsClean DEF SummaryInv
<1>4. CASE BeginCase \/ BeginSuggestion \/ BeginDecision \/ (\E blank \in BOOLEAN : BeginQuery(blank))
  BY <1>2, <1>4 DEF BeginCase, BeginSuggestion, BeginDecision, BeginQuery, Start
<1>5. CASE \E r \in Replies : Ask(r) \/ Repair(r) BY <1>1, <1>5 DEF Ask, Repair, Complete, extracted
<1>6. CASE CallRaises \/ ToRepair \/ RepairFails
  BY <1>1, <1>6 DEF CallRaises, ToRepair, RepairFails, extracted
<1>7. CASE UseForCase \/ UseForQuery \/ UseForSuggestion \/ UseForDecision
  BY <1>1, <1>7 DEF UseForCase, UseForQuery, UseForSuggestion, UseForDecision, Validate
<1>8. CASE (\E n, m \in Lengths : StoreCase(n, m)) \/ CaseNotEmbedded \/ EmbedQuery \/ AnswerQuery
  BY <1>1, <1>8 DEF StoreCase, CaseNotEmbedded, EmbedQuery, AnswerQuery, extracted
<1>9. CASE Restart \/ UNCHANGED vars BY <1>1, <1>9 DEF Restart, vars, extracted
<1> QED BY <1>3, <1>4, <1>5, <1>6, <1>7, <1>8, <1>9 DEF Next

LEMMA NextReplies == ReplyInv /\ [Next]_vars => ReplyInv'
<1> SUFFICES ASSUME ReplyInv, [Next]_vars PROVE ReplyInv'
  OBVIOUS
<1> USE DEF ReplyInv
<1>1. CASE BeginCase \/ BeginSuggestion \/ BeginDecision
  BY <1>1 DEF BeginCase, BeginSuggestion, BeginDecision, Start, GoOn, End
<1>2. ASSUME NEW blank \in BOOLEAN, BeginQuery(blank) PROVE ReplyInv'
  BY <1>2 DEF BeginQuery, Start, GoOn, End
<1>3. ASSUME NEW r \in Replies, Summarise(r) PROVE ReplyInv' BY <1>3 DEF Summarise
<1>4. ASSUME NEW r \in Replies, Ask(r) \/ Repair(r) PROVE ReplyInv' BY <1>4 DEF Ask, Repair, Complete
<1>5. CASE CallRaises \/ RepairFails BY <1>5 DEF CallRaises, RepairFails, End
<1>6. CASE ToRepair BY <1>6 DEF ToRepair
<1>7. CASE UseForCase \/ UseForQuery \/ UseForSuggestion \/ UseForDecision
  <2>1. Validate BY <1>7 DEF UseForCase, UseForQuery, UseForSuggestion, UseForDecision
  <2>2. object' \in Objects \cup {Unreadable} BY <2>1, ReplyType DEF Validate
  <2>3. step' = "idle" \/ (step' = "embed" /\ outcome' = outcome)
    <3>1. CASE KeepProfile BY <3>1 DEF KeepProfile, End
    <3>2. CASE Answered BY <3>2 DEF Answered, End
    <3> QED BY <1>7, <3>1, <3>2 DEF UseForCase, UseForQuery, UseForSuggestion, UseForDecision
  <2>4. step # "idle" BY <2>1 DEF Validate
  <2> QED BY <2>2, <2>3, <2>4
<1>8. CASE (\E n, m \in Lengths : StoreCase(n, m)) \/ CaseNotEmbedded \/ AnswerQuery
  BY <1>8 DEF StoreCase, CaseNotEmbedded, AnswerQuery, End
<1>9. CASE EmbedQuery BY <1>9 DEF EmbedQuery
<1>10. CASE Restart BY <1>10 DEF Restart
<1>11. CASE UNCHANGED vars BY <1>11 DEF vars
<1> QED BY <1>1, <1>2, <1>3, <1>4, <1>5, <1>6, <1>7, <1>8, <1>9, <1>10, <1>11 DEF Next

LEMMA NextUse == ReplyInv /\ UseInv /\ [Next]_vars => UseInv'
<1> SUFFICES ASSUME ReplyInv, UseInv, [Next]_vars PROVE UseInv'
  OBVIOUS
<1> USE DEF ReplyInv, UseInv, Source
<1>1. CASE BeginCase \/ BeginSuggestion \/ BeginDecision
  BY <1>1 DEF BeginCase, BeginSuggestion, BeginDecision, Start, GoOn, End
<1>2. ASSUME NEW blank \in BOOLEAN, BeginQuery(blank) PROVE UseInv'
  BY <1>2 DEF BeginQuery, Start, GoOn, End
<1>3. ASSUME NEW r \in Replies, Summarise(r) PROVE UseInv' BY <1>3 DEF Summarise
<1>4. ASSUME NEW r \in Replies, Ask(r) \/ Repair(r) PROVE UseInv' BY <1>4 DEF Ask, Repair, Complete
<1>5. CASE CallRaises \/ RepairFails BY <1>5 DEF CallRaises, RepairFails, End
<1>6. CASE ToRepair BY <1>6 DEF ToRepair
<1>7. CASE UseForCase \/ UseForQuery
  <2>1. Validate /\ KeepProfile BY <1>7 DEF UseForCase, UseForQuery
  <2>2. object' # Unreadable /\ kind' = kind /\ outcome = "none" BY <2>1 DEF Validate
  <2>3. CASE Fits(kind, object')
    <3>1. profile' = Sanitized(RawProfile(object')) /\ outcome' = "none" BY <2>1, <2>2, <2>3 DEF KeepProfile
    <3>2. profile' = Sanitized(Source') BY <2>2, <3>1
    <3> QED BY <3>1, <3>2
  <2>4. CASE ~Fits(kind, object')
    <3>1. outcome' = "failed" /\ step' = "idle" BY <2>1, <2>4 DEF KeepProfile, End
    <3>2. ~Fits(kind', object') BY <2>2, <2>4
    <3> QED BY <3>1, <3>2
  <2> QED BY <2>3, <2>4
<1>8. CASE UseForSuggestion \/ UseForDecision
  <2>1. Validate /\ Answered /\ kind \in {"suggest", "decision"} BY <1>8 DEF UseForSuggestion, UseForDecision
  <2>2. kind' = kind BY <2>1 DEF Validate
  <2>3. outcome' = "failed" => ~Fits(kind', object') BY <2>1, <2>2 DEF Answered, End
  <2> QED BY <2>1, <2>2, <2>3
<1>9. CASE (\E n, m \in Lengths : StoreCase(n, m)) \/ CaseNotEmbedded \/ AnswerQuery
  BY <1>9 DEF StoreCase, CaseNotEmbedded, AnswerQuery, End, extracted
<1>10. CASE EmbedQuery BY <1>10 DEF EmbedQuery, extracted
<1>11. CASE Restart BY <1>11 DEF Restart, extracted
<1>12. CASE UNCHANGED vars BY <1>12 DEF vars
<1> QED BY <1>1, <1>2, <1>3, <1>4, <1>5, <1>6, <1>7, <1>8, <1>9, <1>10, <1>11, <1>12 DEF Next

\* A sanitized profile has every key of the schema and each value in one
\* spelling, all of them below the limit.
LEMMA SanitizedIs ==
    ASSUME NEW raw, \A k \in DOMAIN raw : raw[k] \in Seq(Values)
    PROVE  /\ Definitions \subseteq DOMAIN Sanitized(raw)
           /\ \A k \in DOMAIN Sanitized(raw) :
                  /\ Len(Sanitized(raw)[k]) <= Limit
                  /\ \A i, j \in DOMAIN Sanitized(raw)[k] :
                         Lower[Sanitized(raw)[k][i]] = Lower[Sanitized(raw)[k][j]] => i = j
                  /\ Len(Sanitized(raw)[k]) < Limit /\ k \in DOMAIN raw =>
                         {Lower[v] : v \in ToSet(raw[k])} = {Lower[v] : v \in ToSet(Sanitized(raw)[k])}
<1>1. DOMAIN Sanitized(raw) = DOMAIN raw \cup Definitions BY DEF Sanitized
<1> SUFFICES ASSUME NEW k \in DOMAIN raw \cup Definitions, NEW s, s = Sanitized(raw)[k]
             PROVE  /\ Len(s) <= Limit
                    /\ \A i, j \in DOMAIN s : Lower[s[i]] = Lower[s[j]] => i = j
                    /\ Len(s) < Limit /\ k \in DOMAIN raw =>
                           {Lower[v] : v \in ToSet(raw[k])} = {Lower[v] : v \in ToSet(s)}
  BY <1>1
<1>2. CASE k \notin DOMAIN raw
  <2>1. s = <<>> BY <1>2 DEF Sanitized
  <2> QED BY <1>2, <2>1, AccessAssumption
<1>3. CASE k \in DOMAIN raw
  <2> DEFINE values == raw[k]
  <2>1. s = Dedupe(values) /\ values \in Seq(Values) BY <1>3 DEF Sanitized
  <2> HIDE DEF values
  <2>2. KeptOf(s, values, Len(values)) BY <2>1, DedupeKeeps
  <2>3. s \in Seq(Values) /\ DOMAIN s = 1..Len(s) /\ Len(s) <= Limit BY <2>2 DEF KeptOf
  <2>4. \A i, j \in DOMAIN s : Lower[s[i]] = Lower[s[j]] => i = j BY <2>2, <2>3 DEF KeptOf
  <2>5. ASSUME Len(s) < Limit PROVE {Lower[v] : v \in ToSet(values)} = {Lower[v] : v \in ToSet(s)}
    <3>1. ToSet(values) = {values[m] : m \in 1..Len(values)} /\ ToSet(s) = {s[i] : i \in 1..Len(s)}
      BY <2>1, <2>3 DEF ToSet
    <3>2. \A m \in 1..Len(values) : \E i \in 1..Len(s) : Lower[s[i]] = Lower[values[m]] BY <2>2, <2>5 DEF KeptOf
    <3>3. \A i \in 1..Len(s) : \E m \in 1..Len(values) : s[i] = values[m] BY <2>2 DEF KeptOf
    <3>4. \A v \in ToSet(values) : \E w \in ToSet(s) : Lower[w] = Lower[v] BY <3>1, <3>2
    <3>5. \A w \in ToSet(s) : w \in ToSet(values) BY <3>1, <3>3
    <3> QED BY <3>4, <3>5
  <2> QED BY <2>3, <2>4, <2>5 DEF values
<1> QED BY <1>2, <1>3

LEMMA SourceType ==
    ASSUME ReplyInv, NEW k \in DOMAIN Source
    PROVE  Source[k] \in Seq(Values)
<1>1. CASE object = Unreadable BY <1>1 DEF Source, NoProfile
<1>2. CASE object # Unreadable
  <2>1. object \in Objects BY <1>2 DEF ReplyInv
  <2>2. CASE Payload[object].shape = "other" BY <1>2, <2>2 DEF Source, RawProfile, NoProfile
  <2>3. CASE Payload[object].shape # "other"
    <3>1. Source = Payload[object].profile BY <1>2, <2>3 DEF Source, RawProfile
    <3> QED BY <2>1, <3>1, AccessAssumption
  <2> QED BY <2>2, <2>3
<1> QED BY <1>1, <1>2

\* A request that is done has what the last reply says, sanitized; one that has
\* failed had no client, no service or no object; and no summary shows thought.
THEOREM AnswerIsAlwaysUsed == Spec => []AnswerIsUsed
<1> DEFINE Inv == CallsInv /\ ReplyInv /\ UseInv /\ SummaryInv
<1>1. Init => Inv
  <2> SUFFICES ASSUME Init PROVE Inv
    OBVIOUS
  <2>1. CallsInv BY DEF Init, CallsInv, Base
  <2>2. ReplyInv BY DEF Init, ReplyInv
  <2>3. UseInv BY DEF Init, UseInv
  <2>4. SummaryInv BY NoSummary DEF Init, SummaryInv
  <2> QED BY <2>1, <2>2, <2>3, <2>4
<1>2. Inv /\ [Next]_vars => Inv' BY NextCalls, NextReplies, NextUse, NextSummary
<1>3. Inv => AnswerIsUsed
  <2> SUFFICES ASSUME Inv PROVE AnswerIsUsed
    OBVIOUS
  <2>1. calls <= IF kind = "ingest" THEN 3 ELSE 2 BY DEF CallsInv, Base
  <2>2. ASSUME outcome = "done", kind \in {"ingest", "query"}
        PROVE  /\ Definitions \subseteq DOMAIN profile
               /\ \A k \in DOMAIN profile :
                      /\ Len(profile[k]) <= Limit
                      /\ \A i, j \in DOMAIN profile[k] : Lower[profile[k][i]] = Lower[profile[k][j]] => i = j
                      /\ Len(profile[k]) < Limit /\ object # Unreadable /\ k \in DOMAIN RawProfile(object) =>
                             {Lower[v] : v \in ToSet(RawProfile(object)[k])} = {Lower[v] : v \in ToSet(profile[k])}
    <3>1. profile = Sanitized(Source) BY <2>2 DEF UseInv
    <3>2. \A k \in DOMAIN Source : Source[k] \in Seq(Values) BY SourceType
    <3>3. object # Unreadable => Source = RawProfile(object) BY DEF Source
    <3> QED BY <3>1, <3>2, <3>3, SanitizedIs
  <2>3. Unpaired(summary, "think", "unthink") /\ Unpaired(summary, "fence", "fence") BY DEF SummaryInv
  <2>4. outcome = "failed" => ~client \/ raised \/ object = Unreadable \/ ~Fits(kind, object) BY DEF UseInv
  <2> QED BY <2>1, <2>2, <2>3, <2>4 DEF AnswerIsUsed
<1> QED BY <1>1, <1>2, <1>3, PTL DEF Spec

-----------------------------------------------------------------------------
(* Readers *)

ReaderStates == [string : BOOLEAN, escape : BOOLEAN, depth : Int, closed : BOOLEAN, legal : BOOLEAN]

LEMMA ReadingSteps ==
    ASSUME NEW text
    PROVE  /\ Reading(text)[0] = Read0
           /\ \A n \in Nat \ {0} : Reading(text)[n] = ReadToken(Reading(text)[n - 1], text[n])
<1> DEFINE f == Reading(text)
<1>1. f = [n \in Nat |-> IF n = 0 THEN Read0 ELSE ReadToken(f[n - 1], text[n])]
  BY DEF Reading
<1> HIDE DEF f
<1>2. f[0] = Read0 /\ \A n \in Nat \ {0} : f[n] = ReadToken(f[n - 1], text[n])
  BY <1>1
<1> QED BY <1>2 DEF f

\* What is closed stays closed, what is illegal illegal; nothing may follow the
\* brace that closes the object.
ReadOn(s, t) ==
    /\ s.closed => t.closed
    /\ t.legal => s.legal
    /\ s.closed /\ ~s.string => ~t.legal
    /\ ~s.closed /\ t.closed => ~t.string

LEMMA ReadTokenStep ==
    ASSUME NEW s \in ReaderStates, NEW c
    PROVE  /\ ReadToken(s, c) \in ReaderStates /\ ReadOn(s, ReadToken(s, c))
           /\ ReadToken(s, c).legal /\ ~s.string => c = "{" \/ s.depth > 0
<1> DEFINE t == ReadToken(s, c)
<1>1. CASE s.string
  <2> DEFINE escape == ~s.escape /\ c = "escape"
             string == s.escape \/ c # "quote"
             legal == s.legal /\ (s.escape => c \in {"quote", "escape", "word"})
  <2>1. t = [s EXCEPT !.escape = escape, !.string = string, !.legal = legal] BY <1>1 DEF ReadToken
  <2>2. escape \in BOOLEAN /\ string \in BOOLEAN /\ legal \in BOOLEAN /\ (legal => s.legal) BY DEF ReaderStates
  <2> HIDE DEF t, escape, string, legal
  <2>3. t \in ReaderStates /\ t.closed = s.closed /\ t.legal = legal BY <2>1, <2>2 DEF ReaderStates
  <2>4. ReadOn(s, t) BY <1>1, <2>2, <2>3, Zenon DEF ReadOn
  <2> QED BY <1>1, <2>3, <2>4 DEF t
<1>2. CASE ~s.string
  <2> DEFINE string == c = "quote"
             depth == CASE c = "{" -> s.depth + 1 [] c = "}" -> s.depth - 1 [] OTHER -> s.depth
             closed == s.closed \/ (c = "}" /\ s.depth = 1)
             legal == s.legal /\ ~s.closed /\ c \in {"{", "}", "quote", "array"} /\ (c = "{" \/ s.depth > 0)
  <2>1. t = [s EXCEPT !.string = string, !.depth = depth, !.closed = closed, !.legal = legal] BY <1>2 DEF ReadToken
  <2>2. string \in BOOLEAN /\ depth \in Int /\ closed \in BOOLEAN /\ legal \in BOOLEAN
    <3>1. s.depth \in Int BY DEF ReaderStates
    <3>2. depth \in {s.depth + 1, s.depth - 1, s.depth} BY Zenon
    <3>3. depth \in Int
      <4> HIDE DEF depth
      <4> QED BY <3>1, <3>2
    <3>4. string \in BOOLEAN /\ legal \in BOOLEAN OBVIOUS
    <3>5. closed \in BOOLEAN OBVIOUS
    <3> QED BY <3>3, <3>4, <3>5
  <2>3. (s.closed => closed) /\ (legal => s.legal) /\ (s.closed => ~legal) /\ (~s.closed /\ closed => ~string)
    BY DEF ReaderStates
  <2>6. legal => c = "{" \/ s.depth > 0 OBVIOUS
  <2> HIDE DEF t, string, depth, closed, legal
  <2>4. t \in ReaderStates /\ t.closed = closed /\ t.legal = legal /\ t.string = string BY <2>1, <2>2 DEF ReaderStates
  <2>5. ReadOn(s, t) BY <2>3, <2>4, Zenon DEF ReadOn
  <2> QED BY <2>4, <2>5, <2>6 DEF t
<1> QED BY <1>1, <1>2

LEMMA FirstState == Read0 \in ReaderStates
BY DEF Read0, ReaderStates

LEMMA ReadingStates ==
    ASSUME NEW text, NEW n \in Nat
    PROVE  Reading(text)[n] \in ReaderStates
<1> DEFINE f == Reading(text)
           S == {k \in Nat : f[k] \in ReaderStates}
<1>1. 0 \in S
  <2>1. f[0] = Read0 BY ReadingSteps
  <2> HIDE DEF f
  <2>2. f[0] \in ReaderStates BY <2>1, FirstState
  <2> QED BY <2>2
<1>2. ASSUME NEW k \in 1..n, k - 1 \in S PROVE k \in S
  <2>1. f[k] = ReadToken(f[k - 1], text[k]) BY ReadingSteps
  <2> HIDE DEF f
  <2>2. f[k] \in ReaderStates BY <1>2, <2>1, ReadTokenStep
  <2> QED BY <2>2
<1> HIDE DEF S
<1>3. n \in S BY <1>1, <1>2, UpTo
<1> QED BY <1>3 DEF S

LEMMA ReadingGoesOn ==
    ASSUME NEW text, NEW n \in Nat \ {0}
    PROVE  ReadOn(Reading(text)[n - 1], Reading(text)[n])
<1> DEFINE f == Reading(text)
<1>1. f[n] = ReadToken(f[n - 1], text[n]) BY ReadingSteps
<1>2. n - 1 \in Nat BY SMT
<1>3. f[n - 1] \in ReaderStates BY <1>2, ReadingStates
<1> HIDE DEF f
<1>4. ReadOn(f[n - 1], f[n]) BY <1>1, <1>3, ReadTokenStep, Zenon
<1> QED BY <1>4 DEF f

LEMMA ReadingLasts ==
    ASSUME NEW text, NEW m \in Nat, NEW n \in Nat, m <= n
    PROVE  /\ Reading(text)[m].closed => Reading(text)[n].closed
           /\ Reading(text)[n].legal => Reading(text)[m].legal
<1> DEFINE f == Reading(text)
           S == {k \in Nat : (f[m].closed => f[m + k].closed) /\ (f[m + k].legal => f[m].legal)}
<1>1. 0 \in S
  <2>1. m + 0 = m BY SMT
  <2> QED BY <2>1
<1>2. ASSUME NEW k \in 1..(n - m), k - 1 \in S PROVE k \in S
  <2>1. m + k \in Nat \ {0} /\ m + (k - 1) = (m + k) - 1 /\ k \in Nat BY SMT
  <2>2. ReadOn(f[(m + k) - 1], f[m + k]) BY <2>1, ReadingGoesOn
  <2>3. (f[m].closed => f[(m + k) - 1].closed) /\ (f[(m + k) - 1].legal => f[m].legal) BY <1>2, <2>1
  <2> HIDE DEF f
  <2>4. (f[m].closed => f[m + k].closed) /\ (f[m + k].legal => f[m].legal) BY <2>2, <2>3, Zenon DEF ReadOn
  <2> QED BY <2>1, <2>4
<1>3. n - m \in Nat /\ m + (n - m) = n BY SMT
<1> HIDE DEF S
<1>4. n - m \in S BY <1>1, <1>2, <1>3, UpTo
<1> QED BY <1>3, <1>4 DEF S

\* Of two texts that begin alike the beginning is read alike.
LEMMA ReadingAlike ==
    ASSUME NEW s, NEW t, NEW n \in Nat, \A i \in 1..n : s[i] = t[i]
    PROVE  Reading(s)[n] = Reading(t)[n]
<1> DEFINE f == Reading(s)
           g == Reading(t)
           S == {k \in Nat : f[k] = g[k]}
<1>1. 0 \in S
  <2>1. f[0] = Read0 /\ g[0] = Read0 BY ReadingSteps
  <2> QED BY <2>1
<1>2. ASSUME NEW k \in 1..n, k - 1 \in S PROVE k \in S
  <2>1. k \in Nat \ {0} BY SMT
  <2>2. f[k] = ReadToken(f[k - 1], s[k]) /\ g[k] = ReadToken(g[k - 1], t[k]) BY <2>1, ReadingSteps
  <2>3. f[k - 1] = g[k - 1] BY <1>2
  <2> HIDE DEF f, g
  <2>4. f[k] = g[k] BY <2>2, <2>3
  <2> QED BY <2>1, <2>4
<1> HIDE DEF S
<1>3. n \in S BY <1>1, <1>2, UpTo
<1> QED BY <1>3 DEF S

\* An object begins with a brace and closes at its end and not before.
LEMMA ObjectCloses ==
    ASSUME NEW text \in Seq(Tokens), IsObject(text)
    PROVE  /\ Len(text) > 0 /\ text[1] = "{"
           /\ Reading(text)[Len(text)].closed
           /\ \A n \in 1..(Len(text) - 1) : ~Reading(text)[n].closed
<1> DEFINE f == Reading(text)
           l == Len(text)
<1>1. l \in Nat OBVIOUS
<1>2. f[l].legal /\ f[l].closed BY DEF IsObject
<1>3. f[0] = Read0 BY ReadingSteps
<1>4. l > 0
  <2>1. ~f[0].closed BY <1>3 DEF Read0
  <2> HIDE DEF f, l
  <2> QED BY <1>1, <1>2, <2>1
<1>5. text[1] = "{"
  <2>1. f[1] = ReadToken(f[0], text[1]) BY ReadingSteps
  <2>2. f[1].legal
    <3>1. 1 \in Nat /\ 1 <= l BY <1>1, <1>4
    <3> QED BY <1>1, <1>2, <3>1, ReadingLasts
  <2> HIDE DEF f
  <2>3. ReadToken(Read0, text[1]).legal BY <1>3, <2>1, <2>2
  <2>4. ~Read0.string /\ Read0.depth = 0 BY DEF Read0
  <2>5. text[1] = "{" \/ Read0.depth > 0 BY <2>3, <2>4, FirstState, ReadTokenStep
  <2>6. \A d : d = 0 => ~(d > 0) OBVIOUS
  <2>7. ~(Read0.depth > 0) BY <2>4, <2>6, Zenon
  <2> QED BY <2>5, <2>7, Zenon
<1>6. ASSUME NEW n \in 1..(l - 1), f[n].closed PROVE FALSE
  <2> DEFINE C == {k \in 1..(l - 1) : f[k].closed}
  <2>1. C \in SUBSET Nat /\ C # {} BY <1>1, <1>6
  <2>2. PICK k \in C : \A m \in C : k <= m
    <3> HIDE DEF C
    <3> QED BY <2>1, LeastExists, Zenon
  <2>3. k \in Nat \ {0} /\ k - 1 \in Nat /\ k + 1 \in Nat \ {0} /\ k + 1 <= l /\ (k + 1) - 1 = k /\ f[k].closed
    BY <1>1, <2>2
  <2>4. ~f[k - 1].closed
    <3>1. CASE k = 1
      <4>1. k - 1 = 0 BY <3>1
      <4>2. ~f[0].closed BY <1>3 DEF Read0
      <4> QED BY <4>1, <4>2
    <3>2. CASE k # 1
      <4>1. k - 1 \in 1..(l - 1) /\ ~(k <= k - 1) BY <1>1, <2>2, <3>2
      <4> HIDE DEF f, l
      <4> QED BY <2>2, <4>1
    <3> QED BY <3>1, <3>2
  <2>5. ~f[k].string
    <3>1. ReadOn(f[k - 1], f[k]) BY <2>3, ReadingGoesOn
    <3> HIDE DEF f
    <3> QED BY <2>3, <2>4, <3>1, Zenon DEF ReadOn
  <2>6. ~f[k + 1].legal
    <3>1. ReadOn(f[(k + 1) - 1], f[k + 1]) BY <2>3, ReadingGoesOn
    <3>2. ReadOn(f[k], f[k + 1]) BY <2>3, <3>1
    <3> HIDE DEF f
    <3> QED BY <2>3, <2>5, <3>2, Zenon DEF ReadOn
  <2>7. f[l].legal => f[k + 1].legal BY <1>1, <2>3, ReadingLasts
  <2> QED BY <1>2, <2>6, <2>7
<1> QED BY <1>2, <1>4, <1>5, <1>6

-----------------------------------------------------------------------------
(* The object in a text *)

LEMMA FirstOfIs ==
    ASSUME NEW S \in SUBSET Nat, NEW i \in S, \A j \in S : i <= j
    PROVE  FirstOf(S) = i
<1>1. \A k \in S : (\A j \in S : k <= j) => k = i
  <2> SUFFICES ASSUME NEW k \in S, \A j \in S : k <= j PROVE k = i
    OBVIOUS
  <2>1. k <= i /\ i <= k /\ k \in Nat /\ i \in Nat OBVIOUS
  <2> QED BY <2>1
<1> QED BY <1>1 DEF FirstOf

\* An object that is a part of a text, from a place to another.
LEMMA PartIs ==
    ASSUME NEW text \in Seq(Tokens), NEW i \in 1..Len(text), NEW j \in 1..Len(text), i <= j
    PROVE  /\ SubSeq(text, i, j) \in Seq(Tokens) /\ Len(SubSeq(text, i, j)) = (j - i) + 1
           /\ \A n \in 1..((j - i) + 1) : SubSeq(text, i, j)[n] = text[(i + n) - 1]
<1>1. i \in Nat /\ j \in Nat /\ Len(text) \in Nat /\ 1 <= i /\ j <= Len(text) OBVIOUS
<1> QED BY <1>1

LEMMA HeldAt ==
    ASSUME NEW text, Len(text) \in Nat, NEW o, Holds(text, o)
    PROVE  \E i, j \in 1..Len(text) :
               i <= j /\ SubSeq(text, i, j) = o /\ \A m \in 1..(i - 1) : text[m] # "{"
<1>1. PICK i \in 1..Len(text) : /\ \A m \in 1..(i - 1) : text[m] # "{"
                                /\ \E j \in i..Len(text) : SubSeq(text, i, j) = o
  BY DEF Holds
<1>2. PICK j \in i..Len(text) : SubSeq(text, i, j) = o BY <1>1
<1>3. j \in 1..Len(text) /\ i <= j BY <1>2
<1> QED BY <1>1, <1>2, <1>3, Zenon

LEMMA FirstObjectIs ==
    ASSUME NEW text \in Seq(Tokens), NEW o, IsObject(o), Holds(text, o)
    PROVE  FirstObject(text) = o
<1> DEFINE braces == {i \in DOMAIN text : text[i] = "{"}
           rest == SubSeq(text, FirstOf(braces), Len(text))
           ends == {n \in DOMAIN rest : Reading(rest)[n].closed}
           l == Len(o)
<1>1. PICK i \in 1..Len(text), j \in 1..Len(text) : i <= j /\ SubSeq(text, i, j) = o /\ \A m \in 1..(i - 1) : text[m] # "{"
  <2>1. Len(text) \in Nat OBVIOUS
  <2> QED BY <2>1, HeldAt, Zenon
<1> HIDE DEF rest, ends
<1>2. /\ i \in Nat /\ j \in Nat /\ Len(text) \in Nat /\ i <= j /\ j <= Len(text) /\ DOMAIN text = 1..Len(text)
      /\ o \in Seq(Tokens) /\ l = (j - i) + 1 /\ l \in 1..((Len(text) - i) + 1)
      /\ \A n \in 1..l : o[n] = text[(i + n) - 1]
  <2>1. i \in Nat /\ j \in Nat /\ Len(text) \in Nat /\ i <= j /\ j <= Len(text) /\ DOMAIN text = 1..Len(text)
    <3>1. i <= j BY <1>1
    <3>2. i \in 1..Len(text) /\ j \in 1..Len(text) /\ Len(text) \in Nat /\ DOMAIN text = 1..Len(text) OBVIOUS
    <3> QED BY <3>1, <3>2
  <2>2. o \in Seq(Tokens) /\ l = (j - i) + 1 /\ \A n \in 1..((j - i) + 1) : o[n] = text[(i + n) - 1]
    BY <1>1, PartIs
  <2>3. (j - i) + 1 \in 1..((Len(text) - i) + 1) BY <2>1
  <2> HIDE DEF l
  <2> QED BY <2>1, <2>2, <2>3
<1>3. /\ o[1] = "{" /\ Reading(o)[l].closed
      /\ \A n \in 1..(l - 1) : ~Reading(o)[n].closed
  BY <1>2, ObjectCloses
<1> HIDE DEF l
<1>4. FirstOf(braces) = i /\ braces # {}
  <2>1. text[i] = "{"
    <3>1. o[1] = text[(i + 1) - 1] /\ (i + 1) - 1 = i BY <1>2
    <3> QED BY <1>3, <3>1
  <2>4. braces = {m \in 1..Len(text) : text[m] = "{"} BY <1>2
  <2> HIDE DEF braces
  <2>5. i \in Nat /\ \A m \in 1..Len(text) : m \in Nat /\ 1 <= m OBVIOUS
  <2>2. braces \in SUBSET Nat /\ i \in braces BY <2>1, <2>4, <2>5
  <2>3. ASSUME NEW m \in braces PROVE i <= m
    <3>1. m \in 1..Len(text) /\ text[m] = "{" BY <2>4
    <3>2. m \notin 1..(i - 1) BY <1>1, <3>1
    <3>3. i \in Nat /\ m \in Nat /\ 1 <= m BY <2>5, <3>1
    <3> QED BY <3>2, <3>3
  <2> QED BY <2>2, <2>3, FirstOfIs
<1> HIDE DEF braces
<1>5. rest = SubSeq(text, i, Len(text)) BY <1>4 DEF rest
<1>6. /\ rest \in Seq(Tokens) /\ Len(rest) = (Len(text) - i) + 1
      /\ \A n \in 1..((Len(text) - i) + 1) : rest[n] = text[(i + n) - 1]
  <2>1. Len(text) \in 1..Len(text) /\ i <= Len(text) BY <1>2
  <2> QED BY <1>5, <2>1, PartIs
<1>7. \A n \in 1..l : rest[n] = o[n] BY <1>2, <1>6
<1>8. ASSUME NEW n \in 1..l PROVE Reading(rest)[n] = Reading(o)[n]
  <2>1. n \in Nat /\ \A m \in 1..n : rest[m] = o[m] BY <1>2, <1>7
  <2> QED BY <2>1, ReadingAlike
<1>9. FirstOf(ends) = l /\ ends # {}
  <2>1. DOMAIN rest = 1..Len(rest) /\ l \in 1..Len(rest) /\ l \in 1..l BY <1>2, <1>6
  <2>2. Reading(rest)[l] = Reading(o)[l] BY <1>8, <2>1
  <2>5. ends = {n \in 1..Len(rest) : Reading(rest)[n].closed} BY <2>1 DEF ends
  <2>6. l \in ends BY <1>3, <2>1, <2>2, <2>5
  <2>7. \A n \in 1..Len(rest) : n \in Nat OBVIOUS
  <2>4. l \in ends /\ ends \in SUBSET Nat BY <2>5, <2>6, <2>7
  <2>3. ASSUME NEW n \in ends PROVE l <= n
    <3>1. n \in Nat /\ 1 <= n /\ Reading(rest)[n].closed BY <2>5
    <3>2. ASSUME ~(l <= n) PROVE FALSE
      <4>1. n \in 1..(l - 1) /\ n \in 1..l BY <1>2, <3>1, <3>2
      <4> QED BY <1>3, <1>8, <3>1, <4>1
    <3> QED BY <3>2
  <2> QED BY <2>4, <2>3, FirstOfIs
<1>10. SubSeq(rest, 1, l) = o
  <2>1. 1 \in 1..Len(rest) /\ l \in 1..Len(rest) /\ 1 <= l BY <1>2, <1>6
  <2>2. /\ SubSeq(rest, 1, l) \in Seq(Tokens) /\ Len(SubSeq(rest, 1, l)) = (l - 1) + 1
        /\ \A n \in 1..((l - 1) + 1) : SubSeq(rest, 1, l)[n] = rest[(1 + n) - 1]
    BY <1>6, <2>1, PartIs
  <2>3. (l - 1) + 1 = l /\ \A n \in 1..l : (1 + n) - 1 = n BY <1>2
  <2>4. Len(SubSeq(rest, 1, l)) = Len(o) /\ \A n \in 1..Len(o) : SubSeq(rest, 1, l)[n] = o[n]
    BY <1>7, <2>2, <2>3 DEF l
  <2> QED BY <1>2, <2>2, <2>4, SeqEqual
<1> QED BY <1>4, <1>9, <1>10 DEF FirstObject, braces, rest, ends

\* A text that is an object holds no other.
LEMMA WholeObjectIs ==
    ASSUME NEW text \in Seq(Tokens), NEW o, IsObject(o), Holds(text, o), IsObject(text)
    PROVE  text = o
<1> DEFINE l == Len(o)
<1>1. PICK i \in 1..Len(text), j \in 1..Len(text) : i <= j /\ SubSeq(text, i, j) = o /\ \A m \in 1..(i - 1) : text[m] # "{"
  <2>1. Len(text) \in Nat OBVIOUS
  <2> QED BY <2>1, HeldAt, Zenon
<1>2. Len(text) \in Nat /\ Len(text) > 0 /\ text[1] = "{" /\ \A n \in 1..(Len(text) - 1) : ~Reading(text)[n].closed
  <2>1. Len(text) \in Nat OBVIOUS
  <2> HIDE DEF l
  <2> QED BY <2>1, ObjectCloses, Zenon
<1>3. i = 1
  <2>1. ASSUME i # 1 PROVE FALSE
    <3>1. 1 \in 1..(i - 1) BY <2>1
    <3> QED BY <1>1, <1>2, <3>1
  <2> QED BY <2>1
<1>4. j \in 1..Len(text) /\ o \in Seq(Tokens) /\ l = j /\ \A n \in 1..l : o[n] = text[n]
  <2>1. j \in 1..Len(text) /\ 1 <= j BY <1>1, <1>3
  <2>2. (j - 1) + 1 = j /\ \A n \in 1..j : (1 + n) - 1 = n BY <2>1
  <2> QED BY <1>1, <1>3, <2>1, <2>2, PartIs
<1> HIDE DEF l
<1>5. l = Len(text)
  <2>1. Reading(text)[l] = Reading(o)[l]
    <3>1. l \in Nat /\ \A n \in 1..l : text[n] = o[n]
      <4>1. \A k \in 1..Len(text) : k \in Nat OBVIOUS
      <4> QED BY <1>4, <4>1
    <3> QED BY <3>1, ReadingAlike
  <2>2. Reading(o)[l].closed BY <1>4, ObjectCloses DEF l
  <2>3. ASSUME l # Len(text) PROVE FALSE
    <3>1. l \in 1..(Len(text) - 1)
      <4>1. Len(text) \in Nat /\ l \in 1..Len(text) BY <1>2, <1>4
      <4> QED BY <4>1, <2>3
    <3> QED BY <1>2, <2>1, <2>2, <3>1
  <2> QED BY <2>3
<1> QED BY <1>4, <1>5, SeqEqual DEF l

LEMMA HeldIsRead ==
    ASSUME NEW text, text # <<>>, Normalized(text) \in Seq(Tokens), NEW o, IsObject(o),
           Holds(Normalized(text), o)
    PROVE  Read(text) = o
<1> DEFINE v == Normalized(text)
<1>1. FirstObject(v) = o BY FirstObjectIs
<1>2. IsObject(v) => v = o BY WholeObjectIs
<1>3. v # <<"array">>
  <2>1. ASSUME v = <<"array">> PROVE FALSE
    <3>2. Len(v) = 1 /\ v[1] = "array" BY <2>1
    <3>1. PICK i \in 1..Len(v), j \in 1..Len(v) : i <= j /\ SubSeq(v, i, j) = o
      <4>1. Len(v) \in Nat BY <3>2
      <4> QED BY <4>1, HeldAt, Zenon
    <3> HIDE DEF v
    <3>3. i = 1 /\ j = 1 BY <3>1, <3>2
    <3>4. o \in Seq(Tokens) /\ o[1] = v[(1 + 1) - 1]
      <4>1. v \in Seq(Tokens) BY DEF v
      <4>2. 1 \in 1..((1 - 1) + 1) OBVIOUS
      <4> QED BY <3>1, <3>3, <4>1, <4>2, PartIs
    <3>5. o[1] = "{" BY <3>4, ObjectCloses
    <3>6. (1 + 1) - 1 = 1 OBVIOUS
    <3>7. v[1] = "{" BY <3>4, <3>5, <3>6
    <3> QED BY <3>2, <3>7
  <2> QED BY <2>1
<1>5. ~IsString(v) BY DEF Holds, IsString
<1> HIDE DEF v
<1>4. Read(text) = IF IsObject(v) THEN v
                   ELSE IF v = <<"array">> THEN Unreadable
                   ELSE IF IsObject(FirstObject(v)) THEN FirstObject(v) ELSE Unreadable
  <2>1. CASE IsObject(v) BY <1>3, <1>5, <2>1, Zenon DEF Read, v
  <2>2. CASE ~IsObject(v) /\ v = <<"array">> BY <2>2, Zenon DEF Read, v
  <2>3. CASE ~IsObject(v) /\ v # <<"array">> BY <1>5, <2>3, Zenon DEF Read, v
  <2> QED BY <2>1, <2>2, <2>3
<1> QED BY <1>1, <1>2, <1>3, <1>4, Zenon

-----------------------------------------------------------------------------
(* Fences *)

LEMMA HoldingIsText ==
    ASSUME NEW text \in Seq(Tokens), NEW o, Holds(text, o)
    PROVE  text # <<>>
<1>1. PICK i \in 1..Len(text) : TRUE BY DEF Holds
<1> QED BY <1>1

LEMMA FencesAreFinite ==
    ASSUME NEW text \in Seq(Tokens), NEW S \in SUBSET DOMAIN text
    PROVE  IsFiniteSet(S) /\ S \in SUBSET Nat
<1>1. DOMAIN text = 1..Len(text) /\ Len(text) \in Nat /\ \A m \in 1..Len(text) : m \in Nat OBVIOUS
<1>2. IsFiniteSet(1..Len(text)) BY <1>1, FS_Interval
<1>3. IsFiniteSet(S) BY <1>1, <1>2, FS_Subset
<1> QED BY <1>1, <1>3

LEMMA FenceStripped ==
    ASSUME NEW text \in Seq(Tokens), NEW o, Presents(text, o)
    PROVE  StripFence(text) \in Seq(Tokens) /\ Holds(StripFence(text), o)
<1> DEFINE fences == {i \in DOMAIN text : text[i] = "fence"}
           first == FirstOf(fences)
           second == FirstOf(fences \ {first})
<1>1. Len(text) \in Nat /\ fences = {i \in 1..Len(text) : text[i] = "fence"} /\ fences \in SUBSET DOMAIN text OBVIOUS
<1>2. StripFence(text) =
          IF Cardinality(fences) >= 2 /\ second > first + 1 THEN SubSeq(text, first + 1, second - 1)
          ELSE IF Len(text) >= 3 /\ Head(text) = "fence" /\ Last(text) = "fence" THEN Front(Tail(text))
          ELSE text
  BY DEF StripFence
<1> HIDE DEF fences, first, second
<1>3. IsFiniteSet(fences) /\ fences \in SUBSET Nat BY <1>1, FencesAreFinite
<1>4. CASE Unpaired(text, "fence", "fence") /\ Holds(text, o)
  <2>1. \A i, j \in fences : i = j
    <3> SUFFICES ASSUME NEW i \in fences, NEW j \in fences, i # j PROVE FALSE
      OBVIOUS
    <3>1. i \in 1..Len(text) /\ j \in 1..Len(text) /\ text[i] = "fence" /\ text[j] = "fence" BY <1>1
    <3>2. i < j \/ j < i BY <3>1
    <3> QED BY <1>4, <3>1, <3>2 DEF Unpaired
  <2>2. ~(Cardinality(fences) >= 2)
    <3>1. CASE fences = {}
      <4>1. Cardinality(fences) = 0 BY <3>1, FS_EmptySet
      <4> QED BY <4>1
    <3>2. CASE fences # {}
      <4>1. PICK i \in fences : TRUE BY <3>2
      <4>2. fences = {i} BY <2>1, <4>1
      <4>3. Cardinality(fences) = 1 BY <4>2, FS_Singleton
      <4> QED BY <4>3
    <3> QED BY <3>1, <3>2
  <2>3. ~(Len(text) >= 3 /\ Head(text) = "fence" /\ Last(text) = "fence")
    <3> SUFFICES ASSUME Len(text) >= 3, Head(text) = "fence", Last(text) = "fence" PROVE FALSE
      OBVIOUS
    <3>1. Head(text) = text[1] /\ Last(text) = text[Len(text)] BY DEF Last
    <3>2. 1 \in 1..Len(text) /\ Len(text) \in 1..Len(text) /\ 1 < Len(text) BY <1>1
    <3> QED BY <1>4, <3>1, <3>2 DEF Unpaired
  <2>4. StripFence(text) = text BY <1>2, <2>2, <2>3, Zenon
  <2> QED BY <1>4, <2>4
<1>5. CASE \E f, g \in 1..Len(text) :
               /\ f < g /\ text[f] = "fence" /\ text[g] = "fence"
               /\ \A m \in 1..(g - 1) : text[m] = "fence" => m = f
               /\ Holds(SubSeq(text, f + 1, g - 1), o)
  <2>1. PICK f \in 1..Len(text), g \in 1..Len(text) :
             /\ f < g /\ text[f] = "fence" /\ text[g] = "fence"
             /\ \A m \in 1..(g - 1) : text[m] = "fence" => m = f
             /\ Holds(SubSeq(text, f + 1, g - 1), o)
    BY <1>5
  <2>2. f \in Nat /\ g \in Nat /\ f < g /\ f \in fences /\ g \in fences BY <1>1, <2>1
  <2>3. \A m \in fences : m = f \/ g <= m
    <3> SUFFICES ASSUME NEW m \in fences, ~(g <= m) PROVE m = f
      OBVIOUS
    <3>1. m \in 1..Len(text) /\ text[m] = "fence" BY <1>1
    <3>2. m \in 1..(g - 1) BY <2>2, <3>1
    <3> QED BY <2>1, <3>1, <3>2
  <2>4. first = f
    <3>1. \A m \in fences : f <= m BY <1>3, <2>2, <2>3
    <3> QED BY <1>3, <2>2, <3>1, FirstOfIs DEF first
  <2>5. second = g
    <3>1. g \in fences \ {f} /\ fences \ {f} \in SUBSET Nat /\ \A m \in fences \ {f} : g <= m BY <1>3, <2>2, <2>3
    <3>2. FirstOf(fences \ {f}) = g BY <3>1, FirstOfIs
    <3> QED BY <2>4, <3>2 DEF second
  <2>6. Cardinality(fences) >= 2
    <3>1. Cardinality({f, g}) = 2
      <4>1. Cardinality({f}) = 1 /\ IsFiniteSet({f}) BY FS_Singleton, Zenon
      <4>2. g \notin {f} /\ {f} \cup {g} = {f, g} BY <2>2
      <4>3. Cardinality({f} \cup {g}) = Cardinality({f}) + 1 BY <4>1, <4>2, FS_AddElement
      <4>4. Cardinality({f, g}) = 1 + 1 BY <4>1, <4>2, <4>3, Zenon
      <4> QED BY <4>4
    <3>2. {f, g} \subseteq fences BY <2>2
    <3>3. Cardinality({f, g}) <= Cardinality(fences) /\ Cardinality(fences) \in Nat
      BY <1>3, <3>2, FS_Subset, FS_CardinalityType
    <3> QED BY <3>1, <3>3
  <2> DEFINE held == SubSeq(text, f + 1, g - 1)
  <2>7. g > f + 1 /\ held \in Seq(Tokens)
    <3>1. f + 1 \in Int /\ g - 1 \in Int /\ \A m \in (f + 1)..(g - 1) : text[m] \in Tokens
      <4> SUFFICES ASSUME NEW m \in (f + 1)..(g - 1) PROVE text[m] \in Tokens
        BY <2>2
      <4>1. m \in 1..Len(text) BY <1>1, <2>2
      <4> QED BY <4>1
    <3>2. held \in Seq(Tokens) /\ Len(held) = IF f + 1 <= g - 1 THEN (g - 1) - (f + 1) + 1 ELSE 0
      BY <3>1, SubSeqProperties
    <3>3. Holds(held, o) BY <2>1
    <3> HIDE DEF held
    <3>4. held # <<>> BY <3>2, <3>3, HoldingIsText
    <3>5. Len(held) # 0 BY <3>2, <3>4
    <3>6. f + 1 <= g - 1 BY <3>2, <3>5
    <3> QED BY <2>2, <3>2, <3>6
  <2>8. StripFence(text) = held BY <1>2, <2>4, <2>5, <2>6, <2>7
  <2> QED BY <2>1, <2>7, <2>8
<1> QED BY <1>4, <1>5 DEF Presents

-----------------------------------------------------------------------------
(* Thoughts *)

\* Nothing is taken from a text without a block.
KeptAll(s, text, open, n) ==
    /\ s.kept \in Seq(Tokens) /\ Len(s.kept) = n
    /\ \A i \in 1..n : s.kept[i] = text[i]
    /\ s.since \in 0..n /\ (s.since # 0 => text[s.since] = open)

LEMMA KeptAllStep ==
    ASSUME NEW text \in Seq(Tokens), NEW open, NEW close, Unpaired(text, open, close),
           NEW n \in 1..Len(text), NEW s, KeptAll(s, text, open, n - 1)
    PROVE  KeptAll(WithoutToken(s, text[n], open, close), text, open, n)
<1> DEFINE c == text[n]
           since == IF s.since = 0 /\ c = open THEN Len(s.kept) + 1 ELSE s.since
           kept == Append(s.kept, c)
<1>1. n \in Nat /\ n - 1 \in Nat /\ 1 <= n /\ c \in Tokens /\ Len(text) \in Nat /\ n <= Len(text) OBVIOUS
<1>2. /\ s.kept \in Seq(Tokens) /\ Len(s.kept) = n - 1 /\ s.since \in 0..(n - 1)
      /\ \A i \in 1..(n - 1) : s.kept[i] = text[i]
      /\ s.since # 0 => text[s.since] = open
  BY DEF KeptAll
<1>3. ~(s.since # 0 /\ c = close)
  <2> SUFFICES ASSUME s.since # 0, c = close PROVE FALSE
    OBVIOUS
  <2>1. s.since \in 1..Len(text) /\ n \in 1..Len(text) /\ s.since < n BY <1>1, <1>2
  <2> QED BY <1>2, <2>1 DEF Unpaired
<1>4. WithoutToken(s, c, open, close) = [kept |-> kept, since |-> since] BY <1>3 DEF WithoutToken
<1>5. kept \in Seq(Tokens) /\ Len(kept) = n /\ kept[n] = c /\ \A i \in 1..(n - 1) : kept[i] = s.kept[i]
  BY <1>1, <1>2
<1>6. since \in 0..n /\ (since # 0 => text[since] = open) BY <1>1, <1>2
<1> HIDE DEF kept, since
<1>7. ASSUME NEW i \in 1..n PROVE kept[i] = text[i]
  <2>1. CASE i = n BY <1>5, <2>1
  <2>2. CASE i # n
    <3>1. i \in 1..(n - 1) BY <1>1, <2>2
    <3> QED BY <1>2, <1>5, <3>1
  <2> QED BY <2>1, <2>2
<1>8. [kept |-> kept, since |-> since].kept = kept /\ [kept |-> kept, since |-> since].since = since OBVIOUS
<1> QED BY <1>4, <1>5, <1>6, <1>7, <1>8 DEF KeptAll

LEMMA WithoutNothing ==
    ASSUME NEW text \in Seq(Tokens), NEW open, NEW close, Unpaired(text, open, close)
    PROVE  Without(text, open, close) = text
<1> DEFINE f == Searched(text, open, close)
           S == {n \in Nat : KeptAll(f[n], text, open, n)}
           last == f[Len(text)]
<1>1. Len(text) \in Nat OBVIOUS
<1>2. 0 \in S
  <2>1. f[0].kept = <<>> /\ f[0].since = 0 BY SearchedSteps
  <2> HIDE DEF f
  <2>2. Len(<<>>) = 0 /\ <<>> \in Seq(Tokens) /\ 1..0 = {} /\ 0 \in 0..0 OBVIOUS
  <2>3. KeptAll(f[0], text, open, 0) BY <2>1, <2>2 DEF KeptAll
  <2> QED BY <2>3
<1>3. ASSUME NEW n \in 1..Len(text), n - 1 \in S PROVE n \in S
  <2>1. n \in Nat \ {0} BY <1>1
  <2>2. f[n] = WithoutToken(f[n - 1], text[n], open, close) BY <2>1, SearchedSteps
  <2> HIDE DEF f
  <2>3. KeptAll(f[n], text, open, n) BY <1>3, <2>2, KeptAllStep
  <2> QED BY <2>1, <2>3
<1> HIDE DEF S
<1>4. Len(text) \in S BY <1>1, <1>2, <1>3, UpTo
<1>5. KeptAll(last, text, open, Len(text)) BY <1>4 DEF S
<1>6. Without(text, open, close) = last.kept BY DEF Without
<1> HIDE DEF f, last
<1>7. last.kept = text BY <1>5, SeqEqual DEF KeptAll
<1> QED BY <1>6, <1>7

\* The one block of a text, from place i to place j, is taken out.
Block(text, open, close, i, j) ==
    /\ text[i] = open /\ text[j] = close
    /\ \A m \in 1..(i - 1) : text[m] # open
    /\ \A m \in i..(j - 1) : text[m] # close

KeptBeside(s, text, said, open, i, j, n) ==
    /\ s.kept \in Seq(Tokens)
    /\ n < j => /\ Len(s.kept) = n /\ \A m \in 1..n : s.kept[m] = text[m]
                /\ s.since = IF n < i THEN 0 ELSE i
    /\ n >= j => /\ Len(s.kept) = (n - j) + (i - 1)
                 /\ \A m \in 1..((n - j) + (i - 1)) : s.kept[m] = said[m]
                 /\ s.since \in 0..((n - j) + (i - 1)) /\ (s.since # 0 => said[s.since] = open)

Beside(said, text, i, j) ==
    /\ said \in Seq(Tokens) /\ Len(said) = (Len(text) - j) + (i - 1)
    /\ \A m \in 1..(i - 1) : said[m] = text[m]
    /\ \A n \in (j + 1)..Len(text) : said[(n - j) + (i - 1)] = text[n]

LEMMA SaidIs ==
    ASSUME NEW text \in Seq(Tokens), NEW i \in 1..Len(text), NEW j \in 1..Len(text), i < j, NEW said,
           said = SubSeq(text, 1, i - 1) \o SubSeq(text, j + 1, Len(text))
    PROVE  Beside(said, text, i, j)
<1> DEFINE a == SubSeq(text, 1, i - 1)
           b == SubSeq(text, j + 1, Len(text))
<1>1. Len(text) \in Nat /\ i \in Nat /\ j \in Nat /\ i - 1 \in Nat /\ 1 <= i /\ j <= Len(text) OBVIOUS
<1>2. a \in Seq(Tokens) /\ Len(a) = i - 1 /\ \A m \in 1..(i - 1) : a[m] = text[m]
  <2>1. \A m \in 1..(i - 1) : text[m] \in Tokens
    <3> SUFFICES ASSUME NEW m \in 1..(i - 1) PROVE text[m] \in Tokens
      OBVIOUS
    <3>1. m \in 1..Len(text) BY <1>1
    <3> QED BY <3>1
  <2>2. /\ a \in Seq(Tokens) /\ Len(a) = IF 1 <= i - 1 THEN (i - 1) - 1 + 1 ELSE 0
        /\ \A m \in 1..((i - 1) - 1 + 1) : a[m] = text[1 + m - 1]
    BY <1>1, <2>1, SubSeqProperties
  <2>3. (i - 1) - 1 + 1 = i - 1 /\ \A m \in 1..(i - 1) : 1 + m - 1 = m BY <1>1
  <2> HIDE DEF a
  <2> QED BY <1>1, <2>2, <2>3
<1>3. b \in Seq(Tokens) /\ Len(b) = Len(text) - j /\ \A m \in 1..(Len(text) - j) : b[m] = text[j + m]
  <2>1. \A m \in (j + 1)..Len(text) : text[m] \in Tokens
    <3> SUFFICES ASSUME NEW m \in (j + 1)..Len(text) PROVE text[m] \in Tokens
      OBVIOUS
    <3>1. m \in 1..Len(text) BY <1>1
    <3> QED BY <3>1
  <2>2. j + 1 \in Int /\ Len(text) \in Int BY <1>1
  <2>3. /\ b \in Seq(Tokens) /\ Len(b) = IF j + 1 <= Len(text) THEN Len(text) - (j + 1) + 1 ELSE 0
        /\ \A m \in 1..(Len(text) - (j + 1) + 1) : b[m] = text[(j + 1) + m - 1]
    BY <2>1, <2>2, SubSeqProperties
  <2>4. Len(text) - (j + 1) + 1 = Len(text) - j /\ \A m \in 1..(Len(text) - j) : (j + 1) + m - 1 = j + m BY <1>1
  <2> HIDE DEF b
  <2>5. Len(b) = Len(text) - j
    <3>1. CASE j + 1 <= Len(text) BY <2>3, <2>4, <3>1
    <3>2. CASE ~(j + 1 <= Len(text))
      <4>1. Len(text) = j BY <1>1, <3>2
      <4> QED BY <2>3, <3>2, <4>1
    <3> QED BY <3>1, <3>2
  <2>6. ASSUME NEW m \in 1..(Len(text) - j) PROVE b[m] = text[j + m]
    <3>1. b[m] = text[(j + 1) + m - 1] BY <2>3, <2>4
    <3> QED BY SMTT(60), <2>4, <3>1
  <2> QED BY <2>3, <2>5, <2>6
<1> HIDE DEF a, b
<1>4. said = a \o b BY DEF a, b
<1>5. /\ said \in Seq(Tokens) /\ Len(said) = Len(a) + Len(b)
      /\ \A m \in 1..(Len(a) + Len(b)) : said[m] = IF m <= Len(a) THEN a[m] ELSE b[m - Len(a)]
  <2>1. a \in Seq(Tokens) /\ b \in Seq(Tokens) BY <1>2, <1>3
  <2>2. /\ a \o b \in Seq(Tokens) /\ Len(a \o b) = Len(a) + Len(b)
        /\ \A m \in 1..(Len(a) + Len(b)) : (a \o b)[m] = IF m <= Len(a) THEN a[m] ELSE b[m - Len(a)]
    BY <2>1, ConcatProperties, Zenon
  <2> QED BY <1>4, <2>2, Zenon
<1>6. ASSUME NEW m \in 1..(i - 1) PROVE said[m] = text[m]
  <2>1. m \in 1..(Len(a) + Len(b)) /\ m <= Len(a) BY <1>1, <1>2, <1>3
  <2> QED BY <1>2, <1>5, <2>1
<1>7. ASSUME NEW n \in (j + 1)..Len(text) PROVE said[(n - j) + (i - 1)] = text[n]
  <2> DEFINE m == (n - j) + (i - 1)
  <2>1. /\ m \in 1..(Len(a) + Len(b)) /\ ~(m <= Len(a)) /\ m - Len(a) = n - j /\ n - j \in 1..(Len(text) - j)
        /\ j + (n - j) = n
    BY <1>1, <1>2, <1>3
  <2> HIDE DEF m
  <2>2. said[m] = b[n - j] BY <1>5, <2>1
  <2>3. b[n - j] = text[n] BY <1>3, <2>1
  <2> QED BY <2>2, <2>3 DEF m
<1>8. Len(said) = (Len(text) - j) + (i - 1)
  <2>1. Len(said) = (i - 1) + (Len(text) - j) BY <1>2, <1>3, <1>5
  <2>2. (i - 1) + (Len(text) - j) = (Len(text) - j) + (i - 1) BY <1>1
  <2> QED BY <2>1, <2>2, Zenon
<1> QED BY <1>5, <1>6, <1>7, <1>8 DEF Beside

LEMMA KeptBesideStep ==
    ASSUME NEW text \in Seq(Tokens), NEW open, NEW close, NEW i \in 1..Len(text), NEW j \in 1..Len(text), i < j,
           Block(text, open, close, i, j), NEW said,
           Beside(said, text, i, j), Unpaired(said, open, close),
           NEW n \in 1..Len(text), NEW s, KeptBeside(s, text, said, open, i, j, n - 1)
    PROVE  KeptBeside(WithoutToken(s, text[n], open, close), text, said, open, i, j, n)
<1> DEFINE c == text[n]
           since == IF s.since = 0 /\ c = open THEN Len(s.kept) + 1 ELSE s.since
           kept == Append(s.kept, c)
           l == Len(s.kept)
           next == WithoutToken(s, c, open, close)
<1>1. /\ n \in Nat /\ n - 1 \in Nat /\ 1 <= n /\ n <= Len(text) /\ Len(text) \in Nat /\ c \in Tokens
      /\ i \in Nat /\ j \in Nat /\ 1 <= i /\ i < j /\ j <= Len(text)
  OBVIOUS
<1>2. /\ said \in Seq(Tokens) /\ Len(said) = (Len(text) - j) + (i - 1)
      /\ \A m \in 1..(i - 1) : said[m] = text[m]
      /\ \A m \in (j + 1)..Len(text) : said[(m - j) + (i - 1)] = text[m]
  BY DEF Beside
<1>3. s.kept \in Seq(Tokens) /\ l \in Nat BY DEF KeptBeside
<1>4. kept \in Seq(Tokens) /\ Len(kept) = l + 1 /\ kept[l + 1] = c /\ \A m \in 1..l : kept[m] = s.kept[m]
  BY <1>1, <1>3
<1>5. [kept |-> kept, since |-> since].kept = kept /\ [kept |-> kept, since |-> since].since = since OBVIOUS
<1>6. next = IF s.since # 0 /\ c = close THEN [kept |-> SubSeq(s.kept, 1, s.since - 1), since |-> 0]
             ELSE [kept |-> kept, since |-> since]
  BY DEF WithoutToken
<1> HIDE DEF kept, l, next
<1>7. CASE n < j
  <2>1. n - 1 < j /\ ~(n >= j) BY <1>1, <1>7
  <2>2. l = n - 1 /\ (\A m \in 1..(n - 1) : s.kept[m] = text[m]) /\ s.since = IF n - 1 < i THEN 0 ELSE i
    BY <2>1 DEF KeptBeside, l
  <2>3. ~(s.since # 0 /\ c = close)
    <3> SUFFICES ASSUME s.since # 0, c = close PROVE FALSE
      OBVIOUS
    <3>1. n \in i..(j - 1) BY <1>1, <1>7, <2>2
    <3> QED BY <3>1 DEF Block
  <2>4. since = IF n < i THEN 0 ELSE i
    <3>1. CASE n < i
      <4>1. n \in 1..(i - 1) /\ n - 1 < i BY <1>1, <3>1
      <4>2. c # open BY <4>1 DEF Block
      <4> QED BY <2>2, <3>1, <4>1, <4>2
    <3>2. CASE n = i
      <4>1. n - 1 < i /\ ~(n < i) /\ c = open /\ (n - 1) + 1 = i BY <1>1, <3>2 DEF Block
      <4> QED BY <2>2, <4>1 DEF l
    <3>3. CASE n > i
      <4>1. ~(n - 1 < i) /\ ~(n < i) /\ i # 0 BY <1>1, <3>3
      <4> QED BY <2>2, <4>1
    <3> QED BY <1>1, <3>1, <3>2, <3>3
  <2> HIDE DEF since
  <2>5. next.kept = kept /\ next.since = since BY <1>5, <1>6, <2>3
  <2>6. ASSUME NEW m \in 1..n PROVE kept[m] = text[m]
    <3>1. CASE m = n BY <1>1, <1>4, <2>2, <3>1
    <3>2. CASE m # n
      <4>1. m \in 1..(n - 1) BY <1>1, <3>2
      <4> QED BY <1>4, <2>2, <4>1
    <3> QED BY <3>1, <3>2
  <2>7. Len(kept) = n BY <1>1, <1>4, <2>2
  <2>8. KeptBeside(next, text, said, open, i, j, n) BY <1>4, <2>1, <2>4, <2>5, <2>6, <2>7 DEF KeptBeside
  <2> QED BY <2>8 DEF next
<1>8. CASE n = j
  <2>1. n - 1 < j /\ ~(n - 1 < i) /\ ~(n < j) /\ n >= j /\ (n - j) + (i - 1) = i - 1 BY <1>1, <1>8
  <2>2. l = n - 1 /\ (\A m \in 1..(n - 1) : s.kept[m] = text[m]) /\ s.since = i
    BY <2>1 DEF KeptBeside, l
  <2>3. c = close /\ i # 0 BY <1>1, <1>8 DEF Block
  <2> DEFINE lead == SubSeq(s.kept, 1, i - 1)
  <2>4. [kept |-> lead, since |-> 0].kept = lead /\ [kept |-> lead, since |-> 0].since = 0 OBVIOUS
  <2>5. next.kept = lead /\ next.since = 0 BY <1>6, <2>2, <2>3, <2>4
  <2>6. lead \in Seq(Tokens) /\ Len(lead) = i - 1 /\ \A m \in 1..(i - 1) : lead[m] = s.kept[m]
    <3>1. \A m \in 1..(i - 1) : s.kept[m] \in Tokens
      <4> SUFFICES ASSUME NEW m \in 1..(i - 1) PROVE s.kept[m] \in Tokens
        OBVIOUS
      <4>1. m \in 1..l BY <1>1, <2>1, <2>2
      <4> QED BY <1>3, <4>1 DEF l
    <3>2. /\ lead \in Seq(Tokens) /\ Len(lead) = IF 1 <= i - 1 THEN (i - 1) - 1 + 1 ELSE 0
          /\ \A m \in 1..((i - 1) - 1 + 1) : lead[m] = s.kept[1 + m - 1]
      BY <1>1, <3>1, SubSeqProperties
    <3>3. (i - 1) - 1 + 1 = i - 1 /\ \A m \in 1..(i - 1) : 1 + m - 1 = m BY <1>1
    <3> HIDE DEF lead
    <3> QED BY <1>1, <3>2, <3>3
  <2> HIDE DEF lead
  <2>7. ASSUME NEW m \in 1..(i - 1) PROVE lead[m] = said[m]
    <3>1. m \in 1..(n - 1) BY <1>1, <2>1
    <3> QED BY <1>2, <2>2, <2>6, <3>1
  <2>8. 0 \in 0..(i - 1) BY <1>1
  <2>9. KeptBeside(next, text, said, open, i, j, n) BY <2>1, <2>5, <2>6, <2>7, <2>8 DEF KeptBeside
  <2> QED BY <2>9 DEF next
<1>9. CASE n > j
  <2> DEFINE p == (n - j) + (i - 1)
             q == ((n - 1) - j) + (i - 1)
  <2>10. n - j \in Nat \ {0} /\ (n - 1) - j \in Nat /\ i - 1 \in Nat /\ n \in (j + 1)..Len(text) BY <1>1, <1>9
  <2>11. /\ ~(n - 1 < j) /\ n - 1 >= j /\ ~(n < j) /\ n >= j BY <1>1, <1>9
  <2>12. p = q + 1 /\ q \in Nat /\ p \in Nat \ {0} /\ p - 1 = q BY <1>1, <2>10
  <2>14. Len(said) \in Nat /\ Len(said) = (Len(text) - j) + (i - 1) BY <1>2
  <2>13. p <= Len(said) BY <1>1, <2>10, <2>14
  <2>2. said[p] = c BY <1>2, <2>10
  <2>3. l = q /\ (\A m \in 1..q : s.kept[m] = said[m]) /\ s.since \in 0..q /\ (s.since # 0 => said[s.since] = open)
    BY <2>11 DEF KeptBeside, l
  <2> HIDE DEF p, q
  <2>1. /\ ~(n < j) /\ n >= j /\ p = q + 1 /\ q \in Nat /\ p \in Nat /\ p \in 1..Len(said) /\ p - 1 = q
    BY <2>11, <2>12, <2>13, <2>14
  <2>4. ~(s.since # 0 /\ c = close)
    <3> SUFFICES ASSUME s.since # 0, c = close PROVE FALSE
      OBVIOUS
    <3>1. s.since \in 1..Len(said) /\ s.since < p
      <4>1. s.since \in Nat /\ s.since <= q /\ 1 <= s.since BY <2>1, <2>3
      <4> QED BY <2>1, <2>14, <4>1
    <3> QED BY <2>1, <2>2, <2>3, <3>1 DEF Unpaired
  <2>5. since \in 0..p /\ (since # 0 => said[since] = open)
    <3>1. CASE s.since = 0 /\ c = open
      <4>1. since = p BY <2>1, <2>3, <3>1 DEF l
      <4>2. p \in 0..p BY <2>1
      <4> QED BY <2>2, <3>1, <4>1, <4>2
    <3>2. CASE ~(s.since = 0 /\ c = open)
      <4>1. since = s.since BY <3>2
      <4>2. s.since \in 0..p BY <2>1, <2>3
      <4> QED BY <2>3, <4>1, <4>2
    <3> QED BY <3>1, <3>2
  <2> HIDE DEF since
  <2>6. next.kept = kept /\ next.since = since BY <1>5, <1>6, <2>4
  <2>7. ASSUME NEW m \in 1..p PROVE kept[m] = said[m]
    <3>1. CASE m = p BY <1>4, <2>1, <2>2, <2>3, <3>1
    <3>2. CASE m # p
      <4>1. m \in 1..q BY <2>1, <3>2
      <4> QED BY <1>4, <2>3, <4>1
    <3> QED BY <3>1, <3>2
  <2>8. Len(kept) = p BY <1>4, <2>1, <2>3
  <2>9. KeptBeside(next, text, said, open, i, j, n) BY <1>4, <2>1, <2>5, <2>6, <2>7, <2>8 DEF KeptBeside, p
  <2> QED BY <2>9 DEF next
<1> QED BY <1>1, <1>7, <1>8, <1>9

LEMMA WithoutBlock ==
    ASSUME NEW text \in Seq(Tokens), NEW open, NEW close, NEW i \in 1..Len(text), NEW j \in 1..Len(text), i < j,
           Block(text, open, close, i, j), NEW said, Beside(said, text, i, j), Unpaired(said, open, close)
    PROVE  Without(text, open, close) = said
<1> DEFINE f == Searched(text, open, close)
           S == {n \in Nat : KeptBeside(f[n], text, said, open, i, j, n)}
           last == f[Len(text)]
<1>1. Len(text) \in Nat OBVIOUS
<1>2. 0 \in S
  <2>1. f[0].kept = <<>> /\ f[0].since = 0 BY SearchedSteps
  <2> HIDE DEF f
  <2>2. Len(<<>>) = 0 /\ <<>> \in Seq(Tokens) /\ 1..0 = {} OBVIOUS
  <2>3. 0 < i /\ 0 < j /\ ~(0 >= j) OBVIOUS
  <2>4. KeptBeside(f[0], text, said, open, i, j, 0) BY <2>1, <2>2, <2>3 DEF KeptBeside
  <2> QED BY <2>4
<1>3. ASSUME NEW n \in 1..Len(text), n - 1 \in S PROVE n \in S
  <2>1. n \in Nat \ {0} BY <1>1
  <2>2. f[n] = WithoutToken(f[n - 1], text[n], open, close) BY <2>1, SearchedSteps
  <2> HIDE DEF f
  <2>3. KeptBeside(f[n - 1], text, said, open, i, j, n - 1) BY <1>3
  <2>4. KeptBeside(f[n], text, said, open, i, j, n) BY <2>2, <2>3, KeptBesideStep
  <2> QED BY <2>1, <2>4
<1> HIDE DEF S
<1>4. Len(text) \in S BY <1>1, <1>2, <1>3, UpTo
<1>5. KeptBeside(last, text, said, open, i, j, Len(text)) BY <1>4 DEF S
<1>6. Without(text, open, close) = last.kept BY DEF Without
<1> HIDE DEF f, last
<1>7. Len(text) >= j OBVIOUS
<1>8. /\ last.kept \in Seq(Tokens) /\ Len(last.kept) = (Len(text) - j) + (i - 1)
      /\ \A m \in 1..((Len(text) - j) + (i - 1)) : last.kept[m] = said[m]
  BY <1>5, <1>7 DEF KeptBeside
<1>9. said \in Seq(Tokens) /\ Len(said) = (Len(text) - j) + (i - 1) BY DEF Beside
<1>10. last.kept = said BY <1>8, <1>9, SeqEqual
<1> QED BY <1>6, <1>10

LEMMA PresentingIsText ==
    ASSUME NEW text, NEW o, Presents(text, o)
    PROVE  text # <<>>
<1>1. \E i \in 1..Len(text) : TRUE BY DEF Presents, Holds
<1>2. Len(<<>>) = 0 /\ 1..0 = {} OBVIOUS
<1> QED BY <1>1, <1>2

LEMMA ThoughtStripped ==
    ASSUME NEW text \in Seq(Tokens), NEW o, Wraps(text, o)
    PROVE  /\ StripThink(text) \in Seq(Tokens) /\ Presents(StripThink(text), o)
           /\ text # <<>>
<1>1. CASE Says(text, o)
  <2>1. Without(text, "think", "unthink") = text BY <1>1, WithoutNothing DEF Says
  <2>2. StripThink(text) = text BY <2>1 DEF StripThink
  <2>3. Presents(text, o) BY <1>1 DEF Says
  <2> QED BY <2>2, <2>3, PresentingIsText
<1>2. CASE \E i \in 1..Len(text) :
             /\ text[i] = "think" /\ \A m \in 1..(i - 1) : text[m] # "think"
             /\ \E j \in (i + 1)..Len(text) :
                    /\ text[j] = "unthink" /\ \A m \in i..(j - 1) : text[m] # "unthink"
                    /\ Says(SubSeq(text, 1, i - 1) \o SubSeq(text, j + 1, Len(text)), o)
  <2>1. PICK i \in 1..Len(text) :
             /\ text[i] = "think" /\ \A m \in 1..(i - 1) : text[m] # "think"
             /\ \E j \in (i + 1)..Len(text) :
                    /\ text[j] = "unthink" /\ \A m \in i..(j - 1) : text[m] # "unthink"
                    /\ Says(SubSeq(text, 1, i - 1) \o SubSeq(text, j + 1, Len(text)), o)
    BY <1>2
  <2>2. PICK j \in (i + 1)..Len(text) :
             /\ text[j] = "unthink" /\ \A m \in i..(j - 1) : text[m] # "unthink"
             /\ Says(SubSeq(text, 1, i - 1) \o SubSeq(text, j + 1, Len(text)), o)
    BY <2>1
  <2> DEFINE said == SubSeq(text, 1, i - 1) \o SubSeq(text, j + 1, Len(text))
  <2>3. j \in 1..Len(text) /\ i < j OBVIOUS
  <2>4. Block(text, "think", "unthink", i, j) BY <2>1, <2>2 DEF Block
  <2>5. Beside(said, text, i, j) BY <2>3, SaidIs
  <2>6. Unpaired(said, "think", "unthink") /\ Presents(said, o) BY <2>2 DEF Says
  <2> HIDE DEF said
  <2>7. Without(text, "think", "unthink") = said BY <2>3, <2>4, <2>5, <2>6, WithoutBlock
  <2>8. said \in Seq(Tokens) /\ said # <<>> BY <2>5, <2>6, PresentingIsText DEF Beside
  <2>9. StripThink(text) = said BY <2>7, <2>8 DEF StripThink
  <2>10. text # <<>> BY <2>3
  <2> QED BY <2>6, <2>8, <2>9, <2>10
<1> QED BY <1>1, <1>2 DEF Wraps

\* Whatever the text, an object that it wraps into prose, a thought or a fence is
\* what the reader makes of it.
THEOREM WrappedObjectIsRead ==
    ASSUME NEW text \in Seq(Tokens), NEW o, IsObject(o), Wraps(text, o)
    PROVE  Read(text) = o
<1> DEFINE spoken == StripThink(text)
<1>1. spoken \in Seq(Tokens) /\ Presents(spoken, o) /\ text # <<>> BY ThoughtStripped
<1> HIDE DEF spoken
<1>2. StripFence(spoken) \in Seq(Tokens) /\ Holds(StripFence(spoken), o) BY <1>1, FenceStripped
<1>3. Normalized(text) = StripFence(spoken) BY DEF Normalized, spoken
<1> QED BY <1>1, <1>2, <1>3, HeldIsRead

-----------------------------------------------------------------------------
(* Requests that read what was wrapped *)

\* An object is what was read from the last reply; who asks for a repair has read
\* none, nor has a request that failed by itself, unless it found other fields in
\* it or had nobody to ask.
ReadInv ==
    /\ reply = NoReply \/ reply \in Replies
    /\ object # Unreadable => object = Read(reply)
    /\ step = "repair" => Read(reply) = Unreadable
    /\ outcome = "failed" =>
           raised \/ object # Unreadable \/ reply = NoReply \/ Read(reply) = Unreadable

LEMMA InitRead == Init => ReadInv
BY DEF Init, ReadInv

LEMMA NextRead == ReplyInv /\ ReadInv /\ [Next]_vars => ReadInv'
<1> SUFFICES ASSUME ReplyInv, ReadInv, [Next]_vars PROVE ReadInv'
  OBVIOUS
<1> USE DEF ReplyInv, ReadInv
<1>1. CASE BeginCase \/ BeginSuggestion \/ BeginDecision
  BY <1>1 DEF BeginCase, BeginSuggestion, BeginDecision, Start, GoOn, End
<1>2. ASSUME NEW blank \in BOOLEAN, BeginQuery(blank) PROVE ReadInv'
  BY <1>2 DEF BeginQuery, Start, GoOn, End
<1>3. ASSUME NEW r \in Replies, Summarise(r) PROVE ReadInv' BY <1>3 DEF Summarise
<1>4. ASSUME NEW r \in Replies, Ask(r) \/ Repair(r) PROVE ReadInv' BY <1>4 DEF Ask, Repair, Complete
<1>5. CASE CallRaises \/ RepairFails BY <1>5 DEF CallRaises, RepairFails, End
<1>6. CASE ToRepair BY <1>6 DEF ToRepair
<1>7. CASE UseForCase \/ UseForQuery \/ UseForSuggestion \/ UseForDecision
  <2>1. Validate BY <1>7 DEF UseForCase, UseForQuery, UseForSuggestion, UseForDecision
  <2>2. object' = Read(reply') /\ object' # Unreadable /\ reply' = reply BY <2>1 DEF Validate
  <2>3. step' # "repair"
    <3>1. CASE KeepProfile BY <3>1 DEF KeepProfile, End
    <3>2. CASE Answered BY <3>2 DEF Answered, End
    <3> QED BY <1>7, <3>1, <3>2 DEF UseForCase, UseForQuery, UseForSuggestion, UseForDecision
  <2> QED BY <2>2, <2>3
<1>8. CASE (\E n, m \in Lengths : StoreCase(n, m)) \/ CaseNotEmbedded \/ AnswerQuery
  BY <1>8 DEF StoreCase, CaseNotEmbedded, AnswerQuery, End
<1>9. CASE EmbedQuery BY <1>9 DEF EmbedQuery
<1>10. CASE Restart BY <1>10 DEF Restart
<1>11. CASE UNCHANGED vars BY <1>11 DEF vars
<1> QED BY <1>1, <1>2, <1>3, <1>4, <1>5, <1>6, <1>7, <1>8, <1>9, <1>10, <1>11 DEF Next

\* What the model wrapped is read as it was meant, by every request, at the
\* first attempt and after a repair.
THEOREM WrappedIsAlwaysRead == Spec => []WrappedIsRead
<1>1. Init => ReplyInv /\ ReadInv BY InitRead DEF Init, ReplyInv
<1>2. ReplyInv /\ ReadInv /\ [Next]_vars => (ReplyInv /\ ReadInv)' BY NextReplies, NextRead
<1>3. ReadInv => WrappedIsRead
  <2> SUFFICES ASSUME ReadInv, NEW o \in Objects, Wraps(reply, o)
               PROVE  /\ object \in {Unreadable, o}
                      /\ step # "repair"
                      /\ outcome = "failed" => raised \/ object = o
    BY DEF WrappedIsRead
  <2>1. IsObject(o) BY AccessAssumption
  <2>2. reply # NoReply /\ reply \in Seq(Tokens)
    <3>1. reply \in Seq(Tokens)
      <4>1. CASE reply \in Replies BY <4>1, ReplyType
      <4>2. CASE reply = NoReply
        <5>1. <<>> \in Seq(Tokens) OBVIOUS
        <5> QED BY <4>2, <5>1 DEF NoReply
      <4> QED BY <4>1, <4>2 DEF ReadInv
    <3> QED BY <3>1, ThoughtStripped DEF NoReply
  <2>3. Read(reply) = o BY <2>1, <2>2, WrappedObjectIsRead
  <2>4. o # Unreadable
    <3>1. <<>> \in Seq(Tokens) /\ ~(Len(<<>>) > 0) OBVIOUS
    <3>2. ~IsObject(<<>>) BY <3>1, ObjectCloses, Zenon
    <3> QED BY <2>1, <3>2, Zenon DEF Unreadable
  <2> QED BY <2>2, <2>3, <2>4 DEF ReadInv
<1> QED BY <1>1, <1>2, <1>3, PTL DEF Spec
=============================================================================
