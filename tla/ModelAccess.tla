---------------------------- MODULE ModelAccess ----------------------------
(***************************************************************************)
(* One process as the caller of its two external services: the language    *)
(* model (internal/infrastructure/ai/openai_client, generation, and        *)
(* runtime/llm/model_adapter) and the embeddings (infrastructure/ai/       *)
(* embedding), for the four requests that use them: case input, query,     *)
(* schema suggestion and the decision of an agent run.  The services may   *)
(* answer anything or raise at every call.  Requests run one at a time:    *)
(* none of the calls suspends the event loop.                              *)
(***************************************************************************)
EXTENDS ModelReply

CONSTANTS Keys, Values,    \* of profiles
          Lower,           \* str.lower of a value
          Definitions,     \* the keys of the facet schema
          Limit,           \* _dedupe(limit=8)
          Objects,         \* the objects a model answers with
          Payload,         \* what the fields of an object say
          Replies,         \* texts it answers with
          Lengths,         \* of the vectors that the service returns
          Configured,      \* EmbeddingConfig.dimensions, 0 if the first vector decides
          MaxRequests, MaxRestarts

ASSUME AccessAssumption ==
    /\ Lower \in [Values -> Values] /\ Definitions \subseteq Keys
    /\ Limit \in Nat \ {0} /\ Configured \in Nat /\ Lengths \subseteq Nat
    /\ \A o \in Objects : /\ IsObject(o) /\ Payload[o].shape \in {"fits", "nulls", "wrong", "other"}
                          /\ \A k \in DOMAIN Payload[o].profile : Payload[o].profile[k] \in Seq(Values)
    /\ \A r \in Replies : r \in Seq(Tokens) /\ Read(r) \in Objects \cup {Unreadable}
    /\ MaxRequests \in Nat /\ MaxRestarts \in Nat

VARIABLES
    client,       \* the configuration gives a client for the model
    kind, step,   \* the request and what it does next
    calls,        \* completions it asked for
    reply,        \* the last reply of the model
    object,       \* the object read from it
    summary, profile,
    raised,       \* a service raised
    outcome,      \* "none", "done", "failed" or "lost"
    dimensions,   \* of the embedding provider, 0 while unknown
    stored,       \* lengths of the vectors of the stored cases
    requests, restarts

vars == <<client, kind, step, calls, reply, object, summary, profile, raised, outcome,
          dimensions, stored, requests, restarts>>
extracted == <<summary, profile>>
vectors == <<dimensions, stored>>

NoReply == <<>>
NoProfile == [k \in {} |-> <<>>]

Init ==
    /\ client \in BOOLEAN
    /\ kind = "none" /\ step = "idle" /\ outcome = "none"
    /\ calls = 0 /\ reply = NoReply /\ object = Unreadable
    /\ summary = <<>> /\ profile = NoProfile /\ raised = FALSE
    /\ dimensions = Configured /\ stored = {}
    /\ requests = 0 /\ restarts = 0

-----------------------------------------------------------------------------
(* What the callers make of an object *)

\* The missing fields of a payload take their defaults; null is a default for
\* the decision parser only.
Fits(k, o) == Payload[o].shape \in {"fits", "other"} \/ (k = "decision" /\ Payload[o].shape = "nulls")

Keep(s, v) == IF (\E w \in ToSet(s) : Lower[w] = Lower[v]) \/ Len(s) >= Limit THEN s ELSE Append(s, v)

Kept(values) ==
    LET upTo[n \in Nat] == IF n = 0 THEN <<>> ELSE Keep(upTo[n - 1], values[n]) IN upTo

\* _dedupe: the first spelling of a value, at most Limit of them.
Dedupe(values) == Kept(values)[Len(values)]

\* ensure_partition_profile_keys and _sanitize_result.
Sanitized(raw) ==
    [k \in DOMAIN raw \cup Definitions |-> IF k \in DOMAIN raw THEN Dedupe(raw[k]) ELSE <<>>]

RawProfile(o) == IF Payload[o].shape = "other" THEN NoProfile ELSE Payload[o].profile

-----------------------------------------------------------------------------
(* Requests *)

End(how) == step' = "idle" /\ outcome' = how

\* _build_client gives none without a key; the request that needs it fails.
GoOn(s) == IF client THEN step' = s /\ outcome' = "none" ELSE End("failed")

Start(k) ==
    /\ step = "idle"
    /\ requests < MaxRequests
    /\ requests' = requests + 1
    /\ kind' = k /\ calls' = 0 /\ reply' = NoReply /\ object' = Unreadable
    /\ summary' = <<>> /\ raised' = FALSE
    /\ UNCHANGED <<client, vectors, restarts>>

\* The validator refuses a case without content.
BeginCase == Start("ingest") /\ profile' = NoProfile /\ GoOn("summary")

\* A query without text asks nobody.
BeginQuery(blank) ==
    /\ Start("query")
    /\ IF blank THEN profile' = Sanitized(NoProfile) /\ step' = "embed" /\ outcome' = "none"
       ELSE profile' = NoProfile /\ GoOn("ask")

BeginSuggestion == Start("suggest") /\ profile' = NoProfile /\ GoOn("ask")

\* The adapter of an agent run exists only with a client.
BeginDecision == client /\ Start("decision") /\ profile' = NoProfile /\ GoOn("ask")

\* create_text_chat for the summary.
Summarise(r) ==
    /\ step = "summary"
    /\ calls' = calls + 1
    /\ summary' = Summary(r)
    /\ step' = "ask"
    /\ UNCHANGED <<client, kind, reply, object, profile, raised, outcome, vectors, requests, restarts>>

Complete(r) ==
    /\ calls' = calls + 1
    /\ reply' = r
    /\ object' = Unreadable
    /\ UNCHANGED <<client, kind, extracted, raised, outcome, vectors, requests, restarts>>

\* create_chat: the completion.
Ask(r) == step = "ask" /\ step' = "read" /\ Complete(r)

\* _repair_content_json: one more completion, as text.
Repair(r) == step = "repair" /\ step' = "reread" /\ Complete(r)

\* The OpenAI client raises; nobody repairs that.
CallRaises ==
    /\ step \in {"summary", "ask", "repair"}
    /\ calls' = calls + 1
    /\ raised' = TRUE
    /\ End("failed")
    /\ UNCHANGED <<client, kind, reply, object, extracted, vectors, requests, restarts>>

ToRepairTwice ==                     \* mutant: the repair is repaired
    /\ step \in {"read", "reread"}
    /\ Read(reply) = Unreadable
    /\ step' = "repair"
    /\ UNCHANGED <<client, kind, calls, reply, object, extracted, raised, outcome, vectors, requests, restarts>>

ToRepair ==
    /\ step = "read"
    /\ Read(reply) = Unreadable
    /\ step' = "repair"
    /\ UNCHANGED <<client, kind, calls, reply, object, extracted, raised, outcome, vectors, requests, restarts>>

RepairFails ==
    /\ step = "reread"
    /\ Read(reply) = Unreadable
    /\ End("failed")
    /\ UNCHANGED <<client, kind, calls, reply, object, extracted, raised, vectors, requests, restarts>>

\* model_validate, outside the repair.
Validate ==
    /\ step \in {"read", "reread"}
    /\ Read(reply) # Unreadable
    /\ object' = Read(reply)
    /\ UNCHANGED <<client, kind, calls, reply, summary, raised, vectors, requests, restarts>>

KeepProfile ==
    IF Fits(kind, object') THEN profile' = Sanitized(RawProfile(object')) /\ step' = "embed" /\ outcome' = outcome
    ELSE End("failed") /\ profile' = profile

UseForCase == kind = "ingest" /\ Validate /\ KeepProfile
UseForQuery == kind = "query" /\ Validate /\ KeepProfile

\* The suggestion and the draft of a decision are the object itself.
Answered == End(IF Fits(kind, object') THEN "done" ELSE "failed") /\ profile' = profile

UseForSuggestion == kind = "suggest" /\ Validate /\ Answered
UseForDecision == kind = "decision" /\ Validate /\ Answered

-----------------------------------------------------------------------------
(* Embeddings *)

\* _coerce_vector: the first vector that is not empty decides, unless the
\* configuration has.
Learned(d, n) == IF d = 0 THEN n ELSE d

AcceptsAny(d, n) == TRUE             \* mutant: no check of the dimension
Accepts(d, n) == d = 0 \/ n = d

\* A case is stored with the vector of its search text and that of its content.
StoreCase(n, m) ==
    /\ step = "embed" /\ kind = "ingest"
    /\ Accepts(dimensions, n) /\ Accepts(Learned(dimensions, n), m)
    /\ dimensions' = Learned(Learned(dimensions, n), m)
    /\ stored' = stored \cup {n, m}
    /\ End("done")
    /\ UNCHANGED <<client, kind, calls, reply, object, extracted, raised, requests, restarts>>

\* One of them is refused, or the service fails: no case is stored.
CaseNotEmbedded ==
    /\ step = "embed" /\ kind = "ingest"
    /\ raised' = TRUE
    /\ dimensions' \in {dimensions} \cup {Learned(dimensions, n) : n \in Lengths}
    /\ End("failed")
    /\ UNCHANGED <<client, kind, calls, reply, object, extracted, stored, requests, restarts>>

\* A query goes on without its vector, whatever the service did.
EmbedQuery ==
    /\ step = "embed" /\ kind = "query"
    /\ dimensions' \in {dimensions} \cup {Learned(dimensions, n) : n \in Lengths}
    /\ step' = "answer"
    /\ UNCHANGED <<client, kind, calls, reply, object, extracted, raised, outcome, stored, requests, restarts>>

\* Recording its statistics may fail, which is logged; the recall of the cases
\* is CaseQuery!IsAnswer and the answer agent is a stub.
AnswerQuery ==
    /\ step = "answer"
    /\ End("done")
    /\ UNCHANGED <<client, kind, calls, reply, object, extracted, raised, vectors, requests, restarts>>

Restart ==
    /\ restarts < MaxRestarts
    /\ restarts' = restarts + 1
    /\ step' = "idle"
    /\ outcome' = IF step = "idle" THEN outcome ELSE "lost"
    /\ dimensions' = Configured
    /\ UNCHANGED <<client, kind, calls, reply, object, extracted, raised, stored, requests>>

Next ==
    \/ BeginCase \/ BeginSuggestion \/ BeginDecision
    \/ \E blank \in BOOLEAN : BeginQuery(blank)
    \/ \E r \in Replies : Summarise(r) \/ Ask(r) \/ Repair(r)
    \/ CallRaises \/ ToRepair \/ RepairFails
    \/ UseForCase \/ UseForQuery \/ UseForSuggestion \/ UseForDecision
    \/ \E n, m \in Lengths : StoreCase(n, m)
    \/ CaseNotEmbedded \/ EmbedQuery \/ AnswerQuery
    \/ Restart

Spec == Init /\ [][Next]_vars

-----------------------------------------------------------------------------
(* Properties *)

\* An object that the model wrapped into prose, a thought or a fence is read as
\* it was meant, at the first attempt and after a repair: no other object, no
\* default and no error.  Not promised for an object with a complete thought or
\* two fences in its strings, which the reader takes for its own marks
\* (openai_client.py:227-345).
WrappedIsRead ==
    \A o \in Objects : Wraps(reply, o) =>
        /\ object \in {Unreadable, o}
        /\ step # "repair"
        /\ outcome = "failed" => raised \/ object = o

\* A request asks at most once for a repair.  If it is done, its profile has
\* every key of the schema and each value that the last reply gives, in one
\* spelling, up to the limit; if it fails, a service raised, there was no client,
\* or the last reply has no object of the fields it needs.  A summary shows no
\* complete thought and no fenced text.
AnswerIsUsed ==
    /\ calls <= IF kind = "ingest" THEN 3 ELSE 2
    /\ outcome = "done" /\ kind \in {"ingest", "query"} =>
           /\ Definitions \subseteq DOMAIN profile
           /\ \A k \in DOMAIN profile :
                  /\ Len(profile[k]) <= Limit
                  /\ \A i, j \in DOMAIN profile[k] : Lower[profile[k][i]] = Lower[profile[k][j]] => i = j
                  /\ Len(profile[k]) < Limit /\ object # Unreadable /\ k \in DOMAIN RawProfile(object) =>
                         {Lower[v] : v \in ToSet(RawProfile(object)[k])} = {Lower[v] : v \in ToSet(profile[k])}
    /\ Unpaired(summary, "think", "unthink") /\ Unpaired(summary, "fence", "fence")
    /\ outcome = "failed" =>
           ~client \/ raised \/ object = Unreadable \/ ~Fits(kind, object)

\* Vectors of stored cases can be compared: those that are not empty have one
\* length, that of the provider.  Without a configured dimension only until the
\* process restarts, which forgets what the first vector decided.
StoredVectorsAgree ==
    restarts = 0 \/ Configured # 0 => \A n \in stored : n \in {0, dimensions}
=============================================================================
