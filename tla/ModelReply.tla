---------------------------- MODULE ModelReply ----------------------------
(***************************************************************************)
(* How the text of a language model becomes an object: the tolerant reader *)
(* of internal/infrastructure/ai/openai_client (think blocks, code fences, *)
(* first balanced object) and the cleaning of a summary                    *)
(* (internal/domain/case/summary_extractor).  A text is a sequence of      *)
(* tokens; what separates the members of an object is left out, so that an *)
(* object is a balanced sequence of strings, arrays and objects.           *)
(***************************************************************************)
EXTENDS Integers, FiniteSets, Sequences, SequencesExt

\* "escape" is a backslash, "word" any text that JSON allows in strings only,
\* "array" a JSON value that is no object.
Tokens == {"{", "}", "quote", "escape", "fence", "think", "unthink", "word", "array"}

Unreadable == <<>>
EmptyObject == <<"{", "}">>

FirstOf(positions) == CHOOSE i \in positions : \A j \in positions : i <= j

\* A search takes over the token c; since is where its open block begins.
WithoutToken(s, c, open, close) ==
    IF s.since # 0 /\ c = close THEN [kept |-> SubSeq(s.kept, 1, s.since - 1), since |-> 0]
    ELSE [kept |-> Append(s.kept, c),
          since |-> IF s.since = 0 /\ c = open THEN Len(s.kept) + 1 ELSE s.since]

Searched(text, open, close) ==
    LET upTo[n \in Nat] == IF n = 0 THEN [kept |-> <<>>, since |-> 0]
                           ELSE WithoutToken(upTo[n - 1], text[n], open, close)
    IN  upTo

\* re.sub of open.*?close by nothing: an open without a close stays.
Without(text, open, close) == Searched(text, open, close)[Len(text)].kept

\* _strip_think_tags: a reply that is nothing but thought is kept.
StripThink(text) ==
    LET rest == Without(text, "think", "unthink") IN IF rest = <<>> THEN text ELSE rest

\* _strip_markdown_code_fence: what the first pair of fences holds, wherever it
\* stands; else the lines between a first and a last line that are fences, where
\* a fence has a line to itself.
StripFence(text) ==
    LET fences == {i \in DOMAIN text : text[i] = "fence"}
        first == FirstOf(fences)
        second == FirstOf(fences \ {first})
    IN  IF Cardinality(fences) >= 2 /\ second > first + 1 THEN SubSeq(text, first + 1, second - 1)
        ELSE IF Len(text) >= 3 /\ Head(text) = "fence" /\ Last(text) = "fence" THEN Front(Tail(text))
        ELSE text

Normalized(text) == StripFence(StripThink(text))

-----------------------------------------------------------------------------
(* json.loads, and the scanner for text that is no JSON *)

\* The state of a reader: in a string, behind a backslash, the depth of braces,
\* whether the outermost object is closed, and whether JSON allows all so far.
Read0 == [string |-> FALSE, escape |-> FALSE, depth |-> 0, closed |-> FALSE, legal |-> TRUE]

ReadToken(s, c) ==
    IF s.string
    THEN [s EXCEPT !.escape = ~@ /\ c = "escape",
                   !.string = s.escape \/ c # "quote",
                   !.legal = @ /\ (s.escape => c \in {"quote", "escape", "word"})]
    ELSE [s EXCEPT !.string = c = "quote",
                   !.depth = CASE c = "{" -> @ + 1 [] c = "}" -> @ - 1 [] OTHER -> @,
                   !.closed = @ \/ (c = "}" /\ s.depth = 1),
                   !.legal = /\ @ /\ ~s.closed
                             /\ c \in {"{", "}", "quote", "array"}
                             /\ c = "{" \/ s.depth > 0]

\* The state behind each token.
Reading(text) ==
    LET upTo[n \in Nat] == IF n = 0 THEN Read0 ELSE ReadToken(upTo[n - 1], text[n]) IN upTo

IsObject(text) == LET end == Reading(text)[Len(text)] IN end.legal /\ end.closed

\* One string from the first quote to the last, with the escapes JSON allows.
IsString(text) ==
    /\ Len(text) >= 2 /\ text[1] = "quote" /\ text[Len(text)] = "quote"
    /\ \A n \in 1..Len(text) : Reading(text)[n].string <=> n < Len(text)
    /\ \A n \in 2..Len(text) :
          Reading(text)[n - 1].escape => text[n] \in {"quote", "escape", "word"}

\* _extract_first_json_object: from the first brace to the one that balances it.
ScanNoStrings(text) ==               \* mutant: braces in strings count
    LET braces == {i \in DOMAIN text : text[i] = "{"}
        rest == SubSeq(text, FirstOf(braces), Len(text))
        Count(c, n) == Cardinality({i \in 1..n : rest[i] = c})
        ends == {n \in DOMAIN rest : Count("{", n) = Count("}", n)}
    IN  IF braces = {} \/ ends = {} THEN Unreadable ELSE SubSeq(rest, 1, FirstOf(ends))

FirstObject(text) ==
    LET braces == {i \in DOMAIN text : text[i] = "{"}
        rest == SubSeq(text, FirstOf(braces), Len(text))
        ends == {n \in DOMAIN rest : Reading(rest)[n].closed}
    IN  IF braces = {} \/ ends = {} THEN Unreadable ELSE SubSeq(rest, 1, FirstOf(ends))

\* _extract_content_json.  No text is an empty object, without an error; JSON
\* that is no object is an error, without a search.
Read(text) ==
    LET normalized == Normalized(text)
        found == FirstObject(normalized)
    IN  CASE text = <<>> -> EmptyObject
          [] IsObject(normalized) -> normalized
          [] normalized = <<"array">> \/ IsString(normalized) -> Unreadable
          [] OTHER -> IF IsObject(found) THEN found ELSE Unreadable

-----------------------------------------------------------------------------
(* Summaries *)

\* _sanitize_result: thought and fenced text go, and then a tag at the start.
Summary(text) ==
    LET rest == Without(Without(text, "think", "unthink"), "fence", "fence")
    IN  IF rest # <<>> /\ Head(rest) \in {"think", "unthink"} THEN Tail(rest) ELSE rest

-----------------------------------------------------------------------------
(* What a text gives to read, said without the reader                        *)

\* No complete thought, and no two fences.
Unpaired(text, open, close) == \A i, j \in 1..Len(text) : i < j => ~(text[i] = open /\ text[j] = close)

\* The first brace of the text begins the object, and the text is not quoted as a
\* whole: a JSON string is JSON, whatever stands in it.
Holds(text, o) ==
    \E i \in 1..Len(text) :
        /\ \A m \in 1..(i - 1) : text[m] # "{"
        /\ \E j \in i..Len(text) : SubSeq(text, i, j) = o
        /\ ~(text[1] = "quote" /\ text[Len(text)] = "quote")

\* It stands between the first two fences, or there are no two.
Presents(text, o) ==
    \/ Unpaired(text, "fence", "fence") /\ Holds(text, o)
    \/ \E f, g \in 1..Len(text) :
           /\ f < g /\ text[f] = "fence" /\ text[g] = "fence"
           /\ \A m \in 1..(g - 1) : text[m] = "fence" => m = f
           /\ Holds(SubSeq(text, f + 1, g - 1), o)

Says(text, o) == Unpaired(text, "think", "unthink") /\ Presents(text, o)

\* It says so as it is, or when its one thought is taken out.
Wraps(text, o) ==
    \/ Says(text, o)
    \/ \E i \in 1..Len(text) :
           /\ text[i] = "think" /\ \A m \in 1..(i - 1) : text[m] # "think"
           /\ \E j \in (i + 1)..Len(text) :
                  /\ text[j] = "unthink" /\ \A m \in i..(j - 1) : text[m] # "unthink"
                  /\ Says(SubSeq(text, 1, i - 1) \o SubSeq(text, j + 1, Len(text)), o)
=============================================================================
