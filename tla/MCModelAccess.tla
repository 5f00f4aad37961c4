--------------------------- MODULE MCModelAccess ---------------------------
(* Objects with braces, quotes, fences and thought in their strings, each in  *)
(* every wrapping and cut off, and texts that are no object at all.           *)
EXTENDS ModelAccess

Braced == <<"{", "quote", "{", "quote", "}">>
Quoted == <<"{", "quote", "escape", "quote", "}", "quote", "}">>
Nested == <<"{", "quote", "word", "quote", "{", "array", "}", "}">>
Fenced == <<"{", "quote", "fence", "word", "fence", "quote", "}">>
Thinking == <<"{", "quote", "think", "quote", "quote", "unthink", "quote", "}">>
Blank == <<"{", "quote", "quote", "}">>      \* what the reader makes of Thinking
MCObjects == {EmptyObject, Braced, Quoted, Nested, Fenced, Thinking, Blank}
Meant == MCObjects \ {Blank}

Spelled == [k \in {"area"} |-> <<"a", "A", "b">>]
MCPayload == [o \in MCObjects |->
    CASE o = EmptyObject -> [shape |-> "other", profile |-> NoProfile]
      [] o = Nested -> [shape |-> "nulls", profile |-> NoProfile]
      [] o = Quoted -> [shape |-> "wrong", profile |-> NoProfile]
      [] OTHER -> [shape |-> "fits", profile |-> Spelled]]

Thought == <<"think", "word", "{", "quote", "unthink">>
Wrapped(o) == {o, <<"word", "quote">> \o o, o \o <<"}", "word">>, <<"fence">> \o o \o <<"fence", "word">>,
               Thought \o o, <<"word">> \o Thought \o o, Thought \o <<"word", "fence">> \o o \o <<"fence">>, <<"think">> \o o}
MCReplies ==
    UNION {Wrapped(o) \cup {Front(o)} : o \in Meant}
        \cup {<<>>, <<"array">>, <<"fence", "fence">>, <<"fence", "fence", "word", "fence">>,
               Thought, <<"word", "{", "word">> \o Braced,
               <<"quote">> \o EmptyObject \o <<"quote">>}

\* The property is about each wrapping of the objects without marks of the reader.
ASSUME Wrapping == \A o \in {EmptyObject, Braced, Quoted, Nested} : \A t \in Wrapped(o) : Wraps(t, o)

MCLower == [v \in Values |-> IF v = "A" THEN "a" ELSE v]
=============================================================================
