---------------------------- MODULE MCSearchIndex ----------------------------
EXTENDS SearchIndex

Tool(component, definition) ==
    [component |-> component, original |-> "t", definition |-> definition]

\* Three tools, one of them known to the query by its exact name only; and what
\* may replace them: one in other hands, one of another definition, one gone.
Before ==
    [tools |-> [n \in {"a", "b", "z"} |-> Tool("one", "old")],
      ranking |-> [t \in {"words", "z"} |-> <<"b", "a">>]]
After ==
    [tools |-> [n \in {"a", "z"} |->
                    IF n = "a" THEN Tool("two", "old") ELSE Tool("one", "new")],
      ranking |-> [t \in {"words", "z"} |-> <<"a", "z">>]]
MCContents == <<Before, After, Before>>

\* One client walks page by page, the arguments of the other are refused.
Ask(who, text, limit) == [client |-> who, text |-> text, limit |-> limit]
MCAsks == {Ask("walker", "words", 0), Ask("walker", "z", 2),
           Ask("other", "words", -1)}
=============================================================================
