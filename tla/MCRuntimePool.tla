---------------------------- MODULE MCRuntimePool ----------------------------
EXTENDS RuntimePool

\* Two requests share a runtime; the third joins them, or is for another server
\* of their session, or for a session whose end does not wait for its requests.
MCWants ==
    [c \in Callers |->
        {<<"drained", "A">>}
          \cup IF c = "c3" THEN {<<"drained", "B">>, <<"abrupt", "A">>} ELSE {}]
=============================================================================
