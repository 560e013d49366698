----------------------------- MODULE MCEventStorage -----------------------------
EXTENDS EventStorage, TLC

\* Two streams of one session.
OneSession == [s \in 1..2 |-> "session"]

\* A database is only known by what it holds.
Symmetry == Permutations(Clients) \cup Permutations(Stores)
=============================================================================
