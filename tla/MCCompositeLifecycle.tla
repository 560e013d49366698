------------------------- MODULE MCCompositeLifecycle -------------------------
EXTENDS CompositeLifecycle, TLC

\* Nothing tells two requests or two sessions apart.
Symmetry == Permutations(Requests) \cup Permutations(Sessions)
===============================================================================
