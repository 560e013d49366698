-------------------------- MODULE MCFrontendRequests --------------------------
EXTENDS FrontendRequests, TLC

Config(tools, search, scoped, defer) ==
    [tools |-> tools, search |-> search, scoped |-> scoped, defer |-> defer]

MCDefault == Config({"a"}, FALSE, FALSE, FALSE)
MCConfigs ==
    {MCDefault, Config({"a", "b"}, TRUE, TRUE, TRUE)}
Symmetry == Permutations(Posts) \cup Permutations(Listeners)
=============================================================================
