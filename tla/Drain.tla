--------------------------------- MODULE Drain ---------------------------------
(***************************************************************************)
(* What Composite promises of its life (composite.go): users are admitted  *)
(* while it is open and may bring in others until they leave; resources    *)
(* are acquired by users only; Close first waits for every user and only   *)
(* then lets the resources go, after which neither users nor resources     *)
(* appear again. CompositeLifecycle implements it.                         *)
(***************************************************************************)
VARIABLES
    phase,  \* "new" in New, "open", "draining" in Close, "released"
    users,  \* whoever may still use resources
    held    \* the resources that are open

vars == <<phase, users, held>>

Init ==
    /\ phase = "new"
    /\ users = {}
    /\ held = {}

\* New returns a composite, or fails and keeps nothing.
Open ==
    /\ phase = "new"
    /\ phase' = "open"
    /\ UNCHANGED <<users, held>>

Fail ==
    /\ phase = "new"
    /\ phase' = "released"
    /\ held' = {}
    /\ UNCHANGED users

\* Admission, and a user that brings in another.
Enter ==
    /\ phase = "open" \/ (phase = "draining" /\ users # {})
    /\ users \subseteq users'
    /\ UNCHANGED <<phase, held>>

Leave ==
    /\ users' \subseteq users
    /\ UNCHANGED <<phase, held>>

Hold ==
    /\ phase = "new" \/ (phase # "released" /\ users # {})
    /\ held \subseteq held'
    /\ UNCHANGED <<phase, users>>

LetGo ==
    /\ held' \subseteq held
    /\ UNCHANGED <<phase, users>>

BeginDrain ==
    /\ phase = "open"
    /\ phase' = "draining"
    /\ UNCHANGED <<users, held>>

Release ==
    /\ phase = "draining"
    /\ users = {}
    /\ phase' = "released"
    /\ UNCHANGED <<users, held>>

Next == Open \/ Fail \/ Enter \/ Leave \/ Hold \/ LetGo \/ BeginDrain \/ Release

Spec == Init /\ [][Next]_vars
================================================================================
