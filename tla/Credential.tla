------------------------------ MODULE Credential ------------------------------
(***************************************************************************)
(* What the rest of the server relies on when it takes an id for its user: *)
(* an id is given out once, names at most one user from then on, and when  *)
(* it has ended is never accepted again.  The session table and the API's  *)
(* tokens keep this promise in Auth, and the sessions of Browser are of    *)
(* this kind.                                                              *)
(***************************************************************************)
CONSTANTS Ids, Users, Nobody

VARIABLES
    fresh,      \* ids that were never given out
    accepted    \* accepted[i]: the user that id i is accepted for, or Nobody

vars == <<fresh, accepted>>

Init ==
    /\ fresh = Ids
    /\ accepted = [i \in Ids |-> Nobody]

(* An id is given out, perhaps one that is accepted for nobody: a token    *)
(* that has expired already, or a number that is no session.               *)
Issue(i, user) ==
    /\ i \in fresh
    /\ fresh' = fresh \ {i}
    /\ accepted' = [accepted EXCEPT ![i] = user]

(* Some ids end: by a logout, a password change or the time.               *)
End(ended) ==
    /\ UNCHANGED fresh
    /\ accepted' = [i \in Ids |-> IF i \in ended THEN Nobody ELSE accepted[i]]

Next ==
    \/ \E ended \in SUBSET Ids : End(ended)
    \/ \E i \in Ids, user \in Users \cup {Nobody} : Issue(i, user)

Spec == Init /\ [][Next]_vars
=============================================================================
