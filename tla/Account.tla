------------------------------- MODULE Account -------------------------------
(***************************************************************************)
(* What a user is promised of an account: a password change takes one      *)
(* step, in which every session of the user ends but the one it was made   *)
(* from, and a session is opened by who knows the password of that moment. *)
(* Auth implements this with requests that overlap and fail, for all       *)
(* sessions but those that the deletion of a password change missed.       *)
(***************************************************************************)
EXTENDS Naturals

CONSTANTS Users, Ids, Nobody

VARIABLES
    version,    \* version[u]: how often u has changed the password
    open        \* open[i]: the user of session i and the version known there, or Nobody

vars == <<version, open>>

Init ==
    /\ version = [u \in Users |-> 0]
    /\ open = [i \in Ids |-> Nobody]

SessionsOf(u) == {i \in Ids : open[i] # Nobody /\ open[i].user = u}

Open(u, i) ==
    /\ open[i] = Nobody
    /\ open' = [open EXCEPT ![i] = [user |-> u, knows |-> version[u]]]
    /\ UNCHANGED version

(* Sessions end by a logout or by the time, or can no longer be counted on. *)
End(ended) ==
    /\ UNCHANGED version
    /\ open' = [i \in Ids |-> IF i \in ended THEN Nobody ELSE open[i]]

Change(u, keep) ==
    /\ version' = [version EXCEPT ![u] = @ + 1]
    /\ open' = [i \in Ids |->
                  IF i \notin SessionsOf(u) THEN open[i]
                  ELSE IF i = keep THEN [user |-> u, knows |-> version[u] + 1] ELSE Nobody]

Next ==
    \/ \E ended \in SUBSET Ids : End(ended)
    \/ \E u \in Users, i \in Ids : Open(u, i) \/ Change(u, i)

Spec == Init /\ [][Next]_vars
=============================================================================
