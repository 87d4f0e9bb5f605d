------------------------------- MODULE MCBank -------------------------------
(* An instance of Bank for TLC.  Build b2 has one more migration than b1; it*)
(* has dropped the first question of b1, moved the second one to another set*)
(* and added one.                                                           *)
EXTENDS Bank

CONSTANTS b1, b2, qa, qb, qc, core, mock

MCMigrations == (b1 :> {1}) @@ (b2 :> {1, 2})

MCBank ==
    (b1 :> <<[code |-> qa, sets |-> {core}], [code |-> qb, sets |-> {core}]>>)
        @@ (b2 :> <<[code |-> qb, sets |-> {mock}], [code |-> qc, sets |-> {core}]>>)
=============================================================================
