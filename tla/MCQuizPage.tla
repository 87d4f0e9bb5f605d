----------------------------- MODULE MCQuizPage -----------------------------
(* An instance of QuizPage for TLC: a set of two questions, and one that    *)
(* has only one of them, so that the other can be due outside the set.      *)
EXTENDS QuizPage, TLC

CONSTANTS q1, q2, core, mock, cash, sales

TwoSets == (core :> <<q1, q2>>) @@ (mock :> <<q2>>)
Topics == (q1 :> cash) @@ (q2 :> sales)

(* A link without parameters, one that chooses a set and one for each mode *)
(* but srs, which is the mode of a user without a stored choice.           *)
Links ==
    {[set |-> Unset, mode |-> Unset], [set |-> mock, mode |-> Unset]}
        \cup {[set |-> Unset, mode |-> m] : m \in Modes \ {"srs"}}
=============================================================================
