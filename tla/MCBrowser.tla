------------------------------ MODULE MCBrowser ------------------------------
(* An instance of Browser for TLC: a journal question with two equal debits,*)
(* a choice question, and one whose type is judged by entries although its  *)
(* answer is a choice.  The name 3 is another way to write 1.               *)
EXTENDS Browser, TLC

CONSTANTS qj, qc, ql

MCNames == 0 .. 3
MCStandard == (0 :> 0) @@ (1 :> 1) @@ (2 :> 2) @@ (3 :> 1)

Row(n, a) == [account |-> n, amount |-> a]

MCWant ==
    (qj :> Payload("journal", <<Row(1, 5), Row(1, 5)>>, <<Row(2, 10)>>, ""))
        @@ (qc :> Payload("worksheet", << >>, << >>, "A"))
        @@ (ql :> Payload("ledger", << >>, << >>, "A"))

Rows == {Row(0, 0), Row(1, 5), Row(3, 5), Row(2, 10), Row(0, 5)}
Sides == {<<r, s>> : r, s \in Rows}

(* Entries with no choice, any debits with the right credits or the right   *)
(* debits with right and wrong credits; and choices with blank rows.        *)
NoRows == <<Row(0, 0), Row(0, 0)>>
MCForms ==
    [debits : Sides, credits : {<<Row(0, 0), Row(2, 10)>>}, choice : {""}]
    \cup [debits : {<<Row(3, 5), Row(1, 5)>>},
          credits : {<<Row(2, 10), Row(0, 0)>>, <<Row(2, 10), Row(2, 10)>>}, choice : {""}]
    \cup [debits : {NoRows}, credits : {NoRows}, choice : {"", "a", "A", "B"}]

ASSUME \A f \in MCForms : Len(f.debits) = FormRows /\ Len(f.credits) = FormRows

Symmetry == Permutations(Users) \cup Permutations(Tabs)
=============================================================================
