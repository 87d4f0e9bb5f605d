------------------------------- MODULE Grading -------------------------------
(* How an answer is judged: what the quiz page lets a user enter,           *)
(* buildAnswerFromForm and grading.IsCorrect, and beside them what a right  *)
(* answer is, stated without them.  An account name is a number, in the     *)
(* order of the names; 0 is the empty name.                                 *)
EXTENDS Integers, Sequences, SequencesExt, FiniteSets

CONSTANTS
    Names,      \* account names as users write them, 0 among them
    Standard    \* Standard[n]: what accounts.Normalize makes of the name n

ASSUME GradingAssumption ==
    /\ Names \subseteq Nat /\ 0 \in Names
    /\ Standard \in [Names -> Names] /\ Standard[0] = 0

EntryTypes == {"journal", "ledger", "slip"}
ChoiceTypes == {"subbook", "trial_balance", "worksheet", "fs"}
QuestionType == EntryTypes \cup ChoiceTypes

(* domain.AnswerPayload; Text, which nothing fills, is left out.  A choice  *)
(* is a letter as typed, "" when the field was left empty.                  *)
Payload(type, debits, credits, choice) ==
    [type |-> type, debits |-> debits, credits |-> credits, choice |-> choice]

Upper(c) == CASE c = "a" -> "A" [] c = "b" -> "B" [] OTHER -> c

-----------------------------------------------------------------------------
(* grading.go *)
Entry == [account : Names, amount : Int]
IsBlank(e) == e.account = 0 /\ e.amount = 0
Before(e, f) == \/ e.account < f.account
                \/ e.account = f.account /\ e.amount < f.amount
Renamed(s) == [i \in DOMAIN s |-> [s[i] EXCEPT !.account = Standard[@]]]

Filled(s) == {i \in DOMAIN s : ~IsBlank(s[i])}

(* The entries of s that are not blank, in an order in which none comes     *)
(* after one that it precedes.                                              *)
Arranged(s, precedes) ==
    LET n == Cardinality(Filled(s))
        order == CHOOSE p \in Bijection(1 .. n, Filled(s)) :
                     \A i, j \in 1 .. n : i < j => <<p[j], p[i]>> \notin precedes
    IN  [i \in 1 .. n |-> s[order[i]]]

Sorting(s) == {x \in Filled(s) \X Filled(s) : Before(s[x[1]], s[x[2]])}
Normalized(s) == Arranged(Renamed(s), Sorting(Renamed(s)))

(* Mutant: entries are compared without how often each occurs.              *)
EntrySetEqualOnce(a, b) == ToSet(Normalized(a)) = ToSet(Normalized(b))

EntrySetEqual(a, b) == Normalized(a) = Normalized(b)

IsCorrect(want, got) ==
    /\ want.type = got.type
    /\ IF want.type \in EntryTypes
       THEN EntrySetEqual(want.debits, got.debits)
            /\ EntrySetEqual(want.credits, got.credits)
       ELSE Upper(want.choice) = Upper(got.choice)

-----------------------------------------------------------------------------
(* The form of quiz.html has two rows on each side for a journal question,  *)
(* and one field for every other type.  readEntries skips a blank row.      *)
FormRows == 2
AsEntered(rows) == {x \in Filled(rows) \X Filled(rows) : x[1] < x[2]}
ReadEntries(rows) == Arranged(rows, AsEntered(rows))
BuildAnswerFromForm(type, form) ==
    IF type = "journal"
    THEN Payload(type, ReadEntries(form.debits), ReadEntries(form.credits), "")
    ELSE Payload(type, << >>, << >>, form.choice)

-----------------------------------------------------------------------------
(* What is right: each side has the same entries, each as often, whatever   *)
(* the order, the blank rows and the way an account is written; a choice is *)
(* the letter, in either case.  A question of the bank asks for one or the  *)
(* other: choiceQuestion builds answers without entries.                    *)
Occurrences(s, e) ==
    Cardinality({i \in DOMAIN s : Standard[s[i].account] = e.account
                                  /\ s[i].amount = e.amount})
SameEntries(a, b) ==
    \A e \in {x \in ToSet(Renamed(a)) \cup ToSet(Renamed(b)) : ~IsBlank(x)} :
        Occurrences(a, e) = Occurrences(b, e)
IsRight(want, form) ==
    IF want.choice = ""
    THEN SameEntries(want.debits, form.debits)
         /\ SameEntries(want.credits, form.credits)
    ELSE form.choice # "" /\ Upper(want.choice) = Upper(form.choice)
=============================================================================
