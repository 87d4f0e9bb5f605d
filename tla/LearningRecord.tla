--------------------------- MODULE LearningRecord ---------------------------
(***************************************************************************)
(* What a user is promised of the learning record: an answer is written to *)
(* the history and counted in the learning state of its question in one    *)
(* step, the whole record is cleared in one step, and a release forgets    *)
(* the states of the questions it drops in one step.  Learning implements  *)
(* this when the requests of the server do not overlap and do not fail.    *)
(***************************************************************************)
EXTENDS SM2

CONSTANTS Users, Questions, NoState

VARIABLES
    history,    \* the entries [nth, answer] that were not erased
    state       \* state[u][q]: the learning state, or NoState

vars == <<history, state>>

Init ==
    /\ history = {}
    /\ state = [u \in Users |-> [q \in Questions |-> NoState]]

(* The grades that the correctness of an answer leaves open.               *)
GradesOf(correct) == IF correct THEN GradeSlow .. GradePerfect ELSE {GradeWorst}

(* The answer is counted: the state is what the SM-2 rule makes of the one *)
(* before, at the time of the answer.                                      *)
Counted(u, q, correct, at) ==
    LET s == IF state[u][q] = NoState THEN NewState(at) ELSE state[u][q]
    IN  \E g \in GradesOf(correct) : \E t \in Advance(s, g, at) :
            state' = [state EXCEPT ![u][q] = t]

Record ==
    \E e \in history' \ history :
        /\ history' = history \cup {e}
        /\ Counted(e.answer.user, e.answer.question, e.answer.correct, e.answer.at)

(* Another tab of the user has deleted the entry while it was recorded.    *)
RecordErased ==
    \E u \in Users, q \in Questions, correct \in BOOLEAN :
        /\ state'[u][q] # NoState
        /\ Counted(u, q, correct, state'[u][q].updated)
        /\ UNCHANGED history

Erase ==
    /\ \E e \in history : history' = history \ {e}
    /\ UNCHANGED state

Clear ==
    \E u \in Users :
        /\ history' = {e \in history : e.answer.user # u}
        /\ state' = [state EXCEPT ![u] = [q \in Questions |-> NoState]]

Release ==
    /\ \E kept \in SUBSET Questions :
          state' = [u \in Users |->
                      [q \in Questions |-> IF q \in kept THEN state[u][q] ELSE NoState]]
    /\ UNCHANGED history

Next == Record \/ RecordErased \/ Erase \/ Clear \/ Release

Spec == Init /\ [][Next]_vars
=============================================================================
