-------------------------------- MODULE SM2 --------------------------------
(***************************************************************************)
(* The spaced-repetition rule of internal/domain/srs: how one graded       *)
(* answer turns the learning state of a question into the next one.        *)
(* Time is counted in days.  The ease factor is kept in hundredths (the    *)
(* code's 2.5 is 250): every increment of the rule is a multiple of 0.01.  *)
(***************************************************************************)
EXTENDS Integers

Grades == 0..5
GradeWorst == 0
GradeSlow == 3
GradeGood == 4
GradePerfect == 5

MinEF == 130       \* the floor of the ease factor
InitialEF == 250

(* A row of srs_states without its key. *)
State == [ef : Nat, interval : Nat, rep : Nat, due : Nat, grade : Grades, updated : Nat]

(* The quality of an answer from its correctness and its duration in ms;   *)
(* a negative duration comes from a skewed clock.                          *)
GradeFromResult(correct, dur) ==
    IF ~correct THEN GradeWorst
    ELSE IF dur < 0 THEN GradeGood
    ELSE IF dur < 5000 THEN GradePerfect
    ELSE IF dur < 15000 THEN GradeGood
    ELSE GradeSlow

NewState(now) ==
    [ef |-> InitialEF, interval |-> 0, rep |-> 0, due |-> now,
     grade |-> GradeWorst, updated |-> now]

(* 100 * (0.1 - (5-g) * (0.08 + (5-g) * 0.02)) *)
EaseDelta(g) == 10 - (5 - g) * (8 + (5 - g) * 2)

(* Mutant: the factor has no floor. *)
NextEaseNoFloor(ef, g) == ef + EaseDelta(g)

NextEase(ef, g) ==
    IF ef + EaseDelta(g) > MinEF THEN ef + EaseDelta(g) ELSE MinEF

(* math.Round of hundredths / 100.  The code's factor is a float64 that    *)
(* carries the error of the additions that made it, so a tie may go either *)
(* way: both integers at distance one half are possible results.           *)
Rounded(hundredths) ==
    {r \in (hundredths \div 100) .. (hundredths \div 100 + 1) :
        /\ 100 * r - hundredths <= 50
        /\ hundredths - 100 * r <= 50}

(* The intervals Next may choose: reset on a failing grade, 1 then 6 days  *)
(* for the first two passes, then the previous interval times the factor   *)
(* the state had before this answer.                                       *)
NextIntervals(s, g) ==
    IF g < GradeSlow \/ s.rep = 0 THEN {1}
    ELSE IF s.rep = 1 THEN {6}
    ELSE Rounded(s.interval * s.ef)

(* Mutant: a failing grade takes one pass back. *)
NextRepStepBack(s, g) == IF g < GradeSlow THEN s.rep - 1 ELSE s.rep + 1

(* Mutant: a failing grade does not reset the passes. *)
NextRepNoReset(s, g) == s.rep + 1

NextRep(s, g) == IF g < GradeSlow THEN 0 ELSE s.rep + 1

(* srs.Next: every state the update of s by a grade g at time now may give. *)
Advance(s, g, now) ==
    {[ef |-> NextEase(s.ef, g), interval |-> i, rep |-> NextRep(s, g),
      due |-> now + i, grade |-> g, updated |-> now] : i \in NextIntervals(s, g)}

(* What a state that Advance produced satisfies: it is due after its       *)
(* interval, the factor is above its floor, the passes are counted since   *)
(* the last failing grade, and the k-th pass is at least 2k+2 days apart.  *)
Scheduled(s) ==
    /\ s.due = s.updated + s.interval
    /\ s.ef >= MinEF
    /\ s.interval >= 1
    /\ s.rep = 0 <=> s.grade < GradeSlow
    /\ s.rep >= 2 => s.interval >= 2 * s.rep + 2

(* What the rule needs of the state it advances: weaker than Scheduled, it *)
(* also holds of the state of a question never answered.                   *)
Advanceable(s) ==
    /\ s.ef >= MinEF
    /\ s.rep >= 2 => s.interval >= 2 * s.rep + 2
=============================================================================
