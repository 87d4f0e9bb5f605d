------------------------------ MODULE SM2Proofs ------------------------------
(* What the SM-2 rule guarantees for every state, grade and time.           *)
EXTENDS SM2, TLAPS

(* The grade of an answer is one of the six, and a pass exactly when the   *)
(* answer was correct (GradeFromResult).                                   *)
LEMMA GradeOfAnswer ==
    ASSUME NEW correct \in BOOLEAN, NEW dur \in Int
    PROVE  /\ GradeFromResult(correct, dur) \in Grades
           /\ GradeFromResult(correct, dur) >= GradeSlow <=> correct
  BY DEF GradeFromResult, Grades, GradeWorst, GradeSlow, GradeGood, GradePerfect

(* The ease factor stays above its floor, whatever the grade.              *)
LEMMA EaseAboveFloor ==
    ASSUME NEW ef \in Nat, NEW g \in Grades
    PROVE  NextEase(ef, g) \in Nat /\ NextEase(ef, g) >= MinEF
<1>1. g \in {0, 1, 2, 3, 4, 5}
  BY DEF Grades
<1>2. EaseDelta(g) \in Int
  BY <1>1 DEF EaseDelta
<1> QED
  BY <1>2 DEF NextEase, MinEF

(* Rounding always has a result, and it is within one half.                *)
LEMMA RoundedWithinHalf ==
    ASSUME NEW h \in Nat
    PROVE  /\ Rounded(h) # {}
           /\ \A r \in Rounded(h) : r \in Nat /\ 100 * r - h <= 50 /\ h - 100 * r <= 50
<1> DEFINE d == h \div 100
<1>1. d \in Nat /\ 100 * d <= h /\ h < 100 * d + 100
  OBVIOUS
<1>2. Rounded(h) # {}
  <2>1. CASE h - 100 * d <= 50
    <3>1. d \in Rounded(h)
      BY <1>1, <2>1 DEF Rounded
    <3> QED
      BY <3>1
  <2>2. CASE h - 100 * d > 50
    <3>1. d + 1 \in Rounded(h)
      BY <1>1, <2>2 DEF Rounded
    <3> QED
      BY <3>1
  <2> QED
    BY <1>1, <2>1, <2>2
<1>3. ASSUME NEW r \in Rounded(h)
      PROVE  r \in Nat /\ 100 * r - h <= 50 /\ h - 100 * r <= 50
  BY <1>1 DEF Rounded
<1> QED
  BY <1>2, <1>3

(* Multiplying an interval of at least six days by the factor and rounding *)
(* adds at least two days.                                                 *)
LEMMA RoundedGrows ==
    ASSUME NEW i \in Nat, NEW ef \in Nat, i >= 6, ef >= MinEF,
           NEW r \in Rounded(i * ef)
    PROVE  r \in Nat /\ r >= i + 2
<1>1. i * ef \in Nat
  OBVIOUS
<1>2. i * ef >= i * 130
  <2>1. PICK e \in Nat : ef = 130 + e
    <3>1. ef - 130 \in Nat /\ ef = 130 + (ef - 130)
      BY DEF MinEF
    <3> QED
      BY <3>1
  <2>2. i * ef = i * 130 + i * e
    BY <2>1
  <2>3. i * e \in Nat
    OBVIOUS
  <2> QED
    BY <2>2, <2>3
<1>3. r \in Nat /\ i * ef - 100 * r <= 50
  BY <1>1, RoundedWithinHalf
<1>4. 100 * r >= 130 * i - 50
  BY <1>1, <1>2, <1>3
<1> QED
  BY <1>3, <1>4

(* The heart of the rule: from any state it may read, an answer leads to a *)
(* well-typed, soundly scheduled state that carries the grade and the time *)
(* of the answer and counts at most one pass more, and none after a        *)
(* failing grade; there always is such a state.                            *)
THEOREM AdvanceSound ==
    ASSUME NEW s \in State, Advanceable(s), NEW g \in Grades, NEW now \in Nat
    PROVE  /\ Advance(s, g, now) # {}
           /\ \A n \in Advance(s, g, now) :
                 /\ n \in State
                 /\ Scheduled(n)
                 /\ n.grade = g
                 /\ n.updated = now
                 /\ n.rep = IF g >= GradeSlow THEN s.rep + 1 ELSE 0
<1>1. s.interval \in Nat /\ s.ef \in Nat /\ s.rep \in Nat
  BY DEF State
<1>2. s.interval * s.ef \in Nat
  BY <1>1
<1>3. NextIntervals(s, g) # {}
  <2>1. Rounded(s.interval * s.ef) # {}
    BY <1>2, RoundedWithinHalf
  <2> QED
    BY <2>1 DEF NextIntervals
<1>4. ASSUME NEW i \in NextIntervals(s, g)
      PROVE  i \in Nat /\ i >= 1 /\ (NextRep(s, g) >= 2 => i >= 2 * NextRep(s, g) + 2)
  <2>1. CASE g < GradeSlow
    BY <2>1 DEF NextIntervals, NextRep
  <2>2. CASE g >= GradeSlow /\ s.rep = 0
    BY <2>2 DEF NextIntervals, NextRep, Grades, GradeSlow
  <2>3. CASE g >= GradeSlow /\ s.rep = 1
    BY <2>3 DEF NextIntervals, NextRep, Grades, GradeSlow
  <2>4. CASE g >= GradeSlow /\ s.rep >= 2
    <3>1. s.interval >= 2 * s.rep + 2 /\ s.ef >= MinEF
      BY <2>4 DEF Advanceable
    <3>2. i \in Rounded(s.interval * s.ef)
      BY <2>4, <1>1 DEF NextIntervals, Grades, GradeSlow
    <3>3. i \in Nat /\ i >= s.interval + 2
      <4>1. s.interval >= 6
        BY <3>1, <2>4, <1>1
      <4> QED
        BY <4>1, <3>1, <3>2, <1>1, RoundedGrows
    <3>4. NextRep(s, g) = s.rep + 1
      BY <2>4 DEF NextRep, Grades, GradeSlow
    <3> QED
      BY <3>1, <3>3, <3>4, <1>1, <2>4
  <2> QED
    BY <2>1, <2>2, <2>3, <2>4, <1>1 DEF Grades, GradeSlow
<1>5. NextRep(s, g) \in Nat /\ NextRep(s, g) = IF g >= GradeSlow THEN s.rep + 1 ELSE 0
  BY <1>1 DEF NextRep, Grades, GradeSlow
<1>6. NextEase(s.ef, g) \in Nat /\ NextEase(s.ef, g) >= MinEF
  BY <1>1, EaseAboveFloor
<1>7. ASSUME NEW n \in Advance(s, g, now)
      PROVE  /\ n \in State
             /\ Scheduled(n)
             /\ n.grade = g
             /\ n.updated = now
             /\ n.rep = IF g >= GradeSlow THEN s.rep + 1 ELSE 0
  <2>1. PICK i \in NextIntervals(s, g) :
          n = [ef |-> NextEase(s.ef, g), interval |-> i, rep |-> NextRep(s, g),
               due |-> now + i, grade |-> g, updated |-> now]
    BY DEF Advance
  <2>2. i \in Nat /\ i >= 1 /\ (NextRep(s, g) >= 2 => i >= 2 * NextRep(s, g) + 2)
    BY <1>4
  <2>3. n \in State
    BY <2>1, <2>2, <1>5, <1>6 DEF State
  <2>4. NextRep(s, g) = 0 <=> g < GradeSlow
    BY <1>1, <1>5 DEF Grades, GradeSlow
  <2>5. Scheduled(n)
    BY <2>1, <2>2, <2>4, <1>6 DEF Scheduled
  <2> QED
    BY <2>1, <2>3, <2>5, <1>5
<1>8. Advance(s, g, now) # {}
  BY <1>3 DEF Advance
<1> QED
  BY <1>7, <1>8

(* The state of a question never answered may be advanced.                 *)
LEMMA NewStateAdvanceable ==
    ASSUME NEW now \in Nat
    PROVE  NewState(now) \in State /\ Advanceable(NewState(now)) /\ NewState(now).rep = 0
  BY DEF NewState, State, Advanceable, InitialEF, MinEF, GradeWorst, Grades
=============================================================================
