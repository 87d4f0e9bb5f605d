--------------------------- MODULE LearningProofs ---------------------------
(* The invariants of the learning record, for any number of users,         *)
(* questions, requests in flight, failures and restarts.                   *)
EXTENDS Learning, SM2Proofs

(* A stored row, with everything the invariants say of it. *)
RowSound(u, q) ==
    srs[u][q] # NoState =>
        /\ Scheduled(srs[u][q])
        /\ srs[u][q].rep <= credited[u][q]
        /\ [user |-> u, question |-> q, correct |-> srs[u][q].grade >= GradeSlow,
            at |-> srs[u][q].updated] \in answered
        /\ q \notin bank => srs[u][q].updated >= bootDay

(* The inductive invariant: the rows that are stored, and what the         *)
(* submissions in flight will write.                                       *)
IInv ==
    /\ TypeOK
    /\ bootDay <= clock
    /\ \A u \in Users, q \in Questions : RowSound(u, q)
    /\ InFlightSound

(* The two kinds of request that have a user cannot be confused. *)
LEMMA RequestKinds ==
    ASSUME NEW r \in Request
    PROVE  /\ r.pc = "clear" => r \in ClearReq
           /\ r.pc \in {"create", "get", "upsert"} => r \in SubmitReq
           /\ r \in SubmitReq => r # IdleReq /\ r.pc \in {"create", "get", "upsert"}
           /\ r \in ClearReq => r # IdleReq
  BY DEF Request, SubmitReq, ClearReq, IdleReq

LEMMA InitIInv == Init => IInv
<1> SUFFICES ASSUME Init PROVE IInv
  OBVIOUS
<1>1. TypeOK
  BY DEF Init, TypeOK, Request
<1>2. \A u \in Users, q \in Questions : RowSound(u, q)
  BY DEF Init, RowSound
<1>3. InFlightSound
  BY RequestKinds DEF Init, InFlightSound, ReqSound, IdleReq, SubmitReq, Request
<1> QED
  BY <1>1, <1>2, <1>3 DEF IInv, Init

(* Rows and requests in flight stay sound when the row, the counters, the  *)
(* bank and the day of the last start they are judged by do not change and *)
(* no answer is forgotten.                                                 *)
LEMMA RowsUntouched ==
    ASSUME IInv, UNCHANGED <<srs, credited, bank, bootDay>>, answered \subseteq answered'
    PROVE  (\A u \in Users, q \in Questions : RowSound(u, q))'
  BY DEF IInv, RowSound

LEMMA SlotUntouched ==
    ASSUME IInv, NEW o \in Slots, req'[o] = req[o],
           UNCHANGED <<credited, bootDay>>, answered \subseteq answered'
    PROVE  ReqSound(o)'
<1>1. ReqSound(o)
  BY DEF IInv, InFlightSound
<1> QED
  BY <1>1 DEF ReqSound

(* A request that has ended, or that only clears, holds nothing to write.  *)
LEMMA NoSubmission ==
    ASSUME NEW o \in Slots, req'[o] = IdleReq \/ req'[o] \in ClearReq
    PROVE  ReqSound(o)'
<1>1. req'[o] \notin SubmitReq /\ req'[o].pc \notin {"create", "get", "upsert"}
  BY DEF IdleReq, ClearReq, SubmitReq
<1> QED
  BY <1>1 DEF ReqSound

LEMMA SubmitBeginIInv ==
    ASSUME IInv, NEW p \in Slots, SubmitBegin(p)
    PROVE  IInv'
<1>1. PICK u \in Users, q \in known, c \in BOOLEAN, d \in Durations :
        req' = [req EXCEPT ![p] =
                 [pc |-> "create", dur |-> d, state |-> NoState,
                  answer |-> [user |-> u, question |-> q, correct |-> c, at |-> clock]]]
  BY DEF SubmitBegin
<1> DEFINE r == [pc |-> "create", dur |-> d, state |-> NoState,
                 answer |-> [user |-> u, question |-> q, correct |-> c, at |-> clock]]
<1>2. r \in SubmitReq /\ r.answer.at = clock /\ r.pc = "create"
  BY DEF IInv, TypeOK, SubmitReq, Answer
<1>3. req' = [req EXCEPT ![p] = r]
  BY <1>1
<1> HIDE DEF r
<1>4. TypeOK'
  BY <1>2, <1>3 DEF IInv, TypeOK, SubmitBegin, Request, tables, ghosts, counts
<1>5. InFlightSound'
  BY <1>2, <1>3 DEF IInv, TypeOK, InFlightSound, ReqSound, SubmitBegin, tables, ghosts, counts
<1>6. (\A v \in Users, w \in Questions : RowSound(v, w))'
  BY RowsUntouched DEF SubmitBegin, tables, ghosts, counts
<1> QED
  BY <1>4, <1>5, <1>6 DEF IInv, SubmitBegin

LEMMA SubmitCreateIInv ==
    ASSUME IInv, NEW p \in Slots, SubmitCreate(p)
    PROVE  IInv'
<1>1. req[p] \in SubmitReq /\ req[p].answer \in Answer
  BY RequestKinds DEF IInv, TypeOK, SubmitCreate, SubmitReq
<1>2. req'[p] \in SubmitReq /\ req'[p].pc = "get" /\ req'[p].answer = req[p].answer
  BY <1>1 DEF SubmitCreate, SubmitReq, IInv, TypeOK
<1>3. \A o \in Slots \ {p} : req'[o] = req[o]
  BY DEF SubmitCreate, IInv, TypeOK
<1>4. req' \in [Slots -> Request]
  BY <1>2, <1>3 DEF IInv, TypeOK, SubmitCreate, Request
<1>5. attempts' \in SUBSET Attempt
  <2>1. PICK id \in NewRowIds :
          attempts' = attempts \cup
                        {[id |-> id, nth |-> inserted + 1, answer |-> req[p].answer]}
    BY DEF SubmitCreate
  <2>2. id \in Nat \ {0}
    BY LearningAssumption DEF NewRowIds
  <2> QED
    BY <1>1, <2>1, <2>2 DEF IInv, TypeOK, Attempt
<1>6. TypeOK'
  BY <1>1, <1>4, <1>5 DEF IInv, TypeOK, SubmitCreate, counts
<1>7. InFlightSound'
  BY <1>1, <1>2, <1>3 DEF IInv, InFlightSound, ReqSound, SubmitCreate, counts
<1>8. (\A v \in Users, w \in Questions : RowSound(v, w))'
  BY RowsUntouched DEF SubmitCreate, counts
<1> QED
  BY <1>6, <1>7, <1>8 DEF IInv, SubmitCreate

LEMMA SubmitGetIInv ==
    ASSUME IInv, NEW p \in Slots, SubmitGet(p)
    PROVE  IInv'
<1> DEFINE a == req[p].answer
           s == ReadState(a)
<1>1. req[p] \in SubmitReq /\ a \in Answer
  BY RequestKinds DEF IInv, TypeOK, SubmitGet, SubmitReq
<1>2. a.user \in Users /\ a.question \in Questions /\ a.at \in Nat
  BY <1>1 DEF Answer
<1>3. s \in State /\ Advanceable(s) /\ s.rep <= credited[a.user][a.question]
  <2>1. CASE srs[a.user][a.question] = NoState
    <3>1. s = NewState(a.at) /\ credited[a.user][a.question] \in Nat
      BY <2>1, <1>2 DEF ReadState, IInv, TypeOK
    <3>2. s \in State /\ Advanceable(s) /\ s.rep = 0
      BY <3>1, <1>2, NewStateAdvanceable
    <3> QED
      BY <3>1, <3>2
  <2>2. CASE srs[a.user][a.question] # NoState
    <3>1. s = srs[a.user][a.question] /\ s \in State
      BY <2>2, <1>2 DEF ReadState, IInv, TypeOK
    <3>2. Scheduled(s) /\ s.rep <= credited[a.user][a.question]
      BY <2>2, <3>1, <1>2 DEF IInv, RowSound
    <3> QED
      BY <3>1, <3>2 DEF Scheduled, Advanceable
  <2> QED
    BY <2>1, <2>2
<1>4. req' = [req EXCEPT ![p].pc = "upsert", ![p].state = s]
  BY DEF SubmitGet
<1> HIDE DEF s
<1>5. /\ req'[p] \in SubmitReq /\ req'[p].pc = "upsert"
      /\ req'[p].answer = a /\ req'[p].state = s
  BY <1>1, <1>3, <1>4 DEF SubmitReq, IInv, TypeOK
<1>6. \A o \in Slots \ {p} : req'[o] = req[o]
  BY <1>4 DEF IInv, TypeOK
<1>7. req' \in [Slots -> Request]
  BY <1>4, <1>5, <1>6 DEF IInv, TypeOK, Request
<1>8. TypeOK'
  BY <1>7 DEF IInv, TypeOK, SubmitGet, tables, ghosts, counts
<1>9. InFlightSound'
  <2>1. ReqSound(p)'
    <3>1. a.at >= bootDay /\ a \in answered
      BY <1>1 DEF IInv, InFlightSound, ReqSound, SubmitGet
    <3> HIDE DEF a
    <3> QED
      BY <1>3, <1>5, <3>1 DEF ReqSound, SubmitGet, tables, ghosts, counts
  <2>2. ASSUME NEW o \in Slots \ {p} PROVE ReqSound(o)'
    BY <1>6, SlotUntouched DEF SubmitGet, ghosts, counts
  <2> QED
    BY <2>1, <2>2 DEF InFlightSound
<1>10. (\A v \in Users, w \in Questions : RowSound(v, w))'
  BY RowsUntouched DEF SubmitGet, tables, ghosts, counts
<1> QED
  BY <1>8, <1>9, <1>10 DEF IInv, SubmitGet

(* What a submission writes: a sound state that carries its answer. *)
LEMMA SubmitUpsertWrites ==
    ASSUME IInv, NEW p \in Slots, SubmitUpsert(p)
    PROVE  LET a == req[p].answer
               g == GradeFromResult(a.correct, req[p].dur) IN
           /\ a.user \in Users /\ a.question \in Questions /\ a.correct \in BOOLEAN
           /\ a = [user |-> a.user, question |-> a.question, correct |-> a.correct, at |-> a.at]
           /\ a.at >= bootDay /\ a \in answered
           /\ req[p].state \in State /\ req[p].state.rep <= credited[a.user][a.question]
           /\ g >= GradeSlow <=> a.correct
           /\ \E s \in State :
                 /\ srs' = [srs EXCEPT ![a.user][a.question] = s]
                 /\ Scheduled(s) /\ s.grade = g /\ s.updated = a.at
                 /\ s.rep = IF g >= GradeSlow THEN req[p].state.rep + 1 ELSE 0
<1> DEFINE a == req[p].answer
           g == GradeFromResult(a.correct, req[p].dur)
<1>1. req[p] \in SubmitReq /\ a \in Answer /\ req[p].dur \in Int
  BY RequestKinds, LearningAssumption DEF IInv, TypeOK, SubmitUpsert, SubmitReq
<1>2. /\ a.user \in Users /\ a.question \in Questions /\ a.at \in Nat /\ a.correct \in BOOLEAN
      /\ a = [user |-> a.user, question |-> a.question, correct |-> a.correct, at |-> a.at]
  BY <1>1 DEF Answer
<1>3. /\ a.at >= bootDay /\ a \in answered
      /\ req[p].state \in State /\ Advanceable(req[p].state)
      /\ req[p].state.rep <= credited[a.user][a.question]
  BY <1>1 DEF IInv, InFlightSound, ReqSound, SubmitUpsert
<1>4. g \in Grades /\ (g >= GradeSlow <=> a.correct)
  BY <1>1, <1>2, GradeOfAnswer
<1>5. PICK s \in WriteStates(req[p]) : srs' = [srs EXCEPT ![a.user][a.question] = s]
  BY DEF SubmitUpsert
<1>6. /\ s \in State /\ Scheduled(s) /\ s.grade = g /\ s.updated = a.at
      /\ s.rep = IF g >= GradeSlow THEN req[p].state.rep + 1 ELSE 0
  <2> HIDE DEF g
  <2>1. s \in Advance(req[p].state, g, a.at)
    BY <1>5 DEF WriteStates, g
  <2> QED
    BY <2>1, <1>2, <1>3, <1>4, AdvanceSound
<1> QED
  BY <1>2, <1>3, <1>4, <1>5, <1>6

LEMMA SubmitUpsertIInv ==
    ASSUME IInv, NEW p \in Slots, SubmitUpsert(p)
    PROVE  IInv'
<1> DEFINE a == req[p].answer
           g == GradeFromResult(a.correct, req[p].dur)
<1>2. /\ a.user \in Users /\ a.question \in Questions /\ a.correct \in BOOLEAN
      /\ a = [user |-> a.user, question |-> a.question, correct |-> a.correct, at |-> a.at]
  BY SubmitUpsertWrites
<1>3. /\ a.at >= bootDay /\ a \in answered
      /\ req[p].state \in State /\ req[p].state.rep <= credited[a.user][a.question]
  BY SubmitUpsertWrites
<1>4. g >= GradeSlow <=> a.correct
  BY SubmitUpsertWrites
<1>5. PICK s \in State :
        /\ srs' = [srs EXCEPT ![a.user][a.question] = s]
        /\ Scheduled(s) /\ s.grade = g /\ s.updated = a.at
        /\ s.rep = IF g >= GradeSlow THEN req[p].state.rep + 1 ELSE 0
  BY SubmitUpsertWrites
<1>6. /\ credited' = [credited EXCEPT ![a.user][a.question] = IF a.correct THEN @ + 1 ELSE @]
      /\ streak' = [streak EXCEPT ![a.user][a.question] = IF a.correct THEN @ + 1 ELSE 0]
      /\ req' = [req EXCEPT ![p] = IdleReq]
      /\ UNCHANGED <<bank, known, clock, bootDay, attempts, view, answered, inserted, retiredAt>>
  BY DEF SubmitUpsert
<1> HIDE DEF a, g
<1>7. TypeOK'
  <2>1. srs' \in [Users -> [Questions -> State \cup {NoState}]]
    BY <1>2, <1>5 DEF IInv, TypeOK
  <2>2. /\ credited' \in [Users -> [Questions -> Nat]]
        /\ streak' \in [Users -> [Questions -> Nat]]
    BY <1>2, <1>6 DEF IInv, TypeOK
  <2>3. req' \in [Slots -> Request]
    BY <1>6 DEF IInv, TypeOK, Request
  <2> QED
    BY <1>6, <2>1, <2>2, <2>3 DEF IInv, TypeOK
<1>8. \A u \in Users, q \in Questions :
        credited'[u][q] \in Nat /\ credited'[u][q] >= credited[u][q]
  BY <1>2, <1>6 DEF IInv, TypeOK
<1>9. InFlightSound'
  <2>1. ReqSound(p)'
    BY <1>6, RequestKinds DEF ReqSound, IInv, TypeOK, IdleReq, SubmitReq
  <2>2. ASSUME NEW o \in Slots \ {p} PROVE ReqSound(o)'
    <3>1. ReqSound(o) /\ req'[o] = req[o] /\ req[o] \in Request
      BY <1>6 DEF IInv, TypeOK, InFlightSound
    <3>2. CASE req[o].pc = "upsert"
      <4> DEFINE b == req[o].answer
      <4>1. b.user \in Users /\ b.question \in Questions /\ req[o].state.rep \in Nat
        BY <3>1, <3>2, RequestKinds DEF SubmitReq, Answer, ReqSound, State
      <4>2. req[o].state.rep <= credited[b.user][b.question]
        BY <3>1, <3>2 DEF ReqSound
      <4>3. credited[b.user][b.question] \in Nat
        BY <4>1 DEF IInv, TypeOK
      <4>4. req[o].state.rep <= credited'[b.user][b.question]
        BY <4>1, <4>2, <4>3, <1>8
      <4> QED
        BY <3>1, <3>2, <4>4, <1>6 DEF ReqSound
    <3>3. CASE req[o].pc # "upsert"
      BY <3>1, <3>3, <1>6 DEF ReqSound
    <3> QED
      BY <3>2, <3>3
  <2> QED
    BY <2>1, <2>2 DEF InFlightSound
<1>10. ASSUME NEW u \in Users, NEW q \in Questions PROVE RowSound(u, q)'
  <2>1. CASE u = a.user /\ q = a.question
    <3>1. srs'[u][q] = s
      BY <1>2, <1>5, <2>1 DEF IInv, TypeOK
    <3>2. s.rep <= credited'[u][q]
      <4>1. credited[u][q] \in Nat /\ req[p].state.rep \in Nat
        BY <1>3 DEF IInv, TypeOK, State
      <4>2. CASE a.correct
        <5>1. credited'[u][q] = credited[u][q] + 1
          BY <1>2, <1>6, <2>1, <4>2 DEF IInv, TypeOK
        <5> QED
          BY <5>1, <4>1, <4>2, <1>3, <1>4, <1>5, <2>1
      <4>3. CASE ~ a.correct
        BY <1>4, <1>5, <1>8, <4>3
      <4> QED
        BY <4>2, <4>3
    <3>3. [user |-> u, question |-> q, correct |-> s.grade >= GradeSlow,
           at |-> s.updated] = a
      <4>1. (s.grade >= GradeSlow) = a.correct
        BY <1>2, <1>4, <1>5
      <4> QED
        BY <4>1, <1>2, <1>5, <2>1
    <3> QED
      BY <3>1, <3>2, <3>3, <1>3, <1>5, <1>6 DEF RowSound
  <2>2. CASE u # a.user \/ q # a.question
    <3>1. srs'[u][q] = srs[u][q] /\ srs[u][q] \in State \cup {NoState}
      BY <1>2, <1>5, <2>2 DEF IInv, TypeOK
    <3>2. credited'[u][q] >= credited[u][q] /\ credited[u][q] \in Nat /\ credited'[u][q] \in Nat
      BY <1>8 DEF IInv, TypeOK
    <3>3. RowSound(u, q)
      BY DEF IInv
    <3>4. CASE srs[u][q] # NoState
      <4>1. srs[u][q].rep \in Nat
        BY <3>1, <3>4 DEF State
      <4>2. srs[u][q].rep <= credited'[u][q]
        BY <3>2, <3>3, <3>4, <4>1 DEF RowSound
      <4> QED
        BY <3>1, <3>3, <3>4, <4>2, <1>6 DEF RowSound
    <3>5. CASE srs[u][q] = NoState
      BY <3>1, <3>5 DEF RowSound
    <3> QED
      BY <3>4, <3>5
  <2> QED
    BY <2>1, <2>2
<1> QED
  BY <1>6, <1>7, <1>9, <1>10 DEF IInv

LEMMA ClearAttemptsIInv ==
    ASSUME IInv, NEW p \in Slots, ClearAttempts(p)
    PROVE  IInv'
<1>1. PICK u \in Users : /\ attempts' = attempts \ RowsOf(u)
                         /\ req' = [req EXCEPT ![p] = [pc |-> "clear", user |-> u]]
  BY DEF ClearAttempts
<1>2. [pc |-> "clear", user |-> u] \in ClearReq
  BY DEF ClearReq
<1>3. req' \in [Slots -> Request] /\ req'[p] \in ClearReq
  BY <1>1, <1>2 DEF IInv, TypeOK, Request
<1>4. TypeOK'
  BY <1>1, <1>3 DEF IInv, TypeOK, ClearAttempts, ghosts, counts
<1>5. ASSUME NEW o \in Slots PROVE ReqSound(o)'
  <2>1. CASE o = p
    BY <1>3, <2>1, NoSubmission
  <2>2. CASE o # p
    BY <1>1, <2>2, SlotUntouched DEF ClearAttempts, ghosts, counts, IInv, TypeOK
  <2> QED
    BY <2>1, <2>2
<1>6. (\A v \in Users, w \in Questions : RowSound(v, w))'
  BY RowsUntouched DEF ClearAttempts, ghosts, counts
<1> QED
  BY <1>4, <1>5, <1>6 DEF IInv, InFlightSound, ClearAttempts

LEMMA ClearStatesIInv ==
    ASSUME IInv, NEW p \in Slots, ClearStates(p)
    PROVE  IInv'
<1>1. req[p] \in ClearReq /\ req[p].user \in Users
  BY RequestKinds DEF IInv, TypeOK, ClearStates, ClearReq
<1>2. req' \in [Slots -> Request] /\ req'[p] = IdleReq
  BY DEF IInv, TypeOK, Request, ClearStates
<1>3. TypeOK'
  BY <1>1, <1>2 DEF IInv, TypeOK, ClearStates
<1>4. ASSUME NEW o \in Slots PROVE ReqSound(o)'
  <2>1. CASE o = p
    BY <1>2, <2>1, NoSubmission
  <2>2. CASE o # p
    BY <2>2, SlotUntouched DEF ClearStates, IInv, TypeOK
  <2> QED
    BY <2>1, <2>2
<1>5. ASSUME NEW v \in Users, NEW w \in Questions PROVE RowSound(v, w)'
  <2>1. srs'[v][w] = srs[v][w] \/ srs'[v][w] = NoState
    BY <1>1 DEF ClearStates, IInv, TypeOK
  <2>2. RowSound(v, w)
    BY DEF IInv
  <2> QED
    BY <2>1, <2>2 DEF RowSound, ClearStates
<1> QED
  BY <1>3, <1>4, <1>5 DEF IInv, InFlightSound, ClearStates

LEMMA AbortIInv ==
    ASSUME IInv, NEW p \in Slots, Abort(p)
    PROVE  IInv'
<1>1. req' \in [Slots -> Request] /\ req'[p] = IdleReq
  BY DEF IInv, TypeOK, Request, Abort
<1>2. TypeOK'
  BY <1>1 DEF IInv, TypeOK, Abort, tables, ghosts, counts
<1>3. ASSUME NEW o \in Slots PROVE ReqSound(o)'
  <2>1. CASE o = p
    BY <1>1, <2>1, NoSubmission
  <2>2. CASE o # p
    BY <2>2, SlotUntouched DEF Abort, ghosts, counts, IInv, TypeOK
  <2> QED
    BY <2>1, <2>2
<1>4. (\A v \in Users, w \in Questions : RowSound(v, w))'
  BY RowsUntouched DEF Abort, tables, ghosts, counts
<1> QED
  BY <1>2, <1>3, <1>4 DEF IInv, InFlightSound, Abort

(* A start erases the rows of the questions that left the bank, and no     *)
(* request of before it is left to write one.                              *)
LEMMA RestartIInv ==
    ASSUME IInv, Restart
    PROVE  IInv'
<1>1. PICK newBank \in SUBSET Questions :
        /\ bank' = newBank
        /\ known' = known \cup newBank
        /\ srs' = Retire(newBank)
        /\ streak' = [u \in Users |->
                        [q \in Questions |-> IF q \in newBank THEN streak[u][q] ELSE 0]]
  BY DEF Restart
<1>2. req' \in [Slots -> Request] /\ \A o \in Slots : req'[o] = IdleReq
  BY DEF Restart, Request
<1>3. TypeOK'
  BY <1>1, <1>2 DEF IInv, TypeOK, Restart, Retire
<1>4. ASSUME NEW o \in Slots PROVE ReqSound(o)'
  BY <1>2, NoSubmission
<1>5. ASSUME NEW v \in Users, NEW w \in Questions PROVE RowSound(v, w)'
  <2>1. RowSound(v, w)
    BY DEF IInv
  <2>2. srs'[v][w] = IF w \in bank' THEN srs[v][w] ELSE NoState
    BY <1>1 DEF Retire
  <2> QED
    BY <2>1, <2>2 DEF RowSound, Restart
<1> QED
  BY <1>3, <1>4, <1>5 DEF IInv, InFlightSound, Restart, TypeOK

(* The steps that touch neither the learning states nor the requests. *)
LEMMA OtherStepsIInv ==
    ASSUME IInv, (\E u \in Users : History(u) \/ DeleteAttempt(u)) \/ Tick \/ UNCHANGED vars
    PROVE  IInv'
<1>1. /\ UNCHANGED <<bank, known, bootDay, srs, req, ghosts>>
      /\ clock' \in Nat /\ clock' >= clock
  BY DEF IInv, TypeOK, History, DeleteAttempt, Tick, vars, tables
<1>2. attempts' \in SUBSET Attempt /\ view' \in [Users -> SUBSET Attempt]
  BY DEF IInv, TypeOK, History, DeleteAttempt, Tick, vars, tables, RowsOf
<1>3. TypeOK'
  BY <1>1, <1>2 DEF IInv, TypeOK, ghosts, counts
<1>4. ASSUME NEW o \in Slots PROVE ReqSound(o)'
  BY <1>1, SlotUntouched DEF ghosts, counts
<1>5. (\A v \in Users, w \in Questions : RowSound(v, w))'
  BY <1>1, RowsUntouched DEF ghosts, counts
<1> QED
  BY <1>1, <1>3, <1>4, <1>5 DEF IInv, InFlightSound, TypeOK

LEMMA NextIInv == IInv /\ [Next]_vars => IInv'
<1> SUFFICES ASSUME IInv, [Next]_vars PROVE IInv'
  OBVIOUS
<1>1. ASSUME NEW p \in Slots, SubmitBegin(p) PROVE IInv'
  BY <1>1, SubmitBeginIInv
<1>2. ASSUME NEW p \in Slots, SubmitCreate(p) PROVE IInv'
  BY <1>2, SubmitCreateIInv
<1>3. ASSUME NEW p \in Slots, SubmitGet(p) PROVE IInv'
  BY <1>3, SubmitGetIInv
<1>4. ASSUME NEW p \in Slots, SubmitUpsert(p) PROVE IInv'
  BY <1>4, SubmitUpsertIInv
<1>5. ASSUME NEW p \in Slots, ClearAttempts(p) PROVE IInv'
  BY <1>5, ClearAttemptsIInv
<1>6. ASSUME NEW p \in Slots, ClearStates(p) PROVE IInv'
  BY <1>6, ClearStatesIInv
<1>7. ASSUME NEW p \in Slots, Abort(p) PROVE IInv'
  BY <1>7, AbortIInv
<1>8. CASE Restart
  BY <1>8, RestartIInv
<1>9. CASE (\E u \in Readers : History(u) \/ DeleteAttempt(u)) \/ Tick \/ UNCHANGED vars
  BY <1>9, OtherStepsIInv, LearningAssumption
<1> QED
  BY <1>1, <1>2, <1>3, <1>4, <1>5, <1>6, <1>7, <1>8, <1>9 DEF Next

(* The inductive invariant holds in every reachable state. *)
THEOREM LearningInvariant == Spec => []IInv
  BY InitIInv, NextIInv, PTL DEF Spec

(* Every stored learning state is one the SM-2 rule can produce, however   *)
(* submissions, clears, failures and restarts interleave.                  *)
THEOREM ScheduleSoundTheorem == Spec => []ScheduleSound
<1>1. IInv => ScheduleSound
  BY DEF IInv, RowSound, ScheduleSound
<1> QED
  BY <1>1, LearningInvariant, PTL

(* No interleaving counts a correct answer twice. *)
THEOREM RepetitionsCreditedTheorem == Spec => []RepetitionsCredited
<1>1. IInv => RepetitionsCredited
  BY DEF IInv, RowSound, RepetitionsCredited
<1> QED
  BY <1>1, LearningInvariant, PTL

(* Every stored learning state was written for an answer of that user to   *)
(* that question.                                                          *)
THEOREM SrsHasOriginTheorem == Spec => []SrsHasOrigin
<1>1. IInv => SrsHasOrigin
  BY DEF IInv, RowSound, SrsHasOrigin
<1> QED
  BY <1>1, LearningInvariant, PTL

(* A question outside the bank has a learning state only if it was         *)
(* answered since the last start.                                          *)
THEOREM RetiredRowsAreFreshTheorem == Spec => []RetiredRowsAreFresh
<1>1. IInv => RetiredRowsAreFresh
  BY DEF IInv, RowSound, RetiredRowsAreFresh
<1> QED
  BY <1>1, LearningInvariant, PTL

(* The variables keep their types, and what submissions in flight hold may *)
(* be written at any time.                                                 *)
THEOREM TypeTheorem == Spec => [](TypeOK /\ InFlightSound)
<1>1. IInv => TypeOK /\ InFlightSound
  BY DEF IInv
<1> QED
  BY <1>1, LearningInvariant, PTL

(* What a submission in flight holds is current enough to be written,      *)
(* whatever other requests have written since it read (Submit).            *)
THEOREM SubmissionsStaySound == Spec => []InFlightSound
<1>1. IInv => InFlightSound
  BY DEF IInv
<1> QED
  BY <1>1, LearningInvariant, PTL

LEMMA NextErasedByOwner == IInv /\ [Next]_vars => [ErasedByOwner]_vars
<1> SUFFICES ASSUME IInv, Next PROVE ErasedByOwner
  BY DEF ErasedByOwner, vars, tables
<1>1. ASSUME NEW p \in Slots, ClearAttempts(p) PROVE ErasedByOwner
  <2>1. PICK u \in Users : /\ attempts' = attempts \ RowsOf(u)
                           /\ req' = [req EXCEPT ![p] = [pc |-> "clear", user |-> u]]
    BY <1>1 DEF ClearAttempts
  <2>2. Clearing(u)
    BY <1>1, <2>1 DEF Clearing, ClearAttempts, IInv, TypeOK
  <2> QED
    BY <1>1, <2>1, <2>2 DEF ErasedByOwner, ClearAttempts, RowsOf
<1>2. ASSUME NEW p \in Slots, ClearStates(p) PROVE ErasedByOwner
  <2>1. \A u \in Users, q \in Questions : u # req[p].user => srs'[u][q] = srs[u][q]
    BY <1>2 DEF ClearStates, IInv, TypeOK
  <2> QED
    BY <1>2, <2>1 DEF ErasedByOwner, ClearStates
<1>3. ASSUME NEW p \in Slots, SubmitUpsert(p) PROVE ErasedByOwner
  <2> DEFINE a == req[p].answer
  <2>1. PICK s \in State : srs' = [srs EXCEPT ![a.user][a.question] = s]
    BY <1>3, SubmitUpsertWrites
  <2>2. s # NoState
    BY LearningAssumption
  <2>3. \A u \in Users, q \in Questions : srs[u][q] # NoState => srs'[u][q] # NoState
    BY <2>1, <2>2 DEF IInv, TypeOK
  <2> QED
    BY <1>3, <2>3 DEF ErasedByOwner, SubmitUpsert
<1>4. CASE Restart
  BY <1>4 DEF ErasedByOwner, Restart, Retire
<1>5. ASSUME NEW u \in Readers, DeleteAttempt(u) PROVE ErasedByOwner
  <2>1. PICK b \in view[u] : attempts' = attempts \ DeletableBy(u, b.id)
    BY <1>5 DEF DeleteAttempt
  <2>2. \A a \in attempts \ attempts' : a.answer.user = u /\ a.id = b.id
    BY <2>1 DEF DeletableBy
  <2> QED
    BY <1>5, <2>2 DEF ErasedByOwner, DeleteAttempt
<1>6. CASE \/ \E p \in Slots : \/ SubmitBegin(p) \/ SubmitCreate(p)
                               \/ SubmitGet(p) \/ Abort(p)
           \/ \E u \in Readers : History(u)
           \/ Tick
  BY <1>6 DEF ErasedByOwner, SubmitBegin, SubmitCreate, SubmitGet, Abort, History, Tick, tables
<1> QED
  BY <1>1, <1>2, <1>3, <1>4, <1>5, <1>6 DEF Next

(* Nothing a user recorded disappears except by that user's own delete or  *)
(* clear, or, for a learning state, because the question left the bank.    *)
THEOREM OnlyOwnerErasesTheorem == Spec => OnlyOwnerErases
  BY LearningInvariant, NextErasedByOwner, PTL DEF Spec, OnlyOwnerErases
=============================================================================
