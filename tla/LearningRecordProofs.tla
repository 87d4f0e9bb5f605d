------------------------ MODULE LearningRecordProofs ------------------------
(* Requests that neither overlap nor fail implement the record of           *)
(* LearningRecord, for any users, questions, answers, deletes and releases. *)
EXTENDS LearningProofs

(* One request at a time, each of which ends as it should.                  *)
Serial == ~Faults /\ \A p, o \in Slots : p = o

(* Rows are told apart by their id and by the rank of their insertion.      *)
RowsNumbered ==
    /\ \A a \in attempts : a.nth <= inserted
    /\ \A a, b \in attempts : a.nth = b.nth \/ a.id = b.id => a = b

(* A row that counts has a learning state beside it, unless its question    *)
(* left the bank since, and a learning state counts what its user answered. *)
CountedSound ==
    /\ \A a \in attempts \ Uncounted :
          a.nth > retiredAt[a.answer.question] =>
              srs[a.answer.user][a.answer.question] # NoState
    /\ \A u \in Users, q \in Questions :
          streak[u][q] = IF srs[u][q] = NoState THEN 0 ELSE srs[u][q].rep

(* The row of a submission in flight, if nobody has deleted it, carries its *)
(* answer; what the submission has read is still what is stored; and a user *)
(* who is clearing has no rows left.                                        *)
KnowsWhatIsStored(p) ==
    /\ req[p].pc \in {"get", "upsert"} =>
          \A a \in attempts : a.nth = inserted => a.answer = req[p].answer
    /\ req[p].pc = "upsert" => req[p].state = ReadState(req[p].answer)
    /\ req[p].pc = "clear" => RowsOf(req[p].user) = {}

SInv ==
    /\ IInv
    /\ RowsNumbered
    /\ CountedSound
    /\ \A p \in Slots : KnowsWhatIsStored(p)

-----------------------------------------------------------------------------
(* The one request that is in flight                                        *)

LEMMA OnlyRequest ==
    ASSUME Serial, NEW p \in Slots
    PROVE  /\ \A o \in Slots : o = p
           /\ Uncounted = IF req[p].pc \in {"get", "upsert"}
                          THEN {a \in attempts : a.nth = inserted} ELSE {}
           /\ Uncounted' = IF req'[p].pc \in {"get", "upsert"}
                           THEN {a \in attempts' : a.nth = inserted'} ELSE {}
           /\ Cleared = {u \in Users : req[p].pc = "clear" /\ req[p].user = u}
           /\ Cleared' = {u \in Users : req'[p].pc = "clear" /\ req'[p].user = u}
<1>1. \A o \in Slots : o = p
  BY DEF Serial
<1> QED
  BY <1>1 DEF Uncounted, Cleared

(* What a submission in flight holds has its type.                          *)
LEMMA SubmissionFacts ==
    ASSUME IInv, NEW p \in Slots, req[p].pc \in {"create", "get", "upsert"}
    PROVE  /\ req[p] \in SubmitReq /\ req[p].answer \in Answer
           /\ req[p].answer.user \in Users /\ req[p].answer.question \in Questions
<1>1. req[p] \in SubmitReq
  BY RequestKinds DEF IInv, TypeOK
<1> QED
  BY <1>1 DEF SubmitReq, Answer

(* A stored state is a state.                                               *)
LEMMA RowFacts ==
    ASSUME IInv, NEW u \in Users, NEW q \in Questions
    PROVE  /\ srs[u][q] \in State \cup {NoState} /\ streak[u][q] \in Nat
           /\ DOMAIN srs = Users /\ DOMAIN srs[u] = Questions
           /\ srs[u][q] # NoState => srs[u][q].rep \in Nat
BY DEF IInv, TypeOK, State

LEMMA AttemptFacts ==
    ASSUME IInv, NEW a \in attempts
    PROVE  /\ a \in Attempt /\ a.nth \in Nat \ {0} /\ a.id \in Nat \ {0}
           /\ a.answer \in Answer /\ a.answer.user \in Users /\ a.answer.question \in Questions
           /\ inserted \in Nat
BY DEF IInv, TypeOK, Attempt, Answer

-----------------------------------------------------------------------------
(* Every step keeps the invariant                                           *)

LEMMA InitSInv == Init => SInv
<1> SUFFICES ASSUME Init
             PROVE  SInv
  OBVIOUS
<1>1. RowsNumbered /\ CountedSound
  BY DEF Init, RowsNumbered, CountedSound
<1>2. ASSUME NEW p \in Slots
      PROVE  KnowsWhatIsStored(p)
  BY DEF Init, KnowsWhatIsStored, IdleReq
<1> QED
  BY <1>1, <1>2, InitIInv DEF SInv

LEMMA SubmitBeginSInv ==
    ASSUME Serial, SInv, NEW p \in Slots, SubmitBegin(p)
    PROVE  RowsNumbered' /\ CountedSound' /\ KnowsWhatIsStored(p)'
<1>1. /\ attempts' = attempts /\ srs' = srs /\ inserted' = inserted /\ retiredAt' = retiredAt
      /\ streak' = streak
  BY DEF SubmitBegin, tables, ghosts, counts
<1>2. req[p].pc = "idle" /\ req'[p].pc = "create"
  BY DEF SubmitBegin, SInv, IInv, TypeOK, IdleReq
<1>3. Uncounted = {} /\ Uncounted' = {}
  BY <1>2, OnlyRequest
<1> QED
  BY <1>1, <1>2, <1>3 DEF SInv, RowsNumbered, CountedSound, KnowsWhatIsStored

LEMMA SubmitCreateSInv ==
    ASSUME Serial, SInv, NEW p \in Slots, SubmitCreate(p)
    PROVE  /\ RowsNumbered' /\ CountedSound' /\ KnowsWhatIsStored(p)'
           /\ attempts' \ Uncounted' = attempts \ Uncounted
<1>1. PICK id \in NewRowIds :
         attempts' = attempts \cup {[id |-> id, nth |-> inserted + 1, answer |-> req[p].answer]}
  BY DEF SubmitCreate
<1> DEFINE row == [id |-> id, nth |-> inserted + 1, answer |-> req[p].answer]
<1>2. row.id = id /\ row.nth = inserted + 1 /\ row.answer = req[p].answer
  OBVIOUS
<1>3. attempts' = attempts \cup {row}
  BY <1>1
<1> HIDE DEF row
<1>4. id \in Nat /\ inserted \in Nat /\ \A a \in attempts : a.id < id
  BY LearningAssumption DEF NewRowIds, SInv, IInv, TypeOK
<1>5. \A a \in attempts : a.nth \in Nat /\ a.id \in Nat /\ a.nth <= inserted
  BY AttemptFacts DEF SInv, RowsNumbered
<1>6. /\ srs' = srs /\ inserted' = inserted + 1 /\ retiredAt' = retiredAt /\ streak' = streak
  BY DEF SubmitCreate, counts
<1>7. req[p] \in SubmitReq /\ req[p].pc = "create"
  BY SubmissionFacts DEF SubmitCreate, SInv
<1>8. req'[p].pc = "get" /\ req'[p].answer = req[p].answer
  BY <1>7 DEF SubmitCreate, SInv, IInv, TypeOK, SubmitReq
<1>9. RowsNumbered'
  <2>1. \A a \in attempts' : a.nth <= inserted'
    BY <1>2, <1>3, <1>4, <1>5, <1>6
  <2>2. ASSUME NEW a \in attempts', NEW b \in attempts', a.nth = b.nth \/ a.id = b.id
        PROVE  a = b
    <3>1. CASE a \in attempts /\ b \in attempts
      BY <2>2, <3>1 DEF SInv, RowsNumbered
    <3>2. CASE a = row /\ b \in attempts
      BY <1>2, <1>4, <1>5, <2>2, <3>2
    <3>3. CASE a \in attempts /\ b = row
      BY <1>2, <1>4, <1>5, <2>2, <3>3
    <3> QED
      BY <1>3, <3>1, <3>2, <3>3
  <2> QED
    BY <2>1, <2>2 DEF RowsNumbered
<1>10. Uncounted = {} /\ attempts' \ Uncounted' = attempts
  <2>1. Uncounted = {} /\ Uncounted' = {a \in attempts' : a.nth = inserted'}
    BY <1>7, <1>8, OnlyRequest
  <2>2. \A a \in attempts : a.nth # inserted'
    BY <1>4, <1>5, <1>6
  <2> QED
    BY <1>2, <1>3, <1>6, <2>1, <2>2
<1>11. CountedSound'
  BY <1>6, <1>10 DEF SInv, CountedSound
<1>12. KnowsWhatIsStored(p)'
  BY <1>2, <1>3, <1>4, <1>5, <1>6, <1>8 DEF KnowsWhatIsStored
<1> QED
  BY <1>9, <1>10, <1>11, <1>12

LEMMA SubmitGetSInv ==
    ASSUME Serial, SInv, NEW p \in Slots, SubmitGet(p)
    PROVE  RowsNumbered' /\ CountedSound' /\ KnowsWhatIsStored(p)'
<1>1. /\ attempts' = attempts /\ srs' = srs /\ inserted' = inserted /\ retiredAt' = retiredAt
      /\ streak' = streak
  BY DEF SubmitGet, tables, ghosts, counts
<1>2. req[p] \in SubmitReq /\ req[p].pc = "get"
  BY SubmissionFacts DEF SubmitGet, SInv
<1>3. /\ req'[p].pc = "upsert" /\ req'[p].answer = req[p].answer
      /\ req'[p].state = ReadState(req[p].answer)
  BY <1>2 DEF SubmitGet, SInv, IInv, TypeOK, SubmitReq
<1>4. Uncounted' = Uncounted
  BY <1>1, <1>2, <1>3, OnlyRequest
<1>5. RowsNumbered' /\ CountedSound'
  BY <1>1, <1>4 DEF SInv, RowsNumbered, CountedSound
<1>6. KnowsWhatIsStored(p)'
  BY <1>1, <1>2, <1>3 DEF SInv, KnowsWhatIsStored, ReadState
<1> QED
  BY <1>5, <1>6

LEMMA SubmitUpsertSInv ==
    ASSUME Serial, SInv, NEW p \in Slots, SubmitUpsert(p)
    PROVE  RowsNumbered' /\ CountedSound' /\ KnowsWhatIsStored(p)'
<1> DEFINE a == req[p].answer
           g == GradeFromResult(a.correct, req[p].dur)
<1>1. req[p].pc = "upsert" /\ a.user \in Users /\ a.question \in Questions
  BY SubmissionFacts DEF SubmitUpsert, SInv
<1>2. (g >= GradeSlow) <=> a.correct
  BY SubmitUpsertWrites DEF SInv
<1>3. PICK s \in State :
         /\ srs' = [srs EXCEPT ![a.user][a.question] = s]
         /\ s.rep = IF g >= GradeSlow THEN req[p].state.rep + 1 ELSE 0
  BY SubmitUpsertWrites DEF SInv
<1>4. /\ streak' = [streak EXCEPT ![a.user][a.question] = IF a.correct THEN @ + 1 ELSE 0]
      /\ attempts' = attempts /\ inserted' = inserted /\ retiredAt' = retiredAt
      /\ req' = [req EXCEPT ![p] = IdleReq]
  BY DEF SubmitUpsert
<1>5. req[p].state = ReadState(a)
  BY <1>1 DEF SInv, KnowsWhatIsStored
<1>6. streak[a.user][a.question] = req[p].state.rep
  <2>1. streak[a.user][a.question] =
          IF srs[a.user][a.question] = NoState THEN 0 ELSE srs[a.user][a.question].rep
    BY <1>1 DEF SInv, CountedSound
  <2>2. NewState(a.at).rep = 0
    BY DEF NewState
  <2> QED
    BY <1>5, <2>1, <2>2 DEF ReadState
<1>7. Uncounted = {b \in attempts : b.nth = inserted}
  BY <1>1, OnlyRequest
<1>8. \A b \in Uncounted : b.answer = a
  BY <1>1, <1>7 DEF SInv, KnowsWhatIsStored
<1> HIDE DEF a, g
<1>9. s # NoState
  BY LearningAssumption
<1>10. /\ srs'[a.user][a.question] = s
       /\ \A u \in Users, q \in Questions :
             u # a.user \/ q # a.question => srs'[u][q] = srs[u][q]
  BY <1>1, <1>3 DEF SInv, IInv, TypeOK
<1>11. ASSUME NEW b \in attempts', b.nth > retiredAt'[b.answer.question]
       PROVE  srs'[b.answer.user][b.answer.question] # NoState
  <2>1. b \in attempts /\ b.answer.user \in Users /\ b.answer.question \in Questions
    BY <1>4, AttemptFacts DEF SInv
  <2>2. CASE b \in Uncounted
    BY <1>8, <1>9, <1>10, <2>2
  <2>3. CASE b \notin Uncounted
    <3>1. srs[b.answer.user][b.answer.question] # NoState
      BY <1>4, <1>11, <2>1, <2>3 DEF SInv, CountedSound
    <3> QED
      BY <1>9, <1>10, <2>1, <3>1
  <2> QED
    BY <2>2, <2>3
<1>12. ASSUME NEW u \in Users, NEW q \in Questions
       PROVE  streak'[u][q] = IF srs'[u][q] = NoState THEN 0 ELSE srs'[u][q].rep
  <2>1. CASE u = a.user /\ q = a.question
    <3>1. streak'[u][q] = IF a.correct THEN streak[u][q] + 1 ELSE 0
      BY <1>1, <1>4, <2>1 DEF SInv, IInv, TypeOK
    <3> QED
      BY <1>2, <1>3, <1>6, <1>9, <1>10, <2>1, <3>1
  <2>2. CASE u # a.user \/ q # a.question
    <3>1. streak'[u][q] = streak[u][q]
      BY <1>1, <1>4, <2>2 DEF SInv, IInv, TypeOK
    <3> QED
      BY <1>10, <2>2, <3>1 DEF SInv, CountedSound
  <2> QED
    BY <2>1, <2>2
<1>13. CountedSound'
  BY <1>11, <1>12 DEF CountedSound
<1>14. RowsNumbered'
  BY <1>4 DEF SInv, RowsNumbered
<1>15. KnowsWhatIsStored(p)'
  BY <1>4 DEF SInv, IInv, TypeOK, KnowsWhatIsStored, IdleReq
<1> QED
  BY <1>13, <1>14, <1>15

LEMMA ClearAttemptsSInv ==
    ASSUME Serial, SInv, NEW p \in Slots, ClearAttempts(p)
    PROVE  RowsNumbered' /\ CountedSound' /\ KnowsWhatIsStored(p)'
<1>1. PICK u \in Users : /\ attempts' = attempts \ RowsOf(u)
                         /\ req' = [req EXCEPT ![p] = [pc |-> "clear", user |-> u]]
  BY DEF ClearAttempts
<1>2. /\ srs' = srs /\ inserted' = inserted /\ retiredAt' = retiredAt /\ streak' = streak
      /\ req[p].pc = "idle"
  BY DEF ClearAttempts, ghosts, counts, IdleReq
<1>3. req'[p].pc = "clear" /\ req'[p].user = u
  BY <1>1 DEF SInv, IInv, TypeOK
<1>4. Uncounted = {} /\ Uncounted' = {}
  BY <1>2, <1>3, OnlyRequest
<1>5. RowsNumbered'
  BY <1>1, <1>2 DEF SInv, RowsNumbered
<1>6. CountedSound'
  BY <1>1, <1>2, <1>4 DEF SInv, CountedSound
<1>7. KnowsWhatIsStored(p)'
  BY <1>1, <1>3 DEF KnowsWhatIsStored, RowsOf
<1> QED
  BY <1>5, <1>6, <1>7

LEMMA ClearStatesSInv ==
    ASSUME Serial, SInv, NEW p \in Slots, ClearStates(p)
    PROVE  RowsNumbered' /\ CountedSound' /\ KnowsWhatIsStored(p)'
<1> DEFINE u == req[p].user
<1>1. /\ srs' = [srs EXCEPT ![u] = [q \in Questions |-> NoState]]
      /\ streak' = [streak EXCEPT ![u] = [q \in Questions |-> 0]]
      /\ req' = [req EXCEPT ![p] = IdleReq]
      /\ attempts' = attempts /\ inserted' = inserted /\ retiredAt' = retiredAt
  BY DEF ClearStates
<1>2. req[p].pc = "clear" /\ u \in Users /\ req'[p] = IdleReq
  BY <1>1, RequestKinds DEF ClearStates, ClearReq, SInv, IInv, TypeOK
<1>3. Uncounted = {} /\ Uncounted' = {}
  BY <1>2, OnlyRequest DEF IdleReq
<1>4. \A b \in attempts : b.answer.user # u
  BY <1>2 DEF SInv, KnowsWhatIsStored, RowsOf
<1> HIDE DEF u
<1>5. \A v \in Users, q \in Questions :
         /\ srs'[v][q] = IF v = u THEN NoState ELSE srs[v][q]
         /\ streak'[v][q] = IF v = u THEN 0 ELSE streak[v][q]
  BY <1>1, <1>2 DEF SInv, IInv, TypeOK
<1>6. CountedSound'
  <2>1. ASSUME NEW b \in attempts' \ Uncounted', b.nth > retiredAt'[b.answer.question]
        PROVE  srs'[b.answer.user][b.answer.question] # NoState
    <3>1. /\ b \in attempts \ Uncounted
          /\ b.answer.user \in Users /\ b.answer.question \in Questions
      BY <1>1, <1>3, AttemptFacts DEF SInv
    <3>2. srs[b.answer.user][b.answer.question] # NoState
      BY <1>1, <2>1, <3>1 DEF SInv, CountedSound
    <3> QED
      BY <1>4, <1>5, <3>1, <3>2
  <2>2. ASSUME NEW v \in Users, NEW q \in Questions
        PROVE  streak'[v][q] = IF srs'[v][q] = NoState THEN 0 ELSE srs'[v][q].rep
    BY <1>5 DEF SInv, CountedSound
  <2> QED
    BY <2>1, <2>2 DEF CountedSound
<1>7. RowsNumbered'
  BY <1>1 DEF SInv, RowsNumbered
<1>8. KnowsWhatIsStored(p)'
  BY <1>2 DEF KnowsWhatIsStored, IdleReq
<1> QED
  BY <1>6, <1>7, <1>8

(* The server is only stopped when the request has ended.                   *)
LEMMA RestartSInv ==
    ASSUME Serial, SInv, Restart
    PROVE  RowsNumbered' /\ CountedSound' /\ \A p \in Slots : KnowsWhatIsStored(p)'
<1>1. PICK newBank \in SUBSET Questions :
         /\ srs' = Retire(newBank)
         /\ streak' = [u \in Users |->
                         [q \in Questions |-> IF q \in newBank THEN streak[u][q] ELSE 0]]
         /\ retiredAt' = [q \in Questions |->
                            IF q \in newBank THEN retiredAt[q] ELSE inserted]
  BY DEF Restart
<1>2. /\ attempts' = attempts /\ inserted' = inserted
      /\ \A p \in Slots : req[p] = IdleReq /\ req'[p] = IdleReq
  BY DEF Restart, Serial, Quiet
<1>3. Uncounted = {} /\ Uncounted' = {}
  BY <1>2 DEF Uncounted, IdleReq
<1>4. \A u \in Users, q \in Questions :
         /\ srs'[u][q] = IF q \in newBank THEN srs[u][q] ELSE NoState
         /\ streak'[u][q] = IF q \in newBank THEN streak[u][q] ELSE 0
  BY <1>1 DEF Retire
<1>5. CountedSound'
  <2>1. ASSUME NEW b \in attempts' \ Uncounted', b.nth > retiredAt'[b.answer.question]
        PROVE  srs'[b.answer.user][b.answer.question] # NoState
    <3>1. /\ b \in attempts \ Uncounted /\ b.nth \in Nat /\ inserted \in Nat
          /\ b.answer.user \in Users /\ b.answer.question \in Questions
      BY <1>2, <1>3, AttemptFacts DEF SInv
    <3>2. b.nth <= inserted
      BY <3>1 DEF SInv, RowsNumbered
    <3>3. b.answer.question \in newBank
      BY <1>1, <2>1, <3>1, <3>2
    <3>4. srs[b.answer.user][b.answer.question] # NoState
      BY <1>1, <2>1, <3>1, <3>3 DEF SInv, CountedSound
    <3> QED
      BY <1>4, <3>1, <3>3, <3>4
  <2>2. ASSUME NEW v \in Users, NEW q \in Questions
        PROVE  streak'[v][q] = IF srs'[v][q] = NoState THEN 0 ELSE srs'[v][q].rep
    BY <1>4 DEF SInv, CountedSound
  <2> QED
    BY <2>1, <2>2 DEF CountedSound
<1>6. RowsNumbered'
  BY <1>2 DEF SInv, RowsNumbered
<1>7. \A p \in Slots : KnowsWhatIsStored(p)'
  BY <1>2 DEF KnowsWhatIsStored, IdleReq
<1> QED
  BY <1>5, <1>6, <1>7

(* Rows may be deleted at any moment.                                       *)
LEMMA OtherStepsSInv ==
    ASSUME SInv, (\E u \in Readers : History(u) \/ DeleteAttempt(u)) \/ Tick \/ UNCHANGED vars
    PROVE  RowsNumbered' /\ CountedSound' /\ \A p \in Slots : KnowsWhatIsStored(p)'
<1>1. /\ attempts' \subseteq attempts /\ srs' = srs /\ req' = req /\ inserted' = inserted
      /\ streak' = streak /\ retiredAt' = retiredAt
  BY DEF History, DeleteAttempt, Tick, vars, tables, ghosts, counts
<1>2. Uncounted' = attempts' \cap Uncounted
  BY <1>1 DEF Uncounted
<1>3. RowsNumbered' /\ CountedSound'
  BY <1>1, <1>2 DEF SInv, RowsNumbered, CountedSound
<1>4. ASSUME NEW p \in Slots
      PROVE  KnowsWhatIsStored(p)'
  BY <1>1 DEF SInv, KnowsWhatIsStored, ReadState, RowsOf
<1> QED
  BY <1>3, <1>4

LEMMA NextSInv ==
    ASSUME Serial, SInv, [Next]_vars
    PROVE  SInv'
<1>1. IInv'
  BY NextIInv DEF SInv
<1>2. ASSUME NEW p \in Slots,
             \/ SubmitBegin(p) \/ SubmitCreate(p) \/ SubmitGet(p) \/ SubmitUpsert(p)
             \/ ClearAttempts(p) \/ ClearStates(p)
      PROVE  SInv'
  <2>1. RowsNumbered' /\ CountedSound' /\ KnowsWhatIsStored(p)'
    BY <1>2, SubmitBeginSInv, SubmitCreateSInv, SubmitGetSInv, SubmitUpsertSInv,
       ClearAttemptsSInv, ClearStatesSInv
  <2>2. \A o \in Slots : o = p
    BY OnlyRequest
  <2> QED
    BY <1>1, <2>1, <2>2 DEF SInv
<1>3. CASE Restart
  BY <1>1, <1>3, RestartSInv DEF SInv
<1>4. CASE (\E u \in Readers : History(u) \/ DeleteAttempt(u)) \/ Tick \/ UNCHANGED vars
  BY <1>1, <1>4, OtherStepsSInv DEF SInv
<1>5. ~\E p \in Slots : Abort(p)
  BY DEF Abort, Serial
<1> QED
  BY <1>2, <1>3, <1>4, <1>5 DEF Next

-----------------------------------------------------------------------------
(* Requests that neither overlap nor fail keep the serial invariant.        *)
THEOREM SerialInvariant ==
    ASSUME Serial
    PROVE  Spec => []SInv
<1>1. SInv /\ [Next]_vars => SInv'
  BY NextSInv
<1> QED
  BY <1>1, InitSInv, PTL DEF Spec

(* Once the request has ended, an attempt made since its question last left *)
(* the bank has a learning state beside it (Submit's Create and Upsert).    *)
THEOREM SerialRecordedInBoth ==
    ASSUME Serial
    PROVE  Spec => []RecordedInBoth
<1>1. ASSUME SInv
      PROVE  RecordedInBoth
  <2> SUFFICES ASSUME Quiet, NEW a \in attempts, a.nth > retiredAt[a.answer.question]
               PROVE  srs[a.answer.user][a.answer.question] # NoState
    BY DEF RecordedInBoth
  <2>1. Uncounted = {}
    BY DEF Uncounted, Quiet, IdleReq
  <2> QED
    BY <1>1, <2>1 DEF SInv, CountedSound
<1>2. SInv => RecordedInBoth
  BY <1>1
<1> QED
  BY <1>2, SerialInvariant, PTL

(* The passes of a learning state are the correct answers since the last    *)
(* wrong one, clear or retirement: no answer is forgotten (Submit's Get and *)
(* Upsert), and none survives a clear (DeleteAllForUser).                   *)
THEOREM SerialEveryAnswerCounts ==
    ASSUME Serial
    PROVE  Spec => []EveryAnswerCounts
<1>1. SInv => EveryAnswerCounts
  BY DEF SInv, CountedSound, EveryAnswerCounts
<1> QED
  BY <1>1, SerialInvariant, PTL

-----------------------------------------------------------------------------
(* The record that the user sees                                            *)

Entries == {[nth |-> a.nth, answer |-> a.answer] : a \in attempts \ Uncounted}
States == [u \in Users |-> IF u \in Cleared THEN [q \in Questions |-> NoState] ELSE srs[u]]

(* Both modules have the rule from SM2.                                     *)
LEMMA SameRule ==
    /\ \A s, g, now : Record!Advance(s, g, now) = Advance(s, g, now)
    /\ \A now : Record!NewState(now) = NewState(now)
BY DEF Advance, Record!Advance, NextEase, Record!NextEase, EaseDelta, Record!EaseDelta,
       NextRep, Record!NextRep, NextIntervals, Record!NextIntervals, Rounded, Record!Rounded,
       NewState, Record!NewState, GradeSlow, Record!GradeSlow, MinEF, Record!MinEF,
       InitialEF, Record!InitialEF, GradeWorst, Record!GradeWorst

(* The grade of an answer is one its correctness leaves open.               *)
LEMMA GradeLeftOpen ==
    ASSUME NEW correct \in BOOLEAN, NEW dur \in Int
    PROVE  GradeFromResult(correct, dur) \in Record!GradesOf(correct)
BY DEF GradeFromResult, Record!GradesOf, Record!GradeSlow, Record!GradePerfect,
       Record!GradeWorst, GradeSlow, GradePerfect, GradeWorst, GradeGood

(* A step that leaves the entries and the states alone is a stutter of the  *)
(* record; the others are its actions.                                      *)
LEMMA Stutters ==
    ASSUME Entries' = Entries, States' = States
    PROVE  [Record!Next]_(Record!vars)
BY DEF Record!vars, Entries, States

LEMMA Erases ==
    ASSUME NEW e \in Entries, Entries' = Entries \ {e}, States' = States
    PROVE  [Record!Next]_(Record!vars)
BY DEF Record!Next, Record!Erase, Entries, States

LEMMA Clears ==
    ASSUME NEW u \in Users, Entries' = {e \in Entries : e.answer.user # u},
           States' = [States EXCEPT ![u] = [q \in Questions |-> NoState]]
    PROVE  [Record!Next]_(Record!vars)
BY DEF Record!Next, Record!Clear, Entries, States

LEMMA Releases ==
    ASSUME NEW kept \in SUBSET Questions, Entries' = Entries,
           States' = [u \in Users |->
                        [q \in Questions |-> IF q \in kept THEN States[u][q] ELSE NoState]]
    PROVE  [Record!Next]_(Record!vars)
BY DEF Record!Next, Record!Release, Entries, States

(* What the rule makes of an answer given at that time.                     *)
Outcomes(u, q, correct, at) ==
    UNION {Advance(IF States[u][q] = NoState THEN NewState(at) ELSE States[u][q], g, at) :
              g \in Record!GradesOf(correct)}

LEMMA Records ==
    ASSUME NEW e \in Entries' \ Entries, Entries' = Entries \cup {e},
           NEW t \in Outcomes(e.answer.user, e.answer.question, e.answer.correct, e.answer.at),
           States' = [States EXCEPT ![e.answer.user][e.answer.question] = t]
    PROVE  [Record!Next]_(Record!vars)
<1> DEFINE u == e.answer.user
           q == e.answer.question
<1>1. PICK g \in Record!GradesOf(e.answer.correct) :
         t \in Advance(IF States[u][q] = NoState THEN NewState(e.answer.at) ELSE States[u][q],
                       g, e.answer.at)
  BY DEF Outcomes
<1>2. Record!Counted(u, q, e.answer.correct, e.answer.at)
  BY <1>1, SameRule DEF Record!Counted, States
<1> QED
  BY <1>2 DEF Record!Next, Record!Record, Entries, States

LEMMA RecordsErased ==
    ASSUME NEW u \in Users, NEW q \in Questions, NEW correct \in BOOLEAN, Entries' = Entries,
           NEW t, NEW at, t \in Outcomes(u, q, correct, at), t # NoState, t.updated = at,
           States'[u][q] = t, States' = [States EXCEPT ![u][q] = t]
    PROVE  [Record!Next]_(Record!vars)
<1>1. PICK g \in Record!GradesOf(correct) :
         t \in Advance(IF States[u][q] = NoState THEN NewState(at) ELSE States[u][q], g, at)
  BY DEF Outcomes
<1>2. Record!Counted(u, q, correct, States'[u][q].updated)
  BY <1>1, SameRule DEF Record!Counted, States
<1> QED
  BY <1>2 DEF Record!Next, Record!RecordErased, Entries, States

(* Steps that neither count an answer nor clear.                            *)
LEMMA UncountedSteps ==
    ASSUME Serial, SInv, NEW p \in Slots, SubmitBegin(p) \/ SubmitCreate(p) \/ SubmitGet(p)
    PROVE  [Record!Next]_(Record!vars)
<1>1. /\ req[p].pc # "clear" /\ req'[p].pc # "clear"
      /\ ~SubmitCreate(p) =>
            (req[p].pc \in {"get", "upsert"} <=> req'[p].pc \in {"get", "upsert"})
  <2>1. CASE SubmitBegin(p)
    BY <2>1 DEF SubmitBegin, IdleReq, SInv, IInv, TypeOK
  <2>2. CASE SubmitCreate(p)
    <3>1. req[p] \in SubmitReq
      BY <2>2, SubmissionFacts DEF SubmitCreate, SInv
    <3> QED
      BY <2>2, <3>1 DEF SubmitCreate, SubmitReq, SInv, IInv, TypeOK
  <2>3. CASE SubmitGet(p)
    <3>1. req[p] \in SubmitReq
      BY <2>3, SubmissionFacts DEF SubmitGet, SInv
    <3> QED
      BY <2>3, <3>1 DEF SubmitGet, SubmitReq, SInv, IInv, TypeOK
  <2> QED
    BY <2>1, <2>2, <2>3
<1>2. attempts' \ Uncounted' = attempts \ Uncounted
  <2>1. CASE SubmitCreate(p)
    BY <2>1, SubmitCreateSInv
  <2>2. CASE ~SubmitCreate(p)
    <3>1. attempts' = attempts /\ inserted' = inserted
      BY <2>2 DEF SubmitBegin, SubmitGet, tables, ghosts
    <3>2. req[p].pc \in {"get", "upsert"} <=> req'[p].pc \in {"get", "upsert"}
      BY <1>1, <2>2
    <3> QED
      BY <3>1, <3>2, OnlyRequest
  <2> QED
    BY <2>1, <2>2
<1>3. srs' = srs
  BY DEF SubmitBegin, SubmitCreate, SubmitGet, tables
<1>4. Cleared = {} /\ Cleared' = {}
  BY <1>1, OnlyRequest
<1>5. Entries' = Entries
  BY <1>2 DEF Entries
<1>6. States' = States
  BY <1>3, <1>4 DEF States
<1> QED
  BY <1>5, <1>6, Stutters

(* The state is written: from now on the answer counts.                     *)
LEMMA UpsertRecords ==
    ASSUME Serial, SInv, NEW p \in Slots, SubmitUpsert(p)
    PROVE  [Record!Next]_(Record!vars)
<1> DEFINE a == req[p].answer
           g == GradeFromResult(a.correct, req[p].dur)
<1>1. /\ req[p] \in SubmitReq /\ req[p].pc = "upsert"
      /\ a.user \in Users /\ a.question \in Questions
  BY SubmissionFacts DEF SubmitUpsert, SInv
<1>2. a.correct \in BOOLEAN /\ req[p].dur \in Int
  BY <1>1, LearningAssumption DEF SubmitReq, Answer
<1>3. g \in Record!GradesOf(a.correct)
  BY <1>2, GradeLeftOpen
<1>4. PICK t \in WriteStates(req[p]) : srs' = [srs EXCEPT ![a.user][a.question] = t]
  BY DEF SubmitUpsert
<1>5. req[p].state = ReadState(a)
  BY <1>1 DEF SInv, KnowsWhatIsStored
<1>6. t \in Advance(ReadState(a), g, a.at)
  BY <1>4, <1>5 DEF WriteStates
<1>7. t \in State /\ t.updated = a.at
  <2>1. PICK s \in State : /\ srs' = [srs EXCEPT ![a.user][a.question] = s]
                           /\ s.updated = a.at
    BY SubmitUpsertWrites DEF SInv
  <2>2. srs'[a.user][a.question] = s /\ srs'[a.user][a.question] = t
    BY <1>1, <1>4, <2>1 DEF SInv, IInv, TypeOK
  <2> QED
    BY <2>1, <2>2
<1>8. /\ attempts' = attempts /\ inserted' = inserted
      /\ req'[p] = IdleReq
  BY DEF SubmitUpsert, SInv, IInv, TypeOK
<1>9. /\ Uncounted = {b \in attempts : b.nth = inserted} /\ Uncounted' = {}
      /\ Cleared = {} /\ Cleared' = {}
  BY <1>1, <1>8, OnlyRequest DEF IdleReq
<1>10. \A b \in Uncounted : b.answer = a
  BY <1>1, <1>9 DEF SInv, KnowsWhatIsStored
<1>11. States = srs /\ States' = srs'
  BY <1>9 DEF States, SInv, IInv, TypeOK, SubmitUpsert
<1>12. ReadState(a) = IF States[a.user][a.question] = NoState THEN NewState(a.at)
                     ELSE States[a.user][a.question]
  BY <1>11 DEF ReadState
<1> HIDE DEF a, g
<1>13. /\ t \in Outcomes(a.user, a.question, a.correct, a.at)
       /\ States' = [States EXCEPT ![a.user][a.question] = t]
  BY <1>3, <1>4, <1>6, <1>11, <1>12 DEF Outcomes
<1>14. CASE Uncounted = {}
  <2>1. Entries' = Entries
    BY <1>8, <1>9, <1>14 DEF Entries
  <2>2. States'[a.user][a.question] = t
    BY <1>1, <1>4, <1>11 DEF SInv, IInv, TypeOK
  <2>3. t # NoState
    BY <1>7, LearningAssumption
  <2> QED
    BY <1>1, <1>2, <1>7, <1>13, <2>1, <2>2, <2>3, RecordsErased
<1>15. ASSUME NEW b \in Uncounted
       PROVE  [Record!Next]_(Record!vars)
  <2> DEFINE entry(x) == [nth |-> x.nth, answer |-> x.answer]
  <2>1. b \in attempts /\ b.nth = inserted /\ b.answer = a
    BY <1>9, <1>10
  <2>2. Uncounted = {b}
    BY <1>9, <2>1 DEF SInv, RowsNumbered
  <2>3. Entries = {entry(x) : x \in attempts \ {b}}
    BY <2>2 DEF Entries
  <2>4. Entries' = {entry(x) : x \in attempts}
    BY <1>8, <1>9 DEF Entries
  <2>5. entry(b) \in Entries' \ Entries /\ entry(b).answer = a
    <3>1. \A x \in attempts \ {b} : x.nth # b.nth
      BY <2>1 DEF SInv, RowsNumbered
    <3>2. \A x \in attempts \ {b} : entry(x) # entry(b)
      BY <3>1
    <3> QED
      BY <2>1, <2>3, <2>4, <3>2
  <2>6. Entries' = Entries \cup {entry(b)}
    BY <2>1, <2>3, <2>4
  <2> HIDE DEF entry
  <2> QED
    BY <1>13, <2>5, <2>6, Records
<1> QED
  BY <1>14, <1>15

LEMMA ClearClears ==
    ASSUME Serial, SInv, NEW p \in Slots, ClearAttempts(p)
    PROVE  [Record!Next]_(Record!vars)
<1>1. PICK u \in Users : /\ attempts' = attempts \ RowsOf(u)
                         /\ req' = [req EXCEPT ![p] = [pc |-> "clear", user |-> u]]
  BY DEF ClearAttempts
<1>2. srs' = srs /\ req[p].pc = "idle" /\ req'[p].pc = "clear" /\ req'[p].user = u
  BY <1>1 DEF ClearAttempts, IdleReq, SInv, IInv, TypeOK
<1>3. Uncounted = {} /\ Uncounted' = {} /\ Cleared = {} /\ Cleared' = {u}
  BY <1>2, OnlyRequest
<1>4. Entries' = {e \in Entries : e.answer.user # u}
  <2>1. Entries = {[nth |-> a.nth, answer |-> a.answer] : a \in attempts}
    BY <1>3 DEF Entries
  <2>2. Entries' = {[nth |-> a.nth, answer |-> a.answer] :
                       a \in {b \in attempts : b.answer.user # u}}
    BY <1>1, <1>3 DEF Entries, RowsOf
  <2> QED
    BY <2>1, <2>2
<1>5. States' = [States EXCEPT ![u] = [q \in Questions |-> NoState]]
  BY <1>2, <1>3 DEF States
<1> QED
  BY <1>4, <1>5, Clears

(* The record was already cleared when its attempts went.                   *)
LEMMA ClearStatesStutters ==
    ASSUME Serial, SInv, NEW p \in Slots, ClearStates(p)
    PROVE  [Record!Next]_(Record!vars)
<1>1. /\ req[p].pc = "clear" /\ req[p].user \in Users /\ req'[p] = IdleReq
      /\ attempts' = attempts
      /\ srs' = [srs EXCEPT ![req[p].user] = [q \in Questions |-> NoState]]
  BY RequestKinds DEF ClearStates, ClearReq, SInv, IInv, TypeOK
<1>2. Uncounted = {} /\ Uncounted' = {} /\ Cleared = {req[p].user} /\ Cleared' = {}
  BY <1>1, OnlyRequest DEF IdleReq
<1>3. Entries' = Entries
  BY <1>1, <1>2 DEF Entries
<1>4. States' = States
  BY <1>1, <1>2 DEF States, SInv, IInv, TypeOK
<1> QED
  BY <1>3, <1>4, Stutters

LEMMA RestartReleases ==
    ASSUME Serial, SInv, Restart
    PROVE  [Record!Next]_(Record!vars)
<1>1. PICK newBank \in SUBSET Questions : srs' = Retire(newBank)
  BY DEF Restart
<1>2. attempts' = attempts /\ \A p \in Slots : req[p] = IdleReq /\ req'[p] = IdleReq
  BY DEF Restart, Serial, Quiet
<1>3. Uncounted = {} /\ Uncounted' = {} /\ Cleared = {} /\ Cleared' = {}
  BY <1>2 DEF Uncounted, Cleared, IdleReq
<1>4. Entries' = Entries
  BY <1>2, <1>3 DEF Entries
<1>5. States' = [u \in Users |->
                   [q \in Questions |-> IF q \in newBank THEN States[u][q] ELSE NoState]]
  BY <1>1, <1>3 DEF States, Retire
<1> QED
  BY <1>4, <1>5, Releases

(* A delete erases the entry of the one row with that id, or nothing if the *)
(* row does not count yet.                                                  *)
LEMMA DeleteErases ==
    ASSUME SInv, NEW u \in Readers, DeleteAttempt(u)
    PROVE  [Record!Next]_(Record!vars)
<1>1. PICK id : DeletableBy(u, id) # {} /\ attempts' = attempts \ DeletableBy(u, id)
  BY DEF DeleteAttempt
<1>2. PICK b \in attempts : b \in DeletableBy(u, id)
  BY <1>1 DEF DeletableBy
<1>3. attempts' = attempts \ {b}
  BY <1>1, <1>2 DEF DeletableBy, SInv, RowsNumbered
<1>4. srs' = srs /\ req' = req /\ inserted' = inserted
  BY DEF DeleteAttempt, ghosts
<1>5. Uncounted' = Uncounted \ {b} /\ Cleared' = Cleared
  BY <1>3, <1>4 DEF Uncounted, Cleared
<1>6. States' = States
  BY <1>4, <1>5 DEF States
<1>7. CASE b \in Uncounted
  <2>1. attempts' \ Uncounted' = attempts \ Uncounted
    BY <1>3, <1>5, <1>7
  <2>2. Entries' = Entries
    BY <2>1 DEF Entries
  <2> QED
    BY <1>6, <2>2, Stutters
<1>8. CASE b \notin Uncounted
  <2> DEFINE entry(x) == [nth |-> x.nth, answer |-> x.answer]
  <2>1. attempts' \ Uncounted' = (attempts \ Uncounted) \ {b}
    BY <1>3, <1>5, <1>8
  <2>2. Entries' = {entry(x) : x \in (attempts \ Uncounted) \ {b}}
    BY <2>1 DEF Entries
  <2>3. Entries = {entry(x) : x \in attempts \ Uncounted}
    BY DEF Entries
  <2>4. \A x \in attempts \ {b} : entry(x) # entry(b)
    <3>1. \A x \in attempts \ {b} : x.nth # b.nth
      BY DEF SInv, RowsNumbered
    <3> QED
      BY <3>1
  <2> HIDE DEF entry
  <2>5. entry(b) \in Entries /\ Entries' = Entries \ {entry(b)}
    BY <1>8, <2>2, <2>3, <2>4
  <2> QED
    BY <1>6, <2>5, Erases
<1> QED
  BY <1>7, <1>8

LEMMA QuietSteps ==
    ASSUME (\E u \in Readers : History(u)) \/ Tick \/ UNCHANGED vars
    PROVE  [Record!Next]_(Record!vars)
<1>1. attempts' = attempts /\ srs' = srs /\ req' = req /\ inserted' = inserted
  BY DEF History, Tick, vars, tables, ghosts
<1>2. Uncounted' = Uncounted /\ Cleared' = Cleared
  BY <1>1 DEF Uncounted, Cleared
<1>3. Entries' = Entries /\ States' = States
  BY <1>1, <1>2 DEF Entries, States
<1> QED
  BY <1>3, Stutters

(* Requests that neither overlap nor fail implement the record a user is    *)
(* promised: each submission, clear, delete and release has its whole       *)
(* effect in one step (Submit, DeleteAllForUser, Sync).                     *)
THEOREM SerialImplementsRecord ==
    ASSUME Serial
    PROVE  Spec => ImplementsRecord
<1>1. Init => Record!Init
  <2> SUFFICES ASSUME Init
               PROVE  Record!Init
    OBVIOUS
  <2>1. attempts = {} /\ srs = [u \in Users |-> [q \in Questions |-> NoState]]
        /\ Cleared = {}
    BY DEF Init, Cleared, IdleReq
  <2> QED
    BY <2>1 DEF Record!Init
<1>2. ASSUME SInv, [Next]_vars
      PROVE  [Record!Next]_(Record!vars)
  <2>1. ~\E p \in Slots : Abort(p)
    BY DEF Abort, Serial
  <2>2. ASSUME NEW p \in Slots,
               \/ SubmitBegin(p) \/ SubmitCreate(p) \/ SubmitGet(p) \/ SubmitUpsert(p)
               \/ ClearAttempts(p) \/ ClearStates(p)
        PROVE  [Record!Next]_(Record!vars)
    BY <1>2, <2>2, UncountedSteps, UpsertRecords, ClearClears, ClearStatesStutters
  <2>3. CASE Restart
    BY <1>2, <2>3, RestartReleases
  <2>4. ASSUME NEW u \in Readers, DeleteAttempt(u)
        PROVE  [Record!Next]_(Record!vars)
    BY <1>2, <2>4, DeleteErases
  <2>5. CASE (\E u \in Readers : History(u)) \/ Tick \/ UNCHANGED vars
    BY <2>5, QuietSteps
  <2> QED
    BY <1>2, <2>1, <2>2, <2>3, <2>4, <2>5 DEF Next
<1>3. SInv /\ [Next]_vars => [Record!Next]_(Record!vars)
  BY <1>2
<1> QED
  BY <1>1, <1>3, SerialInvariant, PTL DEF Spec, ImplementsRecord, Record!Spec
=============================================================================
