------------------------------ MODULE Learning ------------------------------
(***************************************************************************)
(* The learning record of the quiz: the attempts and srs_states tables and *)
(* the requests that change them (QuizService.Submit, DeleteAttempt,       *)
(* DeleteAllForUser, History), and the synchronisation of the question     *)
(* bank when the server starts (seed.Sync).                                *)
(*                                                                         *)
(* The database pool has one connection, so a statement is atomic; Submit  *)
(* and DeleteAllForUser issue several statements without a transaction, so *)
(* requests interleave between them.  A request that is served holds the   *)
(* values it has read so far.  The clock counts days.                      *)
(***************************************************************************)
EXTENDS SM2, FiniteSets

CONSTANTS
    Users,
    Questions,      \* the questions followed here; every bank has others besides
    Readers,        \* users who have a history page open
    Slots,          \* requests that may be in flight at the same time
    Durations,      \* answer times in ms that requests report
    NoState,        \* "no row": srs.Get found nothing
    Faults,         \* whether a statement may fail, a client go away, the server crash
    MaxClock,       \* bound: days the model runs
    MaxSubmits      \* bound: attempts ever inserted

ASSUME LearningAssumption ==
    /\ NoState \notin State
    /\ Readers \subseteq Users
    /\ Durations \subseteq Int
    /\ Faults \in BOOLEAN
    /\ MaxClock \in Nat
    /\ MaxSubmits \in Nat

VARIABLES
    bank,       \* those the running binary generates
    known,      \* those that have a row: Sync never deletes one
    clock,
    bootDay,    \* day of the last start of the server
    attempts,   \* the rows of attempts
    srs,        \* srs[u][q]: the row of srs_states with key (u, q), or NoState
    req,        \* req[p]: the request in flight in slot p
    view,       \* view[u]: the rows of the history page u has open
    answered,   \* ghost: every answer an attempt was ever inserted for
    inserted,   \* ghost: number of attempts ever inserted
    credited,   \* ghost: credited[u][q]: correct answers whose SRS write was done
    streak,     \* ghost: those since the last wrong answer, clear or retirement
    retiredAt   \* ghost: retiredAt[q]: attempts inserted before q last left the bank

tables == <<attempts, srs>>
counts == <<credited, streak>>
ghosts == <<answered, inserted, counts, retiredAt>>
vars == <<bank, known, clock, bootDay, tables, req, view, ghosts>>

Answer == [user : Users, question : Questions, correct : BOOLEAN, at : Nat]

(* A row of attempts.  nth, the rank of the insertion, is a ghost: it       *)
(* tells apart two rows that were given the same id.                       *)
Attempt == [id : Nat \ {0}, nth : Nat \ {0}, answer : Answer]

IdleReq == [pc |-> "idle"]
SubmitReq == [pc : {"create", "get", "upsert"}, answer : Answer, dur : Durations,
              state : State \cup {NoState}]
ClearReq == [pc : {"clear"}, user : Users]
Request == {IdleReq} \cup SubmitReq \cup ClearReq

Quiet == \A p \in Slots : req[p] = IdleReq

RowsOf(u) == {a \in attempts : a.answer.user = u}

(* SQLite gives a rowid table without AUTOINCREMENT the id after the       *)
(* largest one present: the id of a deleted last row is used again.        *)
NewRowIds ==
    {n \in 1 .. MaxSubmits :
        /\ \A a \in attempts : a.id < n
        /\ n = 1 \/ \E a \in attempts : a.id = n - 1}

(* Mutant: the owner is not part of the condition. *)
DeletableByAnyone(u, id) == {a \in attempts : a.id = id}

(* WHERE id = ? AND user_id = ? *)
DeletableBy(u, id) == {a \in attempts : a.id = id /\ a.answer.user = u}

(* Mutant: Sync only takes the questions out of the sets. *)
RetireMembersOnly(newBank) == srs

(* seed.Sync drops the learning state of a question that left the bank.    *)
Retire(newBank) ==
    [u \in Users |-> [q \in Questions |-> IF q \in newBank THEN srs[u][q] ELSE NoState]]

(* Mutant: every answer starts from the state of a question never answered.*)
ReadStateNew(a) == NewState(a.at)

(* The row a submission reads, or the state of a question never answered.  *)
ReadState(a) ==
    IF srs[a.user][a.question] = NoState THEN NewState(a.at)
    ELSE srs[a.user][a.question]

(* Mutant: the clock is read again for the SRS write. *)
WriteStatesAtWriteTime(r) ==
    Advance(r.state, GradeFromResult(r.answer.correct, r.dur), clock)

(* The rows a submission may write, from what it read.                     *)
WriteStates(r) ==
    Advance(r.state, GradeFromResult(r.answer.correct, r.dur), r.answer.at)

-----------------------------------------------------------------------------

Init ==
    /\ bank \in SUBSET Questions
    /\ known = bank
    /\ clock = 0
    /\ bootDay = 0
    /\ attempts = {}
    /\ srs = [u \in Users |-> [q \in Questions |-> NoState]]
    /\ req = [p \in Slots |-> IdleReq]
    /\ view = [u \in Users |-> {}]
    /\ answered = {}
    /\ inserted = 0
    /\ credited = [u \in Users |-> [q \in Questions |-> 0]]
    /\ streak = [u \in Users |-> [q \in Questions |-> 0]]
    /\ retiredAt = [q \in Questions |-> 0]

(* Submit, first part: the question has a row, so the answer is graded and *)
(* the time read.  A form rendered before the last start may name a        *)
(* question that is no longer in the bank.                                 *)
SubmitBegin(p) ==
    /\ req[p] = IdleReq
    /\ \E u \in Users, q \in known, c \in BOOLEAN, d \in Durations :
          req' = [req EXCEPT ![p] =
                    [pc |-> "create", dur |-> d, state |-> NoState,
                     answer |-> [user |-> u, question |-> q, correct |-> c, at |-> clock]]]
    /\ UNCHANGED <<bank, known, clock, bootDay, tables, view, ghosts>>

(* attempts.Create *)
SubmitCreate(p) ==
    /\ req[p].pc = "create"
    /\ inserted < MaxSubmits
    /\ \E id \in NewRowIds :
          attempts' = attempts \cup
                        {[id |-> id, nth |-> inserted + 1, answer |-> req[p].answer]}
    /\ req' = [req EXCEPT ![p].pc = "get"]
    /\ inserted' = inserted + 1
    /\ answered' = answered \cup {req[p].answer}
    /\ UNCHANGED <<bank, known, clock, bootDay, srs, view, counts, retiredAt>>

(* Mutant: a question never answered is an error. *)
SubmitGetMustExist(p) ==
    /\ req[p].pc = "get"
    /\ LET a == req[p].answer IN
          req' = [req EXCEPT ![p] =
                    IF srs[a.user][a.question] = NoState THEN IdleReq
                    ELSE [@ EXCEPT !.pc = "upsert", !.state = srs[a.user][a.question]]]
    /\ UNCHANGED <<bank, known, clock, bootDay, tables, view, ghosts>>

(* srs.Get; ErrNotFound starts from the initial state. *)
SubmitGet(p) ==
    /\ req[p].pc = "get"
    /\ req' = [req EXCEPT ![p].pc = "upsert", ![p].state = ReadState(req[p].answer)]
    /\ UNCHANGED <<bank, known, clock, bootDay, tables, view, ghosts>>

(* srs.Next and srs.Upsert, which replaces whatever row is there now. *)
SubmitUpsert(p) ==
    /\ req[p].pc = "upsert"
    /\ LET a == req[p].answer IN
          /\ \E s \in WriteStates(req[p]) : srs' = [srs EXCEPT ![a.user][a.question] = s]
          /\ credited' = [credited EXCEPT ![a.user][a.question] =
                            IF a.correct THEN @ + 1 ELSE @]
          /\ streak' = [streak EXCEPT ![a.user][a.question] =
                            IF a.correct THEN @ + 1 ELSE 0]
    /\ req' = [req EXCEPT ![p] = IdleReq]
    /\ UNCHANGED <<bank, known, clock, bootDay, attempts, view, answered, inserted, retiredAt>>

(* DeleteAllForUser: the attempts, and in a second statement the states. *)
ClearAttempts(p) ==
    /\ req[p] = IdleReq
    /\ \E u \in Users :
          /\ attempts' = attempts \ RowsOf(u)
          /\ req' = [req EXCEPT ![p] = [pc |-> "clear", user |-> u]]
    /\ UNCHANGED <<bank, known, clock, bootDay, srs, view, ghosts>>

ClearStates(p) ==
    /\ req[p].pc = "clear"
    /\ srs' = [srs EXCEPT ![req[p].user] = [q \in Questions |-> NoState]]
    /\ streak' = [streak EXCEPT ![req[p].user] = [q \in Questions |-> 0]]
    /\ req' = [req EXCEPT ![p] = IdleReq]
    /\ UNCHANGED <<bank, known, clock, bootDay, attempts, view, answered, inserted, credited,
                   retiredAt>>

(* A statement fails or the request's context is cancelled: the request    *)
(* ends where it is and nothing is undone.                                 *)
Abort(p) ==
    /\ Faults
    /\ req[p] # IdleReq
    /\ req' = [req EXCEPT ![p] = IdleReq]
    /\ UNCHANGED <<bank, known, clock, bootDay, tables, view, ghosts>>

(* The history page is one query. *)
History(u) ==
    /\ view' = [view EXCEPT ![u] = RowsOf(u)]
    /\ UNCHANGED <<bank, known, clock, bootDay, tables, req, ghosts>>

(* Delete one row of a history page, which may be out of date; a delete    *)
(* that matches no row answers 404 and changes nothing.                    *)
DeleteAttempt(u) ==
    /\ \E a \in view[u] :
          /\ DeletableBy(u, a.id) # {}
          /\ attempts' = attempts \ DeletableBy(u, a.id)
    /\ UNCHANGED <<bank, known, clock, bootDay, srs, req, view, ghosts>>

(* The server stops, with the requests in flight wherever they are when it *)
(* fails and after they ended when it is shut down, and starts again,      *)
(* perhaps as a release with another bank: Sync is one transaction that    *)
(* runs before any request is served.                                      *)
Restart ==
    /\ Faults \/ Quiet
    /\ \E newBank \in SUBSET Questions :
          /\ bank' = newBank
          /\ known' = known \cup newBank
          /\ srs' = Retire(newBank)
          /\ streak' = [u \in Users |->
                          [q \in Questions |-> IF q \in newBank THEN streak[u][q] ELSE 0]]
          /\ retiredAt' = [q \in Questions |->
                             IF q \in newBank THEN retiredAt[q] ELSE inserted]
    /\ bootDay' = clock
    /\ req' = [p \in Slots |-> IdleReq]
    /\ UNCHANGED <<clock, attempts, view, answered, inserted, credited>>

Tick ==
    /\ clock < MaxClock
    /\ clock' = clock + 1
    /\ UNCHANGED <<bank, known, bootDay, tables, req, view, ghosts>>

Next ==
    \/ \E p \in Slots :
          \/ SubmitBegin(p)
          \/ SubmitCreate(p)
          \/ SubmitGet(p)
          \/ SubmitUpsert(p)
          \/ ClearAttempts(p)
          \/ ClearStates(p)
          \/ Abort(p)
    \/ \E u \in Readers : History(u) \/ DeleteAttempt(u)
    \/ Restart
    \/ Tick

Spec == Init /\ [][Next]_vars
-----------------------------------------------------------------------------

(* The variables have their types. *)
TypeOK ==
    /\ bank \in SUBSET Questions
    /\ known \in SUBSET Questions
    /\ bank \subseteq known
    /\ clock \in Nat
    /\ bootDay \in Nat
    /\ attempts \in SUBSET Attempt
    /\ srs \in [Users -> [Questions -> State \cup {NoState}]]
    /\ req \in [Slots -> Request]
    /\ view \in [Users -> SUBSET Attempt]
    /\ answered \in SUBSET Answer
    /\ inserted \in Nat
    /\ credited \in [Users -> [Questions -> Nat]]
    /\ streak \in [Users -> [Questions -> Nat]]
    /\ retiredAt \in [Questions -> Nat]

(* Whatever interleaving of submissions, clears and restarts wrote it,     *)
(* every stored learning state is one the SM-2 rule can produce: due after *)
(* its interval, the factor above its floor, no repetition after a failing *)
(* grade, and from the second pass on each pass puts the next review at    *)
(* least two days further away (srs.Next over what Submit read).           *)
ScheduleSound ==
    \A u \in Users, q \in Questions :
        srs[u][q] # NoState => Scheduled(srs[u][q])

(* A learning state never counts more passes than the user has completed   *)
(* correct answers to that question: two overlapping submissions may lose  *)
(* a pass, none is counted twice (Submit's read, compute and Upsert).      *)
RepetitionsCredited ==
    \A u \in Users, q \in Questions :
        srs[u][q] # NoState => srs[u][q].rep <= credited[u][q]

(* Every stored learning state was written for an answer the same user     *)
(* gave to the same question, at the time the attempt carries and with its *)
(* correctness: Create comes before Upsert, and both use one now.          *)
SrsHasOrigin ==
    \A u \in Users, q \in Questions :
        srs[u][q] # NoState =>
            [user |-> u, question |-> q, correct |-> srs[u][q].grade >= GradeSlow,
             at |-> srs[u][q].updated] \in answered

(* A question that left the bank has a learning state only if it was       *)
(* answered since the server last started: Sync erased the older ones, and *)
(* no request of before the start can write one afterwards.                *)
RetiredRowsAreFresh ==
    \A u \in Users, q \in Questions \ bank :
        srs[u][q] # NoState => srs[u][q].updated >= bootDay

ReqSound(p) ==
    /\ req[p] \in SubmitReq => req[p].answer.at >= bootDay
    /\ req[p].pc \in {"get", "upsert"} => req[p].answer \in answered
    /\ req[p].pc = "upsert" =>
          /\ req[p].state \in State
          /\ Advanceable(req[p].state)
          /\ req[p].state.rep <= credited[req[p].answer.user][req[p].answer.question]

(* What a submission in flight holds is current enough to be written: its  *)
(* time is not before the last start, past Create its answer is among the  *)
(* attempts ever made, and the state it read counts no pass the user has   *)
(* not completed, although other requests may have written since.          *)
InFlightSound == \A p \in Slots : ReqSound(p)

Clearing(u) == \E p \in Slots : req'[p].pc = "clear" /\ req'[p].user = u /\ req[p] = IdleReq

ErasedByOwner ==
    /\ \A a \in attempts \ attempts' :
          \/ Clearing(a.answer.user)
          \/ \E b \in view[a.answer.user] : b.id = a.id
    /\ \A u \in Users, q \in Questions :
          srs[u][q] # NoState /\ srs'[u][q] = NoState =>
             \/ q \notin bank'
             \/ \E p \in Slots : req[p].pc = "clear" /\ req[p].user = u

(* A user's attempts disappear only when that user clears the history or   *)
(* deletes an id that a history page of the same user listed, however ids  *)
(* are used again in between; the learning states only when that user      *)
(* clears them or the question leaves the bank (the user_id conditions of  *)
(* DeleteByID and the two DeleteAllForUser).                               *)
OnlyOwnerErases == [][ErasedByOwner]_vars

(* A delete erases the row its user saw, not another that was given the    *)
(* same id later (the comment of AttemptRepo.DeleteByID: an attempt that   *)
(* does not exist any more is answered with ErrNotFound).                  *)
DeleteErasesWhatWasSeen ==
    [][ \A a \in attempts \ attempts' :
            Clearing(a.answer.user) \/ a \in view[a.answer.user] ]_vars

(* When no request is in flight, an attempt made since its question last   *)
(* left the bank has a learning state beside it (the design: an answer is  *)
(* recorded in the attempts and in the SRS state).                         *)
RecordedInBoth ==
    Quiet => \A a \in attempts :
        a.nth > retiredAt[a.answer.question] =>
            srs[a.answer.user][a.answer.question] # NoState

(* When no request is in flight, the passes a learning state counts are    *)
(* the correct answers since the last wrong one, clear or retirement: no   *)
(* answer is forgotten, and none survives a clear.                         *)
EveryAnswerCounts ==
    Quiet => \A u \in Users, q \in Questions :
        srs[u][q] # NoState => srs[u][q].rep = streak[u][q]

(* The record as its user sees it.  A submission counts when its state is  *)
(* written, so that the row of one in flight does not count yet; a clear   *)
(* counts when its attempts are gone.                                      *)
Uncounted == {a \in attempts : /\ a.nth = inserted
                               /\ \E p \in Slots : req[p].pc \in {"get", "upsert"}}
Cleared == {u \in Users : \E p \in Slots : req[p].pc = "clear" /\ req[p].user = u}

Record == INSTANCE LearningRecord WITH
    history <- {[nth |-> a.nth, answer |-> a.answer] : a \in attempts \ Uncounted},
    state <- [u \in Users |-> IF u \in Cleared THEN [q \in Questions |-> NoState]
                              ELSE srs[u]]

(* Requests that do not overlap and do not fail implement the record that  *)
(* a user is promised: whatever order submissions, clears, deletes and     *)
(* releases come in, each has its whole effect once or not at all (Submit, *)
(* DeleteAllForUser and Sync, over all their statements).                  *)
ImplementsRecord == Record!Spec
=============================================================================
