------------------------------ MODULE QuizPage ------------------------------
(***************************************************************************)
(* The quiz page: which set and mode a request gets (getQuiz,              *)
(* resolveQuizPrefs, UserPrefsRepo) and which question it is asked         *)
(* (QuizService.NextQuestion and its pickers), statement by statement.     *)
(*                                                                         *)
(* One tab or JSON API client of one user is followed through its          *)
(* requests.  The user's other tabs and clients run the same handlers;     *)
(* what this tab can see of them are the statements that write, each       *)
(* atomic and at any time: the actions Elsewhere.  Sets and their members  *)
(* do not change while the server runs.                                    *)
(***************************************************************************)
EXTENDS Integers, SequencesExt

CONSTANTS
    Questions,
    Sets,
    Members,        \* Members[s]: the questions of set s, by ord
    Topic,          \* Topic[q]
    CoreSet,        \* domain.SetCodeCore, the set of a user without preferences
    Queries,        \* the queries [set, mode] that tabs send; Unset where not given
    Unset,          \* no parameter, no row, no question, no set
    Faults,         \* whether a statement may fail
    MaxOthers       \* bound: entries of the history under other sets than CoreSet, or none

Modes == {"srs", "sequential", "random"}

ASSUME QuizPageAssumption ==
    /\ CoreSet \in Sets
    /\ Members \in [Sets -> Seq(Questions)]
    /\ \A s \in Sets : Members[s] # <<>> /\ IsInjective(Members[s])
    /\ Queries \subseteq [set : Sets \cup {Unset}, mode : Modes \cup {Unset}]
    /\ Unset \notin Sets \cup Modes \cup Questions
    /\ Faults \in BOOLEAN
    /\ MaxOthers \in Nat

VARIABLES
    prefs,      \* the row of user_prefs, or Unset
    history,    \* what attempts tells NextQuestion, see Entry
    scheduled,  \* the questions with a row in srs_states
    due,        \* those whose due_at has come
    tab         \* the tab: its page or its request in flight

vars == <<prefs, history, scheduled, due, tab>>

(* The selection asks of attempts which questions occur, and the latest    *)
(* overall and of a set.  So a history lists the pairs of question and set *)
(* that have an attempt, each at the place of its latest.                  *)
Entry == [q : Questions, set : Sets \cup {Unset}]

Prefs == [set : Sets, mode : Modes]
NoPage == [pc |-> "blank"]

-----------------------------------------------------------------------------
(* Reads of the record *)

SetMembers(s) == ToSet(Members[s])

Attempted == {history[i].q : i \in DOMAIN history}

(* ListByUser with limit 1 *)
LastQuestion == IF history = <<>> THEN Unset ELSE Last(history).q

(* LastQuestionIDInSet *)
LastInSet(s) ==
    LET i == SelectLastInSeq(history, LAMBDA e : e.set = s)
    IN  IF i = 0 THEN Unset ELSE history[i].q

(* WeakTopicIDs: topics with a wrong answer in the last seven days.  Which *)
(* topics of attempted questions these are depends on data left out here.  *)
WeakTopics == SUBSET {Topic[q] : q \in Attempted}

-----------------------------------------------------------------------------
(* Writes of the record *)

(* attempts.Create: the pair becomes the latest. *)
Appended(e) == Append(RemoveFirst(history, e), e)

(* The bound leaves room for every question of CoreSet beside the others:  *)
(* it never holds up who studies CoreSet, except in answers under no set.  *)
Bounded == Cardinality({i \in DOMAIN history' : history'[i].set # CoreSet}) <= MaxOthers

(* Deleting an attempt that was the latest of its pair takes the pair out, *)
(* or back to where its next attempt is.                                   *)
Deleted(i) ==
    {RemoveAt(history, i)} \cup {InsertAt(RemoveAt(history, i), j, history[i]) : j \in 1 .. i - 1}

-----------------------------------------------------------------------------
(* resolveQuizPrefs *)

FirstNonEmpty(seq) == seq[SelectInSeq(seq, LAMBDA x : x # Unset)]

(* Mutant: the mode has no initial value. *)
ResolvedNoDefault(query, stored, known) ==
    [set |-> IF query.set # Unset THEN query.set ELSE CoreSet,
     mode |-> IF query.mode # Unset \/ stored = Unset THEN query.mode ELSE stored.mode]

(* Mutant: the initial values come before the stored ones. *)
ResolvedDefaultFirst(query, stored, known) ==
    [set |-> IF query.set # Unset THEN query.set ELSE CoreSet,
     mode |-> IF query.mode # Unset THEN query.mode ELSE "srs"]

(* A valid query parameter, else what is stored, else the initial value.   *)
(* known are the sets that ListAll returned; a set that is not among them  *)
(* counts as not given.                                                    *)
Resolved(query, stored, known) ==
    LET valid(s) == IF s \in known THEN s ELSE Unset
    IN  [set  |-> FirstNonEmpty(<<valid(query.set),
                             IF stored = Unset THEN Unset ELSE valid(stored.set), CoreSet>>),
         mode |-> FirstNonEmpty(<<query.mode, IF stored = Unset THEN Unset ELSE stored.mode, "srs">>)]

(* It is saved if the query chose something valid and the result is new.   *)
Saves(query, stored, known) ==
    /\ query.set \in known \/ query.mode # Unset
    /\ stored # Resolved(query, stored, known)

-----------------------------------------------------------------------------
(* The request.  Ghosts of it: read, the row that was stored when it read  *)
(* its preferences, and failed, the reads of them that failed although the *)
(* request went on; stale, the attempt that its picks take for the latest  *)
(* was not read or has since been overtaken by another request.            *)

Asks(q) == tab' = [pc |-> "page", q |-> q, want |-> tab.want]

(* NextQuestion fails: the page shows no question. *)
AsksNothing == Faults /\ tab' = NoPage

MayFail == {FALSE, Faults}

(* A link to the quiz page, which may choose a set or a mode.  ListAll.    *)
Open ==
    /\ tab.pc \in {"blank", "page"}
    /\ \E c \in Queries, failed \in MayFail :
          tab' = [pc |-> "prefs", query |-> c, known |-> IF failed THEN {} ELSE Sets]
    /\ UNCHANGED <<prefs, history, scheduled, due>>

(* The JSON API asks without preferences: both parameters have defaults.   *)
ApiNext ==
    /\ tab.pc \in {"blank", "page"}
    /\ \E c \in Queries :
          tab' = [pc |-> "list", want |-> [set  |-> FirstNonEmpty(<<c.set, CoreSet>>),
                                           mode |-> FirstNonEmpty(<<c.mode, "srs">>)]]
    /\ UNCHANGED <<prefs, history, scheduled, due>>

(* prefs.Get and resolveQuizPrefs. *)
ReadPrefs ==
    /\ tab.pc = "prefs"
    /\ \E failed \in MayFail :
          LET stored == IF failed THEN Unset ELSE prefs
              want   == Resolved(tab.query, stored, tab.known)
          IN  tab' = IF Saves(tab.query, stored, tab.known)
                     THEN [pc |-> "save", query |-> tab.query, want |-> want, read |-> prefs,
                           failed |-> {x \in {"ListAll"} : tab.known # Sets}
                                         \cup {x \in {"Get"} : failed}]
                     ELSE [pc |-> "list", want |-> want]
    /\ UNCHANGED <<prefs, history, scheduled, due>>

(* prefs.Upsert; a failure is logged and the page is shown nevertheless.   *)
SavePrefs ==
    /\ tab.pc = "save"
    /\ prefs' = tab.want \/ (Faults /\ prefs' = prefs)
    /\ tab' = [pc |-> "list", want |-> tab.want]
    /\ UNCHANGED <<history, scheduled, due>>

(* ListBySet, and the mode. *)
List ==
    /\ tab.pc = "list"
    /\ \/ tab.want.mode = "random" /\ \E q \in SetMembers(tab.want.set) : Asks(q)
       \/ tab.want.mode # "random" /\ tab' = [pc |-> tab.want.mode, want |-> tab.want]
       \/ AsksNothing
    /\ UNCHANGED <<prefs, history, scheduled, due>>

(* Mutant: the end of the set is not followed by its beginning. *)
NextInOrderStops(s, q) ==
    LET i == SelectInSeq(Members[s], LAMBDA x : x = q)
    IN  Members[s][IF i = Len(Members[s]) THEN i ELSE i + 1]

(* The question after q, round; the first one if q is not in the set. *)
NextInOrder(s, q) ==
    LET i == SelectInSeq(Members[s], LAMBDA x : x = q)
    IN  Members[s][IF i = Len(Members[s]) THEN 1 ELSE i + 1]

(* pickSequential *)
PickSequential ==
    /\ tab.pc = "sequential"
    /\ Asks(NextInOrder(tab.want.set, LastInSet(tab.want.set))) \/ AsksNothing
    /\ UNCHANGED <<prefs, history, scheduled, due>>

(* pickSRS: DueForUser, *)
ReadDue ==
    /\ tab.pc = "srs"
    /\ tab' = [pc |-> "recent", want |-> tab.want, due |-> due] \/ AsksNothing
    /\ UNCHANGED <<prefs, history, scheduled, due>>

(* then the latest attempt, where a failure means that there is none.      *)
ReadRecent ==
    /\ tab.pc = "recent"
    /\ \E failed \in MayFail :
          tab' = [pc |-> "pick", want |-> tab.want, due |-> tab.due,
                  last |-> IF failed THEN Unset ELSE LastQuestion, stale |-> failed]
    /\ UNCHANGED <<prefs, history, scheduled, due>>

(* The dice choose a due question, whatever its set: not the last one,     *)
(* unless it is the only one.                                              *)
DueCandidates == IF tab.due = {tab.last} THEN tab.due ELSE tab.due \ {tab.last}

PickDue ==
    /\ tab.pc = "pick"
    /\ \E q \in DueCandidates : Asks(q)
    /\ UNCHANGED <<prefs, history, scheduled, due>>

(* Or a question of a weak topic, or none of these. *)
WeakCandidates(topics) ==
    {q \in SetMembers(tab.want.set) : Topic[q] \in topics} \ {tab.last}

PickWeak ==
    /\ tab.pc = "pick"
    /\ \E topics \in WeakTopics : \E q \in WeakCandidates(topics) : Asks(q)
    /\ UNCHANGED <<prefs, history, scheduled, due>>

SkipWeak ==
    /\ tab.pc = "pick"
    /\ tab' = [pc |-> "unattempted", want |-> tab.want, last |-> tab.last, stale |-> tab.stale]
    /\ UNCHANGED <<prefs, history, scheduled, due>>

(* Mutant: only the attempts of this set are looked at. *)
UnattemptedHere(s) == SetMembers(s) \ {history[i].q : i \in {j \in DOMAIN history : history[j].set = s}}

Unattempted(s) == SetMembers(s) \ Attempted

(* pickRandomAvoid *)
RandomCandidates ==
    IF SetMembers(tab.want.set) = {tab.last} THEN {tab.last}
    ELSE SetMembers(tab.want.set) \ {tab.last}

(* At last a question never attempted, else any but the last one. *)
PickUnattempted ==
    /\ tab.pc = "unattempted"
    /\ \E failed \in MayFail :
          LET unattempted == IF failed THEN {} ELSE Unattempted(tab.want.set)
          IN  \E q \in IF unattempted = {} THEN RandomCandidates ELSE unattempted : Asks(q)
    /\ UNCHANGED <<prefs, history, scheduled, due>>

(* Submit for the question of the page: Create, under the set of the page  *)
(* or, if GetByCode fails, none;                                           *)
AnswerCreate ==
    /\ tab.pc = "page"
    /\ \E s \in {tab.want.set} \cup (IF Faults THEN {Unset} ELSE {}) :
          history' = Appended([q |-> tab.q, set |-> s])
    /\ Bounded
    /\ tab' = [pc |-> "answering", q |-> tab.q]
    /\ UNCHANGED <<prefs, scheduled, due>>

(* then Upsert: the next review is a day away or more. *)
AnswerUpsert ==
    /\ tab.pc = "answering"
    /\ \/ scheduled' = scheduled \cup {tab.q} /\ due' = due \ {tab.q}
       \/ Faults /\ UNCHANGED <<scheduled, due>>
    /\ tab' = NoPage
    /\ UNCHANGED <<prefs, history>>

-----------------------------------------------------------------------------
(* The statements of the user's other requests. *)

Staled == tab' = IF "stale" \in DOMAIN tab THEN [tab EXCEPT !.stale = TRUE] ELSE tab

ElsewherePrefs ==
    /\ \E c \in Queries :
          /\ Saves(c, prefs, Sets)
          /\ prefs' = Resolved(c, prefs, Sets)
    /\ UNCHANGED <<history, scheduled, due, tab>>

ElsewhereCreate ==
    /\ \E e \in Entry : history' = Appended(e)
    /\ Bounded
    /\ Staled
    /\ UNCHANGED <<prefs, scheduled, due>>

ElsewhereUpsert ==
    /\ \E q \in Questions : scheduled' = scheduled \cup {q} /\ due' = due \ {q}
    /\ UNCHANGED <<prefs, history, tab>>

ElsewhereDelete ==
    /\ \E i \in DOMAIN history : history' \in Deleted(i)
    /\ Staled
    /\ UNCHANGED <<prefs, scheduled, due>>

ElsewhereClearAttempts ==
    /\ history' = <<>>
    /\ Staled
    /\ UNCHANGED <<prefs, scheduled, due>>

ElsewhereClearStates ==
    /\ scheduled' = {}
    /\ due' = {}
    /\ UNCHANGED <<prefs, history, tab>>

(* A review comes due. *)
ComesDue ==
    /\ \E q \in scheduled : due' = due \cup {q}
    /\ UNCHANGED <<prefs, history, scheduled, tab>>

Init ==
    /\ prefs = Unset
    /\ history = <<>>
    /\ scheduled = {}
    /\ due = {}
    /\ tab = NoPage

(* What the server does for a request that it serves. *)
Serve ==
    \/ ReadPrefs \/ SavePrefs \/ List
    \/ PickSequential
    \/ ReadDue \/ ReadRecent \/ PickDue \/ PickWeak \/ SkipWeak \/ PickUnattempted
    \/ AnswerUpsert

Elsewhere ==
    \/ ElsewherePrefs
    \/ ElsewhereCreate \/ ElsewhereUpsert
    \/ ElsewhereDelete \/ ElsewhereClearAttempts \/ ElsewhereClearStates

Next == Open \/ ApiNext \/ AnswerCreate \/ Serve \/ Elsewhere \/ ComesDue

(* A request that is served is not left waiting for ever: statements have  *)
(* the context of the request and the pool hands out its one connection.   *)
Spec == Init /\ [][Next]_vars /\ WF_vars(Serve)

-----------------------------------------------------------------------------

Waiting(pcs, fields) == tab.pc \in pcs /\ DOMAIN tab = fields \cup {"pc"}

(* The variables have their types, and a request has resolved its          *)
(* preferences to a set and a mode.                                        *)
TypeOK ==
    /\ prefs \in Prefs \cup {Unset}
    /\ history \in Seq(Entry)
    /\ IsInjective(history)
    /\ scheduled \subseteq Questions
    /\ due \subseteq scheduled
    /\ \/ tab = NoPage
       \/ Waiting({"page"}, {"q", "want"})
       \/ Waiting({"prefs"}, {"query", "known"})
       \/ Waiting({"save"}, {"query", "want", "read", "failed"})
       \/ Waiting({"list", "sequential", "srs"}, {"want"})
       \/ Waiting({"recent"}, {"want", "due"})
       \/ Waiting({"pick"}, {"want", "due", "last", "stale"})
       \/ Waiting({"unattempted"}, {"want", "last", "stale"})
       \/ Waiting({"answering"}, {"q"})
    /\ "want" \in DOMAIN tab => tab.want \in Prefs
    /\ "q" \in DOMAIN tab => tab.q \in Questions

(* What the page shows to a user with this row. *)
Shown(row) == IF row = Unset THEN [set |-> CoreSet, mode |-> "srs"] ELSE row

(* Whatever other tabs write and whichever reads fail, a save stores what  *)
(* the link chose, and beside it what was stored when the request read:    *)
(* the set is kept when a mode is chosen and the mode when a set is.  What *)
(* another tab chose is lost only if it was stored between this read and   *)
(* this save, and what was stored before is lost to the initial value only *)
(* if the read that should have found it failed: ListAll or Get for the    *)
(* set, Get for the mode (getQuiz, resolveQuizPrefs).                      *)
PrefsKept ==
    [][ tab.pc = "save" /\ tab'.pc = "list" /\ prefs' # prefs =>
          /\ prefs'.set \in {tab.query.set, Shown(tab.read).set}
                               \cup {s \in {CoreSet} : tab.failed # {}}
          /\ prefs'.mode \in {tab.query.mode, Shown(tab.read).mode}
                               \cup {m \in {"srs"} : "Get" \in tab.failed}
          /\ tab.query.set \in {Unset, prefs'.set} \/ "ListAll" \in tab.failed
          /\ tab.query.mode \in {Unset, prefs'.mode} ]_vars

(* In srs mode the question answered last is not asked again, unless it is *)
(* the only one due or the only one of the set: also not as one never      *)
(* attempted, although that pick does not look at the last question.  Only *)
(* a failed read or an attempt that is written or erased by another        *)
(* request while the picks go on can bring it back (pickSRS, all picks).   *)
NotAskedAgain ==
    [][ /\ tab.pc \in {"pick", "unattempted"} /\ tab'.pc = "page"
        /\ ~ tab.stale
        /\ tab'.q = LastQuestion
        => \/ tab.pc = "pick" /\ tab.due = {LastQuestion}
           \/ SetMembers(tab.want.set) = {LastQuestion} ]_vars

(* From some time on the tab does nothing but study set s in order, and    *)
(* nobody else writes for the user.                                        *)
StudiesInOrder(s) ==
    <>[][ /\ history' # history => tab.pc = "page" /\ tab'.pc = "answering"
          /\ "want" \in DOMAIN tab' => tab'.want = [set |-> s, mode |-> "sequential"] ]_vars

(* Whoever keeps opening the page and answering in sequential mode is      *)
(* asked every question of the set again and again, whatever was answered, *)
(* deleted or asked in other modes and sets before (pickSequential, whose  *)
(* cursor is the latest attempt), and whichever statements fail.           *)
SequentialCovers ==
    \A s \in Sets :
        StudiesInOrder(s) /\ []<><<AnswerCreate /\ history'[Len(history')].set = s>>_vars =>
            \A q \in SetMembers(s) : []<>(tab.pc = "page" /\ tab.q = q)
=============================================================================
