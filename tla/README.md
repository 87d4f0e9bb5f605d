# Specification of boki3-quiz

TLA+ modules, TLC instances and TLAPS proofs for the quiz server in `src/`
(Go, SQLite, one process). Paths below are relative to `src/`.

1. [Inventory](#1-inventory) 2. [Modules](#2-modules) 3. [Runs](#3-runs)
4. [Fairness and refinement](#4-fairness-and-refinement) 5. [Proofs](#5-proofs)
6. [What the checks found](#6-what-the-checks-found)
7. [Not modelled](#7-not-modelled) 8. [What is left](#8-what-is-left)

## 1. Inventory

One process serves a web UI (cookie sessions) and a JSON API (JWT). All state
that survives is in one SQLite file, reached through a pool of exactly one
connection (`internal/pkg/sqlitex/sqlitex.go:46`). Each HTTP request runs in a
goroutine of its own. So **a SQL statement is atomic, and requests interleave
between their statements**. Only `seed.Sync` and a migration use a transaction:
no service method does. This is the source of most of what is hard here. A
second process, the seed loader, may open the same file.

| Component | State | Operations | Hard behaviour | What makes it correct | Module |
|---|---|---|---|---|---|
| Spaced repetition (`internal/domain/srs`) | none (pure) | `GradeFromResult`, `NewState`, `Next` | rounding, factor floor, growth | the next review follows from the rule, and moves away with every pass | `SM2` |
| Learning record (`quiz_service.go`, `attempt_repo.go`, `srs_repo.go`) | tables `attempts`, `srs_states` | `Submit` (4 statements), `DeleteAttempt`, `DeleteAllForUser` (2), `History` | overlapping submissions, clears in between, failures half way, ids used again | a state is sound, has an answer behind it, counts nothing twice, and only its owner erases it | `Learning`, `LearningRecord` |
| Question selection (`quiz_service.go:51-211`), preferences (`quiz_prefs.go`, `user_prefs_repo.go`) | table `user_prefs`; reads five more | `NextQuestion` and its pickers; read, resolve, upsert | several reads that other requests change in between, reads that fail | a choice is kept; the last question is not asked again; sequential mode reaches all | `QuizPage` |
| Accounts and sessions (`auth_service.go`, `user_repo.go`, `session_repo.go`) | tables `users`, `sessions` | `Register`, `Login`, `Logout`, `ChangePassword`, `SessionByID`, `PurgeExpired` | hashing takes long between two statements; changes of several tables without a transaction | a password change ends the other sessions; nobody ends another's; an ended session stays ended | `Auth`, `Account`, `Credential` |
| API tokens (`api_auth_service.go`, `jwt_repo.go`, `auth/jwt`) | table `jwt_revocations`; tokens live with the clients | `IssueToken`, `VerifyToken`, `Revoke`, `RevokeAllForUser`, `PurgeExpired` | repeated logouts, purges at the boundary of expiry | a logged-out token stays rejected | `Auth`, `Credential` |
| Rate limiters (`auth/ratelimit`) | maps in memory, a mutex each | `Allow`, `Reset`, `Sweep` | window boundaries, zero limits, forgotten events | bounded grants; refusals only when the limit was used up | `RateLimit` |
| Bank synchronisation (`seed/bootstrap.go`), migrations (`sqlitex.go`), loader (`cmd/seed-loader`) | `topics`, `questions`, sets and members, `schema_migrations` | `Migrate`, `Sync`, the deletes of `-force` | kills, older and newer builds, two processes at once | each file applied once and in order; the bank is the last release's; history stays with its question | `Bank` |
| Browser, CSRF and session middleware, form handlers | cookies, open pages | log in and out, open a page, send its form | tabs share cookies, responses out of order | an answer is recorded for the user of its page | `Browser` |
| Grading (`internal/domain/grading`) | none (pure) | `IsCorrect`, the reading of the form | order, blanks and repetition of journal lines | right answers pass and wrong ones do not | `Grading` |
| Server process (`cmd/boki3-quiz`) | | start, serve, shut down | requests in flight at a stop | | `Bank`, `Learning` (partly) |
| Statistics, rendering, generators, crypto | | reads and pure functions | | | |

The hazards, each at its line, are in `PROJECT.json`.

## 2. Modules

```
SM2       <-- Learning <-- MCLearning       Auth      <-- MCAuth, AuthProofs
SM2       <-- LearningRecord, SM2Proofs     RateLimit <-- RateLimitProofs
Learning,                                   QuizPage  <-- MCQuizPage, QuizPageProofs
SM2Proofs <-- LearningProofs                Bank      <-- MCBank, BankProofs
          <-- LearningRecordProofs          Grading   <-- Browser <-- MCBrowser, BrowserProofs
```

An arrow points to the module that is extended. Besides, `Learning` instantiates
`LearningRecord` as `Record`, `Auth` instantiates `Account` as `AccountOf` and
`Credential` as `SessionTable` and `TokenTable`, `Browser` instantiates `Credential`
as `SessionTable`, and `ratelimit` runs `RateLimit` itself.
`LearningRecord`, `Account` and `Credential` are the abstract specifications.

The modules meet where components do. `Browser` extends `Grading` because what it
grades is what came through a form and the checks on it; `Learning` and `Bank`
share the events of a release; `QuizPage` sees of the learning record the three
facts that the selection reads. `Browser` has a small session table of its own,
with logins and logouts in one step; what it relies on in a session id is
`Credential`, and `Auth`, where logins overlap, fail and expire, implements the same
`Credential` with the same meaning of *accepted* (what `SessionByID` returns).

### SM2

The rule of `sm2.go` and `grade.go` as operators. Time is in days. The factor is
in hundredths, which is exact: every increment is a multiple of 0.01. What is
not exact in the code is the float64 that carries the sums of those increments,
so a product that lies half way between two days may round either way;
`Rounded` has both results then, and `Advance` is a *set* of states.

### Learning

`attempts` and `srs` are the tables; `req[p]` is the request in flight in slot
`p`, with the values it has read (`answer`, the time included, and `state`).

| Action | Code |
|---|---|
| `SubmitBegin` | `postQuizAnswer`/`answer`, then `Submit` up to the reading of the clock |
| `SubmitCreate` | `attempts.Create` |
| `SubmitGet` | `srs.Get`, or `NewState` on `ErrNotFound` |
| `SubmitUpsert` | `srs.Next` and `srs.Upsert`: what the submission read is advanced and replaces what is there |
| `ClearAttempts`, `ClearStates` | the two statements of `DeleteAllForUser` |
| `History`, `DeleteAttempt` | a history page, and a delete by an id the page lists, however old the page is |
| `Abort` | a statement fails or the client goes away: nothing is undone |
| `Restart` | the process ends (with requests in flight if it fails) and starts again, perhaps with another bank: `Sync` |
| `Tick` | a day passes |

Whether an answer is correct is an input here. `Durations` holds one answer time
per class that `GradeFromResult` tells apart. `Questions` are the questions
followed: the bank always has others, so it may hold none of these. A row's
`nth` and the variables marked *ghost* record history for the properties; no
guard reads them, except for the bound `MaxSubmits`.

`LearningRecord` is what a user is promised: an answer is in the history and
counted in one step, a clear takes one step, a release drops states in one step.

### QuizPage

One tab (or API client) of a user is followed statement by statement; what the
user's other requests do to the tables are the `Elsewhere` actions, possible at
any time. `history` lists the pairs of question and set that have an attempt, in
the order of the latest of each: that is all the selection asks of `attempts`.

| Action | Code |
|---|---|
| `Open`, `ReadPrefs`, `SavePrefs` | `getQuiz`: `ListAll`, `prefs.Get` with `resolveQuizPrefs`, `prefs.Upsert` |
| `ApiNext` | the API's `next`, which has no preferences |
| `List` | `NextQuestion` up to the choice of the mode; random mode picks here |
| `PickSequential` | `pickSequential`: after `LastQuestionIDInSet`, round |
| `ReadDue`, `ReadRecent`, `PickDue`, `PickWeak`, `SkipWeak`, `PickUnattempted` | `pickSRS` and its pickers. A weighted or shuffled choice is nondeterministic |
| `AnswerCreate`, `AnswerUpsert` | `Submit` as far as the selection can see it |

Three ghosts go with a request: `read`, the row that was stored when it read its
preferences, `failed`, which reads of them failed, and `stale`, that the latest
attempt its picks go by was not read or has been overtaken.
A statement may fail where `Faults` is true, and what the code then does (take
the read for an empty one, show no question, go on without saving) is modelled.

### Auth

`password[u]` counts the changes of a user's password, so "the password this
session was opened with" is a number. `sessions`, `revocations` and `markers`
are tables (`markers` are the rows of `RevokeAllForUser`, whose `jti` is no
token's); `tokens` are what clients hold. `missed` marks a session that the
deletion of a password change did not see: its login was overtaken by the change
and inserted the row after the deletion, or the deletion failed or never came.
`settled[u]` is the newest password whose change is past that point, `cut` holds
the sessions of API logins that failed before they ended them. A login is
`LoginFind` (the row the password is verified with; a name without a row ends the
request) and `LoginCreate`; an API login goes on with
`ApiIssue` and `ApiDrop`. A password change is `ChangeRead`, `ChangeUpdate`,
`ChangeSweep`, `ChangeMark`. A request with a cookie starts with `WebRequest`,
the session middleware. A crash is `Abort` in every slot: nothing is kept in
memory.

`Credential` says of a set of ids that each is given out once, is accepted for one
user from then on, and never again after it has ended. `Account` says what a user
is promised of a password change: it takes one step, in which all sessions of the
user end but the one it was made from, and a login needs the password of that
moment.

### RateLimit

One key of one of the three limiters: `Allow` touches no other key and holds the
mutex throughout, so each call is one action, split by what it does
(`SlidingGranted`/`SlidingRefused`, `FixedOpens`, ..., `BucketRefused`). Tokens
are counted in the time that refills them, which makes the rate 1. `granted` is a
ghost that never forgets, beside the entry that does. A restart empties the maps
and starts the count again. The clock the limiters get (`internal/pkg/clock/clock.go:15`,
`cmd/boki3-quiz/main.go:103`) is the wall clock without its monotonic reading:
`Tick` moves it on and `SetBack` sets it back at any moment. The ghost `moved` is
how far it has moved on in all, and a grant has both readings.

### Bank

Two processes, `server` and `loader`, each running one of `Builds`, with its
migration files and its bank. `Start`, `LoadApplied`, `ApplyOne` and `Migrated`
are `Migrate`; `Wipe`, `WipeQuestions` and `WipeTopics` are the four deletes of
`-force`; `Sync` is one action because it is one transaction; `Stop` kills a
process between any two. `Show` and `Submit` are a user with an open form across
releases. Row ids are given as SQLite gives them: a question that `Sync` inserts
gets the highest id in use plus one, so the questions of a bank that are new get
the next numbers in the order of the bank (`Upserted`). `WipeQuestions` leaves no
row, so the numbers start at 1 again.

### Browser and Grading

The server handles a request with the cookies of the moment it was sent, and
`Deliver` brings the response and its cookies in any order. `PostLogin`,
`PostLogout`, `PostAnswer`, `OpenLogin` and `OpenQuiz` are the handlers behind
the middleware's checks (`CsrfPasses`); a logout clears the cookies also when its
`DELETE` fails and the session stays accepted (`SessionEndsIfDeleted`); session ids
and tokens are numbered as they are drawn. An answer that passes is graded: `IsCorrect` normalises, sorts
and compares the way `grading.go` does, `IsRight` says what a right answer is
without any of these (each entry as often on both sides). Sorting and reading the
rows one by one are stated by what they give: the entries that are not blank,
arranged so that none comes after one that it precedes (`Arranged`).

## 3. Runs

| Run | Bounds | Question |
|---|---|---|
| `learning_schedule` | 1 user, 1 question, 2 slots, 3 attempts, 2 days, fast and slow answers, failures and restarts | Is every stored state sound whatever interleaves? (`ScheduleSound`, `RepetitionsCredited`, `SrsHasOrigin`, `InFlightSound`, `RetiredRowsAreFresh`) |
| `learning_serial` | 2 users with history pages, 1 slot, 3 attempts, fast answers, no failures | Without overlap, do the tables agree, does the record implement `LearningRecord`, and does anybody erase what is another's? (`RecordedInBoth`, `EveryAnswerCounts`, `ImplementsRecord`, `OnlyOwnerErases`) |
| `learning_stale_delete` | 1 slot | violated: `DeleteErasesWhatWasSeen` |
| `learning_lost_answer` | 2 slots, no failures | violated: `EveryAnswerCounts` |
| `auth_concurrent` | 2 users, 2 sessions, 1 token, 2 slots, 2 changes each, failures, purges | Which sessions outlive a change or an API login; is a logged-out token rejected for good; who ends sessions; are ids accepted for one user and once only (`SessionsAreCredentials`, `TokensAreCredentials`); does a change take effect at once (`ImplementsAccount`)? |
| `auth_overlap` | 2 slots, no failures | violated: `NoStaleSession` |
| `auth_tokens_survive` | 1 slot, no failures | violated: `ChangeRevokesTokens` |
| `ratelimit` | limits of 2 in windows of 3, a bucket of two and a half tokens, 9 units of time, a clock set back by 2 | How much is granted in any window, and is a refusal ever wrong? |
| `quiz_page` | 2 questions in 2 sets, one a subset, links to one set and to both other modes, histories with both pairs of the core set and one other, failures | Does a save keep what was stored, is the last question asked again, does sequential mode reach all? |
| `bank` | 2 builds that drop, move and add a question and a migration, 4 starts | Do schema and bank survive starts, kills, wipes and two processes, and does history stay with its question? |
| `browser` | 2 users, 2 tabs, 4 tokens or sessions, 2 questions (journal and choice) | Whose answers are recorded, do forms work, is grading right, are session ids accepted as `Credential` says? |
| `grading_ledger` | as `browser`, and a question of type ledger | violated: `OnlyRightAnswersPass` |

Why the bounds are enough.

- *Learning.* Requests interact only through rows of the same user and question
  (attempt ids apart), so one user and question show every interleaving of the
  schedule properties; two slots show every pair of statements, and a third
  request is sequentially before or after. Three attempts reach the third pass,
  the first whose interval is a product; a failure, a clear or a retirement fits
  in between. Two days let the date change inside a request. The speed of an answer
  only moves the factor, which `learning_schedule` varies. Ownership needs two
  users; three attempts let an id be used again by either.
- *Auth.* Lifetimes are one unit, so that a session or token expires inside a
  request; two changes let two overlap, fail half way, or be built on by a login.
- *RateLimit.* Nine units hold three windows, or two fills of the bucket; a
  capacity that is no multiple of the period lets a token be filled in part. Two
  units back, at once or one by one, put a grant in the future, reopen no window
  and make a refill negative. The run has a limit of two; `FixedMax = 0`, where a
  window's first attempt is granted against the limit, is covered by the proof.
- *QuizPage.* The selection tells "the last question", "another" and "outside the
  set" apart: two questions and a set with one of them show these. A history has
  room for both pairs of the core set and one pair of the other set or of none,
  in any order: whoever studies the core set for ever does so in front of an
  attempt elsewhere that stays (such behaviours exist: the run finds one when
  asked to deny it). Only answers recorded under no set wait while that place is
  taken. Every history of three pairs was also checked, 921,276 states.
- *Bank.* Four starts allow old, new, old and new again, or a loader beside each.
- *Browser.* A race needs the cookies of two responses and the pages of two
  logins; four numbers are two logins, with a login page's token before each. A
  form of the journal question has any debits with the right credits, or the right
  debits with right or wrong credits: both sides are compared by the same operator.

Symmetry is over users, questions, slots, sessions, tokens and tabs, and only in
runs that check invariants and action properties, whose definitions distinguish
none of these. `quiz_page`, which has liveness, uses none.

Deadlock is checked everywhere but in `bank`: there both processes may be off
with the starts used up, and nothing is left to happen.

## 4. Fairness and refinement

**Fairness.** Only `QuizPage` assumes any: `WF_vars(Serve)`, that a request which
is being served gets its next statement. The code justifies it: there is one
connection, `database/sql` hands it out in the order of requests, a statement has
the request's context and ends with it, and nothing in a handler waits for
anything else. Nothing is assumed of users, other tabs or failures.
`SequentialCovers` therefore has the user's own part in its hypothesis: the tab
keeps opening the page and answering in sequential mode, and from some time on
nobody else writes for this user. What was answered, erased or failed before,
and statements that fail meanwhile, do not matter.

**Refinement.** Three abstract specifications, each with the mapping in the module
that implements it.

`Credential`: an id is accepted for a user as the middleware sees it. `Auth`
implements it for sessions (`SessionsAreCredentials`) and for tokens
(`TokensAreCredentials`), `Browser` for its sessions, whatever overlaps, fails, is
purged or expires. No lookup and delete of two requests can revive an id, and a
purge of `jwt_revocations` cannot revive a token.

`Account` (`ImplementsAccount`): the change takes place with the `UPDATE` of the
password. Sessions that the change has still to delete count as ended, so the
`DELETE` that follows stutters, and the session the change was made from counts
with the new password at once. A login whose insert comes between the two counts
for nothing: the deletion will end it. Requests may overlap in any number and fail
anywhere. One kind of session is left out, because the code breaks the promise
for it: a session that the deletion of a change missed (`missed`; finding 3 and
section 6). For every other session, `Account` holds of the code as it is; a
change that fails half way excepts the sessions it left behind, and neither those
opened later nor the other changes of that user. Without overlap and failure there
are no exceptions, and `NoStaleSession` holds (`SerialNoStaleSession`).

`LearningRecord` (`ImplementsRecord`): the
history has the attempts whose submission has also stored its state, and the
states of a user count as erased as soon as the attempts are. It holds when requests
neither overlap nor fail (`learning_serial`; `SerialImplementsRecord` proves it for
any users, questions, answers and releases). With two slots it does not:
`learning_lost_answer` is a counterexample, and so is any abort after `Create`.

## 5. Proofs

For every number of users, questions, requests in flight, limits, days and
attempts, and with failures or without.

- `SM2Proofs`: `AdvanceSound`. From a state with the factor above its floor and
  an interval of at least `2k+2` days after `k >= 2` passes (`Advanceable`),
  every result of the rule has a type, is due after its interval, and satisfies
  the same again (`Scheduled`). The core is `RoundedGrows`: multiplying at least
  six days by at least 1.30 and rounding either way adds two days or more.
- `LearningProofs`: `ScheduleSound`, `RepetitionsCredited`, `SrsHasOrigin`,
  `RetiredRowsAreFresh`, `TypeOK`, `InFlightSound` and `OnlyOwnerErases`. The
  stored rows are not inductive alone: a submission may write long after it read.
  `IInv` therefore says of each request in flight what its write will need: its
  time is not before the last start, past `Create` its answer is among those
  made, and the state it read is `Advanceable` and counts no more passes than the
  user has completed. That the last part survives other requests' writes rests on
  `credited` never decreasing; that retired rows are fresh rests on `Restart`
  ending every request.
- `LearningRecordProofs`, under the hypothesis `Serial` (requests do not fail, and
  there is one slot): `RecordedInBoth`, `EveryAnswerCounts` and that the record
  implements `LearningRecord`, step by step: `Create` and a clear's second
  statement stutter, `Upsert` records and counts, and so on. None of the three
  holds without the hypothesis (section 6). `SInv` adds to `IInv` what a request
  that runs alone may rely on: rows are told apart by their id and by their rank;
  what it has read is still what is stored; a row that counts has a state beside
  it, and a state's passes are the answers that count (`CountedSound`).
- `AuthProofs`: `LoggedOutRejected`, `ChangeEndsSessions`,
  `ApiLoginLeavesNoSession`, `OnlyOwnerEndsSession`,
  `SessionsAreCredentials`, `TokensAreCredentials`, `ImplementsAccount` and
  `TypeOK`, with any overlap and failure. The inductive invariant relates rows to requests. A session held by a
  request is that of its user: ids are never given twice, so an insert cannot put
  another's row in its place. A revocation row expires with its token, so a purge
  cannot undo a logout. A session that knows an older password than the current
  one, and was not missed, is still to be deleted by *every* change it does not
  know of (`Pending`): by each of them, because of two that overlap either may be
  the one that keeps it. Likewise every change after `settled[u]` has yet to come
  to its deletion (`Sweeping`), so a login that inserts its row with an older
  password either finds such a change in flight or is marked as missed.
  `ForeignKeys`, in `TypeOK`, is an invariant by itself: no row of `users` is ever
  deleted, and a login goes on only if it has found one.
  From that, every session that counts in `Account` knows the password of the moment
  (`OpenIsShown`), which leaves four kinds of step: `LoginOpens`, `UpdateChanges`,
  `SweepEnds`, and the rest, in which sessions at most end (`CountsEnd`). The
  credentials need that an id once given out is never free again and that the row
  of an id keeps its user and expiry (`RowsStay`). `SerialNoStaleSession` has the
  hypothesis `Serial` (requests do not fail, and there is one slot): then no
  request is cut short, no login is overtaken and no session is missed (`Current`).
- `RateLimitProofs`: `SlidingBound`, `FixedBound`, `BucketBound`,
  `RefusalsJustified` and `TypeOK`. The entry forgets what the bounds speak of,
  so `SlidingInv`, `FixedInv` and `BucketInv` say what an entry still knows: the
  list has all grants younger than the window; a fixed window has counted all
  grants since it opened, and older stretches are bounded already; and for every
  instant `s`, what the bucket spent since `s` and what it may still give are
  together at most its capacity and the refill since. A swept bucket would have
  been full again, because `BucketTTL >= Burst`. The bounds are over the ghost
  `moved`, the refusals over the clock as it reads. The two are tied by
  `clock - g.at <= moved - g.moved` for every grant: a clock that was set back makes
  grants look younger and never older, so an entry forgets later and refills less.
  That a bucket never charges for a refusal is the other half of `BucketInv`: what
  it holds is exactly what is left of the grants from one that found it full.
- `QuizPageProofs`: `PrefsKept`, `NotAskedAgain` and `TypeOK`. Both properties
  speak of what a request writes or asks now, and it works from earlier reads.
  `ReadSound` says what these are worth: what a request is about to save is
  resolved from the row it read (`read`), or from nothing where a read failed,
  whatever other tabs have stored since; `ResolvedParts` says what that can be. The
  question its picks avoid is the last one of the history, unless the read
  failed or another request wrote since (`stale`). The history never has
  a pair twice, for which `RemoveAtSound` and `InsertAtSound` show what taking out
  and putting in an element do to a sequence without repetition.
- `BankProofs`: `SchemaSound`, `RestartWorks`, `BankServed`, `AnswersKeepQuestion`,
  `HistoryKept` and `TypeOK`, for any builds, migration files, banks and number of
  starts. `Migrate` works from versions it has read once; `IInv`
  says that they lag behind the record only in a process that another start
  overlapped, and likewise that only such a process finds questions left when it
  wipes the topics. That the record has no gap rests on `NextFile` being the
  first of the files pending. `DataInv` speaks of the rows: the ids in use are the
  numbers from 1 to their count, each of one code (`RowsSound`: nothing but `-force`
  deletes questions, and it deletes all); members, pages, attempts and sets name
  rows that are there, and an open page has the id of its question unless a wipe
  came in between. That `Sync` keeps the numbering rests on `RankBijection`:
  numbering the new questions by their rank in the bank is one to one.
- `BrowserProofs`: `AnswersByPageOwner`, `FormsUsable`, `GradedByAnswer`,
  `SessionsAreCredentials` and `TypeOK`, for any number of users, tabs and logins. Numbers are never drawn twice and a session
  never changes its user; so the token on a quiz page, wherever page, cookies and
  responses have got to, belongs to a session of the page's user, and a form that
  passes the CSRF check is answered for that user. The two cookies differ only if
  the CSRF cookie came with a login page. Grading is proved for any question,
  names and forms, with any number of rows: `Enumeration` (a finite set can be put
  in the order of any strict total order) gives that `normalize` returns a sorted
  list with each entry as often as before, and `SortedUnique` that two such lists
  with the same entries, each as often, are equal, because where they first differ
  the smaller entry occurs more often in the list that has it there (`FirstDifference`).

There is one lemma per action, and above them one lemma for what an action leaves
alone. What `Browser` relies on and what `Auth` guarantees of a session id are thus
the same specification, proved of both. The assumptions are the named ones of the modules (`LearningAssumption`,
`AuthAssumption`, `RateLimitAssumption`, `QuizPageAssumption`, `BuildsAssumption`,
`GradingAssumption`, `BrowserAssumption`), which TLC evaluates in the runs.
`RateLimitAssumption` asks that a bucket holds a token and that it is swept only
after the time it takes to fill; the server never sweeps. `BuildsAssumption` asks
that builds and their files are finitely many, that a build's files are numbered
from 1 and that no code is twice in a bank. `BrowserAssumption` asks that exactly
the journal questions have no choice for an answer, as `journalQuestion` and
`choiceQuestion` (`seed/generator.go:90`, `:112`) build them.

Only model-checked: `SequentialCovers`, since liveness under fairness is out of
the prover's reach. Every invariant and every action property of a passing run
is the property of a theorem, and so is each refinement; those of `learning_serial`,
except `OnlyOwnerErases`, under the hypothesis that run makes.

## 6. What the checks found

With a run that shows it:

1. *A stale delete erases another attempt* (`learning_stale_delete`).
   `attempts.id` has no `AUTOINCREMENT`, so the id of a deleted last row is
   given again, and a history page that is out of date deletes the new row.
   The row is always the same user's: `OnlyOwnerErases` is proved.
2. *An answer is lost* (`learning_lost_answer`). `Submit` reads, computes and
   upserts in separate statements: of two overlapping answers to a question one
   is not counted. `RepetitionsCredited` shows that the error is on one side.
3. *A session outlives a password change* (`auth_overlap`): a login that verified
   the old password inserts its session after the others were deleted.
   `ChangeEndsSessions` and `ImplementsAccount` show that there is no other way,
   apart from a deletion that fails.
4. *Tokens survive a password change* (`auth_tokens_survive`): no check ever
   looks at the rows `RevokeAllForUser` writes.
5. *Any choice passes for ledger and slip questions* (`grading_ledger`): their
   answer is a choice, but `IsCorrect` compares entries, which are empty on both
   sides. `GradedByAnswer` shows that the other types are judged rightly.

Seen while modelling, and kept without a run:

- Overlapping a clear with a submission leaves an attempt without a state, or a
  state without an attempt (`RecordedInBoth` with two slots).
- A question that left the bank gets a learning state again when an old form is
  submitted after the start, against `seed/bootstrap.go:60-61`; the next start
  erases it. `RetiredRowsAreFresh` is what does hold.
- With failures, an API login may leave its session (`internal/transport/api/api.go:82`
  says it is ended at once), and a password change may be reported as failed
  (`internal/transport/web/handler.go:442`) although the password was changed and
  other sessions were not ended. `ApiLoginLeavesNoSession` excepts the session of
  exactly that login, `ChangeEndsSessions` and `ImplementsAccount` those that
  exactly that deletion missed.
- A logout whose `DELETE` fails is answered like any other: the cookies go, and
  the session is accepted until it expires (`internal/transport/web/handler.go:247`).
- A clock that is set back keeps clients out: a fixed window opened before stays
  locked longer by as much, and a bucket loses what it would have refilled
  (`internal/auth/ratelimit/ratelimit.go:112`, `:175`). `RefusalsJustified` says: by no
  more than the clock was set back.
- A session lives 14 days (`internal/service/auth_service.go:31`); the design
  (`docs/superpowers/specs/2026-05-24-boki3-quiz-design.md:478`) says 24 hours, at
  most 7 days.
- When the read of the preferences fails, a link that chooses a mode stores the
  initial set over the user's (`internal/transport/web/handler.go:264`; the
  design, line 541, says choices are kept). Of two tabs that
  choose at the same time, the later save writes back what its request had read of
  the other's choice. `PrefsKept` says that nothing else is lost.
- `pickSRS` avoids the question *answered* last; the design (line 533) says asked.
  A due question is asked whatever its set, and random mode avoids nothing.
- A question that a release moves to another set stays in the old one too:
  `Sync` only inserts memberships (`seed/bootstrap.go:196`).
- `cmd/boki3-quiz/main.go:66` says that the bank is filled only when the tables
  are empty; `Sync` runs at every start.
- A login page asked for without a session can put its CSRF token over that of a
  login whose response came first; forms then fail until the next login.
  `FormsUsable` excepts exactly this.
- Some journal questions have three entries on a side
  (`seed/bank_fixed_other.go:65`), and the form has two rows.
- `internal/auth/ratelimit/ratelimit.go:19` says `Allow` deletes empty keys; only `Sweep` does, and
  nothing in the server calls `Sweep`, `FixedWindow.Reset` or a `PurgeExpired`.
  A limit of zero grants one attempt per window.

## 7. Not modelled

- Rendering, the SVG charts, templates and assets; the generators and their
  tables (data without state); statistics (read-only); `QuestionRepo.Search`
  (nothing calls it); CORS, headers, logging, body limits (no state).
- Hashing, random ids and the encoding of tokens: ideal behaviour is assumed,
  ids are never repeated and signatures are not forged. A wrong password changes
  nothing in `Auth`; the limiter in front of it is `RateLimit`, on its own, since
  the two share no state.
- `last_seen_at` is written and never read. `BOKI3_COOKIE_DOMAIN`: `Browser` has
  cookies without a domain. The signature and expiry of the time an answer took:
  the duration is an input of `Learning`.
- A wall clock that is set back, in `Learning` and `Auth`: both models let it only
  move on, so that what has expired stays expired. `RateLimit` has it.
- Overflow: integers are unbounded. The code's factor has no ceiling, and some
  thirteen passes in a row, each at once, put the due date beyond the year 9999,
  which JSON cannot express. Rounding errors of float64 in the bucket are left
  out; those in the SM-2 factor are both outcomes of a tie.
- `Bank` leaves out topics, the rows of the sets and `attempts.set_id`, and lets
  a submission be one step, which `Learning` does not.
- The comparison of free text in `IsCorrect`: no question has that type.

## 8. What is left

In this order of worth: what overlap costs `LearningRecord` at most, as a
refinement of a weaker record in which an answer may be lost; SM-2 with integers
of a scaled width; the statistics as functions of the tables.
