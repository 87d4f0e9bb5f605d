-------------------------------- MODULE Bank --------------------------------
(* How the database gets its tables and its questions.  The server (main.go)*)
(* and the seed-loader command each open the same SQLite file, run the      *)
(* migrations (sqlitex.Migrate), the loader with -force then wipes the bank *)
(* with one DELETE at a time, and both converge it with seed.Sync.  Each    *)
(* statement outside a transaction and each transaction is one action: the  *)
(* two processes interleave there, and either may be stopped there.         *)
(*                                                                          *)
(* A build of the program has its migrations and its bank; a later start    *)
(* may run another build, older ones included.  Topics and the rows of the  *)
(* sets themselves are left out: Sync upserts every one its questions name  *)
(* before it reads them, and what is said below never tells them apart.     *)
EXTENDS Integers, FiniteSets, Sequences, SequencesExt, TLC

CONSTANTS
    Builds,      \* the builds of the program that may be started
    Migrations,  \* build -> the versions of its migration files
    Bank,        \* build -> Generate(): a sequence of [code, sets]
    MaxStarts    \* bound on the number of starts

ASSUME BuildsAssumption ==
    /\ IsFiniteSet(Builds)
    /\ \A b \in Builds : /\ IsFiniteSet(Migrations[b])
                         /\ Migrations[b] = 1 .. Cardinality(Migrations[b])
    /\ \A b \in Builds : /\ Bank[b] \in Seq(Range(Bank[b]))
                         /\ \A i, j \in DOMAIN Bank[b] :
                                Bank[b][i].code = Bank[b][j].code => i = j
    /\ MaxStarts \in Nat

Server == "server"
Loader == "loader"
Procs == {Server, Loader}

None == "none"
NoPage == [id |-> 0, code |-> None, wiped |-> FALSE]

CodesOf(b) == {Bank[b][i].code : i \in DOMAIN Bank[b]}
Codes == UNION {CodesOf(b) : b \in Builds}
MembersOf(b) ==
    UNION {{<<s, Bank[b][i].code>> : s \in Bank[b][i].sets} : i \in DOMAIN Bank[b]}
Sets == {m[1] : m \in UNION {MembersOf(b) : b \in Builds}}
Versions == UNION {Migrations[b] : b \in Builds}

VARIABLES
    record,    \* schema_migrations: the versions recorded
    tables,    \* the versions whose tables exist
    rows,      \* questions: code -> id
    members,   \* question_set_members: <<set, id>>
    attempts,  \* attempts of a user: the id answered, and what its page showed
    learning,  \* srs_states of that user: ids
    page,      \* the quiz page open in a browser: id, code, whether the bank was
               \* wiped since; NoPage without one
    proc,      \* process -> what it runs and where it is
    overlap,   \* processes whose start overlapped another start (history)
    synced,    \* the build of the last Sync, None after a wipe (history)
    starts     \* number of starts so far
vars == <<record, tables, rows, members, attempts, learning, page, proc,
          overlap, synced, starts>>

Ids == 1 .. Cardinality(Codes)
Off == [pc |-> "off", build |-> None, force |-> FALSE, skip |-> FALSE, applied |-> {}]
Starting(p) == proc[p].pc \notin {"off", "failed", "serving"}

-----------------------------------------------------------------------------
(* SQLite gives a new row the highest id in use, plus one.                  *)
HighestId(r) == Max({0} \cup Range(r))

(* Mutant: INSERT OR REPLACE, which gives every code a new id.              *)
UpsertedReplaced(r, b) ==
    FoldLeft(LAMBDA acc, q : (q.code :> HighestId(acc) + 1) @@ acc, r, Bank[b])

(* Mutant: the position in the bank is the id.                              *)
UpsertedByPosition(r, b) ==
    [c \in CodesOf(b) |-> CHOOSE i \in DOMAIN Bank[b] : Bank[b][i].code = c] @@ r

(* The questions of the bank that have no row yet, up to position i.  One   *)
(* is inserted after the other, so they get the next ids in this order.     *)
Inserted(r, b, i) == {j \in DOMAIN Bank[b] : j <= i /\ Bank[b][j].code \notin DOMAIN r}
Position(b, c) == CHOOSE i \in DOMAIN Bank[b] : Bank[b][i].code = c

(* An upsert keeps the id of a code that is there.                          *)
Upserted(r, b) ==
    [c \in DOMAIN r \cup CodesOf(b) |->
        IF c \in DOMAIN r THEN r[c]
        ELSE HighestId(r) + Cardinality(Inserted(r, b, Position(b, c)))]
Joined(m, r, b) == m \cup {<<x[1], r[x[2]]>> : x \in MembersOf(b)}
StaleIds(r, b) == {r[c] : c \in DOMAIN r \ CodesOf(b)}

(* Mutant: the members of a dropped question stay.                          *)
UnretiredKept(m, r, b) == m

Unretired(m, r, b) == {x \in m : x[2] \notin StaleIds(r, b)}

(* Mutant: the versions above the number of those applied, off by one.      *)
PendingAboveLast(p) ==
    {v \in Migrations[proc[p].build] : v > Cardinality(proc[p].applied) + 1}

(* The files that Migrate has still to apply, by the versions it has loaded.*)
Pending(p) == Migrations[proc[p].build] \ proc[p].applied
NextFile(p) == CHOOSE v \in Pending(p) : \A w \in Pending(p) : v <= w

-----------------------------------------------------------------------------
Init ==
    /\ record = {} /\ tables = {} /\ rows = << >> /\ members = {}
    /\ attempts = {} /\ learning = {} /\ page = NoPage
    /\ proc = [p \in Procs |-> Off]
    /\ overlap = {} /\ synced = None /\ starts = 0

Bankless == UNCHANGED <<rows, members, attempts, learning, page, synced>>

(* A process starts: CREATE TABLE IF NOT EXISTS schema_migrations.          *)
Start(p) ==
    /\ proc[p].pc \in {"off", "failed"} /\ starts < MaxStarts
    /\ \E b \in Builds, option \in BOOLEAN :
         proc' = [proc EXCEPT ![p] =
                    [pc |-> "load", build |-> b, applied |-> {},
                     force |-> p = Loader /\ option, skip |-> p = Server /\ option]]
    /\ overlap' = IF \E q \in Procs \ {p} : Starting(q) THEN Procs
                  ELSE overlap \ {p}
    /\ starts' = starts + 1
    /\ Bankless /\ UNCHANGED <<record, tables>>

(* SELECT version FROM schema_migrations, once.                             *)
LoadApplied(p) ==
    /\ proc[p].pc = "load"
    /\ proc' = [proc EXCEPT ![p].applied = record, ![p].pc = "apply"]
    /\ Bankless /\ UNCHANGED <<record, tables, overlap, starts>>

(* Mutant: the file and its record in two transactions.                     *)
ApplyOneUnrecorded(p) ==
    /\ proc[p].pc = "apply" /\ Pending(p) # {}
    /\ LET v == NextFile(p) IN
       IF v \in tables \cup record
       THEN /\ proc' = [proc EXCEPT ![p].pc = "failed"]
            /\ UNCHANGED <<record, tables>>
       ELSE /\ tables' = tables \cup {v}
            /\ \/ record' = record \cup {v}
                  /\ proc' = [proc EXCEPT ![p].applied = @ \cup {v}]
               \/ record' = record /\ proc' = [proc EXCEPT ![p] = Off]
    /\ Bankless /\ UNCHANGED <<overlap, starts>>

(* One file and its record in one transaction.  A table that is already     *)
(* there makes it fail: the transaction is rolled back and the start fails. *)
ApplyOne(p) ==
    /\ proc[p].pc = "apply" /\ Pending(p) # {}
    /\ LET v == NextFile(p) IN
       IF v \in tables \cup record
       THEN /\ proc' = [proc EXCEPT ![p].pc = "failed"]
            /\ UNCHANGED <<record, tables>>
       ELSE /\ tables' = tables \cup {v} /\ record' = record \cup {v}
            /\ proc' = [proc EXCEPT ![p].applied = @ \cup {v}]
    /\ Bankless /\ UNCHANGED <<overlap, starts>>

Migrated(p) ==
    /\ proc[p].pc = "apply" /\ Pending(p) = {}
    /\ proc' = [proc EXCEPT ![p].pc = IF proc[p].force THEN "wipe_members"
                                      ELSE IF proc[p].skip THEN "serving" ELSE "sync"]
    /\ Bankless /\ UNCHANGED <<record, tables, overlap, starts>>

(* The four DELETEs of -force, each in a transaction of its own.            *)
Wipe(p) ==
    /\ proc[p].pc \in {"wipe_members", "wipe_sets"}
    /\ proc' = [proc EXCEPT ![p].pc = IF @ = "wipe_members" THEN "wipe_questions"
                                      ELSE "wipe_topics"]
    /\ members' = {} /\ synced' = None
    /\ UNCHANGED <<record, tables, rows, attempts, learning, page, overlap, starts>>

(* DELETE FROM questions: its foreign keys take the rest of them along.     *)
WipeQuestions(p) ==
    /\ proc[p].pc = "wipe_questions"
    /\ proc' = [proc EXCEPT ![p].pc = "wipe_sets"]
    /\ rows' = << >> /\ members' = {} /\ attempts' = {} /\ learning' = {}
    /\ page' = IF page = NoPage THEN NoPage ELSE [page EXCEPT !.wiped = TRUE]
    /\ synced' = None
    /\ UNCHANGED <<record, tables, overlap, starts>>

(* DELETE FROM topics: refused while a question refers to one.              *)
WipeTopics(p) ==
    /\ proc[p].pc = "wipe_topics"
    /\ proc' = [proc EXCEPT ![p].pc = IF DOMAIN rows = {} THEN "sync" ELSE "failed"]
    /\ synced' = None
    /\ UNCHANGED <<record, tables, rows, members, attempts, learning, page,
                   overlap, starts>>

(* Mutant: the learning states of the bank's own questions go as well.      *)
SyncErasesAll(p) ==
    /\ proc[p].pc = "sync"
    /\ LET b == proc[p].build IN
       /\ rows' = Upserted(rows, b)
       /\ members' = Unretired(Joined(members, rows', b), rows', b)
       /\ learning' = {}
       /\ synced' = b
    /\ proc' = [proc EXCEPT ![p] = IF p = Server THEN [@ EXCEPT !.pc = "serving"]
                                   ELSE Off]
    /\ UNCHANGED <<record, tables, attempts, page, overlap, starts>>

(* seed.Sync: upsert, join the sets, retire what the bank no longer has, in *)
(* one transaction.  The server then serves; the loader is done.            *)
Sync(p) ==
    /\ proc[p].pc = "sync"
    /\ LET b == proc[p].build IN
       /\ rows' = Upserted(rows, b)
       /\ members' = Unretired(Joined(members, rows', b), rows', b)
       /\ learning' = learning \ StaleIds(rows', b)
       /\ synced' = b
    /\ proc' = [proc EXCEPT ![p] = IF p = Server THEN [@ EXCEPT !.pc = "serving"]
                                   ELSE Off]
    /\ UNCHANGED <<record, tables, attempts, page, overlap, starts>>

(* Killed, shut down, or an error of the disk or a lock held too long: a    *)
(* transaction that is open is rolled back.                                 *)
Stop(p) ==
    /\ proc[p].pc \notin {"off", "failed"}
    /\ proc' = [proc EXCEPT ![p] = Off]
    /\ Bankless /\ UNCHANGED <<record, tables, overlap, starts>>

(* A user opens a quiz page, and answers the page that is open: the handler *)
(* looks up the id that the form carries.                                   *)
Show ==
    /\ proc[Server].pc = "serving"
    /\ \E c \in DOMAIN rows :
         /\ \E s \in Sets : <<s, rows[c]>> \in members
         /\ page' = [id |-> rows[c], code |-> c, wiped |-> FALSE]
    /\ UNCHANGED <<record, tables, rows, members, attempts, learning, proc,
                   overlap, synced, starts>>

Submit ==
    /\ proc[Server].pc = "serving" /\ page # NoPage
    /\ \E c \in DOMAIN rows : rows[c] = page.id
    /\ attempts' = attempts \cup {page}
    /\ learning' = learning \cup {page.id}
    /\ page' = NoPage
    /\ UNCHANGED <<record, tables, rows, members, proc, overlap, synced, starts>>

Next ==
    \/ \E p \in Procs : \/ Start(p) \/ LoadApplied(p) \/ ApplyOne(p) \/ Migrated(p)
                        \/ Wipe(p) \/ WipeQuestions(p) \/ WipeTopics(p)
                        \/ Sync(p) \/ Stop(p)
    \/ Show
    \/ Submit

Spec == Init /\ [][Next]_vars
-----------------------------------------------------------------------------
(* Every variable has its shape, and no two questions share an id.          *)
TypeOK ==
    /\ record \subseteq Versions /\ tables \subseteq Versions
    /\ DOMAIN rows \subseteq Codes
    /\ \A c, d \in DOMAIN rows : /\ rows[c] \in Ids
                                 /\ rows[c] = rows[d] => c = d
    /\ members \subseteq Sets \X Ids
    /\ attempts \subseteq [id : Ids, code : Codes, wiped : BOOLEAN]
    /\ learning \subseteq Ids
    /\ page \in [id : Ids, code : Codes, wiped : BOOLEAN] \cup {NoPage}
    /\ proc \in [Procs ->
                   [pc : {"off", "failed", "load", "apply", "wipe_members",
                          "wipe_questions", "wipe_sets", "wipe_topics", "sync",
                          "serving"},
                    build : Builds \cup {None}, force : BOOLEAN, skip : BOOLEAN,
                    applied : SUBSET Versions]]
    /\ overlap \subseteq Procs /\ synced \in Builds \cup {None}
    /\ starts \in 0 .. MaxStarts

(* Whatever the starts, kills and overlaps, schema_migrations records       *)
(* exactly the tables there are, no version before a smaller one, and a     *)
(* server that serves has every table of its build.                         *)
SchemaSound ==
    /\ record = tables
    /\ \A v \in record : \A w \in 1 .. v : w \in record
    /\ proc[Server].pc = "serving" => Migrations[proc[Server].build] \subseteq tables

(* The next start goes through: whatever a kill, an error, a wipe or an     *)
(* older build left behind, a start that overlaps no other start meets no   *)
(* table, record or foreign key that makes it fail.                         *)
RestartWorks == \A p \in Procs : proc[p].pc = "failed" => p \in overlap

(* From a Sync to the next wipe, over kills and other starts, the questions *)
(* of the bank synced last are all there, each in every set it belongs to,  *)
(* and no question that the bank has dropped is in any set.                 *)
BankServed ==
    synced # None =>
        /\ CodesOf(synced) \subseteq DOMAIN rows
        /\ \A m \in MembersOf(synced) : <<m[1], rows[m[2]]>> \in members
        /\ \A m \in members : \E c \in CodesOf(synced) : rows[c] = m[2]

(* An attempt stays under the question its page showed, over every release  *)
(* and restart, as long as the bank was not wiped between the two.          *)
AnswersKeepQuestion ==
    \A a \in attempts : ~a.wiped => a.code \in DOMAIN rows /\ rows[a.code] = a.id

(* Only a wipe erases attempts, and beside it only a Sync erases learning   *)
(* states: those of questions its bank does not have.                       *)
HistoryKept ==
    [][\/ \E p \in Procs : proc[p].pc = "wipe_questions"
                           /\ proc'[p].pc = "wipe_sets"
       \/ /\ attempts \subseteq attempts'
          /\ \A i \in learning \ learning' :
                \E p \in Procs : /\ proc[p].pc = "sync" /\ proc'[p] # proc[p]
                                 /\ \A c \in CodesOf(proc[p].build) :
                                        c \in DOMAIN rows => rows[c] # i]_vars
=============================================================================
