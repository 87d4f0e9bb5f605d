----------------------------- MODULE BankProofs -----------------------------
(* The invariants of migrations, restarts and the bank, for any number of   *)
(* builds, migration files, questions and starts of the two processes.      *)
EXTENDS Bank, FiniteSetTheorems, WellFoundedInduction, TLAPS

Places == {"off", "failed", "load", "apply", "wipe_members", "wipe_questions",
           "wipe_sets", "wipe_topics", "sync", "serving"}
Process == [pc : Places, build : Builds \cup {None}, force : BOOLEAN, skip : BOOLEAN,
            applied : SUBSET Versions]

ProcsSound ==
    /\ proc \in [Procs -> Process]
    /\ \A p \in Procs : proc[p].pc \notin {"off", "failed"} => proc[p].build \in Builds

(* schema_migrations records the tables there are, without a gap.           *)
RecordSound ==
    /\ record \subseteq Versions
    /\ record = tables
    /\ \A v \in record : \A w \in 1 .. v : w \in record

(* Two processes that start at the same time have both been noted.          *)
OverlapSound ==
    /\ overlap \subseteq Procs
    /\ \A p, q \in Procs : p # q /\ Starting(p) /\ Starting(q) => p \in overlap

(* What a process knows is behind the tables only if another overlapped it; *)
(* past the migrations they are all there; the topics are wiped when no     *)
(* question is left; and only who was overlapped fails.                     *)
ProcSound(p) ==
    /\ proc[p].pc = "apply" =>
          /\ proc[p].applied \subseteq record
          /\ p \notin overlap => proc[p].applied = record
    /\ proc[p].pc \notin {"off", "failed", "load", "apply"} =>
          Migrations[proc[p].build] \subseteq record
    /\ proc[p].pc \in {"wipe_sets", "wipe_topics"} /\ p \notin overlap => DOMAIN rows = {}
    /\ proc[p].pc = "failed" => p \in overlap

IInv == ProcsSound /\ RecordSound /\ OverlapSound /\ \A p \in Procs : ProcSound(p)

(* The ids in use are the numbers from 1 on, and no two questions share one.*)
RowsSound ==
    /\ DOMAIN rows \subseteq Codes
    /\ rows \in Bijection(DOMAIN rows, 1 .. Cardinality(DOMAIN rows))

MembersSound == members \subseteq {<<s, rows[c]>> : s \in Sets, c \in DOMAIN rows}

(* A page, and the attempt made from it, has the id of its question.        *)
PageSound(a) ==
    /\ a \in [id : Ids, code : Codes, wiped : BOOLEAN]
    /\ ~a.wiped => a.code \in DOMAIN rows /\ rows[a.code] = a.id

DataInv ==
    /\ RowsSound
    /\ MembersSound
    /\ page = NoPage \/ PageSound(page)
    /\ \A a \in attempts : PageSound(a)
    /\ learning \subseteq Ids
    /\ synced \in Builds \cup {None}
    /\ BankServed
    /\ starts \in 0 .. MaxStarts

(* The file applied next is the first of those that are pending.            *)
LEMMA FirstPending ==
    ASSUME IInv, NEW p \in Procs, proc[p].build \in Builds, Pending(p) # {}
    PROVE  /\ NextFile(p) \in Pending(p)
           /\ NextFile(p) \in Nat \ {0}
           /\ \A w \in Pending(p) : NextFile(p) <= w
<1> DEFINE Less == {ss \in Nat \X Nat : ss[1] < ss[2]}
<1>1. PICK n \in Nat : Migrations[proc[p].build] = 1 .. n
  BY BuildsAssumption, FS_CardinalityType
<1>2. Pending(p) \subseteq Nat \ {0}
  BY <1>1 DEF Pending
<1>3. IsWellFoundedOn(Less, Nat)
  BY NatLessThanWellFounded DEF OpToRel
<1>4. PICK v \in Pending(p) : \A w \in Pending(p) : <<w, v>> \notin Less
  <2> HIDE DEF Less
  <2> QED
    BY <1>2, <1>3, WFMin
<1>5. ASSUME NEW w \in Pending(p)
      PROVE  v <= w
  <2>1. v \in Nat /\ w \in Nat
    BY <1>2, <1>4
  <2>2. w < v => <<w, v>> \in Less
    BY <2>1
  <2>3. ~(w < v)
    BY <1>4, <2>2
  <2> QED
    BY <2>1, <2>3
<1> QED
  BY <1>2, <1>5 DEF NextFile

-----------------------------------------------------------------------------
(* The other processes stay sound when the one that moves is starting, so   *)
(* that they are noted as overlapped, or touches neither record nor rows.   *)
LEMMA OtherSound ==
    ASSUME IInv, NEW p \in Procs, NEW q \in Procs, q # p, proc'[q] = proc[q],
           record \subseteq record', q \in overlap => q \in overlap',
           Starting(p) \/ (record' = record /\ rows' = rows)
    PROVE  ProcSound(q)'
<1>1. Starting(q) /\ q \notin overlap => record' = record /\ rows' = rows
  BY DEF IInv, OverlapSound
<1>2. ProcSound(q)
  BY DEF IInv
<1>3. proc[q].pc = "apply" => Starting(q)
  BY DEF Starting
<1>4. proc[q].pc \in {"wipe_sets", "wipe_topics"} => Starting(q)
  BY DEF Starting
<1> QED
  BY <1>1, <1>2, <1>3, <1>4 DEF ProcSound

(* A step that moves one process keeps the invariant if what is said of     *)
(* that process and of the record holds after it.                           *)
LEMMA MoveSound ==
    ASSUME IInv, NEW p \in Procs, NEW r \in Process,
           proc' = [proc EXCEPT ![p] = r],
           r.pc \notin {"off", "failed"} => r.build \in Builds,
           r.pc \notin {"off", "failed", "serving"} => Starting(p),
           overlap' = overlap,
           RecordSound', record \subseteq record',
           Starting(p) \/ (record' = record /\ rows' = rows),
           ProcSound(p)'
    PROVE  IInv'
<1>1. proc \in [Procs -> Process]
  BY DEF IInv, ProcsSound
<1>2. proc'[p] = r /\ \A q \in Procs : q # p => proc'[q] = proc[q]
  BY <1>1
<1>3. ProcsSound'
  <2>1. proc' \in [Procs -> Process]
    BY <1>1
  <2> QED
    BY <1>2, <2>1 DEF IInv, ProcsSound
<1>4. OverlapSound'
  <2>1. \A q \in Procs : Starting(q)' => Starting(q)
    BY <1>2 DEF Starting
  <2> QED
    BY <2>1 DEF IInv, OverlapSound
<1>5. ASSUME NEW q \in Procs
      PROVE  ProcSound(q)'
  <2>1. CASE q = p
    BY <2>1
  <2>2. CASE q # p
    BY <1>2, <2>2, OtherSound
  <2> QED
    BY <2>1, <2>2
<1> QED
  BY <1>3, <1>4, <1>5 DEF IInv

(* What has no part in the invariant may change.                            *)
LEMMA Untouched ==
    ASSUME IInv, UNCHANGED <<record, tables, rows, proc, overlap>>
    PROVE  IInv'
BY DEF IInv, ProcsSound, RecordSound, OverlapSound, ProcSound, Starting

LEMMA OffProcess == Off \in Process
BY DEF Off, Process, Places

-----------------------------------------------------------------------------
LEMMA InitSound == Init => IInv
<1> SUFFICES ASSUME Init PROVE IInv
  OBVIOUS
<1>1. ProcsSound
  BY OffProcess DEF Init, ProcsSound, Off
<1>2. RecordSound
  BY DEF Init, RecordSound
<1>3. OverlapSound
  BY DEF Init, OverlapSound, Starting, Off
<1>4. \A p \in Procs : ProcSound(p)
  BY DEF Init, ProcSound, Off
<1> QED
  BY <1>1, <1>2, <1>3, <1>4 DEF IInv

LEMMA StartSound ==
    ASSUME IInv, NEW p \in Procs, Start(p)
    PROVE  IInv'
<1>1. PICK b \in Builds, option \in BOOLEAN :
        proc' = [proc EXCEPT ![p] =
                   [pc |-> "load", build |-> b, applied |-> {},
                    force |-> p = Loader /\ option, skip |-> p = Server /\ option]]
  BY DEF Start
<1> DEFINE r == [pc |-> "load", build |-> b, applied |-> {},
                 force |-> p = Loader /\ option, skip |-> p = Server /\ option]
<1>2. /\ overlap' = IF \E q \in Procs \ {p} : Starting(q) THEN Procs ELSE overlap \ {p}
      /\ UNCHANGED <<record, tables, rows>>
  BY DEF Start, Bankless
<1>3. r \in Process
  BY DEF Process, Places
<1>4. proc \in [Procs -> Process]
  BY DEF IInv, ProcsSound
<1>5. proc'[p] = r /\ \A q \in Procs : q # p => proc'[q] = proc[q]
  BY <1>1, <1>4
<1>6. r.pc = "load" /\ r.build = b
  OBVIOUS
<1> HIDE DEF r
<1>7. ProcsSound'
  <2>1. proc' = [proc EXCEPT ![p] = r]
    BY <1>1 DEF r
  <2>2. proc' \in [Procs -> Process]
    BY <1>3, <1>4, <2>1
  <2> QED
    BY <1>5, <1>6, <2>2 DEF IInv, ProcsSound
<1>8. RecordSound'
  BY <1>2 DEF IInv, RecordSound
<1>9. \A q \in Procs : q # p /\ q \in overlap => q \in overlap'
  BY <1>2
<1>10. OverlapSound'
  <2>1. overlap' \subseteq Procs
    BY <1>2 DEF IInv, OverlapSound
  <2>2. ASSUME NEW q \in Procs, NEW s \in Procs, q # s, Starting(q)', Starting(s)'
        PROVE  q \in overlap'
    <3>1. \A u \in Procs : u # p /\ Starting(u)' => Starting(u)
      BY <1>5 DEF Starting
    <3>2. CASE q = p \/ s = p
      BY <1>2, <2>2, <3>1, <3>2
    <3>3. CASE q # p /\ s # p
      BY <1>9, <2>2, <3>1, <3>3 DEF IInv, OverlapSound
    <3> QED
      BY <3>2, <3>3
  <2> QED
    BY <2>1, <2>2 DEF OverlapSound
<1>11. ASSUME NEW q \in Procs
       PROVE  ProcSound(q)'
  <2>1. CASE q = p
    BY <1>5, <1>6, <2>1 DEF ProcSound
  <2>2. CASE q # p
    BY <1>2, <1>5, <1>9, <2>2, OtherSound
  <2> QED
    BY <2>1, <2>2
<1> QED
  BY <1>7, <1>8, <1>10, <1>11 DEF IInv

LEMMA LoadAppliedSound ==
    ASSUME IInv, NEW p \in Procs, LoadApplied(p)
    PROVE  IInv'
<1> DEFINE r == [proc[p] EXCEPT !.applied = record, !.pc = "apply"]
<1>1. /\ proc[p] \in Process /\ proc[p].pc = "load" /\ proc[p].build \in Builds
      /\ record \subseteq Versions
  BY DEF IInv, ProcsSound, RecordSound, LoadApplied
<1>2. r \in Process /\ r.pc = "apply" /\ r.build = proc[p].build /\ r.applied = record
  BY <1>1 DEF Process, Places
<1>3. proc' = [proc EXCEPT ![p] = r]
  BY <1>1 DEF LoadApplied, IInv, ProcsSound, Process
<1>4. proc'[p] = r
  BY <1>3 DEF IInv, ProcsSound
<1>5. UNCHANGED <<record, tables, rows, overlap>>
  BY DEF LoadApplied, Bankless
<1> HIDE DEF r
<1>6. RecordSound'
  BY <1>5 DEF IInv, RecordSound
<1>7. ProcSound(p)'
  BY <1>2, <1>4, <1>5 DEF ProcSound
<1>8. Starting(p)
  BY <1>1 DEF Starting
<1> QED
  BY <1>1, <1>2, <1>3, <1>5, <1>6, <1>7, <1>8, MoveSound

(* A file applies only if it is not there; the record then grows by the     *)
(* first version it lacked, so without a gap.                               *)
LEMMA ApplyOneSound ==
    ASSUME IInv, NEW p \in Procs, ApplyOne(p)
    PROVE  IInv'
<1> DEFINE v == NextFile(p)
           failed == [proc[p] EXCEPT !.pc = "failed"]
           applied == [proc[p] EXCEPT !.applied = @ \cup {v}]
<1>1. /\ proc \in [Procs -> Process] /\ proc[p] \in Process
      /\ proc[p].pc = "apply" /\ proc[p].build \in Builds
  BY DEF IInv, ProcsSound, ApplyOne
<1>2. /\ v \in Pending(p) /\ v \in Nat \ {0} /\ \A w \in Pending(p) : v <= w
  BY <1>1, FirstPending DEF ApplyOne
<1>3. ProcSound(p) /\ RecordSound
  BY DEF IInv
<1>4. v \in Migrations[proc[p].build] /\ v \notin proc[p].applied /\ v \in Versions
  BY <1>1, <1>2 DEF Pending, Versions
<1>5. overlap' = overlap /\ rows' = rows
  BY DEF ApplyOne, Bankless
<1>6. Starting(p)
  BY <1>1 DEF Starting
<1>7. CASE v \in tables \cup record
  <2>1. proc' = [proc EXCEPT ![p] = failed]
    BY <1>1, <1>7 DEF ApplyOne, Process
  <2>2. UNCHANGED <<record, tables>>
    BY <1>7 DEF ApplyOne
  <2>3. failed \in Process /\ failed.pc = "failed"
    BY <1>1 DEF Process, Places
  <2>4. p \in overlap
    BY <1>1, <1>3, <1>4, <1>7 DEF ProcSound, RecordSound
  <2>5. proc'[p] = failed
    BY <1>1, <2>1
  <2> HIDE DEF failed, v
  <2>6. RecordSound'
    BY <1>3, <2>2 DEF RecordSound
  <2>7. ProcSound(p)'
    BY <1>5, <2>3, <2>4, <2>5 DEF ProcSound
  <2> QED
    BY <1>5, <1>6, <2>1, <2>2, <2>3, <2>6, <2>7, MoveSound
<1>8. CASE v \notin tables \cup record
  <2>1. /\ proc' = [proc EXCEPT ![p] = applied]
        /\ record' = record \cup {v} /\ tables' = tables \cup {v}
    BY <1>1, <1>8 DEF ApplyOne, Process
  <2>2. /\ applied \in Process /\ applied.pc = "apply" /\ applied.build = proc[p].build
        /\ applied.applied = proc[p].applied \cup {v}
    BY <1>1, <1>4 DEF Process, Places
  <2>3. proc'[p] = applied
    BY <1>1, <2>1
  <2> HIDE DEF applied, v
  <2>4. \A w \in 1 .. v : w \in record'
    <3> SUFFICES ASSUME NEW w \in 1 .. v, w # v PROVE w \in record
      BY <2>1
    <3>1. PICK n \in Nat : Migrations[proc[p].build] = 1 .. n
      BY <1>1, BuildsAssumption, FS_CardinalityType
    <3>2. w \in Migrations[proc[p].build]
      BY <1>2, <1>4, <3>1
    <3>3. ~(v <= w)
      BY <1>2
    <3>4. w \in proc[p].applied
      BY <1>2, <3>2, <3>3 DEF Pending
    <3> QED
      BY <1>1, <1>3, <3>4 DEF ProcSound
  <2>5. RecordSound'
    BY <1>3, <1>4, <2>1, <2>4 DEF RecordSound
  <2>6. ProcSound(p)'
    BY <1>1, <1>3, <1>5, <2>1, <2>2, <2>3 DEF ProcSound
  <2> QED
    BY <1>1, <1>5, <1>6, <2>1, <2>2, <2>5, <2>6, MoveSound
<1> QED
  BY <1>7, <1>8

LEMMA MigratedSound ==
    ASSUME IInv, NEW p \in Procs, Migrated(p)
    PROVE  IInv'
<1> DEFINE place == IF proc[p].force THEN "wipe_members"
                    ELSE IF proc[p].skip THEN "serving" ELSE "sync"
           r == [proc[p] EXCEPT !.pc = place]
<1>1. /\ proc \in [Procs -> Process] /\ proc[p] \in Process
      /\ proc[p].pc = "apply" /\ proc[p].build \in Builds
  BY DEF IInv, ProcsSound, Migrated
<1>2. place \in {"wipe_members", "serving", "sync"}
  OBVIOUS
<1>3. r \in Process /\ r.pc = place /\ r.build = proc[p].build
  BY <1>1, <1>2 DEF Process, Places
<1>4. proc' = [proc EXCEPT ![p] = r]
  BY <1>1 DEF Migrated, Process
<1>5. proc'[p] = r
  BY <1>1, <1>4
<1>6. UNCHANGED <<record, tables, rows, overlap>>
  BY DEF Migrated, Bankless
<1>7. Migrations[proc[p].build] \subseteq record
  <2>1. Migrations[proc[p].build] \subseteq proc[p].applied
    BY DEF Migrated, Pending
  <2>2. ProcSound(p)
    BY DEF IInv
  <2> QED
    BY <1>1, <2>1, <2>2 DEF ProcSound
<1> HIDE DEF r, place
<1>8. RecordSound'
  BY <1>6 DEF IInv, RecordSound
<1>9. ProcSound(p)'
  BY <1>2, <1>3, <1>5, <1>6, <1>7 DEF ProcSound
<1>10. Starting(p)
  BY <1>1 DEF Starting
<1> QED
  BY <1>1, <1>3, <1>4, <1>6, <1>8, <1>9, <1>10, MoveSound

LEMMA WipeSound ==
    ASSUME IInv, NEW p \in Procs, Wipe(p)
    PROVE  IInv'
<1> DEFINE place == IF proc[p].pc = "wipe_members" THEN "wipe_questions"
                    ELSE "wipe_topics"
           r == [proc[p] EXCEPT !.pc = place]
<1>1. /\ proc \in [Procs -> Process] /\ proc[p] \in Process /\ proc[p].build \in Builds
      /\ proc[p].pc \in {"wipe_members", "wipe_sets"}
  BY DEF IInv, ProcsSound, Wipe
<1>2. /\ place \in {"wipe_questions", "wipe_topics"}
      /\ place = "wipe_topics" => proc[p].pc = "wipe_sets"
  BY <1>1
<1>3. r \in Process /\ r.pc = place /\ r.build = proc[p].build
  BY <1>1, <1>2 DEF Process, Places
<1>4. proc' = [proc EXCEPT ![p] = r]
  BY <1>1 DEF Wipe, Process
<1>5. proc'[p] = r
  BY <1>1, <1>4
<1>6. UNCHANGED <<record, tables, rows, overlap>>
  BY DEF Wipe
<1>7. ProcSound(p)
  BY DEF IInv
<1> HIDE DEF r, place
<1>8. RecordSound'
  BY <1>6 DEF IInv, RecordSound
<1>9. ProcSound(p)'
  BY <1>1, <1>2, <1>3, <1>5, <1>6, <1>7 DEF ProcSound
<1>10. Starting(p)
  BY <1>1 DEF Starting
<1> QED
  BY <1>1, <1>3, <1>4, <1>6, <1>8, <1>9, <1>10, MoveSound

LEMMA WipeQuestionsSound ==
    ASSUME IInv, NEW p \in Procs, WipeQuestions(p)
    PROVE  IInv'
<1> DEFINE r == [proc[p] EXCEPT !.pc = "wipe_sets"]
<1>1. /\ proc \in [Procs -> Process] /\ proc[p] \in Process /\ proc[p].build \in Builds
      /\ proc[p].pc = "wipe_questions"
  BY DEF IInv, ProcsSound, WipeQuestions
<1>2. r \in Process /\ r.pc = "wipe_sets" /\ r.build = proc[p].build
  BY <1>1 DEF Process, Places
<1>3. proc' = [proc EXCEPT ![p] = r]
  BY <1>1 DEF WipeQuestions, Process
<1>4. proc'[p] = r
  BY <1>1, <1>3
<1>5. UNCHANGED <<record, tables, overlap>> /\ DOMAIN rows' = {}
  BY DEF WipeQuestions
<1>6. ProcSound(p)
  BY DEF IInv
<1> HIDE DEF r
<1>7. RecordSound'
  BY <1>5 DEF IInv, RecordSound
<1>8. ProcSound(p)'
  BY <1>1, <1>2, <1>4, <1>5, <1>6 DEF ProcSound
<1>9. Starting(p)
  BY <1>1 DEF Starting
<1> QED
  BY <1>1, <1>2, <1>3, <1>5, <1>7, <1>8, <1>9, MoveSound

LEMMA WipeTopicsSound ==
    ASSUME IInv, NEW p \in Procs, WipeTopics(p)
    PROVE  IInv'
<1> DEFINE place == IF DOMAIN rows = {} THEN "sync" ELSE "failed"
           r == [proc[p] EXCEPT !.pc = place]
<1>1. /\ proc \in [Procs -> Process] /\ proc[p] \in Process /\ proc[p].build \in Builds
      /\ proc[p].pc = "wipe_topics"
  BY DEF IInv, ProcsSound, WipeTopics
<1>2. place \in {"sync", "failed"} /\ (place = "failed" => DOMAIN rows # {})
  OBVIOUS
<1>3. r \in Process /\ r.pc = place /\ r.build = proc[p].build
  BY <1>1, <1>2 DEF Process, Places
<1>4. proc' = [proc EXCEPT ![p] = r]
  BY <1>1 DEF WipeTopics, Process
<1>5. proc'[p] = r
  BY <1>1, <1>4
<1>6. UNCHANGED <<record, tables, rows, overlap>>
  BY DEF WipeTopics
<1>7. ProcSound(p)
  BY DEF IInv
<1> HIDE DEF r, place
<1>8. RecordSound'
  BY <1>6 DEF IInv, RecordSound
<1>9. ProcSound(p)'
  BY <1>1, <1>2, <1>3, <1>5, <1>6, <1>7 DEF ProcSound
<1>10. Starting(p)
  BY <1>1 DEF Starting
<1> QED
  BY <1>1, <1>3, <1>4, <1>6, <1>8, <1>9, <1>10, MoveSound

LEMMA SyncSound ==
    ASSUME IInv, NEW p \in Procs, Sync(p)
    PROVE  IInv'
<1> DEFINE r == IF p = Server THEN [proc[p] EXCEPT !.pc = "serving"] ELSE Off
<1>1. /\ proc \in [Procs -> Process] /\ proc[p] \in Process /\ proc[p].build \in Builds
      /\ proc[p].pc = "sync"
  BY DEF IInv, ProcsSound, Sync
<1>2. /\ r \in Process /\ r.pc \in {"off", "serving"}
      /\ r.pc = "serving" => r.build = proc[p].build
  BY <1>1, OffProcess DEF Process, Places, Off
<1>3. proc' = [proc EXCEPT ![p] = r]
  BY <1>1 DEF Sync, Process
<1>4. proc'[p] = r
  BY <1>1, <1>3
<1>5. UNCHANGED <<record, tables, overlap>>
  BY DEF Sync
<1>6. ProcSound(p)
  BY DEF IInv
<1> HIDE DEF r
<1>7. RecordSound'
  BY <1>5 DEF IInv, RecordSound
<1>8. ProcSound(p)'
  BY <1>1, <1>2, <1>4, <1>5, <1>6 DEF ProcSound
<1>9. Starting(p)
  BY <1>1 DEF Starting
<1> QED
  BY <1>1, <1>2, <1>3, <1>5, <1>7, <1>8, <1>9, MoveSound

LEMMA StopSound ==
    ASSUME IInv, NEW p \in Procs, Stop(p)
    PROVE  IInv'
<1>1. Off \in Process /\ Off.pc = "off"
  BY OffProcess DEF Off
<1>2. /\ proc' = [proc EXCEPT ![p] = Off]
      /\ UNCHANGED <<record, tables, rows, overlap>>
  BY DEF Stop, Bankless
<1>3. proc'[p] = Off
  BY <1>2 DEF IInv, ProcsSound
<1>4. RecordSound'
  BY <1>2 DEF IInv, RecordSound
<1>5. ProcSound(p)'
  BY <1>1, <1>3 DEF ProcSound
<1> QED
  BY <1>1, <1>2, <1>4, <1>5, MoveSound

-----------------------------------------------------------------------------
(* IInv holds in every reachable state: what a process of Migrate, of the   *)
(* wipe or of Sync takes for granted is so unless another overlapped it.    *)
THEOREM BankInvariant == Spec => []IInv
<1>1. Init => IInv
  BY InitSound
<1>2. IInv /\ [Next]_vars => IInv'
  <2> SUFFICES ASSUME IInv, [Next]_vars PROVE IInv'
    OBVIOUS
  <2>1. CASE UNCHANGED vars
    BY <2>1, Untouched DEF vars
  <2>2. CASE Show \/ Submit
    BY <2>2, Untouched DEF Show, Submit
  <2>3. ASSUME NEW p \in Procs,
               \/ Start(p) \/ LoadApplied(p) \/ ApplyOne(p) \/ Migrated(p)
               \/ Wipe(p) \/ WipeQuestions(p) \/ WipeTopics(p) \/ Sync(p) \/ Stop(p)
        PROVE  IInv'
    BY <2>3, StartSound, LoadAppliedSound, ApplyOneSound, MigratedSound, WipeSound,
       WipeQuestionsSound, WipeTopicsSound, SyncSound, StopSound
  <2> QED
    BY <2>1, <2>2, <2>3 DEF Next
<1> QED
  BY <1>1, <1>2, PTL DEF Spec

(* Whatever the starts, kills and overlaps, schema_migrations records       *)
(* exactly the tables there are, without a gap, and a server that serves    *)
(* has every table of its build (sqlitex.Migrate, main.go).                 *)
THEOREM SchemaStaysSound == Spec => []SchemaSound
<1>1. IInv => SchemaSound
  <2> SUFFICES ASSUME IInv PROVE SchemaSound
    OBVIOUS
  <2>1. RecordSound /\ ProcSound(Server)
    BY DEF IInv, Procs
  <2> QED
    BY <2>1 DEF RecordSound, ProcSound, SchemaSound
<1> QED
  BY <1>1, BankInvariant, PTL

(* A start that overlaps no other start never fails on what earlier ones    *)
(* left behind, killed, older or wiped halfway (sqlitex.Migrate, the seed   *)
(* loader's -force).                                                        *)
THEOREM StartsGoThrough == Spec => []RestartWorks
<1>1. IInv => RestartWorks
  BY DEF IInv, ProcSound, RestartWorks
<1> QED
  BY <1>1, BankInvariant, PTL

-----------------------------------------------------------------------------
(* Counting the elements of a finite set of numbers up to each of them      *)
(* numbers them from 1, each number once.                                   *)
LEMMA RankBijection ==
    ASSUME NEW P \in SUBSET Nat, IsFiniteSet(P)
    PROVE  [i \in P |-> Cardinality({j \in P : j <= i})] \in Bijection(P, 1 .. Cardinality(P))
<1> DEFINE Upto(i) == {j \in P : j <= i}
           n == Cardinality(P)
           rank == [i \in P |-> Cardinality(Upto(i))]
<1>1. n \in Nat
  BY FS_CardinalityType
<1>2. ASSUME NEW i \in P
      PROVE  /\ IsFiniteSet(Upto(i)) /\ i \in Upto(i)
             /\ Cardinality(Upto(i)) \in 1 .. n
  <2>1. Upto(i) \in SUBSET P /\ i \in Upto(i)
    OBVIOUS
  <2>2. IsFiniteSet(Upto(i)) /\ Cardinality(Upto(i)) <= n
    BY <2>1, FS_Subset
  <2>3. Cardinality(Upto(i)) \in Nat /\ Cardinality(Upto(i)) # 0
    BY <2>1, <2>2, FS_CardinalityType, FS_EmptySet
  <2> QED
    BY <1>1, <2>1, <2>2, <2>3
<1>3. ASSUME NEW i \in P, NEW k \in P, i < k
      PROVE  Cardinality(Upto(i)) # Cardinality(Upto(k))
  <2>1. i \in Nat /\ k \in Nat /\ \A j \in P : j \in Nat
    OBVIOUS
  <2>2. Upto(i) \in SUBSET Upto(k) /\ k \in Upto(k) /\ k \notin Upto(i)
    <3>1. \A j \in P : j <= i => j <= k
      BY <1>3, <2>1
    <3>2. k \in Upto(k) /\ k \notin Upto(i)
      BY <1>3, <2>1
    <3> QED
      BY <3>1, <3>2
  <2>3. IsFiniteSet(Upto(k))
    BY <1>2
  <2> HIDE DEF Upto
  <2>4. Cardinality(Upto(k)) = Cardinality(Upto(i)) => Upto(k) = Upto(i)
    BY <2>2, <2>3, FS_Subset
  <2> QED
    BY <2>2, <2>4
<1> HIDE DEF Upto
<1>4. rank \in [P -> 1 .. n]
  BY <1>2
<1>5. \A i, k \in P : rank[i] = rank[k] => i = k
  <2> SUFFICES ASSUME NEW i \in P, NEW k \in P, i # k PROVE rank[i] # rank[k]
    OBVIOUS
  <2>1. i < k \/ k < i
    OBVIOUS
  <2> QED
    BY <1>3, <2>1
<1> HIDE DEF rank, n
<1>6. rank \in Injection(P, 1 .. n)
  BY <1>4, <1>5 DEF Injection, IsInjective
<1>7. IsFiniteSet(1 .. n) /\ Cardinality(1 .. n) = n
  BY <1>1, FS_Interval
<1>8. rank \in Surjection(P, 1 .. n)
  BY <1>6, <1>7, FS_Injection DEF n
<1> QED
  BY <1>6, <1>8 DEF Bijection, rank, n, Upto

(* The ids in use are 1 to their number, so the highest is their number.    *)
LEMMA HighestIdIsCount ==
    ASSUME NEW r, NEW n \in Nat, r \in Bijection(DOMAIN r, 1 .. n)
    PROVE  HighestId(r) = n
<1>1. Range(r) = 1 .. n
  BY DEF Range, Bijection, Surjection
<1>2. {0} \cup 1 .. n = 0 .. n
  OBVIOUS
<1>3. n \in 0 .. n /\ \A y \in 0 .. n : n >= y
  OBVIOUS
<1>4. \A x \in 0 .. n : (\A y \in 0 .. n : x >= y) => x = n
  BY <1>3
<1> QED
  BY <1>1, <1>2, <1>3, <1>4 DEF HighestId, Max

LEMMA PositionOf ==
    ASSUME NEW b \in Builds
    PROVE  /\ DOMAIN Bank[b] \in SUBSET Nat /\ IsFiniteSet(DOMAIN Bank[b])
           /\ \A i \in DOMAIN Bank[b] : /\ Bank[b][i].code \in CodesOf(b)
                                        /\ Position(b, Bank[b][i].code) = i
           /\ \A c \in CodesOf(b) : /\ Position(b, c) \in DOMAIN Bank[b]
                                    /\ Bank[b][Position(b, c)].code = c
<1>1. DOMAIN Bank[b] = 1 .. Len(Bank[b]) /\ Len(Bank[b]) \in Nat
  BY BuildsAssumption
<1>2. IsFiniteSet(DOMAIN Bank[b])
  BY <1>1, FS_Interval
<1>3. \A i, j \in DOMAIN Bank[b] : Bank[b][i].code = Bank[b][j].code => i = j
  BY BuildsAssumption
<1>4. \A c \in CodesOf(b) : \E i \in DOMAIN Bank[b] : Bank[b][i].code = c
  BY DEF CodesOf
<1> QED
  BY <1>1, <1>2, <1>3, <1>4 DEF CodesOf, Position

(* An upsert keeps the ids there are and goes on counting: no id is given   *)
(* twice, and again all from 1 to their number are in use.                  *)
LEMMA UpsertedBijection ==
    ASSUME NEW b \in Builds, NEW r, IsFiniteSet(DOMAIN r),
           r \in Bijection(DOMAIN r, 1 .. Cardinality(DOMAIN r))
    PROVE  /\ DOMAIN Upserted(r, b) = DOMAIN r \cup CodesOf(b)
           /\ IsFiniteSet(DOMAIN Upserted(r, b))
           /\ Upserted(r, b) \in Bijection(DOMAIN Upserted(r, b),
                                           1 .. Cardinality(DOMAIN Upserted(r, b)))
           /\ \A c \in DOMAIN r : Upserted(r, b)[c] = r[c]
<1> DEFINE n == Cardinality(DOMAIN r)
           P == {j \in DOMAIN Bank[b] : Bank[b][j].code \notin DOMAIN r}
           k == Cardinality(P)
           rank == [i \in P |-> Cardinality({j \in P : j <= i})]
           N == CodesOf(b) \ DOMAIN r
           U == Upserted(r, b)
<1>1. n \in Nat /\ HighestId(r) = n
  BY FS_CardinalityType, HighestIdIsCount
<1>2. IsFiniteSet(P) /\ P \in SUBSET Nat
  BY PositionOf, FS_Subset
<1>3. k \in Nat /\ rank \in Bijection(P, 1 .. k)
  BY <1>2, RankBijection, FS_CardinalityType
<1>4. \A i : Inserted(r, b, i) = {j \in P : j <= i}
  BY DEF Inserted
<1>5. IsFiniteSet(N) /\ Cardinality(N) = k
  <2> DEFINE codes == [i \in P |-> Bank[b][i].code]
  <2>1. codes \in [P -> N]
    BY PositionOf
  <2>2. \A i, j \in P : codes[i] = codes[j] => i = j
    BY BuildsAssumption
  <2>3. \A c \in N : Position(b, c) \in P /\ codes[Position(b, c)] = c
    BY PositionOf
  <2> HIDE DEF codes, P, N
  <2>4. codes \in Bijection(P, N)
    BY <2>1, <2>2, <2>3 DEF Bijection, Injection, Surjection, IsInjective
  <2> QED
    BY <1>2, <2>4, FS_Bijection DEF ExistsBijection, k
<1>6. /\ DOMAIN U = DOMAIN r \cup N
      /\ IsFiniteSet(DOMAIN U) /\ Cardinality(DOMAIN U) = n + k
  <2>1. DOMAIN U = DOMAIN r \cup N /\ DOMAIN r \cap N = {}
    BY DEF Upserted
  <2> HIDE DEF U, N, k
  <2>2. Cardinality(DOMAIN r \cap N) = 0
    BY <2>1, FS_EmptySet
  <2>3. /\ IsFiniteSet(DOMAIN r \cup N)
        /\ Cardinality(DOMAIN r \cup N) = n + Cardinality(N) - 0
    BY <1>5, <2>2, FS_Union
  <2>4. n + Cardinality(N) - 0 = n + k
    BY <1>1, <1>3, <1>5
  <2> QED
    BY <2>1, <2>3, <2>4
<1>7. \A c \in DOMAIN r : U[c] = r[c]
  BY DEF Upserted
<1>8. \A c \in N : Position(b, c) \in P /\ U[c] = n + rank[Position(b, c)]
  BY <1>1, <1>4, PositionOf DEF Upserted
<1>9. \A i \in P : Bank[b][i].code \in N /\ Position(b, Bank[b][i].code) = i
  BY PositionOf
<1>10. r \in [DOMAIN r -> 1 .. n] /\ IsInjective(r) /\ \A m \in 1 .. n : \E c \in DOMAIN r : r[c] = m
  BY DEF Bijection, Injection, Surjection
<1>11. /\ rank \in [P -> 1 .. k] /\ IsInjective(rank)
       /\ \A m \in 1 .. k : \E i \in P : rank[i] = m
  BY <1>3 DEF Bijection, Injection, Surjection
<1>12. U = [c \in DOMAIN U |-> U[c]]
  BY DEF Upserted
<1>13. DOMAIN U = DOMAIN r \cup CodesOf(b)
  BY DEF Upserted
<1>14. \A c \in N : Bank[b][Position(b, c)].code = c
  BY PositionOf
<1> HIDE DEF U, N, rank, k, P, n
<1>15. U \in [DOMAIN U -> 1 .. (n + k)]
  <2>1. \A c \in DOMAIN r : U[c] \in 1 .. (n + k)
    BY <1>1, <1>3, <1>7, <1>10
  <2>2. \A c \in N : U[c] \in 1 .. (n + k)
    BY <1>1, <1>3, <1>8, <1>11
  <2> QED
    BY <1>6, <1>12, <2>1, <2>2
<1>16. \A c, d \in DOMAIN U : U[c] = U[d] => c = d
  <2>1. \A c, d \in DOMAIN r : U[c] = U[d] => c = d
    BY <1>7, <1>10 DEF IsInjective
  <2>2. \A c \in DOMAIN r, d \in N : U[c] # U[d]
    BY <1>1, <1>3, <1>7, <1>8, <1>10, <1>11
  <2>3. ASSUME NEW c \in N, NEW d \in N, U[c] = U[d]
        PROVE  c = d
    <3>1. rank[Position(b, c)] = rank[Position(b, d)]
      BY <1>1, <1>3, <1>8, <1>11, <2>3
    <3>2. Position(b, c) = Position(b, d)
      BY <1>8, <1>11, <3>1 DEF IsInjective
    <3> QED
      BY <1>14, <3>2
  <2> QED
    BY <1>6, <2>1, <2>2, <2>3
<1>17. \A m \in 1 .. (n + k) : \E c \in DOMAIN U : U[c] = m
  <2> SUFFICES ASSUME NEW m \in 1 .. (n + k) PROVE \E c \in DOMAIN U : U[c] = m
    OBVIOUS
  <2>1. CASE m \in 1 .. n
    BY <1>6, <1>7, <1>10, <2>1
  <2>2. CASE m > n
    <3>1. m - n \in 1 .. k
      BY <1>1, <1>3, <2>2
    <3>2. PICK i \in P : rank[i] = m - n
      BY <1>11, <3>1
    <3>3. U[Bank[b][i].code] = m
      BY <1>1, <1>8, <1>9, <3>2
    <3> QED
      BY <1>6, <1>9, <3>3
  <2> QED
    BY <1>1, <1>3, <2>1, <2>2
<1>18. U \in Bijection(DOMAIN U, 1 .. (n + k))
  BY <1>15, <1>16, <1>17 DEF Bijection, Injection, Surjection, IsInjective
<1> QED
  BY <1>6, <1>7, <1>13, <1>18 DEF U


-----------------------------------------------------------------------------
LEMMA CodesFinite == IsFiniteSet(Codes)
<1>1. ASSUME NEW b \in Builds
      PROVE  IsFiniteSet(CodesOf(b))
  <2> DEFINE codes == [i \in DOMAIN Bank[b] |-> Bank[b][i].code]
  <2>1. codes \in Surjection(DOMAIN Bank[b], CodesOf(b))
    BY DEF Surjection, CodesOf
  <2> QED
    BY <2>1, PositionOf, FS_Surjection
<1>2. IsFiniteSet({CodesOf(b) : b \in Builds})
  <2> DEFINE codes == [b \in Builds |-> CodesOf(b)]
  <2>1. codes \in Surjection(Builds, {CodesOf(b) : b \in Builds})
    BY DEF Surjection
  <2> QED
    BY <2>1, BuildsAssumption, FS_Surjection
<1> QED
  BY <1>1, <1>2, FS_UNION DEF Codes

(* What RowsSound says, without the library's sets of functions.            *)
LEMMA RowsFacts ==
    ASSUME RowsSound
    PROVE  /\ IsFiniteSet(DOMAIN rows)
           /\ \A c \in DOMAIN rows : rows[c] \in Ids
           /\ \A c, d \in DOMAIN rows : rows[c] = rows[d] => c = d
<1>1. /\ IsFiniteSet(DOMAIN rows) /\ Cardinality(DOMAIN rows) \in Nat
      /\ Cardinality(Codes) \in Nat
      /\ Cardinality(DOMAIN rows) <= Cardinality(Codes)
  BY CodesFinite, FS_Subset, FS_CardinalityType DEF RowsSound
<1>2. /\ \A c \in DOMAIN rows : rows[c] \in 1 .. Cardinality(DOMAIN rows)
      /\ \A c, d \in DOMAIN rows : rows[c] = rows[d] => c = d
  BY DEF RowsSound, Bijection, Injection, IsInjective
<1> QED
  BY <1>1, <1>2 DEF Ids

(* Sync keeps every row with its id.                                        *)
LEMMA SyncedRows ==
    ASSUME RowsSound, NEW b \in Builds, rows' = Upserted(rows, b)
    PROVE  /\ RowsSound'
           /\ DOMAIN rows' = DOMAIN rows \cup CodesOf(b)
           /\ \A c \in DOMAIN rows : rows'[c] = rows[c]
<1>1. IsFiniteSet(DOMAIN rows) /\ DOMAIN rows \subseteq Codes /\ CodesOf(b) \subseteq Codes
  BY RowsFacts DEF RowsSound, Codes
<1>2. rows \in Bijection(DOMAIN rows, 1 .. Cardinality(DOMAIN rows))
  BY DEF RowsSound
<1> HIDE DEF RowsSound
<1>3. /\ DOMAIN rows' = DOMAIN rows \cup CodesOf(b)
      /\ rows' \in Bijection(DOMAIN rows', 1 .. Cardinality(DOMAIN rows'))
      /\ \A c \in DOMAIN rows : rows'[c] = rows[c]
  BY <1>1, <1>2, UpsertedBijection
<1> QED
  BY <1>1, <1>3 DEF RowsSound

LEMMA DataInit == Init => DataInv
<1> SUFFICES ASSUME Init PROVE DataInv
  OBVIOUS
<1>1. RowsSound
  <2>1. rows = << >> /\ DOMAIN rows = {}
    BY DEF Init
  <2>2. Cardinality(DOMAIN rows) = 0
    BY <2>1, FS_EmptySet
  <2> QED
    BY <2>1, <2>2 DEF RowsSound, Bijection, Injection, Surjection, IsInjective
<1>2. starts \in 0 .. MaxStarts
  BY BuildsAssumption DEF Init
<1> QED
  BY <1>1, <1>2 DEF Init, DataInv, MembersSound, BankServed

(* What leaves rows, sets, history and page alone keeps what is said of     *)
(* them; synced may be forgotten and members may all go.                    *)
LEMMA DataKept ==
    ASSUME DataInv, rows' = rows, attempts' = attempts, learning' = learning, page' = page,
           \/ members' = members /\ synced' = synced
           \/ members' \in {members, {}} /\ synced' = None,
           starts' \in 0 .. MaxStarts
    PROVE  DataInv'
<1>1. RowsSound'
  BY DEF DataInv, RowsSound
<1>2. MembersSound'
  BY DEF DataInv, MembersSound
<1>3. (page = NoPage \/ PageSound(page))' /\ (\A a \in attempts : PageSound(a))'
  BY DEF DataInv, PageSound
<1>4. BankServed'
  BY DEF DataInv, BankServed
<1> QED
  BY <1>1, <1>2, <1>3, <1>4 DEF DataInv

LEMMA DataSync ==
    ASSUME IInv, DataInv, NEW p \in Procs, Sync(p)
    PROVE  DataInv'
<1> DEFINE b == proc[p].build
<1>1. b \in Builds
  BY DEF IInv, ProcsSound, Sync
<1>2. /\ rows' = Upserted(rows, b)
      /\ members' = Unretired(Joined(members, rows', b), rows', b)
      /\ learning' = learning \ StaleIds(rows', b)
      /\ synced' = b
      /\ UNCHANGED <<attempts, page, starts>>
  BY DEF Sync
<1>3. RowsSound /\ RowsSound'
  BY <1>1, <1>2, SyncedRows DEF DataInv
<1>4. /\ DOMAIN rows' = DOMAIN rows \cup CodesOf(b)
      /\ \A c \in DOMAIN rows : rows'[c] = rows[c]
  BY <1>1, <1>2, <1>3, SyncedRows
<1>5. \A c, d \in DOMAIN rows' : rows'[c] = rows'[d] => c = d
  BY <1>3 DEF RowsSound, Bijection, Injection, IsInjective
<1> HIDE DEF b
<1>6. \A m \in MembersOf(b) : m[1] \in Sets /\ m[2] \in CodesOf(b)
  <2> SUFFICES ASSUME NEW m \in MembersOf(b) PROVE m[1] \in Sets /\ m[2] \in CodesOf(b)
    OBVIOUS
  <2>1. m[1] \in Sets
    BY <1>1 DEF Sets
  <2>2. m[2] \in CodesOf(b)
    BY DEF MembersOf, CodesOf
  <2> QED
    BY <2>1, <2>2
<1>7. MembersSound'
  <2> SUFFICES ASSUME NEW m \in members'
               PROVE  \E s \in Sets, c \in DOMAIN rows' : m = <<s, rows'[c]>>
    BY DEF MembersSound
  <2>1. m \in members \/ \E x \in MembersOf(b) : m = <<x[1], rows'[x[2]]>>
    BY <1>2 DEF Joined, Unretired
  <2>2. CASE m \in members
    BY <1>4, <2>2 DEF DataInv, MembersSound
  <2>3. CASE \E x \in MembersOf(b) : m = <<x[1], rows'[x[2]]>>
    BY <1>4, <1>6, <2>3
  <2> QED
    BY <2>1, <2>2, <2>3
<1>8. ASSUME NEW a, PageSound(a)
      PROVE  PageSound(a)'
  BY <1>4, <1>8 DEF PageSound
<1>9. (page = NoPage \/ PageSound(page))' /\ (\A a \in attempts : PageSound(a))'
  <2>1. /\ page' = page /\ attempts' = attempts
        /\ page = NoPage \/ PageSound(page)
        /\ \A a \in attempts : PageSound(a)
    BY <1>2 DEF DataInv
  <2>2. PageSound(page) => PageSound(page)'
    BY <1>4, <2>1 DEF PageSound
  <2>3. \A a \in attempts : PageSound(a)'
    BY <1>8, <2>1
  <2> QED
    BY <2>1, <2>2, <2>3
<1>10. BankServed'
  <2> SUFFICES ASSUME TRUE
               PROVE  /\ CodesOf(b) \subseteq DOMAIN rows'
                      /\ \A m \in MembersOf(b) : <<m[1], rows'[m[2]]>> \in members'
                      /\ \A m \in members' : \E c \in CodesOf(b) : rows'[c] = m[2]
    BY <1>2 DEF BankServed
  <2>1. ASSUME NEW m \in MembersOf(b)
        PROVE  <<m[1], rows'[m[2]]>> \in members'
    <3>1. rows'[m[2]] \notin StaleIds(rows', b)
      BY <1>4, <1>5, <1>6 DEF StaleIds
    <3>2. <<m[1], rows'[m[2]]>>[2] = rows'[m[2]]
      OBVIOUS
    <3> QED
      BY <1>2, <3>1, <3>2 DEF Joined, Unretired
  <2>2. ASSUME NEW m \in members'
        PROVE  \E c \in CodesOf(b) : rows'[c] = m[2]
    <3>1. PICK s \in Sets, c \in DOMAIN rows' : m = <<s, rows'[c]>>
      BY <1>7 DEF MembersSound
    <3>2. m[2] \notin StaleIds(rows', b)
      BY <1>2 DEF Unretired
    <3> QED
      BY <3>1, <3>2 DEF StaleIds
  <2> QED
    BY <1>4, <2>1, <2>2
<1>11. learning' \subseteq Ids
  BY <1>2 DEF DataInv
<1> QED
  BY <1>1, <1>2, <1>3, <1>7, <1>9, <1>10, <1>11 DEF DataInv

LEMMA DataWipeQuestions ==
    ASSUME DataInv, NEW p \in Procs, WipeQuestions(p)
    PROVE  DataInv'
<1>1. /\ rows' = << >> /\ members' = {} /\ attempts' = {} /\ learning' = {}
      /\ page' = IF page = NoPage THEN NoPage ELSE [page EXCEPT !.wiped = TRUE]
      /\ synced' = None /\ starts' = starts
  BY DEF WipeQuestions
<1>2. RowsSound'
  <2>1. DOMAIN rows' = {}
    BY <1>1
  <2>2. Cardinality(DOMAIN rows') = 0
    BY <2>1, FS_EmptySet
  <2> QED
    BY <1>1, <2>1, <2>2 DEF RowsSound, Bijection, Injection, Surjection, IsInjective
<1>3. (page = NoPage \/ PageSound(page))'
  <2>1. CASE page = NoPage
    BY <1>1, <2>1
  <2>2. CASE page # NoPage
    <3>1. page \in [id : Ids, code : Codes, wiped : BOOLEAN]
      BY <2>2 DEF DataInv, PageSound
    <3>2. page' \in [id : Ids, code : Codes, wiped : BOOLEAN] /\ page'.wiped
      BY <1>1, <2>2, <3>1
    <3> QED
      BY <3>2 DEF PageSound
  <2> QED
    BY <2>1, <2>2
<1> QED
  BY <1>1, <1>2, <1>3 DEF DataInv, MembersSound, BankServed

LEMMA DataShow ==
    ASSUME DataInv, Show
    PROVE  DataInv'
<1>1. PICK c \in DOMAIN rows : page' = [id |-> rows[c], code |-> c, wiped |-> FALSE]
  BY DEF Show
<1>2. UNCHANGED <<rows, members, attempts, learning, synced, starts>>
  BY DEF Show
<1>3. rows[c] \in Ids /\ c \in Codes
  BY RowsFacts DEF DataInv, RowsSound
<1>4. PageSound(page)'
  BY <1>1, <1>2, <1>3 DEF PageSound
<1>5. (\A a \in attempts : PageSound(a))'
  BY <1>2 DEF DataInv, PageSound
<1>6. RowsSound' /\ MembersSound' /\ BankServed'
  BY <1>2 DEF DataInv, RowsSound, MembersSound, BankServed
<1> QED
  BY <1>2, <1>4, <1>5, <1>6 DEF DataInv

LEMMA DataSubmit ==
    ASSUME DataInv, Submit
    PROVE  DataInv'
<1>1. /\ page # NoPage /\ page' = NoPage
      /\ attempts' = attempts \cup {page} /\ learning' = learning \cup {page.id}
      /\ UNCHANGED <<rows, members, synced, starts>>
  BY DEF Submit
<1>2. PageSound(page) /\ page.id \in Ids
  BY <1>1 DEF DataInv, PageSound
<1>3. \A a \in attempts \cup {page} : PageSound(a)
  BY <1>2 DEF DataInv
<1>4. (\A a \in attempts : PageSound(a))'
  BY <1>1, <1>3 DEF PageSound
<1>5. RowsSound' /\ MembersSound' /\ BankServed'
  BY <1>1 DEF DataInv, RowsSound, MembersSound, BankServed
<1> QED
  BY <1>1, <1>2, <1>4, <1>5 DEF DataInv

-----------------------------------------------------------------------------
(* DataInv holds in every reachable state: ids are counted from 1 without a *)
(* gap, and sets, pages and attempts name the rows they were made for.      *)
THEOREM BankDataInvariant == Spec => []DataInv
<1>1. Init => DataInv
  BY DataInit
<1>2. IInv /\ DataInv /\ [Next]_vars => DataInv'
  <2> SUFFICES ASSUME IInv, DataInv, [Next]_vars PROVE DataInv'
    OBVIOUS
  <2>1. starts \in 0 .. MaxStarts /\ MaxStarts \in Nat
    BY BuildsAssumption DEF DataInv
  <2>2. CASE UNCHANGED vars
    <3>1. /\ rows' = rows /\ attempts' = attempts /\ learning' = learning /\ page' = page
          /\ members' = members /\ synced' = synced /\ starts' = starts
      BY <2>2 DEF vars
    <3> QED
      BY <2>1, <3>1, DataKept
  <2>3. CASE Show \/ Submit
    BY <2>3, DataShow, DataSubmit
  <2>4. ASSUME NEW p \in Procs, Start(p)
        PROVE  DataInv'
    <3>1. starts' \in 0 .. MaxStarts
      BY <2>1, <2>4 DEF Start
    <3>2. /\ rows' = rows /\ attempts' = attempts /\ learning' = learning /\ page' = page
          /\ members' = members /\ synced' = synced
      BY <2>4 DEF Start, Bankless
    <3> QED
      BY <3>1, <3>2, DataKept
  <2>5. ASSUME NEW p \in Procs, LoadApplied(p) \/ ApplyOne(p) \/ Migrated(p) \/ Stop(p)
        PROVE  DataInv'
    <3>1. /\ rows' = rows /\ attempts' = attempts /\ learning' = learning /\ page' = page
          /\ members' = members /\ synced' = synced /\ starts' = starts
      BY <2>5 DEF LoadApplied, ApplyOne, Migrated, Stop, Bankless
    <3> QED
      BY <2>1, <3>1, DataKept
  <2>6. ASSUME NEW p \in Procs, Wipe(p) \/ WipeTopics(p)
        PROVE  DataInv'
    <3>1. /\ UNCHANGED <<rows, attempts, learning, page, starts>>
          /\ members' \in {members, {}} /\ synced' = None
      BY <2>6 DEF Wipe, WipeTopics
    <3> QED
      BY <2>1, <3>1, DataKept
  <2>7. ASSUME NEW p \in Procs, WipeQuestions(p) \/ Sync(p)
        PROVE  DataInv'
    BY <2>7, DataWipeQuestions, DataSync
  <2> QED
    BY <2>2, <2>3, <2>4, <2>5, <2>6, <2>7 DEF Next
<1> QED
  BY <1>1, <1>2, BankInvariant, PTL DEF Spec

(* Every variable keeps its shape; two questions never share an id, and no  *)
(* id is beyond the number of questions there ever were (seed.Sync).        *)
THEOREM BankTypeCorrect == Spec => []TypeOK
<1>1. IInv /\ DataInv => TypeOK
  <2> SUFFICES ASSUME IInv, DataInv PROVE TypeOK
    OBVIOUS
  <2>1. record \subseteq Versions /\ tables \subseteq Versions
    BY DEF IInv, RecordSound
  <2>2. /\ DOMAIN rows \subseteq Codes
        /\ \A c, d \in DOMAIN rows : rows[c] \in Ids /\ (rows[c] = rows[d] => c = d)
    BY RowsFacts DEF DataInv, RowsSound
  <2>3. members \subseteq Sets \X Ids
    BY <2>2 DEF DataInv, MembersSound
  <2>4. proc \in [Procs -> Process] /\ overlap \subseteq Procs
    BY DEF IInv, ProcsSound, OverlapSound
  <2>5. /\ attempts \subseteq [id : Ids, code : Codes, wiped : BOOLEAN]
        /\ page \in [id : Ids, code : Codes, wiped : BOOLEAN] \cup {NoPage}
    BY DEF DataInv, PageSound
  <2> QED
    BY <2>1, <2>2, <2>3, <2>4, <2>5 DEF DataInv, TypeOK, Process, Places
<1> QED
  BY <1>1, BankInvariant, BankDataInvariant, PTL

(* From a Sync to the next wipe the bank synced last is served whole: every *)
(* question in every set it belongs to, and none that was dropped (Sync).   *)
THEOREM BankIsServed == Spec => []BankServed
<1>1. DataInv => BankServed
  BY DEF DataInv
<1> QED
  BY <1>1, BankDataInvariant, PTL

(* Over every release and restart an attempt stays under the question its   *)
(* page showed, unless the bank was wiped in between (upsertQuestionsTx).   *)
THEOREM AttemptsKeepTheirQuestion == Spec => []AnswersKeepQuestion
<1>1. DataInv => AnswersKeepQuestion
  BY DEF DataInv, PageSound, AnswersKeepQuestion
<1> QED
  BY <1>1, BankDataInvariant, PTL

(* Only a wipe erases attempts, and only a Sync whose bank has dropped the  *)
(* question erases a learning state besides (retireStaleQuestionsTx).       *)
THEOREM HistoryIsKept == Spec => HistoryKept
<1> DEFINE Kept ==
       \/ \E p \in Procs : proc[p].pc = "wipe_questions" /\ proc'[p].pc = "wipe_sets"
       \/ /\ attempts \subseteq attempts'
          /\ \A i \in learning \ learning' :
                \E p \in Procs : /\ proc[p].pc = "sync" /\ proc'[p] # proc[p]
                                 /\ \A c \in CodesOf(proc[p].build) :
                                        c \in DOMAIN rows => rows[c] # i
<1>1. IInv /\ DataInv /\ [Next]_vars => [Kept]_vars
  <2> SUFFICES ASSUME IInv, DataInv, Next PROVE Kept
    OBVIOUS
  <2>1. CASE Show \/ Submit
    BY <2>1 DEF Show, Submit
  <2>2. ASSUME NEW p \in Procs,
               \/ Start(p) \/ LoadApplied(p) \/ ApplyOne(p) \/ Migrated(p)
               \/ Wipe(p) \/ WipeTopics(p) \/ Stop(p)
        PROVE  Kept
    <3>1. UNCHANGED <<attempts, learning>>
      BY <2>2 DEF Start, LoadApplied, ApplyOne, Migrated, Wipe, WipeTopics, Stop, Bankless
    <3> QED
      BY <3>1
  <2>3. ASSUME NEW p \in Procs, WipeQuestions(p)
        PROVE  Kept
    <3>1. proc[p].pc = "wipe_questions"
      BY <2>3 DEF WipeQuestions
    <3>2. proc'[p].pc = "wipe_sets"
      BY <2>3 DEF WipeQuestions, IInv, ProcsSound, Process
    <3> QED
      BY <3>1, <3>2
  <2>4. ASSUME NEW p \in Procs, Sync(p)
        PROVE  Kept
    <3>1. /\ proc[p].pc = "sync" /\ proc[p] \in Process /\ proc[p].build \in Builds
          /\ attempts' = attempts
          /\ learning' = learning \ StaleIds(rows', proc[p].build)
          /\ rows' = Upserted(rows, proc[p].build)
      BY <2>4 DEF Sync, IInv, ProcsSound
    <3>2. proc'[p] # proc[p]
      <4>1. proc'[p] = IF p = Server THEN [proc[p] EXCEPT !.pc = "serving"] ELSE Off
        BY <2>4 DEF Sync, IInv, ProcsSound
      <4>2. proc'[p].pc \in {"serving", "off"}
        BY <3>1, <4>1 DEF Off, Process
      <4> QED
        BY <3>1, <4>2
    <3>3. /\ RowsSound' /\ DOMAIN rows' = DOMAIN rows \cup CodesOf(proc[p].build)
          /\ \A c \in DOMAIN rows : rows'[c] = rows[c]
      BY <3>1, SyncedRows DEF DataInv
    <3>4. \A c, d \in DOMAIN rows' : rows'[c] = rows'[d] => c = d
      BY <3>3 DEF RowsSound, Bijection, Injection, IsInjective
    <3>5. ASSUME NEW i \in learning \ learning',
                 NEW c \in CodesOf(proc[p].build), c \in DOMAIN rows
          PROVE  rows[c] # i
      <4>1. PICK d \in DOMAIN rows' \ CodesOf(proc[p].build) : rows'[d] = i
        BY <3>1, <3>5 DEF StaleIds
      <4> QED
        BY <3>3, <3>4, <3>5, <4>1
    <3> QED
      BY <3>1, <3>2, <3>5
  <2> QED
    BY <2>1, <2>2, <2>3, <2>4 DEF Next
<1> QED
  BY <1>1, BankInvariant, BankDataInvariant, PTL DEF Spec, HistoryKept
=============================================================================
