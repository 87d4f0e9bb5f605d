--------------------------- MODULE QuizPageProofs ---------------------------
(* The invariants of the quiz page, for any questions, sets and histories,  *)
(* with statements that fail and other tabs that write at any moment.       *)
EXTENDS QuizPage, SequenceTheorems, TLAPS

(* What a request holds at each of its steps.                               *)
Queried == [pc : {"prefs"}, query : Queries, known : {{}, Sets}]
Saving == [pc : {"save"}, query : Queries, want : Prefs,
           read : Prefs \cup {Unset}, failed : SUBSET {"ListAll", "Get"}]
Wanting == [pc : {"list", "sequential", "srs"}, want : Prefs]
Knowing == [pc : {"recent"}, want : Prefs, due : SUBSET Questions]
Picking == [pc : {"pick"}, want : Prefs, due : SUBSET Questions,
            last : Questions \cup {Unset}, stale : BOOLEAN]
Remaining == [pc : {"unattempted"}, want : Prefs, last : Questions \cup {Unset}, stale : BOOLEAN]
Page == [pc : {"page"}, q : Questions, want : Prefs]
Answering == [pc : {"answering"}, q : Questions]

Tab == {NoPage} \cup Queried \cup Saving \cup Wanting \cup Knowing \cup Picking
          \cup Remaining \cup Page \cup Answering

HistorySound == history \in Seq(Entry) /\ IsInjective(history)

(* What a request is about to save is resolved from the row that it read,   *)
(* whatever was stored since, or from nothing where its reads failed; the   *)
(* question its picks avoid is the last one, unless they are marked.        *)
ReadSound ==
    /\ tab.pc = "save" =>
          tab.want = Resolved(tab.query, IF "Get" \in tab.failed THEN Unset ELSE tab.read,
                              IF "ListAll" \in tab.failed THEN {} ELSE Sets)
    /\ tab.pc \in {"pick", "unattempted"} /\ ~tab.stale => tab.last = LastQuestion

IInv ==
    /\ prefs \in Prefs \cup {Unset}
    /\ HistorySound
    /\ scheduled \subseteq Questions
    /\ due \subseteq scheduled
    /\ tab \in Tab
    /\ ReadSound


-----------------------------------------------------------------------------
(* Sequences without repetition                                             *)

(* Taking out one element closes the gap and keeps the order.               *)
LEMMA RemoveAtSound ==
    ASSUME NEW S, NEW s \in Seq(S), IsInjective(s), NEW i \in 1 .. Len(s)
    PROVE  /\ RemoveAt(s, i) \in Seq(S)
           /\ Len(RemoveAt(s, i)) = Len(s) - 1
           /\ \A j \in 1 .. Len(s) - 1 :
                 RemoveAt(s, i)[j] = IF j < i THEN s[j] ELSE s[j + 1]
           /\ IsInjective(RemoveAt(s, i))
           /\ \A j \in 1 .. Len(s) - 1 : RemoveAt(s, i)[j] # s[i]
<1> DEFINE front == SubSeq(s, 1, i - 1)
           back == SubSeq(s, i + 1, Len(s))
           r == RemoveAt(s, i)
<1>1. Len(s) \in Nat /\ i \in Int /\ DOMAIN s = 1 .. Len(s) /\ \A j \in 1 .. Len(s) : s[j] \in S
  BY LenProperties, ElementOfSeq
<1>2. /\ front \in Seq(S) /\ Len(front) = i - 1
      /\ \A j \in 1 .. i - 1 : front[j] = s[j]
  <2>1. \A j \in 1 .. i - 1 : s[j] \in S
    BY <1>1
  <2>2. /\ front \in Seq(S) /\ Len(front) = IF 1 <= i - 1 THEN i - 1 - 1 + 1 ELSE 0
        /\ \A j \in 1 .. i - 1 - 1 + 1 : front[j] = s[1 + j - 1]
    BY <1>1, <2>1, SubSeqProperties
  <2> HIDE DEF front
  <2> QED
    BY <1>1, <2>2
<1>3. /\ back \in Seq(S) /\ Len(back) = Len(s) - i
      /\ \A j \in 1 .. Len(s) - i : back[j] = s[i + j]
  <2>1. \A j \in i + 1 .. Len(s) : s[j] \in S
    BY <1>1
  <2>2. /\ back \in Seq(S)
        /\ Len(back) = IF i + 1 <= Len(s) THEN Len(s) - (i + 1) + 1 ELSE 0
        /\ \A j \in 1 .. Len(s) - (i + 1) + 1 : back[j] = s[i + 1 + j - 1]
    BY <1>1, <2>1, SubSeqProperties
  <2> HIDE DEF back
  <2>3. ASSUME NEW j \in 1 .. Len(s) - i
        PROVE  back[j] = s[i + j]
    <3>1. j \in 1 .. Len(s) - (i + 1) + 1 /\ i + 1 + j - 1 = i + j
      BY <1>1
    <3> QED
      BY <2>2, <3>1
  <2>4. Len(back) = Len(s) - i
    <3>1. i <= Len(s) /\ i \in Int /\ Len(s) \in Int
      BY <1>1
    <3>2. Len(back) = IF i + 1 <= Len(s) THEN Len(s) - (i + 1) + 1 ELSE 0
      BY <2>2
    <3> QED
      BY <3>1, <3>2
  <2> QED
    BY <2>2, <2>3, <2>4
<1>4. r = front \o back
  BY DEF RemoveAt
<1> HIDE DEF front, back, r
<1>5. /\ r \in Seq(S) /\ Len(r) = Len(front) + Len(back)
      /\ \A j \in 1 .. Len(front) + Len(back) :
            r[j] = IF j <= Len(front) THEN front[j] ELSE back[j - Len(front)]
  BY <1>2, <1>3, <1>4, ConcatProperties
<1>6. Len(r) = Len(s) - 1
  BY <1>1, <1>2, <1>3, <1>5
<1>7. ASSUME NEW j \in 1 .. Len(s) - 1
      PROVE  r[j] = IF j < i THEN s[j] ELSE s[j + 1]
  <2>1. CASE j < i
    <3>1. j \in 1 .. Len(front) /\ j \in 1 .. Len(front) + Len(back) /\ j <= Len(front)
      BY <1>1, <1>2, <1>3, <2>1
    <3>2. r[j] = front[j]
      BY <1>5, <3>1
    <3>3. front[j] = s[j]
      BY <1>1, <1>2, <2>1
    <3> QED
      BY <2>1, <3>2, <3>3
  <2>2. CASE ~(j < i)
    <3>1. j - (i - 1) \in 1 .. Len(s) - i
      BY <1>1, <2>2
    <3>2. back[j - (i - 1)] = s[i + (j - (i - 1))] /\ i + (j - (i - 1)) = j + 1
      BY <1>1, <1>3, <3>1
    <3>3. Len(front) = i - 1 /\ Len(front) + Len(back) = Len(s) - 1
      BY <1>1, <1>2, <1>3
    <3>4. r[j] = back[j - (i - 1)]
      BY <1>1, <1>5, <2>2, <3>3
    <3> QED
      BY <2>2, <3>2, <3>4
  <2> QED
    BY <2>1, <2>2
<1>8. \A j, k \in 1 .. Len(s) : s[j] = s[k] => j = k
  BY <1>1 DEF IsInjective
<1>9. DOMAIN r = 1 .. Len(s) - 1
  BY <1>5, <1>6
<1>10. IsInjective(r)
  <2> SUFFICES ASSUME NEW j \in 1 .. Len(s) - 1, NEW k \in 1 .. Len(s) - 1, r[j] = r[k]
               PROVE  j = k
    BY <1>9 DEF IsInjective
  <2> QED
    BY <1>1, <1>7, <1>8
<1>11. \A j \in 1 .. Len(s) - 1 : r[j] # s[i]
  BY <1>1, <1>7, <1>8
<1> QED
  BY <1>5, <1>6, <1>7, <1>10, <1>11 DEF r

(* A new element may be put in at any place.                                *)
LEMMA InsertAtSound ==
    ASSUME NEW S, NEW s \in Seq(S), IsInjective(s), NEW i \in 1 .. Len(s) + 1,
           NEW e \in S, \A j \in 1 .. Len(s) : s[j] # e
    PROVE  /\ InsertAt(s, i, e) \in Seq(S)
           /\ IsInjective(InsertAt(s, i, e))
<1> DEFINE front == SubSeq(s, 1, i - 1)
           back == SubSeq(s, i, Len(s))
           r == InsertAt(s, i, e)
<1>1. Len(s) \in Nat /\ i \in Int /\ DOMAIN s = 1 .. Len(s) /\ \A j \in 1 .. Len(s) : s[j] \in S
  BY LenProperties, ElementOfSeq
<1>2. /\ front \in Seq(S) /\ Len(front) = i - 1
      /\ \A j \in 1 .. i - 1 : front[j] = s[j]
  <2>1. \A j \in 1 .. i - 1 : s[j] \in S
    BY <1>1
  <2>2. /\ front \in Seq(S) /\ Len(front) = IF 1 <= i - 1 THEN i - 1 - 1 + 1 ELSE 0
        /\ \A j \in 1 .. i - 1 - 1 + 1 : front[j] = s[1 + j - 1]
    BY <1>1, <2>1, SubSeqProperties
  <2> HIDE DEF front
  <2> QED
    BY <1>1, <2>2
<1>3. /\ back \in Seq(S) /\ Len(back) = Len(s) - i + 1
      /\ \A j \in 1 .. Len(s) - i + 1 : back[j] = s[i + j - 1]
  <2>1. \A j \in i .. Len(s) : s[j] \in S
    BY <1>1
  <2>2. /\ back \in Seq(S)
        /\ Len(back) = IF i <= Len(s) THEN Len(s) - i + 1 ELSE 0
        /\ \A j \in 1 .. Len(s) - i + 1 : back[j] = s[i + j - 1]
    BY <1>1, <2>1, SubSeqProperties
  <2> HIDE DEF back
  <2> QED
    BY <1>1, <2>2
<1> DEFINE head == front \o <<e>>
<1>4. r = head \o back
  BY DEF InsertAt
<1> HIDE DEF front, back, r
<1>5. /\ head \in Seq(S) /\ Len(head) = i
      /\ \A j \in 1 .. i : head[j] = IF j < i THEN s[j] ELSE e
  <2>1. <<e>> \in Seq(S) /\ Len(<<e>>) = 1 /\ <<e>>[1] = e
    OBVIOUS
  <2>2. /\ head \in Seq(S) /\ Len(head) = Len(front) + Len(<<e>>)
        /\ \A j \in 1 .. Len(front) + Len(<<e>>) :
              head[j] = IF j <= Len(front) THEN front[j] ELSE <<e>>[j - Len(front)]
    BY <1>2, <2>1, ConcatProperties
  <2> HIDE DEF head
  <2>3. Len(front) + Len(<<e>>) = i
    BY <1>1, <1>2, <2>1
  <2>4. ASSUME NEW j \in 1 .. i
        PROVE  head[j] = IF j < i THEN s[j] ELSE e
    <3>1. CASE j < i
      BY <1>1, <1>2, <2>2, <2>3, <3>1
    <3>2. CASE j = i
      <4>1. j - Len(front) = 1 /\ ~(j <= Len(front)) /\ ~(j < i)
        BY <1>1, <1>2, <3>2
      <4>2. head[j] = <<e>>[j - Len(front)]
        BY <2>2, <2>3, <4>1
      <4> QED
        BY <2>1, <4>1, <4>2
    <3> QED
      BY <1>1, <3>1, <3>2
  <2> QED
    BY <2>2, <2>3, <2>4
<1> HIDE DEF head
<1>6. /\ r \in Seq(S) /\ Len(r) = Len(head) + Len(back)
      /\ \A j \in 1 .. Len(head) + Len(back) :
            r[j] = IF j <= Len(head) THEN head[j] ELSE back[j - Len(head)]
  BY <1>3, <1>4, <1>5, ConcatProperties
<1>7. Len(r) = Len(s) + 1 /\ DOMAIN r = 1 .. Len(s) + 1
  BY <1>1, <1>3, <1>5, <1>6
<1>8. ASSUME NEW j \in 1 .. Len(s) + 1
      PROVE  r[j] = IF j < i THEN s[j] ELSE IF j = i THEN e ELSE s[j - 1]
  <2>1. CASE j <= i
    BY <1>1, <1>3, <1>5, <1>6, <2>1
  <2>2. CASE j > i
    <3>1. j - i \in 1 .. Len(s) - i + 1
      BY <1>1, <2>2
    <3>2. back[j - i] = s[i + (j - i) - 1] /\ i + (j - i) - 1 = j - 1
      BY <1>1, <1>3, <3>1
    <3>3. r[j] = back[j - i]
      BY <1>1, <1>3, <1>5, <1>6, <2>2
    <3> QED
      BY <1>1, <2>2, <3>2, <3>3
  <2> QED
    BY <1>1, <2>1, <2>2
<1>9. \A j, k \in 1 .. Len(s) : s[j] = s[k] => j = k
  BY <1>1 DEF IsInjective
<1>10. IsInjective(r)
  <2> SUFFICES ASSUME NEW j \in 1 .. Len(s) + 1, NEW k \in 1 .. Len(s) + 1, r[j] = r[k]
               PROVE  j = k
    BY <1>7 DEF IsInjective
  <2> QED
    BY <1>1, <1>8, <1>9
<1> QED
  BY <1>6, <1>10 DEF r

-----------------------------------------------------------------------------
(* What the operators of the model give                                     *)

LEMMA FirstOfThree ==
    ASSUME NEW a, NEW b, NEW c, c # Unset
    PROVE  FirstNonEmpty(<<a, b, c>>) = IF a # Unset THEN a ELSE IF b # Unset THEN b ELSE c
<1> DEFINE seq == <<a, b, c>>
           I == {i \in 1 .. Len(seq) : seq[i] # Unset}
           first == IF a # Unset THEN 1 ELSE IF b # Unset THEN 2 ELSE 3
<1>1. Len(seq) = 3 /\ seq[1] = a /\ seq[2] = b /\ seq[3] = c
  OBVIOUS
<1>2. first \in I /\ \A i \in I : first <= i
  BY <1>1
<1>3. \A x \in I : (\A y \in I : x <= y) => x = first
  BY <1>2, <1>1
<1>4. Min(I) = first
  <2> HIDE DEF I, first
  <2> QED
    BY <1>2, <1>3 DEF Min
<1>5. SelectInSeq(seq, LAMBDA x : x # Unset) = first
  <2>1. SelectInSeq(seq, LAMBDA x : x # Unset) = IF I # {} THEN Min(I) ELSE 0
    BY DEF SelectInSeq
  <2> HIDE DEF I, first
  <2> QED
    BY <1>2, <1>4, <2>1
<1>6. FirstNonEmpty(seq) = seq[first]
  BY <1>5 DEF FirstNonEmpty
<1> QED
  BY <1>1, <1>6

LEMMA FirstOfTwo ==
    ASSUME NEW a, NEW b, b # Unset
    PROVE  FirstNonEmpty(<<a, b>>) = IF a # Unset THEN a ELSE b
<1> DEFINE seq == <<a, b>>
           I == {i \in 1 .. Len(seq) : seq[i] # Unset}
           first == IF a # Unset THEN 1 ELSE 2
<1>1. Len(seq) = 2 /\ seq[1] = a /\ seq[2] = b
  OBVIOUS
<1>2. first \in I /\ \A i \in I : first <= i
  BY <1>1
<1>3. \A x \in I : (\A y \in I : x <= y) => x = first
  BY <1>2, <1>1
<1>4. Min(I) = first
  <2> HIDE DEF I, first
  <2> QED
    BY <1>2, <1>3 DEF Min
<1>5. SelectInSeq(seq, LAMBDA x : x # Unset) = first
  <2>1. SelectInSeq(seq, LAMBDA x : x # Unset) = IF I # {} THEN Min(I) ELSE 0
    BY DEF SelectInSeq
  <2> HIDE DEF I, first
  <2> QED
    BY <1>2, <1>4, <2>1
<1>6. FirstNonEmpty(seq) = seq[first]
  BY <1>5 DEF FirstNonEmpty
<1> QED
  BY <1>1, <1>6

LEMMA SetsFacts ==
    /\ "srs" # Unset /\ CoreSet # Unset /\ CoreSet \in Sets /\ Unset \notin Sets
    /\ Unset \notin Modes /\ Unset \notin Questions
BY QuizPageAssumption DEF Modes

(* Both parts of what is resolved: the query, else what is stored, else the *)
(* initial value; and what the query chooses is obeyed.                     *)
LEMMA ResolvedParts ==
    ASSUME NEW query \in Queries, NEW stored \in Prefs \cup {Unset}, NEW known \in {{}, Sets}
    PROVE  /\ Resolved(query, stored, known) \in Prefs
           /\ Resolved(query, stored, known).set \in
                 {query.set, Shown(stored).set} \cup {s \in {CoreSet} : known # Sets}
           /\ Resolved(query, stored, known).mode \in {query.mode, Shown(stored).mode}
           /\ query.set \in {Unset, Resolved(query, stored, known).set} \/ known # Sets
           /\ query.mode \in {Unset, Resolved(query, stored, known).mode}
<1> DEFINE valid(s) == IF s \in known THEN s ELSE Unset
           vs == IF stored = Unset THEN Unset ELSE valid(stored.set)
           vm == IF stored = Unset THEN Unset ELSE stored.mode
<1>1. /\ Resolved(query, stored, known).set = FirstNonEmpty(<<valid(query.set), vs, CoreSet>>)
      /\ Resolved(query, stored, known).mode = FirstNonEmpty(<<query.mode, vm, "srs">>)
      /\ Resolved(query, stored, known) =
            [set |-> Resolved(query, stored, known).set, mode |-> Resolved(query, stored, known).mode]
  BY DEF Resolved
<1>2. FirstNonEmpty(<<valid(query.set), vs, CoreSet>>) =
         IF valid(query.set) # Unset THEN valid(query.set) ELSE IF vs # Unset THEN vs ELSE CoreSet
  BY SetsFacts, FirstOfThree
<1>3. FirstNonEmpty(<<query.mode, vm, "srs">>) =
         IF query.mode # Unset THEN query.mode ELSE IF vm # Unset THEN vm ELSE "srs"
  BY SetsFacts, FirstOfThree
<1>4. query.set \in Sets \cup {Unset} /\ query.mode \in Modes \cup {Unset}
  BY QuizPageAssumption
<1>5. stored # Unset => stored.set \in Sets /\ stored.mode \in Modes
  BY DEF Prefs
<1>6. "srs" \in Modes
  BY DEF Modes
<1>7. /\ Shown(stored).set = IF stored = Unset THEN CoreSet ELSE stored.set
      /\ Shown(stored).mode = IF stored = Unset THEN "srs" ELSE stored.mode
  BY DEF Shown
<1> HIDE DEF vs, vm
<1>8. vs \in {Unset, stored.set} /\ (stored = Unset => vs = Unset)
      /\ (stored # Unset /\ known = Sets => vs = stored.set)
  BY <1>5, SetsFacts DEF vs
<1>9. vm = IF stored = Unset THEN Unset ELSE stored.mode
  BY DEF vm
<1>10. /\ Resolved(query, stored, known).set \in Sets
       /\ Resolved(query, stored, known).set \in
             {query.set, Shown(stored).set} \cup {s \in {CoreSet} : known # Sets}
       /\ query.set \in {Unset, Resolved(query, stored, known).set} \/ known # Sets
  <2>1. CASE query.set \in known
    BY <1>1, <1>2, <1>4, <2>1, SetsFacts
  <2>2. CASE query.set \notin known
    <3>1. Resolved(query, stored, known).set = IF vs # Unset THEN vs ELSE CoreSet
      BY <1>1, <1>2, <2>2, SetsFacts
    <3>2. query.set = Unset \/ known # Sets
      BY <1>4, <2>2
    <3> QED
      BY <1>5, <1>7, <1>8, <3>1, <3>2, SetsFacts
  <2> QED
    BY <2>1, <2>2
<1>11. /\ Resolved(query, stored, known).mode \in Modes
       /\ Resolved(query, stored, known).mode \in {query.mode, Shown(stored).mode}
       /\ query.mode \in {Unset, Resolved(query, stored, known).mode}
  BY <1>1, <1>3, <1>4, <1>5, <1>6, <1>7, <1>9, SetsFacts
<1> QED
  BY <1>1, <1>10, <1>11 DEF Prefs

(* SetMembers and NextInOrder stay in the questions of the set.             *)
LEMMA MembersAreQuestions ==
    ASSUME NEW s \in Sets
    PROVE  SetMembers(s) \subseteq Questions
BY QuizPageAssumption, ElementOfSeq DEF SetMembers, ToSet

LEMMA NextInOrderIsMember ==
    ASSUME NEW s \in Sets, NEW q
    PROVE  NextInOrder(s, q) \in SetMembers(s)
<1> DEFINE m == Members[s]
           I == {i \in 1 .. Len(m) : m[i] = q}
           at == SelectInSeq(m, LAMBDA x : x = q)
<1>1. m \in Seq(Questions) /\ m # << >> /\ IsInjective(m)
  BY QuizPageAssumption
<1>2. Len(m) \in Nat \ {0} /\ DOMAIN m = 1 .. Len(m)
  BY <1>1, EmptySeq, LenProperties
<1>3. at = IF I # {} THEN Min(I) ELSE 0
  BY DEF SelectInSeq
<1>4. at \in 0 .. Len(m)
  <2>1. CASE I = {}
    BY <1>2, <1>3, <2>1
  <2>2. CASE I # {}
    <3>1. PICK i \in I : TRUE
      BY <2>2
    <3>2. I = {i}
      BY <1>1, <1>2 DEF IsInjective
    <3>3. Min(I) = i
      BY <3>2 DEF Min
    <3> QED
      BY <1>2, <1>3, <2>2, <3>3
  <2> QED
    BY <2>1, <2>2
<1>5. NextInOrder(s, q) = m[IF at = Len(m) THEN 1 ELSE at + 1]
  BY DEF NextInOrder
<1> HIDE DEF at, m, I
<1>6. (IF at = Len(m) THEN 1 ELSE at + 1) \in 1 .. Len(m)
  <2>1. ASSUME NEW n \in Nat \ {0}, NEW a \in 0 .. n
        PROVE  (IF a = n THEN 1 ELSE a + 1) \in 1 .. n
    OBVIOUS
  <2> QED
    BY <1>2, <1>4, <2>1
<1> QED
  BY <1>2, <1>5, <1>6 DEF SetMembers, ToSet, m

-----------------------------------------------------------------------------
(* The history stays without repetition, and what is asked last is one of   *)
(* the questions attempted.                                                 *)
LEMMA HistoryFacts ==
    ASSUME HistorySound
    PROVE  /\ Len(history) \in Nat /\ DOMAIN history = 1 .. Len(history)
           /\ \A i \in 1 .. Len(history) : history[i] \in Entry
           /\ LastQuestion \in Questions \cup {Unset}
           /\ history # << >> => LastQuestion \in Attempted
<1>1. /\ Len(history) \in Nat /\ DOMAIN history = 1 .. Len(history)
      /\ \A i \in 1 .. Len(history) : history[i] \in Entry
  BY LenProperties, ElementOfSeq DEF HistorySound
<1>2. ASSUME history # << >>
      PROVE  LastQuestion = history[Len(history)].q /\ Len(history) \in 1 .. Len(history)
  <2>1. Len(history) \in Nat \ {0}
    BY <1>2, EmptySeq DEF HistorySound
  <2> QED
    BY <1>2, <2>1 DEF LastQuestion, Last
<1> QED
  BY <1>1, <1>2 DEF LastQuestion, Attempted, Entry

LEMMA TakenOut ==
    ASSUME HistorySound, NEW i \in 1 .. Len(history)
    PROVE  /\ RemoveAt(history, i) \in Seq(Entry) /\ IsInjective(RemoveAt(history, i))
           /\ Len(RemoveAt(history, i)) = Len(history) - 1
           /\ \A j \in 1 .. Len(history) - 1 : RemoveAt(history, i)[j] # history[i]
<1>1. history \in Seq(Entry) /\ IsInjective(history)
  BY DEF HistorySound
<1> QED
  BY <1>1, RemoveAtSound, ZenonT(30)

LEMMA AppendedSound ==
    ASSUME HistorySound, NEW e \in Entry, history' = Appended(e)
    PROVE  HistorySound'
<1> DEFINE rest == RemoveFirst(history, e)
           I == {i \in 1 .. Len(history) : history[i] = e}
<1>1. /\ history \in Seq(Entry) /\ Len(history) \in Nat /\ DOMAIN history = 1 .. Len(history)
      /\ IsInjective(history)
  BY HistoryFacts DEF HistorySound
<1>2. /\ rest \in Seq(Entry) /\ IsInjective(rest)
      /\ \A j \in 1 .. Len(rest) : rest[j] # e
  <2>1. CASE I = {}
    <3>1. rest = history
      BY <2>1 DEF RemoveFirst
    <3> QED
      BY <1>1, <2>1, <3>1
  <2>2. CASE I # {}
    <3>1. PICK i \in I : TRUE
      BY <2>2
    <3>2. I = {i}
      BY <1>1 DEF IsInjective
    <3>3. Min(I) = i
      BY <1>1, <3>2 DEF Min
    <3>4. SelectInSeq(history, LAMBDA v : v = e) = i
      BY <2>2, <3>3 DEF SelectInSeq
    <3>5. rest = RemoveAt(history, i)
      BY <3>1, <3>4 DEF RemoveFirst
    <3>6. i \in 1 .. Len(history) /\ history[i] = e
      BY <3>1
    <3> HIDE DEF rest, I
    <3>7. /\ rest \in Seq(Entry) /\ IsInjective(rest)
          /\ Len(rest) = Len(history) - 1
          /\ \A j \in 1 .. Len(history) - 1 : rest[j] # history[i]
      <4>1. /\ RemoveAt(history, i) \in Seq(Entry) /\ IsInjective(RemoveAt(history, i))
            /\ Len(RemoveAt(history, i)) = Len(history) - 1
            /\ \A j \in 1 .. Len(history) - 1 : RemoveAt(history, i)[j] # history[i]
        BY <3>6, TakenOut
      <4> QED
        BY <3>5, <4>1
    <3> QED
      BY <3>6, <3>7
  <2> QED
    BY <2>1, <2>2
<1>3. history' = Append(rest, e)
  BY DEF Appended
<1> HIDE DEF rest
<1>4. Len(rest) \in Nat
  BY <1>2, LenProperties
<1>5. /\ history' \in Seq(Entry) /\ Len(history') = Len(rest) + 1
      /\ \A i \in 1 .. Len(rest) : history'[i] = rest[i]
      /\ history'[Len(rest) + 1] = e
  BY <1>2, <1>3, AppendProperties
<1>6. DOMAIN history' = 1 .. Len(rest) + 1 /\ DOMAIN rest = 1 .. Len(rest)
  BY <1>2, <1>5, LenProperties
<1>7. IsInjective(history')
  <2>1. \A i, j \in 1 .. Len(rest) : rest[i] = rest[j] => i = j
    BY <1>2, <1>6 DEF IsInjective
  <2>2. ASSUME NEW i \in 1 .. Len(rest) + 1, NEW j \in 1 .. Len(rest) + 1,
               history'[i] = history'[j]
        PROVE  i = j
    <3>1. \A k \in 1 .. Len(rest) + 1 : k \in 1 .. Len(rest) \/ k = Len(rest) + 1
      BY <1>4
    <3> QED
      BY <1>2, <1>5, <2>1, <2>2, <3>1
  <2> QED
    BY <1>6, <2>2 DEF IsInjective
<1> QED
  BY <1>5, <1>7 DEF HistorySound

LEMMA DeletedSound ==
    ASSUME HistorySound, NEW i \in DOMAIN history, history' \in Deleted(i)
    PROVE  HistorySound'
<1> DEFINE rest == RemoveAt(history, i)
<1>1. /\ history \in Seq(Entry) /\ Len(history) \in Nat /\ IsInjective(history)
      /\ i \in 1 .. Len(history) /\ history[i] \in Entry
  BY HistoryFacts DEF HistorySound
<1>2. /\ rest \in Seq(Entry) /\ Len(rest) = Len(history) - 1 /\ IsInjective(rest)
      /\ \A j \in 1 .. Len(history) - 1 : rest[j] # history[i]
  BY <1>1, TakenOut
<1>3. CASE history' = rest
  BY <1>2, <1>3 DEF HistorySound
<1>4. ASSUME NEW j \in 1 .. i - 1, history' = InsertAt(rest, j, history[i])
      PROVE  HistorySound'
  <2> HIDE DEF rest
  <2>1. j \in 1 .. Len(rest) + 1
    BY <1>1, <1>2
  <2>2. \A k \in 1 .. Len(rest) : rest[k] # history[i]
    BY <1>2
  <2>3. history' \in Seq(Entry) /\ IsInjective(history')
    BY <1>1, <1>2, <1>4, <2>1, <2>2, InsertAtSound
  <2> QED
    BY <2>3 DEF HistorySound
<1> QED
  BY <1>3, <1>4 DEF Deleted

-----------------------------------------------------------------------------
(* What the steps of the tab do to it                                       *)

LEMMA TabParts ==
    ASSUME tab \in Tab
    PROVE  /\ tab.pc = "prefs" => tab \in Queried
           /\ tab.pc = "save" => tab \in Saving
           /\ tab.pc \in {"list", "sequential", "srs"} => tab \in Wanting
           /\ tab.pc = "recent" => tab \in Knowing
           /\ tab.pc = "pick" => tab \in Picking
           /\ tab.pc = "unattempted" => tab \in Remaining
           /\ tab.pc = "page" => tab \in Page
           /\ tab.pc = "answering" => tab \in Answering
BY DEF Tab, NoPage, Queried, Saving, Wanting, Knowing, Picking, Remaining, Page,
       Answering

(* A request that waits for none of the steps that ReadSound speaks of.     *)
LEMMA NothingRead ==
    ASSUME tab' \in {NoPage} \cup Wanting \cup Knowing \cup Page \cup Answering
    PROVE  tab' \in Tab /\ ReadSound'
BY DEF Tab, ReadSound, NoPage, Wanting, Knowing, Page, Answering

(* A question that is asked is shown on a page with the same choice.        *)
LEMMA AsksSound ==
    ASSUME tab \in Tab, NEW q \in Questions, Asks(q),
           tab.pc \in {"list", "sequential", "pick", "unattempted"}
    PROVE  tab' \in Page
<1>1. tab \in Wanting \/ tab \in Picking \/ tab \in Remaining
  BY TabParts
<1>2. tab.want \in Prefs
  BY <1>1 DEF Wanting, Picking, Remaining
<1> QED
  BY <1>2 DEF Asks, Page

LEMMA AsksNothingSound ==
    ASSUME AsksNothing
    PROVE  tab' = NoPage
BY DEF AsksNothing

(* What another request writes marks the picks that had read it.            *)
LEMMA StaledSound ==
    ASSUME tab \in Tab, Staled
    PROVE  /\ tab' \in Tab
           /\ tab'.pc \in {"pick", "unattempted"} => tab'.stale
           /\ tab'.pc \notin {"pick", "unattempted"} => tab' = tab
<1>1. CASE tab \in Picking \cup Remaining
  <2>1. tab' = [tab EXCEPT !.stale = TRUE]
    BY <1>1 DEF Staled, Picking, Remaining
  <2>2. tab' \in Picking \cup Remaining /\ tab'.stale
    BY <1>1, <2>1 DEF Picking, Remaining
  <2> QED
    BY <2>2 DEF Tab, Picking, Remaining
<1>2. CASE tab \notin Picking \cup Remaining
  <2>1. "stale" \notin DOMAIN tab
    BY <1>2 DEF Tab, NoPage, Queried, Saving, Wanting, Knowing, Page, Answering
  <2>2. tab' = tab
    BY <2>1 DEF Staled
  <2>3. tab.pc \notin {"pick", "unattempted"}
    BY <1>2, TabParts
  <2> QED
    BY <2>2, <2>3
<1> QED
  BY <1>1, <1>2

(* A request keeps what it read, and the last question is told by history.  *)
LEMMA ReadKept ==
    ASSUME ReadSound, tab' = tab, history' = history
    PROVE  ReadSound'
BY DEF ReadSound, LastQuestion

-----------------------------------------------------------------------------
(* Every step keeps the invariant                                           *)

LEMMA InitSound ==
    ASSUME Init
    PROVE  IInv
<1>1. tab \in Tab /\ ReadSound
  BY DEF Init, Tab, NoPage, ReadSound
<1>2. HistorySound
  BY DEF Init, HistorySound, IsInjective
<1> QED
  BY <1>1, <1>2 DEF Init, IInv

(* The steps of a request that only read.                                   *)
LEMMA OpenSound ==
    ASSUME IInv, Open
    PROVE  tab' \in Tab /\ ReadSound'
<1>1. PICK c \in Queries, failed \in MayFail :
         tab' = [pc |-> "prefs", query |-> c, known |-> IF failed THEN {} ELSE Sets]
  BY DEF Open
<1>2. tab' \in Queried
  BY <1>1 DEF Queried
<1> QED
  BY <1>2 DEF Tab, ReadSound, Queried

LEMMA ApiNextSound ==
    ASSUME IInv, ApiNext
    PROVE  tab' \in Tab /\ ReadSound'
<1>1. PICK c \in Queries :
         tab' = [pc |-> "list", want |-> [set  |-> FirstNonEmpty(<<c.set, CoreSet>>),
                                          mode |-> FirstNonEmpty(<<c.mode, "srs">>)]]
  BY DEF ApiNext
<1>2. c.set \in Sets \cup {Unset} /\ c.mode \in Modes \cup {Unset}
  BY QuizPageAssumption
<1>3. FirstNonEmpty(<<c.set, CoreSet>>) \in Sets
  BY <1>2, SetsFacts, FirstOfTwo
<1>4. FirstNonEmpty(<<c.mode, "srs">>) \in Modes
  BY <1>2, SetsFacts, FirstOfTwo DEF Modes
<1>5. tab' \in Wanting
  BY <1>1, <1>3, <1>4 DEF Wanting, Prefs
<1> QED
  BY <1>5, NothingRead

LEMMA ReadPrefsSound ==
    ASSUME IInv, ReadPrefs
    PROVE  tab' \in Tab /\ ReadSound'
<1>1. tab \in Queried /\ ReadSound /\ tab.pc = "prefs" /\ prefs' = prefs
  BY TabParts DEF ReadPrefs, IInv
<1>2. PICK failed \in MayFail :
         LET stored == IF failed THEN Unset ELSE prefs
             want   == Resolved(tab.query, stored, tab.known)
         IN  tab' = IF Saves(tab.query, stored, tab.known)
                    THEN [pc |-> "save", query |-> tab.query, want |-> want, read |-> prefs,
                          failed |-> {x \in {"ListAll"} : tab.known # Sets}
                                        \cup {x \in {"Get"} : failed}]
                    ELSE [pc |-> "list", want |-> want]
  BY DEF ReadPrefs
<1> DEFINE stored == IF failed THEN Unset ELSE prefs
           want == Resolved(tab.query, stored, tab.known)
           lost == {x \in {"ListAll"} : tab.known # Sets} \cup {x \in {"Get"} : failed}
<1>3. stored \in Prefs \cup {Unset} /\ prefs \in Prefs \cup {Unset}
  BY DEF IInv
<1>4. tab.query \in Queries /\ tab.known \in {{}, Sets}
  BY <1>1 DEF Queried
<1>5. want \in Prefs
  BY <1>3, <1>4, ResolvedParts
<1>6. /\ lost \in SUBSET {"ListAll", "Get"}
      /\ "Get" \in lost <=> failed
      /\ "ListAll" \in lost <=> tab.known # Sets
  OBVIOUS
<1>7. want = Resolved(tab.query, IF "Get" \in lost THEN Unset ELSE prefs,
                      IF "ListAll" \in lost THEN {} ELSE Sets)
  <2>1. stored = IF "Get" \in lost THEN Unset ELSE prefs
    BY <1>6
  <2>2. tab.known = IF "ListAll" \in lost THEN {} ELSE Sets
    BY <1>4, <1>6
  <2> QED
    BY <2>1, <2>2
<1>8. CASE Saves(tab.query, stored, tab.known)
  <2>1. tab' = [pc |-> "save", query |-> tab.query, want |-> want, read |-> prefs, failed |-> lost]
    BY <1>2, <1>8
  <2> HIDE DEF want, stored, lost
  <2>2. tab' \in Saving
    BY <1>3, <1>4, <1>5, <1>6, <2>1 DEF Saving
  <2>3. /\ tab'.pc = "save" /\ tab'.query = tab.query /\ tab'.want = want
        /\ tab'.read = prefs /\ tab'.failed = lost
    BY <2>1
  <2>4. tab'.want = Resolved(tab'.query, IF "Get" \in tab'.failed THEN Unset ELSE tab'.read,
                             IF "ListAll" \in tab'.failed THEN {} ELSE Sets)
    BY <1>7, <2>3
  <2> QED
    BY <2>2, <2>3, <2>4 DEF Tab, ReadSound
<1>9. CASE ~Saves(tab.query, stored, tab.known)
  <2>1. tab' = [pc |-> "list", want |-> want]
    BY <1>2, <1>9
  <2> HIDE DEF want
  <2>2. tab' \in Wanting
    BY <1>5, <2>1 DEF Wanting
  <2> QED
    BY <2>2, NothingRead
<1> QED
  BY <1>8, <1>9

LEMMA SavePrefsSound ==
    ASSUME IInv, SavePrefs
    PROVE  prefs' \in Prefs \cup {Unset} /\ tab' \in Tab /\ ReadSound'
<1>1. tab \in Saving
  BY TabParts DEF SavePrefs, IInv
<1>2. tab.want \in Prefs
  BY <1>1 DEF Saving
<1>3. prefs' \in Prefs \cup {Unset}
  BY <1>2 DEF SavePrefs, IInv
<1>4. tab' \in Wanting
  BY <1>2 DEF SavePrefs, Wanting
<1> QED
  BY <1>3, <1>4, NothingRead

LEMMA ListSound ==
    ASSUME IInv, List
    PROVE  tab' \in Tab /\ ReadSound'
<1>1. tab \in Wanting /\ tab.want \in Prefs /\ tab.pc = "list"
  BY TabParts DEF List, IInv, Wanting
<1>2. ASSUME NEW q \in SetMembers(tab.want.set), Asks(q)
      PROVE  tab' \in Page
  <2>1. q \in Questions
    BY <1>1, MembersAreQuestions DEF Prefs
  <2> QED
    BY <1>1, <1>2, <2>1, AsksSound DEF IInv
<1>3. ASSUME tab.want.mode # "random", tab' = [pc |-> tab.want.mode, want |-> tab.want]
      PROVE  tab' \in Wanting
  BY <1>1, <1>3 DEF Wanting, Prefs, Modes
<1>4. CASE AsksNothing
  BY <1>4, AsksNothingSound, NothingRead
<1> QED
  BY <1>2, <1>3, <1>4, NothingRead DEF List

LEMMA PickSequentialSound ==
    ASSUME IInv, PickSequential
    PROVE  tab' \in Tab /\ ReadSound'
<1>1. tab \in Wanting /\ tab.want \in Prefs /\ tab.pc = "sequential"
  BY TabParts DEF PickSequential, IInv, Wanting
<1> DEFINE q == NextInOrder(tab.want.set, LastInSet(tab.want.set))
<1>2. q \in Questions
  BY <1>1, NextInOrderIsMember, MembersAreQuestions DEF Prefs
<1>3. CASE Asks(q)
  <2> HIDE DEF q
  <2> QED
    BY <1>1, <1>2, <1>3, AsksSound, NothingRead DEF IInv
<1>4. CASE AsksNothing
  BY <1>4, AsksNothingSound, NothingRead
<1> QED
  BY <1>3, <1>4 DEF PickSequential

LEMMA ReadDueSound ==
    ASSUME IInv, ReadDue
    PROVE  tab' \in Tab /\ ReadSound'
<1>1. tab \in Wanting /\ due \subseteq Questions
  BY TabParts DEF ReadDue, IInv
<1>2. CASE tab' = [pc |-> "recent", want |-> tab.want, due |-> due]
  <2>1. tab' \in Knowing
    BY <1>1, <1>2 DEF Wanting, Knowing
  <2> QED
    BY <2>1, NothingRead
<1>3. CASE AsksNothing
  BY <1>3, AsksNothingSound, NothingRead
<1> QED
  BY <1>2, <1>3 DEF ReadDue

LEMMA ReadRecentSound ==
    ASSUME IInv, ReadRecent
    PROVE  tab' \in Tab /\ ReadSound'
<1>1. tab \in Knowing /\ LastQuestion \in Questions \cup {Unset} /\ history' = history
  BY TabParts, HistoryFacts DEF ReadRecent, IInv
<1>2. PICK failed \in MayFail :
         tab' = [pc |-> "pick", want |-> tab.want, due |-> tab.due,
                 last |-> IF failed THEN Unset ELSE LastQuestion, stale |-> failed]
  BY DEF ReadRecent
<1>3. failed \in BOOLEAN
  BY QuizPageAssumption DEF MayFail
<1>4. tab' \in Picking
  BY <1>1, <1>2, <1>3 DEF Knowing, Picking
<1>5. LastQuestion' = LastQuestion
  BY <1>1 DEF LastQuestion
<1>6. tab'.pc = "pick" /\ (~tab'.stale => tab'.last = LastQuestion')
  BY <1>2, <1>5
<1> QED
  BY <1>4, <1>6 DEF Tab, ReadSound

(* The questions that the picks of srs mode choose from.                    *)
LEMMA CandidatesAreQuestions ==
    ASSUME IInv, tab.pc \in {"pick", "unattempted"}
    PROVE  /\ tab.want.set \in Sets
           /\ tab.pc = "pick" => DueCandidates \subseteq Questions
           /\ \A topics : WeakCandidates(topics) \subseteq Questions
           /\ Unattempted(tab.want.set) \subseteq Questions
           /\ RandomCandidates \subseteq Questions
<1>1. \/ tab \in Picking
      \/ tab.pc = "unattempted" /\ tab \in Remaining
  BY TabParts DEF IInv
<1>2. tab.want.set \in Sets /\ (tab.pc = "pick" => tab.due \subseteq Questions)
  BY <1>1 DEF Picking, Remaining, Prefs
<1>3. SetMembers(tab.want.set) \subseteq Questions
  BY <1>2, MembersAreQuestions
<1> QED
  BY <1>1, <1>2, <1>3 DEF DueCandidates, WeakCandidates, Unattempted, RandomCandidates

LEMMA PicksSound ==
    ASSUME IInv, PickDue \/ PickWeak \/ PickUnattempted
    PROVE  tab' \in Tab /\ ReadSound'
<1>1. tab.pc \in {"pick", "unattempted"}
  BY DEF PickDue, PickWeak, PickUnattempted
<1>2. PICK q \in Questions : Asks(q)
  <2>1. CASE PickDue
    BY <1>1, <2>1, CandidatesAreQuestions DEF PickDue
  <2>2. CASE PickWeak
    BY <1>1, <2>2, CandidatesAreQuestions DEF PickWeak
  <2>3. CASE PickUnattempted
    BY <1>1, <2>3, CandidatesAreQuestions DEF PickUnattempted
  <2> QED
    BY <2>1, <2>2, <2>3
<1> QED
  BY <1>1, <1>2, AsksSound, NothingRead DEF IInv

LEMMA SkipWeakSound ==
    ASSUME IInv, SkipWeak
    PROVE  tab' \in Tab /\ ReadSound'
<1>1. tab \in Picking /\ tab.pc = "pick" /\ history' = history
  BY TabParts DEF SkipWeak, IInv
<1>2. /\ tab' \in Remaining /\ tab'.pc = "unattempted" /\ tab'.last = tab.last
      /\ tab'.stale = tab.stale
  BY <1>1 DEF SkipWeak, Picking, Remaining
<1>3. ~tab.stale => tab.last = LastQuestion
  BY <1>1 DEF IInv, ReadSound
<1>4. LastQuestion' = LastQuestion
  BY <1>1 DEF LastQuestion
<1> QED
  BY <1>2, <1>3, <1>4 DEF Tab, ReadSound

LEMMA AnswerCreateSound ==
    ASSUME IInv, AnswerCreate
    PROVE  HistorySound' /\ tab' \in Tab /\ ReadSound'
<1>1. tab \in Page
  BY TabParts DEF AnswerCreate, IInv
<1>2. tab.q \in Questions /\ tab.want.set \in Sets
  BY <1>1 DEF Page, Prefs
<1>3. PICK s \in Sets \cup {Unset} : history' = Appended([q |-> tab.q, set |-> s])
  BY <1>2 DEF AnswerCreate
<1>4. [q |-> tab.q, set |-> s] \in Entry
  BY <1>2 DEF Entry
<1>5. HistorySound'
  BY <1>3, <1>4, AppendedSound DEF IInv
<1>6. tab' \in Answering
  BY <1>2 DEF AnswerCreate, Answering
<1> QED
  BY <1>5, <1>6, NothingRead

LEMMA AnswerUpsertSound ==
    ASSUME IInv, AnswerUpsert
    PROVE  /\ scheduled' \subseteq Questions /\ due' \subseteq scheduled'
           /\ tab' \in Tab /\ ReadSound'
<1>1. tab \in Answering
  BY TabParts DEF AnswerUpsert, IInv
<1>2. tab.q \in Questions
  BY <1>1 DEF Answering
<1>3. scheduled' \subseteq Questions /\ due' \subseteq scheduled'
  BY <1>2 DEF AnswerUpsert, IInv
<1>4. tab' = NoPage
  BY DEF AnswerUpsert
<1> QED
  BY <1>3, <1>4, NothingRead

(* The statements of the other requests.                                    *)
LEMMA ElsewherePrefsSound ==
    ASSUME IInv, ElsewherePrefs
    PROVE  prefs' \in Prefs \cup {Unset} /\ tab' \in Tab /\ ReadSound'
<1>1. PICK c \in Queries : prefs' = Resolved(c, prefs, Sets)
  BY DEF ElsewherePrefs
<1>2. prefs' \in Prefs
  BY <1>1, ResolvedParts DEF IInv
<1>3. tab' = tab /\ history' = history
  BY DEF ElsewherePrefs
<1> QED
  BY <1>2, <1>3, ReadKept DEF IInv

(* A statement that changes the history stales the picks that read it.      *)
LEMMA HistoryStaled ==
    ASSUME IInv, prefs' = prefs, Staled
    PROVE  tab' \in Tab /\ ReadSound'
<1>1. /\ tab' \in Tab
      /\ tab'.pc \in {"pick", "unattempted"} => tab'.stale
      /\ tab'.pc \notin {"pick", "unattempted"} => tab' = tab
  BY StaledSound DEF IInv
<1> QED
  BY <1>1 DEF IInv, ReadSound

LEMMA ElsewhereHistorySound ==
    ASSUME IInv, ElsewhereCreate \/ ElsewhereDelete \/ ElsewhereClearAttempts
    PROVE  HistorySound' /\ tab' \in Tab /\ ReadSound'
<1>1. HistorySound'
  <2>1. CASE ElsewhereCreate
    BY <2>1, AppendedSound DEF ElsewhereCreate, IInv
  <2>2. CASE ElsewhereDelete
    BY <2>2, DeletedSound DEF ElsewhereDelete, IInv
  <2>3. CASE ElsewhereClearAttempts
    BY <2>3 DEF ElsewhereClearAttempts, HistorySound, IsInjective
  <2> QED
    BY <2>1, <2>2, <2>3
<1>2. prefs' = prefs /\ Staled
  BY DEF ElsewhereCreate, ElsewhereDelete, ElsewhereClearAttempts
<1> QED
  BY <1>1, <1>2, HistoryStaled

(* The schedule is not what the requests have read.                         *)
LEMMA ScheduleSound ==
    ASSUME IInv, ElsewhereUpsert \/ ElsewhereClearStates \/ ComesDue
    PROVE  /\ scheduled' \subseteq Questions /\ due' \subseteq scheduled'
           /\ tab' \in Tab /\ ReadSound'
<1>1. tab' = tab /\ prefs' = prefs /\ history' = history
  BY DEF ElsewhereUpsert, ElsewhereClearStates, ComesDue
<1>2. scheduled' \subseteq Questions /\ due' \subseteq scheduled'
  BY DEF ElsewhereUpsert, ElsewhereClearStates, ComesDue, IInv
<1> QED
  BY <1>1, <1>2, ReadKept DEF IInv

LEMMA NextSound ==
    ASSUME IInv, [Next]_vars
    PROVE  IInv'
<1>1. ASSUME Open \/ ApiNext \/ ReadPrefs \/ List \/ PickSequential \/ ReadDue \/ ReadRecent
             \/ PickDue \/ PickWeak \/ SkipWeak \/ PickUnattempted
      PROVE  IInv'
  <2>1. tab' \in Tab /\ ReadSound'
    BY <1>1, OpenSound, ApiNextSound, ReadPrefsSound, ListSound, PickSequentialSound,
       ReadDueSound, ReadRecentSound, PicksSound, SkipWeakSound
  <2>2. prefs' = prefs /\ history' = history /\ scheduled' = scheduled /\ due' = due
    BY <1>1 DEF Open, ApiNext, ReadPrefs, List, PickSequential, ReadDue, ReadRecent,
                PickDue, PickWeak, SkipWeak, PickUnattempted
  <2> QED
    BY <2>1, <2>2 DEF IInv, HistorySound
<1>2. ASSUME SavePrefs \/ ElsewherePrefs
      PROVE  IInv'
  <2>1. prefs' \in Prefs \cup {Unset} /\ tab' \in Tab /\ ReadSound'
    BY <1>2, SavePrefsSound, ElsewherePrefsSound
  <2>2. history' = history /\ scheduled' = scheduled /\ due' = due
    BY <1>2 DEF SavePrefs, ElsewherePrefs
  <2> QED
    BY <2>1, <2>2 DEF IInv, HistorySound
<1>3. ASSUME AnswerCreate \/ ElsewhereCreate \/ ElsewhereDelete \/ ElsewhereClearAttempts
      PROVE  IInv'
  <2>1. HistorySound' /\ tab' \in Tab /\ ReadSound'
    BY <1>3, AnswerCreateSound, ElsewhereHistorySound
  <2>2. prefs' = prefs /\ scheduled' = scheduled /\ due' = due
    BY <1>3 DEF AnswerCreate, ElsewhereCreate, ElsewhereDelete, ElsewhereClearAttempts
  <2> QED
    BY <2>1, <2>2 DEF IInv
<1>4. ASSUME AnswerUpsert \/ ElsewhereUpsert \/ ElsewhereClearStates \/ ComesDue
      PROVE  IInv'
  <2>1. /\ scheduled' \subseteq Questions /\ due' \subseteq scheduled'
        /\ tab' \in Tab /\ ReadSound'
    BY <1>4, AnswerUpsertSound, ScheduleSound
  <2>2. prefs' = prefs /\ history' = history
    BY <1>4 DEF AnswerUpsert, ElsewhereUpsert, ElsewhereClearStates, ComesDue
  <2> QED
    BY <2>1, <2>2 DEF IInv, HistorySound
<1>5. CASE UNCHANGED vars
  <2>1. /\ prefs' = prefs /\ history' = history /\ scheduled' = scheduled /\ due' = due
        /\ tab' = tab
    BY <1>5 DEF vars
  <2>2. ReadSound'
    BY <2>1, ReadKept DEF IInv
  <2> QED
    BY <2>1, <2>2 DEF IInv, HistorySound
<1> QED
  BY <1>1, <1>2, <1>3, <1>4, <1>5 DEF Next, Serve, Elsewhere

-----------------------------------------------------------------------------
(* The quiz page keeps its invariant: whatever statements fail and whatever *)
(* the user's other tabs write, a request holds what was stored when it     *)
(* read, or is marked as holding something old.                             *)
THEOREM QuizPageInvariant == Spec => []IInv
<1>1. Init => IInv
  BY InitSound
<1>2. IInv /\ [Next]_vars => IInv'
  BY NextSound
<1> QED
  BY <1>1, <1>2, PTL DEF Spec

(* The variables have their types, and a request that looks for a question  *)
(* has resolved a set that exists and a mode (getQuiz, resolveQuizPrefs,    *)
(* NextQuestion).                                                           *)
THEOREM QuizPageTypeCorrect == Spec => []TypeOK
<1>1. ASSUME IInv
      PROVE  TypeOK
  <2>1. \/ tab = NoPage
        \/ Waiting({"page"}, {"q", "want"})
        \/ Waiting({"prefs"}, {"query", "known"})
        \/ Waiting({"save"}, {"query", "want", "read", "failed"})
        \/ Waiting({"list", "sequential", "srs"}, {"want"})
        \/ Waiting({"recent"}, {"want", "due"})
        \/ Waiting({"pick"}, {"want", "due", "last", "stale"})
        \/ Waiting({"unattempted"}, {"want", "last", "stale"})
        \/ Waiting({"answering"}, {"q"})
    BY <1>1 DEF IInv, Tab, NoPage, Queried, Saving, Wanting, Knowing, Picking, Remaining,
                Page, Answering, Waiting
  <2>2. "want" \in DOMAIN tab => tab.want \in Prefs
    BY <1>1 DEF IInv, Tab, NoPage, Queried, Saving, Wanting, Knowing, Picking, Remaining, Page,
       Answering
  <2>3. "q" \in DOMAIN tab => tab.q \in Questions
    BY <1>1 DEF IInv, Tab, NoPage, Queried, Saving, Wanting, Knowing, Picking, Remaining, Page,
       Answering
  <2> QED
    BY <1>1, <2>1, <2>2, <2>3 DEF IInv, HistorySound, TypeOK
<1>2. IInv => TypeOK
  BY <1>1
<1> QED
  BY <1>2, QuizPageInvariant, PTL

(* Whatever other tabs write and whichever reads fail, a save stores what   *)
(* the link chose and, beside it, what was stored when the request read; an *)
(* initial value takes its place only where the read of it failed (getQuiz, *)
(* resolveQuizPrefs).                                                       *)
THEOREM PreferencesAreKept == Spec => PrefsKept
<1> DEFINE Explained ==
              /\ prefs'.set \in {tab.query.set, Shown(tab.read).set}
                                   \cup {s \in {CoreSet} : tab.failed # {}}
              /\ prefs'.mode \in {tab.query.mode, Shown(tab.read).mode}
                                   \cup {m \in {"srs"} : "Get" \in tab.failed}
              /\ tab.query.set \in {Unset, prefs'.set} \/ "ListAll" \in tab.failed
              /\ tab.query.mode \in {Unset, prefs'.mode}
           Step == tab.pc = "save" /\ tab'.pc = "list" /\ prefs' # prefs => Explained
<1>1. ASSUME IInv, [Next]_vars
      PROVE  [Step]_vars
  <2> SUFFICES ASSUME tab.pc = "save", tab'.pc = "list", prefs' # prefs
               PROVE  Explained
    OBVIOUS
  <2> DEFINE stored == IF "Get" \in tab.failed THEN Unset ELSE tab.read
             known == IF "ListAll" \in tab.failed THEN {} ELSE Sets
  <2>1. tab \in Saving /\ tab.want = Resolved(tab.query, stored, known)
    BY <1>1, TabParts DEF IInv, ReadSound
  <2>2. /\ tab.query \in Queries /\ stored \in Prefs \cup {Unset} /\ known \in {{}, Sets}
    BY <2>1 DEF Saving
  <2>3. SavePrefs
    <3>1. ~ElsewherePrefs
      BY DEF ElsewherePrefs
    <3> QED
      BY <1>1, <3>1 DEF Next, Serve, Elsewhere, vars, Open, ApiNext, ReadPrefs, List,
         PickSequential, ReadDue, ReadRecent, PickDue, PickWeak, SkipWeak, PickUnattempted,
         AnswerCreate, AnswerUpsert, ElsewhereCreate, ElsewhereUpsert, ElsewhereDelete,
         ElsewhereClearAttempts, ElsewhereClearStates, ComesDue
  <2>4. prefs' = Resolved(tab.query, stored, known)
    BY <2>1, <2>3 DEF SavePrefs
  <2>5. /\ Shown(stored).set \in {Shown(tab.read).set} \cup {s \in {CoreSet} : tab.failed # {}}
        /\ Shown(stored).mode \in {Shown(tab.read).mode} \cup {m \in {"srs"} : "Get" \in tab.failed}
    BY DEF Shown
  <2>6. known # Sets => "ListAll" \in tab.failed
    OBVIOUS
  <2> HIDE DEF stored, known
  <2>7. /\ prefs'.set \in {tab.query.set, Shown(stored).set} \cup {s \in {CoreSet} : known # Sets}
        /\ prefs'.mode \in {tab.query.mode, Shown(stored).mode}
        /\ tab.query.set \in {Unset, prefs'.set} \/ known # Sets
        /\ tab.query.mode \in {Unset, prefs'.mode}
    BY <2>2, <2>4, ResolvedParts
  <2> QED
    BY <2>5, <2>6, <2>7
<1>2. IInv /\ [Next]_vars => [Step]_vars
  BY <1>1
<1> QED
  BY <1>2, QuizPageInvariant, PTL DEF Spec, PrefsKept

(* In srs mode the question answered last comes again only if it is the     *)
(* only one due or the only one of the set, unless a read failed or another *)
(* request wrote or erased attempts while the picks went on (pickSRS and    *)
(* all its picks, also the one of a question never attempted).              *)
THEOREM LastIsNotAskedAgain == Spec => NotAskedAgain
<1> DEFINE Step == /\ tab.pc \in {"pick", "unattempted"} /\ tab'.pc = "page"
                   /\ ~ tab.stale
                   /\ tab'.q = LastQuestion
                   => \/ tab.pc = "pick" /\ tab.due = {LastQuestion}
                      \/ SetMembers(tab.want.set) = {LastQuestion}
<1>1. ASSUME IInv, [Next]_vars
      PROVE  [Step]_vars
  <2> SUFFICES ASSUME tab.pc \in {"pick", "unattempted"}, tab'.pc = "page",
                      ~tab.stale, tab'.q = LastQuestion
               PROVE  \/ tab.pc = "pick" /\ tab.due = {LastQuestion}
                      \/ SetMembers(tab.want.set) = {LastQuestion}
    OBVIOUS
  <2>1. /\ tab \in Picking \cup Remaining
        /\ tab.last = LastQuestion /\ tab.want.set \in Sets
    BY <1>1, TabParts, CandidatesAreQuestions DEF IInv, ReadSound
  <2>2. PickDue \/ PickWeak \/ PickUnattempted
    <3>1. tab'.pc # tab.pc
      OBVIOUS
    <3>2. ~Staled
      <4>1. Staled => tab' = tab \/ tab' = [tab EXCEPT !.stale = TRUE]
        BY DEF Staled
      <4> QED
        BY <2>1, <3>1, <4>1 DEF Picking, Remaining
    <3>3. ~Elsewhere /\ ~ComesDue
      BY <3>1, <3>2 DEF Elsewhere, ElsewherePrefs, ElsewhereCreate, ElsewhereUpsert,
         ElsewhereDelete, ElsewhereClearAttempts, ElsewhereClearStates, ComesDue
    <3>4. ~(Open \/ ApiNext \/ ReadPrefs \/ SavePrefs \/ List \/ PickSequential)
      BY DEF Open, ApiNext, ReadPrefs, SavePrefs, List, PickSequential
    <3>5. ~(ReadDue \/ ReadRecent \/ AnswerCreate \/ AnswerUpsert \/ UNCHANGED vars)
      BY DEF ReadDue, ReadRecent, AnswerCreate, AnswerUpsert, vars
    <3>6. ~SkipWeak
      BY DEF SkipWeak
    <3> QED
      BY <1>1, <3>3, <3>4, <3>5, <3>6 DEF Next, Serve
  <2>3. CASE PickDue
    <3>1. tab'.q \in DueCandidates
      BY <2>3 DEF PickDue, Asks
    <3> QED
      BY <2>1, <2>3, <3>1 DEF DueCandidates, PickDue
  <2>4. CASE PickWeak
    <3>1. PICK topics \in WeakTopics : tab'.q \in WeakCandidates(topics)
      BY <2>4 DEF PickWeak, Asks
    <3> QED
      BY <2>1, <3>1 DEF WeakCandidates
  <2>5. CASE PickUnattempted
    <3>1. tab'.q \in RandomCandidates \/ tab'.q \in Unattempted(tab.want.set)
      BY <2>5 DEF PickUnattempted, Asks
    <3>2. CASE tab'.q \in RandomCandidates
      BY <2>1, <3>2 DEF RandomCandidates
    <3>3. CASE tab'.q \in Unattempted(tab.want.set)
      <4>1. LastQuestion \in Questions
        BY <2>1, <3>3, MembersAreQuestions DEF Unattempted
      <4>2. history # << >>
        BY <4>1, SetsFacts DEF LastQuestion
      <4>3. LastQuestion \in Attempted
        BY <1>1, <4>2, HistoryFacts DEF IInv
      <4> QED
        BY <3>3, <4>3 DEF Unattempted
    <3> QED
      BY <3>1, <3>2, <3>3
  <2> QED
    BY <2>2, <2>3, <2>4, <2>5
<1>2. IInv /\ [Next]_vars => [Step]_vars
  BY <1>1
<1> QED
  BY <1>2, QuizPageInvariant, PTL DEF Spec, NotAskedAgain
=============================================================================
