---------------------------- MODULE BrowserProofs ----------------------------
(* The invariants of the cookies and pages of a browser, for any number of  *)
(* users, tabs, logins and questions, and any order of the responses; and   *)
(* that grading is right, for entries in any number and order.              *)
EXTENDS Browser, FiniteSetTheorems, SequenceTheorems, WellFoundedInduction, TLAPS

-----------------------------------------------------------------------------
(* Orders and counts                                                        *)

(* A finite set can be enumerated along a strict total order: an element's  *)
(* number is how many elements do not come after it.                        *)
LEMMA Enumeration ==
    ASSUME NEW P, IsFiniteSet(P), NEW R,
           \A i \in P : <<i, i>> \notin R,
           \A i, j, k \in P : <<i, j>> \in R /\ <<j, k>> \in R => <<i, k>> \in R,
           \A i, j \in P : i # j => <<i, j>> \in R \/ <<j, i>> \in R
    PROVE  \E p \in Bijection(1 .. Cardinality(P), P) :
              \A i, j \in 1 .. Cardinality(P) : i < j => <<p[i], p[j]>> \in R
<1> DEFINE Upto(i) == {j \in P : j = i \/ <<j, i>> \in R}
           n == Cardinality(P)
           rank == [i \in P |-> Cardinality(Upto(i))]
<1>1. n \in Nat
  BY FS_CardinalityType
<1>2. ASSUME NEW i \in P
      PROVE  IsFiniteSet(Upto(i)) /\ Cardinality(Upto(i)) \in 1 .. n
  <2>1. Upto(i) \in SUBSET P /\ i \in Upto(i)
    OBVIOUS
  <2> HIDE DEF Upto
  <2>2. IsFiniteSet(Upto(i)) /\ Cardinality(Upto(i)) <= n
    BY <2>1, FS_Subset
  <2>3. Cardinality(Upto(i)) \in Nat /\ Cardinality(Upto(i)) # 0
    BY <2>1, <2>2, FS_CardinalityType, FS_EmptySet
  <2> HIDE DEF n
  <2> QED
    BY <1>1, <2>2, <2>3
<1>3. ASSUME NEW i \in P, NEW k \in P, <<i, k>> \in R
      PROVE  Cardinality(Upto(i)) < Cardinality(Upto(k))
  <2>1. Upto(i) \in SUBSET Upto(k)
    BY <1>3
  <2>2. k \in Upto(k) /\ k \notin Upto(i)
    BY <1>3
  <2>3. IsFiniteSet(Upto(k)) /\ Cardinality(Upto(k)) \in 1 .. n /\ Cardinality(Upto(i)) \in 1 .. n
    BY <1>2
  <2> HIDE DEF Upto
  <2>4. /\ Cardinality(Upto(i)) <= Cardinality(Upto(k))
        /\ Cardinality(Upto(k)) = Cardinality(Upto(i)) => Upto(k) = Upto(i)
    BY <2>1, <2>3, FS_Subset
  <2>5. Cardinality(Upto(k)) # Cardinality(Upto(i))
    BY <2>2, <2>4
  <2> HIDE DEF n
  <2> QED
    BY <1>1, <2>3, <2>4, <2>5
<1> HIDE DEF Upto
<1>4. /\ rank \in [P -> 1 .. n]
      /\ \A i, k \in P : <<i, k>> \in R => rank[i] < rank[k]
  BY <1>2, <1>3
<1> HIDE DEF rank, n
<1>5. \A i, k \in P : rank[i] = rank[k] => i = k
  <2> SUFFICES ASSUME NEW i \in P, NEW k \in P, i # k PROVE rank[i] # rank[k]
    OBVIOUS
  <2>1. rank[i] \in Int /\ rank[k] \in Int
    BY <1>1, <1>4
  <2>2. rank[i] < rank[k] \/ rank[k] < rank[i]
    BY <1>4
  <2> QED
    BY <2>1, <2>2
<1>6. rank \in Injection(P, 1 .. n)
  BY <1>4, <1>5 DEF Injection, IsInjective
<1>7. IsFiniteSet(1 .. n) /\ Cardinality(1 .. n) = n
  BY <1>1, FS_Interval
<1>8. rank \in Surjection(P, 1 .. n)
  BY <1>6, <1>7, FS_Injection DEF n
<1> DEFINE p == [m \in 1 .. n |-> CHOOSE i \in P : rank[i] = m]
<1>9. ASSUME NEW m \in 1 .. n
      PROVE  p[m] \in P /\ rank[p[m]] = m
  <2>1. \E i \in P : rank[i] = m
    BY <1>8 DEF Surjection
  <2> QED
    BY <2>1
<1> HIDE DEF p
<1>10. p \in [1 .. n -> P]
  <2>1. p = [m \in 1 .. n |-> p[m]]
    BY DEF p
  <2> QED
    BY <1>9, <2>1
<1>11. \A i \in P : p[rank[i]] = i
  BY <1>4, <1>5, <1>9
<1>12. p \in Bijection(1 .. n, P)
  <2>1. p \in Injection(1 .. n, P)
    BY <1>9, <1>10 DEF Injection, IsInjective
  <2>2. p \in Surjection(1 .. n, P)
    BY <1>4, <1>10, <1>11 DEF Surjection
  <2> QED
    BY <2>1, <2>2 DEF Bijection
<1>13. ASSUME NEW i \in 1 .. n, NEW j \in 1 .. n, i < j
       PROVE  <<p[i], p[j]>> \in R
  <2>1. p[i] \in P /\ p[j] \in P /\ rank[p[i]] = i /\ rank[p[j]] = j
    BY <1>9
  <2>2. i \in Int /\ j \in Int
    BY <1>1
  <2>3. p[i] # p[j]
    BY <1>13, <2>1, <2>2
  <2>4. <<p[j], p[i]>> \in R => j < i
    BY <1>4, <2>1
  <2> QED
    BY <1>13, <2>1, <2>2, <2>3, <2>4
<1> QED
  BY <1>12, <1>13 DEF n

(* What an enumeration reaches is as much as it comes from.                 *)
LEMMA EnumerationCounts ==
    ASSUME NEW P, IsFiniteSet(P), NEW n, NEW p \in Bijection(1 .. n, P), NEW Q \in SUBSET P
    PROVE  Cardinality({i \in 1 .. n : p[i] \in Q}) = Cardinality(Q)
<1> DEFINE I == {i \in 1 .. n : p[i] \in Q}
           g == [i \in I |-> p[i]]
<1>1. p \in [1 .. n -> P] /\ \A i, j \in 1 .. n : p[i] = p[j] => i = j
  BY DEF Bijection, Injection, IsInjective
<1>2. \A e \in Q : \E i \in 1 .. n : p[i] = e
  BY DEF Bijection, Surjection
<1>3. g \in Injection(I, Q)
  BY <1>1 DEF Injection, IsInjective
<1>4. g \in Surjection(I, Q)
  BY <1>2 DEF Surjection
<1>5. IsFiniteSet(Q)
  BY FS_Subset
<1> HIDE DEF g, I
<1> QED
  BY <1>3, <1>4, <1>5, FS_Injection DEF I

-----------------------------------------------------------------------------
(* What normalize and readEntries make of the rows                          *)

Sorted(x, n) ==
    /\ x \in [1 .. n -> Entry]
    /\ \A i, j \in 1 .. n : i < j => ~Before(x[j], x[i])
Count(x, n, e) == Cardinality({i \in 1 .. n : x[i] = e})

LEMMA BeforeIsOrder ==
    ASSUME NEW e \in Entry, NEW f \in Entry, NEW g \in Entry
    PROVE  /\ ~Before(e, e)
           /\ Before(e, f) => ~Before(f, e)
           /\ Before(e, f) /\ Before(f, g) => Before(e, g)
           /\ e # f => Before(e, f) \/ Before(f, e)
<1>1. /\ e.account \in Int /\ f.account \in Int /\ g.account \in Int
      /\ e.amount \in Int /\ f.amount \in Int /\ g.amount \in Int
  <2>1. \A i \in Names : i \in Int
    BY GradingAssumption
  <2> QED
    BY <2>1 DEF Entry
<1>2. e.account = f.account /\ e.amount = f.amount => e = f
  BY DEF Entry
<1> QED
  BY <1>1, <1>2 DEF Before

LEMMA RowsFacts ==
    ASSUME NEW s \in Seq(Entry)
    PROVE  /\ Len(s) \in Nat /\ DOMAIN s = 1 .. Len(s)
           /\ \A i \in DOMAIN s : s[i] \in Entry
           /\ IsFiniteSet(DOMAIN s)
           /\ Filled(s) \in SUBSET DOMAIN s /\ IsFiniteSet(Filled(s))
<1>1. /\ Len(s) \in Nat /\ DOMAIN s = 1 .. Len(s)
      /\ \A i \in DOMAIN s : s[i] \in Entry
  BY LenProperties, ElementOfSeq
<1>2. IsFiniteSet(DOMAIN s)
  BY <1>1, FS_Interval
<1>3. Filled(s) \in SUBSET DOMAIN s
  BY DEF Filled
<1> QED
  BY <1>1, <1>2, <1>3, FS_Subset

LEMMA RenamedSound ==
    ASSUME NEW s \in Seq(Entry)
    PROVE  /\ Renamed(s) \in Seq(Entry) /\ DOMAIN Renamed(s) = DOMAIN s
           /\ \A e \in Entry :
                 Occurrences(s, e) = Cardinality({i \in DOMAIN s : Renamed(s)[i] = e})
<1> DEFINE r == Renamed(s)
<1>1. /\ Len(s) \in Nat /\ DOMAIN s = 1 .. Len(s)
      /\ \A i \in DOMAIN s : s[i] \in Entry
  BY RowsFacts
<1>2. DOMAIN r = DOMAIN s
  BY DEF Renamed
<1>3. ASSUME NEW i \in DOMAIN s
      PROVE  /\ r[i] \in Entry
             /\ r[i].account = Standard[s[i].account] /\ r[i].amount = s[i].amount
  <2>1. s[i] \in [account : Names, amount : Int]
    BY <1>1 DEF Entry
  <2>2. Standard[s[i].account] \in Names
    BY <2>1, GradingAssumption
  <2>3. r[i] = [s[i] EXCEPT !.account = Standard[s[i].account]]
    BY DEF Renamed
  <2> QED
    BY <2>1, <2>2, <2>3 DEF Entry
<1>4. r \in Seq(Entry)
  <2>1. r = [i \in 1 .. Len(s) |-> r[i]]
    BY <1>1 DEF Renamed
  <2> HIDE DEF r
  <2>2. r \in [1 .. Len(s) -> Entry]
    BY <1>1, <1>3, <2>1
  <2> QED
    BY <1>1, <2>2
<1> HIDE DEF r
<1>5. ASSUME NEW e \in Entry
      PROVE  Occurrences(s, e) = Cardinality({i \in DOMAIN s : r[i] = e})
  <2>1. ASSUME NEW i \in DOMAIN s
        PROVE  (Standard[s[i].account] = e.account /\ s[i].amount = e.amount) <=> r[i] = e
    <3>1. r[i] \in [account : Names, amount : Int] /\ e \in [account : Names, amount : Int]
      BY <1>3 DEF Entry
    <3>2. r[i] = e <=> r[i].account = e.account /\ r[i].amount = e.amount
      BY <3>1
    <3> QED
      BY <1>3, <3>2
  <2>2. {i \in DOMAIN s : Standard[s[i].account] = e.account /\ s[i].amount = e.amount}
        = {i \in DOMAIN s : r[i] = e}
    BY <2>1
  <2> QED
    BY <2>2 DEF Occurrences
<1> QED
  BY <1>2, <1>4, <1>5 DEF r

(* normalize gives a sorted list of the entries, each as often as before.   *)
LEMMA NormalizedSound ==
    ASSUME NEW s \in Seq(Entry)
    PROVE  \E n \in Nat :
              /\ Sorted(Normalized(s), n)
              /\ \A i \in 1 .. n : ~IsBlank(Normalized(s)[i])
              /\ \A e \in Entry : ~IsBlank(e) =>
                    Count(Normalized(s), n, e) = Occurrences(s, e)
<1> DEFINE r == Renamed(s)
           P == Filled(r)
           n == Cardinality(P)
           before(i, j) == Before(r[i], r[j]) \/ (~Before(r[j], r[i]) /\ i < j)
           R == {x \in P \X P : before(x[1], x[2])}
           IsOrder(p) == \A i, j \in 1 .. n : i < j => <<p[j], p[i]>> \notin Sorting(r)
           order == CHOOSE p \in Bijection(1 .. n, P) : IsOrder(p)
           x == Normalized(s)
<1>1. /\ r \in Seq(Entry) /\ DOMAIN r = DOMAIN s
      /\ \A e \in Entry : Occurrences(s, e) = Cardinality({i \in DOMAIN s : r[i] = e})
  BY RenamedSound
<1> HIDE DEF r
<1>2. /\ \A i \in P : i \in Int /\ r[i] \in Entry /\ ~IsBlank(r[i])
      /\ P \in SUBSET DOMAIN r /\ IsFiniteSet(P) /\ n \in Nat
  <2>1. /\ Len(r) \in Nat /\ DOMAIN r = 1 .. Len(r)
        /\ \A i \in DOMAIN r : r[i] \in Entry
        /\ P \in SUBSET DOMAIN r /\ IsFiniteSet(P)
    BY <1>1, RowsFacts
  <2>2. \A i \in P : i \in Int /\ r[i] \in Entry
    BY <2>1
  <2>3. \A i \in P : ~IsBlank(r[i])
    BY DEF Filled
  <2>4. n \in Nat
    BY <2>1, FS_CardinalityType
  <2> QED
    BY <2>1, <2>2, <2>3, <2>4
<1> HIDE DEF P, n
<1>3. \E p \in Bijection(1 .. n, P) : IsOrder(p)
  <2>1. \A i, j \in P : <<i, j>> \in R <=> before(i, j)
    OBVIOUS
  <2>2. \A i \in P : ~before(i, i)
    BY <1>2, BeforeIsOrder
  <2>3. ASSUME NEW i \in P, NEW j \in P, NEW k \in P, before(i, j), before(j, k)
        PROVE  before(i, k)
    <3>1. /\ r[i] \in Entry /\ r[j] \in Entry /\ r[k] \in Entry
          /\ i \in Int /\ j \in Int /\ k \in Int
      BY <1>2
    <3>2. CASE Before(r[i], r[j]) /\ Before(r[j], r[k])
      BY <3>1, <3>2, BeforeIsOrder
    <3>3. CASE ~Before(r[i], r[j])
      <4>1. r[i] = r[j]
        BY <2>3, <3>1, <3>3, BeforeIsOrder
      <4> QED
        BY <2>3, <3>1, <3>3, <4>1
    <3>4. CASE ~Before(r[j], r[k])
      <4>1. r[j] = r[k]
        BY <2>3, <3>1, <3>4, BeforeIsOrder
      <4> QED
        BY <2>3, <3>1, <3>4, <4>1
    <3> QED
      BY <3>2, <3>3, <3>4
  <2>4. \A i, j \in P : i # j => before(i, j) \/ before(j, i)
    BY <1>2, BeforeIsOrder
  <2>5. \A i, j \in P : before(i, j) => ~Before(r[j], r[i])
    BY <1>2, BeforeIsOrder
  <2> HIDE DEF before
  <2>6. /\ \A i \in P : <<i, i>> \notin R
        /\ \A i, j, k \in P : <<i, j>> \in R /\ <<j, k>> \in R => <<i, k>> \in R
        /\ \A i, j \in P : i # j => <<i, j>> \in R \/ <<j, i>> \in R
    BY <2>1, <2>2, <2>3, <2>4
  <2>7. \A i, j \in P : <<i, j>> \in R => <<j, i>> \notin Sorting(r)
    BY <2>1, <2>5 DEF Sorting
  <2> HIDE DEF R
  <2>8. PICK p \in Bijection(1 .. n, P) :
              \A i, j \in 1 .. n : i < j => <<p[i], p[j]>> \in R
    BY <1>2, <2>6, Enumeration DEF n
  <2>9. \A i \in 1 .. n : p[i] \in P
    BY DEF Bijection, Injection
  <2> QED
    BY <2>7, <2>8, <2>9
<1>4. order \in Bijection(1 .. n, P) /\ IsOrder(order)
  <2> HIDE DEF IsOrder
  <2> QED
    BY <1>3
<1>5. x = [i \in 1 .. n |-> r[order[i]]]
  BY DEF Normalized, Arranged, r, P, n
<1> HIDE DEF order
<1>6. \A i \in 1 .. n : order[i] \in P
  BY <1>4 DEF Bijection, Injection
<1>7. Sorted(x, n)
  <2>1. x \in [1 .. n -> Entry]
    BY <1>2, <1>5, <1>6
  <2>2. ASSUME NEW i \in 1 .. n, NEW j \in 1 .. n, i < j
        PROVE  ~Before(x[j], x[i])
    <3>1. <<order[j], order[i]>> \notin Sorting(r)
      BY <1>4, <2>2
    <3>2. order[i] \in Filled(r) /\ order[j] \in Filled(r)
      BY <1>6 DEF P
    <3>3. ~Before(r[order[j]], r[order[i]])
      BY <3>1, <3>2 DEF Sorting
    <3> QED
      BY <1>5, <3>3
  <2> QED
    BY <2>1, <2>2 DEF Sorted
<1>8. \A i \in 1 .. n : ~IsBlank(x[i])
  BY <1>2, <1>5, <1>6
<1>9. ASSUME NEW e \in Entry, ~IsBlank(e)
      PROVE  Count(x, n, e) = Occurrences(s, e)
  <2> DEFINE Q == {i \in DOMAIN s : r[i] = e}
  <2>1. Q \in SUBSET P
    BY <1>1, <1>9 DEF P, Filled
  <2>2. {i \in 1 .. n : x[i] = e} = {i \in 1 .. n : order[i] \in Q}
    <3>1. \A i \in 1 .. n : order[i] \in DOMAIN s
      BY <1>1, <1>2, <1>6
    <3> QED
      BY <1>5, <3>1
  <2> HIDE DEF Q
  <2>3. Cardinality({i \in 1 .. n : order[i] \in Q}) = Cardinality(Q)
    BY <1>2, <1>4, <2>1, EnumerationCounts
  <2> QED
    BY <1>1, <2>2, <2>3 DEF Count, Q
<1> HIDE DEF x
<1> QED
  BY <1>2, <1>7, <1>8, <1>9 DEF x

(* readEntries drops blank rows only.                                       *)
LEMMA ReadEntriesSound ==
    ASSUME NEW s \in Seq(Entry)
    PROVE  /\ ReadEntries(s) \in Seq(Entry)
           /\ \A e \in Entry : ~IsBlank(e) =>
                 Occurrences(ReadEntries(s), e) = Occurrences(s, e)
<1> DEFINE P == Filled(s)
           n == Cardinality(P)
           R == AsEntered(s)
           IsOrder(p) == \A i, j \in 1 .. n : i < j => <<p[j], p[i]>> \notin R
           order == CHOOSE p \in Bijection(1 .. n, P) : IsOrder(p)
           x == ReadEntries(s)
<1>1. /\ \A i \in P : i \in Int
      /\ \A i \in DOMAIN s : s[i] \in Entry
      /\ P \in SUBSET DOMAIN s /\ IsFiniteSet(P) /\ n \in Nat
  <2>1. /\ Len(s) \in Nat /\ DOMAIN s = 1 .. Len(s)
        /\ \A i \in DOMAIN s : s[i] \in Entry
        /\ P \in SUBSET DOMAIN s /\ IsFiniteSet(P)
    BY RowsFacts
  <2>2. \A i \in P : i \in Int
    BY <2>1
  <2> QED
    BY <2>1, <2>2, FS_CardinalityType
<1> HIDE DEF n
<1>2. \E p \in Bijection(1 .. n, P) : IsOrder(p)
  <2>1. \A i, j \in P : <<i, j>> \in R <=> i < j
    BY DEF AsEntered
  <2> HIDE DEF R, P
  <2>2. /\ \A i \in P : <<i, i>> \notin R
        /\ \A i, j, k \in P : <<i, j>> \in R /\ <<j, k>> \in R => <<i, k>> \in R
        /\ \A i, j \in P : i # j => <<i, j>> \in R \/ <<j, i>> \in R
    BY <1>1, <2>1
  <2>3. PICK p \in Bijection(1 .. n, P) :
              \A i, j \in 1 .. n : i < j => <<p[i], p[j]>> \in R
    BY <1>1, <2>2, Enumeration DEF n
  <2>4. \A i \in 1 .. n : p[i] \in P
    BY DEF Bijection, Injection
  <2>5. ASSUME NEW i \in 1 .. n, NEW j \in 1 .. n, i < j
        PROVE  <<p[j], p[i]>> \notin R
    <3>1. <<p[i], p[j]>> \in R /\ p[i] \in P /\ p[j] \in P
      BY <2>3, <2>4, <2>5
    <3>2. p[i] \in Int /\ p[j] \in Int /\ p[i] < p[j]
      BY <1>1, <2>1, <3>1
    <3> QED
      BY <2>1, <3>1, <3>2
  <2> QED
    BY <2>5
<1>3. order \in Bijection(1 .. n, P)
  <2> HIDE DEF IsOrder
  <2> QED
    BY <1>2
<1>4. x = [i \in 1 .. n |-> s[order[i]]]
  BY DEF ReadEntries, Arranged, n
<1> HIDE DEF order, P
<1>5. \A i \in 1 .. n : order[i] \in P /\ order[i] \in DOMAIN s
  BY <1>1, <1>3 DEF Bijection, Injection
<1>6. x \in Seq(Entry)
  <2>1. x \in [1 .. n -> Entry]
    BY <1>1, <1>4, <1>5
  <2> HIDE DEF x
  <2> QED
    BY <1>1, <2>1
<1>7. ASSUME NEW e \in Entry, ~IsBlank(e)
      PROVE  Occurrences(x, e) = Occurrences(s, e)
  <2> DEFINE Is(r) == Standard[r.account] = e.account /\ r.amount = e.amount
             Q == {i \in DOMAIN s : Is(s[i])}
  <2>1. Q \in SUBSET P
    <3>1. ASSUME NEW i \in DOMAIN s, IsBlank(s[i])
          PROVE  ~Is(s[i])
      BY <1>7, <3>1, GradingAssumption DEF IsBlank
    <3> QED
      BY <3>1 DEF P, Filled
  <2>2. {i \in DOMAIN x : Is(x[i])} = {i \in 1 .. n : order[i] \in Q}
    BY <1>4, <1>5
  <2>3. Occurrences(x, e) = Cardinality({i \in DOMAIN x : Is(x[i])})
    BY DEF Occurrences
  <2>4. Occurrences(s, e) = Cardinality(Q)
    BY DEF Occurrences
  <2> HIDE DEF Q, Is, x
  <2>5. Cardinality({i \in 1 .. n : order[i] \in Q}) = Cardinality(Q)
    BY <1>1, <1>3, <2>1, EnumerationCounts
  <2> QED
    BY <2>2, <2>3, <2>4, <2>5
<1> QED
  BY <1>6, <1>7

-----------------------------------------------------------------------------
(* Sorted lists with the same entries, each as often, are the same list     *)

(* Where two lists first differ, the smaller entry occurs more often in the *)
(* list that has it there: in the other it can only occur before.           *)
LEMMA FirstDifference ==
    ASSUME NEW n \in Nat, NEW m \in Nat, NEW x, NEW y, Sorted(x, n), Sorted(y, m),
           NEW k \in 1 .. n, \A i \in 1 .. k - 1 : i \in 1 .. m /\ x[i] = y[i],
           k > m \/ Before(x[k], y[k])
    PROVE  Count(x, n, x[k]) # Count(y, m, x[k])
<1> DEFINE X == {i \in 1 .. n : x[i] = x[k]}
           Y == {i \in 1 .. m : y[i] = x[k]}
<1>1. /\ \A i \in 1 .. n : x[i] \in Entry
      /\ \A i \in 1 .. m : y[i] \in Entry
  BY DEF Sorted
<1>2. ASSUME NEW i \in 1 .. m, y[i] = x[k]
      PROVE  i < k
  <2>1. SUFFICES ASSUME i >= k PROVE FALSE
    OBVIOUS
  <2>2. k \in 1 .. m /\ Before(x[k], y[k])
    BY <2>1
  <2>3. i # k
    BY <1>1, <1>2, <2>2, BeforeIsOrder
  <2>4. k < i
    BY <2>1, <2>3
  <2>5. ~Before(y[i], y[k])
    BY <2>2, <2>4 DEF Sorted
  <2> QED
    BY <1>2, <2>2, <2>5
<1>3. Y \in SUBSET X
  <2> SUFFICES ASSUME NEW i \in Y PROVE i \in X
    OBVIOUS
  <2>1. i \in 1 .. k - 1 /\ i \in 1 .. n
    BY <1>2
  <2> QED
    BY <2>1
<1>4. k \in X /\ k \notin Y
  BY <1>2
<1>5. X \in SUBSET (1 .. n) /\ IsFiniteSet(1 .. n)
  BY FS_Interval
<1> HIDE DEF X, Y
<1>6. IsFiniteSet(X)
  BY <1>5, FS_Subset
<1>7. Cardinality(X) # Cardinality(Y)
  BY <1>3, <1>4, <1>6, FS_Subset
<1> QED
  BY <1>7 DEF Count, X, Y

LEMMA SortedUnique ==
    ASSUME NEW n \in Nat, NEW m \in Nat, NEW x, NEW y, Sorted(x, n), Sorted(y, m),
           \A i \in 1 .. n : Count(x, n, x[i]) = Count(y, m, x[i]),
           \A i \in 1 .. m : Count(x, n, y[i]) = Count(y, m, y[i])
    PROVE  x = y
<1> DEFINE Same(i) == /\ i \in 1 .. n <=> i \in 1 .. m
                      /\ i \in 1 .. n => x[i] = y[i]
           D == {i \in Nat \ {0} : ~Same(i)}
<1>1. SUFFICES D = {}
  <2>1. SUFFICES ASSUME \A i \in Nat \ {0} : Same(i) PROVE x = y
    BY <1>1
  <2>2. 1 .. n = 1 .. m
    <3>1. \A i \in 1 .. n : i \in Nat \ {0}
      OBVIOUS
    <3>2. \A i \in 1 .. m : i \in Nat \ {0}
      OBVIOUS
    <3> QED
      BY <2>1, <3>1, <3>2
  <2>3. \A i \in 1 .. n : x[i] = y[i]
    BY <2>1
  <2>4. x = [i \in 1 .. n |-> x[i]] /\ y = [i \in 1 .. m |-> y[i]]
    BY DEF Sorted
  <2> QED
    BY <2>2, <2>3, <2>4
<1>2. SUFFICES ASSUME D # {} PROVE FALSE
  OBVIOUS
<1>3. PICK k \in D : \A i \in D : ~(i < k)
  <2>1. D \subseteq Nat
    OBVIOUS
  <2> HIDE DEF D
  <2>2. PICK k \in D : \A i \in D : <<i, k>> \notin OpToRel(<, Nat)
    BY <1>2, <2>1, NatLessThanWellFounded, WFMin
  <2> QED
    BY <2>1, <2>2 DEF OpToRel
<1>4. k \in Nat \ {0} /\ ~Same(k) /\ \A i \in 1 .. k - 1 : Same(i)
  <2>1. k \in Nat \ {0} /\ ~Same(k)
    OBVIOUS
  <2>2. \A i \in 1 .. k - 1 : i \in Nat \ {0} /\ i < k
    BY <2>1
  <2> QED
    BY <1>3, <2>1, <2>2
<1>5. CASE k \in 1 .. n /\ (k > m \/ Before(x[k], y[k]))
  <2>1. \A i \in 1 .. k - 1 : i \in 1 .. m /\ x[i] = y[i]
    <3>1. \A i \in 1 .. k - 1 : i \in 1 .. n
      BY <1>5
    <3> QED
      BY <1>4, <3>1
  <2> QED
    BY <1>5, <2>1, FirstDifference
<1>6. CASE k \in 1 .. m /\ (k > n \/ Before(y[k], x[k]))
  <2>1. \A i \in 1 .. k - 1 : i \in 1 .. n /\ y[i] = x[i]
    <3>1. \A i \in 1 .. k - 1 : i \in 1 .. m
      BY <1>6
    <3> QED
      BY <1>4, <3>1
  <2>2. Count(y, m, y[k]) # Count(x, n, y[k])
    BY <1>6, <2>1, FirstDifference
  <2> QED
    BY <1>6, <2>2
<1>7. k \in 1 .. n /\ k \in 1 .. m => Before(x[k], y[k]) \/ Before(y[k], x[k])
  <2>1. k \in 1 .. n /\ k \in 1 .. m => x[k] \in Entry /\ y[k] \in Entry /\ x[k] # y[k]
    BY <1>4 DEF Sorted
  <2> QED
    BY <2>1, BeforeIsOrder
<1>8. k \in 1 .. n \/ k \in 1 .. m
  BY <1>4
<1>9. /\ k \in 1 .. n \/ k > n
      /\ k \in 1 .. m \/ k > m
  BY <1>4
<1> QED
  BY <1>5, <1>6, <1>7, <1>8, <1>9

-----------------------------------------------------------------------------
(* entrySetEqual, and the sides of a right answer                           *)

SameOccurrences(a, b) ==
    \A e \in Entry : ~IsBlank(e) => Occurrences(a, e) = Occurrences(b, e)

LEMMA EntrySetEqualSound ==
    ASSUME NEW a \in Seq(Entry), NEW b \in Seq(Entry)
    PROVE  EntrySetEqual(a, b) <=> SameOccurrences(a, b)
<1> DEFINE x == Normalized(a)
           y == Normalized(b)
<1>1. PICK n \in Nat :
          /\ Sorted(x, n) /\ \A i \in 1 .. n : ~IsBlank(x[i])
          /\ \A e \in Entry : ~IsBlank(e) => Count(x, n, e) = Occurrences(a, e)
  BY NormalizedSound
<1>2. PICK m \in Nat :
          /\ Sorted(y, m) /\ \A i \in 1 .. m : ~IsBlank(y[i])
          /\ \A e \in Entry : ~IsBlank(e) => Count(y, m, e) = Occurrences(b, e)
  BY NormalizedSound
<1> HIDE DEF x, y
<1>3. /\ DOMAIN x = 1 .. n /\ \A i \in 1 .. n : x[i] \in Entry
      /\ DOMAIN y = 1 .. m /\ \A i \in 1 .. m : y[i] \in Entry
  BY <1>1, <1>2 DEF Sorted
<1>4. ASSUME x = y PROVE SameOccurrences(a, b)
  <2>1. 1 .. n = 1 .. m
    BY <1>3, <1>4
  <2>2. \A e : Count(x, n, e) = Count(y, m, e)
    BY <1>4, <2>1 DEF Count
  <2> QED
    BY <1>1, <1>2, <2>2 DEF SameOccurrences
<1>5. ASSUME SameOccurrences(a, b) PROVE x = y
  <2>1. \A e \in Entry : ~IsBlank(e) => Count(x, n, e) = Count(y, m, e)
    BY <1>1, <1>2, <1>5 DEF SameOccurrences
  <2>2. /\ \A i \in 1 .. n : Count(x, n, x[i]) = Count(y, m, x[i])
        /\ \A i \in 1 .. m : Count(x, n, y[i]) = Count(y, m, y[i])
    BY <1>1, <1>2, <1>3, <2>1
  <2> QED
    BY <1>1, <1>2, <2>2, SortedUnique
<1> QED
  BY <1>4, <1>5 DEF EntrySetEqual, x, y

LEMMA SameEntriesSound ==
    ASSUME NEW a \in Seq(Entry), NEW b \in Seq(Entry)
    PROVE  SameEntries(a, b) <=> SameOccurrences(a, b)
<1> DEFINE E == ToSet(Renamed(a)) \cup ToSet(Renamed(b))
<1>1. ASSUME NEW s \in Seq(Entry)
      PROVE  /\ ToSet(Renamed(s)) \subseteq Entry
             /\ \A e \in Entry : e \notin ToSet(Renamed(s)) => Occurrences(s, e) = 0
  <2>1. /\ Renamed(s) \in Seq(Entry) /\ DOMAIN Renamed(s) = DOMAIN s
        /\ \A e \in Entry :
              Occurrences(s, e) = Cardinality({i \in DOMAIN s : Renamed(s)[i] = e})
    BY RenamedSound
  <2>2. \A i \in DOMAIN Renamed(s) : Renamed(s)[i] \in Entry
    BY <2>1, RowsFacts
  <2>3. \A e \in Entry : e \notin ToSet(Renamed(s)) =>
            {i \in DOMAIN s : Renamed(s)[i] = e} = {}
    BY <2>1 DEF ToSet
  <2> QED
    BY <2>1, <2>2, <2>3, FS_EmptySet DEF ToSet
<1>2. E \subseteq Entry /\ \A e \in Entry \ E : Occurrences(a, e) = 0 /\ Occurrences(b, e) = 0
  BY <1>1
<1>3. SameEntries(a, b) <=> \A e \in E : ~IsBlank(e) => Occurrences(a, e) = Occurrences(b, e)
  BY DEF SameEntries
<1> HIDE DEF E
<1> QED
  BY <1>2, <1>3 DEF SameOccurrences

(* A form is judged rightly for a question whose type fits its answer.      *)
LEMMA GradingSound ==
    ASSUME NEW q \in Questions, NEW form \in Forms, Want[q].type \notin {"ledger", "slip"}
    PROVE  IsCorrect(Want[q], BuildAnswerFromForm(Want[q].type, form))
              <=> IsRight(Want[q], form)
<1> DEFINE want == Want[q]
           got == BuildAnswerFromForm(want.type, form)
<1>1. /\ want.type \in QuestionType
      /\ want.choice = "" <=> want.type = "journal"
      /\ want.debits \in Seq(Entry) /\ want.credits \in Seq(Entry)
      /\ form.debits \in Seq(Entry) /\ form.credits \in Seq(Entry)
  BY BrowserAssumption
<1>2. CASE want.type = "journal"
  <2>1. /\ got.type = want.type
        /\ got.debits = ReadEntries(form.debits) /\ got.credits = ReadEntries(form.credits)
    BY <1>2 DEF BuildAnswerFromForm, Payload
  <2> HIDE DEF want, got
  <2>2. IsCorrect(want, got) <=> /\ EntrySetEqual(want.debits, got.debits)
                                 /\ EntrySetEqual(want.credits, got.credits)
    BY <1>2, <2>1 DEF IsCorrect, EntryTypes
  <2>3. IsRight(want, form) <=> /\ SameEntries(want.debits, form.debits)
                                /\ SameEntries(want.credits, form.credits)
    BY <1>1, <1>2 DEF IsRight
  <2>4. ASSUME NEW a \in Seq(Entry), NEW b \in Seq(Entry)
        PROVE  EntrySetEqual(a, ReadEntries(b)) <=> SameEntries(a, b)
    <3>1. /\ ReadEntries(b) \in Seq(Entry)
          /\ SameOccurrences(a, ReadEntries(b)) <=> SameOccurrences(a, b)
      BY ReadEntriesSound DEF SameOccurrences
    <3> QED
      BY <3>1, EntrySetEqualSound, SameEntriesSound
  <2> QED
    BY <1>1, <2>1, <2>2, <2>3, <2>4 DEF want, got
<1>3. CASE want.type # "journal"
  <2>1. want.type \notin EntryTypes /\ want.choice # ""
    BY <1>1, <1>3 DEF EntryTypes
  <2>2. got.type = want.type /\ got.choice = form.choice
    BY <1>3 DEF BuildAnswerFromForm, Payload
  <2> HIDE DEF want, got
  <2>3. IsCorrect(want, got) <=> Upper(want.choice) = Upper(form.choice)
    BY <2>1, <2>2 DEF IsCorrect
  <2>4. IsRight(want, form) <=> form.choice # "" /\ Upper(want.choice) = Upper(form.choice)
    BY <2>1 DEF IsRight
  <2>5. \A c : Upper(c) = "" => c = ""
    BY DEF Upper
  <2>6. Upper("") = ""
    BY DEF Upper
  <2> QED
    BY <2>1, <2>3, <2>4, <2>5, <2>6 DEF want, got
<1> QED
  BY <1>2, <1>3

-----------------------------------------------------------------------------
(* The cookies and pages                                                    *)

LEMMA MaxIssuedType == MaxIssued \in Nat
  BY BrowserAssumption

(* A quiz page carries the token of a session that was drawn for its user:  *)
(* as long as the session lives it is still that user's.                    *)
PageSound(p) ==
    p.kind = "quiz" =>
        /\ p.token \in 1 .. issued
        /\ p.token \in DOMAIN sessions => sessions[p.token] = p.user

(* A response sets both cookies to the same number, or gives a CSRF cookie  *)
(* to a browser that had none and hence no session.                         *)
SetSound(s) ==
    \/ s = Kept
    \/ s \in [session : Numbers, csrf : Numbers] /\ s.session = s.csrf
    \/ s \in [csrf : guest]

CookiesSound == cookies.csrf = cookies.session \/ cookies.csrf \in guest
TabSound(t) == PageSound(page[t]) /\ PageSound(wire[t].page) /\ SetSound(wire[t].set)
TabsSound == \A t \in Tabs : TabSound(t)

IInv == TypeOK /\ CookiesSound /\ TabsSound /\ AnswersByPageOwner /\ GradedByAnswer

LEMMA InitIInv == Init => IInv
<1> SUFFICES ASSUME Init PROVE IInv
  OBVIOUS
<1>1. TypeOK
  BY MaxIssuedType DEF Init, TypeOK, NoCookies, Numbers, Pages, Idle
<1>2. CookiesSound /\ AnswersByPageOwner /\ GradedByAnswer
  BY DEF Init, CookiesSound, NoCookies, AnswersByPageOwner, GradedByAnswer
<1>3. TabsSound
  BY DEF Init, TabsSound, TabSound, PageSound, SetSound, Nothing, Blank
<1> QED
  BY <1>1, <1>2, <1>3 DEF IInv

(* Without a CSRF cookie there is no session either. *)
LEMMA NoCookieNoSession == ASSUME IInv, NeedsCsrfCookie PROVE ~ LiveSession
  BY DEF IInv, TypeOK, CookiesSound, NeedsCsrfCookie, LiveSession, Numbers

(* No number is drawn twice, and no session changes its user. *)
SessionsStay ==
    /\ issued' \in Numbers /\ issued <= issued' /\ guest \subseteq guest'
    /\ \A i \in DOMAIN sessions' : i \in 1 .. issued =>
          i \in DOMAIN sessions /\ sessions'[i] = sessions[i]

(* Then pages and responses that are there stay sound. *)
LEMMA PageKept ==
    ASSUME TypeOK, NEW p, PageSound(p), SessionsStay
    PROVE  PageSound(p)'
  BY MaxIssuedType DEF TypeOK, PageSound, Numbers, SessionsStay

LEMMA SetKept ==
    ASSUME NEW s, SetSound(s), SessionsStay
    PROVE  SetSound(s)'
<1>1. [csrf : guest] \subseteq [csrf : guest']
  BY DEF SessionsStay
<1> QED
  BY <1>1 DEF SetSound

LEMMA TabKept ==
    ASSUME IInv, SessionsStay, NEW t \in Tabs, page'[t] = page[t], wire'[t] = wire[t]
    PROVE  TabSound(t)'
  BY PageKept, SetKept DEF IInv, TabsSound, TabSound

(* A step that answers tab t keeps the tabs sound if its response is. *)
LEMMA Responded ==
    ASSUME IInv, SessionsStay, NEW t \in Tabs, NEW p, NEW s,
           Responds(t, p, s), UNCHANGED page, guest' \subseteq 1 .. issued',
           p \in Pages, PageSound(p)', SetSound(s)'
    PROVE  TabsSound' /\ wire' \in [Tabs -> Responses \cup {Nothing}]
<1> DEFINE r == [page |-> p, set |-> s]
<1>1. r \in Responses
  <2>1. guest' \subseteq Numbers
    BY MaxIssuedType DEF Numbers, SessionsStay
  <2>2. s \in {Kept} \cup [session : Numbers, csrf : Numbers] \cup [csrf : Numbers]
    BY <2>1 DEF SetSound
  <2> QED
    BY <2>2 DEF Responses
<1>2. r.page = p /\ r.set = s
  OBVIOUS
<1>3. wire' = [wire EXCEPT ![t] = r]
  BY DEF Responds
<1> HIDE DEF r
<1>4. wire'[t] = r /\ \A o \in Tabs \ {t} : wire'[o] = wire[o]
  BY <1>3 DEF IInv, TypeOK
<1>5. TabSound(t)'
  <2>1. PageSound(page[t])
    BY DEF IInv, TabsSound, TabSound
  <2>2. PageSound(page[t])'
    BY <2>1, PageKept DEF IInv
  <2> QED
    BY <1>2, <1>4, <2>2 DEF TabSound
<1>6. \A o \in Tabs \ {t} : TabSound(o)'
  BY <1>4, TabKept
<1> QED
  BY <1>1, <1>3, <1>5, <1>6 DEF TabsSound, IInv, TypeOK

LEMMA SimplePages ==
    /\ Blank \in Pages /\ PageSound(Blank) /\ PageSound(Blank)'
    /\ LoginForm \in Pages /\ PageSound(LoginForm) /\ PageSound(LoginForm)'
    /\ SetSound(Kept) /\ SetSound(Kept)'
  BY DEF Pages, PageSound, Blank, LoginForm, SetSound

LEMMA OpenLoginIInv == ASSUME IInv, NEW t \in Tabs, OpenLogin(t) PROVE IInv'
<1>1. UNCHANGED <<cookies, sessions, page, graded>>
  BY DEF OpenLogin
<1>2. CASE NeedsCsrfCookie
  <2>1. PICK n : /\ issued < MaxIssued /\ n = issued + 1 /\ issued' = n
                 /\ guest' = guest \cup {n} /\ Responds(t, LoginForm, [csrf |-> n])
    BY <1>2, NoCookieNoSession DEF OpenLogin
  <2>2. SessionsStay /\ guest' \subseteq 1 .. issued'
    BY <1>1, <2>1, MaxIssuedType DEF IInv, TypeOK, SessionsStay, Numbers
  <2>3. SetSound([csrf |-> n])'
    BY <2>1 DEF SetSound
  <2>4. TabsSound' /\ wire' \in [Tabs -> Responses \cup {Nothing}]
    BY <1>1, <2>1, <2>2, <2>3, SimplePages, Responded
  <2> QED
    BY <1>1, <2>1, <2>2, <2>4, MaxIssuedType
       DEF IInv, TypeOK, CookiesSound, AnswersByPageOwner, GradedByAnswer, SessionsStay, Numbers
<1>3. CASE ~ NeedsCsrfCookie
  <2>1. Responds(t, LoginForm, Kept) /\ UNCHANGED <<issued, guest>>
    BY <1>3 DEF OpenLogin
  <2>2. SessionsStay /\ guest' \subseteq 1 .. issued'
    BY <1>1, <2>1, MaxIssuedType DEF IInv, TypeOK, SessionsStay, Numbers
  <2>3. TabsSound' /\ wire' \in [Tabs -> Responses \cup {Nothing}]
    BY <1>1, <2>1, <2>2, SimplePages, Responded
  <2> QED
    BY <1>1, <2>1, <2>2, <2>3 DEF IInv, TypeOK, CookiesSound, AnswersByPageOwner, GradedByAnswer
<1> QED
  BY <1>2, <1>3

LEMMA PostLoginIInv == ASSUME IInv, NEW t \in Tabs, PostLogin(t) PROVE IInv'
<1>1. PICK n : \E u \in Users :
        /\ issued < MaxIssued /\ n = issued + 1 /\ issued' = n
        /\ sessions' = [i \in DOMAIN sessions \cup {n} |-> IF i = n THEN u ELSE sessions[i]]
        /\ Responds(t, Blank, [session |-> n, csrf |-> n])
        /\ UNCHANGED <<cookies, page, graded, guest>>
  BY DEF PostLogin
<1>2. issued \in Nat /\ n \in Numbers /\ n \notin 1 .. issued
  BY <1>1, MaxIssuedType DEF IInv, TypeOK, Numbers
<1>3. SessionsStay /\ guest' \subseteq 1 .. issued'
  BY <1>1, <1>2 DEF IInv, TypeOK, SessionsStay
<1>4. SetSound([session |-> n, csrf |-> n])'
  BY <1>2 DEF SetSound
<1>5. TabsSound' /\ wire' \in [Tabs -> Responses \cup {Nothing}]
  BY <1>1, <1>3, <1>4, SimplePages, Responded
<1>6. /\ DOMAIN sessions' \subseteq 1 .. issued'
      /\ \A i \in DOMAIN sessions' : sessions'[i] \in Users
  BY <1>1, <1>2 DEF IInv, TypeOK
<1> QED
  BY <1>1, <1>2, <1>3, <1>5, <1>6 DEF IInv, TypeOK, CookiesSound, AnswersByPageOwner, GradedByAnswer

LEMMA OpenQuizIInv == ASSUME IInv, NEW t \in Tabs, OpenQuiz(t) PROVE IInv'
<1>1. UNCHANGED <<cookies, sessions, issued, page, graded, guest>>
  BY DEF OpenQuiz
<1>2. SessionsStay /\ guest' \subseteq 1 .. issued'
  BY <1>1, MaxIssuedType DEF IInv, TypeOK, SessionsStay, Numbers
<1>3. PICK p : Responds(t, p, Kept) /\ p \in Pages /\ PageSound(p)
  <2>1. CASE LiveSession
    <3>1. PICK q \in Questions :
            Responds(t, [kind |-> "quiz", token |-> cookies.session,
                         user |-> sessions[cookies.session], question |-> q], Kept)
      BY <2>1 DEF OpenQuiz
    <3>2. /\ cookies.session \in Numbers \ {0} /\ cookies.session \in 1 .. issued
          /\ sessions[cookies.session] \in Users
      BY <2>1, MaxIssuedType DEF LiveSession, IInv, TypeOK, Numbers
    <3> DEFINE p == [kind |-> "quiz", token |-> cookies.session,
                     user |-> sessions[cookies.session], question |-> q]
    <3>3. p \in Pages
      BY <3>2 DEF Pages, QuizPages
    <3>4. PageSound(p)
      BY <3>2 DEF PageSound
    <3> QED
      BY <3>1, <3>3, <3>4
  <2>2. CASE ~ LiveSession
    BY <2>2, SimplePages DEF OpenQuiz
  <2> QED
    BY <2>1, <2>2
<1>4. PageSound(p)'
  BY <1>2, <1>3, PageKept DEF IInv
<1>5. TabsSound' /\ wire' \in [Tabs -> Responses \cup {Nothing}]
  BY <1>1, <1>2, <1>3, <1>4, SimplePages, Responded
<1> QED
  BY <1>1, <1>5 DEF IInv, TypeOK, CookiesSound, AnswersByPageOwner, GradedByAnswer

LEMMA Judged ==
    ASSUME NEW want, NEW form
    PROVE  /\ IsCorrect(want, BuildAnswerFromForm(want.type, form)) \in BOOLEAN
           /\ IsRight(want, form) \in BOOLEAN
  BY DEF IsCorrect, IsRight, SameEntries, EntrySetEqual

(* The token of the form, of the cookie and of the session are one, so the  *)
(* session is the one the page was drawn for.                               *)
LEMMA PostAnswerIInv == ASSUME IInv, NEW t \in Tabs, PostAnswer(t) PROVE IInv'
<1>1. UNCHANGED <<cookies, sessions, issued, page, guest>> /\ Responds(t, Blank, Kept)
  BY DEF PostAnswer
<1>2. SessionsStay /\ guest' \subseteq 1 .. issued'
  BY <1>1, MaxIssuedType DEF IInv, TypeOK, SessionsStay, Numbers
<1>3. TabsSound' /\ wire' \in [Tabs -> Responses \cup {Nothing}]
  BY <1>1, <1>2, SimplePages, Responded
<1>4. AnswersByPageOwner' /\ GradedByAnswer' /\ (graded' = Ungraded \/
        graded' \in [user : Users, pageOf : Users, type : QuestionType,
                     correct : BOOLEAN, right : BOOLEAN])
  <2>1. CASE LiveSession /\ CsrfPasses(page[t].token)
    <3> DEFINE want == Want[page[t].question]
    <3>1. PICK form \in Forms :
            graded' = [user |-> sessions[cookies.session], pageOf |-> page[t].user,
                       type |-> want.type,
                       correct |-> IsCorrect(want, BuildAnswerFromForm(want.type, form)),
                       right |-> IsRight(want, form)]
      BY <2>1 DEF PostAnswer
    <3>2. page[t].kind = "quiz" /\ page[t] \in Pages /\ PageSound(page[t])
      BY DEF PostAnswer, IInv, TypeOK, TabsSound, TabSound
    <3>3. page[t] \in QuizPages
      BY <3>2 DEF Pages, Blank, LoginForm
    <3>4. page[t].user \in Users /\ want.type \in QuestionType
      BY <3>3, BrowserAssumption DEF QuizPages
    <3>5. sessions[cookies.session] = page[t].user
      BY <2>1, <3>2 DEF LiveSession, CsrfPasses, PageSound
    <3>6. want.type \notin {"ledger", "slip"} =>
              (IsCorrect(want, BuildAnswerFromForm(want.type, form)) <=> IsRight(want, form))
      BY <3>3, GradingSound DEF QuizPages
    <3>7. /\ IsCorrect(want, BuildAnswerFromForm(want.type, form)) \in BOOLEAN
          /\ IsRight(want, form) \in BOOLEAN
      BY Judged
    <3> HIDE DEF want
    <3> QED
      BY <3>1, <3>4, <3>5, <3>6, <3>7 DEF AnswersByPageOwner, GradedByAnswer
  <2>2. CASE ~ (LiveSession /\ CsrfPasses(page[t].token))
    <3>1. UNCHANGED graded
      BY <2>2 DEF PostAnswer
    <3> QED
      BY <3>1 DEF IInv, TypeOK, AnswersByPageOwner, GradedByAnswer
  <2> QED
    BY <2>1, <2>2
<1> QED
  BY <1>1, <1>3, <1>4 DEF IInv, TypeOK, CookiesSound

LEMMA PostLogoutIInv == ASSUME IInv, NEW t \in Tabs, PostLogout(t) PROVE IInv'
<1>1. UNCHANGED <<cookies, issued, page, graded, guest>>
  BY DEF PostLogout
<1>2. PICK s : /\ Responds(t, Blank, s) /\ (s = Kept \/ s = NoCookies)
               /\ DOMAIN sessions' \subseteq DOMAIN sessions
               /\ \A i \in DOMAIN sessions' : sessions'[i] = sessions[i]
  BY DEF PostLogout, SessionEndsIfDeleted
<1>3. SessionsStay /\ guest' \subseteq 1 .. issued'
  BY <1>1, <1>2, MaxIssuedType DEF IInv, TypeOK, SessionsStay, Numbers
<1>4. SetSound(s)'
  BY <1>2, MaxIssuedType DEF SetSound, NoCookies, Numbers
<1>5. TabsSound' /\ wire' \in [Tabs -> Responses \cup {Nothing}]
  BY <1>1, <1>2, <1>3, <1>4, SimplePages, Responded
<1> QED
  BY <1>1, <1>2, <1>5 DEF IInv, TypeOK, CookiesSound, AnswersByPageOwner, GradedByAnswer

LEMMA DeliverIInv == ASSUME IInv, NEW t \in Tabs, Deliver(t) PROVE IInv'
<1>1. PICK r :
        /\ r = wire[t]
        /\ page' = [page EXCEPT ![t] = r.page] /\ wire' = [wire EXCEPT ![t] = Nothing]
        /\ UNCHANGED <<sessions, issued, graded, guest>>
  BY DEF Deliver
<1>2. r \in Responses /\ PageSound(r.page) /\ SetSound(r.set)
  BY <1>1 DEF Deliver, Idle, IInv, TypeOK, TabsSound, TabSound
<1>3. r.page \in Pages
  BY <1>2 DEF Responses
<1>4. SessionsStay /\ guest \subseteq Numbers
  BY <1>1, MaxIssuedType DEF IInv, TypeOK, SessionsStay, Numbers
<1>5. cookies' \in [session : Numbers, csrf : Numbers] /\ CookiesSound'
  <2>1. cookies' = [session |-> IF "session" \in DOMAIN r.set THEN r.set.session
                                ELSE cookies.session,
                    csrf |-> IF "csrf" \in DOMAIN r.set THEN r.set.csrf ELSE cookies.csrf]
    BY <1>1 DEF Deliver
  <2>2. CASE r.set = Kept
    BY <1>1, <2>1, <2>2 DEF Kept, IInv, TypeOK, CookiesSound
  <2>3. CASE r.set \in [session : Numbers, csrf : Numbers] /\ r.set.session = r.set.csrf
    BY <2>1, <2>3 DEF CookiesSound
  <2>4. CASE r.set \in [csrf : guest]
    BY <1>1, <1>4, <2>1, <2>4 DEF IInv, TypeOK, CookiesSound
  <2> QED
    BY <1>2, <2>2, <2>3, <2>4 DEF SetSound
<1>6. TabsSound'
  <2>1. /\ page'[t] = r.page /\ wire'[t] = Nothing
        /\ \A o \in Tabs \ {t} : page'[o] = page[o] /\ wire'[o] = wire[o]
    BY <1>1 DEF IInv, TypeOK
  <2>2. PageSound(r.page)'
    BY <1>2, <1>4, PageKept DEF IInv
  <2>3. TabSound(t)'
    BY <2>1, <2>2, SimplePages DEF TabSound, Nothing
  <2>4. \A o \in Tabs \ {t} : TabSound(o)'
    BY <1>4, <2>1, TabKept
  <2> QED
    BY <2>3, <2>4 DEF TabsSound
<1> QED
  BY <1>1, <1>3, <1>5, <1>6 DEF IInv, TypeOK, AnswersByPageOwner, GradedByAnswer

LEMMA EndSessionIInv == ASSUME IInv, EndSession PROVE IInv'
<1>1. /\ UNCHANGED <<cookies, issued, page, wire, graded, guest>>
      /\ DOMAIN sessions' \subseteq DOMAIN sessions
      /\ \A i \in DOMAIN sessions' : sessions'[i] = sessions[i]
  BY DEF EndSession
<1>2. SessionsStay
  BY <1>1 DEF IInv, TypeOK, SessionsStay, Numbers
<1>3. TabsSound'
  BY <1>1, <1>2, TabKept DEF TabsSound
<1> QED
  BY <1>1, <1>3 DEF IInv, TypeOK, CookiesSound, AnswersByPageOwner, GradedByAnswer

LEMMA NextIInv == IInv /\ [Next]_vars => IInv'
<1> SUFFICES ASSUME IInv, [Next]_vars PROVE IInv'
  OBVIOUS
<1>1. CASE Next
  BY <1>1, OpenLoginIInv, PostLoginIInv, OpenQuizIInv, PostAnswerIInv, PostLogoutIInv,
     DeliverIInv, EndSessionIInv DEF Next
<1>2. CASE UNCHANGED vars
  <2>1. SessionsStay
    BY <1>2 DEF vars, IInv, TypeOK, SessionsStay, Numbers
  <2>2. TabsSound'
    BY <1>2, <2>1, TabKept DEF vars, TabsSound
  <2> QED
    BY <1>2, <2>2 DEF vars, IInv, TypeOK, CookiesSound, AnswersByPageOwner, GradedByAnswer
<1> QED
  BY <1>1, <1>2

(* The inductive invariant holds in every reachable state: pages on show    *)
(* and on their way name sessions of their own users.                       *)
THEOREM BrowserInvariant == Spec => []IInv
  BY InitIInv, NextIInv, PTL DEF Spec

(* Cookies, pages and responses have their types. *)
THEOREM BrowserTypeCorrect == Spec => []TypeOK
<1>1. IInv => TypeOK
  BY DEF IInv
<1> QED
  BY <1>1, BrowserInvariant, PTL

(* An answer that passes the CSRF and Session middleware is recorded for    *)
(* the user whose page it was entered on.                                   *)
THEOREM AnswersBelongToPages == Spec => []AnswersByPageOwner
<1>1. IInv => AnswersByPageOwner
  BY DEF IInv
<1> QED
  BY <1>1, BrowserInvariant, PTL

(* The forms of a browser with a live session pass the CSRF check, unless   *)
(* a login page drawn for a browser without one set its cookie last.        *)
THEOREM FormsStayUsable == Spec => []FormsUsable
<1>1. IInv => FormsUsable
  BY DEF IInv, CookiesSound, FormsUsable
<1> QED
  BY <1>1, BrowserInvariant, PTL

(* Every answer to a question whose type fits its answer passes exactly if  *)
(* it is right: entries are compared as often as they occur, in any order,  *)
(* whatever blank rows there are and however accounts are written           *)
(* (IsCorrect, normalize, buildAnswerFromForm).                             *)
THEOREM AnswersAreGradedRightly == Spec => []GradedByAnswer
<1>1. IInv => GradedByAnswer
  BY DEF IInv
<1> QED
  BY <1>1, BrowserInvariant, PTL

-----------------------------------------------------------------------------
(* Sessions as credentials                                                  *)

LEMMA SessionsMayEnd ==
    ASSUME IInv, UNCHANGED issued, DOMAIN sessions' \subseteq DOMAIN sessions,
           \A i \in DOMAIN sessions' : sessions'[i] = sessions[i]
    PROVE  SessionTable!Next
<1> DEFINE ended == {i \in 1 .. MaxIssued : i \notin DOMAIN sessions'}
<1>1. SessionUser' = [i \in 1 .. MaxIssued |-> IF i \in ended THEN "nobody" ELSE SessionUser[i]]
  BY DEF SessionUser
<1>2. ended \in SUBSET (1 .. MaxIssued)
  OBVIOUS
<1> HIDE DEF ended
<1>3. SessionTable!End(ended)
  BY <1>1 DEF SessionTable!End
<1> QED
  BY <1>2, <1>3 DEF SessionTable!Next

(* A number that is drawn, for a session or for a login page, is a new one. *)
LEMMA NumberIsIssued ==
    ASSUME IInv, issued < MaxIssued, issued' = issued + 1,
           NEW user \in Users \cup {"nobody"},
           SessionUser' = [SessionUser EXCEPT ![issued + 1] = user]
    PROVE  SessionTable!Next
<1>1. issued \in Nat /\ MaxIssued \in Nat
  BY MaxIssuedType DEF IInv, TypeOK, Numbers
<1>2. issued + 1 \in 1 .. MaxIssued /\ issued + 1 \in issued + 1 .. MaxIssued
  BY <1>1
<1>3. (issued' + 1 .. MaxIssued) = (issued + 1 .. MaxIssued) \ {issued + 1}
  BY <1>1
<1>4. \E i \in 1 .. MaxIssued, w \in Users \cup {"nobody"} : SessionTable!Issue(i, w)
  BY <1>2, <1>3 DEF SessionTable!Issue
<1> QED
  BY <1>4 DEF SessionTable!Next

LEMMA SessionStep == ASSUME IInv, [Next]_vars PROVE SessionTable!Next
<1>1. /\ DOMAIN sessions \subseteq 1 .. issued /\ issued \in Nat /\ MaxIssued \in Nat
      /\ \A i \in DOMAIN sessions : sessions[i] \in Users
  BY MaxIssuedType DEF IInv, TypeOK, Numbers
<1>2. issued + 1 \notin DOMAIN sessions
  BY <1>1
<1>3. ASSUME UNCHANGED <<sessions, issued>> PROVE SessionTable!Next
  BY <1>3, SessionsMayEnd
<1>4. ASSUME NEW t \in Tabs, OpenLogin(t) PROVE SessionTable!Next
  <2>1. CASE UNCHANGED issued
    BY <1>3, <1>4, <2>1 DEF OpenLogin
  <2>2. CASE issued < MaxIssued /\ issued' = issued + 1
    <3>1. sessions' = sessions
      BY <1>4 DEF OpenLogin
    <3>2. SessionUser' = [SessionUser EXCEPT ![issued + 1] = "nobody"]
      BY <1>2, <3>1 DEF SessionUser
    <3> QED
      BY <2>2, <3>2, NumberIsIssued
  <2> QED
    BY <1>4, <2>1, <2>2 DEF OpenLogin
<1>5. ASSUME NEW t \in Tabs, PostLogin(t) PROVE SessionTable!Next
  <2>1. issued < MaxIssued /\ issued' = issued + 1
    BY <1>5 DEF PostLogin
  <2>2. PICK u \in Users : sessions' = [i \in DOMAIN sessions \cup {issued + 1} |->
                                         IF i = issued + 1 THEN u ELSE sessions[i]]
    BY <1>5, <2>1 DEF PostLogin
  <2>3. SessionUser' = [SessionUser EXCEPT ![issued + 1] = u]
    BY <2>2 DEF SessionUser
  <2> QED
    BY <2>1, <2>3, NumberIsIssued
<1>6. ASSUME NEW t \in Tabs, PostLogout(t) PROVE SessionTable!Next
  <2>1. DOMAIN sessions' \subseteq DOMAIN sessions
        /\ \A i \in DOMAIN sessions' : sessions'[i] = sessions[i]
    BY <1>6 DEF PostLogout, SessionEndsIfDeleted
  <2> QED
    BY <1>6, <2>1, SessionsMayEnd DEF PostLogout
<1>7. CASE EndSession
  <2>1. DOMAIN sessions' \subseteq DOMAIN sessions
        /\ \A i \in DOMAIN sessions' : sessions'[i] = sessions[i]
    BY <1>7 DEF EndSession
  <2> QED
    BY <1>7, <2>1, SessionsMayEnd DEF EndSession
<1>8. ASSUME \/ UNCHANGED vars
             \/ \E t \in Tabs : OpenQuiz(t) \/ PostAnswer(t) \/ Deliver(t)
      PROVE  SessionTable!Next
  <2>1. UNCHANGED <<sessions, issued>>
    BY <1>8 DEF OpenQuiz, PostAnswer, Deliver, vars
  <2> QED
    BY <1>3, <2>1
<1> QED
  BY <1>4, <1>5, <1>6, <1>7, <1>8 DEF Next

(* What the pages of a browser take for a session is one user's from its    *)
(* login on and never accepted after it ended: for any number of users,     *)
(* tabs and logins, and any order of the responses.                         *)
THEOREM BrowserSessionsAreCredentials == Spec => SessionsAreCredentials
<1>1. Init => SessionTable!Init
  BY MaxIssuedType DEF Init, SessionTable!Init, SessionUser
<1>2. IInv /\ [Next]_vars => [SessionTable!Next]_(SessionTable!vars)
  BY SessionStep
<1> QED
  BY <1>1, <1>2, BrowserInvariant, PTL DEF Spec, SessionsAreCredentials, SessionTable!Spec
=============================================================================
