-------------------------- MODULE RateLimitProofs --------------------------
(* The bounds of the three limiters, for every limit, window, capacity and *)
(* refill time, and any sequence of attempts, resets and sweeps, while the *)
(* clock is set back however often and far.                                *)
EXTENDS RateLimit, FiniteSetTheorems, TLAPS

(* Ranks make every grant a new member of granted and follow the time.     *)
(* Since a grant the clock shows no more than what has passed.             *)
Ranked ==
    /\ limiter \in {"sliding", "fixed", "bucket"}
    /\ clock \in Int
    /\ moved \in Nat
    /\ granted \in SUBSET Grant
    /\ IsFiniteSet(granted)
    /\ \A g \in granted :
          /\ g.n \in 1 .. Cardinality(granted)
          /\ g.moved <= moved
          /\ clock - g.at <= moved - g.moved
    /\ \A g, h \in granted : g.n <= h.n => g.moved <= h.moved

(* The events forgotten are out of the last window. *)
SlidingInv ==
    /\ entry \in SlidingEntry \cup {NoEntry}
    /\ Events \subseteq granted
    /\ \A g \in granted \ Events : moved - g.moved >= SlidingWindow
    /\ \A t \in 0 .. moved : Cardinality(GrantedBefore(t, SlidingWindow)) <= SlidingMax

(* The grants of one window length before a grant. *)
Earlier(g) == {h \in granted : h.n < g.n /\ h.moved > g.moved - FixedWindow}

(* The grants counted are those from one that opened the window, and those *)
(* of one window length before it are of one earlier window.               *)
FixedInv ==
    /\ entry \in FixedEntry \cup {NoEntry}
    /\ entry # NoEntry =>
          /\ entry.count <= FixedLimit
          /\ \E g \in granted :
                /\ g.at = entry.windowStart
                /\ Cardinality(From(g)) = entry.count
                /\ Cardinality(Earlier(g)) <= FixedLimit
    /\ entry = NoEntry => Cardinality(GrantedBefore(moved, FixedWindow)) <= FixedLimit
    /\ \A t \in 0 .. moved : Cardinality(GrantedBefore(t, FixedWindow)) <= 2 * FixedLimit

(* What was granted since an instant, or from a grant, in refill time. *)
Spent(s) == Period * Cardinality(GrantedSince(s))
SpentFrom(g) == Period * Cardinality(From(g))

NotBelow0(a) == IF a < 0 THEN 0 ELSE a

(* What a bucket may still give away that was not refilled since. *)
Credit ==
    NotBelow0(AtMost(NotBelow0(entry.tokens) + (clock - entry.lastFill), Burst))

(* The bucket holds no more than what capacity and refill leave of the     *)
(* grants since any instant, and exactly that, as the clock shows it, from *)
(* some grant that found it full.                                          *)
BucketInv ==
    /\ entry \in BucketEntry \cup {NoEntry}
    /\ entry # NoEntry =>
          /\ \A s \in 0 .. moved : Spent(s) + Credit <= Burst + (moved - s)
          /\ \E g \in granted :
                SpentFrom(g) + entry.tokens = Burst + (entry.lastFill - g.at)
    /\ entry = NoEntry => \A s \in 0 .. moved : Spent(s) <= moved - s

IInv ==
    /\ Ranked
    /\ limiter = "sliding" => SlidingInv
    /\ limiter = "fixed" => FixedInv
    /\ limiter = "bucket" => BucketInv

-----------------------------------------------------------------------------

(* What a limiter counts is finite, and a part is not larger. *)
LEMMA Counted ==
    ASSUME Ranked
    PROVE  /\ \A S : S \subseteq granted => IsFiniteSet(S) /\ Cardinality(S) \in Nat
           /\ \A S, R : S \subseteq R /\ R \subseteq granted => Cardinality(S) <= Cardinality(R)
<1>1. ASSUME NEW S, S \subseteq granted PROVE IsFiniteSet(S) /\ Cardinality(S) \in Nat
  BY <1>1, FS_Subset, FS_CardinalityType DEF Ranked
<1>2. ASSUME NEW S, NEW R, S \subseteq R, R \subseteq granted
      PROVE Cardinality(S) <= Cardinality(R)
  BY <1>1, <1>2, FS_Subset
<1> QED
  BY <1>1, <1>2

(* A grant adds one member, and keeps granted ranked. *)
LEMMA GrantAdds ==
    ASSUME Ranked, Grants, UNCHANGED <<limiter, times>>
    PROVE  /\ NewGrant \in Grant
           /\ NewGrant.at = clock
           /\ NewGrant.moved = moved
           /\ NewGrant \notin granted
           /\ \A g \in granted : g.n < NewGrant.n
           /\ Ranked'
           /\ \A S : S \subseteq granted =>
                        Cardinality(S \cup {NewGrant}) = Cardinality(S) + 1
<1>1. Cardinality(granted) \in Nat
  BY FS_CardinalityType DEF Ranked
<1>2. /\ NewGrant \in Grant /\ NewGrant.n = Cardinality(granted) + 1
      /\ NewGrant.at = clock /\ NewGrant.moved = moved
  BY <1>1 DEF NewGrant, Grant, Ranked
<1>3. (\A g \in granted : g.n < NewGrant.n) /\ NewGrant \notin granted
  BY <1>1, <1>2 DEF Ranked, Grant
<1>4. ASSUME NEW S, S \subseteq granted
      PROVE  IsFiniteSet(S \cup {NewGrant}) /\ Cardinality(S \cup {NewGrant}) = Cardinality(S) + 1
  BY <1>3, <1>4, Counted, FS_AddElement
<1>5. /\ IsFiniteSet(granted') /\ Cardinality(granted') = Cardinality(granted) + 1
      /\ granted' = granted \cup {NewGrant}
  BY <1>4 DEF Grants
<1>6. Ranked'
  <2>1. limiter' = limiter /\ clock' = clock /\ moved' = moved
    BY DEF times
  <2>2. ASSUME NEW g \in granted'
        PROVE  /\ g.n \in 1 .. Cardinality(granted')
               /\ g.moved <= moved
               /\ clock - g.at <= moved - g.moved
    <3>1. CASE g \in granted
      BY <1>1, <1>5, <3>1 DEF Ranked, Grant
    <3>2. CASE g = NewGrant
      BY <1>1, <1>2, <1>5, <3>2 DEF Ranked
    <3> QED
      BY <1>5, <3>1, <3>2
  <2>3. ASSUME NEW g \in granted', NEW h \in granted', g.n <= h.n
        PROVE  g.moved <= h.moved
    <3>1. CASE h = NewGrant
      BY <1>2, <2>2, <3>1
    <3>2. CASE h # NewGrant
      BY <1>1, <1>2, <1>3, <1>5, <2>3, <3>2 DEF Ranked, Grant
    <3> QED
      BY <3>1, <3>2
  <2> QED
    BY <1>2, <1>5, <2>1, <2>2, <2>3 DEF Ranked
<1> QED
  BY <1>2, <1>3, <1>4, <1>6

(* The sets the bounds count, after a grant. *)
LEMMA GrantParts ==
    ASSUME Ranked, Grants, UNCHANGED <<limiter, times>>
    PROVE  /\ \A w \in Nat \ {0} :
                  GrantedBefore(moved, w)' = GrantedBefore(moved, w) \cup {NewGrant}
           /\ \A w \in Nat, t \in Int : t < moved => GrantedBefore(t, w)' = GrantedBefore(t, w)
           /\ \A s \in Int : s <= moved => GrantedSince(s)' = GrantedSince(s) \cup {NewGrant}
           /\ \A g \in granted : From(g)' = From(g) \cup {NewGrant} /\ Earlier(g)' = Earlier(g)
           /\ \A g : g = NewGrant =>
                  From(g)' = {g} /\ Earlier(g)' = GrantedBefore(moved, FixedWindow)
<1>1. /\ granted' = granted \cup {NewGrant}
      /\ NewGrant \in Grant /\ NewGrant.moved = moved /\ NewGrant \notin granted
      /\ \A g \in granted : g \in Grant /\ g.n < NewGrant.n /\ g.moved <= moved
      /\ moved \in Nat /\ moved' = moved
  BY GrantAdds DEF Grants, Ranked, times
<1>2. /\ \A w \in Nat \ {0} :
             GrantedBefore(moved, w)' = GrantedBefore(moved, w) \cup {NewGrant}
      /\ \A w \in Nat, t \in Int : t < moved => GrantedBefore(t, w)' = GrantedBefore(t, w)
  BY <1>1 DEF GrantedBefore, Grant
<1>3. \A s \in Int : s <= moved => GrantedSince(s)' = GrantedSince(s) \cup {NewGrant}
  BY <1>1 DEF GrantedSince, Grant
<1>4. ASSUME NEW g \in granted
      PROVE  From(g)' = From(g) \cup {NewGrant} /\ Earlier(g)' = Earlier(g)
  BY <1>1, RateLimitAssumption DEF From, Earlier, Grant
<1>5. ASSUME NEW g, g = NewGrant
      PROVE  From(g)' = {g} /\ Earlier(g)' = GrantedBefore(moved, FixedWindow)
  BY <1>1, <1>5, RateLimitAssumption DEF From, Earlier, GrantedBefore, Grant
<1> QED
  BY <1>2, <1>3, <1>4, <1>5

LEMMA InitIInv == Init => IInv
<1> SUFFICES ASSUME Init PROVE IInv
  OBVIOUS
<1>1. IsFiniteSet({}) /\ Cardinality({}) = 0
  BY FS_EmptySet
<1>2. Ranked
  BY <1>1 DEF Init, Ranked
<1>3. /\ \A t, w : GrantedBefore(t, w) = {}
      /\ GrantedBefore(moved, FixedWindow) = {}
      /\ \A s : GrantedSince(s) = {}
  BY DEF Init, GrantedBefore, GrantedSince
<1>4. SlidingInv
  BY <1>1, <1>3, RateLimitAssumption DEF Init, SlidingInv, Events
<1>5. FixedInv
  BY <1>1, <1>3, RateLimitAssumption DEF Init, FixedInv, FixedLimit
<1>6. BucketInv
  BY <1>1, <1>3, RateLimitAssumption DEF Init, BucketInv, Spent
<1> QED
  BY <1>2, <1>4, <1>5, <1>6 DEF IInv

-----------------------------------------------------------------------------
(* SlidingWindow: pruning and sweeping forget only events that are out of  *)
(* every window to come.                                                   *)

LEMMA PrunedForgets ==
    ASSUME Ranked, SlidingInv
    PROVE  /\ Pruned \subseteq granted
           /\ \A g \in granted \ Pruned : moved - g.moved >= SlidingWindow
           /\ GrantedBefore(moved, SlidingWindow) \subseteq Pruned
<1> USE RateLimitAssumption
<1>1. Pruned \subseteq granted
  BY DEF Pruned, Younger, SlidingInv
<1>2. ASSUME NEW g \in granted \ Pruned PROVE moved - g.moved >= SlidingWindow
  BY <1>2 DEF Pruned, Younger, SlidingInv, Ranked, Grant
<1>3. GrantedBefore(moved, SlidingWindow) \subseteq Pruned
  BY <1>2 DEF GrantedBefore, Ranked, Grant
<1> QED
  BY <1>1, <1>2, <1>3

LEMMA SlidingGrantPasses ==
    ASSUME IInv, limiter = "sliding", SlidingGranted, UNCHANGED <<limiter, times>>
    PROVE  IInv'
<1> USE RateLimitAssumption
<1>0. /\ SlidingInv /\ Ranked /\ Grants /\ moved' = moved
      /\ Cardinality(Pruned) < SlidingMax
      /\ entry' = [events |-> Pruned \cup {NewGrant}]
  BY DEF IInv, SlidingGranted, times
<1>1. Ranked' /\ NewGrant \in Grant /\ granted' = granted \cup {NewGrant}
  BY <1>0, GrantAdds DEF Grants
<1>2. /\ Pruned \subseteq granted
      /\ \A g \in granted \ Pruned : moved - g.moved >= SlidingWindow
      /\ GrantedBefore(moved, SlidingWindow) \subseteq Pruned
  BY <1>0, PrunedForgets
<1>3. entry' \in SlidingEntry /\ entry' # NoEntry /\ entry'.events = Pruned \cup {NewGrant}
  BY <1>0, <1>1, <1>2 DEF SlidingEntry, Ranked, Entry
<1>4. /\ Events' \subseteq granted'
      /\ \A g \in granted' \ Events' : moved' - g.moved >= SlidingWindow
  BY <1>0, <1>1, <1>2, <1>3 DEF Events
<1>5. /\ Cardinality(GrantedBefore(moved, SlidingWindow)) \in Nat
      /\ Cardinality(GrantedBefore(moved, SlidingWindow)) < SlidingMax
  <2>1. /\ Cardinality(GrantedBefore(moved, SlidingWindow)) <= Cardinality(Pruned)
        /\ Cardinality(GrantedBefore(moved, SlidingWindow)) \in Nat
        /\ Cardinality(Pruned) \in Nat
    BY <1>0, <1>2, Counted
  <2> QED
    BY <1>0, <2>1
<1>6. ASSUME NEW t \in 0 .. moved
      PROVE  Cardinality(GrantedBefore(t, SlidingWindow)') <= SlidingMax
  <2>1. CASE t = moved
    <3>1. Cardinality(GrantedBefore(t, SlidingWindow)')
            = Cardinality(GrantedBefore(moved, SlidingWindow)) + 1
      BY <1>0, <1>2, <2>1, GrantAdds, GrantParts
    <3> QED
      BY <1>5, <3>1
  <2>2. CASE t # moved
    BY <1>0, <2>2, GrantParts DEF SlidingInv, Ranked
  <2> QED
    BY <2>1, <2>2
<1>7. SlidingInv'
  BY <1>0, <1>3, <1>4, <1>6 DEF SlidingInv
<1> QED
  BY <1>1, <1>7 DEF IInv

(* Refusals and sweeps. *)
LEMMA SlidingForgetsPasses ==
    ASSUME IInv, limiter = "sliding", SlidingRefused \/ SlidingSweep,
           UNCHANGED <<limiter, times, granted>>
    PROVE  IInv'
<1> USE RateLimitAssumption
<1>0. SlidingInv /\ Ranked /\ UNCHANGED <<limiter, clock, moved, granted>>
  BY DEF IInv, times
<1>1. /\ Pruned \subseteq granted
      /\ \A g \in granted \ Pruned : moved - g.moved >= SlidingWindow
  BY <1>0, PrunedForgets
<1>2. /\ entry' \in SlidingEntry \cup {NoEntry}
      /\ Events' \subseteq granted
      /\ \A g \in granted \ Events' : moved - g.moved >= SlidingWindow
  <2>1. CASE SlidingRefused
    <3>1. entry' = [events |-> Pruned] /\ entry' \in SlidingEntry
      BY <1>0, <1>1, <2>1 DEF SlidingRefused, SlidingEntry, Ranked
    <3>2. entry' # NoEntry
      BY <3>1 DEF Entry
    <3> QED
      BY <1>1, <3>1, <3>2 DEF Events
  <2>2. CASE SlidingSweep
    <3>1. entry' = NoEntry /\ Events' = {} /\ SlidingIdle
      BY <2>2 DEF SlidingSweep, Events
    <3>2. ASSUME NEW g \in Events PROVE moved - g.moved >= SlidingWindow
      <4>1. PICK last \in Events :
                (\A h \in Events : h.n <= last.n) /\ last.at <= clock - SlidingWindow
        BY <3>1, <3>2 DEF SlidingIdle
      <4> QED
        BY <1>0, <4>1, <3>2 DEF SlidingInv, Ranked, Grant
    <3> QED
      BY <1>0, <3>1, <3>2 DEF SlidingInv
  <2> QED
    BY <2>1, <2>2
<1>3. SlidingInv' /\ Ranked'
  BY <1>0, <1>2 DEF SlidingInv, Ranked, GrantedBefore
<1> QED
  BY <1>3 DEF IInv

-----------------------------------------------------------------------------
(* FixedWindow: windows open at least one length apart, so a stretch of    *)
(* that length meets two of them.                                          *)

(* Of the last window length an entry has counted all but the grants of    *)
(* the window before, and all if its window is over.                       *)
LEMMA FixedRecent ==
    ASSUME Ranked, FixedInv, entry # NoEntry
    PROVE  /\ Cardinality(GrantedBefore(moved, FixedWindow)) <= FixedLimit + entry.count
           /\ FixedFresh => Cardinality(GrantedBefore(moved, FixedWindow)) <= FixedLimit
<1> USE RateLimitAssumption
<1>0. entry \in FixedEntry /\ entry.windowStart \in Int /\ entry.count \in Nat
  BY DEF FixedInv, FixedEntry
<1>1. PICK g \in granted :
          /\ g.at = entry.windowStart
          /\ Cardinality(From(g)) = entry.count
          /\ Cardinality(Earlier(g)) <= FixedLimit
  BY DEF FixedInv
<1>2. /\ From(g) \subseteq granted /\ Earlier(g) \subseteq granted
      /\ GrantedBefore(moved, FixedWindow) \subseteq granted
      /\ GrantedBefore(moved, FixedWindow) \subseteq From(g) \cup Earlier(g)
  BY <1>1 DEF From, Earlier, GrantedBefore, Ranked, Grant
<1>3. Cardinality(GrantedBefore(moved, FixedWindow)) <= FixedLimit + entry.count
  <2>1. /\ IsFiniteSet(From(g)) /\ IsFiniteSet(Earlier(g))
        /\ Cardinality(Earlier(g)) \in Nat /\ Cardinality(From(g) \cap Earlier(g)) \in Nat
    BY <1>2, Counted
  <2>2. Cardinality(From(g) \cup Earlier(g))
          = Cardinality(From(g)) + Cardinality(Earlier(g)) - Cardinality(From(g) \cap Earlier(g))
    BY <2>1, FS_Union
  <2>3. /\ Cardinality(GrantedBefore(moved, FixedWindow)) <= Cardinality(From(g) \cup Earlier(g))
        /\ Cardinality(GrantedBefore(moved, FixedWindow)) \in Nat
    BY <1>2, Counted
  <2> QED
    BY <1>0, <1>1, <2>1, <2>2, <2>3 DEF FixedLimit
<1>4. ASSUME FixedFresh
      PROVE  Cardinality(GrantedBefore(moved, FixedWindow)) <= FixedLimit
  <2>1. moved - g.moved >= FixedWindow
    BY <1>0, <1>1, <1>4 DEF FixedFresh, Ranked, Grant
  <2>2. GrantedBefore(moved, FixedWindow) \subseteq From(g)
    BY <1>1, <2>1 DEF GrantedBefore, From, Ranked, Grant
  <2>3. /\ Cardinality(GrantedBefore(moved, FixedWindow)) <= Cardinality(From(g))
        /\ Cardinality(GrantedBefore(moved, FixedWindow)) \in Nat
    BY <1>2, <2>2, Counted
  <2> QED
    BY <1>0, <1>1, <2>3 DEF FixedInv, FixedLimit
<1> QED
  BY <1>3, <1>4

(* A grant keeps the bound, if there is room for it. *)
LEMMA FixedGrantBound ==
    ASSUME Ranked, FixedInv, Grants, UNCHANGED <<limiter, times>>,
           Cardinality(GrantedBefore(moved, FixedWindow)) < 2 * FixedLimit
    PROVE  \A t \in 0 .. moved : Cardinality(GrantedBefore(t, FixedWindow)') <= 2 * FixedLimit
<1> USE RateLimitAssumption
<1>1. SUFFICES ASSUME NEW t \in 0 .. moved
               PROVE  Cardinality(GrantedBefore(t, FixedWindow)') <= 2 * FixedLimit
  OBVIOUS
<1>2. CASE t = moved
  <2>1. GrantedBefore(moved, FixedWindow) \subseteq granted
    BY DEF GrantedBefore
  <2>2. /\ Cardinality(GrantedBefore(t, FixedWindow)')
             = Cardinality(GrantedBefore(moved, FixedWindow)) + 1
        /\ Cardinality(GrantedBefore(moved, FixedWindow)) \in Nat
    <3>1. moved' = moved
      BY DEF times
    <3>2. GrantedBefore(t, FixedWindow)' = GrantedBefore(moved, FixedWindow) \cup {NewGrant}
      BY <1>2, <3>1, GrantParts
    <3> QED
      BY <2>1, <3>2, Counted, GrantAdds
  <2> QED
    BY <2>2 DEF FixedLimit
<1>3. CASE t # moved
  BY <1>3, GrantParts DEF FixedInv, Ranked
<1> QED
  BY <1>2, <1>3

(* An attempt that opens a window. *)
LEMMA FixedOpensPasses ==
    ASSUME IInv, limiter = "fixed", FixedOpens, UNCHANGED <<limiter, times>>
    PROVE  IInv'
<1> USE RateLimitAssumption
<1>0. /\ FixedInv /\ Ranked /\ Grants /\ FixedFresh /\ moved' = moved
      /\ entry' = [windowStart |-> clock, count |-> 1]
      /\ entry' \in FixedEntry /\ entry' # NoEntry
  BY DEF IInv, FixedOpens, FixedEntry, Ranked, Entry, times
<1>1. Ranked' /\ NewGrant.at = clock /\ NewGrant \in granted'
  BY <1>0, GrantAdds DEF Grants
<1>2. Cardinality(GrantedBefore(moved, FixedWindow)) <= FixedLimit
  BY <1>0, FixedRecent DEF FixedInv
<1>3. \A t \in 0 .. moved : Cardinality(GrantedBefore(t, FixedWindow)') <= 2 * FixedLimit
  <2>1. GrantedBefore(moved, FixedWindow) \subseteq granted
    BY DEF GrantedBefore
  <2>2. Cardinality(GrantedBefore(moved, FixedWindow)) \in Nat
    BY <1>0, <2>1, Counted
  <2>3. Cardinality(GrantedBefore(moved, FixedWindow)) < 2 * FixedLimit
    BY <1>2, <2>2 DEF FixedLimit
  <2> QED
    BY <1>0, <2>3, FixedGrantBound
<1>4. PICK g \in granted' : g = NewGrant
  BY <1>1
<1>5. From(g)' = {g} /\ Earlier(g)' = GrantedBefore(moved, FixedWindow)
  BY <1>0, <1>4, GrantParts
<1>6. Cardinality(From(g)') = 1
  BY <1>5, FS_Singleton
<1>7. FixedInv'
  <2>1. \E h \in granted' :
            /\ h.at = entry'.windowStart
            /\ Cardinality(From(h)') = entry'.count
            /\ Cardinality(Earlier(h)') <= FixedLimit
    BY <1>0, <1>1, <1>2, <1>4, <1>5, <1>6
  <2> QED
    BY <1>0, <1>3, <2>1 DEF FixedInv, FixedLimit
<1> QED
  BY <1>1, <1>7 DEF IInv

(* A further attempt of a window. *)
LEMMA FixedCountsPasses ==
    ASSUME IInv, limiter = "fixed", ~ FixedFresh, ~ FixedLocked, Grants, FixedCounts,
           UNCHANGED <<limiter, times>>
    PROVE  IInv'
<1> USE RateLimitAssumption
<1>0. /\ FixedInv /\ Ranked /\ entry \in FixedEntry /\ entry # NoEntry
      /\ entry.count \in Nat /\ entry.count < FixedMax /\ moved' = moved
  BY DEF IInv, FixedFresh, FixedLocked, FixedInv, FixedEntry, times
<1>1. Ranked' /\ granted \subseteq granted'
  BY <1>0, GrantAdds DEF Grants
<1>2. /\ entry' \in FixedEntry /\ entry' # NoEntry
      /\ entry'.windowStart = entry.windowStart
      /\ entry'.count = entry.count + 1
      /\ entry.count < FixedLimit
  BY <1>0 DEF FixedCounts, FixedEntry, FixedLimit, Entry
<1>3. \A t \in 0 .. moved : Cardinality(GrantedBefore(t, FixedWindow)') <= 2 * FixedLimit
  <2>1. GrantedBefore(moved, FixedWindow) \subseteq granted
    BY DEF GrantedBefore
  <2>2. /\ Cardinality(GrantedBefore(moved, FixedWindow)) \in Nat
        /\ Cardinality(GrantedBefore(moved, FixedWindow)) <= FixedLimit + entry.count
    BY <1>0, <2>1, Counted, FixedRecent
  <2>3. Cardinality(GrantedBefore(moved, FixedWindow)) < 2 * FixedLimit
    BY <1>0, <1>2, <2>2 DEF FixedLimit
  <2> QED
    BY <1>0, <2>3, FixedGrantBound
<1>4. PICK g \in granted :
          /\ g.at = entry.windowStart
          /\ Cardinality(From(g)) = entry.count
          /\ Cardinality(Earlier(g)) <= FixedLimit
  BY <1>0 DEF FixedInv
<1>5. From(g)' = From(g) \cup {NewGrant} /\ Earlier(g)' = Earlier(g) /\ From(g) \subseteq granted
  BY <1>0, <1>4, GrantParts DEF From
<1>6. Cardinality(From(g)') = entry.count + 1
  BY <1>0, <1>4, <1>5, GrantAdds
<1>7. FixedInv'
  <2>1. \E h \in granted' :
            /\ h.at = entry'.windowStart
            /\ Cardinality(From(h)') = entry'.count
            /\ Cardinality(Earlier(h)') <= FixedLimit
    BY <1>1, <1>2, <1>4, <1>5, <1>6
  <2>2. entry'.count <= FixedLimit
    BY <1>0, <1>2 DEF FixedLimit
  <2> QED
    BY <1>0, <1>2, <1>3, <2>1, <2>2 DEF FixedInv, FixedLimit
<1> QED
  BY <1>1, <1>7 DEF IInv

(* Resets and sweeps. *)
LEMMA FixedForgetsPasses ==
    ASSUME IInv, limiter = "fixed", FixedReset \/ FixedSweep
    PROVE  IInv'
<1> USE RateLimitAssumption
<1>0. FixedInv /\ Ranked /\ entry' = NoEntry /\ UNCHANGED <<limiter, clock, moved>>
  BY DEF IInv, FixedReset, FixedSweep, times
<1>1. CASE FixedReset
  <2>1. granted' = {} /\ IsFiniteSet({}) /\ Cardinality({}) = 0
    BY <1>1, FS_EmptySet DEF FixedReset
  <2>2. /\ \A t \in 0 .. moved : GrantedBefore(t, FixedWindow)' = {}
        /\ GrantedBefore(moved, FixedWindow)' = {}
    BY <1>0, <2>1 DEF GrantedBefore
  <2>3. Ranked'
    BY <1>0, <2>1 DEF Ranked
  <2>4. FixedInv'
    <3>1. /\ Cardinality(GrantedBefore(moved, FixedWindow)') <= FixedLimit
          /\ \A t \in 0 .. moved' :
                Cardinality(GrantedBefore(t, FixedWindow)') <= 2 * FixedLimit
      <4>1. FixedLimit \in Nat
        BY DEF FixedLimit
      <4>2. moved' = moved
        BY <1>0
      <4>3. ASSUME NEW t \in 0 .. moved
            PROVE  Cardinality(GrantedBefore(t, FixedWindow)') = 0
        <5>1. GrantedBefore(t, FixedWindow)' = {}
          BY <2>2
        <5> QED
          BY <2>1, <5>1
      <4>4. Cardinality(GrantedBefore(moved, FixedWindow)') = 0
        BY <2>1, <2>2
      <4> QED
        BY <4>1, <4>2, <4>3, <4>4
    <3> QED
      BY <1>0, <3>1 DEF FixedInv, FixedLimit
  <2> QED
    BY <1>0, <2>3, <2>4 DEF IInv
<1>2. CASE FixedSweep
  <2>1. granted' = granted /\ entry # NoEntry /\ FixedFresh
    BY <1>0, <1>2 DEF FixedSweep, FixedFresh, FixedInv, FixedEntry, Ranked
  <2>2. Cardinality(GrantedBefore(moved, FixedWindow)) <= FixedLimit
    BY <1>0, <2>1, FixedRecent
  <2>3. FixedInv' /\ Ranked'
    BY <1>0, <2>1, <2>2 DEF FixedInv, Ranked, GrantedBefore
  <2> QED
    BY <1>0, <2>3 DEF IInv
<1> QED
  BY <1>1, <1>2

-----------------------------------------------------------------------------
(* TokenBucket: what the bucket may still give away and what was granted   *)
(* since any instant together stay within capacity and refill.             *)

LEMMA SpentIsNat ==
    ASSUME Ranked
    PROVE  /\ \A s : Spent(s) \in Nat
           /\ \A g : SpentFrom(g) \in Nat
<1>1. \A n \in Nat : Period * n \in Nat
  BY RateLimitAssumption
<1>2. ASSUME NEW s PROVE Cardinality(GrantedSince(s)) \in Nat
  <2>1. GrantedSince(s) \subseteq granted
    BY DEF GrantedSince
  <2> QED
    BY <2>1, Counted
<1>3. ASSUME NEW g PROVE Cardinality(From(g)) \in Nat
  <2>1. From(g) \subseteq granted
    BY DEF From
  <2> QED
    BY <2>1, Counted
<1> QED
  BY <1>1, <1>2, <1>3 DEF Spent, SpentFrom

LEMMA SpentAdds ==
    ASSUME Ranked, Grants, UNCHANGED <<limiter, times>>
    PROVE  /\ \A s \in Int : s <= moved => Spent(s)' = Spent(s) + Period
           /\ \A g \in granted : SpentFrom(g)' = SpentFrom(g) + Period
           /\ \A g : g = NewGrant => SpentFrom(g)' = Period
<1>1. /\ \A n \in Nat : Period * (n + 1) = Period * n + Period
      /\ Period * 1 = Period
  BY RateLimitAssumption
<1>2. ASSUME NEW S, NEW R, S \subseteq granted, R = S \cup {NewGrant}
      PROVE  Period * Cardinality(R) = Period * Cardinality(S) + Period
  <2>1. Cardinality(S) \in Nat /\ Cardinality(R) = Cardinality(S) + 1
    BY <1>2, Counted, GrantAdds
  <2> QED
    BY <1>1, <2>1
<1>3. ASSUME NEW s \in Int, s <= moved PROVE Spent(s)' = Spent(s) + Period
  <2>1. GrantedSince(s) \subseteq granted /\ GrantedSince(s)' = GrantedSince(s) \cup {NewGrant}
    BY <1>3, GrantParts DEF GrantedSince
  <2> QED
    BY <1>2, <2>1 DEF Spent
<1>4. ASSUME NEW g \in granted PROVE SpentFrom(g)' = SpentFrom(g) + Period
  <2>1. From(g) \subseteq granted /\ From(g)' = From(g) \cup {NewGrant}
    BY GrantParts DEF From
  <2> QED
    BY <1>2, <2>1 DEF SpentFrom
<1>5. ASSUME NEW g, g = NewGrant PROVE SpentFrom(g)' = Period
  <2>1. From(g)' = {g}
    BY <1>5, GrantParts
  <2>2. Cardinality(From(g)') = 1
    BY <2>1, FS_Singleton
  <2> QED
    BY <1>1, <2>2 DEF SpentFrom
<1> QED
  BY <1>3, <1>4, <1>5

(* What an entry holds, in numbers. *)
LEMMA BucketNumbers ==
    ASSUME Ranked, BucketInv, entry # NoEntry
    PROVE  /\ entry.tokens \in Int /\ entry.tokens <= Burst /\ entry.lastFill \in Int
           /\ Filled \in Int /\ Filled <= Burst /\ Filled <= Credit
           /\ Filled # Burst => Filled = entry.tokens + (clock - entry.lastFill)
           /\ Credit \in 0 .. Burst
           /\ clock - entry.lastFill >= Burst => Credit = Burst
<1>1. /\ entry.tokens \in Int /\ entry.tokens <= Burst /\ entry.lastFill \in Int
      /\ clock \in Int /\ Burst \in Nat
  BY RateLimitAssumption DEF BucketInv, BucketEntry, Ranked
<1> QED
  BY <1>1 DEF Filled, Credit, AtMost, NotBelow0

(* What an Allow leaves in the bucket. *)
LEMMA BucketFilled ==
    ASSUME NEW b \in Int, b <= Burst, entry' = [tokens |-> b, lastFill |-> clock],
           clock \in Int, clock' = clock
    PROVE  /\ entry' \in BucketEntry /\ entry' # NoEntry
           /\ entry'.tokens = b /\ entry'.lastFill = clock
           /\ Credit' = NotBelow0(b)
<1> USE RateLimitAssumption
<1>1. /\ entry' \in BucketEntry /\ entry' # NoEntry
      /\ entry'.tokens = b /\ entry'.lastFill = clock
  BY DEF BucketEntry, Entry
<1>2. NotBelow0(AtMost(NotBelow0(b) + (clock - clock), Burst)) = NotBelow0(b)
  BY DEF NotBelow0, AtMost
<1> QED
  BY <1>1, <1>2 DEF Credit

LEMMA BucketOpensPasses ==
    ASSUME IInv, limiter = "bucket", BucketOpens, UNCHANGED <<limiter, times>>
    PROVE  IInv'
<1> USE RateLimitAssumption
<1>0. /\ BucketInv /\ Ranked /\ Grants /\ entry = NoEntry
      /\ clock \in Int /\ moved \in Nat /\ clock' = clock /\ moved' = moved
      /\ entry' = [tokens |-> Burst - Period, lastFill |-> clock]
  BY DEF IInv, Ranked, BucketOpens, times
<1>1. /\ Burst - Period \in Nat /\ Burst - Period <= Burst
      /\ NotBelow0(Burst - Period) = Burst - Period
  BY DEF NotBelow0
<1>2. /\ entry' \in BucketEntry /\ entry' # NoEntry
      /\ entry'.tokens = Burst - Period /\ entry'.lastFill = clock
      /\ Credit' = Burst - Period
  BY <1>0, <1>1, BucketFilled
<1>3. Ranked' /\ NewGrant \in granted' /\ NewGrant.at = clock
  BY <1>0, GrantAdds DEF Grants
<1>4. \A s \in 0 .. moved : Spent(s)' + (Burst - Period) <= Burst + (moved - s)
  <2>1. ASSUME NEW s \in 0 .. moved
        PROVE  Spent(s) \in Nat /\ Spent(s) <= moved - s /\ Spent(s)' = Spent(s) + Period
    BY <1>0, SpentIsNat, SpentAdds DEF BucketInv
  <2> QED
    BY <1>0, <2>1
<1>5. \E g \in granted' : SpentFrom(g)' + entry'.tokens = Burst + (entry'.lastFill - g.at)
  <2>1. PICK g \in granted' : g = NewGrant
    BY <1>3
  <2>2. SpentFrom(g)' = Period
    BY <1>0, <2>1, SpentAdds
  <2> QED
    BY <1>0, <1>2, <1>3, <2>1, <2>2
<1>6. BucketInv'
  BY <1>0, <1>2, <1>4, <1>5 DEF BucketInv
<1> QED
  BY <1>3, <1>6 DEF IInv

LEMMA BucketGrantedPasses ==
    ASSUME IInv, limiter = "bucket", BucketGranted, UNCHANGED <<limiter, times>>
    PROVE  IInv'
<1> USE RateLimitAssumption
<1>0. /\ BucketInv /\ Ranked /\ Grants /\ entry # NoEntry /\ Filled >= Period
      /\ clock \in Int /\ moved \in Nat /\ clock' = clock /\ moved' = moved
      /\ entry' = [tokens |-> Filled - Period, lastFill |-> clock]
  BY DEF IInv, Ranked, BucketGranted, times
<1>1. PICK filled \in Period .. Burst :
        /\ filled = Filled /\ filled <= Credit /\ Credit \in Nat
        /\ filled # Burst => filled = entry.tokens + (clock - entry.lastFill)
        /\ entry.tokens \in Int /\ entry.lastFill \in Int
  BY <1>0, BucketNumbers
<1>2. /\ filled - Period \in Nat /\ filled - Period <= Burst
      /\ NotBelow0(filled - Period) = filled - Period
  BY <1>1 DEF NotBelow0
<1>3. /\ entry' \in BucketEntry /\ entry' # NoEntry
      /\ entry'.tokens = filled - Period /\ entry'.lastFill = clock
      /\ Credit' = filled - Period
  BY <1>0, <1>1, <1>2, BucketFilled
<1>4. Ranked' /\ NewGrant \in granted' /\ NewGrant.at = clock /\ granted \subseteq granted'
  BY <1>0, GrantAdds DEF Grants
<1>5. ASSUME NEW s \in 0 .. moved
      PROVE  Spent(s)' + (filled - Period) <= Burst + (moved - s)
  <2>1. /\ Spent(s) \in Nat /\ Spent(s)' = Spent(s) + Period
        /\ Spent(s) + Credit <= Burst + (moved - s)
    BY <1>0, SpentIsNat, SpentAdds DEF BucketInv
  <2> QED
    BY <1>0, <1>1, <2>1
<1>6. \E g \in granted' : SpentFrom(g)' + (filled - Period) = Burst + (clock - g.at)
  <2>1. CASE filled = Burst
    <3>1. PICK g \in granted' : g = NewGrant
      BY <1>4
    <3>2. SpentFrom(g)' = Period
      BY <1>0, <3>1, SpentAdds
    <3> QED
      BY <1>0, <1>4, <2>1, <3>1, <3>2
  <2>2. CASE filled # Burst
    <3>1. PICK g \in granted : SpentFrom(g) + entry.tokens = Burst + (entry.lastFill - g.at)
      BY <1>0 DEF BucketInv
    <3>2. g.at \in Int /\ SpentFrom(g) \in Nat /\ SpentFrom(g)' = SpentFrom(g) + Period
      BY <1>0, SpentIsNat, SpentAdds DEF Ranked, Grant
    <3>3. SpentFrom(g)' + (filled - Period) = Burst + (clock - g.at)
      BY <1>0, <1>1, <2>2, <3>1, <3>2
    <3> QED
      BY <1>4, <3>3
  <2> QED
    BY <2>1, <2>2
<1>7. BucketInv'
  BY <1>0, <1>3, <1>5, <1>6 DEF BucketInv
<1> QED
  BY <1>4, <1>7 DEF IInv

LEMMA BucketRefusedPasses ==
    ASSUME IInv, limiter = "bucket", BucketRefused, UNCHANGED <<limiter, times>>
    PROVE  IInv'
<1> USE RateLimitAssumption
<1>0. /\ BucketInv /\ Ranked /\ entry # NoEntry /\ Filled < Period
      /\ clock \in Int /\ moved \in Nat /\ clock' = clock /\ moved' = moved
      /\ granted' = granted /\ limiter' = limiter
      /\ entry' = [tokens |-> Filled, lastFill |-> clock]
  BY DEF IInv, Ranked, BucketRefused, times
<1>1. PICK filled \in Int :
        /\ filled = Filled /\ filled <= Burst /\ filled <= Credit /\ Credit \in Nat
        /\ filled = entry.tokens + (clock - entry.lastFill)
        /\ entry.tokens \in Int /\ entry.lastFill \in Int
  BY <1>0, BucketNumbers
<1>2. /\ entry' \in BucketEntry /\ entry' # NoEntry
      /\ entry'.tokens = filled /\ entry'.lastFill = clock
      /\ Credit' = NotBelow0(filled)
  BY <1>0, <1>1, BucketFilled
<1>3. Credit' \in Nat /\ Credit' <= Credit
  BY <1>1, <1>2 DEF NotBelow0
<1>4. /\ \A s : Spent(s)' = Spent(s) /\ Spent(s) \in Nat
      /\ \A g : SpentFrom(g)' = SpentFrom(g) /\ SpentFrom(g) \in Nat
  BY <1>0, SpentIsNat DEF Spent, SpentFrom, GrantedSince, From
<1>5. ASSUME NEW s \in 0 .. moved PROVE Spent(s)' + Credit' <= Burst + (moved - s)
  <2>1. Spent(s) + Credit <= Burst + (moved - s)
    BY <1>0 DEF BucketInv
  <2> QED
    BY <1>0, <1>1, <1>3, <1>4, <2>1
<1>6. \E g \in granted : SpentFrom(g)' + filled = Burst + (clock - g.at)
  <2>1. PICK g \in granted : SpentFrom(g) + entry.tokens = Burst + (entry.lastFill - g.at)
    BY <1>0 DEF BucketInv
  <2>2. g.at \in Int
    BY <1>0 DEF Ranked, Grant
  <2>3. SpentFrom(g)' + filled = Burst + (clock - g.at)
    BY <1>0, <1>1, <1>4, <2>1, <2>2
  <2> QED
    BY <2>3
<1>7. BucketInv' /\ Ranked'
  <2>1. Ranked'
    BY <1>0 DEF Ranked
  <2> QED
    BY <1>0, <1>2, <1>5, <1>6, <2>1 DEF BucketInv
<1> QED
  BY <1>7 DEF IInv

(* A bucket that is swept has had the time to fill up, also one that a     *)
(* clock set back left with less than nothing.                             *)
LEMMA BucketSweepPasses ==
    ASSUME IInv, limiter = "bucket", BucketSweep
    PROVE  IInv'
<1> USE RateLimitAssumption
<1>0. /\ BucketInv /\ Ranked /\ entry # NoEntry /\ entry' = NoEntry
      /\ entry.lastFill <= clock - BucketTTL
      /\ clock \in Int /\ UNCHANGED <<limiter, clock, moved, granted>>
  BY DEF IInv, Ranked, BucketSweep, times
<1>1. Credit = Burst
  BY <1>0, BucketNumbers
<1>2. ASSUME NEW s \in 0 .. moved PROVE Spent(s) <= moved - s
  <2>1. Spent(s) \in Nat /\ Spent(s) + Burst <= Burst + (moved - s)
    BY <1>0, <1>1, SpentIsNat DEF BucketInv
  <2> QED
    BY <1>0, <2>1 DEF Ranked
<1>3. BucketInv' /\ Ranked'
  BY <1>0, <1>2 DEF BucketInv, Ranked, Spent, GrantedSince
<1> QED
  BY <1>0, <1>3 DEF IInv

-----------------------------------------------------------------------------
(* The clock moves forward or is set back. *)

LEMMA TimePasses ==
    ASSUME IInv, Tick \/ SetBack
    PROVE  IInv'
<1> USE RateLimitAssumption
<1>0. /\ Ranked /\ clock \in Int /\ moved \in Nat
      /\ UNCHANGED <<limiter, entry, granted>>
  BY DEF IInv, Ranked, Tick, SetBack
<1>a. PICK c \in Int, m \in Nat :
        /\ clock' = c /\ moved' = m
        /\ moved <= m /\ m <= moved + 1 /\ c - clock <= m - moved
  BY <1>0 DEF Tick, SetBack
<1>1. \A g \in granted : /\ g.at \in Int /\ g.moved \in Nat /\ g.moved <= moved
                         /\ clock - g.at <= moved - g.moved
  BY <1>0 DEF Ranked, Grant
<1>2. Ranked'
  <2>1. \A g \in granted : g.moved <= m /\ c - g.at <= m - g.moved
    BY <1>0, <1>a, <1>1
  <2> QED
    BY <1>0, <1>a, <2>1 DEF Ranked
<1>3. /\ \A w : GrantedBefore(m, w) = GrantedBefore(moved, w)'
      /\ \A t, w : GrantedBefore(t, w)' = GrantedBefore(t, w)
      /\ \A g : From(g)' = From(g) /\ Earlier(g)' = Earlier(g)
      /\ \A s : GrantedSince(s)' = GrantedSince(s)
  BY <1>0, <1>a DEF GrantedBefore, GrantedSince, From, Earlier
<1>4. ASSUME NEW w \in Nat
      PROVE  /\ Cardinality(GrantedBefore(m, w)) <= Cardinality(GrantedBefore(moved, w))
             /\ Cardinality(GrantedBefore(m, w)) \in Nat
             /\ Cardinality(GrantedBefore(moved, w)) \in Nat
  <2>1. /\ GrantedBefore(m, w) \subseteq GrantedBefore(moved, w)
        /\ GrantedBefore(moved, w) \subseteq granted
    BY <1>0, <1>a, <1>1 DEF GrantedBefore
  <2> QED
    BY <1>0, <1>a, <2>1, Counted
<1>5. ASSUME limiter = "sliding" PROVE SlidingInv'
  <2>1. SlidingInv
    BY <1>5 DEF IInv
  <2>2. ASSUME NEW t \in 0 .. m
        PROVE  Cardinality(GrantedBefore(t, SlidingWindow)) <= SlidingMax
    <3>1. CASE t \in 0 .. moved
      BY <2>1, <3>1 DEF SlidingInv
    <3>2. CASE t = m
      <4>1. Cardinality(GrantedBefore(moved, SlidingWindow)) <= SlidingMax
        BY <1>0, <1>a, <2>1 DEF SlidingInv
      <4> QED
        BY <1>4, <3>2, <4>1
    <3> QED
      BY <1>0, <1>a, <3>1, <3>2
  <2>3. /\ Events' \subseteq granted'
        /\ \A g \in granted' \ Events' : m - g.moved >= SlidingWindow
    BY <1>0, <1>a, <1>1, <2>1 DEF SlidingInv, Events
  <2> QED
    BY <1>0, <1>a, <1>3, <2>1, <2>2, <2>3 DEF SlidingInv
<1>6. ASSUME limiter = "fixed" PROVE FixedInv'
  <2>1. FixedInv
    BY <1>6 DEF IInv
  <2>2. ASSUME NEW t \in 0 .. m
        PROVE  Cardinality(GrantedBefore(t, FixedWindow)) <= 2 * FixedLimit
    <3>1. CASE t \in 0 .. moved
      BY <2>1, <3>1 DEF FixedInv
    <3>2. CASE t = m
      <4>1. Cardinality(GrantedBefore(moved, FixedWindow)) <= 2 * FixedLimit
        BY <1>0, <1>a, <2>1 DEF FixedInv
      <4> QED
        BY <1>4, <3>2, <4>1 DEF FixedLimit
    <3> QED
      BY <1>0, <1>a, <3>1, <3>2
  <2>3. entry = NoEntry => Cardinality(GrantedBefore(m, FixedWindow)) <= FixedLimit
    BY <1>4, <2>1 DEF FixedInv, FixedLimit
  <2> QED
    BY <1>0, <1>a, <1>3, <2>1, <2>2, <2>3 DEF FixedInv, FixedLimit
<1>7. ASSUME limiter = "bucket" PROVE BucketInv'
  <2>1. BucketInv
    BY <1>7 DEF IInv
  <2>2. /\ \A s : Spent(s)' = Spent(s) /\ Spent(s) \in Nat
        /\ \A g : SpentFrom(g)' = SpentFrom(g)
    BY <1>0, <1>a, <1>3, SpentIsNat DEF Spent, SpentFrom
  <2>3. \A s \in 0 .. m : s \in 0 .. moved \/ (s = moved + 1 /\ Spent(s) = 0 /\ m = moved + 1)
    <3>1. ASSUME NEW s \in Nat, s = moved + 1 PROVE Spent(s) = 0
      <4>1. GrantedSince(s) = {}
        BY <1>0, <1>a, <1>1, <3>1 DEF GrantedSince
      <4> QED
        BY <4>1, FS_EmptySet DEF Spent
    <3> QED
      BY <1>0, <1>a, <3>1
  <2>4. ASSUME entry # NoEntry, NEW s \in 0 .. m
        PROVE  Spent(s) + Credit' <= Burst + (m - s)
    <3> DEFINE Left(a, e) == NotBelow0(AtMost(NotBelow0(a) + e, Burst))
    <3>1. /\ Credit \in 0 .. Burst /\ Credit' \in 0 .. Burst
          /\ Credit' <= Credit + (m - moved)
      <4>1. entry.tokens \in Int /\ entry.lastFill \in Int
        BY <1>0, <1>a, <2>1, <2>4, BucketNumbers
      <4>2. ASSUME NEW a \in Int, NEW b \in Int, NEW d \in Int, NEW n \in 0 .. 1, d <= b + n
            PROVE  /\ Left(a, b) \in 0 .. Burst /\ Left(a, d) \in 0 .. Burst
                   /\ Left(a, d) <= Left(a, b) + n
        BY <4>2 DEF NotBelow0, AtMost
      <4>3. /\ Credit = Left(entry.tokens, clock - entry.lastFill)
            /\ Credit' = Left(entry.tokens, c - entry.lastFill)
        BY <1>0, <1>a DEF Credit
      <4>4. /\ clock - entry.lastFill \in Int /\ c - entry.lastFill \in Int
            /\ m - moved \in 0 .. 1
            /\ c - entry.lastFill <= (clock - entry.lastFill) + (m - moved)
        BY <1>0, <1>a, <4>1
      <4> HIDE DEF Left
      <4> QED
        BY <4>1, <4>2, <4>3, <4>4
    <3>2. CASE s \in 0 .. moved
      <4>1. Spent(s) + Credit <= Burst + (moved - s)
        BY <2>1, <2>4, <3>2 DEF BucketInv
      <4> QED
        BY <1>0, <1>a, <2>2, <3>1, <3>2, <4>1
    <3>3. CASE s = moved + 1 /\ Spent(s) = 0 /\ m = moved + 1
      BY <1>0, <1>a, <3>1, <3>3
    <3> QED
      BY <2>3, <3>2, <3>3
  <2>5. ASSUME entry = NoEntry, NEW s \in 0 .. m PROVE Spent(s) <= m - s
    BY <1>0, <1>a, <2>1, <2>2, <2>3, <2>5 DEF BucketInv
  <2>6. entry # NoEntry =>
            \E g \in granted : SpentFrom(g) + entry.tokens = Burst + (entry.lastFill - g.at)
    BY <2>1 DEF BucketInv
  <2> QED
    BY <1>0, <1>a, <2>1, <2>2, <2>4, <2>5, <2>6 DEF BucketInv
<1> QED
  BY <1>0, <1>a, <1>2, <1>5, <1>6, <1>7 DEF IInv

-----------------------------------------------------------------------------

LEMMA NextIInv == IInv /\ [Next]_vars => IInv'
<1> SUFFICES ASSUME IInv, [Next]_vars PROVE IInv'
  OBVIOUS
<1>1. CASE SlidingAllow
  BY <1>1, SlidingGrantPasses, SlidingForgetsPasses DEF SlidingAllow, SlidingRefused
<1>2. CASE SlidingSweep
  BY <1>2, SlidingForgetsPasses DEF SlidingSweep
<1>3. CASE FixedAllow
  <2>1. CASE FixedLocked /\ UNCHANGED <<entry, granted>>
    <3>1. /\ limiter = "fixed" /\ FixedInv /\ Ranked
          /\ UNCHANGED <<limiter, clock, moved, entry, granted>>
      BY <1>3, <2>1 DEF FixedAllow, IInv, times
    <3>2. FixedInv' /\ Ranked'
      BY <3>1 DEF FixedInv, Ranked, From, Earlier, GrantedBefore
    <3> QED
      BY <3>1, <3>2 DEF IInv
  <2> QED
    BY <1>3, <2>1, FixedOpensPasses, FixedCountsPasses DEF FixedAllow
<1>4. CASE FixedReset \/ FixedSweep
  BY <1>4, FixedForgetsPasses DEF FixedReset, FixedSweep
<1>5. CASE BucketAllow
  BY <1>5, BucketOpensPasses, BucketGrantedPasses, BucketRefusedPasses DEF BucketAllow
<1>6. CASE BucketSweep
  BY <1>6, BucketSweepPasses DEF BucketSweep
<1>7. CASE Tick \/ SetBack
  BY <1>7, TimePasses
<1>8. CASE UNCHANGED vars
  <2>1. Ranked' /\ UNCHANGED <<limiter, clock, moved, entry, granted>>
    BY <1>8 DEF IInv, Ranked, vars, times
  <2>2. ASSUME limiter = "sliding" PROVE SlidingInv'
    BY <2>1, <2>2 DEF IInv, SlidingInv, Events, GrantedBefore
  <2>3. ASSUME limiter = "fixed" PROVE FixedInv'
    BY <2>1, <2>3 DEF IInv, FixedInv, From, Earlier, GrantedBefore
  <2>4. ASSUME limiter = "bucket" PROVE BucketInv'
    BY <2>1, <2>4 DEF IInv, BucketInv, GrantedSince, From, Spent, SpentFrom, Credit
  <2> QED
    BY <2>1, <2>2, <2>3, <2>4 DEF IInv
<1> QED
  BY <1>1, <1>2, <1>3, <1>4, <1>5, <1>6, <1>7, <1>8 DEF Next

THEOREM RateLimitInvariant == Spec => []IInv
  BY InitIInv, NextIInv, PTL DEF Spec

(* The types. *)
THEOREM RateLimitTypeTheorem == Spec => []TypeOK
<1>1. IInv => TypeOK
  BY DEF IInv, Ranked, SlidingInv, FixedInv, BucketInv, TypeOK
<1> QED
  BY <1>1, RateLimitInvariant, PTL

(* SlidingWindow.Allow and Sweep keep every window within the limit. *)
THEOREM SlidingBoundTheorem == Spec => []SlidingBound
<1>1. IInv => SlidingBound
  BY DEF IInv, SlidingInv, SlidingBound
<1> QED
  BY <1>1, RateLimitInvariant, PTL

(* FixedWindow.Allow, Reset and Sweep let at most twice the limit through  *)
(* a stretch of one window length.                                         *)
THEOREM FixedBoundTheorem == Spec => []FixedBound
<1>1. IInv => FixedBound
  BY DEF IInv, FixedInv, FixedBound, FixedLimit
<1> QED
  BY <1>1, RateLimitInvariant, PTL

(* TokenBucket.Allow and Sweep grant no more than capacity and refill.     *)
THEOREM BucketBoundTheorem == Spec => []BucketBound
<1>1. ASSUME IInv, limiter = "bucket", NEW s \in 0 .. moved
      PROVE  Spent(s) <= Burst + (moved - s)
  <2>1. BucketInv /\ Ranked /\ moved \in Nat /\ Burst \in Nat
    BY <1>1, RateLimitAssumption DEF IInv, Ranked
  <2>2. Spent(s) \in Nat
    BY <2>1, SpentIsNat
  <2>3. CASE entry = NoEntry
    BY <2>1, <2>2, <2>3 DEF BucketInv
  <2>4. CASE entry # NoEntry
    <3>1. Credit \in Nat /\ Spent(s) + Credit <= Burst + (moved - s)
      BY <2>1, <2>4, BucketNumbers DEF BucketInv
    <3> QED
      BY <2>1, <2>2, <3>1
  <2> QED
    BY <2>3, <2>4
<1>2. IInv => BucketBound
  BY <1>1 DEF BucketBound, Spent
<1> QED
  BY <1>2, RateLimitInvariant, PTL

(* Allow refuses only when too much was granted of late by the clock, also *)
(* by a clock that is set back.                                            *)
THEOREM RefusalsJustifiedTheorem == Spec => []RefusalsJustified
<1> USE RateLimitAssumption
<1>1. ASSUME IInv, limiter = "sliding", SlidingRefuses
      PROVE  Cardinality(Younger(granted, SlidingWindow)) >= SlidingMax
  <2>1. /\ Ranked /\ Pruned \subseteq Younger(granted, SlidingWindow)
        /\ Younger(granted, SlidingWindow) \subseteq granted
    BY <1>1 DEF IInv, SlidingInv, Pruned, Younger
  <2>2. /\ Cardinality(Pruned) <= Cardinality(Younger(granted, SlidingWindow))
        /\ Cardinality(Pruned) \in Nat
        /\ Cardinality(Younger(granted, SlidingWindow)) \in Nat
    BY <2>1, Counted
  <2> QED
    BY <1>1, <2>2 DEF SlidingRefuses
<1>2. ASSUME IInv, limiter = "fixed", FixedLocked
      PROVE  \E g \in granted :
                 clock - g.at < FixedWindow /\ Cardinality(From(g)) >= FixedMax
  <2>1. /\ FixedInv /\ entry # NoEntry /\ clock \in Int /\ entry.windowStart \in Int
        /\ ~ clock - entry.windowStart >= FixedWindow /\ entry.count >= FixedMax
    BY <1>2 DEF IInv, FixedInv, Ranked, FixedEntry, FixedLocked, FixedFresh
  <2>2. PICK g \in granted : g.at = entry.windowStart /\ Cardinality(From(g)) = entry.count
    BY <2>1 DEF FixedInv
  <2> QED
    BY <2>1, <2>2
<1>3. ASSUME IInv, limiter = "bucket", BucketRefuses
      PROVE  \E g \in granted : Period * (Cardinality(From(g)) + 1) > Burst + (clock - g.at)
  <2>1. BucketInv /\ Ranked /\ clock \in Int /\ entry # NoEntry
    BY <1>3 DEF IInv, Ranked, BucketRefuses
  <2>2. /\ entry.tokens \in Int /\ entry.lastFill \in Int
        /\ entry.tokens + (clock - entry.lastFill) < Period
    BY <1>3, <2>1, BucketNumbers DEF BucketRefuses
  <2>3. PICK g \in granted : SpentFrom(g) + entry.tokens = Burst + (entry.lastFill - g.at)
    BY <2>1 DEF BucketInv
  <2>4. g.at \in Int /\ SpentFrom(g) \in Nat /\ Cardinality(From(g)) \in Nat
    <3>1. From(g) \subseteq granted
      BY DEF From
    <3> QED
      BY <2>1, <3>1, SpentIsNat, Counted DEF Ranked, Grant
  <2>5. SpentFrom(g) + Period > Burst + (clock - g.at)
    BY <2>1, <2>2, <2>3, <2>4
  <2>6. \A n \in Nat : Period * (n + 1) = Period * n + Period
    OBVIOUS
  <2> QED
    BY <2>4, <2>5, <2>6 DEF SpentFrom
<1>4. IInv => RefusalsJustified
  BY <1>1, <1>2, <1>3 DEF RefusalsJustified
<1> QED
  BY <1>4, RateLimitInvariant, PTL
=============================================================================
