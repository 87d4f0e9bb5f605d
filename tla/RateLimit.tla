----------------------------- MODULE RateLimit -----------------------------
(***************************************************************************)
(* The three rate limiters of package ratelimit: SlidingWindow (requests   *)
(* of an address), FixedWindow (login attempts) and TokenBucket (API       *)
(* requests of a user).                                                    *)
(*                                                                         *)
(* A limiter is a map from keys to entries behind a mutex; Allow touches   *)
(* the entry of its key only and Sweep judges each entry by itself, so a   *)
(* behaviour follows one key of one limiter.                               *)
(*                                                                         *)
(* Their clock is the wall clock: UTC() strips the monotonic reading, so   *)
(* the time may be set back between two calls.  The ghost moved counts how *)
(* far the clock has moved forward, which is the time elapsed unless the   *)
(* clock was set forward besides.                                          *)
(*                                                                         *)
(* Tokens are counted in the time it takes to refill them, which makes the *)
(* refill rate 1, and exactly: the float64 of the code carries rounding    *)
(* errors besides.                                                         *)
(***************************************************************************)
EXTENDS Integers, FiniteSets

CONSTANTS
    SlidingMax, SlidingWindow,
    FixedMax, FixedWindow,
    Period,         \* time in which one token is refilled: 1 / refillRate
    Burst,          \* capacity of the bucket, in refill time
    BucketTTL,      \* argument of TokenBucket.Sweep
    NoEntry,        \* the key is not in the map
    MaxClock,       \* bound: how far the clock moves forward in all
    MaxBack         \* bound: how far it is set back in all

(* An event of SlidingWindow is a reading of the clock.  Its rank n, which *)
(* is the place in the list, and moved are ghosts.                         *)
Grant == [n : Nat, at : Int, moved : Nat]
SlidingEntry == [events : SUBSET Grant]
FixedEntry == [windowStart : Int, count : Nat]
BucketEntry == [tokens : {b \in Int : b <= Burst}, lastFill : Int]
Entry == SlidingEntry \cup FixedEntry \cup BucketEntry

(* The capacity is at least one token, and a bucket is swept only when it  *)
(* has had the time to fill up.                                            *)
ASSUME RateLimitAssumption ==
    /\ SlidingMax \in Nat
    /\ SlidingWindow \in Nat \ {0}
    /\ FixedMax \in Nat
    /\ FixedWindow \in Nat \ {0}
    /\ Period \in Nat \ {0}
    /\ Burst \in Nat
    /\ Burst >= Period
    /\ BucketTTL \in Nat
    /\ BucketTTL >= Burst
    /\ NoEntry \notin Entry
    /\ MaxClock \in Nat
    /\ MaxBack \in Nat

VARIABLES
    limiter,    \* which limiter the key belongs to
    clock,      \* what the clock reads
    moved,      \* ghost: how far the clock has moved forward in all
    entry,      \* the entry of the key, or NoEntry
    granted     \* ghost: the attempts granted so far, since the last Reset

times == <<clock, moved>>
vars == <<limiter, times, entry, granted>>

NewGrant == [n |-> Cardinality(granted) + 1, at |-> clock, moved |-> moved]

(* Allow returns true. *)
Grants == granted' = granted \cup {NewGrant}

(* The attempts of a set that the clock shows to be younger than the       *)
(* window: the ones after the cutoff.                                      *)
Younger(S, window) == {g \in S : g.at > clock - window}

-----------------------------------------------------------------------------
(* SlidingWindow *)

Events == IF entry = NoEntry THEN {} ELSE entry.events

(* The events after the cutoff. *)
Pruned == Younger(Events, SlidingWindow)

SlidingGranted ==
    /\ Cardinality(Pruned) < SlidingMax
    /\ Grants
    /\ entry' = [events |-> Pruned \cup {NewGrant}]

(* A refused attempt is not recorded, but the pruned list is stored.       *)
SlidingRefused ==
    /\ Cardinality(Pruned) >= SlidingMax
    /\ entry' = [events |-> Pruned]
    /\ UNCHANGED granted

SlidingAllow ==
    /\ limiter = "sliding"
    /\ SlidingGranted \/ SlidingRefused
    /\ UNCHANGED <<limiter, times>>

(* Mutant: the oldest event decides. *)
SlidingIdleOldest ==
    \/ Events = {}
    \/ \E first \in Events :
          /\ \A g \in Events : first.n <= g.n
          /\ first.at <= clock - SlidingWindow

(* Sweep looks at the last event of the list only. *)
SlidingIdle ==
    \/ Events = {}
    \/ \E last \in Events :
          /\ \A g \in Events : g.n <= last.n
          /\ last.at <= clock - SlidingWindow

SlidingSweep ==
    /\ limiter = "sliding"
    /\ entry # NoEntry
    /\ SlidingIdle
    /\ entry' = NoEntry
    /\ UNCHANGED <<limiter, times, granted>>

-----------------------------------------------------------------------------
(* FixedWindow *)

FixedCounts == entry' = [entry EXCEPT !.count = @ + 1]

(* No entry, or its window is over: the first attempt opens a window and   *)
(* is granted whatever the limit.                                          *)
FixedFresh == entry # NoEntry => clock - entry.windowStart >= FixedWindow

FixedOpens ==
    /\ FixedFresh
    /\ Grants
    /\ entry' = [windowStart |-> clock, count |-> 1]

(* Mutant: off by one at the limit. *)
FixedLockedAbove == ~ FixedFresh /\ entry.count > FixedMax

FixedLocked == ~ FixedFresh /\ entry.count >= FixedMax

FixedAllow ==
    /\ limiter = "fixed"
    /\ \/ FixedOpens
       \/ ~ FixedFresh /\ ~ FixedLocked /\ Grants /\ FixedCounts
       \/ FixedLocked /\ UNCHANGED <<entry, granted>>
    /\ UNCHANGED <<limiter, times>>

FixedReset ==
    /\ limiter = "fixed"
    /\ entry' = NoEntry
    /\ granted' = {}
    /\ UNCHANGED <<limiter, times>>

FixedSweep ==
    /\ limiter = "fixed"
    /\ entry # NoEntry
    /\ entry.windowStart <= clock - FixedWindow
    /\ entry' = NoEntry
    /\ UNCHANGED <<limiter, times, granted>>

-----------------------------------------------------------------------------
(* TokenBucket *)

AtMost(a, b) == IF a > b THEN b ELSE a

(* Mutant: the capacity does not limit the refill. *)
FilledUncapped == entry.tokens + (clock - entry.lastFill)

(* What the bucket holds now, refilled up to its capacity. *)
Filled == AtMost(entry.tokens + (clock - entry.lastFill), Burst)

(* A new bucket is full. *)
BucketOpens ==
    /\ entry = NoEntry
    /\ Grants
    /\ entry' = [tokens |-> Burst - Period, lastFill |-> clock]

BucketGranted ==
    /\ entry # NoEntry
    /\ Filled >= Period
    /\ Grants
    /\ entry' = [tokens |-> Filled - Period, lastFill |-> clock]

(* Mutant: a refused attempt costs a token as well. *)
BucketRefusedCharged ==
    /\ entry # NoEntry
    /\ Filled < Period
    /\ entry' = [tokens |-> Filled - Period, lastFill |-> clock]
    /\ UNCHANGED granted

(* A refused attempt stores the refill and the time of it. *)
BucketRefused ==
    /\ entry # NoEntry
    /\ Filled < Period
    /\ entry' = [tokens |-> Filled, lastFill |-> clock]
    /\ UNCHANGED granted

BucketAllow ==
    /\ limiter = "bucket"
    /\ BucketOpens \/ BucketGranted \/ BucketRefused
    /\ UNCHANGED <<limiter, times>>

BucketSweep ==
    /\ limiter = "bucket"
    /\ entry # NoEntry
    /\ entry.lastFill <= clock - BucketTTL
    /\ entry' = NoEntry
    /\ UNCHANGED <<limiter, times, granted>>

-----------------------------------------------------------------------------

Init ==
    /\ limiter \in {"sliding", "fixed", "bucket"}
    /\ clock = 0
    /\ moved = 0
    /\ entry = NoEntry
    /\ granted = {}

Tick ==
    /\ moved < MaxClock
    /\ clock' = clock + 1
    /\ moved' = moved + 1
    /\ UNCHANGED <<limiter, entry, granted>>

(* The wall clock is set back. *)
SetBack ==
    /\ \E d \in 1 .. MaxBack :
          /\ moved - clock + d <= MaxBack
          /\ clock' = clock - d
    /\ UNCHANGED <<limiter, moved, entry, granted>>

Next ==
    \/ SlidingAllow \/ SlidingSweep
    \/ FixedAllow \/ FixedReset \/ FixedSweep
    \/ BucketAllow \/ BucketSweep
    \/ Tick \/ SetBack

Spec == Init /\ [][Next]_vars

-----------------------------------------------------------------------------

(* The variables have their types, and the entry is one of its limiter.    *)
TypeOK ==
    /\ limiter \in {"sliding", "fixed", "bucket"}
    /\ clock \in Int
    /\ moved \in Nat
    /\ entry \in CASE limiter = "sliding" -> SlidingEntry \cup {NoEntry}
                   [] limiter = "fixed"   -> FixedEntry \cup {NoEntry}
                   [] limiter = "bucket"  -> BucketEntry \cup {NoEntry}
    /\ granted \in SUBSET Grant
    /\ IsFiniteSet(granted)

(* The attempts granted in the window that ends at t, by elapsed time. *)
GrantedBefore(t, window) == {g \in granted : t - window < g.moved /\ g.moved <= t}
GrantedSince(s) == {g \in granted : g.moved >= s}

(* A grant and those after it. *)
From(g) == {h \in granted : h.n >= g.n}

(* In no window of its length, wherever it begins, does SlidingWindow      *)
(* grant more than its limit, although Allow and Sweep forget events and   *)
(* the clock is set back.                                                  *)
SlidingBound ==
    limiter = "sliding" =>
        \A t \in 0 .. moved : Cardinality(GrantedBefore(t, SlidingWindow)) <= SlidingMax

(* What a window grants at most: its first attempt, and up to the limit.   *)
FixedLimit == IF FixedMax = 0 THEN 1 ELSE FixedMax

(* Two windows of FixedWindow may meet, and each grants its first attempt  *)
(* whatever the limit: between two resets a stretch of the window's length *)
(* has at most twice the limit, and two grants if the limit is zero.       *)
FixedBound ==
    limiter = "fixed" =>
        \A t \in 0 .. moved :
            Cardinality(GrantedBefore(t, FixedWindow)) <= 2 * FixedLimit

(* Since any instant, TokenBucket has granted no more than its capacity    *)
(* and what was refilled, although Sweep forgets what a bucket had spent   *)
(* and a clock set back refills less than nothing.                         *)
BucketBound ==
    limiter = "bucket" =>
        \A s \in 0 .. moved : Period * Cardinality(GrantedSince(s)) <= Burst + (moved - s)

SlidingRefuses == Cardinality(Pruned) >= SlidingMax
BucketRefuses == entry # NoEntry /\ Filled < Period

(* A limiter refuses an attempt only if it has granted too much of late,   *)
(* as the clock shows it: SlidingWindow its limit within the last window,  *)
(* FixedWindow its limit since a grant less than a window ago, TokenBucket *)
(* so much since some grant that one more would exceed capacity and        *)
(* refill.  So attempts that are refused, however many, keep no client     *)
(* out; a clock that is set back does, for as long as it was set back      *)
(* since the grant, and no longer.                                         *)
RefusalsJustified ==
    /\ limiter = "sliding" /\ SlidingRefuses =>
          Cardinality(Younger(granted, SlidingWindow)) >= SlidingMax
    /\ limiter = "fixed" /\ FixedLocked =>
          \E g \in granted :
              clock - g.at < FixedWindow /\ Cardinality(From(g)) >= FixedMax
    /\ limiter = "bucket" /\ BucketRefuses =>
          \E g \in granted :
              Period * (Cardinality(From(g)) + 1) > Burst + (clock - g.at)
=============================================================================
