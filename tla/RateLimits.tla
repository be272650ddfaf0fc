----------------------------- MODULE RateLimits -----------------------------
(***************************************************************************)
(* The counters in the memory of the API process that limit orders:        *)
(*                                                                         *)
(*   bucket   middleware/simple-rate-limit.ts: a fixed window, for one     *)
(*            client address of one limiter                                *)
(*   windows  lib/matching/admission-controls.ts: a sliding window for     *)
(*            each user and one for the symbol, of one symbol and mode     *)
(*                                                                         *)
(* A request is counted at most once, so that a window is a set of         *)
(* requests and `at` says when each was counted.  Both kinds of counter    *)
(* are read and changed without an await in between.                       *)
(***************************************************************************)
EXTENDS Integers, FiniteSets

CONSTANTS
    Requests,      \* requests that reach a limiter
    Traders,       \* users who place orders
    Symbol,        \* the key of the symbol's window
    Limit,         \* requests a sliding window admits: user's, symbol's; 0 = any number
    WindowLength,  \* windowMs of the sliding windows
    BucketMax,     \* requests a bucket admits
    BucketLife,    \* windowMs of the bucket
    MaxTime        \* bound: the clock stops there

WindowKey == Traders \cup {Symbol}
Time == 0..MaxTime

ASSUME RateLimitsAssumption ==
    /\ Symbol \notin Traders
    /\ Limit \in [WindowKey -> Nat]
    /\ WindowLength \in Nat \ {0}
    /\ BucketMax \in Nat \ {0}
    /\ BucketLife \in Nat \ {0}
    /\ MaxTime \in Nat

VARIABLES
    now,        \* Date.now()
    bucket,     \* [count, resetAt], never removed once it is there
    windows,    \* orderWindowState
    at,         \* when a request was last counted by a window, the number pushed
    admitted,   \* every request a window has counted since the process started
    let         \* every request the bucket has let pass since, with its time

limitVars == <<bucket, windows, at, admitted, let>>

\* A bucket that is not there, or over.
NoBucket == [count |-> 0, resetAt |-> 0]

\* What a new process has.
LimitsInit ==
    /\ bucket = NoBucket
    /\ windows = [k \in WindowKey |-> {}]
    /\ at = [r \in Requests |-> 0]
    /\ admitted = [k \in WindowKey |-> {}]
    /\ let = {}

\* The process starts again: the counters are gone.
LimitsLost ==
    /\ bucket' = NoBucket
    /\ windows' = [k \in WindowKey |-> {}]
    /\ at' = [r \in Requests |-> 0]
    /\ admitted' = [k \in WindowKey |-> {}]
    /\ let' = {}

-----------------------------------------------------------------------------
(* simpleRateLimit                                                         *)

\* Wrong on purpose: every request starts the window again.
Hit_Prolongs ==
    [count |-> IF bucket.resetAt =< now THEN 1 ELSE bucket.count + 1,
     resetAt |-> now + BucketLife]

\* The bucket after one more request, admitted or not.
Hit ==
    IF bucket.resetAt =< now THEN [count |-> 1, resetAt |-> now + BucketLife]
    ELSE [bucket EXCEPT !.count = @ + 1]

\* The request is counted, and goes on unless it is one too many.
PassesBucket == Hit.count =< BucketMax

TakesFromBucket(r) ==
    /\ bucket' = Hit
    /\ let' = IF PassesBucket THEN let \cup {<<r, now>>} ELSE let

-----------------------------------------------------------------------------
(* consumeSlidingWindowLimit                                               *)

\* Wrong on purpose: forgets a moment too early.
Recent_Short(k) == {r \in windows[k] : at[r] > now - WindowLength + 1}

\* The timestamps left by the filter.
Recent(k) == {r \in windows[k] : at[r] > now - WindowLength}

Full(k) == Limit[k] > 0 /\ Cardinality(Recent(k)) >= Limit[k]

\* The last part of enforceAdmissionControls: the user's window, then, unless that is
\* full, the symbol's.  A request that the symbol's refuses has been counted by the
\* user's.
Touched(u) == IF Full(u) THEN {u} ELSE {u, Symbol}

Counting(u) == {k \in Touched(u) : ~Full(k)}

PassesWindows(u) == Counting(u) = {u, Symbol}

\* A limit of 0 keeps no window.
TakesFromWindows(u, r) ==
    /\ windows' = [k \in WindowKey |->
                      IF Limit[k] = 0 \/ k \notin Touched(u) THEN windows[k]
                      ELSE IF Full(k) THEN Recent(k) ELSE Recent(k) \cup {r}]
    /\ at' = IF Counting(u) = {} THEN at ELSE [at EXCEPT ![r] = now]
    /\ admitted' = [k \in WindowKey |->
                       IF k \in Counting(u) THEN admitted[k] \cup {r} ELSE admitted[k]]

-----------------------------------------------------------------------------
Tick == now < MaxTime /\ now' = now + 1 /\ UNCHANGED limitVars
=============================================================================
