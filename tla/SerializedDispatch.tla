------------------------- MODULE SerializedDispatch -------------------------
(***************************************************************************)
(* lib/matching/serialized-dispatch.ts: runSerializedByKey chains promises,*)
(* one chain for each key, and keeps the last promise of every chain in a  *)
(* map.  A task is one call of it and also names the promises it makes:    *)
(*                                                                         *)
(*   run      = previous.catch(...).then(taskFactory)                      *)
(*   tracked  = run.finally(...), which drops the lane when it is the last *)
(*                                                                         *)
(* Handing in is one synchronous piece of code; everything else happens in *)
(* callbacks, in any order the promises allow.  A task may fail.           *)
(***************************************************************************)
EXTENDS Integers

CONSTANTS
    Tasks,   \* calls of runSerializedByKey
    Keys,    \* buildSymbolModeKey(symbol, mode)
    None     \* no promise, no key

ASSUME DispatchAssumption == None \notin Tasks /\ None \notin Keys

VARIABLES
    lanes,      \* the map: the task whose `tracked` a key holds, or None
    key,        \* each task's key, None before the call
    previous,   \* the promise a task waits for; None is a resolved one
    state,      \* see States
    ticket,     \* for the properties: each task's place among all arrivals
    arrivals    \* for the properties: how many tasks have arrived

\* "ended" and "failed": `run` has settled; "resolved" and "rejected": the
\* finally callback has run too, and `tracked` has settled.
States == {"new", "queued", "running", "ended", "failed", "resolved", "rejected"}

Settled == {"resolved", "rejected"}

vars == <<lanes, key, previous, state, ticket, arrivals>>

Init ==
    /\ lanes = [k \in Keys |-> None]
    /\ key = [t \in Tasks |-> None]
    /\ previous = [t \in Tasks |-> None]
    /\ state = [t \in Tasks |-> "new"]
    /\ ticket = [t \in Tasks |-> 0]
    /\ arrivals = 0

-----------------------------------------------------------------------------
\* Wrong on purpose: a lane that exists is not set again.
LastOfLane_First(k, t) == IF lanes[k] = None THEN t ELSE lanes[k]

\* The promise that lanes.set leaves.
LastOfLane(k, t) == t

HandIn(t, k) ==
    /\ state[t] = "new"
    /\ previous' = [previous EXCEPT ![t] = lanes[k]]
    /\ lanes' = [lanes EXCEPT ![k] = LastOfLane(k, t)]
    /\ key' = [key EXCEPT ![t] = k]
    /\ state' = [state EXCEPT ![t] = "queued"]
    /\ arrivals' = arrivals + 1
    /\ ticket' = [ticket EXCEPT ![t] = arrivals + 1]

\* Wrong on purpose: waits only until the previous task has begun, or does not
\* catch its failure.
PreviousOver_Begun(t) ==
    previous[t] \in {None} \cup {u \in Tasks : state[u] \notin {"new", "queued"}}
PreviousOver_Uncaught(t) ==
    previous[t] \in {None} \cup {u \in Tasks : state[u] = "resolved"}

\* previous.catch(...) has resolved, whatever came of the previous task.
PreviousOver(t) == previous[t] \in {None} \cup {u \in Tasks : state[u] \in Settled}

\* taskFactory is called.
Begin(t) ==
    /\ state[t] = "queued"
    /\ PreviousOver(t)
    /\ state' = [state EXCEPT ![t] = "running"]
    /\ UNCHANGED <<lanes, key, previous, ticket, arrivals>>

End(t) ==
    /\ state[t] = "running"
    /\ \E outcome \in {"ended", "failed"} : state' = [state EXCEPT ![t] = outcome]
    /\ UNCHANGED <<lanes, key, previous, ticket, arrivals>>

\* The finally callback finds its own promise in the map.
Drops(t) == lanes[key[t]] = t

Cleanup(t) ==
    /\ state[t] \in {"ended", "failed"}
    /\ state' = [state EXCEPT ![t] = IF @ = "ended" THEN "resolved" ELSE "rejected"]
    /\ lanes' = IF Drops(t) THEN [lanes EXCEPT ![key[t]] = None] ELSE lanes
    /\ UNCHANGED <<key, previous, ticket, arrivals>>

Next == \E t \in Tasks : Begin(t) \/ End(t) \/ Cleanup(t) \/ \E k \in Keys : HandIn(t, k)

Spec == Init /\ [][Next]_vars

\* Callbacks of settled promises run, and tasks end: every one is a database
\* transaction with a timeout.  Nobody has to hand in a task.
Fairness == \A t \in Tasks : WF_vars(Begin(t)) /\ WF_vars(End(t)) /\ WF_vars(Cleanup(t))

FairSpec == Spec /\ Fairness
=============================================================================
