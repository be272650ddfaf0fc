----------------------------- MODULE LaneQueue ------------------------------
(***************************************************************************)
(* What lib/matching/serialized-dispatch.ts promises: the tasks of a key   *)
(* run one at a time in the order in which they were handed in, whether    *)
(* those before them succeeded or failed, and keys do not wait for each    *)
(* other.                                                                  *)
(***************************************************************************)
EXTENDS Sequences

CONSTANTS Tasks, Keys

VARIABLES
    queue,   \* tasks of each key that have not ended, oldest first
    begun    \* tasks whose factory has been called

Init ==
    /\ queue = [k \in Keys |-> << >>]
    /\ begun = {}

InQueue(t) == \E k \in Keys : \E i \in DOMAIN queue[k] : queue[k][i] = t

HandIn(t, k) ==
    /\ ~InQueue(t) /\ t \notin begun
    /\ queue' = [queue EXCEPT ![k] = Append(@, t)]
    /\ UNCHANGED begun

\* Only the oldest task of a key may begin.
Begin(t) ==
    /\ t \notin begun
    /\ \E k \in Keys : queue[k] # << >> /\ Head(queue[k]) = t
    /\ begun' = begun \cup {t}
    /\ UNCHANGED queue

End(t) ==
    /\ t \in begun
    /\ \E k \in Keys :
          /\ queue[k] # << >> /\ Head(queue[k]) = t
          /\ queue' = [queue EXCEPT ![k] = Tail(@)]
    /\ UNCHANGED begun

Next == \E t \in Tasks : Begin(t) \/ End(t) \/ \E k \in Keys : HandIn(t, k)

Spec == Init /\ [][Next]_<<queue, begun>>
=============================================================================
