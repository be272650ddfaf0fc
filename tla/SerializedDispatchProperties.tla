-------------------- MODULE SerializedDispatchProperties --------------------
(***************************************************************************)
(* What SerializedDispatch is checked for.                                 *)
(***************************************************************************)
EXTENDS SerializedDispatch, Sequences, Folds

TypeOK ==
    /\ lanes \in [Keys -> Tasks \cup {None}]
    /\ key \in [Tasks -> Keys \cup {None}]
    /\ previous \in [Tasks -> Tasks \cup {None}]
    /\ state \in [Tasks -> States]
    /\ ticket \in [Tasks -> Nat]
    /\ arrivals \in Nat

Of(k) == {t \in Tasks : key[t] = k}

Unended(k) == {t \in Of(k) : state[t] \in {"queued", "running"}}

\* Two tasks of a key never run together.
OneAtATime ==
    \A t, u \in Tasks :
        t # u /\ key[t] = key[u] => ~(state[t] = "running" /\ state[u] = "running")

\* A task begins only when every task of its key that came before is over.
InOrder ==
    \A t, u \in Tasks :
        key[t] = key[u] /\ ticket[t] < ticket[u] /\ state[u] \notin {"new", "queued"}
            => state[t] \in Settled

\* The map keeps a lane exactly as long as a task of it is not settled
\* (getSerializedLaneCount).
LanesDropped ==
    \A k \in Keys : (lanes[k] = None) <=> (\A t \in Of(k) : state[t] \in Settled)

\* Whatever becomes of the tasks before it, a task handed in is run to its end.
TasksEnd == \A t \in Tasks : state[t] = "queued" ~> state[t] \in Settled

\* The tasks of S in the order they came, the youngest last.
ByTicket(S, at) ==
    MapThenFoldSet(LAMBDA t, queue : Append(queue, t), << >>, LAMBDA t : t,
                   LAMBDA T : CHOOSE t \in T : \A u \in T : at[u] =< at[t], S)

\* The queue of a key: its tasks that have not ended.
Lane(k) == ByTicket(Unended(k), ticket)

Queues == INSTANCE LaneQueue WITH
    queue <- [k \in Keys |-> Lane(k)],
    begun <- {t \in Tasks : state[t] \notin {"new", "queued"}}

ImplementsQueues == Queues!Spec
=============================================================================
