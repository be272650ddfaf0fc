----------------------- MODULE IdempotencyProperties ------------------------
(***************************************************************************)
(* What Idempotency is checked for.                                        *)
(***************************************************************************)
EXTENDS Idempotency

Steps == {"new", "find", "create", "findAgain", "run", "complete", "clear", "over",
          "unstored"}

TypeOK ==
    /\ record \in [Keys -> Record \cup {Nobody}]
    /\ pc \in [Calls -> Steps]
    /\ request \in [Calls -> Request \cup {Nobody}]
    /\ told \in [Calls -> Calls \cup Refusals \cup {Nobody}]
    /\ ran \subseteq Calls

SameKey(c, d) == request[c].key = request[d].key

\* A command takes effect at most once however often it is sent: no two handlers run
\* for a key, whatever overlaps, is repeated or crashes, unless the answer of one of them
\* could not be stored.
RunsAtMostOnce ==
    \A c, d \in ran : SameKey(c, d) => c = d \/ "unstored" \in {pc[c], pc[d]}

\* An answer is replayed only to the payload it was computed for, and only after the
\* handler has given it.
AnswersItsPayload ==
    \A c, d \in Calls :
        told[c] = d => SameKey(c, d) /\ request[c].hash = request[d].hash /\ told[d] = d

\* Every call ends.
CallsEnd == \A c \in Calls : pc[c] = "find" ~> pc[c] \in {"over", "unstored"}
=============================================================================
