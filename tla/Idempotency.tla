---------------------------- MODULE Idempotency -----------------------------
(***************************************************************************)
(* lib/idempotency.ts: withIdempotency around the handlers that place and  *)
(* cancel orders (routes/orders.ts), for requests that carry a key.        *)
(*                                                                         *)
(* A call is one delivery of a request to the server; a retry or a         *)
(* duplicate is another call with the same key.  Calls overlap, each step  *)
(* is one statement of the wrapper on the IdempotencyKey table, and the    *)
(* handler is one step.  It catches its own errors, so that it always      *)
(* answers.  A key stands for one owner and scope.                         *)
(***************************************************************************)
CONSTANTS
    Calls,     \* deliveries of requests
    Keys,      \* (ownerType, ownerId, scope, key)
    Payloads,  \* request hashes
    Nobody     \* stands for no call, no record, no answer

Refusals == {"mismatch", "inProgress"}

Record == [by : Calls, hash : Payloads, state : {"PENDING", "COMPLETED"}]

Request == [key : Keys, hash : Payloads]

ASSUME IdempotencyAssumption ==
    /\ Nobody \notin Calls \cup Record \cup Request \cup Refusals
    /\ Calls \cap Refusals = {}

VARIABLES
    record,     \* the row of each key
    pc,         \* what a call does next
    request,    \* its key and payload
    told,       \* the answer it has sent: a refusal, or the answer of a handler,
                \* named by the call that ran it
    ran         \* calls whose handler has run and may have changed the exchange

vars == <<record, pc, request, told, ran>>

Init ==
    /\ record = [k \in Keys |-> Nobody]
    /\ pc = [c \in Calls |-> "new"]
    /\ request = [c \in Calls |-> Nobody]
    /\ told = [c \in Calls |-> Nobody]
    /\ ran = {}

Row(c) == record[request[c].key]

-----------------------------------------------------------------------------
Arrive(c, r) ==
    /\ pc[c] = "new"
    /\ request' = [request EXCEPT ![c] = r]
    /\ pc' = [pc EXCEPT ![c] = "find"]
    /\ UNCHANGED <<record, told, ran>>

\* Wrong on purpose: the payload is not compared, or the refusals are swapped.
AnswerFor_AnyPayload(c, row) ==
    IF row = Nobody THEN "mismatch"
    ELSE IF row.state = "COMPLETED" THEN row.by ELSE "inProgress"
\* What a call is told when the key is taken.  A row that has gone since has no hash
\* that could be the call's.
AnswerFor(c, row) ==
    IF row = Nobody THEN "mismatch"
    ELSE IF row.hash # request[c].hash THEN "mismatch"
    ELSE IF row.state = "COMPLETED" THEN row.by ELSE "inProgress"

\* findRecord, before anything is written.
Find(c) ==
    /\ pc[c] = "find"
    /\ IF Row(c) = Nobody
       THEN pc' = [pc EXCEPT ![c] = "create"] /\ UNCHANGED told
       ELSE /\ told' = [told EXCEPT ![c] = AnswerFor(c, Row(c))]
            /\ pc' = [pc EXCEPT ![c] = "over"]
    /\ UNCHANGED <<record, request, ran>>

\* Wrong on purpose: the row is written over instead.
MayCreate_Upsert(c) == TRUE

\* The unique index on the key.
MayCreate(c) == Row(c) = Nobody

\* createPending, and its P2002 when another call has claimed the key since.
Create(c) ==
    /\ pc[c] = "create"
    /\ IF MayCreate(c)
       THEN /\ record' = [record EXCEPT ![request[c].key] =
                             [by |-> c, hash |-> request[c].hash, state |-> "PENDING"]]
            /\ pc' = [pc EXCEPT ![c] = "run"]
       ELSE pc' = [pc EXCEPT ![c] = "findAgain"] /\ UNCHANGED record
    /\ UNCHANGED <<request, told, ran>>

\* Wrong on purpose: waits until the other call is over.
FindAgain_Waits(c) ==
    /\ pc[c] = "findAgain"
    /\ Row(c) # Nobody /\ Row(c).state = "COMPLETED"
    /\ told' = [told EXCEPT ![c] = AnswerFor(c, Row(c))]
    /\ pc' = [pc EXCEPT ![c] = "over"]
    /\ UNCHANGED <<record, request, ran>>

FindAgain(c) ==
    /\ pc[c] = "findAgain"
    /\ told' = [told EXCEPT ![c] = AnswerFor(c, Row(c))]
    /\ pc' = [pc EXCEPT ![c] = "over"]
    /\ UNCHANGED <<record, request, ran>>

\* handler(req, res): an order is placed or cancelled, or it is refused, and the client
\* is answered.
Run(c) ==
    /\ pc[c] = "run"
    /\ ran' = ran \cup {c}
    /\ told' = [told EXCEPT ![c] = c]
    /\ pc' = [pc EXCEPT ![c] = "complete"]
    /\ UNCHANGED <<record, request>>

\* markCompleted updates the row by its id, and throws when it is not there.
Complete(c) ==
    /\ pc[c] = "complete"
    /\ Row(c) # Nobody
    /\ Row(c).by = c
    /\ record' = [record EXCEPT ![request[c].key].state = "COMPLETED"]
    /\ pc' = [pc EXCEPT ![c] = "over"]
    /\ UNCHANGED <<request, told, ran>>

\* The answer cannot be stored.
CompleteFails(c) ==
    /\ pc[c] = "complete"
    /\ pc' = [pc EXCEPT ![c] = "clear"]
    /\ UNCHANGED <<record, request, told, ran>>

\* clearPending, whose own failure is swallowed.  The call ends in an error, though its
\* client has been answered.
Clear(c) ==
    /\ pc[c] = "clear"
    /\ \/ Row(c) # Nobody /\ Row(c).by = c /\ record' = [record EXCEPT ![request[c].key] = Nobody]
       \/ UNCHANGED record
    /\ pc' = [pc EXCEPT ![c] = "unstored"]
    /\ UNCHANGED <<request, told, ran>>

\* The process stops during the call, or another statement than the completion fails;
\* a handler that was running may have changed the exchange, but has not answered.
Crash(c) ==
    /\ pc[c] \notin {"new", "over", "unstored"}
    /\ ran' \in {ran, ran \cup {d \in {c} : pc[d] = "run"}}
    /\ pc' = [pc EXCEPT ![c] = "over"]
    /\ UNCHANGED <<record, request, told>>

Proceed(c) ==
    Find(c) \/ Create(c) \/ FindAgain(c) \/ Run(c) \/ Complete(c) \/ CompleteFails(c) \/ Clear(c)

Next == \E c \in Calls : Proceed(c) \/ Crash(c) \/ \E r \in Request : Arrive(c, r)

Spec == Init /\ [][Next]_vars

\* A call that has arrived is worked on until it is over.
FairSpec == Spec /\ \A c \in Calls : WF_vars(Proceed(c))
=============================================================================
