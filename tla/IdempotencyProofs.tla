------------------------- MODULE IdempotencyProofs --------------------------
(***************************************************************************)
(* For any calls, keys and payloads: handlers run at most once for a key   *)
(* unless an answer could not be stored, and an answer goes only to the    *)
(* payload it was computed for, whether or not it could.                   *)
(*                                                                         *)
(* The row is what ties calls together: it names the one call that may run *)
(* or has run, with that call's payload.  Only clearing breaks the tie,    *)
(* and it leaves the call that clears marked.                              *)
(***************************************************************************)
EXTENDS IdempotencyProperties, TLAPS

\* A call that has arrived has a request, and has said nothing before its end.
Arrived ==
    \A c \in Calls :
        /\ pc[c] = "new" <=> request[c] = Nobody
        /\ pc[c] \notin {"complete", "clear", "over", "unstored"} => told[c] = Nobody

\* A row describes the call that made it; a completed row holds an answer given.
RowsDescribe ==
    \A k \in Keys : record[k] # Nobody =>
        /\ request[record[k].by] = [key |-> k, hash |-> record[k].hash]
        /\ record[k].state = "COMPLETED" => told[record[k].by] = record[k].by

\* A call about to complete has answered.
Answered == \A c \in Calls : pc[c] = "complete" => told[c] = c

\* Whoever has run, or is about to, owns the row of its key until it has cleared it.
Owns(c) == request[c] # Nobody /\ Row(c) # Nobody /\ Row(c).by = c

Claimed ==
    \A c \in Calls :
        \/ pc[c] \in {"run", "complete", "clear"}
        \/ c \in ran /\ pc[c] # "unstored"
        => Owns(c)

AInv == TypeOK /\ Arrived /\ RowsDescribe /\ Answered /\ AnswersItsPayload

\* What AnswerFor returns: a refusal, or the owner of a completed row with the same
\* payload.
LEMMA AnswerForReturns ==
    ASSUME AInv, NEW c \in Calls, request[c] \in Request
    PROVE  /\ AnswerFor(c, Row(c)) \in Calls \cup Refusals
           /\ \A d \in Calls : AnswerFor(c, Row(c)) = d =>
                  /\ request[d] = request[c]
                  /\ told[d] = d
<1>1. request[c].key \in Keys /\ request[c].hash \in Payloads
      /\ request[c] = [key |-> request[c].key, hash |-> request[c].hash]
  BY DEF Request
<1>2. Row(c) \in Record \cup {Nobody}
  BY <1>1 DEF AInv, TypeOK, Row
<1>3. CASE Row(c) = Nobody \/ Row(c).hash # request[c].hash \/ Row(c).state # "COMPLETED"
  BY <1>2, <1>3, IdempotencyAssumption DEF AnswerFor, Refusals
<1>4. CASE /\ Row(c) # Nobody /\ Row(c).hash = request[c].hash
           /\ Row(c).state = "COMPLETED"
  <2>1. AnswerFor(c, Row(c)) = Row(c).by /\ Row(c).by \in Calls
    BY <1>2, <1>4 DEF AnswerFor, Record
  <2>2. /\ request[Row(c).by] = [key |-> request[c].key, hash |-> Row(c).hash]
        /\ told[Row(c).by] = Row(c).by
    BY <1>1, <1>4 DEF AInv, RowsDescribe, Row
  <2> QED BY <1>1, <1>4, <2>1, <2>2
<1> QED BY <1>3, <1>4

\* Nothing has arrived yet.
LEMMA InitHolds == Init => AInv /\ Claimed
  BY IdempotencyAssumption
  DEF Init, AInv, TypeOK, Arrived, RowsDescribe, Answered, AnswersItsPayload, Claimed,
      Steps, Refusals

\* A call that refuses or replays ends and changes no row.
LEMMA ReplyHolds ==
    ASSUME AInv, NEW c \in Calls, pc[c] \in {"find", "findAgain"},
           told' = [told EXCEPT ![c] = AnswerFor(c, Row(c))],
           pc' = [pc EXCEPT ![c] = "over"], UNCHANGED <<record, request, ran>>
    PROVE  AInv'
<1> USE IdempotencyAssumption
<1>1. request[c] \in Request
  BY DEF AInv, TypeOK, Arrived
<1>2. /\ AnswerFor(c, Row(c)) \in Calls \cup Refusals
      /\ \A d \in Calls : AnswerFor(c, Row(c)) = d => request[d] = request[c] /\ told[d] = d
  BY <1>1, AnswerForReturns
<1> DEFINE answer == AnswerFor(c, Row(c))
<1>3. told' = [told EXCEPT ![c] = answer]
  OBVIOUS
<1> HIDE DEF answer
<1>4. /\ answer \in Calls \cup Refusals /\ answer # Nobody
      /\ \A d \in Calls : answer = d => request[d] = request[c] /\ told[d] = d
  BY <1>2 DEF answer
<1>5. TypeOK'
  <2>1. pc' \in [Calls -> Steps]
    BY DEF AInv, TypeOK, Steps
  <2>2. told' \in [Calls -> Calls \cup Refusals \cup {Nobody}]
    BY <1>3, <1>4 DEF AInv, TypeOK
  <2> QED BY <2>1, <2>2 DEF AInv, TypeOK
<1>6. Arrived'
  BY <1>1, <1>3, <1>4 DEF AInv, TypeOK, Arrived
<1>7. \A d \in Calls : d # c => told'[d] = told[d]
  BY <1>3 DEF AInv, TypeOK
<1>8. told[c] = Nobody /\ told'[c] = answer
  BY <1>3 DEF AInv, TypeOK, Arrived
<1>9. \A d \in Calls : told[d] = d => told'[d] = d
  BY <1>7, <1>8
<1>10. RowsDescribe'
  <2>1. \A k \in Keys : record[k] # Nobody => record[k].by \in Calls
    BY DEF AInv, TypeOK, Record
  <2> QED BY <1>9, <2>1 DEF AInv, RowsDescribe
<1>11. Answered'
  BY <1>7 DEF AInv, TypeOK, Answered
<1>12. AnswersItsPayload'
  <2>1. SUFFICES ASSUME NEW b \in Calls, NEW d \in Calls, told'[b] = d
                 PROVE  request[b].key = request[d].key /\ request[b].hash = request[d].hash
                        /\ told'[d] = d
    BY DEF AnswersItsPayload, SameKey
  <2>2. CASE b = c
    BY <1>4, <1>8, <1>9, <2>1, <2>2
  <2>3. CASE b # c
    BY <1>7, <1>9, <2>1, <2>3 DEF AInv, AnswersItsPayload, SameKey
  <2> QED BY <2>2, <2>3
<1> QED BY <1>5, <1>6, <1>10, <1>11, <1>12 DEF AInv

\* Every step keeps what the answers rest on.
LEMMA AnswersStep == AInv /\ [Next]_vars => AInv'
<1> USE IdempotencyAssumption
<1> SUFFICES ASSUME AInv, [Next]_vars PROVE AInv'
  OBVIOUS
<1>1. ASSUME NEW c \in Calls, NEW r \in Request, Arrive(c, r) PROVE AInv'
  <2>1. /\ request' = [request EXCEPT ![c] = r] /\ request[c] = Nobody /\ r # Nobody
        /\ pc' = [pc EXCEPT ![c] = "find"] /\ UNCHANGED <<record, told, ran>>
        /\ told[c] = Nobody
    BY <1>1 DEF AInv, TypeOK, Arrived, Arrive
  <2>2. \A d \in Calls : request[d] # Nobody => request'[d] = request[d]
    BY <2>1 DEF AInv, TypeOK
  <2>3. TypeOK' /\ Arrived' /\ Answered'
    BY <2>1 DEF AInv, TypeOK, Arrived, Answered, Steps
  <2>4. RowsDescribe'
    <3>1. SUFFICES ASSUME NEW k \in Keys, record[k] # Nobody
                   PROVE  /\ request'[record[k].by] = [key |-> k, hash |-> record[k].hash]
                          /\ record[k].state = "COMPLETED"
                                 => told[record[k].by] = record[k].by
      BY <2>1 DEF RowsDescribe
    <3>2. record[k].by \in Calls /\ record[k].hash \in Payloads
      BY <3>1 DEF AInv, TypeOK, Record
    <3>3. request[record[k].by] = [key |-> k, hash |-> record[k].hash]
      BY <3>1 DEF AInv, RowsDescribe
    <3>4. request[record[k].by] # Nobody
      BY <3>2, <3>3 DEF Request
    <3> QED BY <2>2, <3>1, <3>2, <3>3, <3>4 DEF AInv, RowsDescribe
  <2>5. AnswersItsPayload'
    <3>1. \A b, d \in Calls : told[b] = d => told[d] = d /\ b # c /\ d # c
      BY <2>1 DEF AInv, AnswersItsPayload
    <3> QED BY <2>1, <3>1 DEF AInv, TypeOK, AnswersItsPayload, SameKey
  <2> QED BY <2>3, <2>4, <2>5 DEF AInv
<1>2. ASSUME NEW c \in Calls, Find(c) PROVE AInv'
  <2>1. CASE Row(c) = Nobody
    BY <1>2, <2>1 DEF AInv, TypeOK, Arrived, RowsDescribe, Answered, AnswersItsPayload,
                      SameKey, Steps, Find
  <2>2. CASE Row(c) # Nobody
    BY <1>2, <2>2, ReplyHolds DEF Find
  <2> QED BY <2>1, <2>2
<1>3. ASSUME NEW c \in Calls, Create(c) PROVE AInv'
  <2>1. request[c] \in Request /\ pc[c] = "create" /\ UNCHANGED <<request, told, ran>>
    BY <1>3 DEF AInv, TypeOK, Arrived, Create
  <2>2. request[c].key \in Keys /\ request[c].hash \in Payloads
        /\ request[c] = [key |-> request[c].key, hash |-> request[c].hash]
    BY <2>1 DEF Request
  <2>3. CASE MayCreate(c)
    <3>1. /\ record' = [record EXCEPT ![request[c].key] =
                           [by |-> c, hash |-> request[c].hash, state |-> "PENDING"]]
          /\ pc' = [pc EXCEPT ![c] = "run"]
      BY <1>3, <2>3 DEF Create
    <3>2. TypeOK'
      BY <2>1, <2>2, <3>1 DEF AInv, TypeOK, Steps, Record
    <3>3. Arrived' /\ Answered' /\ AnswersItsPayload'
      BY <2>1, <3>1 DEF AInv, TypeOK, Arrived, Answered, AnswersItsPayload, SameKey
    <3>4. RowsDescribe'
      BY <2>1, <2>2, <3>1 DEF AInv, TypeOK, RowsDescribe
    <3> QED BY <3>2, <3>3, <3>4 DEF AInv
  <2>4. CASE ~MayCreate(c)
    BY <1>3, <2>4 DEF AInv, TypeOK, Arrived, RowsDescribe, Answered, AnswersItsPayload,
                      SameKey, Steps, Create
  <2> QED BY <2>3, <2>4
<1>4. ASSUME NEW c \in Calls, FindAgain(c) PROVE AInv'
  BY <1>4, ReplyHolds DEF FindAgain
<1>5. ASSUME NEW c \in Calls, Run(c) PROVE AInv'
  <2>1. /\ told' = [told EXCEPT ![c] = c] /\ told[c] = Nobody
        /\ pc' = [pc EXCEPT ![c] = "complete"] /\ pc[c] = "run"
        /\ UNCHANGED <<record, request>> /\ ran' = ran \cup {c}
    BY <1>5 DEF AInv, Arrived, Run
  <2>2. TypeOK' /\ Arrived' /\ Answered'
    BY <2>1 DEF AInv, TypeOK, Arrived, Answered, Steps
  <2>3. RowsDescribe'
    BY <2>1 DEF AInv, TypeOK, RowsDescribe, Record
  <2>4. AnswersItsPayload'
    BY <2>1 DEF AInv, TypeOK, AnswersItsPayload, SameKey
  <2> QED BY <2>2, <2>3, <2>4 DEF AInv
<1>6. ASSUME NEW c \in Calls, Complete(c) PROVE AInv'
  <2>1. /\ request[c] \in Request /\ told[c] = c
        /\ Row(c) # Nobody /\ Row(c).by = c /\ UNCHANGED <<request, told, ran>>
        /\ record' = [record EXCEPT ![request[c].key].state = "COMPLETED"]
        /\ pc' = [pc EXCEPT ![c] = "over"] /\ pc[c] = "complete"
    BY <1>6 DEF AInv, TypeOK, Arrived, Answered, Complete
  <2>2. request[c].key \in Keys /\ Row(c) \in Record
    BY <2>1 DEF AInv, TypeOK, Request, Row
  <2> DEFINE new == [Row(c) EXCEPT !.state = "COMPLETED"]
  <2>3. record' = [record EXCEPT ![request[c].key] = new]
    BY <2>1, <2>2 DEF AInv, TypeOK, Row
  <2>4. new \in Record /\ new.by = Row(c).by /\ new.hash = Row(c).hash
    BY <2>2 DEF Record
  <2> HIDE DEF new
  <2>5. TypeOK'
    BY <2>1, <2>2, <2>3, <2>4 DEF AInv, TypeOK, Steps
  <2>6. Arrived' /\ Answered' /\ AnswersItsPayload'
    BY <2>1 DEF AInv, TypeOK, Arrived, Answered, AnswersItsPayload, SameKey
  <2>7. RowsDescribe'
    BY <2>1, <2>2, <2>3, <2>4 DEF AInv, TypeOK, RowsDescribe, Row
  <2> QED BY <2>5, <2>6, <2>7 DEF AInv
<1>7. ASSUME NEW c \in Calls, CompleteFails(c) PROVE AInv'
  BY <1>7 DEF AInv, TypeOK, Arrived, RowsDescribe, Answered, AnswersItsPayload, SameKey,
              Steps, CompleteFails
<1>8. ASSUME NEW c \in Calls, Clear(c) PROVE AInv'
  <2>1. /\ record' = record \/ record' = [record EXCEPT ![request[c].key] = Nobody]
        /\ pc' = [pc EXCEPT ![c] = "unstored"] /\ pc[c] = "clear"
        /\ UNCHANGED <<request, told, ran>>
    BY <1>8 DEF Clear
  <2> QED BY <2>1 DEF AInv, TypeOK, Arrived, RowsDescribe, Answered, AnswersItsPayload,
                      SameKey, Steps
<1>9. ASSUME NEW c \in Calls, Crash(c) PROVE AInv'
  <2>1. /\ ran' \subseteq ran \cup {c} /\ pc' = [pc EXCEPT ![c] = "over"] /\ pc[c] # "new"
        /\ UNCHANGED <<record, request, told>>
    BY <1>9 DEF Crash
  <2> QED BY <2>1 DEF AInv, TypeOK, Arrived, RowsDescribe, Answered, AnswersItsPayload,
                      SameKey, Steps
<1>10. CASE UNCHANGED vars
  BY <1>10 DEF vars, AInv, TypeOK, Arrived, RowsDescribe, Answered, AnswersItsPayload, SameKey
<1> QED BY <1>1, <1>2, <1>3, <1>4, <1>5, <1>6, <1>7, <1>8, <1>9, <1>10 DEF Next, Proceed

\* An answer goes only to the payload it was computed for, even when answers cannot be
\* stored and keys are cleared.
THEOREM AnswersHold == Spec => []AnswersItsPayload
  BY InitHolds, AnswersStep, PTL DEF Spec, AInv

\* Every step keeps the row with the one call that may run.
LEMMA ClaimsStep ==
    ASSUME AInv, Claimed, [Next]_vars
    PROVE  Claimed'
<1> USE IdempotencyAssumption
<1>1. \A d \in Calls : Owns(d) => request[d].key \in Keys
  BY DEF AInv, TypeOK, Owns, Request
<1>2. ASSUME NEW c \in Calls, NEW r \in Request, Arrive(c, r) PROVE Claimed'
  <2>1. request[c] = Nobody
    BY <1>2 DEF AInv, Arrived, Arrive
  <2> QED BY <1>2, <2>1 DEF AInv, TypeOK, Claimed, Owns, Row, Arrive
<1>3. ASSUME NEW c \in Calls, Find(c) \/ FindAgain(c) PROVE Claimed'
  BY <1>3 DEF AInv, TypeOK, Claimed, Owns, Row, Find, FindAgain
<1>4. ASSUME NEW c \in Calls, Create(c) PROVE Claimed'
  <2>1. request[c] \in Request
    BY <1>4 DEF AInv, TypeOK, Arrived, Create
  <2>2. CASE MayCreate(c)
    <3> DEFINE new == [by |-> c, hash |-> request[c].hash, state |-> "PENDING"]
    <3>1. /\ record' = [record EXCEPT ![request[c].key] = new]
          /\ pc' = [pc EXCEPT ![c] = "run"] /\ UNCHANGED <<request, ran>>
          /\ record[request[c].key] = Nobody /\ request[c].key \in Keys
      BY <1>4, <2>1, <2>2 DEF Create, MayCreate, Row, Request
    <3>2. new \in Record /\ new.by = c /\ new # Nobody
      BY <2>1 DEF Record, Request
    <3> HIDE DEF new
    <3>3. \A d \in Calls : Owns(d) => request[d].key # request[c].key
      BY <3>1 DEF Owns, Row
    <3>4. \A d \in Calls : Owns(d) => Owns(d)'
      BY <1>1, <3>1, <3>3 DEF AInv, TypeOK, Owns, Row
    <3>5. Owns(c)'
      BY <2>1, <3>1, <3>2 DEF AInv, TypeOK, Owns, Row
    <3> QED BY <3>1, <3>4, <3>5 DEF AInv, TypeOK, Claimed
  <2>3. CASE ~MayCreate(c)
    BY <1>4, <2>3 DEF AInv, TypeOK, Claimed, Owns, Row, Create
  <2> QED BY <2>2, <2>3
<1>5. ASSUME NEW c \in Calls, Run(c) PROVE Claimed'
  BY <1>5 DEF AInv, TypeOK, Claimed, Owns, Row, Run
<1>6. ASSUME NEW c \in Calls, Complete(c) PROVE Claimed'
  <2>1. /\ record' = [record EXCEPT ![request[c].key].state = "COMPLETED"]
        /\ pc' = [pc EXCEPT ![c] = "over"] /\ pc[c] = "complete"
        /\ UNCHANGED <<request, ran>> /\ Row(c) # Nobody
    BY <1>6 DEF Complete
  <2>2. \A k \in Keys : record[k] # Nobody =>
            record'[k] # Nobody /\ record'[k].by = record[k].by
    <3>1. SUFFICES ASSUME NEW k \in Keys, record[k] # Nobody
                   PROVE  record'[k] \in Record /\ record'[k].by = record[k].by
      OBVIOUS
    <3>2. record[k] \in Record
      BY <3>1 DEF AInv, TypeOK
    <3> QED BY <2>1, <3>2 DEF AInv, TypeOK, Record
  <2> QED BY <1>1, <2>1, <2>2 DEF AInv, TypeOK, Claimed, Owns, Row
<1>7. ASSUME NEW c \in Calls, CompleteFails(c) PROVE Claimed'
  BY <1>7 DEF AInv, TypeOK, Claimed, Owns, Row, CompleteFails
<1>8. ASSUME NEW c \in Calls, Clear(c) PROVE Claimed'
  <2>1. /\ record' = record \/ record' = [record EXCEPT ![request[c].key] = Nobody]
        /\ pc' = [pc EXCEPT ![c] = "unstored"] /\ pc[c] = "clear"
        /\ UNCHANGED <<request, ran>>
    BY <1>8 DEF Clear
  <2>2. Owns(c)
    BY <2>1 DEF Claimed
  <2>3. \A d \in Calls \ {c} : Owns(d) => request[d].key # request[c].key
    BY <2>2 DEF Owns, Row
  <2>4. \A d \in Calls \ {c} : Owns(d) => Owns(d)'
    BY <1>1, <2>1, <2>2, <2>3 DEF AInv, TypeOK, Owns, Row
  <2> QED BY <2>1, <2>4 DEF AInv, TypeOK, Claimed
<1>9. ASSUME NEW c \in Calls, Crash(c) PROVE Claimed'
  <2>1. /\ pc' = [pc EXCEPT ![c] = "over"] /\ pc[c] # "unstored"
        /\ UNCHANGED <<record, request>>
        /\ \A d \in ran' : d \in ran \/ (d = c /\ pc[c] = "run")
    BY <1>9 DEF Crash
  <2> QED BY <2>1 DEF AInv, TypeOK, Claimed, Owns, Row
<1>10. CASE UNCHANGED vars
  BY <1>10 DEF vars, Claimed, Owns, Row
<1> QED BY <1>2, <1>3, <1>4, <1>5, <1>6, <1>7, <1>8, <1>9, <1>10 DEF Next, Proceed

\* A command sent any number of times runs at most once, whatever overlaps or crashes,
\* unless the answer of a handler could not be stored.
THEOREM AtMostOnce == Spec => []RunsAtMostOnce
<1>1. AInv /\ Claimed /\ [Next]_vars => (AInv /\ Claimed)'
  BY AnswersStep, ClaimsStep
<1>2. AInv /\ Claimed => RunsAtMostOnce
  BY DEF AInv, TypeOK, Claimed, Owns, Row, RunsAtMostOnce, SameKey
<1> QED BY InitHolds, <1>1, <1>2, PTL DEF Spec
=============================================================================
