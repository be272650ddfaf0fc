-------------------------- MODULE ExchangeProofs --------------------------
(***************************************************************************)
(* What TLAPS proves of Exchange for every value of its constants, any     *)
(* number of clients and orders included.                                  *)
(*                                                                         *)
(*  1. The inductive invariant IInv says what a request in progress may    *)
(*     rely on although other requests commit and roll back beside it: the *)
(*     rows it has in hand stay rows, an order that is being submitted     *)
(*     belongs to its own transaction alone, and the quantity the taker    *)
(*     still wants and the status it has written are those its own fills   *)
(*     imply.  From it: types, and time in force.                          *)
(*  2. LockInv adds the order in which rows are locked: no deadlock.       *)
(*  3. Finite sums, of which the properties about money are made.          *)
(*  4. MoneyInv: the accounts of an asset hold what was given.             *)
(*  5. HeldInv: what an open submission has posted to the held accounts is *)
(*     what its fills and its status imply.                                *)
(*  6. SerialInv, of requests that do not overlap: the rest of the         *)
(*     properties, each of which fails when they do.                       *)
(*  7. Exchange implements OrderLifecycle.                                 *)
(***************************************************************************)
EXTENDS ExchangeProperties, FiniteSetTheorems, WellFoundedInduction, TLAPS

Submitting(c) == req[c].kind = "submit"

\* A row that client c may write: a committed one, or the one it is inserting.
Writable(c, o) == o \in Ids /\ (status[o] # "NONE" \/ (Submitting(c) /\ o = req[c].id))

RowsInv ==
    \A o \in Ids :
        /\ status[o] # "NONE" => order[o] \in OrderRow /\ o < nextId
        /\ status[o] = "NONE" => executed[o] = 0

\* The steps each kind of request goes through.
PhaseInv(c) ==
    /\ req[c].kind = "none" => pc[c] = "idle"
    /\ req[c].kind = "submit" =>
           pc[c] \in {"match", "fok", "fill", "settle", "syncRead", "syncWrite",
                      "cancelRest", "commit"}
    /\ req[c].kind = "cancel" => pc[c] \in {"releaseHold", "cancelWrite", "commit"}
    /\ req[c].kind = "demo" =>
           pc[c] \in {"settle", "syncRead", "syncWrite", "residual", "reconcile", "commit"}

WritesInv(c) ==
    \A o \in Ids : wStatus[c][o] # "NONE" \/ dExec[c][o] # 0 => Writable(c, o)

\* An order being submitted is a row of this transaction only.
OwnRowInv(c) ==
    Submitting(c) =>
        /\ req[c].id \in Ids
        /\ req[c].id < nextId
        /\ order[req[c].id] \in OrderRow
        /\ status[req[c].id] = "NONE"

\* The rows named by the request's variables exist.
TargetsInv(c) ==
    /\ \A m \in req[c].makers :
           /\ status[m] # "NONE"
           /\ Submitting(c)
           /\ order[m].side = Opposite(order[req[c].id].side)
    /\ pc[c] \in {"settle", "syncRead", "syncWrite", "residual", "reconcile"} =>
           /\ Writable(c, req[c].buy) /\ order[req[c].buy].side = "BUY"
           /\ Writable(c, req[c].sell) /\ order[req[c].sell].side = "SELL"
    /\ pc[c] \in {"releaseHold", "cancelWrite"} =>
           req[c].id \in Ids /\ status[req[c].id] # "NONE"

\* The status its own fills imply for the order being submitted.
Implied(c) == DeriveStatus("OPEN", order[req[c].id].qty, dExec[c][req[c].id])

\* The last fill has not yet been written into the taker's row.
Unsynced(c) ==
    /\ pc[c] \in {"settle", "syncRead", "syncWrite"}
    /\ pc[c] = "settle" \/ req[c].sync = "BUY" \/ order[req[c].id].side = "SELL"

\* How far the matching of a submitted order has come.
MatchingInv(c) ==
    LET o == req[c].id IN
    Submitting(c) =>
        /\ pc[c] \in {"match", "fok"} => dExec[c][o] = 0 /\ wStatus[c][o] = "OPEN"
        /\ pc[c] = "fok" => req[c].remaining = order[o].qty
        /\ pc[c] \in {"fill", "settle", "syncRead", "syncWrite", "cancelRest"} =>
               dExec[c][o] + req[c].remaining = order[o].qty
        /\ pc[c] \in {"settle", "syncRead", "syncWrite"} => o \in {req[c].buy, req[c].sell}
        /\ Unsynced(c) => wStatus[c][o] \in Resting
        /\ pc[c] = "syncWrite" /\ SyncedOrder(c) = o => req[c].next = Implied(c)
        /\ pc[c] \in {"fill", "settle", "syncRead", "syncWrite", "cancelRest"} /\ ~Unsynced(c)
               => wStatus[c][o] = Implied(c)
        /\ pc[c] = "cancelRest" => order[o].tif \in {"IOC", "FOK"}

\* What the row looks like when it is committed.
OutcomeInv(c) ==
    LET o == req[c].id IN
    Submitting(c) =>
        /\ order[o].tif = "POST_ONLY" =>
               /\ pc[c] \in {"match", "fill", "commit"}
               /\ req[c].makers = {} /\ dExec[c][o] = 0 /\ wStatus[c][o] = "OPEN"
        /\ pc[c] = "commit" =>
               /\ order[o].tif \in {"IOC", "FOK"} => wStatus[c][o] \in {"FILLED", "CANCELLED"}
               /\ order[o].tif = "GTC" => wStatus[c][o] \in Resting \cup {"FILLED"}

ClientInv(c) ==
    /\ PhaseInv(c)
    /\ WritesInv(c)
    /\ OwnRowInv(c)
    /\ TargetsInv(c)
    /\ MatchingInv(c)
    /\ OutcomeInv(c)

DistinctInv ==
    \A c, d \in Clients : c # d /\ Submitting(c) /\ Submitting(d) => req[c].id # req[d].id

IInv ==
    /\ TypeOK
    /\ RowsInv
    /\ \A c \in Clients : ClientInv(c)
    /\ DistinctInv

-----------------------------------------------------------------------------
(* What the operators of the model return.                                 *)

\* The assumption on the constants but for the exactness of fees.
LEMMA ConstantTypes ==
    /\ MaxOrders \in Nat
    /\ Prices \subseteq Nat \ {0} /\ Qtys \subseteq Nat \ {0} /\ Tifs \subseteq TimeInForce
    /\ FeeBps \subseteq Nat /\ DemoPrices \subseteq Nat \ {0}
    /\ BaseFunds \in Nat /\ QuoteFunds \in Nat
  BY ExchangeAssumption DEF ExchangeAssumption

\* The columns of an Order row, and the accounts its hold moves between.
LEMMA RowColumns ==
    ASSUME NEW row \in OrderRow
    PROVE  /\ row.user \in Users /\ row.side \in Side /\ row.tif \in TimeInForce
           /\ row.price \in Nat \ {0} /\ row.qty \in Nat \ {0}
           /\ AvailableOf(row) \in Account /\ HeldOf(row) \in Account
           /\ Available(row.user, "base") \in Account
           /\ Available(row.user, "quote") \in Account
<1>1. row.user \in Users /\ row.side \in Side /\ row.tif \in TimeInForce
      /\ row.price \in Nat \ {0} /\ row.qty \in Nat \ {0}
  <2>1. /\ row.user \in Users /\ row.side \in Side /\ row.tif \in Tifs
        /\ row.price \in Prices /\ row.qty \in Qtys
    BY DEF OrderRow
  <2> QED
    BY <2>1, ConstantTypes
<1>2. HoldAsset(row.side) \in Asset
  BY DEF HoldAsset, Asset
<1> QED
  BY <1>1, <1>2 DEF AvailableOf, HeldOf, Available, Held, Account, Asset

\* A hold is an amount.
LEMMA HoldIsNat ==
    ASSUME NEW row \in OrderRow, NEW qty \in Nat
    PROVE  HoldOf(row, qty) \in Nat
<1>1. row.price \in Nat
  BY RowColumns
<1>2. row.price * qty \in Nat
  BY <1>1
<1> QED
  BY <1>2 DEF HoldOf, HoldAmount

\* A posted transaction leaves a balance for every account.
LEMMA MoveIsMoves ==
    ASSUME NEW moves \in [Account -> Int], NEW from \in Account, NEW to \in Account,
           NEW amount \in Int
    PROVE  Move(moves, from, to, amount) \in [Account -> Int]
  BY DEF Move

\* deriveOrderStatus returns a status.
LEMMA DeriveIsStatus ==
    ASSUME NEW s, NEW qty \in Nat, NEW e \in Nat
    PROVE  DeriveStatus(s, qty, e) \in Status
  BY DEF DeriveStatus, Status

\* A fee, an improvement and a residual hold are amounts.
LEMMA AmountsAreInt ==
    ASSUME NEW a \in Nat, NEW b \in Nat, NEW q \in Nat, NEW e \in Nat
    PROVE  /\ QuoteFee(a, b) \in Int
           /\ PriceImprovement(a, b, q) \in Int
           /\ ResidualHold(q, a, e, b) \in Int
<1>1. a * b \in Nat /\ q * a \in Nat
  OBVIOUS
<1>2. QuoteFee(a, b) \in Int
  BY <1>1 DEF QuoteFee
<1>3. (a - b) * q \in Int
  OBVIOUS
<1>4. PriceImprovement(a, b, q) \in Int
  BY <1>3 DEF PriceImprovement
<1>5. ResidualHold(q, a, e, b) \in Int
  BY <1>1 DEF ResidualHold
<1> QED
  BY <1>2, <1>4, <1>5

\* A row an open transaction sees has a status as soon as anybody may write it.
LEMMA SeenIsStatus ==
    ASSUME TypeOK, NEW c \in Clients, NEW o \in Ids
    PROVE  /\ StatusSeen(c, o) \in Status \cup {"NONE"}
           /\ status[o] # "NONE" => StatusSeen(c, o) # "NONE"
           /\ ExecutedSeen(c, o) \in Nat
<1>1. ExecutedSeen(c, o) \in Nat
  BY DEF TypeOK, ExecutedSeen
<1> QED
  BY <1>1 DEF TypeOK, StatusSeen

-----------------------------------------------------------------------------
(* The initial state.                                                      *)

\* The local variables of a handler before a request comes.
LEMMA NoRequestIsTyped ==
    /\ NoRequest \in RequestType
    /\ NoRequest.kind = "none" /\ NoRequest.makers = {}
  BY ConstantTypes DEF NoRequest, RequestType, Kinds, Side

\* The initial state satisfies the inductive invariant.
LEMMA InitIInv == Init => IInv
<1> SUFFICES ASSUME Init PROVE IInv
  OBVIOUS
<1> USE DEF Init
<1>1. TypeOK
  <2>1. NoRequest \in RequestType
    BY NoRequestIsTyped
  <2>2. NoExec \in [Ids -> Nat] /\ NoMoves \in [Account -> Int]
        /\ NoWrites \in [Ids -> Status \cup {"NONE"}]
    BY DEF NoExec, NoMoves, NoWrites
  <2>3. bal \in [Account -> Int]
    BY ConstantTypes
  <2> QED
    BY <2>1, <2>2, <2>3 DEF TypeOK, Steps
<1>2. RowsInv
  BY DEF RowsInv, NoExec
<1>3. ASSUME NEW c \in Clients PROVE ClientInv(c)
  <2>1. req[c] = NoRequest /\ pc[c] = "idle" /\ dExec[c] = NoExec /\ wStatus[c] = NoWrites
    OBVIOUS
  <2>2. req[c].kind = "none" /\ req[c].makers = {}
    BY <2>1 DEF NoRequest
  <2> QED
    BY <2>1, <2>2 DEF ClientInv, PhaseInv, WritesInv, OwnRowInv, TargetsInv, MatchingInv,
                      OutcomeInv, Submitting, NoExec, NoWrites
<1>4. DistinctInv
  BY DEF DistinctInv, Submitting, NoRequest
<1> QED
  BY <1>1, <1>2, <1>3, <1>4 DEF IInv

-----------------------------------------------------------------------------
(* Steps of one client seen from the others.                               *)

\* A request keeps its invariant while others commit and roll back: committed
\* rows stay, and its own row is touched by nobody else.
LEMMA OthersKeep ==
    ASSUME IInv, NEW d \in Clients,
           pc'[d] = pc[d], req'[d] = req[d],
           dExec'[d] = dExec[d], wStatus'[d] = wStatus[d],
           nextId' \in Nat, nextId' >= nextId,
           \A o \in Ids : status[o] # "NONE" => status'[o] # "NONE" /\ order'[o] = order[o],
           Submitting(d) => /\ order'[req[d].id] = order[req[d].id]
                            /\ status'[req[d].id] = "NONE"
    PROVE  ClientInv(d)'
<1>1. ClientInv(d) /\ TypeOK
  BY DEF IInv
<1>2. req[d].makers \subseteq Ids /\ req[d].id \in 0..MaxOrders /\ nextId \in Nat
  BY <1>1 DEF TypeOK, RequestType
<1>3. Submitting(d)' <=> Submitting(d)
  BY DEF Submitting
<1>4. \A o : Writable(d, o) => Writable(d, o)'
  BY <1>3 DEF Writable
<1>5. PhaseInv(d)'
  BY <1>1 DEF ClientInv, PhaseInv
<1>6. WritesInv(d)'
  BY <1>1, <1>4 DEF ClientInv, WritesInv
<1>7. OwnRowInv(d)'
  BY <1>1, <1>2, <1>3, ConstantTypes DEF ClientInv, OwnRowInv, Ids
<1>8. TargetsInv(d)'
  <2>1. \A o : Writable(d, o) => order'[o] = order[o]
    BY DEF Writable
  <2> QED
    BY <1>1, <1>2, <1>3, <1>4, <2>1 DEF ClientInv, TargetsInv
<1>9. MatchingInv(d)'
  BY <1>1, <1>3 DEF ClientInv, MatchingInv, Unsynced, Implied, SyncedOrder
<1>10. OutcomeInv(d)'
  BY <1>1, <1>3 DEF ClientInv, OutcomeInv
<1> QED
  BY <1>5, <1>6, <1>7, <1>8, <1>9, <1>10 DEF ClientInv

\* Only the variables of client c's own request and transaction change.
LocalStep(c) ==
    /\ UNCHANGED <<nextId, order, dbVars>>
    /\ \A d \in Clients \ {c} :
           /\ pc'[d] = pc[d] /\ req'[d] = req[d]
           /\ dExec'[d] = dExec[d] /\ wStatus'[d] = wStatus[d]
    /\ req'[c].kind = "submit" => req[c].kind = "submit" /\ req'[c].id = req[c].id

\* After such a step only the types and c's own invariant are to be shown.
LEMMA LocalStepKeeps ==
    ASSUME IInv, NEW c \in Clients, LocalStep(c), TypeOK', ClientInv(c)'
    PROVE  IInv'
<1> USE DEF LocalStep, dbVars
<1>1. RowsInv'
  BY DEF IInv, RowsInv
<1>2. ASSUME NEW d \in Clients PROVE ClientInv(d)'
  <2>1. CASE d = c
    BY <2>1
  <2>2. CASE d # c
    <3>1. Submitting(d) => status[req[d].id] = "NONE"
      BY DEF IInv, ClientInv, OwnRowInv
    <3>2. nextId' \in Nat /\ nextId' >= nextId
      BY DEF IInv, TypeOK
    <3> QED
      BY <2>2, <3>1, <3>2, OthersKeep
  <2> QED
    BY <2>1, <2>2
<1>3. DistinctInv'
  BY DEF IInv, DistinctInv, Submitting
<1> QED
  BY <1>1, <1>2, <1>3 DEF IInv

-----------------------------------------------------------------------------
(* One lemma for each action.                                              *)

\* Reading the candidates keeps the invariant: they are committed rows of the
\* opposite side.
LEMMA MatchKeeps == ASSUME IInv, NEW c \in Clients, Match(c) PROVE IInv'
<1> DEFINE o == req[c].id
<1>0. TypeOK /\ ClientInv(c) /\ RowsInv
  BY DEF IInv
<1>1. pc[c] = "match" /\ Submitting(c) /\ o \in Ids /\ order[o] \in OrderRow
  BY <1>0 DEF Match, ClientInv, PhaseInv, OwnRowInv, Submitting, TypeOK, RequestType, Kinds
<1>2. order[o].qty \in Nat
  BY <1>1, RowColumns
<1>3. MatchingOrders(c, o) \subseteq Ids
  BY DEF MatchingOrders
<1>4. ASSUME NEW m \in MatchingOrders(c, o)
      PROVE  status[m] # "NONE" /\ order[m].side = Opposite(order[o].side)
  <2>1. m \in Ids /\ m # o /\ StatusSeen(c, m) # "NONE"
    BY DEF MatchingOrders, Resting
  <2>2. wStatus[c][m] # "NONE" => status[m] # "NONE"
    BY <1>0, <2>1 DEF ClientInv, WritesInv, Writable
  <2> QED
    BY <2>1, <2>2 DEF MatchingOrders, StatusSeen
<1>5. order[o].tif = "POST_ONLY" => MatchingOrders(c, o) = {}
  BY <1>1 DEF Match, Throws
<1>6. /\ req'[c] = [req[c] EXCEPT !.makers = MatchingOrders(c, o), !.remaining = order[o].qty]
      /\ pc'[c] = IF order[o].tif = "FOK" THEN "fok" ELSE "fill"
      /\ UNCHANGED <<nextId, order, dbVars, dExec, dBal, dRefs, wStatus>>
  BY <1>0 DEF Match, TypeOK
<1>7. TypeOK'
  <2>1. req'[c] \in RequestType
    <3>1. req[c] \in RequestType
      BY <1>0 DEF TypeOK
    <3> QED
      BY <1>2, <1>3, <1>6, <3>1 DEF RequestType
  <2> QED
    BY <1>0, <1>6, <2>1 DEF Match, TypeOK, dbVars, Steps
<1>8. LocalStep(c)
  BY <1>0, <1>6 DEF Match, LocalStep, TypeOK, RequestType
<1>9. ClientInv(c)'
  <2>1. req'[c].id = o /\ req'[c].kind = "submit" /\ req'[c].remaining = order[o].qty
        /\ req'[c].makers = MatchingOrders(c, o)
    BY <1>0, <1>1, <1>6 DEF TypeOK, RequestType, Submitting
  <2>2. PhaseInv(c)' /\ WritesInv(c)' /\ OwnRowInv(c)'
    BY <1>0, <1>1, <1>6, <2>1
       DEF ClientInv, PhaseInv, WritesInv, OwnRowInv, Writable, Submitting, dbVars
  <2>3. TargetsInv(c)'
    BY <1>4, <1>6, <2>1 DEF TargetsInv, Submitting, dbVars
  <2>4. MatchingInv(c)'
    <3>1. dExec[c][o] = 0 /\ wStatus[c][o] = "OPEN"
      BY <1>0, <1>1 DEF ClientInv, MatchingInv
    <3>2. DeriveStatus("OPEN", order[o].qty, 0) = "OPEN"
      BY <1>1, RowColumns DEF DeriveStatus
    <3> QED
      BY <1>2, <1>6, <2>1, <3>1, <3>2 DEF MatchingInv, Unsynced, Implied, Submitting
  <2>5. OutcomeInv(c)'
    BY <1>0, <1>1, <1>5, <1>6, <2>1 DEF ClientInv, OutcomeInv, MatchingInv, Submitting
  <2> QED
    BY <2>2, <2>3, <2>4, <2>5 DEF ClientInv
<1> QED
  BY <1>7, <1>8, <1>9, LocalStepKeeps

\* The taker of a request in the matching phases.
LEMMA Taker ==
    ASSUME IInv, NEW c \in Clients, Submitting(c)
    PROVE  /\ req[c].id \in Ids /\ order[req[c].id] \in OrderRow
           /\ order[req[c].id].qty \in Nat \ {0}
           /\ order[req[c].id].side \in Side
           /\ order[req[c].id].tif \in TimeInForce
           /\ dExec[c][req[c].id] \in Nat
           /\ req[c] \in RequestType /\ req[c].remaining \in Nat
<1>1. req[c].id \in Ids /\ order[req[c].id] \in OrderRow
  BY DEF IInv, ClientInv, OwnRowInv
<1>2. dExec[c][req[c].id] \in Nat /\ req[c] \in RequestType
  BY <1>1 DEF IInv, TypeOK
<1> QED
  BY <1>1, <1>2, RowColumns DEF RequestType

\* Passing the fill-or-kill check keeps the invariant.
LEMMA CheckFokKeeps == ASSUME IInv, NEW c \in Clients, CheckFok(c) PROVE IInv'
<1>0. TypeOK /\ ClientInv(c)
  BY DEF IInv
<1>1. pc[c] = "fok" /\ Submitting(c)
  BY <1>0 DEF CheckFok, ClientInv, PhaseInv, Submitting, TypeOK, RequestType, Kinds
<1>2. /\ pc'[c] = "fill"
      /\ UNCHANGED <<nextId, order, dbVars, req, dExec, dBal, dRefs, wStatus>>
  BY <1>0 DEF CheckFok, TypeOK
<1>3. TypeOK'
  BY <1>0, <1>2 DEF CheckFok, TypeOK, dbVars, Steps
<1>4. LocalStep(c)
  BY <1>0, <1>2 DEF CheckFok, LocalStep, TypeOK
<1>5. ClientInv(c)'
  <2>1. PhaseInv(c)' /\ WritesInv(c)' /\ OwnRowInv(c)' /\ TargetsInv(c)' /\ OutcomeInv(c)'
    BY <1>0, <1>1, <1>2
       DEF ClientInv, PhaseInv, WritesInv, OwnRowInv, TargetsInv, OutcomeInv, Writable,
           Submitting, dbVars
  <2>2. DeriveStatus("OPEN", order[req[c].id].qty, 0) = "OPEN"
    BY <1>1, Taker DEF DeriveStatus
  <2>3. MatchingInv(c)'
    BY <1>0, <1>1, <1>2, <2>2, Taker
       DEF ClientInv, MatchingInv, Unsynced, Implied, Submitting
  <2> QED
    BY <2>1, <2>3 DEF ClientInv
<1> QED
  BY <1>3, <1>4, <1>5, LocalStepKeeps

\* While the taker wants more, its own fills leave its row able to take them.
LEMMA WantingRests ==
    ASSUME IInv, NEW c \in Clients, Submitting(c), req[c].remaining > 0,
           dExec[c][req[c].id] + req[c].remaining = order[req[c].id].qty
    PROVE  Implied(c) \in Resting
  BY Taker DEF Implied, DeriveStatus, Resting

\* What the taker gains, it no longer wants.
LEMMA SameTotal ==
    ASSUME NEW a \in Nat, NEW b \in Nat, NEW q \in Nat, NEW n \in Nat, a + b = n
    PROVE  (a + q) + (b - q) = n
  OBVIOUS

\* One turn of the loop that trades q with maker m.
LEMMA FillMakerTrades ==
    ASSUME IInv, NEW c \in Clients, NEW m \in req[c].makers, NEW q \in Nat,
           pc[c] = "fill", req[c].remaining > 0, q =< req[c].remaining,
           UNCHANGED <<nextId, order, dbVars, dBal, dRefs, wStatus>>,
           pc' = [pc EXCEPT ![c] = "settle"],
           dExec' = [dExec EXCEPT ![c][m] = @ + q, ![c][req[c].id] = @ + q],
           req' \in [Clients -> RequestType],
           \A d \in Clients \ {c} : req'[d] = req[d],
           req'[c].kind = req[c].kind, req'[c].id = req[c].id,
           req'[c].makers = req[c].makers \ {m}, req'[c].remaining = req[c].remaining - q,
           req'[c].buy = (IF order[req[c].id].side = "BUY" THEN req[c].id ELSE m),
           req'[c].sell = (IF order[req[c].id].side = "BUY" THEN m ELSE req[c].id)
    PROVE  IInv'
<1> DEFINE o == req[c].id
           isBuy == order[o].side = "BUY"
<1>0. TypeOK /\ ClientInv(c) /\ RowsInv
  BY DEF IInv
<1>1. Submitting(c)
  BY <1>0 DEF ClientInv, PhaseInv, Submitting, TypeOK, RequestType, Kinds
<1>2. /\ m \in Ids /\ status[m] # "NONE" /\ order[m] \in OrderRow /\ m # o
      /\ order[m].side = Opposite(order[o].side)
  BY <1>0, <1>1 DEF ClientInv, TargetsInv, OwnRowInv, RowsInv, TypeOK, RequestType
<1>3. order[m].price \in Nat
  BY <1>2, RowColumns
<1>4. /\ o \in Ids /\ order[o].side \in Side /\ req[c] \in RequestType
      /\ dExec[c][o] \in Nat /\ req[c].remaining \in Nat
  BY <1>1, Taker
<1>5. /\ dExec'[c][o] = dExec[c][o] + q
      /\ \A p \in Ids \ {m, o} : dExec'[c][p] = dExec[c][p]
      /\ dExec'[c] \in [Ids -> Nat]
  BY <1>0, <1>2, <1>4 DEF TypeOK
<1>6. /\ req'[c].kind = "submit" /\ req'[c].id = o /\ req'[c].makers = req[c].makers \ {m}
      /\ req'[c].remaining = req[c].remaining - q
      /\ req'[c].buy = (IF isBuy THEN o ELSE m) /\ req'[c].sell = (IF isBuy THEN m ELSE o)
  BY <1>0, <1>1, <1>4 DEF TypeOK, RequestType, Submitting
<1>7. TypeOK'
  <2>3. dExec' \in [Clients -> [Ids -> Nat]]
    BY <1>0, <1>5 DEF TypeOK
  <2> QED
    BY <1>0, <2>3 DEF TypeOK, dbVars, Steps
<1>8. LocalStep(c)
  BY <1>0, <1>1, <1>6 DEF LocalStep, TypeOK, Submitting
<1>9. ClientInv(c)'
  <2>0. /\ pc'[c] = "settle" /\ wStatus'[c] = wStatus[c]
        /\ order' = order /\ status' = status /\ nextId' = nextId
    BY <1>0 DEF TypeOK, dbVars
  <2>1. PhaseInv(c)' /\ OwnRowInv(c)'
    BY <1>0, <1>1, <1>6, <2>0 DEF ClientInv, PhaseInv, OwnRowInv, Submitting
  <2>2. \A p : Writable(c, p) => Writable(c, p)'
    BY <1>1, <1>6, <2>0 DEF Writable, Submitting
  <2>3. Writable(c, m) /\ Writable(c, o)
    BY <1>1, <1>2, <1>4 DEF Writable
  <2>4. WritesInv(c)'
    BY <1>0, <1>5, <2>0, <2>2, <2>3 DEF ClientInv, WritesInv
  <2>5. TargetsInv(c)'
    <3>1. isBuy => order[o].side = "BUY" /\ order[m].side = "SELL"
      BY <1>2 DEF Opposite
    <3>2. ~isBuy => order[o].side = "SELL" /\ order[m].side = "BUY"
      BY <1>2, <1>4 DEF Opposite, Side
    <3>3. /\ req'[c].buy \in Ids /\ (status[req'[c].buy] # "NONE" \/ req'[c].buy = o)
          /\ order[req'[c].buy].side = "BUY"
      BY <1>2, <1>4, <1>6, <3>1, <3>2
    <3>4. /\ req'[c].sell \in Ids /\ (status[req'[c].sell] # "NONE" \/ req'[c].sell = o)
          /\ order[req'[c].sell].side = "SELL"
      BY <1>2, <1>4, <1>6, <3>1, <3>2
    <3>5. /\ Writable(c, req[c].buy)' /\ order'[req'[c].buy].side = "BUY"
          /\ Writable(c, req[c].sell)' /\ order'[req'[c].sell].side = "SELL"
      BY <1>6, <2>0, <3>3, <3>4 DEF Writable, Submitting
    <3>6. \A n \in req'[c].makers : /\ status'[n] # "NONE"
                                    /\ order'[n].side = Opposite(order'[req'[c].id].side)
      BY <1>0, <1>1, <1>6, <2>0 DEF ClientInv, TargetsInv
    <3> QED
      BY <1>6, <2>0, <3>5, <3>6 DEF TargetsInv, Submitting
  <2>6. dExec[c][o] + req[c].remaining = order[o].qty /\ wStatus[c][o] = Implied(c)
    BY <1>0, <1>1 DEF ClientInv, MatchingInv, Unsynced
  <2>7. wStatus[c][o] \in Resting
    BY <1>1, <2>6, WantingRests
  <2>8. dExec'[c][o] + req'[c].remaining = order[o].qty
    <3>1. order[o].qty \in Nat
      BY <1>1, Taker
    <3>2. (dExec[c][o] + q) + (req[c].remaining - q) = order[o].qty
      BY <1>4, <2>6, <3>1, SameTotal
    <3> QED
      BY <1>5, <1>6, <3>2, Zenon
  <2>9. MatchingInv(c)'
    BY <1>6, <2>0, <2>7, <2>8 DEF MatchingInv, Unsynced, Submitting
  <2>10. OutcomeInv(c)'
    BY <1>0, <1>1, <1>6, <2>0 DEF ClientInv, OutcomeInv, Submitting
  <2> QED
    BY <2>1, <2>4, <2>5, <2>9, <2>10 DEF ClientInv
<1> QED
  BY <1>7, <1>8, <1>9, LocalStepKeeps

\* One turn that skips a maker.
LEMMA FillMakerSkips ==
    ASSUME IInv, NEW c \in Clients, NEW m \in req[c].makers,
           req' = [req EXCEPT ![c].makers = @ \ {m}],
           UNCHANGED <<nextId, order, dbVars, pc, dExec, dBal, dRefs, wStatus>>
    PROVE  IInv'
<1>0. TypeOK /\ ClientInv(c)
  BY DEF IInv
<1>1. req[c] \in RequestType
  BY <1>0 DEF TypeOK
<1>2. /\ req'[c].kind = req[c].kind /\ req'[c].id = req[c].id
      /\ req'[c].makers = req[c].makers \ {m} /\ req'[c].remaining = req[c].remaining
      /\ req'[c].buy = req[c].buy /\ req'[c].sell = req[c].sell
      /\ req'[c].sync = req[c].sync /\ req'[c].next = req[c].next
  BY <1>0, <1>1 DEF TypeOK, RequestType
<1>3. TypeOK'
  <2>1. req'[c] \in RequestType
    BY <1>0, <1>1 DEF TypeOK, RequestType
  <2> QED
    BY <1>0, <2>1 DEF TypeOK, dbVars
<1>4. LocalStep(c)
  BY <1>0, <1>2 DEF LocalStep, TypeOK
<1>5. ClientInv(c)'
  <2>1. PhaseInv(c)' /\ WritesInv(c)' /\ OwnRowInv(c)' /\ OutcomeInv(c)'
    BY <1>0, <1>2 DEF ClientInv, PhaseInv, WritesInv, OwnRowInv, OutcomeInv, Writable,
                      Submitting, dbVars
  <2>2. TargetsInv(c)'
    BY <1>0, <1>2 DEF ClientInv, TargetsInv, Writable, Submitting, dbVars
  <2>3. MatchingInv(c)'
    BY <1>0, <1>2 DEF ClientInv, MatchingInv, Unsynced, Implied, SyncedOrder, Submitting
  <2> QED
    BY <2>1, <2>2, <2>3 DEF ClientInv
<1> QED
  BY <1>3, <1>4, <1>5, LocalStepKeeps

\* A turn of the loop, trading or skipping, keeps the invariant.
LEMMA FillMakerKeeps == ASSUME IInv, NEW c \in Clients, FillMaker(c) PROVE IInv'
<1> DEFINE left(m) == RemainingQty(order[m].qty, ExecutedSeen(c, m))
           q(m) == Lesser(req[c].remaining, left(m))
<1>1. PICK m \in req[c].makers :
          /\ pc[c] = "fill" /\ req[c].remaining > 0
          /\ IF CanReceiveFills(StatusSeen(c, m)) /\ left(m) > 0
             THEN /\ req' = [req EXCEPT
                                ![c].makers = @ \ {m},
                                ![c].remaining = @ - q(m),
                                ![c].buy = IF order[req[c].id].side = "BUY"
                                           THEN req[c].id ELSE m,
                                ![c].sell = IF order[req[c].id].side = "BUY"
                                            THEN m ELSE req[c].id,
                                ![c].qty = q(m),
                                ![c].price = order[m].price]
                  /\ dExec' = [dExec EXCEPT ![c][m] = @ + q(m), ![c][req[c].id] = @ + q(m)]
                  /\ pc' = [pc EXCEPT ![c] = "settle"]
             ELSE /\ req' = [req EXCEPT ![c].makers = @ \ {m}]
                  /\ UNCHANGED <<pc, dExec>>
          /\ UNCHANGED <<nextId, order, dbVars, dBal, dRefs, wStatus>>
  BY DEF FillMaker
<1>2. CASE CanReceiveFills(StatusSeen(c, m)) /\ left(m) > 0
  <2>1. m \in Ids /\ order[m] \in OrderRow /\ req[c].remaining \in Nat
    BY DEF IInv, ClientInv, TargetsInv, RowsInv, TypeOK, RequestType
  <2>2. order[m].qty \in Nat /\ ExecutedSeen(c, m) \in Nat
    BY <2>1, RowColumns, SeenIsStatus DEF IInv
  <2>3. left(m) \in Nat
    BY <2>2 DEF RemainingQty
  <2>4. q(m) \in Nat /\ q(m) =< req[c].remaining
    BY <2>1, <2>3 DEF Lesser
  <2> DEFINE buy == IF order[req[c].id].side = "BUY" THEN req[c].id ELSE m
             sell == IF order[req[c].id].side = "BUY" THEN m ELSE req[c].id
             price == order[m].price
             qty == q(m)
             makers == req[c].makers \ {m}
             remaining == req[c].remaining - qty
  <2>5. /\ makers \in SUBSET Ids /\ remaining \in Nat /\ price \in Nat
        /\ buy \in 0..MaxOrders /\ sell \in 0..MaxOrders /\ qty \in Nat
    <3>1. req[c].makers \subseteq Ids /\ req[c].id \in 0..MaxOrders
      BY DEF IInv, TypeOK, RequestType
    <3>2. price \in Nat
      BY <2>1, RowColumns
    <3>3. m \in 0..MaxOrders
      BY <2>1, ConstantTypes DEF Ids
    <3>4. remaining \in Nat
      BY <2>1, <2>4
    <3> QED
      BY <2>4, <3>1, <3>2, <3>3, <3>4
  <2>6. req' = [req EXCEPT ![c].makers = makers, ![c].remaining = remaining,
                           ![c].buy = buy, ![c].sell = sell, ![c].qty = qty,
                           ![c].price = price]
    BY <1>1, <1>2
  <2>7. /\ pc[c] = "fill" /\ req[c].remaining > 0
        /\ pc' = [pc EXCEPT ![c] = "settle"]
        /\ dExec' = [dExec EXCEPT ![c][m] = @ + qty, ![c][req[c].id] = @ + qty]
        /\ UNCHANGED <<nextId, order, dbVars, dBal, dRefs, wStatus>>
    BY <1>1, <1>2
  <2>8. req \in [Clients -> RequestType]
    BY DEF IInv, TypeOK
  <2>9. /\ req' \in [Clients -> RequestType]
        /\ \A d \in Clients \ {c} : req'[d] = req[d]
        /\ req'[c].kind = req[c].kind /\ req'[c].id = req[c].id
        /\ req'[c].makers = makers /\ req'[c].remaining = remaining
        /\ req'[c].buy = buy /\ req'[c].sell = sell
    <3> HIDE DEF makers, remaining, buy, sell, qty, price
    <3>1. [req[c] EXCEPT !.makers = makers, !.remaining = remaining] \in RequestType
      BY <2>5, <2>8 DEF RequestType
    <3>2. [req[c] EXCEPT !.makers = makers, !.remaining = remaining, !.buy = buy,
                         !.sell = sell] \in RequestType
      BY <2>5, <3>1 DEF RequestType
    <3>3. [req[c] EXCEPT !.makers = makers, !.remaining = remaining, !.buy = buy,
                         !.sell = sell, !.qty = qty, !.price = price] \in RequestType
      BY <2>5, <3>2 DEF RequestType
    <3>4. req'[c] = [req[c] EXCEPT !.makers = makers, !.remaining = remaining, !.buy = buy,
                                   !.sell = sell, !.qty = qty, !.price = price]
      BY <2>6, <2>8
    <3>5. /\ req'[c].kind = req[c].kind /\ req'[c].id = req[c].id
          /\ req'[c].makers = makers /\ req'[c].remaining = remaining
          /\ req'[c].buy = buy /\ req'[c].sell = sell
      BY <2>8, <3>4 DEF RequestType
    <3>6. DOMAIN req' = Clients /\ \A d \in Clients \ {c} : req'[d] = req[d]
      BY <2>6, <2>8
    <3>7. req' \in [Clients -> RequestType]
      <4>1. req' = [req EXCEPT ![c] = req'[c]]
        BY <2>6, <2>8
      <4> QED
        BY <2>8, <3>3, <3>4, <4>1
    <3> QED
      BY <3>5, <3>6, <3>7
  <2> HIDE DEF qty
  <2> QED
    BY <2>4, <2>7, <2>9, FillMakerTrades DEF qty
<1>3. CASE ~(CanReceiveFills(StatusSeen(c, m)) /\ left(m) > 0)
  <2>1. /\ req' = [req EXCEPT ![c].makers = @ \ {m}]
        /\ UNCHANGED <<nextId, order, dbVars, pc, dExec, dBal, dRefs, wStatus>>
    BY <1>1, <1>3
  <2> QED
    BY <2>1, FillMakerSkips
<1> QED
  BY <1>2, <1>3

\* Settling a fill keeps the invariant: every leg moves an amount between accounts.
LEMMA SettleFillKeeps == ASSUME IInv, NEW c \in Clients, SettleFill(c) PROVE IInv'
<1>0. TypeOK /\ ClientInv(c) /\ RowsInv /\ req[c] \in RequestType
  BY DEF IInv, TypeOK
<1>1. /\ pc[c] = "settle" /\ pc' = [pc EXCEPT ![c] = "syncRead"]
      /\ req' = [req EXCEPT ![c].sync = "BUY"]
      /\ UNCHANGED <<nextId, order, dbVars, dExec, dRefs, wStatus>>
  BY DEF SettleFill
<1>2. dBal' \in [Clients -> [Account -> Int]]
  <2> DEFINE buyer == order[req[c].buy]
             seller == order[req[c].sell]
             fee == QuoteFee(Gross(c), req[c].bps)
             quoteMoved == Move(dBal[c], HeldOf(buyer),
                                Available(seller.user, "quote"), Gross(c))
             feeTaken == Move(quoteMoved, Available(seller.user, "quote"), FeeRevenue, fee)
             baseMoved == Move(feeTaken, HeldOf(seller),
                               Available(buyer.user, "base"), req[c].qty)
             better == IF req[c].kind = "demo" THEN 0
                       ELSE PriceImprovement(buyer.price, req[c].price, req[c].qty)
             moved == Move(baseMoved, HeldOf(buyer), AvailableOf(buyer), better)
  <2>1. buyer \in OrderRow /\ seller \in OrderRow
    BY <1>0, <1>1 DEF ClientInv, TargetsInv, Writable, OwnRowInv, RowsInv
  <2>2. /\ HeldOf(buyer) \in Account /\ AvailableOf(buyer) \in Account
        /\ HeldOf(seller) \in Account /\ Available(seller.user, "quote") \in Account
        /\ Available(buyer.user, "base") \in Account /\ FeeRevenue \in Account
        /\ buyer.price \in Nat
    BY <2>1, RowColumns DEF Account
  <2>3. req[c].qty \in Nat /\ req[c].price \in Nat /\ req[c].bps \in Nat
    BY <1>0 DEF RequestType
  <2>4. Gross(c) \in Nat /\ Gross(c) \in Int /\ req[c].qty \in Int
    BY <2>3 DEF Gross
  <2>5. fee \in Int /\ better \in Int
    <3>1. QuoteFee(Gross(c), req[c].bps) \in Int
      BY <2>3, <2>4, AmountsAreInt
    <3>2. PriceImprovement(buyer.price, req[c].price, req[c].qty) \in Int
      BY <2>2, <2>3, AmountsAreInt
    <3> QED
      BY <3>1, <3>2
  <2>6. dBal[c] \in [Account -> Int]
    BY <1>0 DEF TypeOK
  <2>7. quoteMoved \in [Account -> Int]
    <3> HIDE DEF buyer, seller
    <3> QED
      BY <2>2, <2>4, <2>6, MoveIsMoves
  <2>8. feeTaken \in [Account -> Int]
    <3> HIDE DEF buyer, seller, quoteMoved, fee
    <3> QED
      BY <2>2, <2>5, <2>7, MoveIsMoves
  <2>9. baseMoved \in [Account -> Int]
    <3> HIDE DEF buyer, seller, feeTaken
    <3> QED
      BY <2>2, <2>4, <2>8, MoveIsMoves
  <2>10. moved \in [Account -> Int]
    <3> HIDE DEF buyer, seller, baseMoved, better
    <3> QED
      BY <2>2, <2>5, <2>9, MoveIsMoves
  <2>11. dBal' = [dBal EXCEPT ![c] = moved]
    BY DEF SettleFill
  <2> HIDE DEF moved
  <2> QED
    BY <1>0, <2>10, <2>11 DEF TypeOK
<1>3. /\ req'[c].kind = req[c].kind /\ req'[c].id = req[c].id
      /\ req'[c].makers = req[c].makers /\ req'[c].remaining = req[c].remaining
      /\ req'[c].buy = req[c].buy /\ req'[c].sell = req[c].sell
      /\ req'[c].sync = "BUY"
  BY <1>0, <1>1 DEF TypeOK, RequestType
<1>4. TypeOK'
  <2>1. req'[c] \in RequestType
    BY <1>0, <1>1 DEF TypeOK, RequestType, Side
  <2> QED
    BY <1>0, <1>1, <1>2, <2>1 DEF TypeOK, dbVars, Steps
<1>5. LocalStep(c)
  BY <1>0, <1>1, <1>3 DEF LocalStep, TypeOK
<1>6. ClientInv(c)'
  <2>0. pc'[c] = "syncRead"
    BY <1>0, <1>1 DEF TypeOK
  <2>1. PhaseInv(c)' /\ WritesInv(c)' /\ OwnRowInv(c)' /\ OutcomeInv(c)'
    BY <1>0, <1>1, <1>3, <2>0 DEF ClientInv, PhaseInv, WritesInv, OwnRowInv, OutcomeInv,
                                  Writable, Submitting, dbVars
  <2>2. TargetsInv(c)'
    BY <1>0, <1>1, <1>3, <2>0 DEF ClientInv, TargetsInv, Writable, Submitting, dbVars
  <2>3. MatchingInv(c)'
    BY <1>0, <1>1, <1>3, <2>0 DEF ClientInv, MatchingInv, Unsynced, Submitting
  <2> QED
    BY <2>1, <2>2, <2>3 DEF ClientInv
<1> QED
  BY <1>4, <1>5, <1>6, LocalStepKeeps

\* In the synchronisation phases the row of the submitted order comes last for a
\* sell, first for a buy, and nothing but its own fills counts for it.
LEMMA OwnSync ==
    ASSUME IInv, NEW c \in Clients, Submitting(c), pc[c] \in {"syncRead", "syncWrite"}
    PROVE  /\ SyncedOrder(c) = req[c].id => Unsynced(c)
           /\ SyncedOrder(c) = req[c].id => DerivedSeen(c, req[c].id) = Implied(c)
           /\ req[c].sync = "BUY" /\ SyncedOrder(c) # req[c].id
                  => order[req[c].id].side = "SELL"
           /\ req[c].sync = "SELL" /\ SyncedOrder(c) # req[c].id
                  => order[req[c].id].side = "BUY"
           /\ req[c].sync = "BUY" /\ SyncedOrder(c) = req[c].id
                  => order[req[c].id].side = "BUY"
<1> DEFINE o == req[c].id
<1>0. ClientInv(c) /\ RowsInv /\ req[c].sync \in Side
  BY DEF IInv, TypeOK, RequestType
<1>1. /\ order[req[c].buy].side = "BUY" /\ order[req[c].sell].side = "SELL"
      /\ o \in {req[c].buy, req[c].sell}
  BY <1>0 DEF ClientInv, TargetsInv, MatchingInv
<1>2. SyncedOrder(c) = o => Unsynced(c)
  BY <1>0, <1>1 DEF SyncedOrder, Unsynced, Side
<1>3. SyncedOrder(c) = o => DerivedSeen(c, o) = Implied(c)
  <2> SUFFICES ASSUME SyncedOrder(c) = o PROVE DerivedSeen(c, o) = Implied(c)
    OBVIOUS
  <2>1. wStatus[c][o] \in Resting
    BY <1>0, <1>2 DEF ClientInv, MatchingInv
  <2>2. o \in Ids /\ executed[o] = 0 /\ dExec[c][o] \in Nat
    BY <1>0, Taker DEF ClientInv, OwnRowInv, RowsInv
  <2>3. ExecutedSeen(c, o) = dExec[c][o] /\ StatusSeen(c, o) = wStatus[c][o]
    BY <2>1, <2>2 DEF ExecutedSeen, StatusSeen, Resting
  <2> QED
    BY <2>1, <2>3 DEF DerivedSeen, Implied, DeriveStatus, Resting
<1> QED
  BY <1>1, <1>2, <1>3 DEF SyncedOrder

\* Deriving the next status keeps the invariant: for the taker it is the implied one.
LEMMA SyncReadKeeps == ASSUME IInv, NEW c \in Clients, SyncRead(c) PROVE IInv'
<1>0. TypeOK /\ ClientInv(c) /\ RowsInv /\ req[c] \in RequestType
  BY DEF IInv, TypeOK
<1>1. /\ pc[c] = "syncRead" /\ pc' = [pc EXCEPT ![c] = "syncWrite"]
      /\ req' = [req EXCEPT ![c].next = DerivedSeen(c, SyncedOrder(c))]
      /\ UNCHANGED <<nextId, order, dbVars, dExec, dBal, dRefs, wStatus>>
  BY DEF SyncRead
<1>2. DerivedSeen(c, SyncedOrder(c)) \in Status
  <2>1. SyncedOrder(c) \in Ids /\ order[SyncedOrder(c)] \in OrderRow
    BY <1>0, <1>1
       DEF ClientInv, TargetsInv, Writable, OwnRowInv, RowsInv, SyncedOrder
  <2>2. order[SyncedOrder(c)].qty \in Nat /\ ExecutedSeen(c, SyncedOrder(c)) \in Nat
    BY <1>0, <2>1, RowColumns, SeenIsStatus
  <2> QED
    BY <2>2, DeriveIsStatus DEF DerivedSeen
<1>3. /\ req'[c].kind = req[c].kind /\ req'[c].id = req[c].id
      /\ req'[c].makers = req[c].makers /\ req'[c].remaining = req[c].remaining
      /\ req'[c].buy = req[c].buy /\ req'[c].sell = req[c].sell
      /\ req'[c].sync = req[c].sync /\ req'[c].next = DerivedSeen(c, SyncedOrder(c))
  BY <1>0, <1>1 DEF TypeOK, RequestType
<1>4. TypeOK'
  <2>1. req'[c] \in RequestType
    BY <1>0, <1>1, <1>2 DEF TypeOK, RequestType
  <2> QED
    BY <1>0, <1>1, <2>1 DEF TypeOK, dbVars, Steps
<1>5. LocalStep(c)
  BY <1>0, <1>1, <1>3 DEF LocalStep, TypeOK
<1>6. ClientInv(c)'
  <2>0. pc'[c] = "syncWrite"
    BY <1>0, <1>1 DEF TypeOK
  <2>1. PhaseInv(c)' /\ WritesInv(c)' /\ OwnRowInv(c)' /\ OutcomeInv(c)'
    BY <1>0, <1>1, <1>3, <2>0 DEF ClientInv, PhaseInv, WritesInv, OwnRowInv, OutcomeInv,
                                  Writable, Submitting, dbVars
  <2>2. TargetsInv(c)'
    BY <1>0, <1>1, <1>3, <2>0 DEF ClientInv, TargetsInv, Writable, Submitting, dbVars
  <2>3. Submitting(c) /\ SyncedOrder(c) = req[c].id
            => DerivedSeen(c, SyncedOrder(c)) = Implied(c)
    BY <1>1, OwnSync
  <2>4. SyncedOrder(c)' = SyncedOrder(c) /\ (Unsynced(c)' <=> Unsynced(c))
        /\ Implied(c)' = Implied(c)
    BY <1>1, <1>3, <2>0 DEF SyncedOrder, Unsynced, Implied
  <2>5. MatchingInv(c)'
    BY <1>0, <1>1, <1>3, <2>0, <2>3, <2>4 DEF ClientInv, MatchingInv, Submitting
  <2> QED
    BY <2>1, <2>2, <2>5 DEF ClientInv
<1> QED
  BY <1>4, <1>5, <1>6, LocalStepKeeps

\* Writing a row's status keeps the invariant: the taker's row is written once a fill.
LEMMA SyncWriteKeeps == ASSUME IInv, NEW c \in Clients, SyncWrite(c) PROVE IInv'
<1> DEFINE o == req[c].id
           target == SyncedOrder(c)
<1>0. TypeOK /\ ClientInv(c) /\ RowsInv /\ req[c] \in RequestType
  BY DEF IInv, TypeOK
<1>1. /\ pc[c] = "syncWrite"
      /\ pc' = [pc EXCEPT ![c] = IF req[c].sync = "BUY" THEN "syncRead"
                                 ELSE IF req[c].kind = "submit" THEN "fill" ELSE "residual"]
      /\ req' = [req EXCEPT ![c].sync = Opposite(@), ![c].next = "NONE"]
      /\ wStatus' = [wStatus EXCEPT ![c][target] = req[c].next]
      /\ UNCHANGED <<nextId, order, dbVars, dExec, dBal, dRefs>>
  BY DEF SyncWrite
<1>2. Writable(c, target) /\ target \in Ids
  BY <1>0, <1>1 DEF ClientInv, TargetsInv, Writable, SyncedOrder
<1>3. /\ req'[c].kind = req[c].kind /\ req'[c].id = req[c].id
      /\ req'[c].makers = req[c].makers /\ req'[c].remaining = req[c].remaining
      /\ req'[c].buy = req[c].buy /\ req'[c].sell = req[c].sell
      /\ req'[c].sync = Opposite(req[c].sync)
  BY <1>0, <1>1 DEF TypeOK, RequestType
<1>4. /\ wStatus'[c][target] = req[c].next
      /\ \A p \in Ids \ {target} : wStatus'[c][p] = wStatus[c][p]
      /\ wStatus'[c] \in [Ids -> Status \cup {"NONE"}]
  BY <1>0, <1>1, <1>2 DEF TypeOK, RequestType
<1>5. TypeOK'
  <2>1. req'[c] \in RequestType
    BY <1>0, <1>1 DEF TypeOK, RequestType, Opposite, Side
  <2> QED
    BY <1>0, <1>1, <1>4, <2>1 DEF TypeOK, dbVars, Steps
<1>6. LocalStep(c)
  BY <1>0, <1>1, <1>3 DEF LocalStep, TypeOK
<1>7. ClientInv(c)'
  <2>0. pc'[c] = IF req[c].sync = "BUY" THEN "syncRead"
                 ELSE IF req[c].kind = "submit" THEN "fill" ELSE "residual"
    BY <1>0, <1>1 DEF TypeOK
  <2>1. PhaseInv(c)' /\ OwnRowInv(c)' /\ OutcomeInv(c)'
    BY <1>0, <1>1, <1>3, <2>0 DEF ClientInv, PhaseInv, OwnRowInv, OutcomeInv,
                                  Submitting, dbVars, TypeOK, RequestType, Kinds
  <2>2. WritesInv(c)'
    BY <1>0, <1>1, <1>2, <1>3, <1>4 DEF ClientInv, WritesInv, Writable, Submitting, dbVars
  <2>3. TargetsInv(c)'
    BY <1>0, <1>1, <1>3, <2>0 DEF ClientInv, TargetsInv, Writable, Submitting, dbVars
  <2>4. MatchingInv(c)'
    <3> SUFFICES ASSUME Submitting(c) PROVE MatchingInv(c)'
      BY <1>3 DEF MatchingInv, Submitting
    <3>0. o \in Ids /\ req[c].sync \in Side /\ req[c].kind = "submit"
      BY <1>0, Taker DEF RequestType, Submitting
    <3>1. /\ dExec[c][o] + req[c].remaining = order[o].qty
          /\ o \in {req[c].buy, req[c].sell}
      BY <1>0, <1>1 DEF ClientInv, MatchingInv
    <3>2. Implied(c)' = Implied(c)
      BY <1>1, <1>3 DEF Implied
    <3>3. CASE target = o
      <4>1. wStatus'[c][o] = Implied(c)
        BY <1>0, <1>1, <1>4, <3>3 DEF ClientInv, MatchingInv
      <4>2. ~Unsynced(c)'
        BY <1>1, <1>3, <2>0, <3>0, <3>3, OwnSync DEF Unsynced, Opposite, Side
      <4> QED
        BY <1>1, <1>3, <2>0, <3>0, <3>1, <3>2, <4>1, <4>2 DEF MatchingInv
    <3>4. CASE target # o
      <4>1. wStatus'[c][o] = wStatus[c][o]
        BY <1>4, <3>0, <3>4
      <4>2. CASE req[c].sync = "BUY"
        <5>1. Unsynced(c) /\ wStatus[c][o] \in Resting
          BY <1>0, <1>1, <4>2 DEF ClientInv, MatchingInv, Unsynced
        <5>2. Unsynced(c)'
          BY <1>1, <1>3, <2>0, <3>4, <4>2, OwnSync DEF Unsynced
        <5> QED
          BY <1>1, <1>3, <2>0, <3>1, <4>1, <4>2, <5>1, <5>2 DEF MatchingInv
      <4>3. CASE req[c].sync = "SELL"
        <5>1. ~Unsynced(c)
          BY <1>1, <3>4, <4>3, OwnSync DEF Unsynced
        <5>2. wStatus[c][o] = Implied(c)
          BY <1>0, <1>1, <5>1 DEF ClientInv, MatchingInv
        <5> QED
          BY <1>1, <1>3, <2>0, <3>0, <3>1, <3>2, <4>1, <4>3, <5>2 DEF MatchingInv, Unsynced
      <4> QED
        BY <3>0, <4>2, <4>3 DEF Side
    <3> QED
      BY <3>3, <3>4
  <2> QED
    BY <2>1, <2>2, <2>3, <2>4 DEF ClientInv
<1> QED
  BY <1>5, <1>6, <1>7, LocalStepKeeps

\* Leaving the loop keeps the invariant: an order that may not rest is either filled
\* or has its remainder cancelled next.
LEMMA LeaveLoopKeeps == ASSUME IInv, NEW c \in Clients, LeaveLoop(c) PROVE IInv'
<1> DEFINE o == req[c].id
           rest == TifAction(order[o].tif, ExecutedSeen(c, o), order[o].qty)
<1>0. TypeOK /\ ClientInv(c) /\ RowsInv /\ req[c] \in RequestType
  BY DEF IInv, TypeOK
<1>1. /\ pc[c] = "fill" /\ Submitting(c)
      /\ pc' = [pc EXCEPT ![c] = IF rest = "CANCEL_REMAINDER" /\ req[c].remaining > 0
                                 THEN "cancelRest" ELSE "commit"]
      /\ UNCHANGED <<nextId, order, dbVars, req, dExec, dBal, dRefs, wStatus>>
  BY <1>0 DEF LeaveLoop, ClientInv, PhaseInv, Submitting, RequestType, Kinds
<1>2. TypeOK'
  BY <1>0, <1>1 DEF TypeOK, dbVars, Steps
<1>3. LocalStep(c)
  BY <1>0, <1>1 DEF LocalStep, TypeOK
<1>4. ClientInv(c)'
  <2>0. pc'[c] = IF rest = "CANCEL_REMAINDER" /\ req[c].remaining > 0
                 THEN "cancelRest" ELSE "commit"
    BY <1>0, <1>1 DEF TypeOK
  <2>1. PhaseInv(c)' /\ WritesInv(c)' /\ OwnRowInv(c)' /\ TargetsInv(c)'
    BY <1>0, <1>1, <2>0 DEF ClientInv, PhaseInv, WritesInv, OwnRowInv, TargetsInv,
                            Writable, Submitting, dbVars
  <2>2. /\ dExec[c][o] + req[c].remaining = order[o].qty /\ wStatus[c][o] = Implied(c)
        /\ ExecutedSeen(c, o) = dExec[c][o]
    BY <1>0, <1>1, Taker
       DEF ClientInv, MatchingInv, Unsynced, ExecutedSeen, OwnRowInv, RowsInv
  <2>3. rest = "CANCEL_REMAINDER" <=> order[o].tif \in {"IOC", "FOK"} /\ req[c].remaining > 0
    BY <1>1, <2>2, Taker DEF TifAction
  <2>4. MatchingInv(c)'
    BY <1>1, <2>0, <2>2, <2>3 DEF MatchingInv, Unsynced, Implied, Submitting
  <2>5. OutcomeInv(c)'
    <3>1. req[c].remaining = 0 => Implied(c) = "FILLED"
      BY <1>1, <2>2, Taker DEF Implied, DeriveStatus
    <3>2. Implied(c) \in Resting \cup {"FILLED"}
      BY DEF Implied, DeriveStatus, Resting
    <3>3. req[c].remaining = 0 \/ req[c].remaining > 0
      BY <1>1, Taker
    <3>4. order[o].tif = "POST_ONLY" =>
              req[c].makers = {} /\ dExec[c][o] = 0 /\ wStatus[c][o] = "OPEN"
      BY <1>0, <1>1 DEF ClientInv, OutcomeInv
    <3> QED
      BY <1>1, <2>0, <2>2, <2>3, <3>1, <3>2, <3>3, <3>4 DEF OutcomeInv, Submitting
  <2> QED
    BY <2>1, <2>4, <2>5 DEF ClientInv
<1> QED
  BY <1>2, <1>3, <1>4, LocalStepKeeps

\* Cancelling the taker's remainder keeps the invariant.
LEMMA CancelRestKeeps == ASSUME IInv, NEW c \in Clients, CancelRest(c) PROVE IInv'
<1> DEFINE o == req[c].id
           row == order[o]
           moved == Move(dBal[c], HeldOf(row), AvailableOf(row),
                         HoldOf(row, req[c].remaining))
<1>0. TypeOK /\ ClientInv(c) /\ RowsInv /\ req[c] \in RequestType
  BY DEF IInv, TypeOK
<1>1. /\ pc[c] = "cancelRest" /\ Submitting(c) /\ pc' = [pc EXCEPT ![c] = "commit"]
      /\ dBal' = [dBal EXCEPT ![c] = moved]
      /\ dRefs' = [dRefs EXCEPT ![c] = @ \cup {<<o, "CANCEL_RELEASE">>}]
      /\ wStatus' = [wStatus EXCEPT ![c][o] = "CANCELLED"]
      /\ UNCHANGED <<nextId, order, dbVars, req, dExec>>
  BY <1>0 DEF CancelRest, ClientInv, PhaseInv, Submitting, RequestType, Kinds
<1>2. o \in Ids /\ row \in OrderRow /\ req[c].remaining \in Nat
  BY <1>1, Taker
<1>3. moved \in [Account -> Int]
  <2>1. HeldOf(row) \in Account /\ AvailableOf(row) \in Account
    BY <1>2, RowColumns
  <2>2. HoldOf(row, req[c].remaining) \in Int
    BY <1>2, HoldIsNat
  <2>3. dBal[c] \in [Account -> Int]
    BY <1>0 DEF TypeOK
  <2> QED
    BY <2>1, <2>2, <2>3, MoveIsMoves
<1>4. TypeOK'
  <2>1. dBal' \in [Clients -> [Account -> Int]]
    <3> HIDE DEF moved
    <3> QED
      BY <1>0, <1>1, <1>3 DEF TypeOK
  <2>2. dRefs' \in [Clients -> SUBSET Reference]
    BY <1>0, <1>1, <1>2 DEF TypeOK, Reference
  <2>3. wStatus' \in [Clients -> [Ids -> Status \cup {"NONE"}]]
    BY <1>0, <1>1, <1>2 DEF TypeOK, Status
  <2> QED
    BY <1>0, <1>1, <2>1, <2>2, <2>3 DEF TypeOK, dbVars, Steps
<1>5. LocalStep(c)
  BY <1>0, <1>1 DEF LocalStep, TypeOK
<1>6. ClientInv(c)'
  <2>0. pc'[c] = "commit" /\ wStatus'[c][o] = "CANCELLED"
        /\ \A p \in Ids \ {o} : wStatus'[c][p] = wStatus[c][p]
    BY <1>0, <1>1, <1>2 DEF TypeOK
  <2>1. PhaseInv(c)' /\ OwnRowInv(c)' /\ TargetsInv(c)'
    BY <1>0, <1>1, <2>0 DEF ClientInv, PhaseInv, OwnRowInv, TargetsInv, Submitting, dbVars
  <2>2. WritesInv(c)'
    BY <1>0, <1>1, <1>2, <2>0 DEF ClientInv, WritesInv, Writable, Submitting, dbVars
  <2>3. MatchingInv(c)' /\ OutcomeInv(c)'
    BY <1>0, <1>1, <2>0 DEF ClientInv, MatchingInv, OutcomeInv, Unsynced, Submitting
  <2> QED
    BY <2>1, <2>2, <2>3 DEF ClientInv
<1> QED
  BY <1>4, <1>5, <1>6, LocalStepKeeps

\* An idle client has no request.
LEMMA IdleHasNone ==
    ASSUME IInv, NEW c \in Clients, pc[c] = "idle"
    PROVE  ~Submitting(c) /\ req[c].kind = "none"
  BY DEF IInv, ClientInv, PhaseInv, Submitting, TypeOK, RequestType, Kinds

\* The read that begins a cancel keeps the invariant.
LEMMA ReadCancelKeeps ==
    ASSUME IInv, NEW c \in Clients, NEW o \in Ids, ReadCancel(c, o) PROVE IInv'
<1> DEFINE left == RemainingQty(order[o].qty, executed[o])
           new == [NoRequest EXCEPT !.kind = "cancel", !.id = o, !.remaining = left]
<1>0. TypeOK /\ ClientInv(c) /\ RowsInv
  BY DEF IInv
<1>1. /\ pc[c] = "idle" /\ status[o] # "NONE"
      /\ req' = [req EXCEPT ![c] = new]
      /\ pc' = [pc EXCEPT ![c] = "releaseHold"]
      /\ UNCHANGED <<nextId, order, dbVars, dExec, dBal, dRefs, wStatus>>
  BY DEF ReadCancel
<1>2. left \in Nat
  <2>1. order[o].qty \in Nat /\ executed[o] \in Nat
    BY <1>0, <1>1, RowColumns DEF RowsInv, TypeOK
  <2> QED
    BY <2>1 DEF RemainingQty
<1>3. new \in RequestType /\ new.kind = "cancel" /\ new.id = o /\ new.makers = {}
  <2>1. o \in 0..MaxOrders
    BY ConstantTypes DEF Ids
  <2> HIDE DEF left
  <2> QED
    BY <1>2, <2>1, NoRequestIsTyped DEF RequestType, Kinds
<1> HIDE DEF new
<1>4. TypeOK'
  BY <1>0, <1>1, <1>3 DEF TypeOK, dbVars, Steps
<1>5. pc'[c] = "releaseHold" /\ req'[c] = new
  BY <1>0, <1>1 DEF TypeOK
<1>6. LocalStep(c)
  BY <1>0, <1>1, <1>3, <1>5 DEF LocalStep, TypeOK
<1>7. ClientInv(c)'
  <2>1. PhaseInv(c)' /\ OwnRowInv(c)' /\ TargetsInv(c)' /\ MatchingInv(c)' /\ OutcomeInv(c)'
    BY <1>1, <1>3, <1>5 DEF PhaseInv, OwnRowInv, TargetsInv, MatchingInv, OutcomeInv,
                            Submitting, dbVars
  <2>2. WritesInv(c)'
    BY <1>0, <1>1, IdleHasNone DEF ClientInv, WritesInv, Writable, dbVars
  <2> QED
    BY <2>1, <2>2 DEF ClientInv
<1> QED
  BY <1>4, <1>6, <1>7, LocalStepKeeps

\* The steps of a cancel change its transaction and its phase only.
LEMMA CancelPhaseKeeps ==
    ASSUME IInv, NEW c \in Clients, pc[c] = "releaseHold", TypeOK',
           pc' = [pc EXCEPT ![c] = "cancelWrite"],
           UNCHANGED <<nextId, order, dbVars, req, dExec, wStatus>>
    PROVE  IInv'
<1>0. TypeOK /\ ClientInv(c)
  BY DEF IInv
<1>1. pc'[c] = "cancelWrite" /\ req[c].kind = "cancel"
  BY <1>0 DEF TypeOK, ClientInv, PhaseInv, RequestType, Kinds
<1>2. LocalStep(c)
  BY <1>0 DEF LocalStep, TypeOK
<1>3. ClientInv(c)'
  BY <1>0, <1>1 DEF ClientInv, PhaseInv, WritesInv, OwnRowInv, TargetsInv, MatchingInv,
                    OutcomeInv, Writable, Submitting, dbVars
<1> QED
  BY <1>2, <1>3, LocalStepKeeps

\* Releasing a hold keeps the invariant.
LEMMA ReleaseHoldKeeps == ASSUME IInv, NEW c \in Clients, ReleaseHold(c) PROVE IInv'
<1> DEFINE o == req[c].id
           row == order[o]
           moved == Move(dBal[c], HeldOf(row), AvailableOf(row),
                         HoldOf(row, req[c].remaining))
<1>0. TypeOK /\ ClientInv(c) /\ RowsInv /\ req[c] \in RequestType
  BY DEF IInv, TypeOK
<1>1. /\ pc[c] = "releaseHold" /\ pc' = [pc EXCEPT ![c] = "cancelWrite"]
      /\ \/ UNCHANGED <<dBal, dRefs>>
         \/ /\ dBal' = [dBal EXCEPT ![c] = moved]
            /\ dRefs' = [dRefs EXCEPT ![c] = @ \cup {<<o, "CANCEL_RELEASE">>}]
      /\ UNCHANGED <<nextId, order, dbVars, req, dExec, wStatus>>
  BY DEF ReleaseHold
<1>2. o \in Ids /\ row \in OrderRow /\ req[c].remaining \in Nat
  BY <1>0, <1>1 DEF ClientInv, TargetsInv, RowsInv, RequestType
<1>3. moved \in [Account -> Int]
  <2>1. HeldOf(row) \in Account /\ AvailableOf(row) \in Account
    BY <1>2, RowColumns
  <2>2. HoldOf(row, req[c].remaining) \in Int
    BY <1>2, HoldIsNat
  <2>3. dBal[c] \in [Account -> Int]
    BY <1>0 DEF TypeOK
  <2> QED
    BY <2>1, <2>2, <2>3, MoveIsMoves
<1> HIDE DEF moved
<1>4. dBal' \in [Clients -> [Account -> Int]]
  BY <1>0, <1>1, <1>3 DEF TypeOK
<1>5. dRefs' \in [Clients -> SUBSET Reference]
  <2>1. dRefs \in [Clients -> SUBSET Reference] /\ <<o, "CANCEL_RELEASE">> \in Reference
    BY <1>0, <1>2 DEF TypeOK, Reference
  <2> HIDE DEF o
  <2> QED
    BY <1>1, <2>1
<1>6. TypeOK'
  BY <1>0, <1>1, <1>4, <1>5 DEF TypeOK, dbVars, Steps
<1> QED
  BY <1>1, <1>6, CancelPhaseKeeps

\* Writing CANCELLED into a committed row keeps the invariant.
LEMMA CancelWriteKeeps == ASSUME IInv, NEW c \in Clients, CancelWrite(c) PROVE IInv'
<1> DEFINE o == req[c].id
<1>0. TypeOK /\ ClientInv(c)
  BY DEF IInv
<1>1. /\ pc[c] = "cancelWrite" /\ pc' = [pc EXCEPT ![c] = "commit"]
      /\ wStatus' = [wStatus EXCEPT ![c][o] = "CANCELLED"]
      /\ UNCHANGED <<nextId, order, dbVars, req, dExec, dBal, dRefs>>
  BY DEF CancelWrite
<1>2. o \in Ids /\ status[o] # "NONE" /\ req[c].kind = "cancel"
  BY <1>0, <1>1 DEF TypeOK, ClientInv, PhaseInv, TargetsInv, RequestType, Kinds
<1>3. TypeOK'
  <2>1. wStatus' \in [Clients -> [Ids -> Status \cup {"NONE"}]]
    BY <1>0, <1>1, <1>2 DEF TypeOK, Status
  <2> QED
    BY <1>0, <1>1, <2>1 DEF TypeOK, dbVars, Steps
<1>4. LocalStep(c)
  BY <1>0, <1>1 DEF LocalStep, TypeOK
<1>5. ClientInv(c)'
  <2>1. /\ pc'[c] = "commit"
        /\ \A p \in Ids \ {o} : wStatus'[c][p] = wStatus[c][p]
    BY <1>0, <1>1 DEF TypeOK
  <2>2. WritesInv(c)'
    BY <1>0, <1>1, <1>2, <2>1 DEF ClientInv, WritesInv, Writable, Submitting, dbVars
  <2> QED
    BY <1>0, <1>1, <1>2, <2>1, <2>2 DEF ClientInv, PhaseInv, OwnRowInv, TargetsInv,
                                        MatchingInv, OutcomeInv, Submitting, dbVars
<1> QED
  BY <1>3, <1>4, <1>5, LocalStepKeeps

\* The start of a demo fill keeps the invariant.
LEMMA DemoFillKeeps ==
    ASSUME IInv, NEW c \in Clients, NEW b \in Ids, NEW s \in Ids, NEW q \in Qtys,
           NEW p \in DemoPrices, NEW bps \in FeeBps, DemoFill(c, b, s, q, p, bps)
    PROVE  IInv'
<1> DEFINE new == [NoRequest EXCEPT !.kind = "demo", !.bps = bps, !.buy = b, !.sell = s,
                                    !.qty = q, !.price = p]
<1>0. TypeOK /\ ClientInv(c) /\ RowsInv
  BY DEF IInv
<1>1. /\ pc[c] = "idle"
      /\ status[b] = "OPEN" /\ order[b].side = "BUY"
      /\ status[s] = "OPEN" /\ order[s].side = "SELL"
      /\ req' = [req EXCEPT ![c] = new]
      /\ dExec' = [dExec EXCEPT ![c][b] = @ + q, ![c][s] = @ + q]
      /\ pc' = [pc EXCEPT ![c] = "settle"]
      /\ UNCHANGED <<nextId, order, dbVars, dBal, dRefs, wStatus>>
  BY DEF DemoFill
<1>2. new \in RequestType /\ new.kind = "demo" /\ new.buy = b /\ new.sell = s
      /\ new.makers = {}
  <2>1. /\ b \in 0..MaxOrders /\ s \in 0..MaxOrders
        /\ bps \in Nat /\ q \in Nat /\ p \in Nat
    BY ConstantTypes DEF Ids
  <2>2. [NoRequest EXCEPT !.kind = "demo", !.bps = bps] \in RequestType
    BY <2>1, NoRequestIsTyped DEF RequestType, Kinds
  <2>3. [NoRequest EXCEPT !.kind = "demo", !.bps = bps, !.buy = b, !.sell = s]
            \in RequestType
    BY <2>1, <2>2 DEF RequestType
  <2> QED
    BY <2>1, <2>3, NoRequestIsTyped DEF RequestType
<1> HIDE DEF new
<1>3. pc'[c] = "settle" /\ req'[c] = new
  BY <1>0, <1>1 DEF TypeOK
<1>4. /\ dExec' \in [Clients -> [Ids -> Nat]]
      /\ \A o \in Ids \ {b, s} : dExec'[c][o] = dExec[c][o]
  <2>1. q \in Nat /\ b # s
    BY <1>1, ConstantTypes
  <2>2. /\ dExec'[c] \in [Ids -> Nat]
        /\ \A o \in Ids \ {b, s} : dExec'[c][o] = dExec[c][o]
    BY <1>0, <1>1, <2>1 DEF TypeOK
  <2> QED
    BY <1>0, <1>1, <2>2 DEF TypeOK
<1>5. TypeOK'
  <2>1. req' \in [Clients -> RequestType]
    BY <1>0, <1>1, <1>2 DEF TypeOK
  <2> QED
    BY <1>0, <1>1, <1>4, <2>1 DEF TypeOK, dbVars, Steps
<1>6. LocalStep(c)
  BY <1>0, <1>1, <1>2, <1>3 DEF LocalStep, TypeOK
<1>7. ClientInv(c)'
  <2>1. PhaseInv(c)' /\ OwnRowInv(c)' /\ MatchingInv(c)' /\ OutcomeInv(c)'
    BY <1>2, <1>3 DEF PhaseInv, OwnRowInv, MatchingInv, OutcomeInv, Submitting
  <2>2. TargetsInv(c)'
    BY <1>1, <1>2, <1>3 DEF TargetsInv, Writable, dbVars
  <2>3. WritesInv(c)'
    BY <1>0, <1>1, <1>4, IdleHasNone DEF ClientInv, WritesInv, Writable, dbVars
  <2> QED
    BY <2>1, <2>2, <2>3 DEF ClientInv
<1> QED
  BY <1>5, <1>6, <1>7, LocalStepKeeps

\* The last steps of a demo fill: only the phase and the transaction change.
LEMMA DemoPhaseKeeps ==
    ASSUME IInv, NEW c \in Clients, NEW step, TypeOK',
           \/ pc[c] = "residual" /\ step = "reconcile"
           \/ pc[c] = "reconcile" /\ step = "commit",
           pc' = [pc EXCEPT ![c] = step],
           UNCHANGED <<nextId, order, dbVars, req, dExec, wStatus>>
    PROVE  IInv'
<1>0. TypeOK /\ ClientInv(c)
  BY DEF IInv
<1>1. pc'[c] = step /\ req[c].kind = "demo"
  BY <1>0 DEF TypeOK, ClientInv, PhaseInv, RequestType, Kinds
<1>2. LocalStep(c)
  BY <1>0 DEF LocalStep, TypeOK
<1>3. ClientInv(c)'
  BY <1>0, <1>1 DEF ClientInv, PhaseInv, WritesInv, OwnRowInv, TargetsInv, MatchingInv,
                    OutcomeInv, Writable, Submitting, dbVars
<1> QED
  BY <1>2, <1>3, LocalStepKeeps

\* Releasing a residual hold keeps the invariant.
LEMMA ReleaseResidualKeeps == ASSUME IInv, NEW c \in Clients, ReleaseResidual(c) PROVE IInv'
<1> DEFINE b == req[c].buy
           row == order[b]
           ref == <<b, "FINAL_RESIDUAL_RELEASE">>
           amount == ResidualHold(row.qty, row.price, ExecutedSeen(c, b), Gross(c))
           moved == Move(dBal[c], HeldOf(row), AvailableOf(row), amount)
<1>0. TypeOK /\ ClientInv(c) /\ RowsInv /\ req[c] \in RequestType
  BY DEF IInv, TypeOK
<1>1. /\ pc[c] = "residual" /\ pc' = [pc EXCEPT ![c] = "reconcile"]
      /\ \/ UNCHANGED <<dBal, dRefs>>
         \/ /\ dBal' = [dBal EXCEPT ![c] = moved]
            /\ dRefs' = [dRefs EXCEPT ![c] = @ \cup {ref}]
      /\ UNCHANGED <<nextId, order, dbVars, req, dExec, wStatus>>
  BY DEF ReleaseResidual
<1>2. b \in Ids /\ row \in OrderRow
  BY <1>0, <1>1 DEF ClientInv, TargetsInv, Writable, OwnRowInv, RowsInv
<1>3. moved \in [Account -> Int]
  <2>1. HeldOf(row) \in Account /\ AvailableOf(row) \in Account
        /\ row.qty \in Nat /\ row.price \in Nat
    BY <1>2, RowColumns
  <2>2. Gross(c) \in Nat
    BY <1>0 DEF RequestType, Gross
  <2>3. ExecutedSeen(c, b) \in Nat
    BY <1>0, <1>2, SeenIsStatus
  <2>4. amount \in Int
    BY <2>1, <2>2, <2>3, AmountsAreInt
  <2>5. dBal[c] \in [Account -> Int]
    BY <1>0 DEF TypeOK
  <2> HIDE DEF amount, row
  <2> QED
    BY <2>1, <2>4, <2>5, MoveIsMoves
<1>4. ref \in Reference
  BY <1>2 DEF Reference
<1> HIDE DEF moved, ref
<1>5. dBal' \in [Clients -> [Account -> Int]]
  BY <1>0, <1>1, <1>3 DEF TypeOK
<1>6. dRefs' \in [Clients -> SUBSET Reference]
  BY <1>0, <1>1, <1>4, SMTT(30) DEF TypeOK
<1>7. TypeOK'
  BY <1>0, <1>1, <1>5, <1>6 DEF TypeOK, dbVars, Steps
<1> QED
  BY <1>1, <1>7, DemoPhaseKeeps

\* Reconciling keeps the invariant.
LEMMA ReconcileKeeps == ASSUME IInv, NEW c \in Clients, Reconcile(c) PROVE IInv'
<1>1. /\ pc[c] = "reconcile" /\ pc' = [pc EXCEPT ![c] = "commit"]
      /\ UNCHANGED <<nextId, order, dbVars, req, dExec, dBal, dRefs, wStatus>>
  BY DEF Reconcile
<1>2. TypeOK'
  BY <1>1 DEF IInv, TypeOK, dbVars, Steps
<1> QED
  BY <1>1, <1>2, DemoPhaseKeeps

-----------------------------------------------------------------------------
(* The steps that others see.                                              *)

\* A client whose request has ended owns nothing.
LEMMA EndedHasNone ==
    ASSUME IInv, NEW c \in Clients, EndRequest(c)
    PROVE  /\ ClientInv(c)' /\ ~Submitting(c)'
           /\ pc' \in [Clients -> Steps] /\ req' \in [Clients -> RequestType]
           /\ dExec' \in [Clients -> [Ids -> Nat]]
           /\ dBal' \in [Clients -> [Account -> Int]]
           /\ dRefs' \in [Clients -> SUBSET Reference]
           /\ wStatus' \in [Clients -> [Ids -> Status \cup {"NONE"}]]
           /\ \A d \in Clients \ {c} : /\ pc'[d] = pc[d] /\ req'[d] = req[d]
                                       /\ dExec'[d] = dExec[d] /\ wStatus'[d] = wStatus[d]
<1>0. TypeOK
  BY DEF IInv
<1>1. /\ pc' = [pc EXCEPT ![c] = "idle"] /\ req' = [req EXCEPT ![c] = NoRequest]
      /\ dExec' = [dExec EXCEPT ![c] = NoExec] /\ dBal' = [dBal EXCEPT ![c] = NoMoves]
      /\ dRefs' = [dRefs EXCEPT ![c] = {}] /\ wStatus' = [wStatus EXCEPT ![c] = NoWrites]
  BY DEF EndRequest
<1>2. NoExec \in [Ids -> Nat] /\ NoMoves \in [Account -> Int]
      /\ NoWrites \in [Ids -> Status \cup {"NONE"}]
  BY DEF NoExec, NoMoves, NoWrites
<1>3. /\ pc' \in [Clients -> Steps] /\ req' \in [Clients -> RequestType]
      /\ dExec' \in [Clients -> [Ids -> Nat]]
      /\ dBal' \in [Clients -> [Account -> Int]]
      /\ dRefs' \in [Clients -> SUBSET Reference]
      /\ wStatus' \in [Clients -> [Ids -> Status \cup {"NONE"}]]
  BY <1>0, <1>1, <1>2, NoRequestIsTyped DEF TypeOK, Steps
<1>4. /\ pc'[c] = "idle" /\ req'[c] = NoRequest /\ dExec'[c] = NoExec
      /\ wStatus'[c] = NoWrites
  BY <1>0, <1>1 DEF TypeOK
<1>5. ClientInv(c)' /\ ~Submitting(c)'
  BY <1>4, NoRequestIsTyped
     DEF ClientInv, PhaseInv, WritesInv, OwnRowInv, TargetsInv, MatchingInv, OutcomeInv,
         Submitting, NoExec, NoWrites
<1>6. \A d \in Clients \ {c} : /\ pc'[d] = pc[d] /\ req'[d] = req[d]
                               /\ dExec'[d] = dExec[d] /\ wStatus'[d] = wStatus[d]
  BY <1>0, <1>1 DEF TypeOK
<1> QED
  BY <1>3, <1>5, <1>6

\* A rollback keeps the invariant: only the row that the client was inserting goes.
LEMMA RollbackKeeps == ASSUME IInv, NEW c \in Clients, Rollback(c) PROVE IInv'
<1>0. TypeOK /\ RowsInv /\ ClientInv(c)
  BY DEF IInv
<1>1. /\ EndRequest(c)
      /\ order' = IF req[c].kind = "submit"
                  THEN [order EXCEPT ![req[c].id] = NoOrder] ELSE order
      /\ UNCHANGED <<nextId, status, executed, bal, refs>>
  BY DEF Rollback, dbVars
<1>2. order' \in [Ids -> OrderRow \cup {NoOrder}]
  BY <1>0, <1>1 DEF TypeOK
<1>3. TypeOK'
  BY <1>0, <1>1, <1>2, EndedHasNone DEF TypeOK
<1>4. \A o \in Ids : status[o] # "NONE" => order'[o] = order[o]
  BY <1>0, <1>1 DEF TypeOK, ClientInv, OwnRowInv, Submitting
<1>5. RowsInv'
  BY <1>0, <1>1, <1>4 DEF RowsInv
<1>6. ASSUME NEW d \in Clients PROVE ClientInv(d)'
  <2>1. CASE d = c
    BY <1>1, <2>1, EndedHasNone
  <2>2. CASE d # c
    <3>1. /\ pc'[d] = pc[d] /\ req'[d] = req[d]
          /\ dExec'[d] = dExec[d] /\ wStatus'[d] = wStatus[d]
      BY <1>1, <2>2, EndedHasNone
    <3>2. Submitting(d) => /\ order'[req[d].id] = order[req[d].id]
                           /\ status'[req[d].id] = "NONE"
      BY <1>0, <1>1, <2>2 DEF IInv, DistinctInv, ClientInv, OwnRowInv, TypeOK, Submitting
    <3>3. nextId' \in Nat /\ nextId' >= nextId
      BY <1>0, <1>1 DEF TypeOK
    <3>4. \A o \in Ids : status[o] # "NONE" => status'[o] # "NONE" /\ order'[o] = order[o]
      BY <1>1, <1>4
    <3> QED
      BY <3>1, <3>2, <3>3, <3>4, OthersKeep
  <2> QED
    BY <2>1, <2>2
<1>7. DistinctInv'
  <2>1. /\ req'[c].kind # "submit"
        /\ \A d \in Clients \ {c} : req'[d] = req[d]
    BY <1>1, EndedHasNone DEF Submitting
  <2> QED
    BY <2>1 DEF IInv, DistinctInv, Submitting
<1> QED
  BY <1>3, <1>5, <1>6, <1>7 DEF IInv

\* A commit keeps the invariant: it shows no row but those the client may write.
LEMMA CommitKeeps == ASSUME IInv, NEW c \in Clients, Commit(c) PROVE IInv'
<1>0. TypeOK /\ RowsInv /\ ClientInv(c)
  BY DEF IInv
<1>1. /\ status' = [o \in Ids |-> StatusSeen(c, o)]
      /\ executed' = [o \in Ids |-> ExecutedSeen(c, o)]
      /\ bal' = [a \in Account |-> BalanceSeen(c, a)]
      /\ refs' = refs \cup dRefs[c]
      /\ EndRequest(c)
      /\ UNCHANGED <<nextId, order>>
  BY DEF Commit
<1>2. \A o \in Ids : /\ status'[o] = StatusSeen(c, o)
                     /\ executed'[o] = executed[o] + dExec[c][o]
  BY <1>1 DEF ExecutedSeen
<1>3. TypeOK'
  <2>1. status' \in [Ids -> Status \cup {"NONE"}] /\ executed' \in [Ids -> Nat]
    BY <1>0, <1>1, SeenIsStatus
  <2>2. \A a \in Account : BalanceSeen(c, a) \in Int
    BY <1>0 DEF TypeOK, BalanceSeen
  <2>3. bal' \in [Account -> Int]
    BY <1>1, <2>2
  <2>4. refs' \subseteq Reference
    BY <1>0, <1>1 DEF TypeOK
  <2> QED
    BY <1>0, <1>1, <2>1, <2>3, <2>4, EndedHasNone DEF TypeOK
<1>4. \A o \in Ids : status[o] # "NONE" => status'[o] # "NONE"
  BY <1>0, <1>2, SeenIsStatus
<1>5. \A o \in Ids : status[o] = "NONE" /\ status'[o] # "NONE"
                         => Submitting(c) /\ o = req[c].id
  BY <1>0, <1>2 DEF StatusSeen, ClientInv, WritesInv, Writable
<1>6. RowsInv'
  <2> SUFFICES ASSUME NEW o \in Ids
               PROVE  /\ status'[o] # "NONE" => order'[o] \in OrderRow /\ o < nextId'
                      /\ status'[o] = "NONE" => executed'[o] = 0
    BY DEF RowsInv
  <2>1. status'[o] # "NONE" => order'[o] \in OrderRow /\ o < nextId'
    BY <1>0, <1>1, <1>5 DEF RowsInv, ClientInv, OwnRowInv
  <2>2. ASSUME status'[o] = "NONE" PROVE executed'[o] = 0
    <3>1. status[o] = "NONE" /\ wStatus[c][o] = "NONE"
      BY <1>2, <1>4, <2>2 DEF StatusSeen
    <3>2. dExec[c][o] = 0
      <4>1. CASE Submitting(c) /\ o = req[c].id
        <5>1. pc[c] = "commit" /\ wStatus[c][o] = "NONE" /\ order[o].tif \in TimeInForce
          BY <3>1, <4>1, Taker DEF Commit
        <5>2. wStatus[c][o] # "NONE"
          BY <4>1, <5>1, <1>0 DEF ClientInv, OutcomeInv, TimeInForce, Resting
        <5> QED
          BY <5>1, <5>2
      <4>2. CASE ~(Submitting(c) /\ o = req[c].id)
        BY <1>0, <3>1, <4>2 DEF ClientInv, WritesInv, Writable
      <4> QED
        BY <4>1, <4>2
    <3> QED
      BY <1>0, <1>2, <3>1, <3>2 DEF RowsInv
  <2> QED
    BY <2>1, <2>2
<1>7. ASSUME NEW d \in Clients PROVE ClientInv(d)'
  <2>1. CASE d = c
    BY <1>1, <2>1, EndedHasNone
  <2>2. CASE d # c
    <3>1. /\ pc'[d] = pc[d] /\ req'[d] = req[d]
          /\ dExec'[d] = dExec[d] /\ wStatus'[d] = wStatus[d]
      BY <1>1, <2>2, EndedHasNone
    <3>2. Submitting(d) => /\ order'[req[d].id] = order[req[d].id]
                           /\ status'[req[d].id] = "NONE"
      BY <1>1, <1>5, <2>2 DEF IInv, DistinctInv, ClientInv, OwnRowInv
    <3>3. nextId' \in Nat /\ nextId' >= nextId
      BY <1>0, <1>1 DEF TypeOK
    <3>4. \A o \in Ids : status[o] # "NONE" => status'[o] # "NONE" /\ order'[o] = order[o]
      BY <1>1, <1>4
    <3> QED
      BY <3>1, <3>2, <3>3, <3>4, OthersKeep
  <2> QED
    BY <2>1, <2>2
<1>8. DistinctInv'
  <2>1. /\ req'[c].kind # "submit"
        /\ \A d \in Clients \ {c} : req'[d] = req[d]
    BY <1>1, EndedHasNone DEF Submitting
  <2> QED
    BY <2>1 DEF IInv, DistinctInv, Submitting
<1> QED
  BY <1>3, <1>6, <1>7, <1>8 DEF IInv

\* A placement keeps the invariant: its id is new to everybody.
LEMMA PlaceKeeps ==
    ASSUME IInv, NEW c \in Clients, NEW row \in OrderRow, NEW bps \in FeeBps,
           Place(c, row, bps)
    PROVE  IInv'
<1> DEFINE new == [NoRequest EXCEPT !.kind = "submit", !.id = nextId, !.bps = bps]
           moved == Move(dBal[c], AvailableOf(row), HeldOf(row), HoldOf(row, row.qty))
<1>0. TypeOK /\ RowsInv /\ ClientInv(c)
  BY DEF IInv
<1>1. /\ pc[c] = "idle" /\ nextId \in Ids
      /\ nextId' = nextId + 1
      /\ order' = [order EXCEPT ![nextId] = row]
      /\ pc' = [pc EXCEPT ![c] = "match"]
      /\ req' = [req EXCEPT ![c] = new]
      /\ dBal' = [dBal EXCEPT ![c] = moved]
      /\ wStatus' = [wStatus EXCEPT ![c][nextId] = "OPEN"]
      /\ UNCHANGED <<dbVars, dExec, dRefs>>
  BY DEF Place
<1>2. nextId \in Nat /\ status[nextId] = "NONE" /\ executed[nextId] = 0
  BY <1>0, <1>1 DEF RowsInv, TypeOK
<1>3. new \in RequestType /\ new.kind = "submit" /\ new.id = nextId /\ new.makers = {}
  <2>1. nextId \in 0..MaxOrders /\ bps \in Nat
    BY <1>1, ConstantTypes DEF Ids
  <2> QED
    BY <2>1, NoRequestIsTyped DEF RequestType, Kinds
<1>4. moved \in [Account -> Int]
  <2>1. HeldOf(row) \in Account /\ AvailableOf(row) \in Account /\ row.qty \in Nat
    BY RowColumns
  <2>2. HoldOf(row, row.qty) \in Int
    BY <2>1, HoldIsNat
  <2>3. dBal[c] \in [Account -> Int]
    BY <1>0 DEF TypeOK
  <2> QED
    BY <2>1, <2>2, <2>3, MoveIsMoves
<1> HIDE DEF new, moved
<1>5. TypeOK'
  <2>1. order' \in [Ids -> OrderRow \cup {NoOrder}]
    BY <1>0, <1>1 DEF TypeOK
  <2>2. wStatus' \in [Clients -> [Ids -> Status \cup {"NONE"}]]
    BY <1>0, <1>1 DEF TypeOK, Status
  <2>3. req' \in [Clients -> RequestType] /\ dBal' \in [Clients -> [Account -> Int]]
    BY <1>0, <1>1, <1>3, <1>4 DEF TypeOK
  <2> QED
    BY <1>0, <1>1, <2>1, <2>2, <2>3 DEF TypeOK, dbVars, Steps
<1>6. /\ pc'[c] = "match" /\ req'[c] = new
      /\ wStatus'[c][nextId] = "OPEN"
      /\ \A o \in Ids \ {nextId} : wStatus'[c][o] = wStatus[c][o] /\ order'[o] = order[o]
      /\ order'[nextId] = row
      /\ \A d \in Clients \ {c} : /\ pc'[d] = pc[d] /\ req'[d] = req[d]
                                  /\ dExec'[d] = dExec[d] /\ wStatus'[d] = wStatus[d]
  BY <1>0, <1>1 DEF TypeOK
<1>7. RowsInv'
  <2>1. \A o \in Ids : o < nextId => o < nextId'
    BY <1>1, <1>2, ConstantTypes DEF Ids
  <2>2. nextId < nextId'
    BY <1>1, <1>2
  <2>3. \A o \in Ids : status'[o] = status[o] /\ executed'[o] = executed[o]
    BY <1>1 DEF dbVars
  <2> QED
    BY <1>0, <1>2, <1>6, <2>1, <2>2, <2>3 DEF RowsInv
<1>8. dExec[c][nextId] = 0
  BY <1>0, <1>1, <1>2, IdleHasNone DEF ClientInv, WritesInv, Writable
<1>9. ASSUME NEW d \in Clients \ {c} PROVE Submitting(d) => req[d].id \in Ids \ {nextId}
  BY <1>2 DEF IInv, ClientInv, OwnRowInv
<1>10. ClientInv(c)'
  <2>1. PhaseInv(c)' /\ TargetsInv(c)'
    BY <1>3, <1>6 DEF PhaseInv, TargetsInv
  <2>2. WritesInv(c)'
    BY <1>0, <1>1, <1>3, <1>6, <1>8, IdleHasNone
       DEF ClientInv, WritesInv, Writable, Submitting, dbVars
  <2>3. OwnRowInv(c)'
    BY <1>1, <1>2, <1>3, <1>6 DEF OwnRowInv, dbVars
  <2>4. MatchingInv(c)' /\ OutcomeInv(c)'
    BY <1>1, <1>3, <1>6, <1>8 DEF MatchingInv, OutcomeInv, Unsynced
  <2> QED
    BY <2>1, <2>2, <2>3, <2>4 DEF ClientInv
<1>11. ASSUME NEW d \in Clients PROVE ClientInv(d)'
  <2>1. CASE d = c
    BY <1>10, <2>1
  <2>2. CASE d # c
    <3>1. Submitting(d) => /\ order'[req[d].id] = order[req[d].id]
                           /\ status'[req[d].id] = "NONE"
      BY <1>1, <1>6, <1>9, <2>2 DEF IInv, ClientInv, OwnRowInv, dbVars
    <3>2. nextId' \in Nat /\ nextId' >= nextId
      BY <1>1, <1>2
    <3>3. \A o \in Ids : status[o] # "NONE" => status'[o] # "NONE" /\ order'[o] = order[o]
      BY <1>1, <1>2, <1>6 DEF dbVars
    <3> QED
      BY <1>6, <2>2, <3>1, <3>2, <3>3, OthersKeep
  <2> QED
    BY <2>1, <2>2
<1>12. DistinctInv'
  BY <1>3, <1>6, <1>9 DEF IInv, DistinctInv, Submitting
<1> QED
  BY <1>5, <1>7, <1>11, <1>12 DEF IInv

\* A refused placement keeps the invariant.
LEMMA PlaceRefusedKeeps ==
    ASSUME IInv, NEW c \in Clients, NEW row \in OrderRow, PlaceRefused(c, row) PROVE IInv'
<1>1. /\ nextId' = nextId + 1 /\ nextId \in Nat /\ TypeOK
      /\ UNCHANGED <<order, dbVars, pc, req, dExec, dBal, dRefs, wStatus>>
  BY DEF PlaceRefused, IInv, TypeOK
<1>2. TypeOK'
  BY <1>1 DEF TypeOK, dbVars
<1>3. RowsInv'
  <2>1. \A o \in Ids : o < nextId => o < nextId'
    BY <1>1, ConstantTypes DEF Ids
  <2> QED
    BY <1>1, <2>1 DEF IInv, RowsInv, dbVars
<1>4. ASSUME NEW d \in Clients PROVE ClientInv(d)'
  <2>1. Submitting(d) => status[req[d].id] = "NONE"
    BY DEF IInv, ClientInv, OwnRowInv
  <2>2. nextId' \in Nat /\ nextId' >= nextId
    BY <1>1
  <2> QED
    BY <1>1, <2>1, <2>2, OthersKeep DEF dbVars
<1>5. DistinctInv'
  BY <1>1 DEF IInv, DistinctInv, Submitting
<1> QED
  BY <1>2, <1>3, <1>4, <1>5 DEF IInv

-----------------------------------------------------------------------------
(* The theorems.                                                           *)

\* Every step keeps the inductive invariant.
LEMMA NextKeeps == IInv /\ [Next]_vars => IInv'
<1> SUFFICES ASSUME IInv, [Next]_vars PROVE IInv'
  OBVIOUS
<1>1. ASSUME NEW c \in Clients, Request(c) PROVE IInv'
  <2>1. ASSUME NEW row \in OrderRow, PlaceRefused(c, row) PROVE IInv'
    BY <2>1, PlaceRefusedKeeps
  <2>2. ASSUME NEW row \in OrderRow, NEW bps \in FeeBps, Place(c, row, bps) PROVE IInv'
    BY <2>2, PlaceKeeps
  <2>3. ASSUME NEW o \in Ids, ReadCancel(c, o) PROVE IInv'
    BY <2>3, ReadCancelKeeps
  <2>4. ASSUME NEW b \in Ids, NEW s \in Ids, NEW q \in Qtys, NEW p \in DemoPrices,
               NEW bps \in FeeBps, DemoFill(c, b, s, q, p, bps)
        PROVE  IInv'
    BY <2>4, DemoFillKeeps
  <2> QED
    BY <1>1, <2>1, <2>2, <2>3, <2>4 DEF Request
<1>2. ASSUME NEW c \in Clients, Proceed(c) PROVE IInv'
  <2>1. CASE Match(c)           BY <2>1, MatchKeeps
  <2>2. CASE CheckFok(c)        BY <2>2, CheckFokKeeps
  <2>3. CASE FillMaker(c)       BY <2>3, FillMakerKeeps
  <2>4. CASE SettleFill(c)      BY <2>4, SettleFillKeeps
  <2>5. CASE SyncRead(c)        BY <2>5, SyncReadKeeps
  <2>6. CASE SyncWrite(c)       BY <2>6, SyncWriteKeeps
  <2>7. CASE LeaveLoop(c)       BY <2>7, LeaveLoopKeeps
  <2>8. CASE CancelRest(c)      BY <2>8, CancelRestKeeps
  <2>9. CASE ReleaseHold(c)     BY <2>9, ReleaseHoldKeeps
  <2>10. CASE CancelWrite(c)    BY <2>10, CancelWriteKeeps
  <2>11. CASE ReleaseResidual(c) BY <2>11, ReleaseResidualKeeps
  <2>12. CASE Reconcile(c)      BY <2>12, ReconcileKeeps
  <2>13. CASE Commit(c)         BY <2>13, CommitKeeps
  <2>14. CASE Fail(c)           BY <2>14, RollbackKeeps DEF Fail
  <2> QED
    BY <1>2, <2>1, <2>2, <2>3, <2>4, <2>5, <2>6, <2>7, <2>8, <2>9, <2>10, <2>11, <2>12,
       <2>13, <2>14 DEF Proceed
<1>3. ASSUME NEW c \in Clients, Abort(c) PROVE IInv'
  BY <1>3, RollbackKeeps DEF Abort
<1>4. CASE UNCHANGED vars
  <2>1. TypeOK' /\ RowsInv' /\ DistinctInv'
    BY <1>4 DEF IInv, vars, TypeOK, RowsInv, DistinctInv, Submitting
  <2>2. ASSUME NEW d \in Clients PROVE ClientInv(d)'
    <3>1. Submitting(d) => status[req[d].id] = "NONE"
      BY DEF IInv, ClientInv, OwnRowInv
    <3>2. nextId' \in Nat /\ nextId' >= nextId
      BY <1>4 DEF IInv, TypeOK, vars
    <3> QED
      BY <1>4, <3>1, <3>2, OthersKeep DEF vars
  <2> QED
    BY <2>1, <2>2 DEF IInv
<1> QED
  BY <1>1, <1>2, <1>3, <1>4 DEF Next

\* IInv is an invariant, whatever the clients, orders, prices and fees are.
THEOREM InductiveInvariant == Spec => []IInv
  BY InitIInv, NextKeeps, PTL DEF Spec

\* The variables keep their types: no handler stores anything but a row, a status
\* or an amount, and a rolled back submission leaves none behind.
THEOREM TypeCorrect == Spec => []TypeOK
<1>1. IInv => TypeOK
  BY DEF IInv
<1> QED
  BY <1>1, InductiveInvariant, PTL

\* No statement but the commit changes what is committed.
LEMMA OnlyCommitShows ==
    ASSUME Next, status' # status
    PROVE  \E c \in Clients : Commit(c)
<1>1. PICK c \in Clients : Request(c) \/ Proceed(c) \/ Abort(c)
  BY DEF Next
<1>2. ~Request(c)
  BY ZenonT(40) DEF Request, PlaceRefused, Place, ReadCancel, DemoFill, dbVars
<1>3. ~Rollback(c)
  BY DEF Rollback, dbVars
<1>4. ~(Match(c) \/ CheckFok(c) \/ FillMaker(c) \/ SettleFill(c) \/ SyncRead(c))
  BY DEF Match, CheckFok, FillMaker, SettleFill, SyncRead, dbVars
<1>5. ~(SyncWrite(c) \/ LeaveLoop(c) \/ CancelRest(c) \/ ReleaseHold(c) \/ CancelWrite(c))
  BY DEF SyncWrite, LeaveLoop, CancelRest, ReleaseHold, CancelWrite, dbVars
<1>6. ~(ReleaseResidual(c) \/ Reconcile(c))
  BY DEF ReleaseResidual, Reconcile, dbVars
<1> QED
  BY <1>1, <1>2, <1>3, <1>4, <1>5, <1>6 DEF Proceed, Fail, Abort

\* An order becomes visible by its own commit, and then its time in force was obeyed.
LEMMA CommitObeys ==
    ASSUME IInv, NEW c \in Clients, Commit(c), NEW o \in Ids,
           status[o] = "NONE", status'[o] # "NONE"
    PROVE  CASE order[o].tif = "POST_ONLY" -> status'[o] = "OPEN" /\ executed'[o] = 0
             [] order[o].tif \in {"IOC", "FOK"} -> status'[o] \in {"FILLED", "CANCELLED"}
             [] OTHER -> status'[o] # "CANCELLED"
<1>0. ClientInv(c) /\ RowsInv /\ TypeOK
  BY DEF IInv
<1>1. /\ status'[o] = StatusSeen(c, o) /\ executed'[o] = executed[o] + dExec[c][o]
      /\ pc[c] = "commit"
  BY DEF Commit, ExecutedSeen
<1>2. status'[o] = wStatus[c][o] /\ wStatus[c][o] # "NONE"
  BY <1>1 DEF StatusSeen
<1>3. Submitting(c) /\ o = req[c].id /\ executed[o] = 0
  BY <1>0, <1>2 DEF ClientInv, WritesInv, Writable, RowsInv
<1>4. order[o].tif \in TimeInForce
  BY <1>3, Taker
<1>5. /\ order[o].tif = "POST_ONLY" => wStatus[c][o] = "OPEN" /\ dExec[c][o] = 0
      /\ order[o].tif \in {"IOC", "FOK"} => wStatus[c][o] \in {"FILLED", "CANCELLED"}
      /\ order[o].tif = "GTC" => wStatus[c][o] # "CANCELLED"
  BY <1>0, <1>1, <1>3 DEF ClientInv, OutcomeInv, Resting
<1> QED
  BY <1>1, <1>2, <1>3, <1>4, <1>5 DEF TimeInForce

\* Whatever else is in progress, an order is first visible with the outcome its
\* time in force demands.
THEOREM TimeInForceHolds == Spec => TimeInForceObeyed
<1> DEFINE Obeyed ==
        \A o \in Ids :
          status[o] = "NONE" /\ status'[o] # "NONE" =>
              CASE order[o].tif = "POST_ONLY" -> status'[o] = "OPEN" /\ executed'[o] = 0
                [] order[o].tif \in {"IOC", "FOK"} -> status'[o] \in {"FILLED", "CANCELLED"}
                [] OTHER -> status'[o] # "CANCELLED"
<1>1. IInv /\ [Next]_vars => [Obeyed]_vars
  <2> SUFFICES ASSUME IInv, Next, NEW o \in Ids, status[o] = "NONE", status'[o] # "NONE"
               PROVE  CASE order[o].tif = "POST_ONLY" -> status'[o] = "OPEN" /\ executed'[o] = 0
                        [] order[o].tif \in {"IOC", "FOK"} -> status'[o] \in {"FILLED", "CANCELLED"}
                        [] OTHER -> status'[o] # "CANCELLED"
    OBVIOUS
  <2>1. status' # status
    OBVIOUS
  <2>2. PICK c \in Clients : Commit(c)
    BY <2>1, OnlyCommitShows
  <2> QED
    BY <2>2, CommitObeys
<1> QED
  BY <1>1, InductiveInvariant, PTL DEF Spec, TimeInForceObeyed

-----------------------------------------------------------------------------
(* What a step of one client leaves alone.                                 *)

ClientStep(c) == Request(c) \/ Proceed(c) \/ Abort(c)

\* Client d's request and transaction stay as they are.
Untouched(d) ==
    /\ pc'[d] = pc[d] /\ req'[d] = req[d] /\ dExec'[d] = dExec[d]
    /\ dBal'[d] = dBal[d] /\ dRefs'[d] = dRefs[d] /\ wStatus'[d] = wStatus[d]

\* The other requests in progress are untouched by a step of client c.
LEMMA OthersUntouched ==
    ASSUME TypeOK, NEW c \in Clients, ClientStep(c), NEW d \in Clients \ {c}
    PROVE  Untouched(d)
<1> USE DEF TypeOK, Untouched
<1>1. CASE Request(c)
  <2>1. ASSUME NEW row \in OrderRow, NEW bps \in FeeBps, Place(c, row, bps)
        PROVE  Untouched(d)
    BY <2>1 DEF Place
  <2>2. ASSUME NEW row \in OrderRow, PlaceRefused(c, row)
        PROVE  Untouched(d)
    BY <2>2 DEF PlaceRefused
  <2>3. ASSUME NEW o \in Ids, ReadCancel(c, o)
        PROVE  Untouched(d)
    BY <2>3 DEF ReadCancel
  <2>4. ASSUME NEW b \in Ids, NEW s \in Ids, NEW q \in Qtys, NEW p \in DemoPrices,
               NEW bps \in FeeBps, DemoFill(c, b, s, q, p, bps)
        PROVE  Untouched(d)
    BY <2>4 DEF DemoFill
  <2> QED
    BY <1>1, <2>1, <2>2, <2>3, <2>4 DEF Request
<1>2. CASE Match(c) \/ CheckFok(c) \/ SettleFill(c) \/ SyncRead(c) \/ SyncWrite(c)
  BY <1>2 DEF Match, CheckFok, SettleFill, SyncRead, SyncWrite
<1>3. CASE FillMaker(c)
  BY <1>3 DEF FillMaker
<1>4. CASE LeaveLoop(c) \/ CancelRest(c) \/ ReleaseHold(c) \/ CancelWrite(c)
  BY <1>4 DEF LeaveLoop, CancelRest, ReleaseHold, CancelWrite
<1>5. CASE ReleaseResidual(c) \/ Reconcile(c)
  BY <1>5 DEF ReleaseResidual, Reconcile
<1>6. CASE Commit(c) \/ Fail(c) \/ Abort(c)
  BY <1>6 DEF Commit, Fail, Abort, Rollback, EndRequest
<1> QED
  BY <1>1, <1>2, <1>3, <1>4, <1>5, <1>6 DEF ClientStep, Proceed

\* Only a placement, a rollback and a commit change what the tables hold.
LEMMA TablesUntouched ==
    ASSUME NEW c \in Clients, ClientStep(c), ~Commit(c), ~Rollback(c),
           \A row \in OrderRow, bps \in FeeBps : ~Place(c, row, bps)
    PROVE  UNCHANGED <<order, dbVars>>
<1>1. CASE Request(c)
  BY <1>1, ZenonT(60) DEF Request, PlaceRefused, ReadCancel, DemoFill, dbVars
<1>2. CASE Match(c) \/ CheckFok(c) \/ SettleFill(c) \/ SyncRead(c) \/ SyncWrite(c)
  BY <1>2 DEF Match, CheckFok, SettleFill, SyncRead, SyncWrite, dbVars
<1>3. CASE FillMaker(c)
  BY <1>3 DEF FillMaker, dbVars
<1>4. CASE LeaveLoop(c) \/ CancelRest(c) \/ ReleaseHold(c) \/ CancelWrite(c)
  BY <1>4 DEF LeaveLoop, CancelRest, ReleaseHold, CancelWrite, dbVars
<1>5. CASE ReleaseResidual(c) \/ Reconcile(c)
  BY <1>5 DEF ReleaseResidual, Reconcile, dbVars
<1> QED
  BY <1>1, <1>2, <1>3, <1>4, <1>5 DEF ClientStep, Proceed, Fail, Abort

\* An order that is committed stays as it was placed, and so does one that another
\* request is submitting.
LEMMA RowsStay ==
    ASSUME IInv, NEW c \in Clients, ClientStep(c)
    PROVE  /\ \A o \in Ids : status[o] # "NONE" => status'[o] # "NONE" /\ order'[o] = order[o]
           /\ \A d \in Clients \ {c} : Submitting(d) =>
                  order'[req[d].id] = order[req[d].id] /\ status'[req[d].id] = "NONE"
<1>0. TypeOK /\ RowsInv /\ DistinctInv /\ \A d \in Clients : ClientInv(d)
  BY DEF IInv
<1>1. CASE Rollback(c)
  <2>1. /\ status' = status
        /\ order' = IF req[c].kind = "submit"
                    THEN [order EXCEPT ![req[c].id] = NoOrder] ELSE order
    BY <1>1 DEF Rollback, dbVars
  <2> QED
    BY <1>0, <2>1 DEF ClientInv, OwnRowInv, DistinctInv, Submitting, TypeOK
<1>2. CASE Commit(c)
  <2>1. order' = order /\ \A o \in Ids : status'[o] = StatusSeen(c, o)
    BY <1>2 DEF Commit
  <2>2. ASSUME NEW o \in Ids, status[o] = "NONE", status'[o] # "NONE"
        PROVE  Submitting(c) /\ o = req[c].id
    BY <1>0, <2>1, <2>2 DEF StatusSeen, ClientInv, WritesInv, Writable
  <2> QED
    BY <1>0, <2>1, <2>2 DEF StatusSeen, ClientInv, OwnRowInv, DistinctInv
<1>3. CASE \E row \in OrderRow, bps \in FeeBps : Place(c, row, bps)
  <2>1. PICK row \in OrderRow : status' = status /\ order' = [order EXCEPT ![nextId] = row]
    BY <1>3 DEF Place, dbVars
  <2>2. \A o \in Ids : status[o] # "NONE" => o # nextId
    BY <1>0 DEF RowsInv, TypeOK, Ids
  <2>3. \A d \in Clients : Submitting(d) => req[d].id # nextId
    BY <1>0 DEF ClientInv, OwnRowInv, TypeOK, Ids
  <2> QED
    BY <1>0, <2>1, <2>2, <2>3 DEF ClientInv, OwnRowInv, TypeOK
<1>4. CASE UNCHANGED <<order, dbVars>>
  BY <1>0, <1>4 DEF ClientInv, OwnRowInv, dbVars
<1> QED
  BY <1>1, <1>2, <1>3, <1>4, TablesUntouched

-----------------------------------------------------------------------------
(* Price-time priority as a locking order.                                 *)

\* The order that the taker of a submission is filling against.
Maker(c) == IF order[req[c].id].side = "BUY" THEN req[c].sell ELSE req[c].buy

Settling(c) == pc[c] \in {"settle", "syncRead", "syncWrite"}

\* A row, other than its own, that client c's transaction has updated.
Holds(c, o) == o \in Ids /\ o # req[c].id /\ wStatus[c][o] # "NONE"

\* A submission has updated makers of the opposite side only, all before those it has
\* yet to come to ...
PassedMakers(c) ==
    \A o \in Ids : Holds(c, o) =>
        /\ status[o] # "NONE" /\ order[o].side = Opposite(order[req[c].id].side)
        /\ \A n \in req[c].makers : Before(o, n)

\* ... and the maker it is filling against is between the two.
CurrentMaker(c) ==
    Settling(c) =>
        /\ Maker(c) \in Ids /\ Maker(c) # req[c].id /\ status[Maker(c)] # "NONE"
        /\ order[Maker(c)].side = Opposite(order[req[c].id].side)
        /\ \A n \in req[c].makers : Before(Maker(c), n)
        /\ \A o \in Ids : Holds(c, o) => o = Maker(c) \/ Before(o, Maker(c))
        /\ wStatus[c][Maker(c)] # "NONE" =>
               pc[c] # "settle" /\ req[c].sync = "SELL" /\ Maker(c) = req[c].buy

SubmitLocks(c) == Submitting(c) => PassedMakers(c) /\ CurrentMaker(c)

\* The demo route holds at most the buy order when it waits for the sell order.
DemoLocks(c) ==
    req[c].kind = "demo" /\ Settling(c) =>
        \A o \in Ids : wStatus[c][o] # "NONE" =>
            pc[c] # "settle" /\ req[c].sync = "SELL" /\ o = req[c].buy

\* A request that has not begun to write, and a cancel that waits, hold nothing.
EmptyHanded(c) ==
    /\ req[c].kind \in {"none", "cancel"} /\ pc[c] # "commit" =>
           \A o \in Ids : wStatus[c][o] = "NONE"
    /\ pc[c] = "match" => \A o \in Ids : ~Holds(c, o)

LocksInv(c) == SubmitLocks(c) /\ DemoLocks(c) /\ EmptyHanded(c)

LockInv == \A c \in Clients : LocksInv(c)

\* Price-time priority is a strict order of the makers of one side.
LEMMA BeforeIsStrict ==
    ASSUME NEW l \in Ids, NEW m \in Ids, NEW n \in Ids,
           order[l] \in OrderRow, order[m] \in OrderRow, order[n] \in OrderRow,
           order[l].side = order[m].side, order[m].side = order[n].side
    PROVE  /\ ~Before(l, l)
           /\ Before(l, m) => ~Before(m, l)
           /\ Before(l, m) /\ Before(m, n) => Before(l, n)
<1>1. /\ order[l].price \in Nat /\ order[m].price \in Nat /\ order[n].price \in Nat
      /\ order[l].side \in Side
  BY RowColumns
<1>2. l \in Int /\ m \in Int /\ n \in Int
  BY ConstantTypes DEF Ids
<1> QED
  BY <1>1, <1>2 DEF Before, Side

\* Priority depends on committed rows only, which stay.
LEMMA OthersKeepLocks ==
    ASSUME IInv, LockInv, NEW c \in Clients, ClientStep(c), NEW d \in Clients \ {c}
    PROVE  LocksInv(d)'
<1>0. TypeOK /\ ClientInv(d) /\ LocksInv(d)
  BY DEF IInv, LockInv
<1>1. /\ pc'[d] = pc[d] /\ req'[d] = req[d] /\ wStatus'[d] = wStatus[d]
  BY <1>0, OthersUntouched DEF Untouched
<1>2. \A o \in Ids : status[o] # "NONE" => status'[o] # "NONE" /\ order'[o] = order[o]
  BY RowsStay
<1>3. Submitting(d) => order'[req[d].id] = order[req[d].id]
  BY RowsStay
<1>4. \A o : Holds(d, o)' <=> Holds(d, o)
  BY <1>1 DEF Holds
<1>5. \A m, n \in Ids : status[m] # "NONE" /\ status[n] # "NONE" =>
          (Before(m, n)' <=> Before(m, n))
  BY <1>2 DEF Before
<1>6. \A n \in req[d].makers : n \in Ids /\ status[n] # "NONE"
  BY <1>0 DEF ClientInv, TargetsInv, TypeOK, RequestType
<1>7. Submitting(d)' = Submitting(d) /\ Settling(d)' = Settling(d)
  BY <1>1 DEF Submitting, Settling
<1>8. Submitting(d) => Maker(d)' = Maker(d)
  BY <1>1, <1>3 DEF Maker
<1>9. SubmitLocks(d)'
  <2> SUFFICES ASSUME Submitting(d) PROVE SubmitLocks(d)'
    BY <1>7 DEF SubmitLocks
  <2>1. PassedMakers(d)'
    BY <1>0, <1>1, <1>2, <1>3, <1>4, <1>5, <1>6 DEF LocksInv, SubmitLocks, PassedMakers
  <2>2. CurrentMaker(d)'
    <3> SUFFICES ASSUME Settling(d) PROVE CurrentMaker(d)'
      BY <1>7 DEF CurrentMaker
    <3>1. PICK k \in Ids : k = Maker(d)
      BY <1>0 DEF LocksInv, SubmitLocks, CurrentMaker
    <3>2. /\ k # req[d].id /\ status[k] # "NONE"
          /\ order[k].side = Opposite(order[req[d].id].side)
          /\ \A n \in req[d].makers : Before(k, n)
          /\ \A o \in Ids : Holds(d, o) => status[o] # "NONE" /\ (o = k \/ Before(o, k))
          /\ wStatus[d][k] # "NONE" => pc[d] # "settle" /\ req[d].sync = "SELL" /\ k = req[d].buy
      BY <1>0, <3>1 DEF LocksInv, SubmitLocks, CurrentMaker, PassedMakers
    <3>3. /\ k # req'[d].id /\ status'[k] # "NONE"
          /\ order'[k].side = Opposite(order'[req'[d].id].side)
          /\ \A n \in req'[d].makers : Before(k, n)'
          /\ \A o \in Ids : Holds(d, o)' => o = k \/ Before(o, k)'
          /\ wStatus'[d][k] # "NONE" =>
                 pc'[d] # "settle" /\ req'[d].sync = "SELL" /\ k = req'[d].buy
      BY <1>1, <1>2, <1>3, <1>4, <1>5, <1>6, <3>2
    <3>4. Maker(d)' = k
      BY <1>8, <3>1
    <3> QED
      BY <3>3, <3>4 DEF CurrentMaker
  <2> QED
    BY <2>1, <2>2 DEF SubmitLocks
<1>10. DemoLocks(d)' /\ EmptyHanded(d)'
  BY <1>0, <1>1, <1>7 DEF LocksInv, DemoLocks, EmptyHanded, Holds
<1> QED
  BY <1>9, <1>10 DEF LocksInv

\* A placement begins with its own row only.
LEMMA PlaceLocks ==
    ASSUME IInv, LockInv, NEW c \in Clients, NEW row \in OrderRow, NEW bps \in FeeBps,
           Place(c, row, bps)
    PROVE  LocksInv(c)'
<1>0. TypeOK /\ LocksInv(c)
  BY DEF IInv, LockInv
<1>1. /\ pc[c] = "idle" /\ nextId \in Ids
      /\ pc' = [pc EXCEPT ![c] = "match"]
      /\ req' = [req EXCEPT ![c] = [NoRequest EXCEPT !.kind = "submit", !.id = nextId,
                                                     !.bps = bps]]
      /\ wStatus' = [wStatus EXCEPT ![c][nextId] = "OPEN"]
  BY DEF Place
<1>2. req[c].kind = "none"
  BY <1>1, IdleHasNone
<1>3. req'[c].kind = "submit" /\ req'[c].id = nextId /\ pc'[c] = "match"
  BY <1>0, <1>1 DEF TypeOK, NoRequest
<1>4. \A o \in Ids \ {nextId} : wStatus'[c][o] = "NONE"
  BY <1>0, <1>1, <1>2 DEF LocksInv, EmptyHanded, TypeOK
<1>5. \A o \in Ids : ~Holds(c, o)'
  BY <1>3, <1>4 DEF Holds
<1> QED
  BY <1>3, <1>5 DEF LocksInv, SubmitLocks, PassedMakers, CurrentMaker, Settling, DemoLocks,
                    EmptyHanded

\* The other requests begin, and the transactions end, with nothing.
LEMMA EmptyLocks ==
    ASSUME NEW c \in Clients, \A o \in Ids : wStatus'[c][o] = "NONE",
           req'[c].kind \in {"none", "cancel", "demo"}
    PROVE  LocksInv(c)'
  BY DEF LocksInv, SubmitLocks, Submitting, DemoLocks, EmptyHanded, Holds

\* Steps that update no row and name no other maker.
LEMMA SameLocks ==
    ASSUME NEW c \in Clients, LocksInv(c), UNCHANGED <<order, status>>,
           wStatus'[c] = wStatus[c],
           req'[c].kind = req[c].kind, req'[c].id = req[c].id,
           req'[c].makers \subseteq req[c].makers \/ pc[c] = "match",
           pc'[c] # "match",
           Settling(c)' => /\ Settling(c) /\ req'[c].buy = req[c].buy /\ req'[c].sell = req[c].sell
                           /\ pc[c] = "settle" \/ (pc'[c] # "settle" /\ req'[c].sync = req[c].sync),
           req[c].kind \in {"none", "cancel"} => pc[c] # "commit"
    PROVE  LocksInv(c)'
<1>1. Submitting(c)' = Submitting(c)
  BY DEF Submitting
<1>2. \A o : Holds(c, o)' <=> Holds(c, o)
  BY DEF Holds
<1>3. \A m, n : Before(m, n)' <=> Before(m, n)
  BY DEF Before
<1>4. SubmitLocks(c)'
  <2> SUFFICES ASSUME Submitting(c) PROVE PassedMakers(c)' /\ CurrentMaker(c)'
    BY <1>1 DEF SubmitLocks
  <2>1. PassedMakers(c)'
    BY <1>2, <1>3 DEF LocksInv, SubmitLocks, PassedMakers, EmptyHanded
  <2>2. CurrentMaker(c)'
    <3> SUFFICES ASSUME Settling(c)' PROVE CurrentMaker(c)'
      BY DEF CurrentMaker
    <3>1. Maker(c)' = Maker(c) /\ Settling(c) /\ pc[c] # "match"
      BY DEF Maker, Settling
    <3>2. CurrentMaker(c)
      BY DEF LocksInv, SubmitLocks
    <3>3. wStatus[c][Maker(c)] # "NONE" =>
              pc'[c] # "settle" /\ req'[c].sync = "SELL" /\ Maker(c) = req'[c].buy
      BY <3>1, <3>2 DEF CurrentMaker
    <3> QED
      BY <1>2, <1>3, <3>1, <3>2, <3>3 DEF CurrentMaker
  <2> QED
    BY <2>1, <2>2
<1>5. DemoLocks(c)'
  BY DEF LocksInv, DemoLocks, Settling
<1>6. EmptyHanded(c)'
  BY DEF LocksInv, EmptyHanded
<1> QED
  BY <1>4, <1>5, <1>6 DEF LocksInv

\* The loop goes on to the next maker in priority order.
LEMMA FillMakerLocks ==
    ASSUME IInv, LockInv, NEW c \in Clients, FillMaker(c)
    PROVE  LocksInv(c)'
<1>0. TypeOK /\ LocksInv(c) /\ ClientInv(c) /\ req[c] \in RequestType /\ RowsInv
  BY DEF IInv, LockInv, TypeOK
<1> DEFINE left(m) == RemainingQty(order[m].qty, ExecutedSeen(c, m))
           q(m) == Lesser(req[c].remaining, left(m))
<1>1. PICK m \in req[c].makers :
          /\ IsFirst(m, req[c].makers)
          /\ IF CanReceiveFills(StatusSeen(c, m)) /\ left(m) > 0
             THEN /\ req' = [req EXCEPT
                                ![c].makers = @ \ {m},
                                ![c].remaining = @ - q(m),
                                ![c].buy = IF order[req[c].id].side = "BUY"
                                           THEN req[c].id ELSE m,
                                ![c].sell = IF order[req[c].id].side = "BUY"
                                            THEN m ELSE req[c].id,
                                ![c].qty = q(m),
                                ![c].price = order[m].price]
                  /\ pc' = [pc EXCEPT ![c] = "settle"]
             ELSE /\ req' = [req EXCEPT ![c].makers = @ \ {m}]
                  /\ UNCHANGED pc
  BY DEF FillMaker
<1>2. pc[c] = "fill" /\ UNCHANGED <<order, status, wStatus>>
  BY DEF FillMaker, dbVars
<1>3. CASE ~(CanReceiveFills(StatusSeen(c, m)) /\ left(m) > 0)
  <2>1. /\ req'[c].kind = req[c].kind /\ req'[c].id = req[c].id
        /\ req'[c].makers \subseteq req[c].makers
    BY <1>0, <1>1, <1>3 DEF TypeOK, RequestType
  <2> QED
    BY <1>0, <1>1, <1>2, <1>3, <2>1, SameLocks DEF Settling
<1>4. CASE CanReceiveFills(StatusSeen(c, m)) /\ left(m) > 0
  <2>1. Submitting(c) /\ m \in Ids /\ status[m] # "NONE" /\ m # req[c].id
        /\ order[m].side = Opposite(order[req[c].id].side)
    BY <1>0, <1>2 DEF ClientInv, PhaseInv, TargetsInv, OwnRowInv, Submitting, TypeOK,
                      RequestType, Kinds
  <2>2. /\ req'[c].kind = req[c].kind /\ req'[c].id = req[c].id
        /\ req'[c].makers = req[c].makers \ {m} /\ pc'[c] = "settle"
        /\ order[req[c].id].side = "BUY" => req'[c].sell = m
        /\ order[req[c].id].side # "BUY" => req'[c].buy = m
    BY <1>0, <1>1, <1>4 DEF TypeOK, RequestType
  <2>3. Maker(c)' = m
    BY <1>2, <2>2 DEF Maker
  <2>4. \A n \in req[c].makers \ {m} : Before(m, n)
    BY <1>1 DEF IsFirst
  <2>5. \A o \in Ids : Holds(c, o) => Before(o, m)
    BY <1>0, <2>1 DEF LocksInv, SubmitLocks, PassedMakers
  <2>6. order[m] \in OrderRow
    BY <1>0, <2>1 DEF RowsInv
  <2>7. ~Before(m, m)
    BY <2>1, <2>6, BeforeIsStrict
  <2>8. wStatus[c][m] = "NONE"
    BY <2>1, <2>5, <2>7 DEF Holds
  <2>9. \A o : Holds(c, o)' <=> Holds(c, o)
    BY <1>2, <2>2 DEF Holds
  <2>10. \A o, n : Before(o, n)' <=> Before(o, n)
    BY <1>2 DEF Before
  <2>11. PassedMakers(c)'
    BY <1>0, <1>2, <2>1, <2>2, <2>9, <2>10 DEF LocksInv, SubmitLocks, PassedMakers
  <2>12. CurrentMaker(c)'
    BY <1>2, <2>1, <2>2, <2>3, <2>4, <2>5, <2>8, <2>9, <2>10 DEF CurrentMaker
  <2> QED
    BY <2>1, <2>2, <2>11, <2>12 DEF LocksInv, SubmitLocks, DemoLocks, EmptyHanded, Submitting
<1> QED
  BY <1>1, <1>3, <1>4

\* Synchronising the two orders of a fill updates the maker at last.
LEMMA SyncWriteLocks ==
    ASSUME IInv, LockInv, NEW c \in Clients, SyncWrite(c)
    PROVE  LocksInv(c)'
<1> DEFINE target == SyncedOrder(c)
<1>0. TypeOK /\ LocksInv(c) /\ ClientInv(c) /\ RowsInv /\ req[c] \in RequestType
  BY DEF IInv, LockInv, TypeOK
<1>1. /\ pc[c] = "syncWrite"
      /\ pc' = [pc EXCEPT ![c] = IF req[c].sync = "BUY" THEN "syncRead"
                                 ELSE IF req[c].kind = "submit" THEN "fill" ELSE "residual"]
      /\ req' = [req EXCEPT ![c].sync = Opposite(@), ![c].next = "NONE"]
      /\ wStatus' = [wStatus EXCEPT ![c][target] = req[c].next]
      /\ UNCHANGED <<order, status>>
  BY DEF SyncWrite, dbVars
<1>2. /\ req'[c].kind = req[c].kind /\ req'[c].id = req[c].id
      /\ req'[c].makers = req[c].makers
      /\ req'[c].buy = req[c].buy /\ req'[c].sell = req[c].sell
      /\ req'[c].sync = Opposite(req[c].sync)
      /\ req[c].sync \in Side
  BY <1>0, <1>1 DEF TypeOK, RequestType
<1>3. \A o \in Ids : o # target => wStatus'[c][o] = wStatus[c][o]
  BY <1>0, <1>1 DEF TypeOK
<1>4. pc'[c] = IF req[c].sync = "BUY" THEN "syncRead"
               ELSE IF req[c].kind = "submit" THEN "fill" ELSE "residual"
  BY <1>0, <1>1 DEF TypeOK
<1>5. req[c].kind \in {"submit", "demo"}
  BY <1>0, <1>1 DEF ClientInv, PhaseInv, RequestType, Kinds
<1>6. DemoLocks(c)'
  <2> SUFFICES ASSUME req[c].kind = "demo", req[c].sync = "BUY",
                      NEW o \in Ids, wStatus'[c][o] # "NONE"
               PROVE  o = req[c].buy
    BY <1>2, <1>4 DEF DemoLocks, Settling, Opposite, Side
  <2>1. wStatus[c][o] = "NONE"
    BY <1>0, <1>1 DEF LocksInv, DemoLocks, Settling
  <2> QED
    BY <1>3, <2>1 DEF SyncedOrder
<1>7. EmptyHanded(c)'
  BY <1>2, <1>4, <1>5 DEF EmptyHanded
<1>8. SubmitLocks(c)'
  <2> SUFFICES ASSUME Submitting(c) PROVE PassedMakers(c)' /\ CurrentMaker(c)'
    BY <1>2 DEF SubmitLocks, Submitting
  <2>0. PICK k \in Ids : k = Maker(c)
    BY <1>0, <1>1 DEF LocksInv, SubmitLocks, CurrentMaker, Settling
  <2>1. /\ PassedMakers(c)
        /\ k # req[c].id /\ status[k] # "NONE"
        /\ order[k].side = Opposite(order[req[c].id].side)
        /\ \A n \in req[c].makers : Before(k, n)
        /\ \A o \in Ids : Holds(c, o) => o = k \/ Before(o, k)
        /\ wStatus[c][k] # "NONE" => req[c].sync = "SELL" /\ k = req[c].buy
    BY <1>0, <1>1, <2>0 DEF LocksInv, SubmitLocks, CurrentMaker, Settling
  <2>2. {req[c].buy, req[c].sell} = {k, req[c].id}
    BY <1>0, <1>1, <2>0, <2>1 DEF ClientInv, MatchingInv, Maker
  <2>3. \A o \in Ids : Holds(c, o)' => o = k \/ Holds(c, o)
    BY <1>2, <1>3, <2>2 DEF Holds, SyncedOrder
  <2>4. \A o, n : Before(o, n)' <=> Before(o, n)
    BY <1>1 DEF Before
  <2>5. PassedMakers(c)'
    BY <1>1, <1>2, <2>1, <2>3, <2>4 DEF PassedMakers
  <2>6. Maker(c)' = k
    BY <1>1, <1>2, <2>0 DEF Maker
  <2>7. Settling(c)' /\ wStatus'[c][k] # "NONE" =>
            pc'[c] # "settle" /\ req'[c].sync = "SELL" /\ k = req'[c].buy
    BY <1>2, <1>3, <1>4, <2>1, <2>2 DEF Settling, SyncedOrder, Opposite, Submitting
  <2>8. CurrentMaker(c)'
    BY <1>1, <1>2, <2>1, <2>3, <2>4, <2>6, <2>7 DEF CurrentMaker
  <2> QED
    BY <2>5, <2>8
<1> QED
  BY <1>6, <1>7, <1>8 DEF LocksInv

\* Every other step of the client itself.
LEMMA OwnLocks ==
    ASSUME IInv, LockInv, NEW c \in Clients, ClientStep(c)
    PROVE  LocksInv(c)'
<1>0. TypeOK /\ LocksInv(c) /\ ClientInv(c) /\ req[c] \in RequestType
  BY DEF IInv, LockInv, TypeOK
<1>1. ASSUME NEW row \in OrderRow, PlaceRefused(c, row) PROVE LocksInv(c)'
  BY <1>0, <1>1, SameLocks, IdleHasNone DEF PlaceRefused, Settling, dbVars
<1>2. ASSUME NEW o \in Ids, ReadCancel(c, o) PROVE LocksInv(c)'
  <2>1. req'[c].kind = "cancel" /\ wStatus' = wStatus
    BY <1>0, <1>2 DEF ReadCancel, TypeOK, NoRequest
  <2>2. \A p \in Ids : wStatus[c][p] = "NONE"
    BY <1>0, <1>2, IdleHasNone DEF ReadCancel, LocksInv, EmptyHanded
  <2> QED
    BY <2>1, <2>2, EmptyLocks
<1>3. ASSUME NEW b \in Ids, NEW s \in Ids, NEW q \in Qtys, NEW p \in DemoPrices,
             NEW bps \in FeeBps, DemoFill(c, b, s, q, p, bps)
      PROVE  LocksInv(c)'
  <2>1. req'[c].kind = "demo" /\ wStatus' = wStatus
    BY <1>0, <1>3 DEF DemoFill, TypeOK, NoRequest
  <2>2. \A o \in Ids : wStatus[c][o] = "NONE"
    BY <1>0, <1>3, IdleHasNone DEF DemoFill, LocksInv, EmptyHanded
  <2> QED
    BY <2>1, <2>2, EmptyLocks
<1>4. CASE Match(c)
  <2>1. req'[c].kind = req[c].kind /\ req'[c].id = req[c].id /\ pc'[c] \in {"fok", "fill"}
    BY <1>0, <1>4 DEF Match, TypeOK, RequestType
  <2>2. pc[c] = "match" /\ req[c].kind = "submit" /\ UNCHANGED <<order, status, wStatus>>
    BY <1>0, <1>4 DEF Match, dbVars, ClientInv, PhaseInv, RequestType, Kinds
  <2> QED
    BY <1>0, <2>1, <2>2, SameLocks DEF Settling
<1>5. CASE CheckFok(c)
  <2>1. pc[c] = "fok" /\ pc'[c] = "fill" /\ UNCHANGED <<order, status, req, wStatus>>
    BY <1>0, <1>5 DEF CheckFok, TypeOK, dbVars
  <2>2. req[c].kind = "submit"
    BY <1>0, <2>1 DEF ClientInv, PhaseInv, RequestType, Kinds
  <2> QED
    BY <1>0, <2>1, <2>2, SameLocks DEF Settling
<1>6. CASE SettleFill(c)
  <2>1. /\ pc[c] = "settle" /\ pc'[c] = "syncRead" /\ UNCHANGED <<order, status, wStatus>>
        /\ req'[c].kind = req[c].kind /\ req'[c].id = req[c].id
        /\ req'[c].makers = req[c].makers
        /\ req'[c].buy = req[c].buy /\ req'[c].sell = req[c].sell
    BY <1>0, <1>6 DEF SettleFill, TypeOK, RequestType, dbVars
  <2> QED
    BY <1>0, <2>1, SameLocks DEF Settling
<1>7. CASE SyncRead(c)
  <2>1. /\ pc[c] = "syncRead" /\ pc'[c] = "syncWrite" /\ UNCHANGED <<order, status, wStatus>>
        /\ req'[c].kind = req[c].kind /\ req'[c].id = req[c].id
        /\ req'[c].makers = req[c].makers /\ req'[c].sync = req[c].sync
        /\ req'[c].buy = req[c].buy /\ req'[c].sell = req[c].sell
    BY <1>0, <1>7 DEF SyncRead, TypeOK, RequestType, dbVars
  <2> QED
    BY <1>0, <2>1, SameLocks DEF Settling
<1>8. CASE LeaveLoop(c)
  <2>1. /\ pc[c] = "fill" /\ pc'[c] \in {"cancelRest", "commit"}
        /\ UNCHANGED <<order, status, req, wStatus>>
    BY <1>0, <1>8 DEF LeaveLoop, TypeOK, dbVars
  <2>2. req[c].kind = "submit"
    BY <1>0, <2>1 DEF ClientInv, PhaseInv, RequestType, Kinds
  <2> QED
    BY <1>0, <2>1, <2>2, SameLocks DEF Settling
<1>9. CASE CancelRest(c)
  <2>1. /\ pc[c] = "cancelRest" /\ pc'[c] = "commit" /\ UNCHANGED <<order, status, req>>
        /\ \A o \in Ids \ {req[c].id} : wStatus'[c][o] = wStatus[c][o]
    BY <1>0, <1>9 DEF CancelRest, TypeOK, dbVars
  <2>2. req[c].kind = "submit"
    BY <1>0, <2>1 DEF ClientInv, PhaseInv, RequestType, Kinds
  <2>3. \A o : Holds(c, o)' <=> Holds(c, o)
    BY <2>1 DEF Holds
  <2>4. \A o, n : Before(o, n)' <=> Before(o, n)
    BY <2>1 DEF Before
  <2>5. PassedMakers(c)'
    BY <1>0, <2>1, <2>2, <2>3, <2>4 DEF LocksInv, SubmitLocks, PassedMakers, Submitting
  <2> QED
    BY <2>1, <2>2, <2>5 DEF LocksInv, SubmitLocks, CurrentMaker, DemoLocks, EmptyHanded,
                           Settling
<1>10. CASE ReleaseHold(c)
  <2>1. pc[c] = "releaseHold" /\ req' = req /\ wStatus' = wStatus
    BY <1>10 DEF ReleaseHold
  <2>2. req[c].kind = "cancel"
    BY <1>0, <2>1 DEF ClientInv, PhaseInv, RequestType, Kinds
  <2> QED
    BY <1>0, <2>1, <2>2, EmptyLocks DEF LocksInv, EmptyHanded
<1>11. CASE CancelWrite(c)
  <2>1. pc[c] = "cancelWrite" /\ pc'[c] = "commit" /\ req' = req
    BY <1>0, <1>11 DEF CancelWrite, TypeOK
  <2>2. req[c].kind = "cancel"
    BY <1>0, <2>1 DEF ClientInv, PhaseInv, RequestType, Kinds
  <2> QED
    BY <2>1, <2>2 DEF LocksInv, SubmitLocks, DemoLocks, EmptyHanded, Submitting
<1>12. CASE ReleaseResidual(c) \/ Reconcile(c)
  <2>1. /\ pc[c] \in {"residual", "reconcile"} /\ pc'[c] \in {"reconcile", "commit"}
        /\ UNCHANGED <<order, status, req, wStatus>>
    BY <1>0, <1>12 DEF ReleaseResidual, Reconcile, TypeOK, dbVars
  <2>2. req[c].kind = "demo"
    BY <1>0, <2>1 DEF ClientInv, PhaseInv, RequestType, Kinds
  <2> QED
    BY <1>0, <2>1, <2>2, SameLocks DEF Settling
<1>13. CASE EndRequest(c)
  <2>1. req'[c] = NoRequest /\ wStatus'[c] = NoWrites
    BY <1>0, <1>13 DEF EndRequest, TypeOK
  <2> QED
    BY <2>1, EmptyLocks, NoRequestIsTyped DEF NoWrites
<1> QED
  BY <1>1, <1>2, <1>3, <1>4, <1>5, <1>6, <1>7, <1>8, <1>9, <1>10, <1>11, <1>12, <1>13,
     PlaceLocks, FillMakerLocks, SyncWriteLocks
     DEF ClientStep, Request, Proceed, Abort, Fail, Rollback, Commit

\* Every step keeps the locking order.
LEMMA NextKeepsLocks == IInv /\ LockInv /\ [Next]_vars => LockInv'
<1> SUFFICES ASSUME IInv, LockInv, [Next]_vars PROVE LockInv'
  OBVIOUS
<1>1. CASE UNCHANGED vars
  <2>1. UNCHANGED <<order, status, pc, req, wStatus>>
    BY <1>1 DEF vars
  <2>2. ASSUME NEW c \in Clients PROVE LocksInv(c)'
    <3>1. SubmitLocks(c) /\ DemoLocks(c) /\ EmptyHanded(c)
      BY DEF LockInv, LocksInv
    <3>2. SubmitLocks(c)'
      BY <2>1, <3>1 DEF SubmitLocks, PassedMakers, CurrentMaker, Submitting, Settling, Holds, Maker, Before
    <3>3. DemoLocks(c)' /\ EmptyHanded(c)'
      BY <2>1, <3>1 DEF DemoLocks, EmptyHanded, Settling, Holds
    <3> QED
      BY <3>2, <3>3 DEF LocksInv
  <2> QED
    BY <2>2 DEF LockInv
<1>2. ASSUME NEW c \in Clients, ClientStep(c) PROVE LockInv'
  BY <1>2, OwnLocks, OthersKeepLocks DEF LockInv
<1> QED
  BY <1>1, <1>2 DEF Next, ClientStep

\* Nothing is locked at first.
LEMMA InitLocks == Init => LockInv
<1> SUFFICES ASSUME Init PROVE LockInv
  OBVIOUS
<1>1. \A c \in Clients : req[c].kind = "none" /\ pc[c] = "idle" /\ wStatus[c] = NoWrites
  BY DEF Init, NoRequest
<1> QED
  BY <1>1 DEF LockInv, LocksInv, SubmitLocks, DemoLocks, EmptyHanded, Submitting, NoWrites

\* A submission that waits for a maker waits for one that comes after all it holds.
LEMMA WaitsForLater ==
    ASSUME IInv, LockInv, NEW c \in Clients, NEW y \in Ids,
           pc[c] = "syncWrite", Submitting(c), status[SyncedOrder(c)] # "NONE",
           status[y] # "NONE", wStatus[c][y] # "NONE"
    PROVE  order[SyncedOrder(c)].side = order[y].side /\ Before(y, SyncedOrder(c))
<1>0. TypeOK /\ ClientInv(c) /\ LocksInv(c) /\ Settling(c)
  BY DEF IInv, LockInv, Settling
<1>1. PassedMakers(c) /\ CurrentMaker(c)
  BY <1>0 DEF LocksInv, SubmitLocks
<1>2. status[req[c].id] = "NONE" /\ req[c].id \in {req[c].buy, req[c].sell}
  BY <1>0 DEF ClientInv, OwnRowInv, MatchingInv
<1>3. SyncedOrder(c) = Maker(c)
  BY <1>0, <1>1, <1>2 DEF SyncedOrder, CurrentMaker, Maker
<1>4. Holds(c, y)
  BY <1>2 DEF Holds
<1>5. y = Maker(c) \/ Before(y, Maker(c))
  BY <1>0, <1>1, <1>4 DEF CurrentMaker
<1>6. y # Maker(c)
  <2>1. req[c].sync = "SELL" => SyncedOrder(c) = req[c].sell
    BY DEF SyncedOrder
  <2>2. req[c].buy # req[c].sell
    BY <1>0 DEF ClientInv, TargetsInv
  <2> QED
    BY <1>0, <1>1, <1>3, <2>1, <2>2 DEF CurrentMaker
<1> QED
  BY <1>0, <1>1, <1>3, <1>4, <1>5, <1>6 DEF CurrentMaker, PassedMakers

\* Two requests that wait for each other would each have to come first.
LEMMA LockedInOrder == IInv /\ LockInv => NoLockCycle
<1> SUFFICES ASSUME IInv, LockInv, NEW c \in Clients, NEW d \in Clients, c # d,
                    WaitsFor(c, d), WaitsFor(d, c)
             PROVE  FALSE
  BY DEF NoLockCycle
<1> DEFINE x == SyncedOrder(c)
           y == SyncedOrder(d)
<1>0. TypeOK /\ RowsInv /\ DistinctInv /\ ClientInv(c) /\ ClientInv(d)
      /\ LocksInv(c) /\ LocksInv(d)
  BY DEF IInv, LockInv
<1>1. req[c] \in RequestType /\ req[d] \in RequestType
  BY <1>0 DEF TypeOK
<1>2. req[c].kind \in Kinds /\ req[d].kind \in Kinds
  BY <1>1 DEF RequestType
<1>3. pc[c] = "syncWrite" /\ pc[d] = "syncWrite"
  <2>1. pc[c] = "cancelWrite" => req[c].kind = "cancel" /\ req[c].id \in Ids
    BY <1>0, <1>2 DEF ClientInv, PhaseInv, TargetsInv, Kinds
  <2>2. pc[d] = "cancelWrite" => req[d].kind = "cancel" /\ req[d].id \in Ids
    BY <1>0, <1>2 DEF ClientInv, PhaseInv, TargetsInv, Kinds
  <2>3. pc[c] = "syncWrite" => x \in Ids
    BY <1>0 DEF ClientInv, TargetsInv, Writable, SyncedOrder
  <2>4. pc[d] = "syncWrite" => y \in Ids
    BY <1>0 DEF ClientInv, TargetsInv, Writable, SyncedOrder
  <2> QED
    BY <1>0, <2>1, <2>2, <2>3, <2>4 DEF WaitsFor, LocksInv, EmptyHanded
<1>4. wStatus[d][x] # "NONE" /\ wStatus[c][y] # "NONE"
  BY <1>3 DEF WaitsFor
<1>5. req[c].kind \in {"submit", "demo"} /\ req[d].kind \in {"submit", "demo"}
  BY <1>0, <1>2, <1>3 DEF ClientInv, PhaseInv, Kinds
<1>6. /\ x \in Ids /\ order[x].side = (IF req[c].sync = "BUY" THEN "BUY" ELSE "SELL")
      /\ y \in Ids /\ order[y].side = (IF req[d].sync = "BUY" THEN "BUY" ELSE "SELL")
  BY <1>0, <1>3 DEF ClientInv, TargetsInv, Writable, SyncedOrder
<1>7. status[x] # "NONE" /\ status[y] # "NONE"
  BY <1>0, <1>3, <1>4, <1>6
     DEF ClientInv, TargetsInv, Writable, WritesInv, DistinctInv, SyncedOrder
<1>8. order[x] \in OrderRow /\ order[y] \in OrderRow
  BY <1>0, <1>6, <1>7 DEF RowsInv
<1>9. Submitting(c) => order[x].side = order[y].side /\ Before(y, x)
  BY <1>3, <1>4, <1>6, <1>7, WaitsForLater
<1>10. Submitting(d) => order[x].side = order[y].side /\ Before(x, y)
  BY <1>3, <1>4, <1>6, <1>7, WaitsForLater
<1>11. ~Submitting(c) => y = req[c].buy /\ order[y].side = "BUY" /\ order[x].side = "SELL"
  BY <1>0, <1>3, <1>4, <1>5, <1>6
     DEF LocksInv, DemoLocks, Settling, ClientInv, TargetsInv, Submitting
<1>12. ~Submitting(d) => x = req[d].buy /\ order[x].side = "BUY" /\ order[y].side = "SELL"
  BY <1>0, <1>3, <1>4, <1>5, <1>6
     DEF LocksInv, DemoLocks, Settling, ClientInv, TargetsInv, Submitting
<1>13. order[x].side = order[y].side => ~(Before(x, y) /\ Before(y, x))
  BY <1>6, <1>8, BeforeIsStrict
<1> QED
  BY <1>9, <1>10, <1>11, <1>12, <1>13

\* Price-time priority is a locking order: however many submissions, cancels and demo
\* fills overlap, no two of their transactions wait for each other's rows.
THEOREM NeverDeadlocked == Spec => []NoLockCycle
<1>1. Init => IInv /\ LockInv
  BY InitIInv, InitLocks
<1>2. (IInv /\ LockInv) /\ [Next]_vars => (IInv /\ LockInv)'
  BY NextKeeps, NextKeepsLocks
<1>3. IInv /\ LockInv => NoLockCycle
  BY LockedInOrder
<1> QED
  BY <1>1, <1>2, <1>3, PTL DEF Spec

-----------------------------------------------------------------------------
(* Finite sums: what the folds of the model add up to.                     *)

\* A set of subsets that holds whenever it holds for everything smaller has them all.
LEMMA SmallerFirst ==
    ASSUME NEW S, IsFiniteSet(S), NEW Good,
           \A T \in SUBSET S : (\A U \in SUBSET T : U # T => U \in Good) => T \in Good
    PROVE  \A T \in SUBSET S : T \in Good
<1> DEFINE Bad == {T \in SUBSET S : T \notin Good}
<1>1. SUFFICES ASSUME Bad # {} PROVE FALSE
  OBVIOUS
<1>2. IsWellFoundedOn(StrictSubsetOrdering(S), FiniteSubsetsOf(S))
  BY FS_StrictSubsetOrderingWellFounded
<1>3. Bad \subseteq FiniteSubsetsOf(S)
  BY FS_FiniteSubsetsOfFinite
<1>4. PICK T \in Bad : \A U \in Bad : ~(<<U, T>> \in StrictSubsetOrdering(S))
  <2> HIDE DEF Bad
  <2> QED
    BY <1>1, <1>2, <1>3, WFMin
<1>5. \A U \in SUBSET T : U # T => <<U, T>> \in StrictSubsetOrdering(S)
  BY DEF StrictSubsetOrdering
<1>6. ASSUME NEW U \in SUBSET T, U # T PROVE U \in Good
  <2>1. U \notin Bad
    BY <1>4, <1>5, <1>6
  <2>2. U \in SUBSET S
    BY <1>4
  <2> QED
    BY <2>1, <2>2
<1>7. T \in SUBSET S /\ T \notin Good
  BY <1>4
<1> QED
  BY <1>6, <1>7

\* Induction over the subsets of a finite set, one element at a time.
LEMMA OneByOne ==
    ASSUME NEW S, IsFiniteSet(S), NEW Good, {} \in Good,
           \A T \in SUBSET S : \A x \in S \ T : T \in Good => T \cup {x} \in Good
    PROVE  S \in Good
<1>1. ASSUME NEW T \in SUBSET S, \A U \in SUBSET T : U # T => U \in Good
      PROVE  T \in Good
  <2>1. CASE T = {}
    BY <2>1
  <2>2. CASE T # {}
    <3>1. PICK x \in T : TRUE
      BY <2>2
    <3>2. T \ {x} \in Good /\ T \ {x} \in SUBSET S /\ x \in S \ (T \ {x})
      BY <1>1
    <3>3. T = (T \ {x}) \cup {x}
      OBVIOUS
    <3> QED
      BY <3>2, <3>3
  <2> QED
    BY <2>1, <2>2
<1> QED
  BY <1>1, SmallerFirst

-----------------------------------------------------------------------------
\* What f adds up to over a set.
Total(f, S) == MapThenSumSet(LAMBDA x : f[x], S)

Pick(s) == CHOOSE x \in s : TRUE

\* it holds the sums of f over all subsets of T.
IsSums(f, T, it) ==
    it = [s \in SUBSET T |-> IF s = {} THEN 0 ELSE f[Pick(s)] + it[s \ {Pick(s)}]]

\* The element that the folds take next is one of the set.
LEMMA PickIsIn == ASSUME NEW s, s # {} PROVE Pick(s) \in s
  BY DEF Pick

\* There is one such function at most.
LEMMA SumsAgree ==
    ASSUME NEW f, NEW S, NEW T, NEW U, IsFiniteSet(S), S \subseteq T, S \subseteq U,
           NEW it, IsSums(f, T, it), NEW jt, IsSums(f, U, jt)
    PROVE  it[S] = jt[S]
<1> DEFINE Good == {s \in SUBSET S : it[s] = jt[s]}
<1>1. ASSUME NEW s \in SUBSET S, \A u \in SUBSET s : u # s => u \in Good
      PROVE  s \in Good
  <2>1. it[s] = IF s = {} THEN 0 ELSE f[Pick(s)] + it[s \ {Pick(s)}]
    <3>1. s \in SUBSET T
      OBVIOUS
    <3> QED
      BY <3>1 DEF IsSums
  <2>2. jt[s] = IF s = {} THEN 0 ELSE f[Pick(s)] + jt[s \ {Pick(s)}]
    <3>1. s \in SUBSET U
      OBVIOUS
    <3> QED
      BY <3>1 DEF IsSums
  <2>3. s # {} => s \ {Pick(s)} \in Good
    BY <1>1, PickIsIn
  <2> QED
    BY <2>1, <2>2, <2>3
<1> HIDE DEF Good
<1>2. S \in Good
  BY <1>1, SmallerFirst
<1> QED
  BY <1>2 DEF Good

\* And there is one.
LEMMA SumsExist ==
    ASSUME NEW f, NEW S, IsFiniteSet(S)
    PROVE  \E it : IsSums(f, S, it)
<1> DEFINE Good == {T \in SUBSET S : \E it : IsSums(f, T, it)}
           G(T) == CHOOSE it : IsSums(f, T, it)
<1>1. ASSUME NEW T \in SUBSET S, \A U \in SUBSET T : U # T => U \in Good
      PROVE  T \in Good
  <2> DEFINE it == [s \in SUBSET T |->
                       IF s = {} THEN 0
                       ELSE f[Pick(s)] + G(s \ {Pick(s)})[s \ {Pick(s)}]]
  <2>1. \A U \in SUBSET T : U # T => IsSums(f, U, G(U))
    BY <1>1
  <2>2. ASSUME NEW U \in SUBSET T, U # T PROVE it[U] = G(U)[U]
    <3>1. IsSums(f, U, G(U))
      BY <2>1, <2>2
    <3>2. G(U)[U] = IF U = {} THEN 0 ELSE f[Pick(U)] + G(U)[U \ {Pick(U)}]
      <4> HIDE DEF G
      <4> QED
        BY <3>1 DEF IsSums
    <3>3. CASE U # {}
      <4> DEFINE V == U \ {Pick(U)}
      <4>1. V \in SUBSET U /\ V \in SUBSET T /\ V # T
        BY <3>3, PickIsIn
      <4>2. IsSums(f, V, G(V))
        BY <2>1, <4>1
      <4>3. IsFiniteSet(V)
        BY <4>1, FS_Subset
      <4>4. G(U)[V] = G(V)[V]
        <5> HIDE DEF G, V
        <5> QED
          BY <3>1, <4>1, <4>2, <4>3, SumsAgree
      <4> QED
        BY <3>2, <3>3, <4>4
    <3>4. CASE U = {}
      BY <3>2, <3>4
    <3> QED
      BY <3>3, <3>4
  <2>3. \A s \in SUBSET T : s # {} => s \ {Pick(s)} \in SUBSET T /\ s \ {Pick(s)} # T
    BY PickIsIn
  <2>4. it = [s \in SUBSET T |-> IF s = {} THEN 0 ELSE f[Pick(s)] + it[s \ {Pick(s)}]]
    <3>1. \A s \in SUBSET T : it[s] = IF s = {} THEN 0 ELSE f[Pick(s)] + it[s \ {Pick(s)}]
      <4> SUFFICES ASSUME NEW s \in SUBSET T
                   PROVE  it[s] = IF s = {} THEN 0 ELSE f[Pick(s)] + it[s \ {Pick(s)}]
        OBVIOUS
      <4> DEFINE v == s \ {Pick(s)}
      <4>1. it[s] = IF s = {} THEN 0 ELSE f[Pick(s)] + G(v)[v]
        OBVIOUS
      <4>2. s # {} => it[v] = G(v)[v]
        BY <2>2, <2>3
      <4> HIDE DEF it, G, v
      <4>3. it[s] = IF s = {} THEN 0 ELSE f[Pick(s)] + it[v]
        BY <4>1, <4>2
      <4> QED
        BY <4>3 DEF v
    <3> DEFINE E(s) == IF s = {} THEN 0
                       ELSE f[Pick(s)] + G(s \ {Pick(s)})[s \ {Pick(s)}]
               F(s) == IF s = {} THEN 0 ELSE f[Pick(s)] + it[s \ {Pick(s)}]
    <3>2. \A s \in SUBSET T : E(s) = F(s)
      BY <3>1
    <3> QED
      <4> HIDE DEF E, F
      <4>1. [s \in SUBSET T |-> E(s)] = [s \in SUBSET T |-> F(s)]
        BY <3>2
      <4> QED
        BY <4>1 DEF E, F
  <2>5. IsSums(f, T, it)
    BY <2>4 DEF IsSums
  <2> QED
    <3> HIDE DEF it
    <3> QED
      BY <2>5
<1>2. S \in Good
  <2> HIDE DEF Good
  <2> QED
    BY <1>1, SmallerFirst
<1> QED
  BY <1>2

\* Any function of that kind has the sum.
LEMMA TotalIs ==
    ASSUME NEW f, NEW S, NEW T, IsFiniteSet(S), S \subseteq T, NEW it, IsSums(f, T, it)
    PROVE  Total(f, S) = it[S]
<1> DEFINE G == CHOOSE jt : IsSums(f, S, jt)
<1>1. IsSums(f, S, G)
  BY SumsExist
<1>2. Total(f, S) = G[S]
  BY DEF Total, MapThenSumSet, MapThenFoldSet, IsSums, Pick
<1> QED
  <2> HIDE DEF G
  <2>1. S \subseteq S
    OBVIOUS
  <2>2. G[S] = it[S]
    BY <1>1, <2>1, SumsAgree
  <2> QED
    BY <1>2, <2>2

\* A constant, added once for each element.
Constantly(k, S) ==
    CHOOSE it : it = [s \in SUBSET S |-> IF s = {} THEN 0 ELSE k + it[s \ {Pick(s)}]]

\* The sum of one number, once for each element of a set, is a total.
LEMMA ConstantTotal ==
    ASSUME NEW k, NEW S, IsFiniteSet(S)
    PROVE  Constantly(k, S)[S] = Total([x \in S |-> k], S)
<1> DEFINE f == [x \in S |-> k]
           Adds(it) == it = [s \in SUBSET S |-> IF s = {} THEN 0 ELSE k + it[s \ {Pick(s)}]]
<1>1. ASSUME NEW it PROVE IsSums(f, S, it) <=> Adds(it)
  <2>1. \A s \in SUBSET S : s # {} => f[Pick(s)] = k
    BY PickIsIn
  <2> DEFINE E(s) == IF s = {} THEN 0 ELSE f[Pick(s)] + it[s \ {Pick(s)}]
             F(s) == IF s = {} THEN 0 ELSE k + it[s \ {Pick(s)}]
  <2>2. \A s \in SUBSET S : E(s) = F(s)
    BY <2>1
  <2> HIDE DEF E, F
  <2>3. [s \in SUBSET S |-> E(s)] = [s \in SUBSET S |-> F(s)]
    BY <2>2
  <2> QED
    BY <2>3 DEF E, F, IsSums
<1>2. PICK jt : IsSums(f, S, jt)
  BY SumsExist
<1>3. Adds(jt)
  BY <1>1, <1>2
<1>4. Adds(Constantly(k, S))
  BY <1>3 DEF Constantly
<1>5. IsSums(f, S, Constantly(k, S))
  BY <1>1, <1>4
<1>6. S \subseteq S
  OBVIOUS
<1> HIDE DEF f
<1>7. Total(f, S) = Constantly(k, S)[S]
  BY <1>5, <1>6, TotalIs
<1> QED
  BY <1>7 DEF f

\* The sum of nothing, and of a set of which one element is picked first.
LEMMA TotalUnfolds ==
    ASSUME NEW f, NEW S, IsFiniteSet(S)
    PROVE  Total(f, S) = IF S = {} THEN 0 ELSE f[Pick(S)] + Total(f, S \ {Pick(S)})
<1>1. PICK it : IsSums(f, S, it)
  BY SumsExist
<1>2. S \in SUBSET S
  OBVIOUS
<1>3. it[S] = IF S = {} THEN 0 ELSE f[Pick(S)] + it[S \ {Pick(S)}]
  BY <1>1, <1>2 DEF IsSums
<1>4. Total(f, S) = it[S]
  BY <1>1, <1>2, TotalIs
<1>5. Total(f, S \ {Pick(S)}) = it[S \ {Pick(S)}]
  <2>1. IsFiniteSet(S \ {Pick(S)}) /\ S \ {Pick(S)} \subseteq S
    BY FS_Subset
  <2> QED
    BY <1>1, <2>1, TotalIs
<1> QED
  BY <1>3, <1>4, <1>5

\* Integers add up to an integer.
LEMMA TotalIsInt ==
    ASSUME NEW S, IsFiniteSet(S), NEW f, \A x \in S : f[x] \in Int
    PROVE  Total(f, S) \in Int
<1> DEFINE Good == {T \in SUBSET S : Total(f, T) \in Int}
<1>1. ASSUME NEW T \in SUBSET S, \A U \in SUBSET T : U # T => U \in Good
      PROVE  T \in Good
  <2>1. Total(f, T) = IF T = {} THEN 0 ELSE f[Pick(T)] + Total(f, T \ {Pick(T)})
    BY FS_Subset, TotalUnfolds
  <2>2. T # {} => Pick(T) \in T /\ T \ {Pick(T)} \in Good
    BY <1>1, PickIsIn
  <2> QED
    BY <2>1, <2>2
<1> HIDE DEF Good
<1>2. S \in Good
  BY <1>1, SmallerFirst
<1> QED
  BY <1>2 DEF Good

\* Any element may be taken out first.
LEMMA TotalTakesOut ==
    ASSUME NEW S, IsFiniteSet(S), NEW f, \A x \in S : f[x] \in Int, NEW x \in S
    PROVE  Total(f, S) = f[x] + Total(f, S \ {x})
<1> DEFINE Good == {T \in SUBSET S : \A y \in T : Total(f, T) = f[y] + Total(f, T \ {y})}
<1>1. ASSUME NEW T \in SUBSET S, \A U \in SUBSET T : U # T => U \in Good
      PROVE  T \in Good
  <2> SUFFICES ASSUME NEW y \in T PROVE Total(f, T) = f[y] + Total(f, T \ {y})
    OBVIOUS
  <2> DEFINE p == Pick(T)
  <2>0. p \in T /\ IsFiniteSet(T) /\ IsFiniteSet(T \ {p}) /\ IsFiniteSet(T \ {y, p})
    BY PickIsIn, FS_Subset
  <2>1. Total(f, T) = f[p] + Total(f, T \ {p})
    BY <2>0, TotalUnfolds
  <2>2. CASE y # p
    <3>1. T \ {p} \in Good /\ T \ {y} \in Good
      BY <1>1, <2>0
    <3>2. Total(f, T \ {p}) = f[y] + Total(f, (T \ {p}) \ {y})
      BY <2>0, <2>2, <3>1
    <3>3. Total(f, T \ {y}) = f[p] + Total(f, (T \ {y}) \ {p})
      BY <2>0, <2>2, <3>1
    <3>4. (T \ {p}) \ {y} = T \ {y, p} /\ (T \ {y}) \ {p} = T \ {y, p}
      OBVIOUS
    <3>5. Total(f, T \ {y, p}) \in Int
      BY <2>0, TotalIsInt
    <3>6. f[y] \in Int /\ f[p] \in Int
      BY <2>0
    <3>7. Total(f, T \ {p}) = f[y] + Total(f, T \ {y, p})
      BY <3>2, <3>4
    <3>8. Total(f, T \ {y}) = f[p] + Total(f, T \ {y, p})
      BY <3>3, <3>4
    <3> QED
      BY <2>1, <3>5, <3>6, <3>7, <3>8
  <2>3. CASE y = p
    BY <2>1, <2>3
  <2> QED
    BY <2>2, <2>3
<1> HIDE DEF Good
<1>2. S \in Good
  BY <1>1, SmallerFirst
<1> QED
  BY <1>2 DEF Good

\* The sum over nothing, and over one element more.
LEMMA TotalOfNone == ASSUME NEW f PROVE Total(f, {}) = 0
  BY FS_EmptySet, TotalUnfolds

\* One more element adds its number.
LEMMA TotalAdds ==
    ASSUME NEW S, IsFiniteSet(S), NEW x, x \notin S, NEW f,
           \A y \in S \cup {x} : f[y] \in Int
    PROVE  Total(f, S \cup {x}) = f[x] + Total(f, S)
<1>1. IsFiniteSet(S \cup {x}) /\ (S \cup {x}) \ {x} = S
  BY FS_AddElement
<1> QED
  BY <1>1, TotalTakesOut

\* Only the summands matter.
LEMMA TotalOfSame ==
    ASSUME NEW S, IsFiniteSet(S), NEW f, NEW g, \A x \in S : f[x] = g[x]
    PROVE  Total(f, S) = Total(g, S)
<1> DEFINE Good == {T \in SUBSET S : Total(f, T) = Total(g, T)}
<1>1. ASSUME NEW T \in SUBSET S, \A U \in SUBSET T : U # T => U \in Good
      PROVE  T \in Good
  <2>1. /\ Total(f, T) = IF T = {} THEN 0 ELSE f[Pick(T)] + Total(f, T \ {Pick(T)})
        /\ Total(g, T) = IF T = {} THEN 0 ELSE g[Pick(T)] + Total(g, T \ {Pick(T)})
    BY FS_Subset, TotalUnfolds
  <2>2. T # {} => Pick(T) \in T /\ T \ {Pick(T)} \in Good
    BY <1>1, PickIsIn
  <2> QED
    BY <2>1, <2>2
<1> HIDE DEF Good
<1>2. S \in Good
  BY <1>1, SmallerFirst
<1> QED
  BY <1>2 DEF Good

\* Sums may be added term by term.
LEMMA TotalOfSums ==
    ASSUME NEW S, IsFiniteSet(S), NEW f, NEW g, NEW h,
           \A x \in S : f[x] \in Int /\ g[x] \in Int /\ h[x] = f[x] + g[x]
    PROVE  Total(h, S) = Total(f, S) + Total(g, S)
<1> DEFINE Good == {T \in SUBSET S : Total(h, T) = Total(f, T) + Total(g, T)}
<1>1. {} \in Good
  BY TotalOfNone
<1>2. ASSUME NEW T \in SUBSET S, NEW x \in S \ T, T \in Good
      PROVE  T \cup {x} \in Good
  <2>0. IsFiniteSet(T) /\ \A y \in T \cup {x} : h[y] \in Int
    BY FS_Subset
  <2>1. /\ Total(h, T \cup {x}) = h[x] + Total(h, T)
        /\ Total(f, T \cup {x}) = f[x] + Total(f, T)
        /\ Total(g, T \cup {x}) = g[x] + Total(g, T)
    BY <2>0, TotalAdds
  <2>2. Total(f, T) \in Int /\ Total(g, T) \in Int
    BY <2>0, TotalIsInt
  <2> QED
    BY <1>2, <2>1, <2>2
<1> HIDE DEF Good
<1>3. S \in Good
  BY <1>1, <1>2, OneByOne
<1> QED
  BY <1>3 DEF Good

\* A change of one summand changes the sum by as much.
LEMMA TotalChanges ==
    ASSUME NEW S, IsFiniteSet(S), NEW f, NEW g, \A x \in S : f[x] \in Int, NEW y, NEW n \in Int,
           \A x \in S : g[x] = IF x = y THEN f[x] + n ELSE f[x]
    PROVE  Total(g, S) = IF y \in S THEN Total(f, S) + n ELSE Total(f, S)
<1>1. CASE y \notin S
  BY <1>1, TotalOfSame
<1>2. CASE y \in S
  <2>1. Total(f, S) = f[y] + Total(f, S \ {y})
    BY <1>2, TotalTakesOut
  <2>2. Total(g, S) = g[y] + Total(g, S \ {y})
    <3>1. \A x \in S : g[x] \in Int
      OBVIOUS
    <3> QED
      BY <1>2, <3>1, TotalTakesOut
  <2>3. IsFiniteSet(S \ {y})
    BY FS_Subset
  <2>4. Total(f, S \ {y}) = Total(g, S \ {y})
    BY <2>3, TotalOfSame
  <2>5. Total(f, S \ {y}) \in Int /\ f[y] \in Int /\ g[y] = f[y] + n
    BY <1>2, <2>3, TotalIsInt
  <2> QED
    BY <1>2, <2>1, <2>2, <2>4, <2>5
<1> QED
  BY <1>1, <1>2

\* A sum of naturals is a natural, and zero only if they all are.
LEMMA TotalIsNat ==
    ASSUME NEW S, IsFiniteSet(S), NEW f, \A x \in S : f[x] \in Nat
    PROVE  Total(f, S) \in Nat
<1> DEFINE Good == {T \in SUBSET S : Total(f, T) \in Nat}
<1>1. ASSUME NEW T \in SUBSET S, \A U \in SUBSET T : U # T => U \in Good
      PROVE  T \in Good
  <2>1. Total(f, T) = IF T = {} THEN 0 ELSE f[Pick(T)] + Total(f, T \ {Pick(T)})
    BY FS_Subset, TotalUnfolds
  <2>2. T # {} => Pick(T) \in T /\ T \ {Pick(T)} \in Good
    BY <1>1, PickIsIn
  <2> QED
    BY <2>1, <2>2
<1> HIDE DEF Good
<1>2. S \in Good
  BY <1>1, SmallerFirst
<1> QED
  BY <1>2 DEF Good

\* None of some naturals is more than their sum.
LEMMA TotalCovers ==
    ASSUME NEW S, IsFiniteSet(S), NEW f, \A x \in S : f[x] \in Nat, NEW x \in S
    PROVE  f[x] =< Total(f, S)
<1>1. Total(f, S) = f[x] + Total(f, S \ {x})
  BY TotalTakesOut
<1>2. IsFiniteSet(S \ {x})
  BY FS_Subset
<1>3. Total(f, S \ {x}) \in Nat
  BY <1>2, TotalIsNat
<1> QED
  BY <1>1, <1>3
\* Zeros may be left out.
LEMMA TotalOfZeros ==
    ASSUME NEW S, IsFiniteSet(S), NEW T \in SUBSET S, NEW f, \A x \in S : f[x] \in Int,
           \A x \in S \ T : f[x] = 0
    PROVE  Total(f, S) = Total(f, T)
<1> DEFINE Good == {U \in SUBSET (S \ T) : Total(f, T \cup U) = Total(f, T)}
<1>0. IsFiniteSet(T) /\ IsFiniteSet(S \ T)
  BY FS_Subset
<1>1. {} \in Good
  <2>1. T \cup {} = T
    OBVIOUS
  <2> QED
    BY <2>1
<1>2. ASSUME NEW U \in SUBSET (S \ T), NEW x \in (S \ T) \ U, U \in Good
      PROVE  U \cup {x} \in Good
  <2>1. IsFiniteSet(T \cup U) /\ x \notin T \cup U
    BY FS_Subset
  <2>2. \A y \in (T \cup U) \cup {x} : f[y] \in Int
    OBVIOUS
  <2>3. Total(f, (T \cup U) \cup {x}) = f[x] + Total(f, T \cup U)
    BY <2>1, <2>2, TotalAdds
  <2>4. (T \cup U) \cup {x} = T \cup (U \cup {x})
    OBVIOUS
  <2>5. Total(f, T \cup U) = Total(f, T) /\ Total(f, T) \in Int /\ f[x] = 0
    BY <1>0, <1>2, TotalIsInt
  <2>6. \A n \in Int : 0 + n = n
    OBVIOUS
  <2>7. Total(f, T \cup (U \cup {x})) = Total(f, T)
    BY <2>3, <2>4, <2>5, <2>6
  <2> QED
    BY <2>7
<1>3. S \ T \in Good
  <2> HIDE DEF Good
  <2> QED
    BY <1>0, <1>1, <1>2, OneByOne
<1>4. T \cup (S \ T) = S
  OBVIOUS
<1> QED
  BY <1>3, <1>4

-----------------------------------------------------------------------------
(* Money moves and is never made.                                          *)

\* What the users of the system were given at first, of an asset.
Funds(asset) == IF asset = "base" THEN BaseFunds ELSE QuoteFunds
Given(asset) == Total([u \in Users |-> Funds(asset)], Users)

\* The committed accounts of an asset hold what was given; what an open transaction
\* has posted moves money between them.
CommittedMoney == \A asset \in Asset : Total(bal, Owned(asset)) = Given(asset)
OpenMoney(c) == \A asset \in Asset : Total(dBal[c], Owned(asset)) = 0

MoneyInv == CommittedMoney /\ \A c \in Clients : OpenMoney(c)

\* The accounts that some users have of an asset.
AccountsOf(T, asset) == {Available(u, asset) : u \in T} \cup {Held(u, asset) : u \in T}

\* Each user has two accounts of an asset, and the system one of quote.
LEMMA OwnedAre ==
    ASSUME NEW asset \in Asset
    PROVE  Owned(asset) = IF asset = "base" THEN AccountsOf(Users, asset)
                          ELSE AccountsOf(Users, asset) \cup {FeeRevenue}
<1>1. ASSUME NEW a \in Account
      PROVE  a[2] = asset <=> a \in AccountsOf(Users, asset) \/ (asset = "quote" /\ a = FeeRevenue)
  BY DEF Account, AccountsOf, Available, Held, FeeRevenue, Asset
<1>2. \A u \in Users : Available(u, asset) \in Account /\ Held(u, asset) \in Account
  BY DEF Account, Available, Held
<1>3. FeeRevenue \in Account
  BY DEF Account
<1> QED
  BY <1>1, <1>2, <1>3 DEF Owned, AccountsOf, Asset

\* The accounts of an asset are finitely many, and hold at first what was given.
LEMMA AccountsAdd ==
    ASSUME NEW asset \in Asset, NEW f \in [Account -> Int],
           \A u \in Users : f[Available(u, asset)] = Funds(asset) /\ f[Held(u, asset)] = 0
    PROVE  /\ IsFiniteSet(AccountsOf(Users, asset))
           /\ Total(f, AccountsOf(Users, asset)) = Given(asset)
<1> DEFINE k == [u \in Users |-> Funds(asset)]
           Good == {T \in SUBSET Users : /\ IsFiniteSet(AccountsOf(T, asset))
                                         /\ Total(f, AccountsOf(T, asset)) = Total(k, T)}
<1>0. IsFiniteSet(Users) /\ Funds(asset) \in Int
  BY ExchangeAssumption DEF ExchangeAssumption, Funds
<1>1. {} \in Good
  <2>1. AccountsOf({}, asset) = {}
    BY DEF AccountsOf
  <2> QED
    BY <2>1, FS_EmptySet, TotalOfNone
<1>2. ASSUME NEW T \in SUBSET Users, NEW u \in Users \ T, T \in Good
      PROVE  T \cup {u} \in Good
  <2> DEFINE A == AccountsOf(T, asset)
             a == Available(u, asset)
             h == Held(u, asset)
  <2>1. a \notin A /\ h \notin A \cup {a}
    BY DEF AccountsOf, Available, Held
  <2>2. AccountsOf(T \cup {u}, asset) = (A \cup {a}) \cup {h}
    BY DEF AccountsOf
  <2>3. IsFiniteSet(A) /\ IsFiniteSet(A \cup {a}) /\ IsFiniteSet((A \cup {a}) \cup {h})
    BY <1>2, FS_AddElement
  <2>4. \A x \in (A \cup {a}) \cup {h} : f[x] \in Int
    BY <2>2 DEF AccountsOf, Account, Available, Held
  <2>5. Total(f, A \cup {a}) = f[a] + Total(f, A)
    <3> HIDE DEF A, a, h
    <3> QED
      BY <2>1, <2>3, <2>4, TotalAdds
  <2>6. Total(f, (A \cup {a}) \cup {h}) = f[h] + Total(f, A \cup {a})
    <3> HIDE DEF A, a, h
    <3> QED
      BY <2>1, <2>3, <2>4, TotalAdds
  <2>7. Total(k, T \cup {u}) = k[u] + Total(k, T)
    <3>1. IsFiniteSet(T) /\ \A x \in T \cup {u} : k[x] \in Int
      BY <1>0, FS_Subset
    <3> HIDE DEF k
    <3> QED
      BY <3>1, TotalAdds
  <2>8. Total(f, A) = Total(k, T) /\ Total(f, A) \in Int
    BY <1>2, <2>3, <2>4, TotalIsInt
  <2>9. f[a] = Funds(asset) /\ f[h] = 0 /\ k[u] = Funds(asset)
    OBVIOUS
  <2>10. Total(f, (A \cup {a}) \cup {h}) = Total(k, T \cup {u})
    <3> HIDE DEF A, a, h, k
    <3> QED
      BY <1>0, <2>5, <2>6, <2>7, <2>8, <2>9
  <2> QED
    BY <2>2, <2>3, <2>10
<1> HIDE DEF Good
<1>3. Users \in Good
  BY <1>0, <1>1, <1>2, OneByOne
<1> QED
  BY <1>3 DEF Good, Given

\* The accounts of an asset are finitely many.
LEMMA OwnedIsFinite == ASSUME NEW asset \in Asset PROVE IsFiniteSet(Owned(asset))
<1> DEFINE f == [a \in Account |-> IF a[3] = "AVAILABLE" THEN Funds(asset) ELSE 0]
<1>1. f \in [Account -> Int]
  BY ConstantTypes DEF Funds
<1>2. \A u \in Users : f[Available(u, asset)] = Funds(asset) /\ f[Held(u, asset)] = 0
  BY DEF Account, Available, Held
<1>3. IsFiniteSet(AccountsOf(Users, asset))
  <2> HIDE DEF f
  <2> QED
    BY <1>1, <1>2, AccountsAdd
<1> QED
  BY <1>3, OwnedAre, FS_AddElement

\* A posted transaction between two accounts of an asset leaves its sum.
LEMMA MoveConserves ==
    ASSUME NEW moves \in [Account -> Int], NEW from \in Account, NEW to \in Account,
           from # to, from[2] = to[2], NEW amount \in Int, NEW asset \in Asset
    PROVE  Total(Move(moves, from, to, amount), Owned(asset)) = Total(moves, Owned(asset))
<1> DEFINE half == [moves EXCEPT ![from] = @ - amount]
           both == Move(moves, from, to, amount)
           S == Owned(asset)
<1>0. IsFiniteSet(S)
  BY OwnedIsFinite
<1>1. S \subseteq Account /\ (from \in S <=> to \in S)
  BY DEF Owned
<1>2. /\ half \in [Account -> Int]
      /\ \A a \in Account : both[a] = IF a = to THEN half[a] + amount ELSE half[a]
  <2>1. half \in [Account -> Int]
    OBVIOUS
  <2>2. \A a \in Account : both[a] = IF a = to THEN half[a] + amount ELSE half[a]
    BY DEF Move
  <2> QED
    BY <2>1, <2>2
<1>3. /\ \A a \in S : moves[a] \in Int
      /\ \A a \in S : half[a] = IF a = from THEN moves[a] + (-amount) ELSE moves[a]
  BY <1>1
<1>4. /\ \A a \in S : half[a] \in Int
      /\ \A a \in S : both[a] = IF a = to THEN half[a] + amount ELSE half[a]
  <2> HIDE DEF half, both
  <2> QED
    BY <1>1, <1>2
<1>5. Total(half, S) = (IF from \in S THEN Total(moves, S) + (-amount) ELSE Total(moves, S))
      /\ Total(both, S) = (IF to \in S THEN Total(half, S) + amount ELSE Total(half, S))
  <2>1. -amount \in Int
    OBVIOUS
  <2> HIDE DEF half, both, S
  <2>2. Total(half, S) = (IF from \in S THEN Total(moves, S) + (-amount) ELSE Total(moves, S))
    BY <1>0, <1>3, <2>1, TotalChanges, ZenonT(60)
  <2>3. Total(both, S) = (IF to \in S THEN Total(half, S) + amount ELSE Total(half, S))
    BY <1>0, <1>4, TotalChanges, ZenonT(60)
  <2> QED
    BY <2>2, <2>3
<1>6. Total(moves, S) \in Int
  <2> HIDE DEF S
  <2> QED
    BY <1>0, <1>3, TotalIsInt
<1> HIDE DEF half, both, S
<1>7. Total(both, S) = Total(moves, S)
  BY <1>1, <1>5, <1>6
<1> QED
  BY <1>7 DEF both, S

\* The accounts an order's hold moves between are two accounts of one asset.
LEMMA HoldAccounts ==
    ASSUME NEW row \in OrderRow
    PROVE  /\ AvailableOf(row) \in Account /\ HeldOf(row) \in Account
           /\ AvailableOf(row) # HeldOf(row)
           /\ AvailableOf(row)[2] = HeldOf(row)[2]
           /\ HeldOf(row)[2] = HoldAsset(row.side) /\ HoldAsset(row.side) \in Asset
           /\ Available(row.user, "base") \in Account
           /\ Available(row.user, "quote") \in Account
           /\ FeeRevenue \in Account
<1>1. FeeRevenue \in Account
  BY DEF Account
<1> QED
  BY <1>1, RowColumns DEF AvailableOf, HeldOf, Available, Held, HoldAsset, Asset

\* A settled fill moves quote from the buyer's hold to the seller and the fee account,
\* base from the seller's hold to the buyer, and the improvement back to the buyer.
LEMMA SettlementConserves ==
    ASSUME IInv, NEW c \in Clients, SettleFill(c), NEW asset \in Asset
    PROVE  Total(dBal'[c], Owned(asset)) = Total(dBal[c], Owned(asset))
<1> DEFINE buyer == order[req[c].buy]
           seller == order[req[c].sell]
           fee == QuoteFee(Gross(c), req[c].bps)
           quoteMoved == Move(dBal[c], HeldOf(buyer),
                              Available(seller.user, "quote"), Gross(c))
           feeTaken == Move(quoteMoved, Available(seller.user, "quote"), FeeRevenue, fee)
           baseMoved == Move(feeTaken, HeldOf(seller),
                             Available(buyer.user, "base"), req[c].qty)
           better == IF req[c].kind = "demo" THEN 0
                     ELSE PriceImprovement(buyer.price, req[c].price, req[c].qty)
           moved == Move(baseMoved, HeldOf(buyer), AvailableOf(buyer), better)
<1>0. TypeOK /\ ClientInv(c) /\ RowsInv /\ req[c] \in RequestType
  BY DEF IInv, TypeOK
<1>1. /\ buyer \in OrderRow /\ seller \in OrderRow
      /\ buyer.side = "BUY" /\ seller.side = "SELL"
  BY <1>0 DEF SettleFill, ClientInv, TargetsInv, Writable, OwnRowInv, RowsInv
<1>2. /\ HeldOf(buyer) \in Account /\ AvailableOf(buyer) \in Account
      /\ HeldOf(seller) \in Account /\ Available(seller.user, "quote") \in Account
      /\ Available(buyer.user, "base") \in Account /\ FeeRevenue \in Account
      /\ buyer.price \in Nat
  BY <1>1, RowColumns, HoldAccounts
<1>3. /\ HeldOf(buyer)[2] = Available(seller.user, "quote")[2]
      /\ HeldOf(buyer) # Available(seller.user, "quote")
      /\ Available(seller.user, "quote")[2] = FeeRevenue[2]
      /\ Available(seller.user, "quote") # FeeRevenue
      /\ HeldOf(seller)[2] = Available(buyer.user, "base")[2]
      /\ HeldOf(seller) # Available(buyer.user, "base")
      /\ HeldOf(buyer)[2] = AvailableOf(buyer)[2]
      /\ HeldOf(buyer) # AvailableOf(buyer)
  BY <1>1 DEF HeldOf, AvailableOf, Held, Available, FeeRevenue, HoldAsset
<1>4. req[c].qty \in Nat /\ req[c].price \in Nat /\ req[c].bps \in Nat
  BY <1>0 DEF RequestType
<1>5. Gross(c) \in Nat /\ Gross(c) \in Int /\ req[c].qty \in Int
  BY <1>4 DEF Gross
<1>6. fee \in Int /\ better \in Int
  <2>1. QuoteFee(Gross(c), req[c].bps) \in Int
    BY <1>4, <1>5, AmountsAreInt
  <2>2. PriceImprovement(buyer.price, req[c].price, req[c].qty) \in Int
    BY <1>2, <1>4, AmountsAreInt
  <2> QED
    BY <2>1, <2>2
<1>7. dBal[c] \in [Account -> Int] /\ dBal'[c] = moved
  BY <1>0 DEF TypeOK, SettleFill
<1>8. /\ quoteMoved \in [Account -> Int]
      /\ Total(quoteMoved, Owned(asset)) = Total(dBal[c], Owned(asset))
  <2> HIDE DEF buyer, seller
  <2>1. quoteMoved \in [Account -> Int]
    BY <1>2, <1>3, <1>5, <1>7, MoveIsMoves
  <2>2. Total(quoteMoved, Owned(asset)) = Total(dBal[c], Owned(asset))
    BY <1>2, <1>3, <1>5, <1>7, MoveConserves
  <2> QED
    BY <2>1, <2>2
<1>9. /\ feeTaken \in [Account -> Int]
      /\ Total(feeTaken, Owned(asset)) = Total(quoteMoved, Owned(asset))
  <2> HIDE DEF buyer, seller, quoteMoved, fee
  <2>1. feeTaken \in [Account -> Int]
    BY <1>2, <1>3, <1>6, <1>8, MoveIsMoves
  <2>2. Total(feeTaken, Owned(asset)) = Total(quoteMoved, Owned(asset))
    BY <1>2, <1>3, <1>6, <1>8, MoveConserves
  <2> QED
    BY <2>1, <2>2
<1>10. /\ baseMoved \in [Account -> Int]
       /\ Total(baseMoved, Owned(asset)) = Total(feeTaken, Owned(asset))
  <2> HIDE DEF buyer, seller, feeTaken
  <2>1. baseMoved \in [Account -> Int]
    BY <1>2, <1>3, <1>5, <1>9, MoveIsMoves
  <2>2. Total(baseMoved, Owned(asset)) = Total(feeTaken, Owned(asset))
    BY <1>2, <1>3, <1>5, <1>9, MoveConserves
  <2> QED
    BY <2>1, <2>2
<1>11. Total(moved, Owned(asset)) = Total(baseMoved, Owned(asset))
  <2> HIDE DEF buyer, seller, baseMoved, better
  <2> QED
    BY <1>2, <1>3, <1>6, <1>10, MoveConserves
<1> HIDE DEF moved, baseMoved, feeTaken, quoteMoved
<1> QED
  BY <1>7, <1>8, <1>9, <1>10, <1>11

\* Between its beginning and its end a request only moves money.
LEMMA PostingsConserve ==
    ASSUME IInv, NEW c \in Clients, ClientStep(c), NEW asset \in Asset
    PROVE  dBal'[c] = NoMoves \/ Total(dBal'[c], Owned(asset)) = Total(dBal[c], Owned(asset))
<1>0. TypeOK /\ ClientInv(c) /\ RowsInv /\ req[c] \in RequestType /\ dBal[c] \in [Account -> Int]
  BY DEF IInv, TypeOK
<1>1. ASSUME NEW row \in OrderRow, NEW amount \in Int,
             dBal'[c] = Move(dBal[c], AvailableOf(row), HeldOf(row), amount)
                 \/ dBal'[c] = Move(dBal[c], HeldOf(row), AvailableOf(row), amount)
      PROVE  Total(dBal'[c], Owned(asset)) = Total(dBal[c], Owned(asset))
  BY <1>0, <1>1, HoldAccounts, MoveConserves
<1>2. ASSUME NEW row \in OrderRow, NEW bps \in FeeBps, Place(c, row, bps)
      PROVE  Total(dBal'[c], Owned(asset)) = Total(dBal[c], Owned(asset))
  <2>1. HoldOf(row, row.qty) \in Int
    BY RowColumns, HoldIsNat
  <2>2. dBal'[c] = Move(dBal[c], AvailableOf(row), HeldOf(row), HoldOf(row, row.qty))
    BY <1>0, <1>2 DEF Place, TypeOK
  <2> QED
    BY <1>1, <2>1, <2>2
<1>3. CASE CancelRest(c) \/ ReleaseHold(c)
  <2>1. order[req[c].id] \in OrderRow
    BY <1>0, <1>3 DEF CancelRest, ReleaseHold, ClientInv, PhaseInv, OwnRowInv, TargetsInv,
                      RowsInv, Submitting, RequestType, Kinds
  <2>2. HoldOf(order[req[c].id], req[c].remaining) \in Int
    BY <1>0, <2>1, HoldIsNat DEF RequestType
  <2>3. \/ dBal'[c] = Move(dBal[c], HeldOf(order[req[c].id]), AvailableOf(order[req[c].id]),
                           HoldOf(order[req[c].id], req[c].remaining))
        \/ dBal'[c] = dBal[c]
    BY <1>0, <1>3 DEF CancelRest, ReleaseHold, TypeOK
  <2> QED
    BY <1>1, <2>1, <2>2, <2>3
<1>4. CASE ReleaseResidual(c)
  <2> DEFINE row == order[req[c].buy]
             amount == ResidualHold(row.qty, row.price, ExecutedSeen(c, req[c].buy), Gross(c))
  <2>1. row \in OrderRow /\ req[c].buy \in Ids
    BY <1>0, <1>4 DEF ReleaseResidual, ClientInv, TargetsInv, Writable, OwnRowInv, RowsInv
  <2>2. amount \in Int
    <3>1. row.qty \in Nat /\ row.price \in Nat
      BY <2>1, RowColumns
    <3>2. ExecutedSeen(c, req[c].buy) \in Nat
      BY <1>0, <2>1, SeenIsStatus
    <3>3. Gross(c) \in Nat
      BY <1>0 DEF Gross, RequestType
    <3> QED
      BY <3>1, <3>2, <3>3, AmountsAreInt
  <2>3. dBal'[c] = Move(dBal[c], HeldOf(row), AvailableOf(row), amount) \/ dBal'[c] = dBal[c]
    BY <1>0, <1>4 DEF ReleaseResidual, TypeOK
  <2> HIDE DEF row, amount
  <2> QED
    BY <1>1, <2>1, <2>2, <2>3
<1>5. CASE EndRequest(c)
  BY <1>0, <1>5 DEF EndRequest, TypeOK
<1>6. CASE dBal'[c] = dBal[c]
  BY <1>6
<1>7. CASE SettleFill(c)
  BY <1>7, SettlementConserves
<1>8. CASE Request(c)
  BY <1>2, <1>6, <1>8 DEF Request, PlaceRefused, ReadCancel, DemoFill
<1>9. CASE FillMaker(c)
  BY <1>6, <1>9 DEF FillMaker
<1>10. CASE \/ Match(c) \/ CheckFok(c) \/ SyncRead(c) \/ SyncWrite(c) \/ LeaveLoop(c)
            \/ CancelWrite(c) \/ Reconcile(c)
  BY <1>6, <1>10 DEF Match, CheckFok, SyncRead, SyncWrite, LeaveLoop, CancelWrite, Reconcile
<1> QED
  BY <1>3, <1>4, <1>5, <1>7, <1>8, <1>9, <1>10
     DEF ClientStep, Proceed, Abort, Fail, Rollback, Commit

\* Nothing moved is nothing lost.
LEMMA NoMovesAddNothing == ASSUME NEW asset \in Asset PROVE Total(NoMoves, Owned(asset)) = 0
<1> DEFINE S == Owned(asset)
<1>1. IsFiniteSet(S) /\ \A a \in S : NoMoves[a] \in Int /\ NoMoves[a] = NoMoves[a] + NoMoves[a]
  BY OwnedIsFinite DEF NoMoves, Owned
<1>2. Total(NoMoves, S) \in Int /\ Total(NoMoves, S) = Total(NoMoves, S) + Total(NoMoves, S)
  <2> HIDE DEF S
  <2> QED
    BY <1>1, TotalIsInt, TotalOfSums
<1> HIDE DEF S
<1>3. \A n \in Int : n = n + n => n = 0
  OBVIOUS
<1>4. Total(NoMoves, S) = 0
  BY <1>2, <1>3
<1> QED
  BY <1>4 DEF S

\* Every step keeps the money.
LEMMA NextKeepsMoney == IInv /\ MoneyInv /\ [Next]_vars => MoneyInv'
<1> SUFFICES ASSUME IInv, MoneyInv, [Next]_vars PROVE MoneyInv'
  OBVIOUS
<1>0. TypeOK
  BY DEF IInv
<1>1. CASE UNCHANGED vars
  BY <1>1 DEF vars, MoneyInv, CommittedMoney, OpenMoney
<1>2. ASSUME NEW c \in Clients, ClientStep(c) PROVE MoneyInv'
  <2>1. ASSUME NEW d \in Clients PROVE OpenMoney(d)'
    <3>1. CASE d # c
      <4>1. dBal'[d] = dBal[d]
        BY <1>0, <1>2, <3>1, OthersUntouched DEF Untouched
      <4> QED
        BY <4>1 DEF MoneyInv, OpenMoney
    <3>2. CASE d = c
      <4> SUFFICES ASSUME NEW asset \in Asset PROVE Total(dBal'[c], Owned(asset)) = 0
        BY <3>2 DEF OpenMoney
      <4>1. Total(dBal[c], Owned(asset)) = 0
        BY DEF MoneyInv, OpenMoney
      <4> QED
        BY <1>2, <4>1, PostingsConserve, NoMovesAddNothing
    <3> QED
      BY <3>1, <3>2
  <2>2. ASSUME NEW asset \in Asset PROVE Total(bal', Owned(asset)) = Given(asset)
    <3>0. Total(bal, Owned(asset)) = Given(asset) /\ Total(dBal[c], Owned(asset)) = 0
      BY DEF MoneyInv, CommittedMoney, OpenMoney
    <3>1. CASE Commit(c)
      <4>1. \A a \in Owned(asset) : /\ bal[a] \in Int /\ dBal[c][a] \in Int
                                    /\ bal'[a] = bal[a] + dBal[c][a]
        BY <1>0, <3>1 DEF Commit, BalanceSeen, Owned, TypeOK
      <4>2. Total(bal', Owned(asset)) = Total(bal, Owned(asset)) + Total(dBal[c], Owned(asset))
        BY <4>1, OwnedIsFinite, TotalOfSums
      <4>3. Total(bal, Owned(asset)) \in Int
        BY <4>1, OwnedIsFinite, TotalIsInt
      <4> QED
        BY <3>0, <4>2, <4>3
    <3>2. CASE bal' = bal
      BY <3>0, <3>2
    <3>3. Rollback(c) \/ (\E row \in OrderRow, bps \in FeeBps : Place(c, row, bps)) => bal' = bal
      BY DEF Rollback, Place, dbVars
    <3> QED
      BY <1>2, <3>1, <3>2, <3>3, TablesUntouched DEF dbVars
  <2> QED
    BY <2>1, <2>2 DEF MoneyInv, CommittedMoney, Given
<1> QED
  BY <1>1, <1>2 DEF Next, ClientStep

\* At first every user has what was given and nothing is held.
LEMMA InitMoney == Init => MoneyInv
<1> SUFFICES ASSUME Init PROVE MoneyInv
  OBVIOUS
<1>1. ASSUME NEW asset \in Asset PROVE Total(bal, Owned(asset)) = Given(asset)
  <2> DEFINE A == AccountsOf(Users, asset)
  <2>1. bal \in [Account -> Int]
    BY InitIInv DEF IInv, TypeOK
  <2>2. \A u \in Users : /\ Available(u, asset) \in Account /\ Held(u, asset) \in Account
    BY DEF Account, Available, Held
  <2>3. \A u \in Users : bal[Available(u, asset)] = Funds(asset) /\ bal[Held(u, asset)] = 0
    BY <2>2 DEF Init, Available, Held, Funds
  <2>4. IsFiniteSet(A) /\ Total(bal, A) = Given(asset)
    BY <2>1, <2>3, AccountsAdd
  <2>5. bal[FeeRevenue] = 0 /\ FeeRevenue \notin A
    BY DEF Init, FeeRevenue, Account, AccountsOf, Available, Held
  <2>6. \A x \in A \cup {FeeRevenue} : bal[x] \in Int
    BY <2>1, <2>2, <2>5 DEF AccountsOf
  <2>7. Total(bal, A \cup {FeeRevenue}) = Total(bal, A)
    <3> HIDE DEF A
    <3> QED
      <4>1. \A x \in A : bal[x] \in Int
        BY <2>6
      <4>2. Total(bal, A) \in Int
        BY <2>4, <4>1, TotalIsInt
      <4>3. Total(bal, A \cup {FeeRevenue}) = bal[FeeRevenue] + Total(bal, A)
        BY <2>4, <2>5, <2>6, TotalAdds
      <4>4. \A n \in Int : 0 + n = n
        OBVIOUS
      <4>5. Total(bal, A \cup {FeeRevenue}) = 0 + Total(bal, A)
        BY <2>5, <4>3
      <4> QED
        BY <4>2, <4>4, <4>5
  <2> QED
    BY <2>4, <2>7, OwnedAre
<1>2. ASSUME NEW c \in Clients PROVE OpenMoney(c)
  BY NoMovesAddNothing DEF Init, OpenMoney
<1> QED
  BY <1>1, <1>2 DEF MoneyInv, CommittedMoney

\* Whatever requests overlap, fail or are cut off, the accounts of an asset hold together
\* exactly what the users were given: no statement of the handlers makes or loses money.
THEOREM MoneyIsConserved == Spec => []MoneyConserved
<1>1. Init => IInv /\ MoneyInv
  BY InitIInv, InitMoney
<1>2. (IInv /\ MoneyInv) /\ [Next]_vars => (IInv /\ MoneyInv)'
  BY NextKeeps, NextKeepsMoney
<1>3. MoneyInv => MoneyConserved
  <2> SUFFICES ASSUME MoneyInv PROVE MoneyConserved
    OBVIOUS
  <2>1. \A asset \in Asset : MapThenSumSet(LAMBDA a : bal[a], Owned(asset)) = Given(asset)
    BY DEF MoneyInv, CommittedMoney, Total
  <2>2. /\ Given("base") = Constantly(BaseFunds, Users)[Users]
        /\ Given("quote") = Constantly(QuoteFunds, Users)[Users]
    BY ConstantTotal, ExchangeAssumption DEF Given, Funds, ExchangeAssumption
  <2>3. /\ MapThenSumSet(LAMBDA u : BaseFunds, Users) = Constantly(BaseFunds, Users)[Users]
        /\ MapThenSumSet(LAMBDA u : QuoteFunds, Users) = Constantly(QuoteFunds, Users)[Users]
    BY DEF MapThenSumSet, MapThenFoldSet, Constantly, Pick
  <2> QED
    BY <2>1, <2>2, <2>3 DEF MoneyConserved, Asset
<1> QED
  BY <1>1, <1>2, <1>3, PTL DEF Spec

-----------------------------------------------------------------------------
(* What the transaction of a submission has done to the held accounts.     *)

\* A client without a request has no transaction.
IdleInv(c) ==
    req[c].kind = "none" =>
        dExec[c] = NoExec /\ dBal[c] = NoMoves /\ dRefs[c] = {} /\ wStatus[c] = NoWrites

\* The candidates cross the taker, a fill has its maker's price, and what is committed
\* is what the fills imply or is cancelled.
FillInv(c) ==
    LET o == req[c].id IN
    Submitting(c) =>
        /\ \A m \in req[c].makers : Crosses(order[o].side, order[o].price, order[m].price)
        /\ pc[c] = "settle" =>
               /\ req[c].price = order[Maker(c)].price
               /\ Crosses(order[o].side, order[o].price, req[c].price)
        /\ pc[c] = "commit" =>
               /\ dExec[c][o] + req[c].remaining = order[o].qty
               /\ wStatus[c][o] \in {Implied(c), "CANCELLED"}

\* The quantity of an order whose fills have been settled.
Settled(c, o) ==
    IF pc[c] = "settle" /\ o \in {req[c].buy, req[c].sell}
    THEN dExec[c][o] - req[c].qty ELSE dExec[c][o]

\* What an order's settled fills have done to its hold: a maker's shrinks, and the
\* taker's is there as far as it is neither filled nor cancelled.
Share(c, o) ==
    IF o # req[c].id THEN -HoldOf(order[o], Settled(c, o))
    ELSE IF wStatus[c][o] = "CANCELLED" THEN 0
    ELSE HoldOf(order[o], order[o].qty - Settled(c, o))

OrderOf(o, u, side) == order[o].user = u /\ order[o].side = side

Shares(c, u, side) ==
    [o \in Ids |-> IF Writable(c, o) /\ OrderOf(o, u, side) THEN Share(c, o) ELSE 0]

HoldsInv(c) ==
    Submitting(c) =>
        \A u \in Users, side \in Side :
            dBal[c][Held(u, HoldAsset(side))] = Total(Shares(c, u, side), Ids)

HeldInv == \A c \in Clients : IdleInv(c) /\ FillInv(c) /\ HoldsInv(c)

\* Holds are linear in the quantity.
LEMMA HoldIsLinear ==
    ASSUME NEW row \in OrderRow, NEW a \in Int, NEW b \in Int
    PROVE  /\ HoldOf(row, a) \in Int
           /\ HoldOf(row, 0) = 0
           /\ HoldOf(row, a - b) = HoldOf(row, a) - HoldOf(row, b)
<1>1. row.price \in Int
  BY RowColumns
<1>2. /\ row.price * a \in Int /\ row.price * b \in Int /\ row.price * 0 = 0
      /\ row.price * (a - b) = row.price * a - row.price * b
  BY <1>1
<1> QED
  BY <1>2 DEF HoldOf, HoldAmount

\* What a transaction may write is an Order row.
LEMMA WritableIsRow ==
    ASSUME IInv, NEW c \in Clients, NEW o, Writable(c, o)
    PROVE  o \in Ids /\ order[o] \in OrderRow
  BY DEF IInv, RowsInv, ClientInv, OwnRowInv, Writable

\* Quantities of a request in progress are numbers.
LEMMA RequestIsTyped ==
    ASSUME IInv, NEW c \in Clients
    PROVE  /\ req[c] \in RequestType /\ req[c].kind \in Kinds /\ pc[c] \in Steps
           /\ req[c].remaining \in Nat /\ req[c].qty \in Nat /\ req[c].price \in Nat
           /\ req[c].makers \subseteq Ids /\ req[c].sync \in Side /\ req[c].bps \in Nat
           /\ \A o \in Ids : dExec[c][o] \in Nat /\ Settled(c, o) \in Int
<1>1. req[c] \in RequestType
  BY DEF IInv, TypeOK
<1>2. req[c].qty \in Nat
  BY <1>1 DEF RequestType
<1>3. ASSUME NEW o \in Ids PROVE dExec[c][o] \in Nat /\ Settled(c, o) \in Int
  <2>1. dExec[c][o] \in Nat
    BY DEF IInv, TypeOK
  <2> QED
    BY <1>2, <2>1 DEF Settled
<1> QED
  BY <1>1, <1>3 DEF RequestType, IInv, TypeOK

\* Shares are amounts.
LEMMA SharesAreInt ==
    ASSUME IInv, NEW c \in Clients, NEW u, NEW side
    PROVE  \A o \in Ids : Shares(c, u, side)[o] \in Int
<1> SUFFICES ASSUME NEW o \in Ids, Writable(c, o) PROVE Share(c, o) \in Int
  BY DEF Shares
<1>1. order[o] \in OrderRow
  BY WritableIsRow
<1>2. Settled(c, o) \in Int /\ order[o].qty \in Int
  BY <1>1, RowColumns, RequestIsTyped
<1>3. order[o].qty - Settled(c, o) \in Int
  BY <1>2
<1>4. HoldOf(order[o], Settled(c, o)) \in Int
  BY <1>1, <1>2, HoldIsLinear
<1>5. HoldOf(order[o], order[o].qty - Settled(c, o)) \in Int
  BY <1>1, <1>3, HoldIsLinear
<1> QED
  BY <1>4, <1>5 DEF Share

\* So are the orders.
LEMMA IdsAreFinite == IsFiniteSet(Ids)
  BY ConstantTypes, FS_Interval DEF Ids

\* If neither the balances nor any share change, the invariant stays.
LEMMA SameSharesKeep ==
    ASSUME NEW c \in Clients, HoldsInv(c), Submitting(c)' => Submitting(c),
           dBal'[c] = dBal[c],
           \A u \in Users, side \in Side, o \in Ids :
               Shares(c, u, side)'[o] = Shares(c, u, side)[o]
    PROVE  HoldsInv(c)'
<1> SUFFICES ASSUME Submitting(c), NEW u \in Users, NEW side \in Side
             PROVE  dBal'[c][Held(u, HoldAsset(side))] = Total(Shares(c, u, side)', Ids)
  BY DEF HoldsInv
<1>1. Total(Shares(c, u, side)', Ids) = Total(Shares(c, u, side), Ids)
  BY IdsAreFinite, TotalOfSame
<1> QED
  BY <1>1 DEF HoldsInv

\* Commits and rollbacks of others leave the transaction's shares as they are.
LEMMA OthersKeepHeld ==
    ASSUME IInv, LockInv, HeldInv, NEW c \in Clients, ClientStep(c), NEW d \in Clients \ {c}
    PROVE  IdleInv(d)' /\ FillInv(d)' /\ HoldsInv(d)'
<1>0. /\ TypeOK /\ ClientInv(d) /\ LocksInv(d)
      /\ IdleInv(d) /\ FillInv(d) /\ HoldsInv(d)
  BY DEF IInv, LockInv, HeldInv
<1>1. /\ pc'[d] = pc[d] /\ req'[d] = req[d] /\ wStatus'[d] = wStatus[d]
      /\ dExec'[d] = dExec[d] /\ dBal'[d] = dBal[d] /\ dRefs'[d] = dRefs[d]
  BY <1>0, OthersUntouched DEF Untouched
<1>2. /\ \A o \in Ids : status[o] # "NONE" => status'[o] # "NONE" /\ order'[o] = order[o]
      /\ Submitting(d) => order'[req[d].id] = order[req[d].id]
  BY RowsStay
<1>3. IdleInv(d)'
  BY <1>0, <1>1 DEF IdleInv
<1>4. FillInv(d)'
  <2>1. \A m \in req[d].makers : m \in Ids /\ status[m] # "NONE"
    BY <1>0, RequestIsTyped DEF ClientInv, TargetsInv
  <2>2. Submitting(d) /\ pc[d] = "settle" => Maker(d) \in Ids /\ order'[Maker(d)] = order[Maker(d)]
    BY <1>0, <1>2 DEF LocksInv, SubmitLocks, CurrentMaker, Settling
  <2>3. Submitting(d) => Maker(d)' = Maker(d)
    BY <1>1, <1>2 DEF Maker
  <2> QED
    BY <1>0, <1>1, <1>2, <2>1, <2>2, <2>3 DEF FillInv, Submitting, Implied
<1>5. HoldsInv(d)'
  <2>1. CASE Submitting(d)
    <3> SUFFICES ASSUME NEW u \in Users, NEW side \in Side, NEW o \in Ids
                 PROVE  Shares(d, u, side)'[o] = Shares(d, u, side)[o]
      BY <1>0, <1>1, <2>1, SameSharesKeep
    <3>1. CASE Writable(d, o)
      <4>1. Writable(d, o)' /\ order'[o] = order[o]
        BY <1>1, <1>2, <3>1 DEF Writable, Submitting
      <4>2. Share(d, o)' = Share(d, o)
        BY <1>1, <4>1 DEF Share, Settled, HoldOf
      <4> QED
        BY <3>1, <4>1, <4>2 DEF Shares, OrderOf
    <3>2. CASE ~Writable(d, o)
      <4>1. dExec[d][o] = 0
        BY <1>0, <3>2 DEF ClientInv, WritesInv
      <4>2. pc[d] = "settle" => o \notin {req[d].buy, req[d].sell}
        BY <1>0, <3>2 DEF ClientInv, TargetsInv
      <4>3. Settled(d, o)' = 0
        BY <1>1, <4>1, <4>2 DEF Settled
      <4>4. o # req[d].id
        BY <2>1, <3>2 DEF Writable
      <4>5. Writable(d, o)' => order'[o] \in OrderRow
        <5>1. IInv'
          BY NextKeeps DEF Next, ClientStep
        <5> QED
          BY <5>1 DEF IInv, RowsInv, ClientInv, OwnRowInv, Writable
      <4>6. Writable(d, o)' => Share(d, o)' = 0
        <5> SUFFICES ASSUME Writable(d, o)' PROVE Share(d, o)' = 0
          OBVIOUS
        <5>1. HoldOf(order'[o], 0) = 0
          <6>1. order'[o] \in OrderRow
            BY <4>5
          <6> QED
            BY <6>1, HoldIsLinear
        <5>2. Share(d, o)' = -HoldOf(order'[o], Settled(d, o)')
          BY <1>1, <4>4 DEF Share, HoldOf
        <5> QED
          BY <4>3, <5>1, <5>2
      <4> QED
        BY <3>2, <4>6 DEF Shares
    <3> QED
      BY <3>1, <3>2
  <2>2. CASE ~Submitting(d)
    BY <1>1, <2>2 DEF HoldsInv, Submitting
  <2> QED
    BY <2>1, <2>2
<1> QED
  BY <1>3, <1>4, <1>5

\* Steps that settle nothing.
LEMMA QuietKeepsHolds ==
    ASSUME NEW c \in Clients, HoldsInv(c), UNCHANGED <<order, status>>, dBal'[c] = dBal[c],
           req'[c].kind = req[c].kind, req'[c].id = req[c].id,
           \A o \in Ids : Settled(c, o)' = Settled(c, o),
           wStatus'[c][req[c].id] = "CANCELLED" <=> wStatus[c][req[c].id] = "CANCELLED"
    PROVE  HoldsInv(c)'
<1>1. \A o : Writable(c, o)' <=> Writable(c, o)
  BY DEF Writable, Submitting
<1>2. \A o \in Ids : Share(c, o)' = Share(c, o)
  BY DEF Share, HoldOf
<1>3. \A u \in Users, side \in Side, o \in Ids : Shares(c, u, side)'[o] = Shares(c, u, side)[o]
  BY <1>1, <1>2 DEF Shares, OrderOf
<1> QED
  BY <1>3, SameSharesKeep DEF Submitting

\* The request is in a phase of a submission.
LEMMA SubmitPhase ==
    ASSUME IInv, NEW c \in Clients, pc[c] \in {"match", "fok", "fill", "cancelRest"}
    PROVE  Submitting(c)
  BY RequestIsTyped DEF IInv, ClientInv, PhaseInv, Submitting, Kinds

\* Reading the candidates and the fill-or-kill check settle nothing.
LEMMA MatchHeld ==
    ASSUME IInv, HeldInv, NEW c \in Clients, Match(c)
    PROVE  IdleInv(c)' /\ FillInv(c)' /\ HoldsInv(c)'
<1>0. TypeOK /\ HoldsInv(c) /\ Submitting(c)
  BY SubmitPhase DEF IInv, HeldInv, Match
<1>1. /\ req' = [req EXCEPT ![c].makers = MatchingOrders(c, req[c].id),
                            ![c].remaining = order[req[c].id].qty]
      /\ pc'[c] \in {"fok", "fill"} /\ pc[c] = "match"
      /\ UNCHANGED <<order, status, dExec, dBal, wStatus>>
  BY <1>0 DEF Match, dbVars, TypeOK
<1>2. /\ req'[c].kind = req[c].kind /\ req'[c].id = req[c].id
      /\ req'[c].makers = MatchingOrders(c, req[c].id)
  BY <1>0, <1>1 DEF TypeOK, RequestType
<1>3. IdleInv(c)'
  BY <1>0, <1>2 DEF IdleInv, Submitting
<1>4. FillInv(c)'
  BY <1>1, <1>2 DEF FillInv, MatchingOrders
<1>5. \A o \in Ids : Settled(c, o)' = Settled(c, o)
  BY <1>1 DEF Settled
<1> QED
  BY <1>0, <1>1, <1>2, <1>3, <1>4, <1>5, QuietKeepsHolds

\* Counting the liquidity posts nothing.
LEMMA CheckFokHeld ==
    ASSUME IInv, HeldInv, NEW c \in Clients, CheckFok(c)
    PROVE  IdleInv(c)' /\ FillInv(c)' /\ HoldsInv(c)'
<1>0. TypeOK /\ HoldsInv(c) /\ FillInv(c) /\ Submitting(c)
  BY SubmitPhase DEF IInv, HeldInv, CheckFok
<1>1. /\ pc'[c] = "fill" /\ pc[c] = "fok"
      /\ UNCHANGED <<order, status, req, dExec, dBal, wStatus>>
  BY <1>0 DEF CheckFok, dbVars, TypeOK
<1>2. IdleInv(c)' /\ FillInv(c)'
  BY <1>0, <1>1 DEF IdleInv, FillInv, Submitting
<1>3. \A o \in Ids : Settled(c, o)' = Settled(c, o)
  BY <1>1 DEF Settled
<1> QED
  BY <1>0, <1>1, <1>2, <1>3, QuietKeepsHolds

\* A fill is inserted before it is settled.
LEMMA FillMakerHeld ==
    ASSUME IInv, HeldInv, NEW c \in Clients, FillMaker(c)
    PROVE  IdleInv(c)' /\ FillInv(c)' /\ HoldsInv(c)'
<1>0. /\ TypeOK /\ ClientInv(c) /\ HoldsInv(c) /\ FillInv(c) /\ Submitting(c)
      /\ req[c] \in RequestType
  BY SubmitPhase DEF IInv, HeldInv, FillMaker, TypeOK
<1> DEFINE left(m) == RemainingQty(order[m].qty, ExecutedSeen(c, m))
           q(m) == Lesser(req[c].remaining, left(m))
           t == req[c].id
<1>1. PICK m \in req[c].makers :
          /\ IsFirst(m, req[c].makers)
          /\ IF CanReceiveFills(StatusSeen(c, m)) /\ left(m) > 0
             THEN /\ req' = [req EXCEPT
                                ![c].makers = @ \ {m},
                                ![c].remaining = @ - q(m),
                                ![c].buy = IF order[req[c].id].side = "BUY"
                                           THEN req[c].id ELSE m,
                                ![c].sell = IF order[req[c].id].side = "BUY"
                                            THEN m ELSE req[c].id,
                                ![c].qty = q(m),
                                ![c].price = order[m].price]
                  /\ dExec' = [dExec EXCEPT ![c][m] = @ + q(m), ![c][t] = @ + q(m)]
                  /\ pc' = [pc EXCEPT ![c] = "settle"]
             ELSE /\ req' = [req EXCEPT ![c].makers = @ \ {m}]
                  /\ UNCHANGED <<pc, dExec>>
  BY DEF FillMaker
<1>2. pc[c] = "fill" /\ UNCHANGED <<order, status, dBal, wStatus>>
  BY DEF FillMaker, dbVars
<1>3. m \in Ids /\ m # t /\ t \in Ids /\ order[m] \in OrderRow
  BY <1>0, RequestIsTyped DEF ClientInv, TargetsInv, OwnRowInv, IInv, RowsInv
<1>4. /\ req'[c].kind = req[c].kind /\ req'[c].id = req[c].id
      /\ req'[c].makers \subseteq req[c].makers
  BY <1>0, <1>1 DEF TypeOK, RequestType
<1>5. CASE ~(CanReceiveFills(StatusSeen(c, m)) /\ left(m) > 0)
  <2>1. IdleInv(c)' /\ FillInv(c)'
    BY <1>0, <1>1, <1>2, <1>4, <1>5 DEF IdleInv, FillInv, Submitting
  <2>2. \A o \in Ids : Settled(c, o)' = Settled(c, o)
    BY <1>1, <1>2, <1>5 DEF Settled
  <2> QED
    BY <1>0, <1>2, <1>4, <2>1, <2>2, QuietKeepsHolds
<1>6. CASE CanReceiveFills(StatusSeen(c, m)) /\ left(m) > 0
  <2>1. /\ pc'[c] = "settle" /\ req'[c].qty = q(m) /\ req'[c].price = order[m].price
        /\ {req'[c].buy, req'[c].sell} = {m, t}
        /\ order[t].side = "BUY" => req'[c].sell = m
        /\ order[t].side # "BUY" => req'[c].buy = m
    BY <1>0, <1>1, <1>6 DEF TypeOK, RequestType
  <2>2. q(m) \in Nat
    BY <1>0, <1>3, RowColumns, SeenIsStatus, RequestIsTyped DEF Lesser, RemainingQty
  <2>3. \A o \in Ids : dExec'[c][o] = IF o \in {m, t} THEN dExec[c][o] + q(m) ELSE dExec[c][o]
    <3> HIDE DEF q
    <3> QED
      BY <1>0, <1>1, <1>3, <1>6, <2>2 DEF TypeOK
  <2>4. \A o \in Ids : Settled(c, o)' = Settled(c, o)
    <3>1. \A o \in Ids : Settled(c, o)' = IF o \in {m, t} THEN dExec'[c][o] - q(m)
                                        ELSE dExec'[c][o]
      BY <2>1 DEF Settled
    <3>2. \A o \in Ids : Settled(c, o) = dExec[c][o] /\ dExec[c][o] \in Nat
      BY <1>2, RequestIsTyped DEF Settled
    <3> HIDE DEF q
    <3> QED
      BY <2>2, <2>3, <3>1, <3>2
  <2>5. Maker(c)' = m
    BY <1>2, <1>4, <2>1 DEF Maker
  <2>6. Crosses(order[t].side, order[t].price, order[m].price)
    BY <1>0 DEF FillInv
  <2>7. IdleInv(c)' /\ FillInv(c)'
    BY <1>0, <1>2, <1>4, <2>1, <2>5, <2>6 DEF IdleInv, FillInv, Submitting
  <2> QED
    BY <1>0, <1>2, <1>4, <2>4, <2>7, QuietKeepsHolds
<1> QED
  BY <1>5, <1>6

\* The price the buyer pays and the improvement given back are what was held.
LEMMA ImprovementCompletes ==
    ASSUME NEW limit \in Nat, NEW execution \in Nat, NEW q \in Nat, execution =< limit
    PROVE  q * execution + PriceImprovement(limit, execution, q) = limit * q
<1>1. CASE execution = limit
  <2>1. q * execution + 0 = limit * q
    BY <1>1
  <2> QED
    BY <1>1, <2>1 DEF PriceImprovement
<1>2. CASE execution < limit
  <2>1. q * execution + (limit - execution) * q = limit * q
    OBVIOUS
  <2>2. ~(execution >= limit)
    BY <1>2
  <2> QED
    BY <2>1, <2>2 DEF PriceImprovement
<1> QED
  BY <1>1, <1>2

\* The two orders of a fill that a submission settles.
LEMMA FillPair ==
    ASSUME IInv, LockInv, HeldInv, NEW c \in Clients, Submitting(c), pc[c] = "settle"
    PROVE  /\ req[c].buy \in Ids /\ req[c].sell \in Ids /\ req[c].buy # req[c].sell
           /\ Writable(c, req[c].buy) /\ Writable(c, req[c].sell)
           /\ order[req[c].buy] \in OrderRow /\ order[req[c].sell] \in OrderRow
           /\ order[req[c].buy].side = "BUY" /\ order[req[c].sell].side = "SELL"
           /\ {req[c].buy, req[c].sell} = {req[c].id, Maker(c)} /\ Maker(c) # req[c].id
           /\ req[c].price =< order[req[c].buy].price
<1>0. ClientInv(c) /\ LocksInv(c) /\ FillInv(c)
  BY DEF IInv, LockInv, HeldInv
<1>1. /\ Writable(c, req[c].buy) /\ Writable(c, req[c].sell)
      /\ order[req[c].buy].side = "BUY" /\ order[req[c].sell].side = "SELL"
  BY <1>0 DEF ClientInv, TargetsInv
<1>2. /\ req[c].buy \in Ids /\ req[c].sell \in Ids
      /\ order[req[c].buy] \in OrderRow /\ order[req[c].sell] \in OrderRow
  BY <1>1, WritableIsRow
<1>3. req[c].id \in {req[c].buy, req[c].sell}
  BY <1>0 DEF ClientInv, MatchingInv
<1>4. Maker(c) # req[c].id
  BY <1>0 DEF LocksInv, SubmitLocks, CurrentMaker, Settling
<1>5. {req[c].buy, req[c].sell} = {req[c].id, Maker(c)}
  BY <1>1, <1>3, <1>4 DEF Maker
<1>6. req[c].price =< order[req[c].buy].price
  <2>1. CASE req[c].id = req[c].buy
    BY <1>0, <1>1, <2>1 DEF FillInv, Crosses
  <2>2. CASE req[c].id # req[c].buy
    <3>1. req[c].price = order[req[c].buy].price
      BY <1>0, <1>5, <2>2 DEF FillInv
    <3> QED
      BY <1>2, <3>1, RowColumns
  <2> QED
    BY <2>1, <2>2
<1> QED
  BY <1>1, <1>2, <1>4, <1>5, <1>6

\* The settlement of a submission's fill takes from both holds what was held for it.
LEMMA SettlementTakes ==
    ASSUME IInv, LockInv, HeldInv, NEW c \in Clients, Submitting(c), SettleFill(c),
           NEW u \in Users, NEW side \in Side
    PROVE  LET h == Held(u, HoldAsset(side))
               o == IF side = "BUY" THEN req[c].buy ELSE req[c].sell
           IN  dBal'[c][h] = IF OrderOf(o, u, side)
                             THEN dBal[c][h] - HoldOf(order[o], req[c].qty) ELSE dBal[c][h]
<1> DEFINE buyer == order[req[c].buy]
           seller == order[req[c].sell]
           fee == QuoteFee(Gross(c), req[c].bps)
           quoteMoved == Move(dBal[c], HeldOf(buyer),
                              Available(seller.user, "quote"), Gross(c))
           feeTaken == Move(quoteMoved, Available(seller.user, "quote"), FeeRevenue, fee)
           baseMoved == Move(feeTaken, HeldOf(seller),
                             Available(buyer.user, "base"), req[c].qty)
           better == PriceImprovement(buyer.price, req[c].price, req[c].qty)
           moved == Move(baseMoved, HeldOf(buyer), AvailableOf(buyer), better)
           h == Held(u, HoldAsset(side))
<1>0. TypeOK /\ req[c] \in RequestType /\ pc[c] = "settle"
  BY DEF IInv, TypeOK, SettleFill
<1>1. /\ buyer \in OrderRow /\ seller \in OrderRow
      /\ buyer.side = "BUY" /\ seller.side = "SELL"
      /\ req[c].price =< buyer.price
  BY <1>0, FillPair
<1>2. /\ HeldOf(buyer) \in Account /\ AvailableOf(buyer) \in Account
      /\ HeldOf(seller) \in Account /\ Available(seller.user, "quote") \in Account
      /\ Available(buyer.user, "base") \in Account /\ FeeRevenue \in Account
      /\ buyer.price \in Nat
  BY <1>1, RowColumns, HoldAccounts
<1>3. /\ h \in Account /\ h # Available(seller.user, "quote") /\ h # FeeRevenue
      /\ h # Available(buyer.user, "base") /\ h # AvailableOf(buyer)
  BY DEF Held, Available, AvailableOf, FeeRevenue, Account, HoldAsset, Asset
<1>4. /\ h = HeldOf(buyer) <=> side = "BUY" /\ u = buyer.user
      /\ h = HeldOf(seller) <=> side = "SELL" /\ u = seller.user
  BY <1>1 DEF Held, HeldOf, HoldAsset, Side
<1>5. req[c].qty \in Nat /\ req[c].price \in Nat /\ req[c].bps \in Nat
  BY RequestIsTyped
<1>6. Gross(c) \in Nat /\ Gross(c) \in Int /\ req[c].qty \in Int
  BY <1>5 DEF Gross
<1>7. fee \in Int /\ better \in Int
  BY <1>2, <1>5, <1>6, AmountsAreInt
<1>8. dBal[c] \in [Account -> Int] /\ dBal'[c] = moved
  BY <1>0 DEF TypeOK, SettleFill, Submitting
<1>9. /\ quoteMoved \in [Account -> Int]
      /\ quoteMoved[h] = IF h = HeldOf(buyer) THEN dBal[c][h] - Gross(c) ELSE dBal[c][h]
  <2> HIDE DEF buyer, seller, h
  <2>1. quoteMoved \in [Account -> Int]
    BY <1>2, <1>6, <1>8, MoveIsMoves
  <2>2. quoteMoved[h] = IF h = HeldOf(buyer) THEN dBal[c][h] - Gross(c) ELSE dBal[c][h]
    BY <1>2, <1>3, <1>6, <1>8 DEF Move
  <2> QED
    BY <2>1, <2>2
<1>10. feeTaken \in [Account -> Int] /\ feeTaken[h] = quoteMoved[h]
  <2> HIDE DEF buyer, seller, h, quoteMoved, fee
  <2>1. feeTaken \in [Account -> Int]
    BY <1>2, <1>7, <1>9, MoveIsMoves
  <2>2. feeTaken[h] = IF h = Available(seller.user, "quote") THEN quoteMoved[h] - fee ELSE quoteMoved[h]
    BY <1>2, <1>3, <1>7, <1>9 DEF Move
  <2> QED
    BY <1>3, <2>1, <2>2
<1>11. /\ baseMoved \in [Account -> Int]
       /\ baseMoved[h] = IF h = HeldOf(seller) THEN feeTaken[h] - req[c].qty ELSE feeTaken[h]
  <2> HIDE DEF buyer, seller, h, feeTaken
  <2>1. baseMoved \in [Account -> Int]
    BY <1>2, <1>6, <1>10, MoveIsMoves
  <2>2. baseMoved[h] = IF h = HeldOf(seller) THEN feeTaken[h] - req[c].qty ELSE feeTaken[h]
    BY <1>2, <1>3, <1>6, <1>10 DEF Move
  <2> QED
    BY <2>1, <2>2
<1>12. moved[h] = IF h = HeldOf(buyer) THEN baseMoved[h] - better ELSE baseMoved[h]
  <2> HIDE DEF buyer, seller, h, baseMoved, better
  <2> QED
    BY <1>2, <1>3, <1>7, <1>11 DEF Move
<1>13. dBal[c][h] \in Int
  BY <1>3, <1>8
<1>14. CASE side = "BUY"
  <2>1. Gross(c) + better = HoldOf(buyer, req[c].qty)
    <3>1. req[c].qty * req[c].price + better = buyer.price * req[c].qty
      BY <1>1, <1>2, <1>5, ImprovementCompletes
    <3> QED
      BY <1>1, <3>1 DEF Gross, HoldOf, HoldAmount
  <2> HIDE DEF buyer, seller, h, quoteMoved, feeTaken, baseMoved, moved, better, fee
  <2>2. h # HeldOf(seller)
    BY <1>4, <1>14
  <2>3. CASE u = buyer.user
    <3>1. moved[h] = (dBal[c][h] - Gross(c)) - better
      BY <1>4, <1>9, <1>10, <1>11, <1>12, <1>14, <2>2, <2>3
    <3>2. moved[h] = dBal[c][h] - HoldOf(buyer, req[c].qty)
      BY <1>6, <1>7, <1>13, <2>1, <3>1
    <3> QED
      BY <1>1, <1>8, <1>14, <2>3, <3>2 DEF buyer, h, OrderOf
  <2>4. CASE u # buyer.user
    <3>1. moved[h] = dBal[c][h]
      BY <1>4, <1>9, <1>10, <1>11, <1>12, <1>14, <2>2, <2>4
    <3> QED
      BY <1>8, <1>14, <2>4, <3>1 DEF buyer, h, OrderOf
  <2> QED
    BY <2>3, <2>4
<1>15. CASE side = "SELL"
  <2>1. HoldOf(seller, req[c].qty) = req[c].qty
    BY <1>1 DEF HoldOf, HoldAmount
  <2> HIDE DEF buyer, seller, h, quoteMoved, feeTaken, baseMoved, moved, better, fee
  <2>2. h # HeldOf(buyer)
    BY <1>4, <1>15
  <2>3. CASE u = seller.user
    <3>1. moved[h] = dBal[c][h] - req[c].qty
      BY <1>4, <1>9, <1>10, <1>11, <1>12, <1>15, <2>2, <2>3
    <3> QED
      BY <1>1, <1>8, <1>15, <2>1, <2>3, <3>1 DEF seller, h, OrderOf
  <2>4. CASE u # seller.user
    <3>1. moved[h] = dBal[c][h]
      BY <1>4, <1>9, <1>10, <1>11, <1>12, <1>15, <2>2, <2>4
    <3> QED
      BY <1>8, <1>15, <2>4, <3>1 DEF seller, h, OrderOf
  <2> QED
    BY <2>3, <2>4
<1> QED
  BY <1>14, <1>15 DEF Side

\* Settling a fill takes its shares from both holds.
LEMMA SettleFillHeld ==
    ASSUME IInv, LockInv, HeldInv, NEW c \in Clients, SettleFill(c)
    PROVE  IdleInv(c)' /\ FillInv(c)' /\ HoldsInv(c)'
<1>0. TypeOK /\ ClientInv(c) /\ HoldsInv(c) /\ FillInv(c) /\ LocksInv(c)
  BY DEF IInv, LockInv, HeldInv
<1>1. /\ pc'[c] = "syncRead" /\ pc[c] = "settle"
      /\ UNCHANGED <<order, status, dExec, wStatus>>
      /\ req' = [req EXCEPT ![c].sync = "BUY"]
  BY <1>0 DEF SettleFill, dbVars, TypeOK
<1>2. /\ req'[c].kind = req[c].kind /\ req'[c].id = req[c].id
      /\ req'[c].makers = req[c].makers
  BY <1>0, <1>1 DEF TypeOK, RequestType
<1>3. IdleInv(c)'
  BY <1>0, <1>1, <1>2 DEF IdleInv, ClientInv, PhaseInv
<1>4. FillInv(c)'
  BY <1>0, <1>1, <1>2 DEF FillInv, Submitting
<1>5. HoldsInv(c)'
  <2> SUFFICES ASSUME Submitting(c), NEW u \in Users, NEW side \in Side
               PROVE  dBal'[c][Held(u, HoldAsset(side))] = Total(Shares(c, u, side)', Ids)
    BY <1>2 DEF HoldsInv, Submitting
  <2> DEFINE b == req[c].buy
             s == req[c].sell
             o == IF side = "BUY" THEN b ELSE s
             q == req[c].qty
             f == Shares(c, u, side)
             g == Shares(c, u, side)'
             n == IF OrderOf(o, u, side) THEN -HoldOf(order[o], q) ELSE 0
  <2>1. /\ b \in Ids /\ s \in Ids /\ b # s /\ Writable(c, b) /\ Writable(c, s)
        /\ order[b] \in OrderRow /\ order[s] \in OrderRow
        /\ order[b].side = "BUY" /\ order[s].side = "SELL"
    BY <1>1, FillPair
  <2>2. q \in Nat /\ n \in Int /\ HoldOf(order[o], q) \in Int
    <3>1. q \in Nat /\ q \in Int
      BY RequestIsTyped
    <3>2. order[o] \in OrderRow
      BY <2>1
    <3>3. HoldOf(order[o], q) \in Int
      <4> HIDE DEF o, q
      <4> QED
        BY <3>1, <3>2, HoldIsLinear
    <3> QED
      BY <3>1, <3>3
  <2>3. \A p \in Ids : Writable(c, p)' <=> Writable(c, p)
    BY <1>1, <1>2 DEF Writable, Submitting
  <2>4. ASSUME NEW p \in {b, s} PROVE Share(c, p)' = Share(c, p) + (-HoldOf(order[p], q))
    <3>1. dExec[c][p] \in Int /\ q \in Int /\ order[p] \in OrderRow /\ order[p].qty \in Int
      BY <2>1, <2>2, RequestIsTyped, RowColumns
    <3>2. Settled(c, p) = dExec[c][p] - q /\ Settled(c, p)' = dExec[c][p]
      BY <1>1 DEF Settled
    <3>3. HoldOf(order[p], dExec[c][p] - q) = HoldOf(order[p], dExec[c][p]) - HoldOf(order[p], q)
      BY <3>1, HoldIsLinear
    <3>4. /\ order[p].qty - (dExec[c][p] - q) \in Int
          /\ order[p].qty - dExec[c][p] = (order[p].qty - (dExec[c][p] - q)) - q
      BY <3>1
    <3>5. HoldOf(order[p], order[p].qty - dExec[c][p])
              = HoldOf(order[p], order[p].qty - (dExec[c][p] - q)) - HoldOf(order[p], q)
      <4> DEFINE x == order[p].qty - (dExec[c][p] - q)
      <4>1. x \in Int /\ order[p].qty - dExec[c][p] = x - q
        BY <3>4
      <4> HIDE DEF x
      <4>2. HoldOf(order[p], x - q) = HoldOf(order[p], x) - HoldOf(order[p], q)
        BY <3>1, <4>1, HoldIsLinear
      <4>3. HoldOf(order[p], order[p].qty - dExec[c][p]) = HoldOf(order[p], x) - HoldOf(order[p], q)
        BY <4>1, <4>2
      <4> QED
        BY <4>3 DEF x
    <3>6. /\ HoldOf(order[p], q) \in Int /\ HoldOf(order[p], dExec[c][p]) \in Int
          /\ HoldOf(order[p], order[p].qty - (dExec[c][p] - q)) \in Int
      BY <3>1, <3>4, HoldIsLinear
    <3>7. p = req[c].id => wStatus[c][p] # "CANCELLED"
      BY <1>0, <1>1 DEF ClientInv, MatchingInv, Unsynced, Resting
    <3>8. /\ Share(c, p) = IF p # req[c].id THEN -HoldOf(order[p], dExec[c][p] - q)
                           ELSE HoldOf(order[p], order[p].qty - (dExec[c][p] - q))
          /\ Share(c, p)' = IF p # req[c].id THEN -HoldOf(order[p], dExec[c][p])
                            ELSE HoldOf(order[p], order[p].qty - dExec[c][p])
      BY <1>1, <1>2, <3>2, <3>7 DEF Share, HoldOf
    <3> QED
      BY <3>3, <3>5, <3>6, <3>8
  <2>5. ASSUME NEW p \in Ids \ {b, s} PROVE Share(c, p)' = Share(c, p)
    <3>1. Settled(c, p)' = Settled(c, p)
      BY <1>1 DEF Settled
    <3> QED
      BY <1>1, <1>2, <3>1 DEF Share, HoldOf
  <2>6. \A p \in Ids : OrderOf(p, u, side)' <=> OrderOf(p, u, side)
    BY <1>1 DEF OrderOf
  <2>7. \A p \in {b, s} : OrderOf(p, u, side) => p = o
    BY <2>1 DEF OrderOf, Side
  <2>8. \A p \in Ids : f[p] \in Int
    BY SharesAreInt
  <2>9. \A p \in Ids : g[p] = IF p = o THEN f[p] + n ELSE f[p]
    <3> SUFFICES ASSUME NEW p \in Ids PROVE g[p] = IF p = o THEN f[p] + n ELSE f[p]
      OBVIOUS
    <3>1. /\ f[p] = IF Writable(c, p) /\ OrderOf(p, u, side) THEN Share(c, p) ELSE 0
          /\ g[p] = IF Writable(c, p) /\ OrderOf(p, u, side) THEN Share(c, p)' ELSE 0
      BY <2>3, <2>6 DEF Shares
    <3>2. CASE p = o /\ OrderOf(o, u, side)
      <4>1. Writable(c, p) /\ p \in {b, s}
        BY <2>1, <3>2
      <4>2. Share(c, p)' = Share(c, p) + (-HoldOf(order[p], q))
        BY <2>4, <4>1
      <4> QED
        BY <3>1, <3>2, <4>1, <4>2
    <3>3. CASE p = o /\ ~OrderOf(o, u, side)
      <4>1. f[p] + n = f[p]
        BY <2>8, <3>3
      <4> QED
        BY <3>1, <3>3, <4>1
    <3>4. CASE p # o
      BY <2>5, <2>7, <3>1, <3>4
    <3> QED
      BY <3>2, <3>3, <3>4
  <2>10. Total(g, Ids) = Total(f, Ids) + n
    <3>1. o \in Ids
      BY <2>1
    <3>2. n \in Int
      BY <2>2
    <3> HIDE DEF f, g, n, o
    <3>3. f[o] \in Int
      BY <2>8, <3>1
    <3>4. g[o] = f[o] + n
      BY <2>9, <3>1
    <3>5. g[o] \in Int /\ g[o] - f[o] = n
      BY <3>2, <3>3, <3>4
    <3>6. \A p \in Ids : p # o => g[p] = f[p]
      BY <2>9
    <3>7. \A p \in Ids : g[p] \in Int
      BY <2>8, <3>5, <3>6
    <3>8. Total(f, Ids) = f[o] + Total(f, Ids \ {o})
      BY <2>8, <3>1, IdsAreFinite, TotalTakesOut
    <3>9. Total(g, Ids) = g[o] + Total(g, Ids \ {o})
      BY <3>1, <3>7, IdsAreFinite, TotalTakesOut
    <3>10. IsFiniteSet(Ids \ {o})
      BY IdsAreFinite, FS_Subset
    <3>11. Total(g, Ids \ {o}) = Total(f, Ids \ {o})
      BY <3>6, <3>10, TotalOfSame
    <3>12. Total(f, Ids \ {o}) \in Int
      BY <2>8, <3>10, TotalIsInt
    <3> QED
      BY <3>2, <3>3, <3>4, <3>8, <3>9, <3>11, <3>12
  <2>11. dBal'[c][Held(u, HoldAsset(side))]
             = IF OrderOf(o, u, side) THEN dBal[c][Held(u, HoldAsset(side))] - HoldOf(order[o], q)
               ELSE dBal[c][Held(u, HoldAsset(side))]
    BY SettlementTakes
  <2>12. dBal[c][Held(u, HoldAsset(side))] = Total(f, Ids) /\ Total(f, Ids) \in Int
    <3>1. dBal[c][Held(u, HoldAsset(side))] = Total(f, Ids)
      BY <1>0 DEF HoldsInv
    <3>2. Total(f, Ids) \in Int
      <4> HIDE DEF f
      <4> QED
        BY <2>8, IdsAreFinite, TotalIsInt
    <3> QED
      BY <3>1, <3>2
  <2>13. dBal'[c][Held(u, HoldAsset(side))] = Total(g, Ids)
    <3> HIDE DEF f, g, o, q
    <3> QED
      BY <2>2, <2>10, <2>11, <2>12
  <2> QED
    BY <2>13
<1> QED
  BY <1>3, <1>4, <1>5

\* Synchronising a row moves nothing, and matching never cancels the taker.
LEMMA SyncReadHeld ==
    ASSUME IInv, HeldInv, NEW c \in Clients, SyncRead(c)
    PROVE  IdleInv(c)' /\ FillInv(c)' /\ HoldsInv(c)'
<1>0. TypeOK /\ ClientInv(c) /\ HoldsInv(c) /\ FillInv(c)
  BY DEF IInv, HeldInv
<1>1. /\ pc'[c] = "syncWrite" /\ pc[c] = "syncRead"
      /\ req' = [req EXCEPT ![c].next = DerivedSeen(c, SyncedOrder(c))]
      /\ UNCHANGED <<order, status, dExec, dBal, wStatus>>
  BY <1>0 DEF SyncRead, dbVars, TypeOK
<1>2. /\ req'[c].kind = req[c].kind /\ req'[c].id = req[c].id
      /\ req'[c].makers = req[c].makers
  BY <1>0, <1>1 DEF TypeOK, RequestType
<1>3. IdleInv(c)' /\ FillInv(c)'
  BY <1>0, <1>1, <1>2 DEF IdleInv, FillInv, Submitting, ClientInv, PhaseInv
<1>4. \A o \in Ids : Settled(c, o)' = Settled(c, o)
  BY <1>1 DEF Settled
<1> QED
  BY <1>0, <1>1, <1>2, <1>3, <1>4, QuietKeepsHolds

\* The status that is written is the one the fills imply.
LEMMA SyncWriteHeld ==
    ASSUME IInv, HeldInv, NEW c \in Clients, SyncWrite(c)
    PROVE  IdleInv(c)' /\ FillInv(c)' /\ HoldsInv(c)'
<1> DEFINE o == req[c].id
<1>0. TypeOK /\ ClientInv(c) /\ HoldsInv(c) /\ FillInv(c)
  BY DEF IInv, HeldInv
<1>1. /\ pc'[c] \in {"syncRead", "fill", "residual"} /\ pc[c] = "syncWrite"
      /\ req' = [req EXCEPT ![c].sync = Opposite(@), ![c].next = "NONE"]
      /\ wStatus' = [wStatus EXCEPT ![c][SyncedOrder(c)] = req[c].next]
      /\ UNCHANGED <<order, status, dExec, dBal>>
  BY <1>0 DEF SyncWrite, dbVars, TypeOK
<1>2. /\ req'[c].kind = req[c].kind /\ req'[c].id = req[c].id
      /\ req'[c].makers = req[c].makers
  BY <1>0, <1>1 DEF TypeOK, RequestType
<1>3. IdleInv(c)' /\ FillInv(c)'
  BY <1>0, <1>1, <1>2 DEF IdleInv, FillInv, Submitting, ClientInv, PhaseInv
<1>4. \A p \in Ids : Settled(c, p)' = Settled(c, p)
  BY <1>1 DEF Settled
<1>5. HoldsInv(c)'
  <2>1. CASE ~Submitting(c)
    BY <1>2, <2>1 DEF HoldsInv, Submitting
  <2>2. CASE Submitting(c)
    <3>1. wStatus'[c][o] = "CANCELLED" <=> wStatus[c][o] = "CANCELLED"
      <4>1. CASE SyncedOrder(c) = o
        <5>1. Unsynced(c)
          BY <1>1, <2>2, <4>1, OwnSync
        <5>2. wStatus[c][o] \in Resting /\ req[c].next = Implied(c)
          BY <1>0, <1>1, <2>2, <4>1, <5>1 DEF ClientInv, MatchingInv
        <5>3. Implied(c) # "CANCELLED"
          BY DEF Implied, DeriveStatus
        <5>4. wStatus'[c][o] = req[c].next
          BY <1>0, <1>1, <2>2, <4>1, Taker DEF TypeOK
        <5> QED
          BY <5>2, <5>3, <5>4 DEF Resting
      <4>2. CASE SyncedOrder(c) # o
        BY <1>0, <1>1, <4>2 DEF TypeOK
      <4> QED
        BY <4>1, <4>2
    <3> QED
      BY <1>0, <1>1, <1>2, <1>4, <3>1, QuietKeepsHolds
  <2> QED
    BY <2>1, <2>2
<1> QED
  BY <1>3, <1>5

\* When the loop is over the fills and what the taker still wants make up its quantity.
LEMMA LeaveLoopHeld ==
    ASSUME IInv, HeldInv, NEW c \in Clients, LeaveLoop(c)
    PROVE  IdleInv(c)' /\ FillInv(c)' /\ HoldsInv(c)'
<1>0. TypeOK /\ ClientInv(c) /\ HoldsInv(c) /\ FillInv(c) /\ Submitting(c)
  BY SubmitPhase DEF IInv, HeldInv, LeaveLoop
<1>1. /\ pc'[c] \in {"cancelRest", "commit"} /\ pc[c] = "fill"
      /\ UNCHANGED <<order, status, req, dExec, dBal, wStatus>>
  BY <1>0 DEF LeaveLoop, dbVars, TypeOK
<1>2. /\ dExec[c][req[c].id] + req[c].remaining = order[req[c].id].qty
      /\ wStatus[c][req[c].id] = Implied(c)
  BY <1>0, <1>1 DEF ClientInv, MatchingInv, Unsynced
<1>3. IdleInv(c)'
  BY <1>0, <1>1 DEF IdleInv, Submitting
<1>4. FillInv(c)'
  BY <1>0, <1>1, <1>2 DEF FillInv, Submitting, Implied
<1>5. \A o \in Ids : Settled(c, o)' = Settled(c, o)
  BY <1>1 DEF Settled
<1> QED
  BY <1>0, <1>1, <1>3, <1>4, <1>5, QuietKeepsHolds

\* The held account of an order, among those of all users and sides.
LEMMA WhoseHold ==
    ASSUME NEW o, order[o] \in OrderRow, NEW u \in Users, NEW side \in Side
    PROVE  /\ Held(u, HoldAsset(side)) \in Account
           /\ Held(u, HoldAsset(side)) # AvailableOf(order[o])
           /\ Held(u, HoldAsset(side)) = HeldOf(order[o]) <=> OrderOf(o, u, side)
<1>1. order[o].side \in Side
  BY RowColumns
<1> QED
  BY <1>1 DEF Held, AvailableOf, Available, HeldOf, OrderOf, HoldAsset, Side, Account, Asset

\* A cancelled remainder leaves nothing held.
LEMMA CancelRestHeld ==
    ASSUME IInv, HeldInv, NEW c \in Clients, CancelRest(c)
    PROVE  IdleInv(c)' /\ FillInv(c)' /\ HoldsInv(c)'
<1> DEFINE o == req[c].id
           row == order[o]
           left == HoldOf(row, req[c].remaining)
<1>0. TypeOK /\ ClientInv(c) /\ HoldsInv(c) /\ FillInv(c) /\ Submitting(c)
  BY SubmitPhase DEF IInv, HeldInv, CancelRest
<1>1. /\ pc'[c] = "commit" /\ pc[c] = "cancelRest"
      /\ dBal'[c] = Move(dBal[c], HeldOf(row), AvailableOf(row), left)
      /\ wStatus' = [wStatus EXCEPT ![c][o] = "CANCELLED"]
      /\ UNCHANGED <<order, status, req, dExec>>
  BY <1>0 DEF CancelRest, dbVars, TypeOK
<1>2. /\ dExec[c][o] + req[c].remaining = row.qty
      /\ wStatus[c][o] = Implied(c)
  BY <1>0, <1>1 DEF ClientInv, MatchingInv, Unsynced
<1>3. /\ o \in Ids /\ row \in OrderRow /\ row.qty \in Nat /\ dExec[c][o] \in Nat
      /\ req[c].remaining \in Nat
  BY <1>0, Taker
<1>4. wStatus'[c][o] = "CANCELLED" /\ \A p \in Ids \ {o} : wStatus'[c][p] = wStatus[c][p]
  BY <1>0, <1>1, <1>3 DEF TypeOK
<1>5. IdleInv(c)'
  BY <1>0, <1>1 DEF IdleInv, Submitting
<1>6. FillInv(c)'
  BY <1>0, <1>1, <1>2, <1>4 DEF FillInv, Submitting
<1>7. HoldsInv(c)'
  <2> SUFFICES ASSUME NEW u \in Users, NEW side \in Side
               PROVE  dBal'[c][Held(u, HoldAsset(side))] = Total(Shares(c, u, side)', Ids)
    BY DEF HoldsInv
  <2> DEFINE h == Held(u, HoldAsset(side))
             f == Shares(c, u, side)
             g == Shares(c, u, side)'
             mine == OrderOf(o, u, side)
  <2>1. left \in Int
    BY <1>3, HoldIsNat
  <2>2. f[o] = IF mine THEN left ELSE 0
    <3>1. Settled(c, o) = dExec[c][o]
      BY <1>1 DEF Settled
    <3>2. row.qty - dExec[c][o] = req[c].remaining
      BY <1>2, <1>3
    <3>3. wStatus[c][o] # "CANCELLED"
      BY <1>2 DEF Implied, DeriveStatus
    <3>4. Share(c, o) = left
      BY <3>1, <3>2, <3>3 DEF Share
    <3> QED
      BY <1>0, <1>3, <3>4 DEF Shares, Writable
  <2>3. g[o] = 0
    <3>1. Share(c, o)' = 0
      BY <1>1, <1>4 DEF Share
    <3> QED
      BY <1>1, <1>3, <3>1 DEF Shares
  <2>4. \A p \in Ids \ {o} : f[p] = g[p]
    <3>1. ASSUME NEW p \in Ids \ {o} PROVE Share(c, p)' = Share(c, p)
      <4>1. Settled(c, p)' = Settled(c, p)
        BY <1>1 DEF Settled
      <4> QED
        BY <1>1, <4>1 DEF Share, HoldOf
    <3> QED
      BY <1>1, <3>1 DEF Shares, Writable, Submitting, OrderOf
  <2>5. \A p \in Ids : f[p] \in Int
    BY SharesAreInt
  <2>6. dBal[c][h] \in Int /\ dBal[c] \in [Account -> Int]
    BY <1>0, <1>3, WhoseHold DEF TypeOK
  <2>7. dBal'[c][h] = IF mine THEN dBal[c][h] - left ELSE dBal[c][h]
    <3>1. /\ h \in Account /\ h # AvailableOf(row)
          /\ h = HeldOf(row) <=> mine
          /\ HeldOf(row) \in Account /\ AvailableOf(row) \in Account
      BY <1>3, WhoseHold, RowColumns
    <3> HIDE DEF h, row, left, mine
    <3> QED
      BY <1>1, <2>1, <2>6, <3>1 DEF Move
  <2>8. dBal[c][h] = Total(f, Ids)
    BY <1>0 DEF HoldsInv
  <2>9. dBal'[c][h] = Total(g, Ids)
    <3> HIDE DEF f, g, h, o, left, mine
    <3>1. Total(f, Ids) = f[o] + Total(f, Ids \ {o})
      BY <1>3, <2>5, IdsAreFinite, TotalTakesOut
    <3>2. \A p \in Ids : g[p] \in Int
      BY <2>3, <2>4, <2>5
    <3>3. Total(g, Ids) = g[o] + Total(g, Ids \ {o})
      BY <1>3, <3>2, IdsAreFinite, TotalTakesOut
    <3>4. IsFiniteSet(Ids \ {o})
      BY IdsAreFinite, FS_Subset
    <3>5. Total(f, Ids \ {o}) = Total(g, Ids \ {o})
      BY <2>4, <3>4, TotalOfSame
    <3>6. Total(f, Ids \ {o}) \in Int
      BY <2>5, <3>4, TotalIsInt
    <3> QED
      BY <2>1, <2>2, <2>3, <2>6, <2>7, <2>8, <3>1, <3>3, <3>5, <3>6
  <2> QED
    BY <2>9
<1> QED
  BY <1>5, <1>6, <1>7

\* A placement holds what its order reserves.
LEMMA PlaceHeld ==
    ASSUME IInv, HeldInv, NEW c \in Clients, NEW row \in OrderRow, NEW bps \in FeeBps,
           Place(c, row, bps)
    PROVE  IdleInv(c)' /\ FillInv(c)' /\ HoldsInv(c)'
<1> DEFINE o == nextId
           amount == HoldOf(row, row.qty)
<1>0. TypeOK /\ RowsInv /\ req[c].kind = "none" /\ IdleInv(c)
  BY IdleHasNone DEF IInv, HeldInv, Place
<1>1. /\ o \in Ids /\ order' = [order EXCEPT ![o] = row]
      /\ pc'[c] = "match"
      /\ req'[c] = [NoRequest EXCEPT !.kind = "submit", !.id = o, !.bps = bps]
      /\ dBal'[c] = Move(dBal[c], AvailableOf(row), HeldOf(row), amount)
      /\ wStatus'[c][o] = "OPEN"
      /\ UNCHANGED <<status, dExec>>
  BY <1>0 DEF Place, dbVars, TypeOK
<1>2. req'[c].kind = "submit" /\ req'[c].id = o /\ req'[c].makers = {}
  BY <1>1 DEF NoRequest
<1>3. dExec[c] = NoExec /\ dBal[c] = NoMoves
  BY <1>0 DEF IdleInv
<1>4. /\ order'[o] = row /\ status[o] = "NONE"
      /\ \A p \in Ids \ {o} : order'[p] = order[p]
  BY <1>0, <1>1 DEF TypeOK, RowsInv
<1>5. IdleInv(c)' /\ FillInv(c)'
  BY <1>1, <1>2 DEF IdleInv, FillInv
<1>6. HoldsInv(c)'
  <2> SUFFICES ASSUME NEW u \in Users, NEW side \in Side
               PROVE  dBal'[c][Held(u, HoldAsset(side))] = Total(Shares(c, u, side)', Ids)
    BY DEF HoldsInv
  <2> DEFINE h == Held(u, HoldAsset(side))
             g == Shares(c, u, side)'
             mine == row.user = u /\ row.side = side
  <2>1. amount \in Int /\ row.qty \in Int
    BY RowColumns, HoldIsNat
  <2>2. \A p \in Ids : Settled(c, p)' = 0
    BY <1>1, <1>3 DEF Settled, NoExec
  <2>3. g[o] = IF mine THEN amount ELSE 0
    <3>1. \A p \in Ids : p = o => Share(c, p)' = HoldOf(row, row.qty - 0)
      BY <1>1, <1>2, <1>4, <2>2 DEF Share, HoldOf
    <3>2. row.qty - 0 = row.qty
      BY <2>1
    <3>3. \A p \in Ids : p = o => Share(c, p)' = amount
      BY <3>1, <3>2
    <3>4. \A p \in Ids : p = o => Writable(c, p)' /\ (OrderOf(p, u, side)' <=> mine)
      BY <1>2, <1>4 DEF Writable, Submitting, OrderOf
    <3>5. \A p \in Ids : p = o => g[p] = IF mine THEN amount ELSE 0
      BY <3>3, <3>4 DEF Shares
    <3> QED
      BY <1>1, <3>5
  <2>4. \A p \in Ids \ {o} : g[p] = 0
    <3> SUFFICES ASSUME NEW p \in Ids \ {o}, Writable(c, p)' PROVE Share(c, p)' = 0
      BY DEF Shares
    <3>1. order[p] \in OrderRow
      BY <1>0, <1>1, <1>2 DEF Writable, Submitting, RowsInv
    <3>2. HoldOf(order[p], 0) = 0
      BY <3>1, HoldIsLinear
    <3>3. Share(c, p)' = -HoldOf(order[p], 0)
      BY <1>2, <1>4, <2>2 DEF Share, HoldOf
    <3> QED
      BY <3>2, <3>3
  <2>5. dBal'[c][h] = IF mine THEN amount ELSE 0
    <3>1. /\ h \in Account /\ h # AvailableOf(row)
          /\ h = HeldOf(row) <=> mine
      BY RowColumns DEF Held, AvailableOf, Available, HeldOf, HoldAsset, Side, Account, Asset
    <3>2. /\ dBal[c] \in [Account -> Int] /\ dBal[c][h] = 0
          /\ HeldOf(row) \in Account /\ AvailableOf(row) \in Account
      BY <1>0, <1>3, <3>1, RowColumns DEF TypeOK, NoMoves
    <3> HIDE DEF h, amount, mine
    <3> QED
      BY <1>1, <2>1, <3>1, <3>2 DEF Move
  <2>6. dBal'[c][h] = Total(g, Ids)
    <3> HIDE DEF g, h, o, amount, mine
    <3>1. \A p \in Ids : g[p] \in Int
      BY <2>1, <2>3, <2>4
    <3>2. Total(g, Ids) = g[o] + Total(g, Ids \ {o})
      BY <1>1, <3>1, IdsAreFinite, TotalTakesOut
    <3>3. IsFiniteSet(Ids \ {o})
      BY IdsAreFinite, FS_Subset
    <3>4. Total(g, Ids \ {o}) = 0
      <4>1. Total(g, Ids \ {o}) = Total(g, {})
        BY <2>4, <3>3, TotalOfZeros
      <4> QED
        BY <4>1, TotalOfNone
    <3> QED
      BY <2>1, <2>3, <2>5, <3>2, <3>4
  <2> QED
    BY <2>6
<1> QED
  BY <1>5, <1>6

\* Requests that are no submission.
LEMMA OtherKindsHeld ==
    ASSUME NEW c \in Clients, req'[c].kind \in {"cancel", "demo"}
    PROVE  IdleInv(c)' /\ FillInv(c)' /\ HoldsInv(c)'
  BY DEF IdleInv, FillInv, HoldsInv, Submitting

\* Nothing stays of a transaction that has ended.
LEMMA EndedHeld ==
    ASSUME TypeOK, NEW c \in Clients, EndRequest(c)
    PROVE  IdleInv(c)' /\ FillInv(c)' /\ HoldsInv(c)'
<1>1. /\ dExec'[c] = NoExec /\ dBal'[c] = NoMoves /\ dRefs'[c] = {} /\ wStatus'[c] = NoWrites
      /\ req'[c].kind = "none"
  BY NoRequestIsTyped DEF EndRequest, TypeOK
<1> QED
  BY <1>1 DEF IdleInv, FillInv, HoldsInv, Submitting, NoExec, NoMoves, NoWrites

\* The handlers of cancels and of the demo route.
LEMMA OtherHandlersHeld ==
    ASSUME IInv, NEW c \in Clients,
           \/ \E o \in Ids : ReadCancel(c, o)
           \/ \E b, s \in Ids, q \in Qtys, p \in DemoPrices, bps \in FeeBps :
                  DemoFill(c, b, s, q, p, bps)
           \/ ReleaseHold(c) \/ CancelWrite(c) \/ ReleaseResidual(c) \/ Reconcile(c)
    PROVE  req'[c].kind \in {"cancel", "demo"}
<1>0. TypeOK /\ PhaseInv(c) /\ req[c].kind \in Kinds
  BY RequestIsTyped DEF IInv, ClientInv
<1>1. ASSUME NEW o \in Ids, ReadCancel(c, o) PROVE req'[c].kind = "cancel"
  BY <1>0, <1>1 DEF ReadCancel, TypeOK, NoRequest
<1>2. ASSUME NEW b \in Ids, NEW s \in Ids, NEW q \in Qtys, NEW p \in DemoPrices,
             NEW bps \in FeeBps, DemoFill(c, b, s, q, p, bps)
      PROVE  req'[c].kind = "demo"
  BY <1>0, <1>2 DEF DemoFill, TypeOK, NoRequest
<1>3. CASE ReleaseHold(c) \/ CancelWrite(c)
  BY <1>0, <1>3 DEF ReleaseHold, CancelWrite, PhaseInv, Kinds
<1>4. CASE ReleaseResidual(c) \/ Reconcile(c)
  BY <1>0, <1>4 DEF ReleaseResidual, Reconcile, PhaseInv, Kinds
<1> QED
  BY <1>1, <1>2, <1>3, <1>4

\* Each step of a client's own keeps what its transaction has done.
LEMMA OwnHeld ==
    ASSUME IInv, LockInv, HeldInv, NEW c \in Clients, ClientStep(c)
    PROVE  IdleInv(c)' /\ FillInv(c)' /\ HoldsInv(c)'
<1>0. TypeOK /\ IdleInv(c) /\ FillInv(c) /\ HoldsInv(c)
  BY DEF IInv, HeldInv
<1>1. CASE Request(c)
  <2>1. ASSUME NEW row \in OrderRow, NEW bps \in FeeBps, Place(c, row, bps)
        PROVE  IdleInv(c)' /\ FillInv(c)' /\ HoldsInv(c)'
    BY <2>1, PlaceHeld
  <2>2. ASSUME NEW row \in OrderRow, PlaceRefused(c, row)
        PROVE  IdleInv(c)' /\ FillInv(c)' /\ HoldsInv(c)'
    <3>1. UNCHANGED <<order, status, pc, req, dExec, dBal, dRefs, wStatus>>
      BY <2>2 DEF PlaceRefused, dbVars
    <3>2. ~Submitting(c)
      BY <2>2, IdleHasNone DEF PlaceRefused
    <3> QED
      BY <1>0, <3>1, <3>2 DEF IdleInv, FillInv, HoldsInv, Submitting
  <2>3. CASE \/ \E o \in Ids : ReadCancel(c, o)
             \/ \E b, s \in Ids, q \in Qtys, p \in DemoPrices, bps \in FeeBps :
                    DemoFill(c, b, s, q, p, bps)
    BY <2>3, OtherHandlersHeld, OtherKindsHeld
  <2> QED
    BY <1>1, <2>1, <2>2, <2>3 DEF Request
<1>2. CASE Proceed(c)
  <2>1. CASE Match(c) \/ CheckFok(c) \/ FillMaker(c)
    BY <2>1, MatchHeld, CheckFokHeld, FillMakerHeld
  <2>2. CASE SettleFill(c) \/ SyncRead(c) \/ SyncWrite(c)
    BY <2>2, SettleFillHeld, SyncReadHeld, SyncWriteHeld
  <2>3. CASE LeaveLoop(c) \/ CancelRest(c)
    BY <2>3, LeaveLoopHeld, CancelRestHeld
  <2>4. CASE ReleaseHold(c) \/ CancelWrite(c) \/ ReleaseResidual(c) \/ Reconcile(c)
    BY <2>4, OtherHandlersHeld, OtherKindsHeld
  <2>5. CASE Commit(c) \/ Fail(c)
    BY <1>0, <2>5, EndedHeld DEF Commit, Fail, Rollback
  <2> QED
    BY <1>2, <2>1, <2>2, <2>3, <2>4, <2>5 DEF Proceed
<1>3. CASE Abort(c)
  BY <1>0, <1>3, EndedHeld DEF Abort, Rollback
<1> QED
  BY <1>1, <1>2, <1>3 DEF ClientStep

\* Every step keeps it for everybody.
LEMMA NextKeepsHeld == IInv /\ LockInv /\ HeldInv /\ [Next]_vars => HeldInv'
<1> SUFFICES ASSUME IInv, LockInv, HeldInv, [Next]_vars PROVE HeldInv'
  OBVIOUS
<1>1. ASSUME NEW c \in Clients, ClientStep(c) PROVE HeldInv'
  BY <1>1, OwnHeld, OthersKeepHeld DEF HeldInv
<1>2. CASE UNCHANGED vars
  <2>1. \A c \in Clients, u \in Users, side \in Side, o \in Ids :
            Shares(c, u, side)'[o] = Shares(c, u, side)[o]
    BY <1>2 DEF vars, dbVars, Shares, Writable, Submitting, OrderOf, Share, Settled, HoldOf
  <2>2. \A c \in Clients : IdleInv(c)' /\ FillInv(c)'
    BY <1>2 DEF vars, dbVars, HeldInv, IdleInv, FillInv, Submitting, Maker, Implied
  <2>3. ASSUME NEW c \in Clients PROVE HoldsInv(c)'
    BY <1>2, <2>1, SameSharesKeep DEF vars, HeldInv, Submitting
  <2> QED
    BY <2>2, <2>3 DEF HeldInv
<1> QED
  BY <1>1, <1>2 DEF Next, ClientStep

\* At first no transaction has done anything.
LEMMA InitHeld == Init => HeldInv
  BY DEF Init, HeldInv, IdleInv, FillInv, HoldsInv, Submitting, NoRequest

-----------------------------------------------------------------------------
(* The property as the run states it.                                      *)

\* What a commit changes of an order's hold.
ChangeOf(o) ==
    IF status[o] # "NONE" THEN -HoldOf(order[o], executed'[o] - executed[o])
    ELSE IF status'[o] \in Resting
         THEN HoldOf(order[o], RemainingQty(order[o].qty, executed'[o])) ELSE 0

\* ChangeOf, added over the subsets of T.
Changes(T) ==
    CHOOSE it : it = [s \in SUBSET T |-> IF s = {} THEN 0
                                         ELSE ChangeOf(Pick(s)) + it[s \ {Pick(s)}]]

\* The orders of a user and side that are visible afterwards.
MineOf(u, side) ==
    {o \in Ids : status'[o] # "NONE" /\ order[o].user = u /\ order[o].side = side}

\* The sum of the property is the total of what each order changes.
LEMMA ChangesAdd ==
    ASSUME NEW S, IsFiniteSet(S), NEW f, \A o \in S : f[o] = ChangeOf(o)
    PROVE  Changes(S)[S] = Total(f, S)
<1> DEFINE Adds(it) == it = [s \in SUBSET S |-> IF s = {} THEN 0
                                                ELSE ChangeOf(Pick(s)) + it[s \ {Pick(s)}]]
<1>1. ASSUME NEW it PROVE IsSums(f, S, it) <=> Adds(it)
  <2>1. \A s \in SUBSET S : s # {} => f[Pick(s)] = ChangeOf(Pick(s))
    BY PickIsIn
  <2> DEFINE E(s) == IF s = {} THEN 0 ELSE f[Pick(s)] + it[s \ {Pick(s)}]
             F(s) == IF s = {} THEN 0 ELSE ChangeOf(Pick(s)) + it[s \ {Pick(s)}]
  <2>2. \A s \in SUBSET S : E(s) = F(s)
    BY <2>1
  <2> HIDE DEF E, F
  <2>3. [s \in SUBSET S |-> E(s)] = [s \in SUBSET S |-> F(s)]
    BY <2>2
  <2> QED
    BY <2>3 DEF E, F, IsSums
<1>2. PICK jt : IsSums(f, S, jt)
  BY SumsExist
<1>3. Adds(jt)
  BY <1>1, <1>2
<1>4. Adds(Changes(S))
  BY <1>3 DEF Changes
<1>5. IsSums(f, S, Changes(S))
  BY <1>1, <1>4
<1>6. S \subseteq S
  OBVIOUS
<1> QED
  BY <1>5, <1>6, TotalIs

\* What the commit of a submission changes of each hold is the share of its transaction.
LEMMA CommittedShare ==
    ASSUME IInv, HeldInv, NEW c \in Clients, Commit(c), Submitting(c), NEW o \in Ids
    PROVE  /\ status'[o] # "NONE" <=> Writable(c, o)
           /\ Writable(c, o) => ChangeOf(o) = Share(c, o)
<1>0. TypeOK /\ RowsInv /\ ClientInv(c) /\ FillInv(c)
  BY DEF IInv, HeldInv
<1>1. /\ pc[c] = "commit" /\ status'[o] = StatusSeen(c, o)
      /\ executed'[o] = executed[o] + dExec[c][o]
  BY DEF Commit, ExecutedSeen
<1>2. /\ dExec[c][o] \in Nat /\ executed[o] \in Nat /\ Settled(c, o) = dExec[c][o]
      /\ req[c].remaining \in Nat
  BY <1>0, <1>1, RequestIsTyped DEF TypeOK, Settled
<1>3. CASE o # req[c].id
  <2>1. executed'[o] - executed[o] = dExec[c][o]
    BY <1>1, <1>2
  <2>2. status'[o] # "NONE" <=> status[o] # "NONE"
    BY <1>0, <1>1, <1>3 DEF StatusSeen, ClientInv, WritesInv, Writable
  <2> QED
    BY <1>2, <1>3, <2>1, <2>2 DEF Writable, ChangeOf, Share
<1>4. CASE o = req[c].id
  <2>1. /\ status[o] = "NONE" /\ executed[o] = 0 /\ order[o] \in OrderRow
        /\ order[o].qty \in Nat
    BY <1>0, <1>4, Taker DEF ClientInv, OwnRowInv, RowsInv
  <2>2. /\ dExec[c][o] + req[c].remaining = order[o].qty
        /\ wStatus[c][o] = Implied(c) \/ wStatus[c][o] = "CANCELLED"
    BY <1>0, <1>1, <1>4 DEF FillInv
  <2>3. Implied(c) = IF dExec[c][o] >= order[o].qty THEN "FILLED"
                     ELSE IF dExec[c][o] > 0 THEN "PARTIALLY_FILLED" ELSE "OPEN"
    BY <1>4 DEF Implied, DeriveStatus
  <2>4. status'[o] = wStatus[c][o] /\ wStatus[c][o] # "NONE" /\ executed'[o] = dExec[c][o]
    BY <1>1, <1>2, <2>1, <2>2, <2>3 DEF StatusSeen
  <2>5. Writable(c, o)
    BY <1>4 DEF Writable
  <2>6. ChangeOf(o) = Share(c, o)
    <3>1. CASE wStatus[c][o] = "CANCELLED"
      BY <1>4, <2>1, <2>4, <3>1 DEF ChangeOf, Share, Resting
    <3>2. CASE wStatus[c][o] = "FILLED"
      <4>1. order[o].qty - dExec[c][o] = 0
        BY <1>2, <2>1, <2>2, <2>3, <3>2
      <4>2. HoldOf(order[o], 0) = 0
        BY <2>1, HoldIsLinear
      <4> QED
        BY <1>2, <1>4, <2>1, <2>4, <3>2, <4>1, <4>2 DEF ChangeOf, Share, Resting
    <3>3. CASE wStatus[c][o] \in Resting
      <4>1. RemainingQty(order[o].qty, dExec[c][o]) = order[o].qty - dExec[c][o]
        BY <1>2, <2>1, <2>2 DEF RemainingQty
      <4> QED
        BY <1>2, <1>4, <2>1, <2>4, <3>3, <4>1 DEF ChangeOf, Share, Resting
    <3> QED
      BY <2>2, <2>3, <3>1, <3>2, <3>3 DEF Resting
  <2> QED
    BY <2>4, <2>5, <2>6
<1> QED
  BY <1>3, <1>4

\* The commit of a submission moves a held account by what its orders change.
LEMMA CommitMovesHolds ==
    ASSUME IInv, HeldInv, NEW c \in Clients, Commit(c), Submitting(c),
           NEW u \in Users, NEW side \in Side
    PROVE  LET held == Held(u, HoldAsset(side))
           IN  bal'[held] = bal[held] + Changes(MineOf(u, side))[MineOf(u, side)]
<1> DEFINE held == Held(u, HoldAsset(side))
           f == Shares(c, u, side)
           mine == MineOf(u, side)
<1>1. bal'[held] = bal[held] + dBal[c][held]
  <2>1. held \in Account
    BY DEF Held, HoldAsset, Account, Asset
  <2> QED
    BY <2>1 DEF Commit, BalanceSeen
<1>2. dBal[c][held] = Total(f, Ids)
  BY DEF HeldInv, HoldsInv
<1>3. mine \in SUBSET Ids /\ IsFiniteSet(mine)
  BY IdsAreFinite, FS_Subset DEF MineOf
<1>4. \A o \in Ids : f[o] \in Int
  BY SharesAreInt
<1>5. ASSUME NEW o \in Ids PROVE f[o] = IF o \in mine THEN ChangeOf(o) ELSE 0
  <2>1. o \in mine <=> Writable(c, o) /\ OrderOf(o, u, side)
    BY CommittedShare DEF MineOf, OrderOf
  <2>2. Writable(c, o) => ChangeOf(o) = Share(c, o)
    BY CommittedShare
  <2> HIDE DEF mine
  <2> QED
    BY <2>1, <2>2 DEF Shares
<1> HIDE DEF f, mine, held
<1>6. Total(f, Ids) = Total(f, mine)
  BY <1>3, <1>4, <1>5, IdsAreFinite, TotalOfZeros
<1>7. Total(f, mine) = Changes(mine)[mine]
  BY <1>3, <1>5, ChangesAdd
<1>8. bal'[held] = bal[held] + Changes(mine)[mine]
  BY <1>1, <1>2, <1>6, <1>7
<1> QED
  BY <1>8 DEF held, mine

\* Whatever commits beside it, a submission moves the held balances by exactly what it
\* filled and what it leaves resting.
THEOREM HoldsAreMoved == Spec => SubmissionsMoveTheirHolds
<1> DEFINE Change(o) ==
               IF status[o] # "NONE" THEN -HoldOf(order[o], executed'[o] - executed[o])
               ELSE IF status'[o] \in Resting
                    THEN HoldOf(order[o], RemainingQty(order[o].qty, executed'[o])) ELSE 0
           Mine(u, side) == {o \in Ids : /\ status'[o] # "NONE"
                                         /\ order[o].user = u /\ order[o].side = side}
           Moved == (\E o \in Ids : status[o] = "NONE" /\ status'[o] # "NONE") =>
               \A u \in Users, side \in Side :
                   LET held == Held(u, HoldAsset(side))
                   IN  bal'[held] = bal[held] + MapThenSumSet(Change, Mine(u, side))
<1>1. Init => IInv /\ LockInv /\ HeldInv
  BY InitIInv, InitLocks, InitHeld
<1>2. (IInv /\ LockInv /\ HeldInv) /\ [Next]_vars => (IInv /\ LockInv /\ HeldInv)'
  BY NextKeeps, NextKeepsLocks, NextKeepsHeld
<1>3. IInv /\ LockInv /\ HeldInv /\ [Next]_vars => [Moved]_vars
  <2> SUFFICES ASSUME IInv, HeldInv, Next, NEW o \in Ids,
                      status[o] = "NONE", status'[o] # "NONE",
                      NEW u \in Users, NEW side \in Side
               PROVE  LET held == Held(u, HoldAsset(side))
                      IN  bal'[held] = bal[held] + MapThenSumSet(Change, Mine(u, side))
    OBVIOUS
  <2>1. status' # status
    OBVIOUS
  <2>2. PICK c \in Clients : Commit(c)
    BY <2>1, OnlyCommitShows
  <2>3. Submitting(c)
    BY <2>2 DEF Commit, StatusSeen, IInv, ClientInv, WritesInv, Writable
  <2>4. MapThenSumSet(Change, Mine(u, side)) = Changes(MineOf(u, side))[MineOf(u, side)]
    BY DEF MapThenSumSet, MapThenFoldSet, Changes, ChangeOf, MineOf, Pick
  <2> HIDE DEF Change, Mine
  <2> QED
    BY <2>2, <2>3, <2>4, CommitMovesHolds
<1> QED
  BY <1>1, <1>2, <1>3, PTL DEF Spec, SubmissionsMoveTheirHolds

-----------------------------------------------------------------------------
(* Requests that do not overlap.                                           *)

\* One request at a time, and nobody calls the demo route.
Serial == (\A c, d \in Clients : c = d) /\ DemoPrices = {}

\* The status that the trades a transaction sees imply for an order.
Fills(c, o) == DeriveStatus("OPEN", order[o].qty, ExecutedSeen(c, o))

\* Committed rows: never overfilled, and with the status their fills imply unless
\* they were cancelled with something left; only cancelled orders have been released.
BookInv ==
    \A o \in Ids :
        /\ status[o] # "NONE" =>
               /\ executed[o] =< order[o].qty
               /\ \/ status[o] = DeriveStatus("OPEN", order[o].qty, executed[o])
                  \/ status[o] = "CANCELLED" /\ executed[o] < order[o].qty
        /\ <<o, "CANCEL_RELEASE">> \in refs => status[o] = "CANCELLED"

\* A live order that the taker of a submission may trade with.
Candidate(c, m) ==
    /\ m \in Ids \ {req[c].id}
    /\ status[m] \in Resting
    /\ order[m].side = Opposite(order[req[c].id].side)
    /\ Crosses(order[req[c].id].side, order[req[c].id].price, order[m].price)

\* The candidates still to come are as they were committed ...
WaitingMakers(c) ==
    \A m \in req[c].makers : Candidate(c, m) /\ dExec[c][m] = 0 /\ wStatus[c][m] = "NONE"

\* ... those the loop has come to are not overfilled, and carry the status their
\* fills imply as soon as they are synchronised.
UsedMakers(c) ==
    \A m \in Ids \ {req[c].id} :
        /\ pc[c] \in {"match", "fok"} => dExec[c][m] = 0 /\ wStatus[c][m] = "NONE"
        /\ dExec[c][m] > 0 \/ wStatus[c][m] # "NONE" =>
               /\ Candidate(c, m)
               /\ ExecutedSeen(c, m) =< order[m].qty
               /\ dExec[c][m] > 0
        /\ wStatus[c][m] # "NONE" => wStatus[c][m] = Fills(c, m)
        /\ dExec[c][m] > 0 /\ wStatus[c][m] = "NONE" =>
               /\ Settling(c) /\ m = Maker(c)
               /\ pc[c] = "settle" \/ req[c].sync = "BUY" \/ m = req[c].sell

SyncedMaker(c) ==
    /\ Settling(c) => dExec[c][Maker(c)] > 0
    /\ pc[c] = "syncWrite" /\ SyncedOrder(c) # req[c].id =>
           req[c].next = Fills(c, SyncedOrder(c))

\* While the taker wants more every candidate the loop has passed is filled, and so
\* is every candidate before one that was traded with.
PassedAreFilled(c) ==
    pc[c] # "match" =>
        \A m \in Ids : Candidate(c, m) =>
            /\ m \in req[c].makers \/ req[c].remaining = 0 \/ ExecutedSeen(c, m) = order[m].qty
            /\ \A n \in Ids \ {req[c].id} : dExec[c][n] > 0 /\ Before(m, n) =>
                   m \notin req[c].makers /\ ExecutedSeen(c, m) = order[m].qty

\* The loop ends for a reason.
LoopOver(c) ==
    /\ pc[c] \in {"cancelRest", "commit"} => req[c].remaining = 0 \/ req[c].makers = {}
    /\ pc[c] = "cancelRest" \/ wStatus[c][req[c].id] = "CANCELLED" => req[c].remaining > 0
    /\ dRefs[c] # {} => /\ dRefs[c] = {<<req[c].id, "CANCEL_RELEASE">>}
                        /\ wStatus[c][req[c].id] = "CANCELLED"

\* What the candidates have left.
Left(c) == [m \in Ids |-> RemainingQty(order[m].qty, ExecutedSeen(c, m))]

\* What a fill-or-kill order still wants is there.
Fillable(c) ==
    order[req[c].id].tif = "FOK" /\ pc[c] \notin {"match", "fok"} =>
        req[c].remaining =< Total(Left(c), req[c].makers)

SubmitInv(c) ==
    Submitting(c) =>
        /\ WaitingMakers(c) /\ UsedMakers(c) /\ SyncedMaker(c)
        /\ PassedAreFilled(c) /\ LoopOver(c) /\ Fillable(c)

\* A cancel releases the hold of what the order has left.
CancelInv(c) ==
    req[c].kind = "cancel" =>
        LET o == req[c].id
            row == order[o]
            release == Move(NoMoves, HeldOf(row), AvailableOf(row),
                            HoldOf(row, req[c].remaining))
        IN  /\ o \in Ids /\ status[o] \in Resting
            /\ req[c].remaining + executed[o] = row.qty /\ req[c].remaining > 0
            /\ dExec[c] = NoExec
            /\ \A p \in Ids : wStatus[c][p] =
                   IF p = o /\ pc[c] = "commit" THEN "CANCELLED" ELSE "NONE"
            /\ IF pc[c] = "releaseHold" THEN dBal[c] = NoMoves /\ dRefs[c] = {}
               ELSE dBal[c] = release /\ dRefs[c] = {<<o, "CANCEL_RELEASE">>}

\* Accounts other than the held ones only go below zero if a placement overdraws them.
Spendable == {a \in Account : a[3] # "HELD"}

FundsInv(c) == \A a \in Spendable : BalanceSeen(c, a) >= 0

CommittedFunds == \A a \in Spendable : bal[a] >= 0

\* The hold of a live order.
LiveShares(u, side) ==
    [o \in Ids |-> IF status[o] \in Resting /\ OrderOf(o, u, side)
                   THEN HoldOf(order[o], RemainingQty(order[o].qty, executed[o])) ELSE 0]

HeldAreLive ==
    \A u \in Users, side \in Side :
        bal[Held(u, HoldAsset(side))] = Total(LiveShares(u, side), Ids)

SerialInv ==
    /\ BookInv /\ CommittedFunds /\ HeldAreLive /\ BookUncrossed
    /\ \A c \in Clients :
           SubmitInv(c) /\ CancelInv(c) /\ FundsInv(c) /\ req[c].kind # "demo"

\* The request that is being handled, when it is a submission.
LEMMA SubmissionAt ==
    ASSUME IInv, LockInv, SerialInv, NEW c \in Clients, Submitting(c)
    PROVE  /\ TypeOK /\ RowsInv /\ BookInv /\ ClientInv(c) /\ LocksInv(c)
           /\ WaitingMakers(c) /\ UsedMakers(c) /\ SyncedMaker(c)
           /\ PassedAreFilled(c) /\ LoopOver(c) /\ Fillable(c)
           /\ req[c] \in RequestType /\ req[c].id \in Ids
  BY Taker DEF IInv, LockInv, SerialInv, SubmitInv

\* Candidates and priorities depend on the rows and on the request's own order only.
LEMMA CandidatesStay ==
    ASSUME NEW c \in Clients, UNCHANGED <<order, status>>, req'[c].id = req[c].id
    PROVE  /\ \A m : Candidate(c, m)' <=> Candidate(c, m)
           /\ \A m, n : Before(m, n)' <=> Before(m, n)
  BY DEF Candidate, Before

\* A candidate is a row with something left.
LEMMA CandidateIsRow ==
    ASSUME IInv, BookInv, NEW c \in Clients, NEW m, Candidate(c, m)
    PROVE  /\ m \in Ids /\ m # req[c].id /\ order[m] \in OrderRow
           /\ order[m].qty \in Nat \ {0} /\ executed[m] \in Nat /\ dExec[c][m] \in Nat
           /\ executed[m] < order[m].qty
           /\ ExecutedSeen(c, m) = executed[m] + dExec[c][m] /\ ExecutedSeen(c, m) \in Nat
<1>1. m \in Ids /\ m # req[c].id /\ status[m] \in Resting
  BY DEF Candidate
<1>2. order[m] \in OrderRow
  BY <1>1 DEF IInv, RowsInv, Resting
<1>3. order[m].qty \in Nat \ {0} /\ executed[m] \in Nat /\ dExec[c][m] \in Nat
  BY <1>1, <1>2, RowColumns DEF IInv, TypeOK
<1>4. executed[m] < order[m].qty
  <2>1. /\ executed[m] =< order[m].qty /\ status[m] # "CANCELLED" /\ status[m] # "FILLED"
        /\ status[m] = DeriveStatus("OPEN", order[m].qty, executed[m]) \/ status[m] = "CANCELLED"
    BY <1>1 DEF BookInv, Resting
  <2>2. executed[m] >= order[m].qty => DeriveStatus("OPEN", order[m].qty, executed[m]) = "FILLED"
    BY DEF DeriveStatus
  <2> QED
    BY <1>3, <2>1, <2>2
<1> QED
  BY <1>1, <1>2, <1>3, <1>4 DEF ExecutedSeen

\* A step that trades nothing, writes no row and names no other maker.
LEMMA QuietSubmits ==
    ASSUME NEW c \in Clients, SubmitInv(c), Submitting(c),
           UNCHANGED <<order, status, executed>>,
           dExec'[c] = dExec[c], wStatus'[c] = wStatus[c], dRefs'[c] = dRefs[c],
           req'[c].kind = req[c].kind, req'[c].id = req[c].id,
           req'[c].makers = req[c].makers, req'[c].remaining = req[c].remaining,
           Settling(c)' <=> Settling(c),
           Settling(c) => /\ req'[c].buy = req[c].buy /\ req'[c].sell = req[c].sell
                          /\ pc'[c] = "settle" \/ req'[c].sync = "BUY"
                             \/ (pc[c] # "settle" /\ req'[c].sync = req[c].sync),
           pc[c] \notin {"match", "fok"}, pc'[c] \notin {"match", "fok"},
           pc'[c] = "syncWrite" /\ SyncedOrder(c)' # req[c].id =>
               req'[c].next = Fills(c, SyncedOrder(c)'),
           pc'[c] \in {"cancelRest", "commit"} => req[c].remaining = 0 \/ req[c].makers = {},
           pc'[c] = "cancelRest" => req[c].remaining > 0
    PROVE  SubmitInv(c)'
<1>1. /\ WaitingMakers(c) /\ UsedMakers(c) /\ SyncedMaker(c)
      /\ PassedAreFilled(c) /\ LoopOver(c) /\ Fillable(c)
  BY DEF SubmitInv
<1>2. /\ \A m : Candidate(c, m)' <=> Candidate(c, m)
      /\ \A m, n : Before(m, n)' <=> Before(m, n)
  BY CandidatesStay
<1>3. \A m : ExecutedSeen(c, m)' = ExecutedSeen(c, m) /\ Fills(c, m)' = Fills(c, m)
  BY DEF ExecutedSeen, Fills
<1>4. WaitingMakers(c)'
  BY <1>1, <1>2 DEF WaitingMakers
<1>5. Settling(c) => Maker(c)' = Maker(c)
  BY DEF Maker
<1>6. UsedMakers(c)'
  <2> SUFFICES ASSUME NEW m \in Ids \ {req[c].id}
               PROVE  /\ pc'[c] \in {"match", "fok"} =>
                             dExec[c][m] = 0 /\ wStatus[c][m] = "NONE"
                      /\ dExec[c][m] > 0 \/ wStatus[c][m] # "NONE" =>
                             /\ Candidate(c, m)
                             /\ ExecutedSeen(c, m) =< order[m].qty
                             /\ dExec[c][m] > 0
                      /\ wStatus[c][m] # "NONE" => wStatus[c][m] = Fills(c, m)
                      /\ dExec[c][m] > 0 /\ wStatus[c][m] = "NONE" =>
                             /\ Settling(c) /\ m = Maker(c)
                             /\ pc'[c] = "settle" \/ req'[c].sync = "BUY" \/ m = req[c].sell
    BY <1>2, <1>3, <1>5 DEF UsedMakers
  <2> QED
    BY <1>1 DEF UsedMakers
<1>7. SyncedMaker(c)'
  BY <1>1, <1>3, <1>5 DEF SyncedMaker
<1>8. PassedAreFilled(c)'
  BY <1>1, <1>2, <1>3 DEF PassedAreFilled
<1>9. LoopOver(c)'
  BY <1>1 DEF LoopOver
<1>10. Left(c)' = Left(c)
  BY <1>3 DEF Left
<1>11. Fillable(c)'
  BY <1>1, <1>10 DEF Fillable
<1> QED
  BY <1>4, <1>6, <1>7, <1>8, <1>9, <1>11 DEF SubmitInv

\* What is committed stays as it is until a commit.
LEMMA LocalSerial ==
    ASSUME SerialInv, UNCHANGED <<order, dbVars>>
    PROVE  BookInv' /\ CommittedFunds' /\ HeldAreLive' /\ BookUncrossed'
<1> USE DEF dbVars
<1>1. BookInv' /\ CommittedFunds' /\ BookUncrossed'
  BY DEF SerialInv, BookInv, CommittedFunds, BookUncrossed, Live
<1>2. \A u \in Users, side \in Side : LiveShares(u, side)' = LiveShares(u, side)
  BY DEF LiveShares, OrderOf, HoldOf
<1>3. HeldAreLive'
  BY <1>2 DEF SerialInv, HeldAreLive
<1> QED
  BY <1>1, <1>3

\* Steps that post nothing leave every balance covered.
LEMMA QuietFunds ==
    ASSUME SerialInv, NEW c \in Clients, dBal'[c] = dBal[c], UNCHANGED bal
    PROVE  FundsInv(c)'
  BY DEF SerialInv, FundsInv, BalanceSeen

\* The candidates are all there is to trade with.
LEMMA MatchSerial ==
    ASSUME IInv, LockInv, SerialInv, NEW c \in Clients, Match(c)
    PROVE  SubmitInv(c)' /\ CancelInv(c)' /\ FundsInv(c)' /\ req'[c].kind # "demo"
<1> DEFINE o == req[c].id
<1>0. Submitting(c) /\ pc[c] = "match"
  BY SubmitPhase DEF Match
<1>1. /\ TypeOK /\ ClientInv(c) /\ LocksInv(c) /\ UsedMakers(c) /\ LoopOver(c)
      /\ req[c] \in RequestType /\ o \in Ids
  BY <1>0, SubmissionAt
<1>2. /\ req' = [req EXCEPT ![c].makers = MatchingOrders(c, o), ![c].remaining = order[o].qty]
      /\ pc'[c] = IF order[o].tif = "FOK" THEN "fok" ELSE "fill"
      /\ UNCHANGED <<order, status, executed, bal, dExec, dBal, dRefs, wStatus>>
  BY <1>1 DEF Match, dbVars, TypeOK
<1>3. /\ req'[c].kind = req[c].kind /\ req'[c].id = o
      /\ req'[c].makers = MatchingOrders(c, o) /\ req'[c].remaining = order[o].qty
  BY <1>1, <1>2 DEF TypeOK, RequestType
<1>4. \A m \in Ids \ {o} : dExec[c][m] = 0 /\ wStatus[c][m] = "NONE"
  BY <1>0, <1>1 DEF UsedMakers
<1>5. \A m : m \in MatchingOrders(c, o) <=> Candidate(c, m)
  BY <1>4 DEF MatchingOrders, Candidate, StatusSeen
<1>6. \A m : Candidate(c, m)' <=> Candidate(c, m)
  BY <1>2, <1>3, CandidatesStay
<1>7. WaitingMakers(c)'
  BY <1>2, <1>3, <1>4, <1>5, <1>6 DEF WaitingMakers, Candidate
<1>8. UsedMakers(c)'
  BY <1>2, <1>3, <1>4 DEF UsedMakers
<1>9. SyncedMaker(c)' /\ LoopOver(c)' /\ Fillable(c)'
  <2>1. ~Settling(c)' /\ pc'[c] \notin {"syncWrite", "cancelRest", "commit"}
    BY <1>2 DEF Settling
  <2>2. wStatus[c][o] # "CANCELLED"
    BY <1>0, <1>1 DEF ClientInv, MatchingInv
  <2>3. SyncedMaker(c)' /\ LoopOver(c)'
    BY <1>1, <1>2, <1>3, <2>1, <2>2 DEF SyncedMaker, LoopOver
  <2>4. Fillable(c)'
    BY <1>2, <1>3 DEF Fillable
  <2> QED
    BY <2>3, <2>4
<1>10. PassedAreFilled(c)'
  <2>1. \A m \in Ids : Candidate(c, m)' => m \in req'[c].makers
    BY <1>3, <1>5, <1>6
  <2>2. \A n \in Ids \ {o} : ~(dExec'[c][n] > 0)
    BY <1>2, <1>4
  <2> QED
    BY <1>3, <2>1, <2>2 DEF PassedAreFilled
<1>11. SubmitInv(c)'
  BY <1>7, <1>8, <1>9, <1>10 DEF SubmitInv
<1> QED
  BY <1>0, <1>2, <1>3, <1>11, QuietFunds DEF CancelInv, Submitting

\* The fillable quantity, as the check adds it up.
FillableSums(c, T) ==
    CHOOSE it : it = [s \in SUBSET T |-> IF s = {} THEN 0
        ELSE RemainingQty(order[Pick(s)].qty, ExecutedSeen(c, Pick(s))) + it[s \ {Pick(s)}]]

\* What checkFok counts is the total of what the candidates have left.
LEMMA FillableAdds ==
    ASSUME NEW c \in Clients, NEW S \in SUBSET Ids
    PROVE  FillableSums(c, S)[S] = Total(Left(c), S)
<1> DEFINE f == Left(c)
           Adds(it) == it = [s \in SUBSET S |-> IF s = {} THEN 0
               ELSE RemainingQty(order[Pick(s)].qty, ExecutedSeen(c, Pick(s))) + it[s \ {Pick(s)}]]
<1>0. IsFiniteSet(S) /\ S \subseteq S
  BY IdsAreFinite, FS_Subset
<1>1. ASSUME NEW it PROVE IsSums(f, S, it) <=> Adds(it)
  <2>1. \A s \in SUBSET S : s # {} =>
            f[Pick(s)] = RemainingQty(order[Pick(s)].qty, ExecutedSeen(c, Pick(s)))
    BY PickIsIn DEF Left
  <2> DEFINE E(s) == IF s = {} THEN 0 ELSE f[Pick(s)] + it[s \ {Pick(s)}]
             F(s) == IF s = {} THEN 0
                     ELSE RemainingQty(order[Pick(s)].qty, ExecutedSeen(c, Pick(s)))
                              + it[s \ {Pick(s)}]
  <2> HIDE DEF f
  <2>2. \A s \in SUBSET S : E(s) = F(s)
    BY <2>1
  <2> HIDE DEF E, F
  <2>3. [s \in SUBSET S |-> E(s)] = [s \in SUBSET S |-> F(s)]
    BY <2>2
  <2> QED
    BY <2>3 DEF E, F, IsSums
<1>2. PICK jt : IsSums(f, S, jt)
  BY <1>0, SumsExist
<1>3. Adds(jt)
  BY <1>1, <1>2
<1>4. Adds(FillableSums(c, S))
  BY <1>3 DEF FillableSums
<1>5. IsSums(f, S, FillableSums(c, S))
  BY <1>1, <1>4
<1> HIDE DEF f
<1>6. Total(f, S) = FillableSums(c, S)[S]
  BY <1>0, <1>5, TotalIs
<1> QED
  BY <1>6 DEF f

\* A fill-or-kill order goes on only if the candidates have enough for it.
LEMMA CheckFokSerial ==
    ASSUME IInv, LockInv, SerialInv, NEW c \in Clients, CheckFok(c)
    PROVE  SubmitInv(c)' /\ CancelInv(c)' /\ FundsInv(c)' /\ req'[c].kind # "demo"
<1> DEFINE o == req[c].id
           makers == req[c].makers
<1>0. Submitting(c) /\ pc[c] = "fok"
  BY SubmitPhase DEF CheckFok
<1>1. /\ TypeOK /\ ClientInv(c) /\ LocksInv(c) /\ WaitingMakers(c) /\ UsedMakers(c)
      /\ LoopOver(c) /\ PassedAreFilled(c)
      /\ req[c] \in RequestType /\ o \in Ids
  BY <1>0, SubmissionAt
<1>2. /\ pc'[c] = "fill"
      /\ UNCHANGED <<order, status, executed, bal, req, dExec, dBal, dRefs, wStatus>>
  BY <1>1 DEF CheckFok, dbVars, TypeOK
<1>3. \A m \in Ids \ {o} : dExec[c][m] = 0 /\ wStatus[c][m] = "NONE"
  BY <1>0, <1>1 DEF UsedMakers
<1>4. /\ \A m : Candidate(c, m)' <=> Candidate(c, m)
      /\ \A m, n : Before(m, n)' <=> Before(m, n)
  BY <1>2, CandidatesStay
<1>5. \A m : ExecutedSeen(c, m)' = ExecutedSeen(c, m)
  BY <1>2 DEF ExecutedSeen
<1>6. ~Settling(c) /\ ~Settling(c)'
  BY <1>0, <1>2 DEF Settling
<1>7. WaitingMakers(c)' /\ UsedMakers(c)' /\ SyncedMaker(c)' /\ LoopOver(c)'
  BY <1>0, <1>1, <1>2, <1>3, <1>4, <1>6 DEF WaitingMakers, UsedMakers, SyncedMaker, LoopOver
<1>8. PassedAreFilled(c)'
  BY <1>0, <1>1, <1>2, <1>4, <1>5 DEF PassedAreFilled
<1>9. Fillable(c)'
  <2>1. ~(FillableQty(c, makers) < order[o].qty) /\ req[c].remaining = order[o].qty
    BY <1>0, <1>1 DEF CheckFok, Throws, ClientInv, MatchingInv
  <2>2. makers \in SUBSET Ids /\ IsFiniteSet(makers)
    BY <1>1, IdsAreFinite, FS_Subset DEF RequestType
  <2>3. {m \in makers : CanReceiveFills(StatusSeen(c, m))} = makers
    BY <1>1 DEF WaitingMakers, Candidate, StatusSeen, CanReceiveFills, Resting
  <2>4. FillableQty(c, makers) = FillableSums(c, makers)[makers]
    BY <2>3 DEF FillableQty, MapThenSumSet, MapThenFoldSet, FillableSums, Pick
  <2>5. FillableQty(c, makers) = Total(Left(c), makers)
    BY <2>2, <2>4, FillableAdds
  <2>6. Total(Left(c), makers) \in Int
    <3>1. \A m \in makers : Left(c)[m] \in Int
      <4> SUFFICES ASSUME NEW m \in makers PROVE Left(c)[m] \in Int
        OBVIOUS
      <4>1. order[m].qty \in Int /\ ExecutedSeen(c, m) \in Int /\ m \in Ids
        BY <1>1, CandidateIsRow DEF WaitingMakers, SerialInv
      <4> QED
        BY <4>1 DEF Left, RemainingQty
    <3> QED
      BY <2>2, <3>1, TotalIsInt
  <2>7. order[o].qty \in Int
    BY <1>0, Taker
  <2>8. req[c].remaining =< Total(Left(c), makers)
    BY <2>1, <2>5, <2>6, <2>7
  <2>9. Left(c)' = Left(c)
    BY <1>2, <1>5 DEF Left
  <2> QED
    BY <1>2, <2>8, <2>9 DEF Fillable
<1>10. SubmitInv(c)'
  BY <1>7, <1>8, <1>9 DEF SubmitInv
<1> QED
  BY <1>0, <1>2, <1>10, QuietFunds DEF CancelInv, Submitting

\* The next candidate has something left, and is traded with.
LEMMA TradesWith ==
    ASSUME IInv, LockInv, SerialInv, NEW c \in Clients, FillMaker(c)
    PROVE  \E m \in req[c].makers :
        LET q == Lesser(req[c].remaining, order[m].qty - executed[m])
        IN  /\ IsFirst(m, req[c].makers)
            /\ q \in Nat /\ 0 < q /\ q =< req[c].remaining /\ executed[m] + q =< order[m].qty
            /\ q = req[c].remaining \/ executed[m] + q = order[m].qty
            /\ req'[c].kind = req[c].kind /\ req'[c].id = req[c].id
            /\ req'[c].makers = req[c].makers \ {m}
            /\ req'[c].remaining = req[c].remaining - q
            /\ {req'[c].buy, req'[c].sell} = {req[c].id, m}
            /\ order[req[c].id].side = "BUY" => req'[c].sell = m
            /\ order[req[c].id].side # "BUY" => req'[c].buy = m
            /\ pc'[c] = "settle"
            /\ \A o \in Ids : dExec'[c][o] = IF o \in {m, req[c].id} THEN dExec[c][o] + q
                                             ELSE dExec[c][o]
<1>0. Submitting(c) /\ pc[c] = "fill"
  BY SubmitPhase DEF FillMaker
<1>1. /\ TypeOK /\ ClientInv(c) /\ WaitingMakers(c) /\ req[c] \in RequestType
      /\ req[c].id \in Ids /\ BookInv
  BY <1>0, SubmissionAt
<1> DEFINE left(m) == RemainingQty(order[m].qty, ExecutedSeen(c, m))
           q(m) == Lesser(req[c].remaining, left(m))
           t == req[c].id
<1>2. PICK m \in req[c].makers :
          /\ IsFirst(m, req[c].makers)
          /\ IF CanReceiveFills(StatusSeen(c, m)) /\ left(m) > 0
             THEN /\ req' = [req EXCEPT
                                ![c].makers = @ \ {m},
                                ![c].remaining = @ - q(m),
                                ![c].buy = IF order[req[c].id].side = "BUY"
                                           THEN req[c].id ELSE m,
                                ![c].sell = IF order[req[c].id].side = "BUY"
                                            THEN m ELSE req[c].id,
                                ![c].qty = q(m),
                                ![c].price = order[m].price]
                  /\ dExec' = [dExec EXCEPT ![c][m] = @ + q(m), ![c][t] = @ + q(m)]
                  /\ pc' = [pc EXCEPT ![c] = "settle"]
             ELSE /\ req' = [req EXCEPT ![c].makers = @ \ {m}]
                  /\ UNCHANGED <<pc, dExec>>
  BY DEF FillMaker
<1>3. /\ Candidate(c, m) /\ dExec[c][m] = 0 /\ wStatus[c][m] = "NONE"
  BY <1>1 DEF WaitingMakers
<1>4. /\ m \in Ids /\ m # t /\ order[m].qty \in Nat /\ executed[m] \in Nat
      /\ executed[m] < order[m].qty /\ ExecutedSeen(c, m) = executed[m] + dExec[c][m]
  BY <1>1, <1>3, CandidateIsRow
<1>5. left(m) = order[m].qty - executed[m]
  BY <1>3, <1>4 DEF RemainingQty
<1>6. CanReceiveFills(StatusSeen(c, m)) /\ left(m) > 0
  BY <1>3, <1>4, <1>5 DEF CanReceiveFills, StatusSeen, Candidate, Resting
<1>7. req[c].remaining \in Nat /\ req[c].remaining > 0
  BY <1>1 DEF RequestType, FillMaker
<1>8. /\ q(m) \in Nat /\ 0 < q(m) /\ q(m) =< req[c].remaining
      /\ executed[m] + q(m) =< order[m].qty
      /\ q(m) = req[c].remaining \/ executed[m] + q(m) = order[m].qty
      /\ q(m) = Lesser(req[c].remaining, order[m].qty - executed[m])
  BY <1>4, <1>5, <1>6, <1>7 DEF Lesser
<1>9. /\ req'[c].kind = req[c].kind /\ req'[c].id = req[c].id
      /\ req'[c].makers = req[c].makers \ {m}
      /\ req'[c].remaining = req[c].remaining - q(m)
      /\ {req'[c].buy, req'[c].sell} = {req[c].id, m}
      /\ order[req[c].id].side = "BUY" => req'[c].sell = m
      /\ order[req[c].id].side # "BUY" => req'[c].buy = m
      /\ pc'[c] = "settle"
  BY <1>1, <1>2, <1>6 DEF TypeOK, RequestType
<1>10. \A o \in Ids : dExec'[c][o] = IF o \in {m, t} THEN dExec[c][o] + q(m) ELSE dExec[c][o]
  <2>1. dExec' = [dExec EXCEPT ![c][m] = @ + q(m), ![c][t] = @ + q(m)]
    BY <1>2, <1>6
  <2> HIDE DEF q
  <2> QED
    BY <1>1, <1>4, <1>8, <2>1 DEF TypeOK
<1> HIDE DEF q
<1> QED
  BY <1>2, <1>8, <1>9, <1>10, ZenonT(60)

\* One turn of the loop: what it leaves behind is filled, or the taker is.
LEMMA FillMakerSerial ==
    ASSUME IInv, LockInv, SerialInv, NEW c \in Clients, FillMaker(c)
    PROVE  SubmitInv(c)' /\ CancelInv(c)' /\ FundsInv(c)' /\ req'[c].kind # "demo"
<1> DEFINE t == req[c].id
           makers == req[c].makers
<1>0. Submitting(c) /\ pc[c] = "fill"
  BY SubmitPhase DEF FillMaker
<1>1. /\ TypeOK /\ ClientInv(c) /\ WaitingMakers(c) /\ UsedMakers(c) /\ BookInv /\ RowsInv
      /\ PassedAreFilled(c) /\ LoopOver(c) /\ Fillable(c)
      /\ req[c] \in RequestType /\ t \in Ids
  BY <1>0, SubmissionAt
<1>2. PICK m \in makers :
        LET q == Lesser(req[c].remaining, order[m].qty - executed[m])
        IN  /\ IsFirst(m, makers)
            /\ q \in Nat /\ 0 < q /\ q =< req[c].remaining /\ executed[m] + q =< order[m].qty
            /\ q = req[c].remaining \/ executed[m] + q = order[m].qty
            /\ req'[c].kind = req[c].kind /\ req'[c].id = t
            /\ req'[c].makers = makers \ {m}
            /\ req'[c].remaining = req[c].remaining - q
            /\ {req'[c].buy, req'[c].sell} = {t, m}
            /\ order[t].side = "BUY" => req'[c].sell = m
            /\ order[t].side # "BUY" => req'[c].buy = m
            /\ pc'[c] = "settle"
            /\ \A o \in Ids : dExec'[c][o] = IF o \in {m, t} THEN dExec[c][o] + q
                                             ELSE dExec[c][o]
  BY TradesWith
<1> DEFINE q == Lesser(req[c].remaining, order[m].qty - executed[m])
<1>3. /\ IsFirst(m, makers)
      /\ q \in Nat /\ 0 < q /\ q =< req[c].remaining /\ executed[m] + q =< order[m].qty
      /\ q = req[c].remaining \/ executed[m] + q = order[m].qty
      /\ req'[c].remaining = req[c].remaining - q
      /\ \A o \in Ids : dExec'[c][o] = IF o \in {m, t} THEN dExec[c][o] + q ELSE dExec[c][o]
  BY <1>2
<1>4. /\ req'[c].kind = req[c].kind /\ req'[c].id = t
      /\ req'[c].makers = makers \ {m} /\ pc'[c] = "settle"
      /\ order[t].side = "BUY" => req'[c].sell = m
      /\ order[t].side # "BUY" => req'[c].buy = m
  BY <1>2
<1> HIDE DEF q
<1>5. UNCHANGED <<order, status, executed, bal, dBal, dRefs, wStatus>>
  BY DEF FillMaker, dbVars
<1>6. /\ Candidate(c, m) /\ dExec[c][m] = 0 /\ wStatus[c][m] = "NONE"
      /\ m \in Ids /\ m # t /\ executed[m] \in Nat /\ order[m].qty \in Nat
      /\ order[m] \in OrderRow
  BY <1>1, CandidateIsRow DEF WaitingMakers
<1>7. /\ \A n : Candidate(c, n)' <=> Candidate(c, n)
      /\ \A n, p : Before(n, p)' <=> Before(n, p)
  BY <1>4, <1>5, CandidatesStay
<1>8. dExec'[c][m] = q /\ ExecutedSeen(c, m)' = executed[m] + q
  BY <1>3, <1>5, <1>6 DEF ExecutedSeen
<1>9. \A n \in Ids \ {m, t} : /\ dExec'[c][n] = dExec[c][n]
                              /\ ExecutedSeen(c, n)' = ExecutedSeen(c, n)
                              /\ Fills(c, n)' = Fills(c, n)
  BY <1>3, <1>5 DEF ExecutedSeen, Fills
<1>10. Maker(c)' = m /\ Settling(c)' /\ ~Settling(c)
  BY <1>0, <1>4, <1>5 DEF Maker, Settling
<1>11. \A n \in makers : n \in Ids \ {t}
  BY <1>1 DEF WaitingMakers, Candidate
<1>12. WaitingMakers(c)'
  BY <1>1, <1>4, <1>5, <1>7, <1>9, <1>11 DEF WaitingMakers
<1>13. UsedMakers(c)'
  <2> SUFFICES ASSUME NEW n \in Ids \ {t}
               PROVE  /\ dExec'[c][n] > 0 \/ wStatus[c][n] # "NONE" =>
                             /\ Candidate(c, n)
                             /\ ExecutedSeen(c, n)' =< order[n].qty
                             /\ dExec'[c][n] > 0
                      /\ wStatus[c][n] # "NONE" => wStatus[c][n] = Fills(c, n)'
                      /\ dExec'[c][n] > 0 /\ wStatus[c][n] = "NONE" => n = m
    BY <1>4, <1>5, <1>7, <1>10 DEF UsedMakers
  <2>1. CASE n = m
    BY <1>3, <1>6, <1>8, <2>1
  <2>2. CASE n # m
    BY <1>1, <1>9, <1>10, <2>2 DEF UsedMakers
  <2> QED
    BY <2>1, <2>2
<1>14. SyncedMaker(c)'
  BY <1>3, <1>4, <1>8, <1>10 DEF SyncedMaker
<1>15. PassedAreFilled(c)'
  <2>0. \A n \in Ids : Candidate(c, n) => order[n] \in OrderRow
    BY <1>1, CandidateIsRow
  <2> SUFFICES ASSUME NEW n \in Ids, Candidate(c, n)
               PROVE  /\ \/ n \in makers \ {m} \/ req'[c].remaining = 0
                         \/ ExecutedSeen(c, n)' = order[n].qty
                      /\ \A p \in Ids \ {t} : dExec'[c][p] > 0 /\ Before(n, p) =>
                             /\ n \notin makers \ {m}
                             /\ ExecutedSeen(c, n)' = order[n].qty
    BY <1>4, <1>5, <1>7 DEF PassedAreFilled
  <2>1. n # t /\ req[c].remaining \in Nat /\ req[c].remaining > 0
    BY <1>1 DEF Candidate, RequestType, FillMaker
  <2>2. /\ n \in makers \/ ExecutedSeen(c, n) = order[n].qty
        /\ \A p \in Ids \ {t} : dExec[c][p] > 0 /\ Before(n, p) =>
               n \notin makers /\ ExecutedSeen(c, n) = order[n].qty
    BY <1>0, <1>1, <2>1 DEF PassedAreFilled
  <2>3. CASE n = m
    <3>1. req'[c].remaining = 0 \/ ExecutedSeen(c, n)' = order[n].qty
      BY <1>3, <1>8, <2>1, <2>3
    <3>2. ~Before(m, m)
      BY <1>6, BeforeIsStrict
    <3>3. \A p \in Ids \ {t} : ~(dExec'[c][p] > 0 /\ Before(n, p))
      BY <1>9, <2>2, <2>3, <3>2
    <3> QED
      BY <3>1, <3>3
  <2>4. CASE n # m
    <3>1. ExecutedSeen(c, n)' = ExecutedSeen(c, n)
      BY <1>9, <2>1, <2>4
    <3>2. n \in makers => ~Before(n, m)
      <4>1. n \in makers => Before(m, n)
        BY <1>3, <2>4 DEF IsFirst
      <4>2. order[n].side = order[m].side
        BY <1>6 DEF Candidate
      <4> QED
        BY <1>6, <2>0, <4>1, <4>2, BeforeIsStrict
    <3> QED
      BY <1>9, <2>2, <2>4, <3>1, <3>2
  <2> QED
    BY <2>3, <2>4
<1>16. LoopOver(c)'
  <2>1. wStatus[c][t] # "CANCELLED"
    BY <1>0, <1>1 DEF ClientInv, MatchingInv, Unsynced, Implied, DeriveStatus
  <2> QED
    BY <1>1, <1>4, <1>5, <2>1 DEF LoopOver
<1>17. Fillable(c)'
  <2> SUFFICES ASSUME order[t].tif = "FOK"
               PROVE  req'[c].remaining =< Total(Left(c)', makers \ {m})
    BY <1>4, <1>5 DEF Fillable
  <2> DEFINE f == Left(c)
             g == Left(c)'
             rest == makers \ {m}
  <2>1. req[c].remaining =< Total(f, makers)
    BY <1>0, <1>1 DEF Fillable
  <2>2. /\ makers \in SUBSET Ids /\ IsFiniteSet(makers)
        /\ rest \in SUBSET Ids /\ IsFiniteSet(rest)
    BY <1>1, IdsAreFinite, FS_Subset DEF RequestType
  <2>3. ASSUME NEW n \in makers PROVE f[n] \in Nat
    <3>1. /\ n \in Ids /\ order[n].qty \in Nat /\ ExecutedSeen(c, n) \in Nat
      BY <1>1, CandidateIsRow DEF WaitingMakers
    <3> QED
      BY <3>1 DEF Left, RemainingQty
  <2>4. f[m] = order[m].qty - executed[m]
    <3>1. ExecutedSeen(c, m) = executed[m]
      BY <1>6 DEF ExecutedSeen
    <3>2. ~(executed[m] > order[m].qty)
      BY <1>3, <1>6
    <3> QED
      BY <1>6, <3>1, <3>2 DEF Left, RemainingQty
  <2>5. \A n \in rest : g[n] = f[n]
    BY <1>5, <1>9, <1>11 DEF Left
  <2> HIDE DEF f, g
  <2>6. Total(f, makers) = f[m] + Total(f, rest)
    BY <2>2, <2>3, TotalTakesOut
  <2>7. Total(g, rest) = Total(f, rest)
    BY <2>2, <2>5, TotalOfSame
  <2>8. Total(f, rest) \in Nat
    BY <2>2, <2>3, TotalIsNat
  <2>9. req[c].remaining \in Nat
    BY <1>1 DEF RequestType
  <2>10. req'[c].remaining =< Total(g, rest)
    BY <1>3, <1>6, <2>1, <2>4, <2>6, <2>7, <2>8, <2>9
  <2> QED
    BY <2>10 DEF g
<1>18. SubmitInv(c)'
  BY <1>12, <1>13, <1>14, <1>15, <1>16, <1>17 DEF SubmitInv
<1> QED
  BY <1>0, <1>4, <1>5, <1>18, QuietFunds DEF CancelInv, Submitting

\* Nobody but a submission settles.
LEMMA SettlingSubmits ==
    ASSUME IInv, SerialInv, NEW c \in Clients, Settling(c) \/ pc[c] \in {"residual", "reconcile"}
    PROVE  Submitting(c) /\ Settling(c)
<1>1. req[c].kind \in Kinds /\ PhaseInv(c) /\ req[c].kind # "demo"
  BY RequestIsTyped DEF IInv, ClientInv, SerialInv
<1> QED
  BY <1>1 DEF PhaseInv, Kinds, Settling, Submitting

\* A settlement only adds to the accounts that can be spent from.
LEMMA SettlementAdds ==
    ASSUME IInv, LockInv, HeldInv, NEW c \in Clients, Submitting(c), SettleFill(c),
           NEW a \in Spendable
    PROVE  dBal[c][a] \in Int /\ dBal'[c][a] \in Int /\ dBal'[c][a] >= dBal[c][a]
<1> DEFINE buyer == order[req[c].buy]
           seller == order[req[c].sell]
           sellers == Available(seller.user, "quote")
           fee == QuoteFee(Gross(c), req[c].bps)
           quoteMoved == Move(dBal[c], HeldOf(buyer), sellers, Gross(c))
           feeTaken == Move(quoteMoved, sellers, FeeRevenue, fee)
           baseMoved == Move(feeTaken, HeldOf(seller),
                             Available(buyer.user, "base"), req[c].qty)
           better == PriceImprovement(buyer.price, req[c].price, req[c].qty)
           moved == Move(baseMoved, HeldOf(buyer), AvailableOf(buyer), better)
<1>0. TypeOK /\ req[c] \in RequestType /\ pc[c] = "settle"
  BY DEF IInv, TypeOK, SettleFill
<1>1. /\ buyer \in OrderRow /\ seller \in OrderRow
      /\ buyer.side = "BUY" /\ seller.side = "SELL"
  BY <1>0, FillPair
<1>2. /\ HeldOf(buyer) \in Account /\ AvailableOf(buyer) \in Account
      /\ HeldOf(seller) \in Account /\ sellers \in Account
      /\ Available(buyer.user, "base") \in Account /\ FeeRevenue \in Account
      /\ buyer.price \in Nat
  BY <1>1, RowColumns, HoldAccounts
<1>3. /\ a \in Account /\ a # HeldOf(buyer) /\ a # HeldOf(seller)
      /\ sellers # HeldOf(buyer) /\ sellers # FeeRevenue
  BY DEF Spendable, HeldOf, Held, Available, FeeRevenue
<1>4. req[c].qty \in Nat /\ req[c].price \in Nat /\ req[c].bps \in Nat
  BY RequestIsTyped
<1>5. Gross(c) \in Nat /\ Gross(c) \in Int /\ req[c].qty \in Int
  BY <1>4 DEF Gross
<1>6. fee \in Int /\ better \in Int
  BY <1>2, <1>4, <1>5, AmountsAreInt
<1>7. fee >= 0 /\ fee < Gross(c)
  <2>1. Gross(c) * req[c].bps \in Nat
    BY <1>4, <1>5
  <2>2. \A n \in Nat : n \div 10000 >= 0
    OBVIOUS
  <2>3. ~(fee >= Gross(c))
    BY <1>0 DEF SettleFill, Throws
  <2>4. fee >= 0
    BY <2>1, <2>2 DEF QuoteFee
  <2> HIDE DEF fee
  <2> QED
    BY <1>5, <1>6, <2>3, <2>4
<1>8. better >= 0
  <2>1. CASE req[c].price >= buyer.price
    BY <2>1 DEF PriceImprovement
  <2>2. CASE ~(req[c].price >= buyer.price)
    <3>1. (buyer.price - req[c].price) * req[c].qty >= 0
      <4>1. buyer.price - req[c].price \in Nat
        BY <1>2, <1>4, <2>2
      <4>2. \A m, n \in Nat : m * n >= 0
        OBVIOUS
      <4> QED
        BY <1>4, <4>1, <4>2
    <3> QED
      BY <2>2, <3>1 DEF PriceImprovement
  <2> QED
    BY <2>1, <2>2
<1>9. dBal[c] \in [Account -> Int] /\ dBal'[c] = moved
  BY <1>0 DEF TypeOK, SettleFill, Submitting
<1>10. dBal[c][a] \in Int
  BY <1>3, <1>9
<1>11. /\ quoteMoved \in [Account -> Int]
       /\ quoteMoved[a] = IF a = sellers THEN dBal[c][a] + Gross(c) ELSE dBal[c][a]
  <2> HIDE DEF buyer, seller, sellers
  <2>1. quoteMoved \in [Account -> Int]
    BY <1>2, <1>5, <1>9, MoveIsMoves
  <2>2. quoteMoved[a] = IF a = sellers THEN dBal[c][a] + Gross(c) ELSE dBal[c][a]
    BY <1>2, <1>3, <1>5, <1>9 DEF Move
  <2> QED
    BY <2>1, <2>2
<1>12. /\ feeTaken \in [Account -> Int]
       /\ feeTaken[a] = IF a = sellers THEN quoteMoved[a] - fee
                        ELSE IF a = FeeRevenue THEN quoteMoved[a] + fee ELSE quoteMoved[a]
  <2> HIDE DEF buyer, seller, sellers, quoteMoved, fee
  <2>1. feeTaken \in [Account -> Int]
    BY <1>2, <1>6, <1>11, MoveIsMoves
  <2>2. feeTaken[a] = IF a = sellers THEN quoteMoved[a] - fee
                      ELSE IF a = FeeRevenue THEN quoteMoved[a] + fee ELSE quoteMoved[a]
    BY <1>2, <1>3, <1>6, <1>11 DEF Move
  <2> QED
    BY <2>1, <2>2
<1>13. /\ baseMoved \in [Account -> Int]
       /\ baseMoved[a] = IF a = Available(buyer.user, "base") THEN feeTaken[a] + req[c].qty
                         ELSE feeTaken[a]
  <2> HIDE DEF buyer, seller, sellers, feeTaken
  <2>1. baseMoved \in [Account -> Int]
    BY <1>2, <1>5, <1>12, MoveIsMoves
  <2>2. baseMoved[a] = IF a = Available(buyer.user, "base") THEN feeTaken[a] + req[c].qty
                       ELSE feeTaken[a]
    BY <1>2, <1>3, <1>5, <1>12 DEF Move
  <2> QED
    BY <2>1, <2>2
<1>14. moved[a] = IF a = AvailableOf(buyer) THEN baseMoved[a] + better ELSE baseMoved[a]
  <2> HIDE DEF buyer, seller, sellers, baseMoved, better
  <2> QED
    BY <1>2, <1>3, <1>6, <1>13 DEF Move
<1> HIDE DEF buyer, seller, sellers, quoteMoved, feeTaken, baseMoved, moved, better, fee
<1>15. feeTaken[a] \in Int /\ feeTaken[a] >= dBal[c][a]
  BY <1>5, <1>6, <1>7, <1>10, <1>11, <1>12
<1>16. baseMoved[a] \in Int /\ baseMoved[a] >= dBal[c][a]
  BY <1>4, <1>10, <1>13, <1>15
<1>17. moved[a] \in Int /\ moved[a] >= dBal[c][a]
  BY <1>6, <1>8, <1>10, <1>14, <1>16
<1> QED
  BY <1>9, <1>10, <1>17

\* Settling a fill takes from the holds what it used, and no more than they have.
LEMMA SettleFillSerial ==
    ASSUME IInv, LockInv, HeldInv, SerialInv, NEW c \in Clients, SettleFill(c)
    PROVE  SubmitInv(c)' /\ CancelInv(c)' /\ FundsInv(c)' /\ req'[c].kind # "demo"
<1>0. Submitting(c) /\ Settling(c) /\ pc[c] = "settle"
  BY SettlingSubmits DEF SettleFill, Settling
<1>1. TypeOK /\ req[c] \in RequestType /\ SubmitInv(c) /\ FundsInv(c)
  BY <1>0, SubmissionAt DEF SerialInv
<1>2. /\ req' = [req EXCEPT ![c].sync = "BUY"] /\ pc'[c] = "syncRead"
      /\ UNCHANGED <<order, status, executed, bal, dExec, dRefs, wStatus>>
  BY <1>1 DEF SettleFill, dbVars, TypeOK
<1>3. /\ req'[c].kind = req[c].kind /\ req'[c].id = req[c].id
      /\ req'[c].makers = req[c].makers /\ req'[c].remaining = req[c].remaining
      /\ req'[c].buy = req[c].buy /\ req'[c].sell = req[c].sell /\ req'[c].sync = "BUY"
  BY <1>1, <1>2 DEF TypeOK, RequestType
<1>4. SubmitInv(c)'
  BY <1>0, <1>1, <1>2, <1>3, QuietSubmits DEF Settling
<1>5. FundsInv(c)'
  <2> SUFFICES ASSUME NEW a \in Spendable PROVE bal[a] + dBal'[c][a] >= 0
    BY <1>2 DEF FundsInv, BalanceSeen
  <2>1. dBal[c][a] \in Int /\ dBal'[c][a] \in Int /\ dBal'[c][a] >= dBal[c][a]
    BY <1>0, SettlementAdds
  <2>2. bal[a] \in Int /\ bal[a] + dBal[c][a] >= 0
    BY <1>1 DEF FundsInv, BalanceSeen, Spendable, TypeOK
  <2> QED
    BY <2>1, <2>2
<1> QED
  BY <1>0, <1>3, <1>4, <1>5 DEF CancelInv, Submitting

\* The two orders of a fill are the taker and its maker.
LEMMA TakerAndMaker ==
    ASSUME IInv, LockInv, NEW c \in Clients, Submitting(c), Settling(c)
    PROVE  /\ Maker(c) \in Ids \ {req[c].id} /\ {req[c].buy, req[c].sell} = {req[c].id, Maker(c)}
           /\ req[c].buy # req[c].sell
           /\ SyncedOrder(c) \in {req[c].id, Maker(c)}
           /\ req[c].sync = "BUY" => SyncedOrder(c) = req[c].buy
           /\ req[c].sync # "BUY" => SyncedOrder(c) = req[c].sell
<1>1. ClientInv(c) /\ LocksInv(c)
  BY DEF IInv, LockInv
<1>2. /\ req[c].id \in {req[c].buy, req[c].sell}
      /\ order[req[c].buy].side = "BUY" /\ order[req[c].sell].side = "SELL"
  BY <1>1 DEF ClientInv, MatchingInv, TargetsInv, Settling
<1>3. Maker(c) \in Ids /\ Maker(c) # req[c].id
  BY <1>1 DEF LocksInv, SubmitLocks, CurrentMaker
<1>4. {req[c].buy, req[c].sell} = {req[c].id, Maker(c)}
  BY <1>2, <1>3 DEF Maker
<1> QED
  BY <1>2, <1>3, <1>4 DEF SyncedOrder

\* Matching never cancels the taker's row before it gives up.
LEMMA TakerNotCancelled ==
    ASSUME IInv, LockInv, SerialInv, NEW c \in Clients, Submitting(c), pc[c] # "commit"
    PROVE  wStatus[c][req[c].id] # "CANCELLED" /\ dRefs[c] = {}
<1>1. ClientInv(c) /\ LoopOver(c) /\ pc[c] \in Steps /\ PhaseInv(c)
  BY SubmissionAt, RequestIsTyped DEF ClientInv
<1>2. Implied(c) # "CANCELLED"
  BY DEF Implied, DeriveStatus
<1>3. pc[c] \in {"match", "fok"} \/ pc[c] \in {"fill", "settle", "syncRead", "syncWrite", "cancelRest"}
  BY <1>1 DEF PhaseInv, Submitting
<1>4. wStatus[c][req[c].id] # "CANCELLED"
  BY <1>1, <1>2, <1>3 DEF ClientInv, MatchingInv, Resting
<1> QED
  BY <1>1, <1>4 DEF LoopOver

\* The status to write is derived from all that was traded.
LEMMA SyncReadSerial ==
    ASSUME IInv, LockInv, SerialInv, NEW c \in Clients, SyncRead(c)
    PROVE  SubmitInv(c)' /\ CancelInv(c)' /\ FundsInv(c)' /\ req'[c].kind # "demo"
<1> DEFINE m == SyncedOrder(c)
<1>0. Submitting(c) /\ Settling(c) /\ pc[c] = "syncRead"
  BY SettlingSubmits DEF SyncRead, Settling
<1>1. TypeOK /\ req[c] \in RequestType /\ SubmitInv(c) /\ UsedMakers(c) /\ SyncedMaker(c)
  BY <1>0, SubmissionAt DEF SerialInv
<1>2. /\ req' = [req EXCEPT ![c].next = DerivedSeen(c, m)] /\ pc'[c] = "syncWrite"
      /\ UNCHANGED <<order, status, executed, bal, dExec, dBal, dRefs, wStatus>>
  BY <1>1 DEF SyncRead, dbVars, TypeOK
<1>3. /\ req'[c].kind = req[c].kind /\ req'[c].id = req[c].id
      /\ req'[c].makers = req[c].makers /\ req'[c].remaining = req[c].remaining
      /\ req'[c].buy = req[c].buy /\ req'[c].sell = req[c].sell /\ req'[c].sync = req[c].sync
      /\ req'[c].next = DerivedSeen(c, m)
  BY <1>1, <1>2 DEF TypeOK, RequestType
<1>4. SyncedOrder(c)' = m
  BY <1>3 DEF SyncedOrder
<1>5. m # req[c].id => DerivedSeen(c, m) = Fills(c, m)
  <2> SUFFICES ASSUME m # req[c].id PROVE DerivedSeen(c, m) = Fills(c, m)
    OBVIOUS
  <2>1. m \in Ids \ {req[c].id} /\ dExec[c][m] > 0
    BY <1>0, <1>1, TakerAndMaker DEF SyncedMaker
  <2>2. status[m] \in Resting /\ (wStatus[c][m] = "NONE" \/ wStatus[c][m] = Fills(c, m))
    BY <1>1, <2>1 DEF UsedMakers, Candidate
  <2>3. CASE wStatus[c][m] = "NONE"
    BY <2>2, <2>3 DEF DerivedSeen, StatusSeen, Fills, DeriveStatus, Resting
  <2>4. CASE wStatus[c][m] = Fills(c, m) /\ wStatus[c][m] # "NONE"
    <3>1. StatusSeen(c, m) = Fills(c, m)
      BY <2>4 DEF StatusSeen
    <3>2. DeriveStatus(Fills(c, m), order[m].qty, ExecutedSeen(c, m)) = Fills(c, m)
      BY DEF Fills, DeriveStatus
    <3> QED
      BY <3>1, <3>2 DEF DerivedSeen
  <2> QED
    BY <2>2, <2>3, <2>4
<1>6. SubmitInv(c)'
  BY <1>0, <1>1, <1>2, <1>3, <1>4, <1>5, QuietSubmits DEF Settling
<1> QED
  BY <1>0, <1>2, <1>3, <1>6, QuietFunds DEF CancelInv, Submitting

\* It is written.
LEMMA SyncWriteSerial ==
    ASSUME IInv, LockInv, SerialInv, NEW c \in Clients, SyncWrite(c)
    PROVE  SubmitInv(c)' /\ CancelInv(c)' /\ FundsInv(c)' /\ req'[c].kind # "demo"
<1> DEFINE t == req[c].id
           s == SyncedOrder(c)
<1>0. Submitting(c) /\ Settling(c) /\ pc[c] = "syncWrite"
  BY SettlingSubmits DEF SyncWrite, Settling
<1>1. /\ TypeOK /\ req[c] \in RequestType /\ ClientInv(c)
      /\ WaitingMakers(c) /\ UsedMakers(c) /\ SyncedMaker(c)
      /\ PassedAreFilled(c) /\ LoopOver(c) /\ Fillable(c) /\ t \in Ids
  BY <1>0, SubmissionAt
<1>2. /\ req' = [req EXCEPT ![c].sync = Opposite(@), ![c].next = "NONE"]
      /\ pc'[c] = IF req[c].sync = "BUY" THEN "syncRead" ELSE "fill"
      /\ wStatus' = [wStatus EXCEPT ![c][s] = req[c].next]
      /\ UNCHANGED <<order, status, executed, bal, dExec, dBal, dRefs>>
  BY <1>0, <1>1 DEF SyncWrite, dbVars, TypeOK, Submitting
<1>3. /\ req'[c].kind = req[c].kind /\ req'[c].id = t
      /\ req'[c].makers = req[c].makers /\ req'[c].remaining = req[c].remaining
      /\ req'[c].buy = req[c].buy /\ req'[c].sell = req[c].sell
  BY <1>1, <1>2 DEF TypeOK, RequestType
<1>4. /\ Maker(c) \in Ids \ {t} /\ {req[c].buy, req[c].sell} = {t, Maker(c)}
      /\ req[c].buy # req[c].sell /\ s \in {t, Maker(c)}
      /\ req[c].sync = "BUY" => s = req[c].buy
      /\ req[c].sync # "BUY" => s = req[c].sell
  BY <1>0, TakerAndMaker
<1>5. \A o \in Ids : wStatus'[c][o] = IF o = s THEN req[c].next ELSE wStatus[c][o]
  BY <1>1, <1>2, <1>4 DEF TypeOK
<1>6. /\ \A m : Candidate(c, m)' <=> Candidate(c, m)
      /\ \A m, n : Before(m, n)' <=> Before(m, n)
  BY <1>2, <1>3, CandidatesStay
<1>7. \A m : ExecutedSeen(c, m)' = ExecutedSeen(c, m) /\ Fills(c, m)' = Fills(c, m)
  BY <1>2 DEF ExecutedSeen, Fills
<1>8. Maker(c)' = Maker(c) /\ (Settling(c)' <=> req[c].sync = "BUY")
  BY <1>2, <1>3 DEF Maker, Settling
<1>9. dExec[c][Maker(c)] > 0 /\ (s # t => req[c].next = Fills(c, s))
  BY <1>0, <1>1 DEF SyncedMaker
<1>10. WaitingMakers(c)'
  <2>1. \A m \in req[c].makers : m \in Ids /\ m # t /\ m # Maker(c)
    BY <1>1, <1>9 DEF WaitingMakers, Candidate
  <2> QED
    BY <1>1, <1>2, <1>3, <1>4, <1>5, <1>6, <2>1 DEF WaitingMakers
<1>11. UsedMakers(c)'
  <2> SUFFICES ASSUME NEW n \in Ids \ {t}
               PROVE  /\ dExec[c][n] > 0 \/ wStatus'[c][n] # "NONE" =>
                             /\ Candidate(c, n)
                             /\ ExecutedSeen(c, n) =< order[n].qty
                             /\ dExec[c][n] > 0
                      /\ wStatus'[c][n] # "NONE" => wStatus'[c][n] = Fills(c, n)
                      /\ dExec[c][n] > 0 /\ wStatus'[c][n] = "NONE" =>
                             req[c].sync = "BUY" /\ n = Maker(c) /\ n = req[c].sell
    BY <1>2, <1>3, <1>6, <1>7, <1>8 DEF UsedMakers
  <2>1. /\ dExec[c][n] > 0 \/ wStatus[c][n] # "NONE" =>
               /\ Candidate(c, n)
               /\ ExecutedSeen(c, n) =< order[n].qty
               /\ dExec[c][n] > 0
        /\ wStatus[c][n] # "NONE" => wStatus[c][n] = Fills(c, n)
        /\ dExec[c][n] > 0 /\ wStatus[c][n] = "NONE" =>
               n = Maker(c) /\ (req[c].sync = "BUY" \/ n = req[c].sell)
    BY <1>0, <1>1 DEF UsedMakers
  <2>2. CASE n = s
    <3>1. wStatus'[c][n] = Fills(c, n) /\ n = Maker(c)
      BY <1>4, <1>5, <1>9, <2>2
    <3>2. Fills(c, n) # "NONE"
      BY DEF Fills, DeriveStatus
    <3> QED
      BY <1>9, <2>1, <3>1, <3>2
  <2>3. CASE n # s
    <3>1. wStatus'[c][n] = wStatus[c][n]
      BY <1>5, <2>3
    <3> QED
      BY <1>4, <2>1, <2>3, <3>1
  <2> QED
    BY <2>2, <2>3
<1>12. SyncedMaker(c)'
  BY <1>2, <1>8, <1>9 DEF SyncedMaker
<1>13. PassedAreFilled(c)'
  BY <1>0, <1>1, <1>2, <1>3, <1>6, <1>7 DEF PassedAreFilled
<1>14. LoopOver(c)'
  <2>1. wStatus[c][t] # "CANCELLED" /\ dRefs[c] = {}
    BY <1>0, TakerNotCancelled
  <2>2. s = t => req[c].next = Implied(c)
    BY <1>0, <1>1 DEF ClientInv, MatchingInv
  <2>3. Implied(c) # "CANCELLED"
    BY DEF Implied, DeriveStatus
  <2>4. wStatus'[c][t] # "CANCELLED"
    BY <1>1, <1>5, <2>1, <2>2, <2>3
  <2> QED
    BY <1>2, <1>3, <2>1, <2>4 DEF LoopOver
<1>15. Fillable(c)'
  <2>1. Left(c)' = Left(c)
    BY <1>2, <1>7 DEF Left
  <2> QED
    BY <1>0, <1>1, <1>2, <1>3, <2>1 DEF Fillable
<1>16. SubmitInv(c)'
  BY <1>10, <1>11, <1>12, <1>13, <1>14, <1>15 DEF SubmitInv
<1> QED
  BY <1>0, <1>2, <1>3, <1>16, QuietFunds DEF CancelInv, Submitting

\* The loop is left when nothing is wanted or nobody crosses.
LEMMA LeaveLoopSerial ==
    ASSUME IInv, LockInv, SerialInv, NEW c \in Clients, LeaveLoop(c)
    PROVE  SubmitInv(c)' /\ CancelInv(c)' /\ FundsInv(c)' /\ req'[c].kind # "demo"
<1>0. Submitting(c) /\ pc[c] = "fill"
  BY SubmitPhase DEF LeaveLoop
<1>1. TypeOK /\ SubmitInv(c) /\ req[c].remaining \in Nat
  BY <1>0, SubmissionAt, RequestIsTyped DEF SerialInv
<1>2. /\ pc'[c] \in {"cancelRest", "commit"}
      /\ pc'[c] = "cancelRest" => req[c].remaining > 0
      /\ req[c].remaining = 0 \/ req[c].makers = {}
      /\ UNCHANGED <<order, status, executed, bal, req, dExec, dBal, dRefs, wStatus>>
  BY <1>1 DEF LeaveLoop, dbVars, TypeOK
<1>3. ~Settling(c) /\ ~Settling(c)' /\ pc'[c] # "syncWrite"
  BY <1>0, <1>2 DEF Settling
<1>4. SubmitInv(c)'
  BY <1>0, <1>1, <1>2, <1>3, QuietSubmits
<1> QED
  BY <1>0, <1>2, <1>4, QuietFunds DEF CancelInv, Submitting

\* A release only adds to the accounts that can be spent from.
LEMMA ReleaseAdds ==
    ASSUME SerialInv, TypeOK, NEW c \in Clients, NEW row \in OrderRow, NEW amount \in Nat,
           UNCHANGED bal, dBal'[c] = Move(dBal[c], HeldOf(row), AvailableOf(row), amount)
    PROVE  FundsInv(c)'
<1> SUFFICES ASSUME NEW a \in Spendable PROVE bal[a] + dBal'[c][a] >= 0
  BY DEF FundsInv, BalanceSeen
<1>1. /\ a \in Account /\ a # HeldOf(row) /\ bal[a] \in Int /\ bal[a] + dBal[c][a] >= 0
      /\ dBal[c] \in [Account -> Int] /\ HeldOf(row) # AvailableOf(row)
      /\ AvailableOf(row) \in Account
  <2>1. a \in Account /\ a[3] # "HELD" /\ bal[a] + dBal[c][a] >= 0
    BY DEF SerialInv, FundsInv, BalanceSeen, Spendable
  <2>2. HeldOf(row)[3] = "HELD" /\ AvailableOf(row)[3] = "AVAILABLE"
    BY DEF HeldOf, Held, AvailableOf, Available
  <2>3. bal[a] \in Int /\ dBal[c] \in [Account -> Int]
    BY <2>1 DEF TypeOK
  <2>4. AvailableOf(row) \in Account
    BY RowColumns
  <2> QED
    BY <2>1, <2>2, <2>3, <2>4
<1>2. dBal'[c][a] = IF a = AvailableOf(row) THEN dBal[c][a] + amount ELSE dBal[c][a]
  BY <1>1 DEF Move
<1>3. dBal[c][a] \in Int
  BY <1>1
<1> QED
  BY <1>1, <1>2, <1>3

\* The rest that may not stay is released and cancelled.
LEMMA CancelRestSerial ==
    ASSUME IInv, LockInv, SerialInv, NEW c \in Clients, CancelRest(c)
    PROVE  SubmitInv(c)' /\ CancelInv(c)' /\ FundsInv(c)' /\ req'[c].kind # "demo"
<1> DEFINE t == req[c].id
           row == order[t]
<1>0. Submitting(c) /\ pc[c] = "cancelRest"
  BY SubmitPhase DEF CancelRest
<1>1. /\ TypeOK /\ req[c] \in RequestType
      /\ WaitingMakers(c) /\ UsedMakers(c) /\ SyncedMaker(c)
      /\ PassedAreFilled(c) /\ LoopOver(c) /\ Fillable(c) /\ t \in Ids
  BY <1>0, SubmissionAt
<1>2. /\ dBal'[c] = Move(dBal[c], HeldOf(row), AvailableOf(row), HoldOf(row, req[c].remaining))
      /\ dRefs'[c] = dRefs[c] \cup {<<t, "CANCEL_RELEASE">>}
      /\ wStatus' = [wStatus EXCEPT ![c][t] = "CANCELLED"]
      /\ pc'[c] = "commit"
      /\ UNCHANGED <<order, status, executed, bal, req, dExec>>
  BY <1>1 DEF CancelRest, dbVars, TypeOK
<1>3. \A o \in Ids : wStatus'[c][o] = IF o = t THEN "CANCELLED" ELSE wStatus[c][o]
  BY <1>1, <1>2 DEF TypeOK
<1>4. /\ \A m : Candidate(c, m)' <=> Candidate(c, m)
      /\ \A m, n : Before(m, n)' <=> Before(m, n)
  BY <1>2, CandidatesStay
<1>5. \A m : ExecutedSeen(c, m)' = ExecutedSeen(c, m) /\ Fills(c, m)' = Fills(c, m)
  BY <1>2 DEF ExecutedSeen, Fills
<1>6. ~Settling(c) /\ ~Settling(c)'
  BY <1>0, <1>2 DEF Settling
<1>7. WaitingMakers(c)'
  BY <1>1, <1>2, <1>3, <1>4 DEF WaitingMakers, Candidate
<1>8. UsedMakers(c)' /\ SyncedMaker(c)'
  BY <1>0, <1>1, <1>2, <1>3, <1>4, <1>5, <1>6 DEF UsedMakers, SyncedMaker
<1>9. PassedAreFilled(c)'
  BY <1>0, <1>1, <1>2, <1>4, <1>5 DEF PassedAreFilled
<1>10. LoopOver(c)'
  <2>1. dRefs[c] = {}
    BY <1>0, TakerNotCancelled
  <2> QED
    BY <1>0, <1>1, <1>2, <1>3, <2>1 DEF LoopOver
<1>11. Fillable(c)'
  <2>1. Left(c)' = Left(c)
    BY <1>2, <1>5 DEF Left
  <2> QED
    BY <1>0, <1>1, <1>2, <2>1 DEF Fillable
<1>12. SubmitInv(c)'
  BY <1>7, <1>8, <1>9, <1>10, <1>11 DEF SubmitInv
<1>13. FundsInv(c)'
  BY <1>0, <1>1, <1>2, Taker, HoldIsNat, ReleaseAdds
<1> QED
  BY <1>0, <1>2, <1>12, <1>13 DEF CancelInv, Submitting

\* A placement changes nothing that is committed, and begins its own matching.
LEMMA PlaceSerial ==
    ASSUME IInv, HeldInv, SerialInv, NEW c \in Clients, NEW row \in OrderRow, NEW bps \in FeeBps,
           Place(c, row, bps)
    PROVE  /\ BookInv' /\ CommittedFunds' /\ HeldAreLive' /\ BookUncrossed'
           /\ SubmitInv(c)' /\ CancelInv(c)' /\ FundsInv(c)' /\ req'[c].kind # "demo"
<1>0. TypeOK /\ RowsInv /\ pc[c] = "idle" /\ nextId \in Ids
  BY DEF IInv, Place
<1>1. /\ req[c].kind = "none" /\ dExec[c] = NoExec /\ dBal[c] = NoMoves
      /\ dRefs[c] = {} /\ wStatus[c] = NoWrites
  BY <1>0, IdleHasNone DEF HeldInv, IdleInv
<1>2. /\ order' = [order EXCEPT ![nextId] = row]
      /\ UNCHANGED <<status, executed, bal, refs, dExec, dRefs>>
      /\ pc'[c] = "match"
      /\ req'[c] = [NoRequest EXCEPT !.kind = "submit", !.id = nextId, !.bps = bps]
      /\ dBal'[c] = Move(dBal[c], AvailableOf(row), HeldOf(row), HoldOf(row, row.qty))
      /\ wStatus'[c] = [wStatus[c] EXCEPT ![nextId] = "OPEN"]
      /\ BalanceSeen(c, AvailableOf(row)) >= HoldOf(row, row.qty)
  BY <1>0 DEF Place, dbVars, TypeOK
<1>3. \A o \in Ids : status[o] # "NONE" => o # nextId /\ order'[o] = order[o]
  BY <1>0, <1>2 DEF RowsInv, TypeOK
<1>4. BookInv' /\ CommittedFunds'
  BY <1>2, <1>3 DEF SerialInv, BookInv, CommittedFunds
<1>5. HeldAreLive'
  <2>1. ASSUME NEW u, NEW side, NEW o \in Ids
        PROVE  LiveShares(u, side)'[o] = LiveShares(u, side)[o]
    BY <1>2, <1>3 DEF LiveShares, OrderOf, HoldOf, Resting
  <2>2. ASSUME NEW u, NEW side
        PROVE  LiveShares(u, side)' = LiveShares(u, side)
    BY <2>1 DEF LiveShares
  <2> QED
    BY <1>2, <2>2 DEF SerialInv, HeldAreLive
<1>6. BookUncrossed'
  BY <1>2, <1>3 DEF SerialInv, BookUncrossed, Live, Resting
<1>7. /\ req'[c].kind = "submit" /\ req'[c].id = nextId /\ req'[c].makers = {}
  BY <1>2, NoRequestIsTyped DEF NoRequest
<1>8. \A m \in Ids : /\ dExec'[c][m] = 0
                     /\ wStatus'[c][m] = IF m = nextId THEN "OPEN" ELSE "NONE"
  BY <1>0, <1>1, <1>2 DEF NoExec, NoWrites, TypeOK
<1>9. SubmitInv(c)'
  <2>1. WaitingMakers(c)' /\ UsedMakers(c)'
    BY <1>7, <1>8 DEF WaitingMakers, UsedMakers
  <2>2. SyncedMaker(c)' /\ PassedAreFilled(c)' /\ Fillable(c)'
    BY <1>2 DEF SyncedMaker, PassedAreFilled, Fillable, Settling
  <2>3. LoopOver(c)'
    BY <1>0, <1>1, <1>2, <1>7, <1>8 DEF LoopOver
  <2> QED
    BY <2>1, <2>2, <2>3 DEF SubmitInv
<1>10. FundsInv(c)'
  <2> SUFFICES ASSUME NEW a \in Spendable PROVE bal[a] + dBal'[c][a] >= 0
    BY <1>2 DEF FundsInv, BalanceSeen
  <2>1. a \in Account /\ a[3] # "HELD" /\ bal[a] + dBal[c][a] >= 0
    BY DEF SerialInv, FundsInv, BalanceSeen, Spendable
  <2>2. HeldOf(row)[3] = "HELD" /\ AvailableOf(row)[3] = "AVAILABLE"
    BY DEF HeldOf, Held, AvailableOf, Available
  <2>3. bal[a] \in Int /\ dBal[c] \in [Account -> Int] /\ dBal[c][a] \in Int
    BY <1>0, <2>1 DEF TypeOK
  <2>4. dBal'[c][a] = IF a = AvailableOf(row) THEN dBal[c][a] - HoldOf(row, row.qty)
                      ELSE dBal[c][a]
    BY <1>2, <2>1, <2>2, <2>3, RowColumns DEF Move
  <2>5. bal[AvailableOf(row)] + dBal[c][AvailableOf(row)] >= HoldOf(row, row.qty)
    BY <1>2 DEF BalanceSeen
  <2>6. HoldOf(row, row.qty) \in Nat
    BY RowColumns, HoldIsNat
  <2> QED
    BY <2>1, <2>3, <2>4, <2>5, <2>6
<1> QED
  BY <1>4, <1>5, <1>6, <1>7, <1>9, <1>10 DEF CancelInv

\* A cancel reads an order as it stays until it is written.
LEMMA ReadCancelSerial ==
    ASSUME IInv, HeldInv, SerialInv, NEW c \in Clients, NEW o \in Ids, ReadCancel(c, o)
    PROVE  SubmitInv(c)' /\ CancelInv(c)' /\ FundsInv(c)' /\ req'[c].kind # "demo"
<1>0. TypeOK /\ RowsInv /\ BookInv /\ pc[c] = "idle" /\ status[o] # "NONE"
  BY DEF IInv, SerialInv, ReadCancel
<1>1. /\ dExec[c] = NoExec /\ dBal[c] = NoMoves /\ dRefs[c] = {} /\ wStatus[c] = NoWrites
  BY <1>0, IdleHasNone DEF HeldInv, IdleInv
<1>2. /\ UNCHANGED <<order, status, executed, bal, refs, dExec, dBal, dRefs, wStatus>>
      /\ pc'[c] = "releaseHold"
      /\ req'[c] = [NoRequest EXCEPT !.kind = "cancel", !.id = o,
                                     !.remaining = RemainingQty(order[o].qty, executed[o])]
      /\ CanCancel(status[o]) /\ executed[o] < order[o].qty
  BY <1>0 DEF ReadCancel, dbVars, TypeOK
<1>3. /\ req'[c].kind = "cancel" /\ req'[c].id = o
      /\ req'[c].remaining = RemainingQty(order[o].qty, executed[o])
  BY <1>2, NoRequestIsTyped DEF NoRequest
<1>4. order[o] \in OrderRow /\ order[o].qty \in Nat /\ executed[o] \in Nat
  BY <1>0, RowColumns DEF RowsInv, TypeOK
<1>5. req'[c].remaining + executed[o] = order[o].qty /\ req'[c].remaining > 0
  BY <1>2, <1>3, <1>4 DEF RemainingQty
<1>6. status[o] \in Resting
  BY <1>0, <1>2 DEF CanCancel, IsValidTransition, ValidTransitions, Resting, TypeOK, Status
<1>7. \A p \in Ids : wStatus'[c][p] = "NONE"
  BY <1>1, <1>2 DEF NoWrites
<1>8. CancelInv(c)'
  BY <1>1, <1>2, <1>3, <1>5, <1>6, <1>7 DEF CancelInv
<1> QED
  BY <1>2, <1>3, <1>8, QuietFunds DEF SubmitInv, Submitting

\* It releases what the order still reserves.
LEMMA ReleaseHoldSerial ==
    ASSUME IInv, SerialInv, NEW c \in Clients, ReleaseHold(c)
    PROVE  SubmitInv(c)' /\ CancelInv(c)' /\ FundsInv(c)' /\ req'[c].kind # "demo"
<1> DEFINE o == req[c].id
           row == order[o]
           hold == HoldOf(row, req[c].remaining)
<1>0. TypeOK /\ RowsInv /\ BookInv /\ pc[c] = "releaseHold" /\ req[c].kind = "cancel"
  <2>1. ClientInv(c) /\ req[c].kind \in Kinds
    BY RequestIsTyped DEF IInv
  <2> QED
    BY <2>1 DEF IInv, SerialInv, ReleaseHold, ClientInv, PhaseInv, Kinds
<1>1. /\ o \in Ids /\ status[o] \in Resting
      /\ req[c].remaining + executed[o] = row.qty /\ req[c].remaining > 0
      /\ dExec[c] = NoExec /\ dBal[c] = NoMoves /\ dRefs[c] = {}
      /\ \A p \in Ids : wStatus[c][p] = "NONE"
  BY <1>0 DEF SerialInv, CancelInv
<1>2. ~RefSeen(c, <<o, "CANCEL_RELEASE">>)
  BY <1>0, <1>1 DEF BookInv, RefSeen, Resting
<1>3. /\ UNCHANGED <<order, status, executed, bal, refs, req, dExec, wStatus>>
      /\ pc'[c] = "cancelWrite"
      /\ dBal'[c] = Move(NoMoves, HeldOf(row), AvailableOf(row), hold)
      /\ dRefs'[c] = {<<o, "CANCEL_RELEASE">>}
  BY <1>0, <1>1, <1>2 DEF ReleaseHold, dbVars, TypeOK
<1>4. CancelInv(c)'
  BY <1>0, <1>1, <1>3 DEF CancelInv
<1>5. row \in OrderRow /\ hold \in Nat
  BY <1>0, <1>1, RequestIsTyped, HoldIsNat DEF RowsInv, Resting
<1>6. FundsInv(c)'
  BY <1>0, <1>1, <1>3, <1>5, ReleaseAdds
<1> QED
  BY <1>0, <1>3, <1>4, <1>6 DEF SubmitInv, Submitting

\* And writes the status that goes with it.
LEMMA CancelWriteSerial ==
    ASSUME IInv, SerialInv, NEW c \in Clients, CancelWrite(c)
    PROVE  SubmitInv(c)' /\ CancelInv(c)' /\ FundsInv(c)' /\ req'[c].kind # "demo"
<1> DEFINE o == req[c].id
<1>0. TypeOK /\ pc[c] = "cancelWrite" /\ req[c].kind = "cancel"
  <2>1. ClientInv(c) /\ req[c].kind \in Kinds
    BY RequestIsTyped DEF IInv
  <2> QED
    BY <2>1 DEF IInv, CancelWrite, ClientInv, PhaseInv, Kinds
<1>1. /\ o \in Ids /\ \A p \in Ids : wStatus[c][p] = "NONE"
  BY <1>0 DEF SerialInv, CancelInv
<1>2. /\ UNCHANGED <<order, status, executed, bal, refs, req, dExec, dBal, dRefs>>
      /\ pc'[c] = "commit" /\ wStatus'[c] = [wStatus[c] EXCEPT ![o] = "CANCELLED"]
  BY <1>0 DEF CancelWrite, dbVars, TypeOK
<1>3. \A p \in Ids : wStatus'[c][p] = IF p = o THEN "CANCELLED" ELSE "NONE"
  BY <1>0, <1>1, <1>2 DEF TypeOK
<1>4. CancelInv(c)'
  BY <1>0, <1>1, <1>2, <1>3 DEF SerialInv, CancelInv
<1> QED
  BY <1>0, <1>2, <1>4, QuietFunds DEF SubmitInv, Submitting

\* What the commit of a submission makes of the rows: its own order, and the makers
\* it has traded with; nothing else changes.
LEMMA CommittedRows ==
    ASSUME IInv, LockInv, HeldInv, SerialInv, NEW c \in Clients, Submitting(c), Commit(c)
    PROVE  LET t == req[c].id IN
           /\ UNCHANGED order
           /\ t \in Ids /\ status[t] = "NONE" /\ executed[t] = 0
           /\ order[t] \in OrderRow /\ order[t].qty \in Nat \ {0}
           /\ executed'[t] + req[c].remaining = order[t].qty /\ req[c].remaining \in Nat
           /\ executed'[t] \in Nat
           /\ \/ status'[t] = DeriveStatus("OPEN", order[t].qty, executed'[t])
              \/ status'[t] = "CANCELLED" /\ req[c].remaining > 0
           /\ <<t, "CANCEL_RELEASE">> \in dRefs[c] => status'[t] = "CANCELLED"
           /\ \A o \in Ids \ {t} :
                  \/ status'[o] = status[o] /\ executed'[o] = executed[o]
                  \/ /\ Candidate(c, o) /\ executed'[o] \in Nat
                     /\ executed[o] =< executed'[o] /\ executed'[o] =< order[o].qty
                     /\ status'[o] = DeriveStatus("OPEN", order[o].qty, executed'[o])
<1> DEFINE t == req[c].id
<1>0. /\ TypeOK /\ RowsInv /\ BookInv /\ ClientInv(c) /\ UsedMakers(c) /\ LoopOver(c)
      /\ FillInv(c) /\ t \in Ids
  BY SubmissionAt DEF HeldInv
<1>1. /\ pc[c] = "commit" /\ UNCHANGED order
      /\ \A o \in Ids : /\ status'[o] = StatusSeen(c, o)
                        /\ executed'[o] = executed[o] + dExec[c][o]
                        /\ executed'[o] = ExecutedSeen(c, o)
  BY DEF Commit, ExecutedSeen
<1>2. /\ status[t] = "NONE" /\ executed[t] = 0
      /\ order[t] \in OrderRow /\ order[t].qty \in Nat \ {0}
      /\ dExec[c][t] \in Nat /\ req[c].remaining \in Nat
  BY <1>0, Taker DEF ClientInv, OwnRowInv, RowsInv
<1>3. dExec[c][t] + req[c].remaining = order[t].qty /\ wStatus[c][t] \in {Implied(c), "CANCELLED"}
  BY <1>0, <1>1 DEF FillInv
<1>4. executed'[t] = dExec[c][t]
  BY <1>0, <1>1, <1>2
<1>5. wStatus[c][t] # "NONE"
  BY <1>3 DEF Implied, DeriveStatus
<1>6. status'[t] = wStatus[c][t]
  BY <1>0, <1>1, <1>5 DEF StatusSeen
<1>7. \/ status'[t] = DeriveStatus("OPEN", order[t].qty, executed'[t])
      \/ status'[t] = "CANCELLED" /\ req[c].remaining > 0
  BY <1>0, <1>3, <1>4, <1>6 DEF Implied, LoopOver
<1>8. <<t, "CANCEL_RELEASE">> \in dRefs[c] => status'[t] = "CANCELLED"
  BY <1>0, <1>6 DEF LoopOver
<1>9. ASSUME NEW o \in Ids \ {t}
      PROVE  \/ status'[o] = status[o] /\ executed'[o] = executed[o]
             \/ /\ Candidate(c, o) /\ executed'[o] \in Nat
                /\ executed[o] =< executed'[o] /\ executed'[o] =< order[o].qty
                /\ status'[o] = DeriveStatus("OPEN", order[o].qty, executed'[o])
  <2>1. dExec[c][o] \in Nat /\ executed[o] \in Nat
    BY <1>0 DEF TypeOK
  <2>2. CASE wStatus[c][o] = "NONE"
    <3>1. ~(dExec[c][o] > 0)
      BY <1>0, <1>1, <2>2 DEF UsedMakers, Settling
    <3> QED
      BY <1>1, <2>1, <2>2, <3>1 DEF StatusSeen
  <2>3. CASE wStatus[c][o] # "NONE"
    <3>1. Candidate(c, o) /\ ExecutedSeen(c, o) =< order[o].qty /\ wStatus[c][o] = Fills(c, o)
      BY <1>0, <2>3 DEF UsedMakers
    <3>2. status'[o] = DeriveStatus("OPEN", order[o].qty, executed'[o])
      BY <1>1, <2>3, <3>1 DEF StatusSeen, Fills
    <3>3. executed'[o] \in Nat /\ executed[o] =< executed'[o] /\ executed'[o] =< order[o].qty
      BY <1>1, <2>1, <3>1
    <3> QED
      BY <3>1, <3>2, <3>3
  <2> QED
    BY <2>2, <2>3
<1> QED
  BY <1>0, <1>1, <1>2, <1>3, <1>4, <1>7, <1>8, <1>9

\* What is committed of a submission is never overfilled, and agrees with its fills.
LEMMA CommitSubmissionBook ==
    ASSUME IInv, LockInv, HeldInv, SerialInv, NEW c \in Clients, Submitting(c), Commit(c)
    PROVE  BookInv'
<1> DEFINE t == req[c].id
<1>1. LoopOver(c) /\ BookInv /\ refs' = refs \cup dRefs[c] /\ UNCHANGED order
  BY SubmissionAt DEF Commit
<1>2. ASSUME NEW o \in Ids, status'[o] # "NONE"
      PROVE  /\ executed'[o] =< order[o].qty
             /\ \/ status'[o] = DeriveStatus("OPEN", order[o].qty, executed'[o])
                \/ status'[o] = "CANCELLED" /\ executed'[o] < order[o].qty
  <2>1. CASE o = t
    <3>1. /\ executed'[t] + req[c].remaining = order[t].qty /\ req[c].remaining \in Nat
          /\ executed'[t] \in Nat
          /\ \/ status'[t] = DeriveStatus("OPEN", order[t].qty, executed'[t])
             \/ status'[t] = "CANCELLED" /\ req[c].remaining > 0
      BY CommittedRows
    <3> QED
      BY <2>1, <3>1
  <2>2. CASE o # t
    <3>1. \/ status'[o] = status[o] /\ executed'[o] = executed[o]
          \/ /\ executed'[o] =< order[o].qty
             /\ status'[o] = DeriveStatus("OPEN", order[o].qty, executed'[o])
      BY <2>2, CommittedRows
    <3>2. status[o] # "NONE" =>
              /\ executed[o] =< order[o].qty
              /\ \/ status[o] = DeriveStatus("OPEN", order[o].qty, executed[o])
                 \/ status[o] = "CANCELLED" /\ executed[o] < order[o].qty
      BY <1>1 DEF BookInv
    <3>3. CASE status'[o] = status[o] /\ executed'[o] = executed[o]
      BY <1>2, <3>2, <3>3
    <3> QED
      BY <3>1, <3>3
  <2> QED
    BY <2>1, <2>2
<1>3. ASSUME NEW o \in Ids, <<o, "CANCEL_RELEASE">> \in refs'
      PROVE  status'[o] = "CANCELLED"
  <2>1. CASE <<o, "CANCEL_RELEASE">> \in refs
    <3>1. status[o] = "CANCELLED"
      BY <1>1, <2>1 DEF BookInv
    <3>2. o # t /\ ~Candidate(c, o)
      BY <3>1, CommittedRows DEF Candidate, Resting
    <3> QED
      BY <3>1, <3>2, CommittedRows
  <2>2. CASE <<o, "CANCEL_RELEASE">> \in dRefs[c]
    <3>1. o = t
      BY <1>1, <2>2 DEF LoopOver
    <3> QED
      BY <2>2, <3>1, CommittedRows
  <2> QED
    BY <1>1, <1>3, <2>1, <2>2
<1> QED
  BY <1>1, <1>2, <1>3 DEF BookInv

\* A submission that rests crosses nothing: whatever it crossed it has filled.
LEMMA CommitSubmissionUncrossed ==
    ASSUME IInv, LockInv, HeldInv, SerialInv, NEW c \in Clients, Submitting(c), Commit(c)
    PROVE  BookUncrossed'
<1> DEFINE t == req[c].id
<1>1. /\ PassedAreFilled(c) /\ LoopOver(c) /\ pc[c] = "commit" /\ UNCHANGED order
      /\ order[t].side \in Side /\ order[t].qty \in Nat /\ order[t].price \in Nat
  BY SubmissionAt, Taker, RowColumns DEF Commit
<1>2. \A o \in Ids \ {t} : status'[o] \in Resting => status[o] \in Resting
  BY CommittedRows DEF Candidate
<1>3. ASSUME status'[t] \in Resting
      PROVE  req[c].remaining # 0 /\ req[c].makers = {}
  <2>1. /\ executed'[t] + req[c].remaining = order[t].qty /\ req[c].remaining \in Nat
        /\ executed'[t] \in Nat
        /\ \/ status'[t] = DeriveStatus("OPEN", order[t].qty, executed'[t])
           \/ status'[t] = "CANCELLED" /\ req[c].remaining > 0
    BY CommittedRows
  <2>2. executed'[t] >= order[t].qty => DeriveStatus("OPEN", order[t].qty, executed'[t]) = "FILLED"
    BY DEF DeriveStatus
  <2>3. ~(executed'[t] >= order[t].qty)
    BY <1>3, <2>1, <2>2 DEF Resting
  <2>4. req[c].remaining # 0
    BY <1>1, <2>1, <2>3
  <2> QED
    BY <1>1, <2>4 DEF LoopOver
<1>4. ASSUME NEW o \in Ids \ {t}, status'[t] \in Resting, status'[o] \in Resting,
             order[o].side = Opposite(order[t].side)
      PROVE  ~Crosses(order[t].side, order[t].price, order[o].price)
  <2> SUFFICES ASSUME Crosses(order[t].side, order[t].price, order[o].price) PROVE FALSE
    OBVIOUS
  <2>1. Candidate(c, o)
    BY <1>2, <1>4 DEF Candidate
  <2>2. ExecutedSeen(c, o) = order[o].qty
    BY <1>1, <1>3, <1>4, <2>1 DEF PassedAreFilled
  <2>3. executed'[o] = order[o].qty /\ order[o].qty \in Nat
    BY <2>1, <2>2, CandidateIsRow DEF Commit, SerialInv
  <2>4. BookInv'
    BY CommitSubmissionBook
  <2>5. \/ status'[o] = DeriveStatus("OPEN", order[o].qty, executed'[o])
        \/ executed'[o] < order[o].qty
    BY <1>1, <1>4, <2>4 DEF BookInv, Resting
  <2>6. status'[o] = "FILLED"
    BY <2>3, <2>5 DEF DeriveStatus
  <2> QED
    BY <1>4, <2>6 DEF Resting
<1>5. \A o \in Live' : o # t => o \in Live
  BY <1>2 DEF Live
<1>6. ASSUME NEW b \in Live', NEW s \in Live', order[b].side = "BUY", order[s].side = "SELL"
      PROVE  order[b].price < order[s].price
  <2>0. b \in Ids /\ s \in Ids /\ b # s /\ status'[b] \in Resting /\ status'[s] \in Resting
    BY <1>6 DEF Live
  <2>1. order[b].price \in Nat /\ order[s].price \in Nat
    <3>1. \A o \in Live' : o = t \/ (o \in Ids /\ status[o] # "NONE")
      BY <1>5 DEF Live, Resting
    <3>2. RowsInv
      BY DEF IInv
    <3>3. \A o \in Live' : o # t => order[o].price \in Nat
      BY <3>1, <3>2, RowColumns DEF RowsInv
    <3> QED
      BY <1>1, <3>3
  <2>2. CASE b # t /\ s # t
    BY <1>5, <1>6, <2>2 DEF SerialInv, BookUncrossed
  <2>3. CASE b = t
    BY <1>4, <1>6, <2>0, <2>1, <2>3 DEF Crosses, Opposite
  <2>4. CASE s = t
    BY <1>4, <1>6, <2>0, <2>1, <2>4 DEF Crosses, Opposite
  <2> QED
    BY <2>2, <2>3, <2>4
<1> QED
  BY <1>1, <1>6 DEF BookUncrossed

\* The hold of a live order is a number.
LEMMA LiveSharesAreNat ==
    ASSUME IInv, SerialInv, NEW u, NEW side, NEW o \in Ids
    PROVE  LiveShares(u, side)[o] \in Nat
<1> SUFFICES ASSUME status[o] \in Resting
             PROVE  HoldOf(order[o], RemainingQty(order[o].qty, executed[o])) \in Nat
  BY DEF LiveShares
<1>1. order[o] \in OrderRow /\ order[o].qty \in Nat /\ executed[o] \in Nat
  BY RowColumns DEF IInv, TypeOK, RowsInv, Resting
<1>2. RemainingQty(order[o].qty, executed[o]) \in Nat
  BY <1>1 DEF RemainingQty
<1> QED
  BY <1>1, <1>2, HoldIsNat

\* A submission moves held balances by what it changes of the live orders' holds.
LEMMA CommitSubmissionHolds ==
    ASSUME IInv, LockInv, HeldInv, SerialInv, NEW c \in Clients, Submitting(c), Commit(c)
    PROVE  HeldAreLive'
<1> DEFINE t == req[c].id
<1>0. /\ TypeOK /\ RowsInv /\ UNCHANGED order /\ HoldsInv(c)
      /\ \A a \in Account : bal'[a] = bal[a] + dBal[c][a]
  BY DEF IInv, HeldInv, Commit, BalanceSeen
<1>1. ASSUME NEW o \in Ids, NEW u, NEW side
      PROVE  LiveShares(u, side)'[o] = LiveShares(u, side)[o] + Shares(c, u, side)[o]
  <2> DEFINE After == IF status'[o] \in Resting
                      THEN HoldOf(order[o], RemainingQty(order[o].qty, executed'[o])) ELSE 0
             Before0 == IF status[o] \in Resting
                        THEN HoldOf(order[o], RemainingQty(order[o].qty, executed[o])) ELSE 0
  <2>1. /\ LiveShares(u, side)'[o] = IF OrderOf(o, u, side) THEN After ELSE 0
        /\ LiveShares(u, side)[o] = IF OrderOf(o, u, side) THEN Before0 ELSE 0
        /\ Shares(c, u, side)[o] =
               IF Writable(c, o) /\ OrderOf(o, u, side) THEN Share(c, o) ELSE 0
    BY <1>0 DEF LiveShares, Shares, OrderOf, HoldOf
  <2>2. CASE ~Writable(c, o)
    <3>1. status'[o] = "NONE" /\ status[o] = "NONE"
      BY <2>2, CommittedShare DEF Writable
    <3> QED
      BY <2>1, <2>2, <3>1 DEF Resting
  <2>3. CASE Writable(c, o)
    <3>1. Share(c, o) = ChangeOf(o)
      BY <2>3, CommittedShare
    <3>2. After = Before0 + ChangeOf(o)
      <4>1. CASE o = t
        <5>1. status[o] = "NONE" /\ After \in Int
          <6>1. /\ status[o] = "NONE" /\ order[o] \in OrderRow /\ order[o].qty \in Nat
                /\ executed'[o] \in Nat
            BY <4>1, CommittedRows
          <6>2. RemainingQty(order[o].qty, executed'[o]) \in Nat
            BY <6>1 DEF RemainingQty
          <6> QED
            BY <6>1, <6>2, HoldIsNat
        <5>2. Before0 = 0 /\ ChangeOf(o) = After
          BY <5>1 DEF ChangeOf, Resting
        <5> HIDE DEF After, Before0
        <5> QED
          BY <5>1, <5>2
      <4>2. CASE o # t
        <5>1. /\ status[o] # "NONE" /\ order[o] \in OrderRow /\ order[o].qty \in Nat
              /\ executed[o] \in Nat /\ Before0 \in Int
          <6>1. status[o] # "NONE"
            BY <2>3, <4>2 DEF Writable
          <6>2. order[o] \in OrderRow /\ order[o].qty \in Nat /\ executed[o] \in Nat
            BY <1>0, <6>1, RowColumns DEF RowsInv, TypeOK
          <6>3. RemainingQty(order[o].qty, executed[o]) \in Nat
            BY <6>2 DEF RemainingQty
          <6> QED
            BY <6>1, <6>2, <6>3, HoldIsNat
        <5>2. ChangeOf(o) = -HoldOf(order[o], executed'[o] - executed[o])
          BY <5>1 DEF ChangeOf
        <5>3. CASE status'[o] = status[o] /\ executed'[o] = executed[o]
          <6>1. executed'[o] - executed[o] = 0 /\ After = Before0
            BY <5>1, <5>3
          <6>2. HoldOf(order[o], 0) = 0
            BY <5>1, HoldIsLinear
          <6>3. ChangeOf(o) = 0
            BY <5>2, <6>1, <6>2
          <6> HIDE DEF After, Before0
          <6> QED
            BY <5>1, <6>1, <6>3
        <5>4. CASE /\ Candidate(c, o) /\ executed'[o] \in Nat
                   /\ executed[o] =< executed'[o] /\ executed'[o] =< order[o].qty
                   /\ status'[o] = DeriveStatus("OPEN", order[o].qty, executed'[o])
          <6> DEFINE a == order[o].qty - executed[o]
                     b == executed'[o] - executed[o]
          <6>1. a \in Int /\ b \in Int /\ a - b = order[o].qty - executed'[o]
            BY <5>1, <5>4
          <6>2. /\ HoldOf(order[o], a) \in Int /\ HoldOf(order[o], b) \in Int
                /\ HoldOf(order[o], 0) = 0
                /\ HoldOf(order[o], a - b) = HoldOf(order[o], a) - HoldOf(order[o], b)
            BY <5>1, <6>1, HoldIsLinear
          <6>3. RemainingQty(order[o].qty, executed[o]) = a
                /\ RemainingQty(order[o].qty, executed'[o]) = a - b
            BY <5>1, <5>4 DEF RemainingQty
          <6>4. status[o] \in Resting
            BY <5>4 DEF Candidate
          <6>5. status'[o] \in Resting \/ a - b = 0
            BY <5>1, <5>4 DEF DeriveStatus, Resting
          <6>6. Before0 = HoldOf(order[o], a)
            BY <6>3, <6>4
          <6>7. After = HoldOf(order[o], a - b)
            BY <6>2, <6>3, <6>5
          <6> HIDE DEF After, Before0, a, b
          <6>8. ChangeOf(o) = -HoldOf(order[o], b)
            BY <5>2 DEF b
          <6> QED
            BY <6>2, <6>6, <6>7, <6>8
        <5> QED
          BY <4>2, <5>3, <5>4, CommittedRows
      <4> QED
        BY <4>1, <4>2
    <3> HIDE DEF After, Before0
    <3> QED
      BY <2>1, <2>3, <3>1, <3>2
  <2> QED
    BY <2>2, <2>3
<1>2. ASSUME NEW u \in Users, NEW side \in Side
      PROVE  bal'[Held(u, HoldAsset(side))] = Total(LiveShares(u, side)', Ids)
  <2> DEFINE f == LiveShares(u, side)
             g == Shares(c, u, side)
             h == LiveShares(u, side)'
  <2>1. \A o \in Ids : f[o] \in Int /\ g[o] \in Int /\ h[o] = f[o] + g[o]
    BY <1>1, LiveSharesAreNat, SharesAreInt
  <2>2. Held(u, HoldAsset(side)) \in Account
    BY DEF Held, HoldAsset, Account, Asset
  <2>3. /\ bal[Held(u, HoldAsset(side))] = Total(f, Ids)
        /\ dBal[c][Held(u, HoldAsset(side))] = Total(g, Ids)
    BY <1>0 DEF SerialInv, HeldAreLive, HoldsInv
  <2> HIDE DEF f, g, h
  <2>4. Total(h, Ids) = Total(f, Ids) + Total(g, Ids)
    BY <2>1, IdsAreFinite, TotalOfSums
  <2>5. bal'[Held(u, HoldAsset(side))] = Total(f, Ids) + Total(g, Ids)
    BY <1>0, <2>2, <2>3
  <2>6. bal'[Held(u, HoldAsset(side))] = Total(h, Ids)
    BY <2>4, <2>5
  <2> QED
    BY <2>6 DEF h
<1> QED
  BY <1>2 DEF HeldAreLive

\* A request that has ended leaves nothing to say about it.
LEMMA EndedSerial ==
    ASSUME TypeOK, TypeOK', NEW c \in Clients, EndRequest(c), CommittedFunds'
    PROVE  SubmitInv(c)' /\ CancelInv(c)' /\ FundsInv(c)' /\ req'[c].kind # "demo"
<1>1. /\ dBal'[c] = NoMoves /\ req'[c].kind = "none"
  BY NoRequestIsTyped DEF EndRequest, TypeOK
<1>2. FundsInv(c)'
  <2> SUFFICES ASSUME NEW a \in Spendable PROVE bal'[a] + dBal'[c][a] >= 0
    BY DEF FundsInv, BalanceSeen
  <2>1. a \in Account /\ bal'[a] >= 0 /\ bal'[a] \in Int
    BY DEF Spendable, CommittedFunds, TypeOK
  <2>2. dBal'[c][a] = 0
    BY <1>1, <2>1 DEF NoMoves
  <2> QED
    BY <2>1, <2>2
<1> QED
  BY <1>1, <1>2 DEF SubmitInv, CancelInv, Submitting

\* The commit of a cancel closes its order and gives back the rest of its hold.
LEMMA CommitCancelSerial ==
    ASSUME IInv, SerialInv, NEW c \in Clients, req[c].kind = "cancel", Commit(c)
    PROVE  BookInv' /\ HeldAreLive' /\ BookUncrossed'
<1> DEFINE t == req[c].id
           row == order[t]
           hold == HoldOf(row, req[c].remaining)
<1>0. /\ TypeOK /\ RowsInv /\ BookInv /\ pc[c] = "commit" /\ UNCHANGED order
      /\ refs' = refs \cup dRefs[c]
      /\ \A a \in Account : bal'[a] = bal[a] + dBal[c][a]
      /\ \A o \in Ids : status'[o] = StatusSeen(c, o) /\ executed'[o] = executed[o] + dExec[c][o]
  BY DEF IInv, SerialInv, Commit, BalanceSeen, ExecutedSeen
<1>1. /\ t \in Ids /\ status[t] \in Resting
      /\ req[c].remaining + executed[t] = row.qty /\ req[c].remaining > 0
      /\ dExec[c] = NoExec
      /\ \A p \in Ids : wStatus[c][p] = IF p = t THEN "CANCELLED" ELSE "NONE"
      /\ dBal[c] = Move(NoMoves, HeldOf(row), AvailableOf(row), hold)
      /\ dRefs[c] = {<<t, "CANCEL_RELEASE">>}
  BY <1>0 DEF SerialInv, CancelInv
<1>2. /\ row \in OrderRow /\ row.qty \in Nat /\ req[c].remaining \in Nat /\ hold \in Nat
      /\ executed[t] \in Nat
  BY <1>0, <1>1, RowColumns, RequestIsTyped, HoldIsNat DEF RowsInv, TypeOK, Resting
<1>3. \A o \in Ids : /\ executed'[o] = executed[o]
                     /\ status'[o] = IF o = t THEN "CANCELLED" ELSE status[o]
  BY <1>0, <1>1 DEF StatusSeen, NoExec, TypeOK
<1>4. executed[t] < row.qty
  BY <1>1, <1>2
<1>5. BookInv'
  <2>1. ASSUME NEW o \in Ids, status'[o] # "NONE"
        PROVE  /\ executed'[o] =< order[o].qty
               /\ \/ status'[o] = DeriveStatus("OPEN", order[o].qty, executed'[o])
                  \/ status'[o] = "CANCELLED" /\ executed'[o] < order[o].qty
    <3>1. CASE o = t
      BY <1>2, <1>3, <1>4, <3>1
    <3>2. CASE o # t
      <4>1. status'[o] = status[o] /\ executed'[o] = executed[o]
        BY <1>3, <3>2
      <4> QED
        BY <1>0, <2>1, <4>1 DEF BookInv
    <3> QED
      BY <3>1, <3>2
  <2>2. \A o \in Ids : <<o, "CANCEL_RELEASE">> \in refs' => status'[o] = "CANCELLED"
    BY <1>0, <1>1, <1>3 DEF BookInv
  <2> QED
    BY <1>0, <2>1, <2>2 DEF BookInv
<1>6. BookUncrossed'
  BY <1>0, <1>3 DEF SerialInv, BookUncrossed, Live, Resting
<1>7. ASSUME NEW u \in Users, NEW side \in Side
      PROVE  bal'[Held(u, HoldAsset(side))] = Total(LiveShares(u, side)', Ids)
  <2> DEFINE f == LiveShares(u, side)
             g == LiveShares(u, side)'
             a == Held(u, HoldAsset(side))
             n == IF OrderOf(t, u, side) THEN -hold ELSE 0
  <2>1. \A o \in Ids : f[o] \in Int
    BY LiveSharesAreNat
  <2>2. n \in Int
    <3> HIDE DEF hold
    <3> QED
      BY <1>2
  <2>3. f[t] = IF OrderOf(t, u, side) THEN hold ELSE 0
    <3>1. RemainingQty(row.qty, executed[t]) = req[c].remaining
      BY <1>1, <1>2 DEF RemainingQty
    <3> QED
      BY <1>1, <3>1 DEF LiveShares
  <2>4. g[t] = 0
    BY <1>0, <1>1, <1>3 DEF LiveShares, Resting
  <2>5. \A o \in Ids \ {t} : g[o] = f[o]
    BY <1>0, <1>3 DEF LiveShares, OrderOf, HoldOf
  <2>6. \A o \in Ids : g[o] = IF o = t THEN f[o] + n ELSE f[o]
    <3>1. g[t] = f[t] + n
      <4> HIDE DEF hold, f, g
      <4> QED
        BY <1>2, <2>3, <2>4
    <3> QED
      BY <2>5, <3>1
  <2>7. a \in Account /\ a # AvailableOf(row) /\ HeldOf(row) # AvailableOf(row)
        /\ (a = HeldOf(row) <=> OrderOf(t, u, side))
    BY <1>2, WhoseHold DEF HeldOf, Held, AvailableOf, Available
  <2>8. dBal[c][a] = n
    <3>1. NoMoves[a] = 0
      BY <2>7 DEF NoMoves
    <3>2. NoMoves \in [Account -> Int] /\ HeldOf(row) \in Account /\ AvailableOf(row) \in Account
      BY <1>2, RowColumns DEF NoMoves
    <3>3. dBal[c][a] = IF a = HeldOf(row) THEN NoMoves[a] - hold ELSE NoMoves[a]
      <4> HIDE DEF a
      <4> QED
        BY <1>1, <2>7, <3>2 DEF Move
    <3> HIDE DEF hold, a
    <3> QED
      BY <1>2, <2>7, <3>1, <3>3
  <2>9. bal[a] = Total(f, Ids) /\ Total(f, Ids) \in Int
    BY <2>1, IdsAreFinite, TotalIsInt DEF SerialInv, HeldAreLive
  <2>10. bal'[a] = Total(f, Ids) + n
    BY <1>0, <2>7, <2>8, <2>9
  <2> HIDE DEF f, g, n, a
  <2>11. \A o \in Ids : g[o] \in Int
    BY <2>1, <2>2, <2>6
  <2>12. Total(f, Ids) = f[t] + Total(f, Ids \ {t}) /\ Total(g, Ids) = g[t] + Total(g, Ids \ {t})
    BY <1>1, <2>1, <2>11, IdsAreFinite, TotalTakesOut
  <2>13. Total(f, Ids \ {t}) = Total(g, Ids \ {t}) /\ Total(f, Ids \ {t}) \in Int
    <3>1. IsFiniteSet(Ids \ {t})
      BY IdsAreFinite, FS_RemoveElement
    <3>2. Total(f, Ids \ {t}) = Total(g, Ids \ {t})
      BY <2>5, <3>1, TotalOfSame
    <3>3. Total(f, Ids \ {t}) \in Int
      BY <2>1, <3>1, TotalIsInt
    <3> QED
      BY <3>2, <3>3
  <2>14. g[t] = f[t] + n /\ f[t] \in Int
    BY <1>1, <2>1, <2>6
  <2>15. bal'[a] = Total(g, Ids)
    BY <2>2, <2>10, <2>12, <2>13, <2>14
  <2> QED
    BY <2>15 DEF a, g
<1> QED
  BY <1>5, <1>6, <1>7 DEF HeldAreLive

\* A commit.
LEMMA CommitSerial ==
    ASSUME IInv, LockInv, HeldInv, SerialInv, TypeOK', NEW c \in Clients, Commit(c)
    PROVE  /\ BookInv' /\ CommittedFunds' /\ HeldAreLive' /\ BookUncrossed'
           /\ SubmitInv(c)' /\ CancelInv(c)' /\ FundsInv(c)' /\ req'[c].kind # "demo"
<1>1. EndRequest(c) /\ TypeOK /\ \A a \in Account : bal'[a] = BalanceSeen(c, a)
  BY DEF Commit, IInv
<1>2. CommittedFunds'
  BY <1>1 DEF SerialInv, FundsInv, CommittedFunds, Spendable
<1>3. Submitting(c) \/ req[c].kind = "cancel"
  <2>1. req[c].kind \in Kinds /\ req[c].kind # "demo" /\ PhaseInv(c) /\ pc[c] = "commit"
    BY RequestIsTyped DEF IInv, ClientInv, SerialInv, Commit
  <2> QED
    BY <2>1 DEF Kinds, PhaseInv, Submitting
<1>4. BookInv' /\ HeldAreLive' /\ BookUncrossed'
  BY <1>3, CommitSubmissionBook, CommitSubmissionHolds, CommitSubmissionUncrossed,
     CommitCancelSerial
<1> QED
  BY <1>1, <1>2, <1>4, EndedSerial

\* A rollback: the order that was being placed was never visible.
LEMMA RollbackSerial ==
    ASSUME IInv, SerialInv, TypeOK', NEW c \in Clients, Rollback(c)
    PROVE  /\ BookInv' /\ CommittedFunds' /\ HeldAreLive' /\ BookUncrossed'
           /\ SubmitInv(c)' /\ CancelInv(c)' /\ FundsInv(c)' /\ req'[c].kind # "demo"
<1>1. TypeOK /\ ClientInv(c) /\ EndRequest(c) /\ UNCHANGED <<status, executed, bal, refs>>
  BY DEF IInv, Rollback, dbVars
<1>2. \A o \in Ids : status[o] # "NONE" => order'[o] = order[o]
  BY <1>1 DEF Rollback, ClientInv, OwnRowInv, Submitting, TypeOK
<1>3. BookInv' /\ CommittedFunds'
  BY <1>1, <1>2 DEF SerialInv, BookInv, CommittedFunds
<1>4. HeldAreLive'
  <2>1. ASSUME NEW u, NEW side, NEW o \in Ids
        PROVE  LiveShares(u, side)'[o] = LiveShares(u, side)[o]
    BY <1>1, <1>2 DEF LiveShares, OrderOf, HoldOf, Resting
  <2>2. ASSUME NEW u, NEW side
        PROVE  LiveShares(u, side)' = LiveShares(u, side)
    BY <2>1 DEF LiveShares
  <2> QED
    BY <1>1, <2>2 DEF SerialInv, HeldAreLive
<1>5. BookUncrossed'
  BY <1>1, <1>2 DEF SerialInv, BookUncrossed, Live, Resting
<1> QED
  BY <1>1, <1>3, <1>4, <1>5, EndedSerial

\* One step of the only request.
LEMMA StepSerial ==
    ASSUME IInv, LockInv, HeldInv, SerialInv, TypeOK', Serial, NEW c \in Clients, ClientStep(c)
    PROVE  /\ BookInv' /\ CommittedFunds' /\ HeldAreLive' /\ BookUncrossed'
           /\ SubmitInv(c)' /\ CancelInv(c)' /\ FundsInv(c)' /\ req'[c].kind # "demo"
<1>0. req[c].kind # "demo" /\ PhaseInv(c) /\ DemoPrices = {}
  BY DEF Serial, SerialInv, IInv, ClientInv
<1>1. CASE Commit(c)
  BY <1>1, CommitSerial
<1>2. CASE Rollback(c)
  BY <1>2, RollbackSerial
<1>3. CASE \E row \in OrderRow, bps \in FeeBps : Place(c, row, bps)
  BY <1>3, PlaceSerial
<1>4. CASE ~Commit(c) /\ ~Rollback(c) /\ \A row \in OrderRow, bps \in FeeBps : ~Place(c, row, bps)
  <2>1. BookInv' /\ CommittedFunds' /\ HeldAreLive' /\ BookUncrossed'
    BY <1>4, TablesUntouched, LocalSerial
  <2>2. SubmitInv(c)' /\ CancelInv(c)' /\ FundsInv(c)' /\ req'[c].kind # "demo"
    <3>1. CASE Request(c)
      <4>1. ASSUME NEW row \in OrderRow, PlaceRefused(c, row)
            PROVE  SubmitInv(c)' /\ CancelInv(c)' /\ FundsInv(c)' /\ req'[c].kind # "demo"
        <5>1. /\ pc[c] = "idle" /\ ~Submitting(c) /\ req[c].kind = "none"
              /\ UNCHANGED <<order, dbVars, pc, req, dExec, dBal, dRefs, wStatus>>
          BY <4>1, IdleHasNone DEF PlaceRefused
        <5> QED
          BY <5>1, QuietFunds DEF SubmitInv, Submitting, CancelInv, dbVars
      <4>2. ASSUME NEW o \in Ids, ReadCancel(c, o)
            PROVE  SubmitInv(c)' /\ CancelInv(c)' /\ FundsInv(c)' /\ req'[c].kind # "demo"
        BY <4>2, ReadCancelSerial
      <4> QED
        BY <1>0, <1>4, <3>1, <4>1, <4>2 DEF Request
    <3>2. CASE Proceed(c)
      <4>1. CASE Match(c) \/ CheckFok(c) \/ FillMaker(c)
        BY <4>1, MatchSerial, CheckFokSerial, FillMakerSerial
      <4>2. CASE SettleFill(c) \/ SyncRead(c) \/ SyncWrite(c)
        <5>1. Submitting(c)
          BY <1>0, <4>2, RequestIsTyped
             DEF SettleFill, SyncRead, SyncWrite, PhaseInv, Submitting, Kinds
        <5> QED
          BY <4>2, <5>1, SettleFillSerial, SyncReadSerial, SyncWriteSerial
      <4>3. CASE LeaveLoop(c) \/ CancelRest(c)
        BY <4>3, LeaveLoopSerial, CancelRestSerial
      <4>4. CASE ReleaseHold(c) \/ CancelWrite(c)
        BY <4>4, ReleaseHoldSerial, CancelWriteSerial
      <4>5. CASE ReleaseResidual(c) \/ Reconcile(c)
        BY <1>0, <4>5, RequestIsTyped DEF ReleaseResidual, Reconcile, PhaseInv, Kinds
      <4>6. ~Fail(c)
        BY <1>4 DEF Fail
      <4> QED
        BY <1>4, <3>2, <4>1, <4>2, <4>3, <4>4, <4>5, <4>6 DEF Proceed
    <3> QED
      BY <1>4, <3>1, <3>2 DEF ClientStep, Abort
  <2> QED
    BY <2>1, <2>2
<1> QED
  BY <1>1, <1>2, <1>3, <1>4

\* Every step keeps the invariant of requests that do not overlap.
LEMMA NextKeepsSerial ==
    ASSUME Serial, IInv, LockInv, HeldInv, SerialInv, [Next]_vars
    PROVE  SerialInv'
<1>1. TypeOK'
  BY NextKeeps DEF IInv
<1>2. ASSUME NEW c \in Clients, ClientStep(c) PROVE SerialInv'
  <2>1. \A d \in Clients : d = c
    BY DEF Serial
  <2> QED
    BY <1>1, <1>2, <2>1, StepSerial DEF SerialInv
<1>3. CASE UNCHANGED vars
  <2>1. UNCHANGED <<order, dbVars>>
    BY <1>3 DEF vars, dbVars
  <2>2. ASSUME NEW c \in Clients PROVE SubmitInv(c)'
    <3>1. /\ \A m : Candidate(c, m)' <=> Candidate(c, m)
          /\ \A m, n : Before(m, n)' <=> Before(m, n)
          /\ \A m : ExecutedSeen(c, m)' = ExecutedSeen(c, m) /\ Fills(c, m)' = Fills(c, m)
      BY <1>3 DEF vars, Candidate, Before, ExecutedSeen, Fills
    <3>2. Left(c)' = Left(c)
      BY <1>3, <3>1 DEF vars, Left
    <3>3. SyncedOrder(c)' = SyncedOrder(c) /\ Maker(c)' = Maker(c) /\ (Settling(c)' <=> Settling(c))
      BY <1>3 DEF vars, SyncedOrder, Maker, Settling
    <3>4. CASE Submitting(c)
      <4>1. /\ WaitingMakers(c) /\ UsedMakers(c) /\ SyncedMaker(c)
            /\ PassedAreFilled(c) /\ LoopOver(c) /\ Fillable(c)
        BY <3>4 DEF SerialInv, SubmitInv
      <4>2. WaitingMakers(c)' /\ UsedMakers(c)' /\ SyncedMaker(c)'
        BY <1>3, <3>1, <3>3, <4>1 DEF vars, WaitingMakers, UsedMakers, SyncedMaker
      <4>3. PassedAreFilled(c)' /\ LoopOver(c)' /\ Fillable(c)'
        BY <1>3, <3>1, <3>2, <4>1 DEF vars, PassedAreFilled, LoopOver, Fillable
      <4> QED
        BY <4>2, <4>3 DEF SubmitInv
    <3> QED
      BY <1>3, <3>4 DEF vars, SubmitInv, Submitting
  <2>3. ASSUME NEW c \in Clients PROVE CancelInv(c)'
    BY <1>3 DEF vars, SerialInv, CancelInv, HoldOf
  <2>4. \A c \in Clients : FundsInv(c)' /\ req'[c].kind # "demo"
    BY <1>3, QuietFunds DEF vars, SerialInv
  <2> QED
    BY <2>1, <2>2, <2>3, <2>4, LocalSerial DEF SerialInv
<1> QED
  BY <1>2, <1>3 DEF Next, ClientStep

\* It holds at first.
LEMMA InitSerial == Init => SerialInv
<1> SUFFICES ASSUME Init PROVE SerialInv
  OBVIOUS
<1>0. TypeOK /\ \A c \in Clients : req[c].kind = "none"
  BY InitIInv, NoRequestIsTyped DEF IInv, Init
<1>1. BookInv /\ BookUncrossed /\ \A c \in Clients : SubmitInv(c) /\ CancelInv(c)
  BY <1>0 DEF Init, BookInv, BookUncrossed, Live, Resting, SubmitInv, CancelInv, Submitting
<1>2. CommittedFunds
  BY ConstantTypes DEF Init, CommittedFunds, Spendable
<1>3. \A c \in Clients : FundsInv(c)
  BY <1>2, ConstantTypes DEF Init, FundsInv, BalanceSeen, NoMoves, Spendable
<1>4. ASSUME NEW u \in Users, NEW side \in Side
      PROVE  bal[Held(u, HoldAsset(side))] = Total(LiveShares(u, side), Ids)
  <2>1. bal[Held(u, HoldAsset(side))] = 0
    BY DEF Init, Held, HoldAsset, Account, Asset
  <2>2. \A o \in Ids : LiveShares(u, side)[o] = 0
    BY DEF Init, LiveShares, Resting
  <2>3. Total(LiveShares(u, side), Ids) = Total(LiveShares(u, side), {})
    <3> DEFINE f == LiveShares(u, side)
    <3>1. \A o \in Ids : f[o] \in Int /\ f[o] = 0
      BY <2>2
    <3> HIDE DEF f
    <3>2. Total(f, Ids) = Total(f, {})
      BY <3>1, IdsAreFinite, TotalOfZeros
    <3> QED
      BY <3>2 DEF f
  <2> QED
    BY <2>1, <2>3, TotalOfNone
<1> QED
  BY <1>0, <1>1, <1>2, <1>3, <1>4 DEF SerialInv, HeldAreLive

-----------------------------------------------------------------------------
(* What holds of requests that do not overlap.                             *)

AllInv == IInv /\ LockInv /\ HeldInv /\ SerialInv

\* As long as requests do not overlap and nobody calls the demo route, every state
\* satisfies the invariants above.
LEMMA SerialAlways == ASSUME Serial PROVE Spec => []AllInv
<1>1. Init => AllInv
  BY InitIInv, InitLocks, InitHeld, InitSerial DEF AllInv
<1>2. AllInv /\ [Next]_vars => AllInv'
  BY NextKeeps, NextKeepsLocks, NextKeepsHeld, NextKeepsSerial DEF AllInv
<1> QED
  BY <1>1, <1>2, PTL DEF Spec

\* The holds of the orders in T, as the property adds them up.
LiveHolds(T) ==
    CHOOSE it : it = [s \in SUBSET T |-> IF s = {} THEN 0
        ELSE HoldOf(order[Pick(s)], RemainingQty(order[Pick(s)].qty, executed[Pick(s)]))
                 + it[s \ {Pick(s)}]]

\* The sum of the property is the total of the holds of the live orders.
LEMMA LiveHoldsAdd ==
    ASSUME NEW S, IsFiniteSet(S), NEW f,
           \A o \in S : f[o] = HoldOf(order[o], RemainingQty(order[o].qty, executed[o]))
    PROVE  LiveHolds(S)[S] = Total(f, S)
<1> DEFINE Adds(it) == it = [s \in SUBSET S |-> IF s = {} THEN 0
               ELSE HoldOf(order[Pick(s)], RemainingQty(order[Pick(s)].qty, executed[Pick(s)]))
                        + it[s \ {Pick(s)}]]
<1>1. ASSUME NEW it PROVE IsSums(f, S, it) <=> Adds(it)
  <2>1. \A s \in SUBSET S : s # {} =>
            f[Pick(s)] = HoldOf(order[Pick(s)],
                                RemainingQty(order[Pick(s)].qty, executed[Pick(s)]))
    BY PickIsIn
  <2> DEFINE E(s) == IF s = {} THEN 0 ELSE f[Pick(s)] + it[s \ {Pick(s)}]
             F(s) == IF s = {} THEN 0
                     ELSE HoldOf(order[Pick(s)],
                                 RemainingQty(order[Pick(s)].qty, executed[Pick(s)]))
                              + it[s \ {Pick(s)}]
  <2>2. \A s \in SUBSET S : E(s) = F(s)
    BY <2>1
  <2> HIDE DEF E, F
  <2>3. [s \in SUBSET S |-> E(s)] = [s \in SUBSET S |-> F(s)]
    BY <2>2
  <2> QED
    BY <2>3 DEF E, F, IsSums
<1>2. PICK jt : IsSums(f, S, jt)
  BY SumsExist
<1>3. Adds(jt)
  BY <1>1, <1>2
<1>4. Adds(LiveHolds(S))
  BY <1>3 DEF LiveHolds
<1>5. IsSums(f, S, LiveHolds(S))
  BY <1>1, <1>4
<1>6. S \subseteq S
  OBVIOUS
<1> QED
  BY <1>5, <1>6, TotalIs

\* Every held account is exactly what its live orders still reserve: no fill, price
\* improvement, cancel or rollback leaves a hold behind or eats another order's.
THEOREM HoldsAreBacked == ASSUME Serial PROVE Spec => []HoldsBackLiveOrders
<1>1. AllInv => HoldsBackLiveOrders
  <2> SUFFICES ASSUME AllInv, NEW u \in Users, NEW side \in Side
               PROVE  bal[Held(u, HoldAsset(side))] =
                          MapThenSumSet(
                              LAMBDA o : HoldOf(order[o], RemainingQty(order[o].qty, executed[o])),
                              {o \in Live : order[o].user = u /\ order[o].side = side})
    BY DEF HoldsBackLiveOrders
  <2> DEFINE f == LiveShares(u, side)
             mine == {o \in Live : order[o].user = u /\ order[o].side = side}
  <2>1. mine \in SUBSET Ids /\ IsFiniteSet(mine)
    BY IdsAreFinite, FS_Subset DEF Live
  <2>2. \A o \in Ids : f[o] \in Int
    BY LiveSharesAreNat DEF AllInv
  <2>3. /\ \A o \in mine : f[o] = HoldOf(order[o], RemainingQty(order[o].qty, executed[o]))
        /\ \A o \in Ids \ mine : f[o] = 0
    BY DEF LiveShares, OrderOf, Live
  <2>4. bal[Held(u, HoldAsset(side))] = Total(f, Ids)
    BY DEF AllInv, SerialInv, HeldAreLive
  <2> HIDE DEF f
  <2>5. MapThenSumSet(
            LAMBDA o : HoldOf(order[o], RemainingQty(order[o].qty, executed[o])), mine)
            = LiveHolds(mine)[mine]
    BY DEF MapThenSumSet, MapThenFoldSet, LiveHolds, Pick
  <2> HIDE DEF mine
  <2>6. Total(f, Ids) = Total(f, mine)
    BY <2>1, <2>2, <2>3, IdsAreFinite, TotalOfZeros
  <2>7. LiveHolds(mine)[mine] = Total(f, mine)
    BY <2>1, <2>3, LiveHoldsAdd
  <2> QED
    BY <2>4, <2>5, <2>6, <2>7 DEF mine
<1> QED
  BY <1>1, SerialAlways, PTL

\* No account is ever overdrawn, although price improvements and releases are posted
\* without looking at the balance they are taken from.
THEOREM NothingIsOverdrawn == ASSUME Serial PROVE Spec => []NonNegativeBalances
<1>1. AllInv => NonNegativeBalances
  <2> SUFFICES ASSUME AllInv, NEW a \in Account PROVE bal[a] >= 0
    BY DEF NonNegativeBalances
  <2>1. CASE a[3] # "HELD"
    BY <2>1 DEF AllInv, SerialInv, CommittedFunds, Spendable
  <2>2. CASE a[3] = "HELD"
    <3>1. PICK u \in Users, side \in Side : a = Held(u, HoldAsset(side))
      <4>1. a \in Users \X Asset \X {"AVAILABLE", "HELD"}
        BY <2>2 DEF Account, FeeRevenue
      <4>2. PICK u \in Users, x \in Asset : a = Held(u, x)
        BY <2>2, <4>1 DEF Held
      <4>3. \E side \in Side : x = HoldAsset(side)
        BY <4>2 DEF Asset, Side, HoldAsset
      <4> QED
        BY <4>2, <4>3
    <3> DEFINE f == LiveShares(u, side)
    <3>2. bal[a] = Total(f, Ids) /\ \A o \in Ids : f[o] \in Nat
      BY <3>1, LiveSharesAreNat DEF AllInv, SerialInv, HeldAreLive
    <3> HIDE DEF f
    <3>3. Total(f, Ids) \in Nat
      BY <3>2, IdsAreFinite, TotalIsNat
    <3> QED
      BY <3>2, <3>3
  <2> QED
    BY <2>1, <2>2
<1> QED
  BY <1>1, SerialAlways, PTL

\* A buy and a sell order that could trade with each other never rest side by side.
THEOREM BookStaysUncrossed == ASSUME Serial PROVE Spec => []BookUncrossed
  BY SerialAlways, PTL DEF AllInv, SerialInv

\* An order that appears is the one its request has submitted.
LEMMA AppearsBySubmission ==
    ASSUME AllInv, Next, NEW o \in Ids, status[o] = "NONE", status'[o] # "NONE"
    PROVE  \E c \in Clients : Commit(c) /\ Submitting(c) /\ o = req[c].id
<1>1. PICK c \in Clients : Commit(c)
  BY OnlyCommitShows
<1>2. Submitting(c)
  BY <1>1 DEF Commit, StatusSeen, AllInv, IInv, ClientInv, WritesInv, Writable
<1>3. o = req[c].id
  <2> SUFFICES ASSUME o # req[c].id PROVE FALSE
    OBVIOUS
  <2>1. ~Candidate(c, o)
    BY DEF Candidate, Resting
  <2>2. status'[o] = status[o]
    BY <1>1, <1>2, <2>1, CommittedRows DEF AllInv
  <2> QED
    BY <2>2
<1> QED
  BY <1>1, <1>2, <1>3

\* A fill-or-kill order becomes visible only when all of it was filled: the liquidity
\* that was counted before the first fill is still there for the last one.
THEOREM FokIsAllOrNothing == ASSUME Serial PROVE Spec => FokAllOrNothing
<1> DEFINE Killed ==
        \A o \in Ids : status[o] = "NONE" /\ status'[o] # "NONE" /\ order[o].tif = "FOK"
                           => status'[o] = "FILLED"
<1>1. AllInv /\ [Next]_vars => [Killed]_vars
  <2> SUFFICES ASSUME AllInv, Next, NEW o \in Ids, status[o] = "NONE", status'[o] # "NONE",
                      order[o].tif = "FOK"
               PROVE  status'[o] = "FILLED"
    OBVIOUS
  <2>1. PICK c \in Clients : Commit(c) /\ Submitting(c) /\ o = req[c].id
    BY AppearsBySubmission
  <2>2. status'[o] \in {"FILLED", "CANCELLED"}
    BY <2>1, CommitObeys DEF AllInv
  <2>3. status'[o] # "CANCELLED"
    <3> SUFFICES ASSUME status'[o] = "CANCELLED" PROVE FALSE
      OBVIOUS
    <3>1. LoopOver(c) /\ Fillable(c) /\ pc[c] = "commit"
      BY <2>1, SubmissionAt DEF AllInv, Commit
    <3>2. req[c].remaining > 0 /\ req[c].remaining \in Nat
      BY <2>1, CommittedRows DEF AllInv, DeriveStatus
    <3>3. req[c].makers = {}
      BY <3>1, <3>2 DEF LoopOver
    <3>4. req[c].remaining =< Total(Left(c), {})
      BY <2>1, <3>1, <3>3 DEF Fillable
    <3>5. Total(Left(c), {}) = 0
      BY TotalOfNone
    <3> QED
      BY <3>2, <3>4, <3>5
  <2> QED
    BY <2>2, <2>3
<1> QED
  BY <1>1, SerialAlways, PTL DEF Spec, FokAllOrNothing

\* Whoever a taker trades with, every resting order that goes before it in price-time
\* priority was filled first.
THEOREM PriorityIsKept == ASSUME Serial PROVE Spec => PriceTimePriority
<1> DEFINE Kept ==
        \A t, m, n \in Ids :
          /\ status[t] = "NONE" /\ status'[t] # "NONE"
          /\ m \in Live /\ n \in Live
          /\ order[m].side = Opposite(order[t].side)
          /\ order[n].side = order[m].side
          /\ m # n /\ Before(m, n)
          /\ executed'[n] > executed[n]
          => status'[m] = "FILLED"
<1>1. AllInv /\ [Next]_vars => [Kept]_vars
  <2> SUFFICES ASSUME AllInv, Next, NEW t \in Ids, NEW m \in Ids, NEW n \in Ids,
                      status[t] = "NONE", status'[t] # "NONE",
                      m \in Live, n \in Live,
                      order[m].side = Opposite(order[t].side),
                      order[n].side = order[m].side,
                      m # n, Before(m, n),
                      executed'[n] > executed[n]
               PROVE  status'[m] = "FILLED"
    OBVIOUS
  <2>1. PICK c \in Clients : Commit(c) /\ Submitting(c) /\ t = req[c].id
    BY AppearsBySubmission
  <2>2. /\ PassedAreFilled(c) /\ UsedMakers(c) /\ TypeOK /\ RowsInv /\ BookInv
        /\ pc[c] = "commit" /\ UNCHANGED order
    BY <2>1, SubmissionAt DEF AllInv, Commit
  <2>3. /\ status[m] \in Resting /\ status[n] \in Resting /\ m # t /\ n # t
    BY DEF Live, Resting
  <2>4. dExec[c][n] > 0
    <3>1. executed'[n] = executed[n] + dExec[c][n] /\ executed[n] \in Nat /\ dExec[c][n] \in Nat
      BY <2>1, <2>2 DEF Commit, ExecutedSeen, TypeOK
    <3> QED
      BY <3>1
  <2>5. Candidate(c, n)
    BY <2>1, <2>2, <2>3, <2>4 DEF UsedMakers
  <2>6. Candidate(c, m)
    <3>1. /\ order[m].price \in Nat /\ order[n].price \in Nat /\ order[t].price \in Nat
          /\ order[t].side \in Side
      BY <2>1, <2>2, <2>3, Taker, RowColumns DEF AllInv, RowsInv, Resting
    <3>2. Crosses(order[t].side, order[t].price, order[n].price)
      BY <2>1, <2>5 DEF Candidate
    <3>3. Crosses(order[t].side, order[t].price, order[m].price)
      BY <3>1, <3>2 DEF Crosses, Before, Opposite, Side
    <3> QED
      BY <2>1, <2>3, <3>3 DEF Candidate
  <2>7. ExecutedSeen(c, m) = order[m].qty
    BY <2>1, <2>2, <2>3, <2>4, <2>6 DEF PassedAreFilled
  <2>8. executed'[m] = order[m].qty /\ order[m].qty \in Nat
    BY <2>1, <2>2, <2>6, <2>7, CandidateIsRow DEF Commit, AllInv
  <2>9. BookInv'
    BY <2>1, CommitSubmissionBook DEF AllInv
  <2>10. status'[m] # "NONE"
    BY <2>1, <2>2, <2>3, SeenIsStatus DEF Commit, Resting
  <2>11. \/ status'[m] = DeriveStatus("OPEN", order[m].qty, executed'[m])
         \/ executed'[m] < order[m].qty
    BY <2>2, <2>9, <2>10 DEF BookInv
  <2> QED
    BY <2>8, <2>11 DEF DeriveStatus
<1> QED
  BY <1>1, SerialAlways, PTL DEF Spec, PriceTimePriority

-----------------------------------------------------------------------------
(* Exchange implements OrderLifecycle.                                     *)

\* The commit of a cancel closes one live order.
LEMMA CancelledRow ==
    ASSUME IInv, SerialInv, NEW c \in Clients, req[c].kind = "cancel", Commit(c)
    PROVE  LET t == req[c].id IN
           /\ UNCHANGED order
           /\ t \in Ids /\ status[t] \in Resting /\ executed[t] < order[t].qty
           /\ \A o \in Ids : /\ executed'[o] = executed[o]
                             /\ status'[o] = IF o = t THEN "CANCELLED" ELSE status[o]
<1> DEFINE t == req[c].id
<1>1. /\ TypeOK /\ RowsInv /\ pc[c] = "commit" /\ UNCHANGED order
      /\ \A o \in Ids : status'[o] = StatusSeen(c, o) /\ executed'[o] = executed[o] + dExec[c][o]
  BY DEF IInv, Commit, ExecutedSeen
<1>2. /\ t \in Ids /\ status[t] \in Resting
      /\ req[c].remaining + executed[t] = order[t].qty /\ req[c].remaining > 0
      /\ dExec[c] = NoExec
      /\ \A p \in Ids : wStatus[c][p] = IF p = t THEN "CANCELLED" ELSE "NONE"
  BY <1>1 DEF SerialInv, CancelInv
<1>3. order[t].qty \in Nat /\ req[c].remaining \in Nat /\ executed[t] \in Nat
  BY <1>1, <1>2, RowColumns, RequestIsTyped DEF RowsInv, TypeOK, Resting
<1>4. \A o \in Ids : /\ executed'[o] = executed[o]
                     /\ status'[o] = IF o = t THEN "CANCELLED" ELSE status[o]
  BY <1>1, <1>2 DEF StatusSeen, NoExec, TypeOK
<1> QED
  BY <1>1, <1>2, <1>3, <1>4

\* What the lifecycle sees of a row: its own size.
Row(o) == IF status[o] = "NONE" THEN 0 ELSE order[o].qty

\* A step that commits nothing is invisible.
LEMMA OthersRest ==
    ASSUME IInv, NEW c \in Clients, ClientStep(c), ~Commit(c), NEW o \in Ids
    PROVE  status'[o] = status[o] /\ executed'[o] = executed[o] /\ Row(o)' = Row(o)
<1>1. CASE Rollback(c)
  BY <1>1, RowsStay DEF Rollback, dbVars, Row
<1>2. CASE \E row \in OrderRow, bps \in FeeBps : Place(c, row, bps)
  BY <1>2, RowsStay DEF Place, dbVars, Row
<1>3. CASE ~Rollback(c) /\ \A row \in OrderRow, bps \in FeeBps : ~Place(c, row, bps)
  BY <1>3, TablesUntouched DEF dbVars, Row
<1> QED
  BY <1>1, <1>2, <1>3

\* An order that trades advances as its lifecycle allows.
LEMMA MakerAdvances ==
    ASSUME IInv, LockInv, HeldInv, SerialInv, NEW c \in Clients, Submitting(c), Commit(c),
           NEW o \in Ids \ {req[c].id}, ~(status'[o] = status[o] /\ executed'[o] = executed[o])
    PROVE  /\ status[o] \in Resting /\ status'[o] # "NONE" /\ executed'[o] \in executed[o]..order[o].qty
           /\ status'[o] = DeriveStatus(status[o], order[o].qty, executed'[o])
           /\ IsValidTransition(status[o], status'[o])
<1>1. /\ Candidate(c, o) /\ executed'[o] \in Nat
      /\ executed[o] =< executed'[o] /\ executed'[o] =< order[o].qty
      /\ status'[o] = DeriveStatus("OPEN", order[o].qty, executed'[o])
  BY CommittedRows
<1>2. /\ status[o] \in Resting /\ order[o].qty \in Nat \ {0} /\ executed[o] \in Nat
      /\ executed[o] < order[o].qty
  BY <1>1, CandidateIsRow DEF Candidate, SerialInv
<1>3. status[o] = "PARTIALLY_FILLED" => executed[o] > 0
  BY <1>2 DEF SerialInv, BookInv, DeriveStatus, Resting
<1>4. status'[o] = DeriveStatus(status[o], order[o].qty, executed'[o])
  BY <1>1, <1>2 DEF DeriveStatus, Resting
<1>5. /\ status'[o] \in {"OPEN", "PARTIALLY_FILLED", "FILLED"}
      /\ status'[o] = "OPEN" => ~(executed'[o] > 0)
  BY <1>1 DEF DeriveStatus
<1>6. IsValidTransition(status[o], status'[o])
  <2>1. CASE status[o] = "OPEN"
    BY <1>5, <2>1 DEF IsValidTransition, ValidTransitions, Status
  <2>2. CASE status[o] = "PARTIALLY_FILLED"
    <3>1. status'[o] # "OPEN"
      BY <1>1, <1>2, <1>3, <1>5, <2>2
    <3> QED
      BY <1>5, <2>2, <3>1 DEF IsValidTransition, ValidTransitions, Status
  <2> QED
    BY <1>2, <2>1, <2>2 DEF Resting
<1>7. executed'[o] \in executed[o]..order[o].qty
  BY <1>1, <1>2
<1> QED
  BY <1>2, <1>4, <1>5, <1>6, <1>7

\* Every step is one of the lifecycle, for every order.
LEMMA LifecycleStep ==
    ASSUME AllInv, Next
    PROVE  \A o \in Ids :
             \/ /\ status[o] \in {"OPEN", "PARTIALLY_FILLED"}
                /\ executed'[o] \in executed[o]..Row(o)
                /\ \/ status'[o] = DeriveStatus(status[o], Row(o), executed'[o])
                   \/ status'[o] = "CANCELLED" /\ executed'[o] < Row(o)
                /\ IsValidTransition(status[o], status'[o])
                /\ Row(o)' = Row(o)
             \/ /\ status[o] = "NONE"
                /\ Row(o)' \in Qtys
                /\ executed'[o] \in 0..Row(o)'
                /\ \/ status'[o] = DeriveStatus("OPEN", Row(o)', executed'[o])
                   \/ status'[o] = "CANCELLED" /\ executed'[o] < Row(o)'
             \/ status'[o] = status[o] /\ executed'[o] = executed[o] /\ Row(o)' = Row(o)
<1> USE DEF AllInv
<1>1. PICK c \in Clients : ClientStep(c)
  BY DEF Next, ClientStep
<1>2. CASE ~Commit(c)
  BY <1>1, <1>2, OthersRest
<1>3. CASE Commit(c) /\ Submitting(c)
  <2> DEFINE t == req[c].id
  <2> SUFFICES ASSUME NEW o \in Ids
               PROVE
             \/ /\ status[o] \in {"OPEN", "PARTIALLY_FILLED"}
                /\ executed'[o] \in executed[o]..Row(o)
                /\ \/ status'[o] = DeriveStatus(status[o], Row(o), executed'[o])
                   \/ status'[o] = "CANCELLED" /\ executed'[o] < Row(o)
                /\ IsValidTransition(status[o], status'[o])
                /\ Row(o)' = Row(o)
             \/ /\ status[o] = "NONE"
                /\ Row(o)' \in Qtys
                /\ executed'[o] \in 0..Row(o)'
                /\ \/ status'[o] = DeriveStatus("OPEN", Row(o)', executed'[o])
                   \/ status'[o] = "CANCELLED" /\ executed'[o] < Row(o)'
             \/ status'[o] = status[o] /\ executed'[o] = executed[o] /\ Row(o)' = Row(o)
    OBVIOUS
  <2>0. UNCHANGED order
    BY <1>3 DEF Commit
  <2>1. CASE o = t
    <3>1. /\ status[o] = "NONE" /\ order[o] \in OrderRow /\ order[o].qty \in Nat
          /\ executed'[o] + req[c].remaining = order[o].qty /\ req[c].remaining \in Nat
          /\ executed'[o] \in Nat
          /\ \/ status'[o] = DeriveStatus("OPEN", order[o].qty, executed'[o])
             \/ status'[o] = "CANCELLED" /\ req[c].remaining > 0
      BY <1>3, <2>1, CommittedRows
    <3>2. status'[o] # "NONE"
      BY <3>1 DEF DeriveStatus
    <3>3. Row(o)' = order[o].qty /\ order[o].qty \in Qtys
      BY <2>0, <3>1, <3>2 DEF Row, OrderRow
    <3>4. executed'[o] \in 0..order[o].qty
          /\ (req[c].remaining > 0 => executed'[o] < order[o].qty)
      BY <3>1
    <3> QED
      BY <3>1, <3>3, <3>4
  <2>2. CASE o # t
    <3>1. CASE status'[o] = status[o] /\ executed'[o] = executed[o]
      BY <2>0, <3>1 DEF Row
    <3>2. CASE ~(status'[o] = status[o] /\ executed'[o] = executed[o])
      <4>1. /\ status[o] \in Resting /\ status'[o] # "NONE" /\ executed'[o] \in executed[o]..order[o].qty
            /\ status'[o] = DeriveStatus(status[o], order[o].qty, executed'[o])
            /\ IsValidTransition(status[o], status'[o])
        BY <1>3, <2>2, <3>2, MakerAdvances
      <4>2. Row(o) = order[o].qty /\ Row(o)' = order[o].qty
        BY <2>0, <4>1 DEF Row, Resting
      <4> QED
        BY <4>1, <4>2 DEF Resting
    <3> QED
      BY <3>1, <3>2
  <2> QED
    BY <2>1, <2>2
<1>4. CASE Commit(c) /\ ~Submitting(c)
  <2> DEFINE t == req[c].id
  <2>1. req[c].kind = "cancel"
    <3>1. req[c].kind \in Kinds /\ req[c].kind # "demo" /\ PhaseInv(c) /\ pc[c] = "commit"
      BY <1>4, RequestIsTyped DEF IInv, ClientInv, SerialInv, Commit
    <3> QED
      BY <1>4, <3>1 DEF Kinds, PhaseInv, Submitting
  <2>2. /\ UNCHANGED order
        /\ t \in Ids /\ status[t] \in Resting /\ executed[t] < order[t].qty
        /\ \A o \in Ids : /\ executed'[o] = executed[o]
                          /\ status'[o] = IF o = t THEN "CANCELLED" ELSE status[o]
    BY <1>4, <2>1, CancelledRow
  <2> SUFFICES ASSUME NEW o \in Ids
               PROVE
             \/ /\ status[o] \in {"OPEN", "PARTIALLY_FILLED"}
                /\ executed'[o] \in executed[o]..Row(o)
                /\ status'[o] = "CANCELLED" /\ executed'[o] < Row(o)
                /\ IsValidTransition(status[o], status'[o])
                /\ Row(o)' = Row(o)
             \/ status'[o] = status[o] /\ executed'[o] = executed[o] /\ Row(o)' = Row(o)
    OBVIOUS
  <2>3. CASE o # t
    <3>1. status'[o] = status[o] /\ executed'[o] = executed[o]
      BY <2>2, <2>3
    <3> QED
      BY <2>2, <3>1 DEF Row
  <2>4. CASE o = t
    <3>1. /\ status[o] \in Resting /\ executed[o] < order[o].qty
          /\ executed'[o] = executed[o] /\ status'[o] = "CANCELLED" /\ order' = order
      BY <2>2, <2>4
    <3>2. Row(o) = order[o].qty /\ Row(o)' = order[o].qty
      BY <3>1 DEF Row, Resting
    <3>3. executed[o] \in Nat /\ order[o].qty \in Nat
      BY <3>1, RowColumns DEF IInv, TypeOK, RowsInv, Resting
    <3>4. executed'[o] \in executed[o]..Row(o) /\ executed'[o] < Row(o)
      BY <3>1, <3>2, <3>3
    <3>5. status[o] \in {"OPEN", "PARTIALLY_FILLED"} /\ IsValidTransition(status[o], status'[o])
      BY <3>1 DEF Resting, IsValidTransition, ValidTransitions, Status
    <3> QED
      BY <3>1, <3>2, <3>4, <3>5
  <2> QED
    BY <2>3, <2>4
<1> QED
  BY <1>2, <1>3, <1>4

\* Exchange implements the lifecycle of OrderLifecycle: every order appears with the
\* outcome of its own matching, gains fills it never loses, changes status only as
\* VALID_TRANSITIONS allows, and stays filled or cancelled.
THEOREM LifecycleIsImplemented == ASSUME Serial PROVE Spec => ImplementsLifecycle
<1>1. Init => Lifecycle!Init
  <2> SUFFICES ASSUME Init PROVE Lifecycle!Init
    OBVIOUS
  <2> QED
    BY DEF Init, NoExec, Lifecycle!Init
<1>2. AllInv /\ [Next]_vars
          => [Lifecycle!Next]_<<[o \in Ids |-> IF status[o] = "NONE" THEN 0 ELSE order[o].qty],
                                status, executed>>
  <2>1. ASSUME AllInv, Next PROVE Lifecycle!Next
    <3>1. \A o \in Ids :
              /\ [p \in Ids |-> IF status[p] = "NONE" THEN 0 ELSE order[p].qty][o] = Row(o)
              /\ [p \in Ids |-> IF status'[p] = "NONE" THEN 0 ELSE order'[p].qty][o] = Row(o)'
      BY DEF Row
    <3> QED
      BY <2>1, <3>1, LifecycleStep
         DEF Lifecycle!Next, Lifecycle!Advances, Lifecycle!Appears, Lifecycle!Rests,
             Lifecycle!DeriveStatus, Lifecycle!IsValidTransition, Lifecycle!ValidTransitions,
             Lifecycle!Status, DeriveStatus, IsValidTransition, ValidTransitions, Status
  <2>2. ASSUME UNCHANGED vars
        PROVE  UNCHANGED <<[o \in Ids |-> IF status[o] = "NONE" THEN 0 ELSE order[o].qty],
                           status, executed>>
    BY <2>2 DEF vars
  <2> QED
    BY <2>1, <2>2
<1> QED
  BY <1>1, <1>2, SerialAlways, PTL DEF Spec, ImplementsLifecycle, Lifecycle!Spec
=============================================================================
