------------------------------ MODULE Exchange ------------------------------
(***************************************************************************)
(* The order and ledger core of the API with the database matcher: one     *)
(* symbol in one mode, its Order, Trade and Ledger* tables, and the HTTP   *)
(* requests that change them.                                              *)
(*                                                                         *)
(*   submit  lib/matching/submit-limit-order.ts over                       *)
(*           lib/ledger/execution.ts (POST /orders, POST /trade/orders)    *)
(*   cancel  routes/orders.ts and routes/trade.ts                          *)
(*   demo    routes/trade.ts, POST /fills/demo                             *)
(*                                                                         *)
(* A client is one request in progress; it handles any number of requests, *)
(* one after the other.  With one client requests never overlap; with more *)
(* they interleave the way transactions of the database's default level,   *)
(* READ COMMITTED, do:                                                     *)
(*   - a step reads what is committed when it runs, plus its own writes;   *)
(*   - Trade and LedgerPosting rows are only inserted, so an open          *)
(*     transaction is the quantities dExec and amounts dBal it would add;  *)
(*   - updating an Order row locks it until the transaction ends: wStatus  *)
(*     holds the status written, and the row is locked while it is set.    *)
(*                                                                         *)
(* `executed` and `bal` stand for the sums over Trade and LedgerPosting    *)
(* that getOrderExecutedQty and getLedgerBalance compute at each read.     *)
(* Ledger accounts exist from the start, so no step inserts one.           *)
(***************************************************************************)
EXTENDS OrderState, FiniteSetsExt

CONSTANTS
    Clients,     \* requests that may be in progress at the same time
    Users,       \* account owners
    MaxOrders,   \* bound: how many Order ids the model hands out
    Prices,      \* limit prices that requests carry
    Qtys,        \* order quantities that requests carry
    Tifs,        \* times in force that requests carry
    FeeBps,      \* quote fees that requests carry, in basis points
    DemoPrices,  \* prices POST /fills/demo is called with; {} = never called
    BaseFunds,   \* what each user owns at the start, in the base asset ...
    QuoteFunds,  \* ... and in the quote asset
    NoOrder      \* what an unused id holds

Ids == 1..MaxOrders

OrderRow == [user : Users, side : Side, price : Prices, qty : Qtys, tif : Tifs]

ASSUME ExchangeAssumption ==
    /\ IsFiniteSet(Users)
    /\ MaxOrders \in Nat
    /\ Prices \subseteq Nat \ {0}
    /\ Qtys \subseteq Nat \ {0}
    /\ Tifs \subseteq TimeInForce
    /\ FeeBps \subseteq Nat
    /\ \A p \in Prices \cup DemoPrices, bps \in FeeBps : (p * bps) % 10000 = 0
    /\ DemoPrices \subseteq Nat \ {0}
    /\ BaseFunds \in Nat
    /\ QuoteFunds \in Nat
    /\ NoOrder \notin OrderRow

Asset == {"base", "quote"}

\* ensureUserLedgerAccounts: two accounts for each user and asset ...
Available(u, a) == <<u, a, "AVAILABLE">>
Held(u, a) == <<u, a, "HELD">>

\* ... and, of the system's accounts, the one that a settlement credits.
FeeRevenue == <<"SYSTEM", "quote", "FEE_REVENUE">>

Account == (Users \X Asset \X {"AVAILABLE", "HELD"}) \cup {FeeRevenue}

\* Ledger transactions that are looked up by reference before being posted.
Reference == Ids \X {"CANCEL_RELEASE", "FINAL_RESIDUAL_RELEASE"}

HoldAsset(side) == IF side = "BUY" THEN "quote" ELSE "base"

VARIABLES
    nextId,     \* the Order id sequence: an id is never given back
    order,      \* immutable columns of the Order rows
    status,     \* committed Order.status, "NONE" when there is no row
    executed,   \* committed Trade quantity of each order
    bal,        \* committed ledger balances, credits minus debits
    refs,       \* committed LedgerTransaction references
    pc,         \* what a client does next
    req,        \* local variables of its handler
    dExec, dBal, dRefs, wStatus  \* uncommitted writes of its transaction

dbVars == <<status, executed, bal, refs>>
vars == <<nextId, order, status, executed, bal, refs,
          pc, req, dExec, dBal, dRefs, wStatus>>

NoRequest == [kind |-> "none", id |-> 0, bps |-> 0, makers |-> {},
              remaining |-> 0, buy |-> 0, sell |-> 0, qty |-> 0, price |-> 0,
              sync |-> "BUY", next |-> "NONE"]

NoExec == [o \in Ids |-> 0]
NoMoves == [a \in Account |-> 0]
NoWrites == [o \in Ids |-> "NONE"]

Init ==
    /\ nextId = 1
    /\ order = [o \in Ids |-> NoOrder]
    /\ status = [o \in Ids |-> "NONE"]
    /\ executed = NoExec
    /\ bal = [a \in Account |->
                 IF a[3] # "AVAILABLE" THEN 0
                 ELSE IF a[2] = "base" THEN BaseFunds ELSE QuoteFunds]
    /\ refs = {}
    /\ pc = [c \in Clients |-> "idle"]
    /\ req = [c \in Clients |-> NoRequest]
    /\ dExec = [c \in Clients |-> NoExec]
    /\ dBal = [c \in Clients |-> NoMoves]
    /\ dRefs = [c \in Clients |-> {}]
    /\ wStatus = [c \in Clients |-> NoWrites]

-----------------------------------------------------------------------------
(* What a client's statements read.                                        *)

StatusSeen(c, o) == IF wStatus[c][o] # "NONE" THEN wStatus[c][o] ELSE status[o]

\* getOrderExecutedQty
ExecutedSeen(c, o) == executed[o] + dExec[c][o]

\* getLedgerBalance
BalanceSeen(c, a) == bal[a] + dBal[c][a]

RefSeen(c, r) == r \in refs \cup dRefs[c]

\* Wrong on purpose: the update runs outside the transaction and waits for it.
Locked_ByAnyone(c, o) == \E d \in Clients : wStatus[d][o] # "NONE"

\* Another open transaction has updated the row: an UPDATE of it waits.
Locked(c, o) == \E d \in Clients \ {c} : wStatus[d][o] # "NONE"

\* Wrong on purpose: a debit without its credit.
Move_DebitOnly(moves, from, to, amount) == [moves EXCEPT ![from] = @ - amount]

\* A posted ledger transaction of one debit and one credit.
Move(moves, from, to, amount) ==
    [moves EXCEPT ![from] = @ - amount, ![to] = @ + amount]

\* The accounts an order's hold moves between, and its size for a quantity.
AvailableOf(row) == Available(row.user, HoldAsset(row.side))
HeldOf(row) == Held(row.user, HoldAsset(row.side))
HoldOf(row, qty) == HoldAmount(row.side, row.price, qty)

\* Wrong on purpose: the worst price first.
Before_WorstFirst(m, n) ==
    IF order[m].price = order[n].price THEN m < n
    ELSE (order[m].price < order[n].price) <=> order[m].side = "BUY"

\* compareMakerPriority: m goes before n for a taker on the other side; the
\* ids are handed out in the order of createdAt.
Before(m, n) ==
    IF order[m].price = order[n].price THEN m < n
    ELSE (order[m].price < order[n].price) <=> order[m].side = "SELL"

\* Wrong on purpose: candidates in any order.
IsFirst_Unsorted(m, makers) == m \in makers

IsFirst(m, makers) == m \in makers /\ \A n \in makers \ {m} : Before(m, n)

\* getMatchingOrders
MatchingOrders(c, o) ==
    {m \in Ids \ {o} :
        /\ StatusSeen(c, m) \in Resting
        /\ order[m].side = Opposite(order[o].side)
        /\ Crosses(order[o].side, order[o].price, order[m].price)}

\* Wrong on purpose: counts what the candidates had at first.
FillableQty_Ordered(c, makers) ==
    MapThenSumSet(LAMBDA m : order[m].qty,
                  {m \in makers : CanReceiveFills(StatusSeen(c, m))})

\* The liquidity that the FOK check adds up.
FillableQty(c, makers) ==
    MapThenSumSet(
        LAMBDA m : RemainingQty(order[m].qty, ExecutedSeen(c, m)),
        {m \in makers : CanReceiveFills(StatusSeen(c, m))})

\* getOrderRemainingQty throws.
Overfilled(c, o) == ExecutedSeen(c, o) > order[o].qty

\* What deriveOrderStatus makes of the row and the trades read.
DerivedSeen(c, o) == DeriveStatus(StatusSeen(c, o), order[o].qty, ExecutedSeen(c, o))

\* Wrong on purpose: the sell order is forgotten.
SyncedOrder_BuyOnly(c) == req[c].buy

\* The order whose row is being synchronised: the buy order, then the sell.
SyncedOrder(c) == IF req[c].sync = "BUY" THEN req[c].buy ELSE req[c].sell

Gross(c) == req[c].qty * req[c].price

\* The settlement's debits: the buyer's held quote and the seller's held base.
SettlementCovered(c) ==
    LET buyer == order[req[c].buy]
        seller == order[req[c].sell]
    IN  /\ BalanceSeen(c, HeldOf(buyer)) >= Gross(c)
        /\ BalanceSeen(c, HeldOf(seller)) >= req[c].qty

\* A statement of the handler throws, and the transaction is rolled back.
Throws(c) ==
    LET o == req[c].id IN
    \/ /\ pc[c] = "match"
       /\ order[o].tif = "POST_ONLY"
       /\ MatchingOrders(c, o) # {}
    \/ /\ pc[c] = "fok"
       /\ \/ \E m \in req[c].makers : CanReceiveFills(StatusSeen(c, m)) /\ Overfilled(c, m)
          \/ FillableQty(c, req[c].makers) < order[o].qty
    \/ /\ pc[c] = "fill"
       /\ \E m \in req[c].makers :
              /\ IsFirst(m, req[c].makers)
              /\ CanReceiveFills(StatusSeen(c, m))
              /\ Overfilled(c, m)
    \/ /\ pc[c] = "settle"
       /\ \/ ~SettlementCovered(c)
          \/ QuoteFee(Gross(c), req[c].bps) >= Gross(c)
    \/ /\ pc[c] = "syncRead"
       /\ LET o1 == SyncedOrder(c) IN
              \/ Overfilled(c, o1)
              \/ ~IsValidTransition(StatusSeen(c, o1), DerivedSeen(c, o1))
    \/ /\ pc[c] = "cancelRest"
       /\ BalanceSeen(c, HeldOf(order[o])) < HoldOf(order[o], req[c].remaining)
    \/ /\ pc[c] = "releaseHold"
       /\ ~RefSeen(c, <<o, "CANCEL_RELEASE">>)
       /\ BalanceSeen(c, HeldOf(order[o])) < HoldOf(order[o], req[c].remaining)
    \/ /\ pc[c] = "residual"
       /\ \E p \in {req[c].buy, req[c].sell} : Overfilled(c, p)
    \/ /\ pc[c] = "reconcile"
       /\ \E p \in {req[c].buy, req[c].sell} :
              Overfilled(c, p) \/ StatusSeen(c, p) # DerivedSeen(c, p)
    \/ /\ pc[c] = "commit"
       /\ req[c].kind = "submit"
       /\ Overfilled(c, o) \/ StatusSeen(c, o) # DerivedSeen(c, o)

\* The client's transaction is over: nothing of it stays open.
EndRequest(c) ==
    /\ pc' = [pc EXCEPT ![c] = "idle"]
    /\ req' = [req EXCEPT ![c] = NoRequest]
    /\ dExec' = [dExec EXCEPT ![c] = NoExec]
    /\ dBal' = [dBal EXCEPT ![c] = NoMoves]
    /\ dRefs' = [dRefs EXCEPT ![c] = {}]
    /\ wStatus' = [wStatus EXCEPT ![c] = NoWrites]

\* Nothing the transaction wrote was ever visible; its order never existed.
Rollback(c) ==
    /\ EndRequest(c)
    /\ order' = IF req[c].kind = "submit"
                THEN [order EXCEPT ![req[c].id] = NoOrder] ELSE order
    /\ UNCHANGED <<nextId, dbVars>>

Fail(c) == Throws(c) /\ Rollback(c)

\* The process stops, the connection drops or the transaction times out.
Abort(c) == pc[c] # "idle" /\ Rollback(c)

-----------------------------------------------------------------------------
(* submitLimitOrder                                                        *)

\* The order row is created and its hold posted; reserveOrderOnPlacement
\* throws when the available balance does not cover it.  The id is spent
\* either way.
Place(c, row, bps) ==
    /\ pc[c] = "idle"
    /\ nextId \in Ids
    /\ BalanceSeen(c, AvailableOf(row)) >= HoldOf(row, row.qty)
    /\ nextId' = nextId + 1
    /\ order' = [order EXCEPT ![nextId] = row]
    /\ pc' = [pc EXCEPT ![c] = "match"]
    /\ req' = [req EXCEPT ![c] = [NoRequest EXCEPT !.kind = "submit", !.id = nextId,
                                                   !.bps = bps]]
    /\ dBal' = [dBal EXCEPT ![c] =
                   Move(@, AvailableOf(row), HeldOf(row), HoldOf(row, row.qty))]
    /\ wStatus' = [wStatus EXCEPT ![c][nextId] = "OPEN"]
    /\ UNCHANGED <<dbVars, dExec, dRefs>>

PlaceRefused(c, row) ==
    /\ pc[c] = "idle"
    /\ nextId \in Ids
    /\ BalanceSeen(c, AvailableOf(row)) < HoldOf(row, row.qty)
    /\ nextId' = nextId + 1
    /\ UNCHANGED <<order, dbVars, pc, req, dExec, dBal, dRefs, wStatus>>

\* executeLimitOrderAgainstBook reads the candidates once.
Match(c) ==
    /\ pc[c] = "match"
    /\ ~Throws(c)
    /\ LET o == req[c].id IN
        /\ req' = [req EXCEPT ![c].makers = MatchingOrders(c, o),
                              ![c].remaining = order[o].qty]
        /\ pc' = [pc EXCEPT ![c] = IF order[o].tif = "FOK" THEN "fok" ELSE "fill"]
    /\ UNCHANGED <<nextId, order, dbVars, dExec, dBal, dRefs, wStatus>>

CheckFok(c) ==
    /\ pc[c] = "fok"
    /\ ~Throws(c)
    /\ pc' = [pc EXCEPT ![c] = "fill"]
    /\ UNCHANGED <<nextId, order, dbVars, req, dExec, dBal, dRefs, wStatus>>

\* One turn of the loop: the first candidate left is read again, and skipped
\* when it can no longer fill; otherwise the Trade row is inserted.
FillMaker(c) ==
    /\ pc[c] = "fill"
    /\ req[c].remaining > 0
    /\ ~Throws(c)
    /\ \E m \in req[c].makers :
        LET taker == req[c].id
            left == RemainingQty(order[m].qty, ExecutedSeen(c, m))
            q == Lesser(req[c].remaining, left)
            isBuy == order[taker].side = "BUY"
        IN  /\ IsFirst(m, req[c].makers)
            /\ IF CanReceiveFills(StatusSeen(c, m)) /\ left > 0
               THEN /\ req' = [req EXCEPT
                                  ![c].makers = @ \ {m},
                                  ![c].remaining = @ - q,
                                  ![c].buy = IF isBuy THEN taker ELSE m,
                                  ![c].sell = IF isBuy THEN m ELSE taker,
                                  ![c].qty = q,
                                  ![c].price = order[m].price]
                    /\ dExec' = [dExec EXCEPT ![c][m] = @ + q, ![c][taker] = @ + q]
                    /\ pc' = [pc EXCEPT ![c] = "settle"]
               ELSE /\ req' = [req EXCEPT ![c].makers = @ \ {m}]
                    /\ UNCHANGED <<pc, dExec>>
    /\ UNCHANGED <<nextId, order, dbVars, dBal, dRefs, wStatus>>

\* settleMatchedTrade and, for a matched submission, releaseBuyPriceImprovement,
\* which posts without looking at the held balance.
SettleFill(c) ==
    /\ pc[c] = "settle"
    /\ ~Throws(c)
    /\ LET buyer == order[req[c].buy]
           seller == order[req[c].sell]
           fee == QuoteFee(Gross(c), req[c].bps)
           quoteMoved == Move(dBal[c], HeldOf(buyer),
                              Available(seller.user, "quote"), Gross(c))
           feeTaken == Move(quoteMoved, Available(seller.user, "quote"), FeeRevenue, fee)
           baseMoved == Move(feeTaken, HeldOf(seller),
                             Available(buyer.user, "base"), req[c].qty)
           better == IF req[c].kind = "demo" THEN 0
                     ELSE PriceImprovement(buyer.price, req[c].price, req[c].qty)
       IN  dBal' = [dBal EXCEPT ![c] =
                       Move(baseMoved, HeldOf(buyer), AvailableOf(buyer), better)]
    /\ req' = [req EXCEPT ![c].sync = "BUY"]
    /\ pc' = [pc EXCEPT ![c] = "syncRead"]
    /\ UNCHANGED <<nextId, order, dbVars, dExec, dRefs, wStatus>>

\* syncOrderStatusFromTrades: the reads ...
SyncRead(c) ==
    /\ pc[c] = "syncRead"
    /\ ~Throws(c)
    /\ req' = [req EXCEPT ![c].next = DerivedSeen(c, SyncedOrder(c))]
    /\ pc' = [pc EXCEPT ![c] = "syncWrite"]
    /\ UNCHANGED <<nextId, order, dbVars, dExec, dBal, dRefs, wStatus>>

\* ... and the update, which waits for the row.  The buy order comes first.
SyncWrite(c) ==
    /\ pc[c] = "syncWrite"
    /\ ~Locked(c, SyncedOrder(c))
    /\ wStatus' = [wStatus EXCEPT ![c][SyncedOrder(c)] = req[c].next]
    /\ req' = [req EXCEPT ![c].sync = Opposite(@), ![c].next = "NONE"]
    /\ pc' = [pc EXCEPT ![c] = IF req[c].sync = "BUY" THEN "syncRead"
                               ELSE IF req[c].kind = "submit" THEN "fill" ELSE "residual"]
    /\ UNCHANGED <<nextId, order, dbVars, dExec, dBal, dRefs>>

\* The loop is over: an IOC or FOK remainder has to be cancelled.
LeaveLoop(c) ==
    /\ pc[c] = "fill"
    /\ req[c].remaining = 0 \/ req[c].makers = {}
    /\ LET o == req[c].id
           rest == TifAction(order[o].tif, ExecutedSeen(c, o), order[o].qty)
       IN  pc' = [pc EXCEPT ![c] =
                     IF rest = "CANCEL_REMAINDER" /\ req[c].remaining > 0
                     THEN "cancelRest" ELSE "commit"]
    /\ UNCHANGED <<nextId, order, dbVars, req, dExec, dBal, dRefs, wStatus>>

\* releaseOrderOnCancel and the status update for the taker's own row.
CancelRest(c) ==
    /\ pc[c] = "cancelRest"
    /\ ~Throws(c)
    /\ LET o == req[c].id
           row == order[o]
       IN  /\ dBal' = [dBal EXCEPT ![c] = Move(@, HeldOf(row), AvailableOf(row),
                                               HoldOf(row, req[c].remaining))]
           /\ dRefs' = [dRefs EXCEPT ![c] = @ \cup {<<o, "CANCEL_RELEASE">>}]
           /\ wStatus' = [wStatus EXCEPT ![c][o] = "CANCELLED"]
    /\ pc' = [pc EXCEPT ![c] = "commit"]
    /\ UNCHANGED <<nextId, order, dbVars, req, dExec>>

\* The transaction's writes become visible together, once the engine has
\* reconciled a submitted order with its trades (reconcileOrderExecution).
Commit(c) ==
    /\ pc[c] = "commit"
    /\ ~Throws(c)
    /\ status' = [o \in Ids |-> StatusSeen(c, o)]
    /\ executed' = [o \in Ids |-> ExecutedSeen(c, o)]
    /\ bal' = [a \in Account |-> BalanceSeen(c, a)]
    /\ refs' = refs \cup dRefs[c]
    /\ EndRequest(c)
    /\ UNCHANGED <<nextId, order>>

-----------------------------------------------------------------------------
(* The cancel routes.  The order is read, and its remaining quantity       *)
(* computed, before the transaction that uses them begins.                 *)

ReadCancel(c, o) ==
    /\ pc[c] = "idle"
    /\ status[o] # "NONE"
    /\ CanCancel(status[o])
    /\ executed[o] < order[o].qty
    /\ req' = [req EXCEPT ![c] = [NoRequest EXCEPT !.kind = "cancel", !.id = o,
                                     !.remaining = RemainingQty(order[o].qty, executed[o])]]
    /\ pc' = [pc EXCEPT ![c] = "releaseHold"]
    /\ UNCHANGED <<nextId, order, dbVars, dExec, dBal, dRefs, wStatus>>

\* releaseOrderOnCancel: an earlier release of the order is left as it is.
ReleaseHold(c) ==
    /\ pc[c] = "releaseHold"
    /\ ~Throws(c)
    /\ LET o == req[c].id
           row == order[o]
       IN  IF RefSeen(c, <<o, "CANCEL_RELEASE">>)
           THEN UNCHANGED <<dBal, dRefs>>
           ELSE /\ dBal' = [dBal EXCEPT ![c] = Move(@, HeldOf(row), AvailableOf(row),
                                                    HoldOf(row, req[c].remaining))]
                /\ dRefs' = [dRefs EXCEPT ![c] = @ \cup {<<o, "CANCEL_RELEASE">>}]
    /\ pc' = [pc EXCEPT ![c] = "cancelWrite"]
    /\ UNCHANGED <<nextId, order, dbVars, req, dExec, wStatus>>

\* The row is set to CANCELLED whatever its status has become.
CancelWrite(c) ==
    /\ pc[c] = "cancelWrite"
    /\ ~Locked(c, req[c].id)
    /\ wStatus' = [wStatus EXCEPT ![c][req[c].id] = "CANCELLED"]
    /\ pc' = [pc EXCEPT ![c] = "commit"]
    /\ UNCHANGED <<nextId, order, dbVars, req, dExec, dBal, dRefs>>

-----------------------------------------------------------------------------
(* POST /fills/demo: a caller names two OPEN orders, a quantity and a      *)
(* price.  Settlement and synchronisation are those of a matched fill.     *)

DemoFill(c, b, s, q, p, bps) ==
    /\ pc[c] = "idle"
    /\ status[b] = "OPEN" /\ order[b].side = "BUY"
    /\ status[s] = "OPEN" /\ order[s].side = "SELL"
    /\ req' = [req EXCEPT ![c] = [NoRequest EXCEPT !.kind = "demo", !.bps = bps,
                                     !.buy = b, !.sell = s, !.qty = q, !.price = p]]
    /\ dExec' = [dExec EXCEPT ![c][b] = @ + q, ![c][s] = @ + q]
    /\ pc' = [pc EXCEPT ![c] = "settle"]
    /\ UNCHANGED <<nextId, order, dbVars, dBal, dRefs, wStatus>>

\* releaseResidualHoldAfterExecution, once and only for a filled buy order; it
\* counts the quote spent by this one fill.
ReleaseResidual(c) ==
    /\ pc[c] = "residual"
    /\ ~Throws(c)
    /\ LET b == req[c].buy
           row == order[b]
           ref == <<b, "FINAL_RESIDUAL_RELEASE">>
           amount == ResidualHold(row.qty, row.price, ExecutedSeen(c, b), Gross(c))
       IN  IF StatusSeen(c, b) = "FILLED" /\ amount > 0 /\ ~RefSeen(c, ref)
           THEN /\ dBal' = [dBal EXCEPT ![c] =
                               Move(@, HeldOf(row), AvailableOf(row), amount)]
                /\ dRefs' = [dRefs EXCEPT ![c] = @ \cup {ref}]
           ELSE UNCHANGED <<dBal, dRefs>>
    /\ pc' = [pc EXCEPT ![c] = "reconcile"]
    /\ UNCHANGED <<nextId, order, dbVars, req, dExec, wStatus>>

\* reconcileOrderExecution of both orders.
Reconcile(c) ==
    /\ pc[c] = "reconcile"
    /\ ~Throws(c)
    /\ pc' = [pc EXCEPT ![c] = "commit"]
    /\ UNCHANGED <<nextId, order, dbVars, req, dExec, dBal, dRefs, wStatus>>

-----------------------------------------------------------------------------
Request(c) ==
    \/ \E row \in OrderRow : PlaceRefused(c, row) \/ \E bps \in FeeBps : Place(c, row, bps)
    \/ \E o \in Ids : ReadCancel(c, o)
    \/ \E b, s \in Ids, q \in Qtys, p \in DemoPrices, bps \in FeeBps :
           DemoFill(c, b, s, q, p, bps)

\* Everything a handler does by itself once its request is in progress.
Proceed(c) ==
    \/ Match(c) \/ CheckFok(c) \/ FillMaker(c) \/ SettleFill(c)
    \/ SyncRead(c) \/ SyncWrite(c) \/ LeaveLoop(c) \/ CancelRest(c)
    \/ ReleaseHold(c) \/ CancelWrite(c)
    \/ ReleaseResidual(c) \/ Reconcile(c)
    \/ Commit(c) \/ Fail(c)

Next == \E c \in Clients : Request(c) \/ Proceed(c) \/ Abort(c)

Spec == Init /\ [][Next]_vars

\* A handler that can run does run (the event loop and the database are never
\* idle while it is ready), and a waiter for a row gets it before those who ask
\* for it later (the database queues them).  Requests need not come.
Fairness ==
    \A c \in Clients :
        WF_vars(Proceed(c)) /\ SF_vars(SyncWrite(c)) /\ SF_vars(CancelWrite(c))

FairSpec == Spec /\ Fairness

=============================================================================
