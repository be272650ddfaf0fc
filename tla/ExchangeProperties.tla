------------------------ MODULE ExchangeProperties ------------------------
(***************************************************************************)
(* What Exchange is checked for.  Some of it holds however requests        *)
(* overlap; the rest holds when they do not, and the runs say which.       *)
(***************************************************************************)
EXTENDS Exchange

Live == {o \in Ids : status[o] \in Resting}

Kinds == {"none", "submit", "cancel", "demo"}

Steps == {"idle", "match", "fok", "fill", "settle", "syncRead", "syncWrite",
          "cancelRest", "releaseHold", "cancelWrite", "residual", "reconcile", "commit"}

RequestType ==
    [kind : Kinds, id : 0..MaxOrders, bps : Nat, makers : SUBSET Ids,
     remaining : Nat, buy : 0..MaxOrders, sell : 0..MaxOrders, qty : Nat,
     price : Nat, sync : Side, next : Status \cup {"NONE"}]

\* The variables keep their shape: rows, balances and local variables of the
\* handlers in the code named above.
TypeOK ==
    /\ nextId \in Nat \ {0}
    /\ order \in [Ids -> OrderRow \cup {NoOrder}]
    /\ status \in [Ids -> Status \cup {"NONE"}]
    /\ executed \in [Ids -> Nat]
    /\ bal \in [Account -> Int]
    /\ refs \subseteq Reference
    /\ pc \in [Clients -> Steps]
    /\ req \in [Clients -> RequestType]
    /\ dExec \in [Clients -> [Ids -> Nat]]
    /\ dBal \in [Clients -> [Account -> Int]]
    /\ dRefs \in [Clients -> SUBSET Reference]
    /\ wStatus \in [Clients -> [Ids -> Status \cup {"NONE"}]]

-----------------------------------------------------------------------------
(* However requests overlap.                                               *)

Owned(asset) == {a \in Account : a[2] = asset}

\* Placement, fills, fees, price improvement, releases and rollbacks only move
\* money: what the accounts of an asset hold together never changes (the
\* GLOBAL_BALANCE check of workers/reconciliation.ts).
MoneyConserved ==
    /\ MapThenSumSet(LAMBDA a : bal[a], Owned("base"))
           = MapThenSumSet(LAMBDA u : BaseFunds, Users)
    /\ MapThenSumSet(LAMBDA a : bal[a], Owned("quote"))
           = MapThenSumSet(LAMBDA u : QuoteFunds, Users)

\* A submission moves held balances by exactly what it filled and what it leaves
\* resting, whatever commits beside it: each fill takes a maker's hold at the maker's
\* limit, the taker's own hold ends as the hold of its resting remainder, and price
\* improvement and cancelled remainders leave nothing held.
SubmissionsMoveTheirHolds ==
    [][LET Change(o) ==
               IF status[o] # "NONE" THEN -HoldOf(order[o], executed'[o] - executed[o])
               ELSE IF status'[o] \in Resting
                    THEN HoldOf(order[o], RemainingQty(order[o].qty, executed'[o])) ELSE 0
           Mine(u, side) == {o \in Ids : /\ status'[o] # "NONE"
                                         /\ order[o].user = u /\ order[o].side = side}
       IN  (\E o \in Ids : status[o] = "NONE" /\ status'[o] # "NONE") =>
               \A u \in Users, side \in Side :
                   LET held == Held(u, HoldAsset(side))
                   IN  bal'[held] = bal[held] + MapThenSumSet(Change, Mine(u, side))]_vars

\* When an order becomes visible its time in force has been obeyed: POST_ONLY
\* has taken nothing, IOC and FOK do not rest, GTC is not cancelled by matching.
TimeInForceObeyed ==
    [][\A o \in Ids :
          status[o] = "NONE" /\ status'[o] # "NONE" =>
              CASE order[o].tif = "POST_ONLY" -> status'[o] = "OPEN" /\ executed'[o] = 0
                [] order[o].tif \in {"IOC", "FOK"} -> status'[o] \in {"FILLED", "CANCELLED"}
                [] OTHER -> status'[o] # "CANCELLED"]_vars

\* c waits for a row that d's transaction has updated.
WaitsFor(c, d) ==
    \/ pc[c] = "syncWrite" /\ wStatus[d][SyncedOrder(c)] # "NONE"
    \/ pc[c] = "cancelWrite" /\ wStatus[d][req[c].id] # "NONE"

\* Price-time priority is also a locking order: two transactions never wait for
\* each other's rows, so the database never has to kill one.
NoLockCycle == \A c, d \in Clients : c # d => ~(WaitsFor(c, d) /\ WaitsFor(d, c))

\* Every request ends, in a commit or a rollback.
RequestsEnd == \A c \in Clients : pc[c] # "idle" ~> pc[c] = "idle"

-----------------------------------------------------------------------------
(* When requests do not overlap, and nobody calls the demo route.          *)

\* Every user's held account is exactly what the live orders still reserve: no
\* fill, improvement, cancel or failure leaves a hold behind or eats another's.
HoldsBackLiveOrders ==
    \A u \in Users, side \in Side :
        bal[Held(u, HoldAsset(side))] =
            MapThenSumSet(
                LAMBDA o : HoldOf(order[o], RemainingQty(order[o].qty, executed[o])),
                {o \in Live : order[o].user = u /\ order[o].side = side})

\* No account is overdrawn (NON_NEGATIVE_BALANCES of workers/reconciliation.ts).
NonNegativeBalances == \A a \in Account : bal[a] >= 0

\* A crossing pair never rests: matching takes every price it may take.
BookUncrossed ==
    \A b, s \in Live : order[b].side = "BUY" /\ order[s].side = "SELL"
                           => order[b].price < order[s].price

\* A fill-or-kill order is either filled or never seen.
FokAllOrNothing ==
    [][\A o \in Ids : status[o] = "NONE" /\ status'[o] # "NONE" /\ order[o].tif = "FOK"
                          => status'[o] = "FILLED"]_vars

\* A taker reaches a maker only after filling every maker before it in price-time
\* priority.
PriceTimePriority ==
    [][\A t, m, n \in Ids :
          /\ status[t] = "NONE" /\ status'[t] # "NONE"
          /\ m \in Live /\ n \in Live
          /\ order[m].side = Opposite(order[t].side)
          /\ order[n].side = order[m].side
          /\ m # n /\ Before(m, n)
          /\ executed'[n] > executed[n]
          => status'[m] = "FILLED"]_vars

\* Exchange implements OrderLifecycle.
Lifecycle == INSTANCE OrderLifecycle WITH
    Size <- Qtys,
    size <- [o \in Ids |-> IF status[o] = "NONE" THEN 0 ELSE order[o].qty],
    state <- status,
    filled <- executed

ImplementsLifecycle == Lifecycle!Spec
=============================================================================
