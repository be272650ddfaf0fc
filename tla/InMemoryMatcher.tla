-------------------------- MODULE InMemoryMatcher ---------------------------
(***************************************************************************)
(* The optional matcher: lib/matching/in-memory-matching-engine.ts over    *)
(* in-memory-order-book.ts.  The book lives in the process, beside the     *)
(* tables of Exchange that it is supposed to mirror.  Placement,           *)
(* settlement, synchronisation and cancels are those of Exchange (Core).   *)
(*                                                                         *)
(* submitLimitOrder runs the matcher on the symbol's lane, a queue of      *)
(* tasks (LaneQueue), but opens its transaction before and commits it      *)
(* after.  This matcher charges no fee.                                    *)
(***************************************************************************)
EXTENDS OrderState, Sequences, FiniteSetsExt

CONSTANTS
    Clients, Users, MaxOrders, Prices, Qtys, Tifs, FeeBps, DemoPrices,
    BaseFunds, QuoteFunds, NoOrder  \* see Exchange

VARIABLES
    nextId, order, status, executed, bal, refs, pc, req,
    dExec, dBal, dRefs, wStatus,    \* see Exchange
    book,   \* quantity each order has left in the book, 0 when it is not in it
    known,  \* what the book holds of each order that was ever added to it
    lane,   \* clients whose task is on the lane, oldest first
    fills   \* what matchIncoming took from each maker and is not yet settled

Core == INSTANCE Exchange

Ids == Core!Ids

\* What Exchange assumes of orders; the demo route is left to Exchange.
ASSUME MatcherAssumption ==
    /\ IsFiniteSet(Clients)
    /\ MaxOrders \in Nat
    /\ Prices \subseteq Nat \ {0}
    /\ Qtys \subseteq Nat \ {0}
    /\ Tifs \subseteq TimeInForce
    /\ FeeBps \subseteq Nat
    /\ NoOrder \notin Core!OrderRow
    /\ DemoPrices = {}

dbVars == <<status, executed, bal, refs>>
coreVars == <<nextId, order, status, executed, bal, refs,
              pc, req, dExec, dBal, dRefs, wStatus>>
vars == <<coreVars, book, known, lane, fills>>

NoFills == [o \in Ids |-> 0]

Init ==
    /\ Core!Init
    /\ book = NoFills
    /\ known = [o \in Ids |-> NoOrder]
    /\ lane = << >>
    /\ fills = [c \in Clients |-> NoFills]

-----------------------------------------------------------------------------
(* The book.  A taker is the row of an order that is not in it yet.        *)

Sum(quantity, S) == MapThenSumSet(LAMBDA o : quantity[o], S)

\* sortMakersForTaker: m goes before n.
Before(m, n) ==
    IF known[m].price = known[n].price THEN m < n
    ELSE (known[m].price < known[n].price) <=> known[m].side = "SELL"

\* Orders that can give to a taker, whatever the tables say of them.
Makers(taker) ==
    {m \in Ids : /\ book[m] > 0
                 /\ known[m].side = Opposite(taker.side)
                 /\ Crosses(taker.side, taker.price, known[m].price)}

\* matchIncoming: each maker gives what those before it have left wanting.
Taken(taker) ==
    [m \in Ids |->
        IF m \notin Makers(taker) THEN 0
        ELSE LET before == {n \in Makers(taker) : n # m /\ Before(n, m)}
             IN  Lesser(RemainingQty(taker.qty, Sum(book, before)), book[m])]

\* assertPostOnlyWouldRest or assertFokCanFullyFill throws.
Refused(taker) ==
    \/ taker.tif = "POST_ONLY" /\ Makers(taker) # {}
    \/ taker.tif = "FOK" /\ Sum(book, Makers(taker)) < taker.qty

\* Wrong on purpose: the whole order rests.
Rests_Whole(taker) ==
    IF TifAction(taker.tif, Sum(Taken(taker), Ids), taker.qty) = "KEEP_OPEN"
    THEN taker.qty ELSE 0

\* What is added to the book of the taker itself.
Rests(taker) ==
    LET filled == Sum(Taken(taker), Ids)
    IN  IF TifAction(taker.tif, filled, taker.qty) = "KEEP_OPEN"
        THEN RemainingQty(taker.qty, filled) ELSE 0

-----------------------------------------------------------------------------
\* Wrong on purpose: a task that throws keeps its place on the lane.
LaneAfter_Stuck(c) == lane

\* The task is over, or will be as soon as its turn comes.
LaneAfter(c) ==
    IF \E i \in DOMAIN lane : lane[i] = c
    THEN LET turn == CHOOSE i \in DOMAIN lane : lane[i] = c
         IN  SubSeq(lane, 1, turn - 1) \o SubSeq(lane, turn + 1, Len(lane))
    ELSE lane

HasTurn(c) == pc[c] = "queued" /\ Head(lane) = c

\* The fill that is settled next.
IsNext(c, m) ==
    /\ fills[c][m] > 0
    /\ \A n \in Ids \ {m} : fills[c][n] > 0 => Before(m, n)

\* A statement of Core throws, the book refuses the order, or the row of a maker is not
\* there: it is not committed yet, or never will be.
Throws(c) ==
    \/ Core!Throws(c) /\ pc[c] # "match"
    \/ HasTurn(c) /\ Refused(order[req[c].id])
    \/ pc[c] = "fill" /\ \E m \in Ids : IsNext(c, m) /\ Core!StatusSeen(c, m) = "NONE"

\* The tables are as if nothing had happened; the book is not.
Rollback(c) ==
    /\ Core!Rollback(c)
    /\ lane' = LaneAfter(c)
    /\ fills' = [fills EXCEPT ![c] = NoFills]
    /\ UNCHANGED <<book, known>>

Fail(c) == Throws(c) /\ Rollback(c)

Abort(c) == pc[c] # "idle" /\ Rollback(c)

\* The hold has been posted, and the task is handed in.
HandIn(c) ==
    /\ pc[c] = "match"
    /\ lane' = Append(lane, c)
    /\ pc' = [pc EXCEPT ![c] = "queued"]
    /\ UNCHANGED <<nextId, order, dbVars, req, dExec, dBal, dRefs, wStatus,
                   book, known, fills>>

\* The book is walked before anything is settled.
MatchIncoming(c) ==
    /\ HasTurn(c)
    /\ ~Throws(c)
    /\ LET o == req[c].id
           taken == Taken(order[o])
       IN  /\ book' = [[m \in Ids |-> book[m] - taken[m]] EXCEPT ![o] = Rests(order[o])]
           /\ known' = [known EXCEPT ![o] = order[o]]
           /\ fills' = [fills EXCEPT ![c] = taken]
    /\ pc' = [pc EXCEPT ![c] = "fill"]
    /\ UNCHANGED <<nextId, order, dbVars, req, dExec, dBal, dRefs, wStatus, lane>>

\* The maker's row is found and the Trade row inserted; Core settles and synchronises.
FillMaker(c) ==
    /\ pc[c] = "fill"
    /\ ~Throws(c)
    /\ \E m \in Ids :
        LET taker == req[c].id
            isBuy == order[taker].side = "BUY"
            q == fills[c][m]
        IN  /\ IsNext(c, m)
            /\ fills' = [fills EXCEPT ![c][m] = 0]
            /\ req' = [req EXCEPT ![c].buy = IF isBuy THEN taker ELSE m,
                                  ![c].sell = IF isBuy THEN m ELSE taker,
                                  ![c].qty = q,
                                  ![c].price = known[m].price,
                                  ![c].bps = 0]
            /\ dExec' = [dExec EXCEPT ![c][m] = @ + q, ![c][taker] = @ + q]
    /\ pc' = [pc EXCEPT ![c] = "settle"]
    /\ UNCHANGED <<nextId, order, dbVars, dBal, dRefs, wStatus, book, known, lane>>

\* All fills are settled; an IOC remainder is cancelled by Core.
LeaveLoop(c) ==
    /\ pc[c] = "fill"
    /\ fills[c] = NoFills
    /\ LET o == req[c].id
           seen == Core!ExecutedSeen(c, o)
           cancels == TifAction(order[o].tif, seen, order[o].qty) = "CANCEL_REMAINDER"
       IN  /\ req' = [req EXCEPT ![c].remaining = RemainingQty(order[o].qty, seen)]
           /\ pc' = [pc EXCEPT ![c] = IF cancels THEN "cancelRest" ELSE "commit"]
    /\ UNCHANGED <<nextId, order, dbVars, dExec, dBal, dRefs, wStatus,
                   book, known, lane, fills>>

\* The task is over and the lane free for the next, before the transaction commits.
LeaveLane(c) ==
    /\ pc[c] = "commit"
    /\ \E i \in DOMAIN lane : lane[i] = c
    /\ lane' = LaneAfter(c)
    /\ UNCHANGED <<coreVars, book, known, fills>>

Commit(c) ==
    /\ \A i \in DOMAIN lane : lane[i] # c
    /\ Core!Commit(c)
    /\ UNCHANGED <<book, known, lane, fills>>

\* The process starts again with empty books, and open transactions are rolled back.
Restart ==
    /\ order' = [o \in Ids |-> IF status[o] = "NONE" THEN NoOrder ELSE order[o]]
    /\ pc' = [c \in Clients |-> "idle"]
    /\ req' = [c \in Clients |-> Core!NoRequest]
    /\ dExec' = [c \in Clients |-> Core!NoExec]
    /\ dBal' = [c \in Clients |-> Core!NoMoves]
    /\ dRefs' = [c \in Clients |-> {}]
    /\ wStatus' = [c \in Clients |-> Core!NoWrites]
    /\ book' = NoFills
    /\ known' = [o \in Ids |-> NoOrder]
    /\ lane' = << >>
    /\ fills' = [c \in Clients |-> NoFills]
    /\ UNCHANGED <<nextId, dbVars>>

-----------------------------------------------------------------------------
\* Cancels know nothing of the book.
Request(c) == Core!Request(c) /\ UNCHANGED <<book, known, lane, fills>>

Statement(c) ==
    /\ \/ Core!SettleFill(c) \/ Core!SyncRead(c) \/ Core!SyncWrite(c) \/ Core!CancelRest(c)
       \/ Core!ReleaseHold(c) \/ Core!CancelWrite(c)
    /\ UNCHANGED <<book, known, lane, fills>>

Proceed(c) ==
    \/ HandIn(c) \/ MatchIncoming(c) \/ FillMaker(c) \/ LeaveLoop(c) \/ LeaveLane(c)
    \/ Statement(c) \/ Commit(c) \/ Fail(c)

Next == Restart \/ \E c \in Clients : Request(c) \/ Proceed(c) \/ Abort(c)

Spec == Init /\ [][Next]_vars
=============================================================================
