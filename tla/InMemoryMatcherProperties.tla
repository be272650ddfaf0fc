--------------------- MODULE InMemoryMatcherProperties ----------------------
(***************************************************************************)
(* What InMemoryMatcher is checked for, with overlapping requests, aborted *)
(* transactions, cancels and restarts.                                     *)
(***************************************************************************)
EXTENDS InMemoryMatcher

\* What client c's transaction has traded, or matched and will trade, of an order.
Claimed(c, o) ==
    dExec[c][o] + fills[c][o] + (IF req[c].id = o THEN Sum(fills[c], Ids) ELSE 0)

\* No unit of an order is offered twice: what is in the book, what open transactions have
\* matched and what has been traded never exceed the order together, although the lane is
\* left before the commit, transactions roll back and orders are cancelled.
NothingOfferedTwice ==
    \A o \in Ids : order[o] # NoOrder =>
        book[o] + executed[o] + MapThenSumSet(LAMBDA c : Claimed(c, o), Clients)
            =< order[o].qty

\* The book never rests crossed, whatever has left it without being traded.
BookUncrossed ==
    \A b, s \in Ids :
        book[b] > 0 /\ book[s] > 0 /\ known[b].side = "BUY" /\ known[s].side = "SELL"
            => known[b].price < known[s].price

IsBefore(c, d) == \E i, j \in DOMAIN lane : i < j /\ lane[i] = c /\ lane[j] = d

\* c waits for its turn on the lane, which d has or gets before it, or for a row that d's
\* transaction has updated.
WaitsFor(c, d) ==
    \/ pc[c] = "queued" /\ IsBefore(d, c)
    \/ pc[c] = "syncWrite" /\ wStatus[d][Core!SyncedOrder(c)] # "NONE"
    \/ pc[c] = "cancelWrite" /\ wStatus[d][req[c].id] # "NONE"

\* The lane and the rows never bring requests to a standstill: of any requests one waits
\* for none of the others, and whoever is on the lane has a task there that is not over,
\* failures, timeouts and restarts included.
NoStandstill ==
    /\ \A S \in (SUBSET Clients) \ {{}} : \E c \in S : \A d \in S \ {c} : ~WaitsFor(c, d)
    /\ \A i \in DOMAIN lane : pc[lane[i]] \notin {"idle", "match"}

=============================================================================
