----------------------- MODULE AgentTradingProperties -----------------------
(***************************************************************************)
(* What AgentTrading and RateLimits are checked for.                       *)
(***************************************************************************)
EXTENDS AgentTrading

Steps == {"idle", "nonce", "load", "usage", "admit", "place", "count"}

-----------------------------------------------------------------------------
(* Limits of the process.                                                  *)

\* However requests of agents and users overlap, a sliding window never lets more than
\* its limit pass in any span of its length, though it forgets what is older.
WindowsBounded ==
    \A k \in WindowKey, t \in Time :
        Limit[k] > 0 =>
            Cardinality({r \in admitted[k] : t - WindowLength < at[r] /\ at[r] =< t}) =< Limit[k]

\* The bucket refuses only while BucketMax requests have passed within its last
\* BucketLife: requests that are refused do not keep it shut.
BucketReopens ==
    bucket.resetAt > now /\ bucket.count >= BucketMax =>
        Cardinality({p \in let : p[2] > now - BucketLife}) >= BucketMax

-----------------------------------------------------------------------------
(* Commands of the agent.                                                  *)

\* c's command has passed the check of its nonce.
Taken(c) == pc[c] \notin {"idle", "nonce"}

\* A command is carried out at most once however often and late it is delivered, though
\* its nonce is forgotten: no two requests that carry it pass, at once or one after the
\* other.
ActsOnce ==
    \A c \in Clients : Taken(c) =>
        /\ \A d \in Clients \ {c} : Taken(d) => cmd[d] # cmd[c]
        /\ order[cmd[c]] # None => pc[c] = "count"

OrdersOn(m, d) == {n \in Commands \ lost : order[n] = [mandate |-> m, day |-> d]}

\* maxOrdersPerDay is exceeded only by requests that overlap: the orders of a mandate
\* that were checked on one day are at most its limit and one for each request beside
\* the last, unless an order was never counted.
DailyLimit ==
    \A m \in MandateIds, d \in Days :
        mandate[m] # None /\ mandate[m].maxOrders > 0 =>
            Cardinality(OrdersOn(m, d)) < mandate[m].maxOrders + Cardinality(Clients)

\* The agent is revoked and none of its requests is past the check that would notice.
AgentStopped ==
    agent = "REVOKED" /\ \A c \in Clients : pc[c] \in {"idle", "nonce", "load"}

MandateStopped(m) == m \in revoked /\ \A c \in Clients : using[c] # m

\* A revocation is for good once the requests that had passed are over: no order of the
\* agent, or under the mandate, follows, whatever keys and mandates are added since.
RevocationsHold ==
    [][/\ AgentStopped => AgentStopped' /\ order' = order
       /\ \A m \in MandateIds : MandateStopped(m) =>
             /\ MandateStopped(m)'
             /\ \A n \in Commands : order'[n] # order[n] => order'[n].mandate # m]_vars

\* However rotations overlap, the newest key works as soon as none of them is between its
\* two statements, unless one has failed there.
NewestKeyWorks ==
    agent = "ACTIVE" /\ rotating = {} /\ ~keyless =>
        \A n \in Commands :
            signed[n] # None /\ key[signed[n].key] # "NONE"
                /\ (\A k \in KeyIds : key[k] # "NONE" => k =< signed[n].key)
            => Verifies(n)
=============================================================================
