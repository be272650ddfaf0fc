---------------------------- MODULE AgentTrading ----------------------------
(***************************************************************************)
(* Orders that an agent of a user places with signed commands, beside the  *)
(* orders that users place themselves:                                     *)
(*                                                                         *)
(*   middleware/ibac.ts    enforceMandate: nonce, key, mandate, usage      *)
(*   routes/trade.ts       POST /orders: admission, order, count           *)
(*   routes/orders.ts      POST /: rate limit, admission                   *)
(*   routes/agents.ts      create, rotate the key, revoke                  *)
(*   routes/mandates.ts    issue, revoke                                   *)
(*                                                                         *)
(* One agent.  A client is a request in progress that carries a command; a *)
(* command may be delivered late and any number of times, and requests     *)
(* overlap between their database statements.  What submitLimitOrder does  *)
(* with an order it admits is Exchange's business: here it places the      *)
(* order or the request ends.                                              *)
(***************************************************************************)
EXTENDS RateLimits, FiniteSetsExt

CONSTANTS
    Clients,      \* requests of the agent that may be in progress together
    Rotators,     \* key rotations that may be in progress together
    Commands,     \* nonces of the agent
    HumanOrders,  \* requests of users
    Owner,        \* the agent's user
    Markets,
    AnyMarket,    \* a mandate without a market
    MandateRows,  \* mandates that are issued
    MaxMandates,  \* bound: mandates issued
    MaxKeys,      \* bound: keys created
    MaxTurns,     \* bound: commands signed, users' requests, changes made by the owner
    ClockErrors,  \* how far the agent's clock may be ahead of the server's
    Skew,         \* MAX_SKEW_MS
    NonceLife,    \* NONCE_TTL_MS * 10
    DayLength,
    None

MandateIds == 1..MaxMandates
KeyIds == 1..MaxKeys

Day(t) == t \div DayLength
Days == {Day(t) : t \in Time}

MandateRow == [action : {"TRADE", "WITHDRAW", "TRANSFER"}, market : Markets \cup {AnyMarket},
               maxOrders : Nat, notBefore : Time, expiresAt : Nat]

Signed == [market : Markets, ts : Int, key : KeyIds]

Placed == [mandate : MandateIds, day : Days]

ASSUME AgentAssumption ==
    /\ Requests = Commands \cup HumanOrders
    /\ Commands \cap HumanOrders = {}
    /\ IsFiniteSet(Clients)
    /\ Owner \in Traders
    /\ AnyMarket \notin Markets
    /\ MandateRows \subseteq MandateRow
    /\ MaxMandates \in Nat
    /\ MaxKeys \in Nat
    /\ MaxTurns \in Nat
    /\ ClockErrors \subseteq Int
    /\ Skew \in Nat
    /\ NonceLife \in Nat
    /\ NonceLife >= 2 * Skew
    /\ DayLength \in Nat \ {0}
    /\ None \notin Commands \cup MandateRow \cup Signed \cup Placed \cup Int

VARIABLES
    agent,      \* Agent.status, "NONE" before the row is there
    key,        \* the AgentKey rows, in the order of createdAt
    rotating,   \* rotations that have revoked the keys and will create one
    keyless,    \* a rotation has failed in between
    mandate,    \* the Mandate rows, in the order of createdAt
    revoked,    \* those that are revoked
    usage,      \* MandateUsage.ordersPlaced
    nonceAt,    \* createdAt of the RequestNonce rows
    signed,     \* commands the agent has sent
    pc,         \* what a client does next
    cmd,        \* the command it carries
    using,      \* the mandate its principal names
    checked,    \* the day whose usage it read
    order,      \* orders placed, with what they were checked against
    lost,       \* orders that were never counted
    humans,     \* users' requests that have been handled
    turns       \* how much of MaxTurns is used

agentVars == <<agent, key, rotating, keyless>>
mandateVars == <<mandate, revoked>>
countVars == <<usage, nonceAt, order, lost>>
callVars == <<pc, cmd, using, checked>>
vars == <<now, limitVars, agentVars, mandateVars, countVars, callVars, signed, humans, turns>>

Init ==
    /\ now = 0
    /\ LimitsInit
    /\ agent = "NONE"
    /\ key = [k \in KeyIds |-> "NONE"]
    /\ rotating = {}
    /\ keyless = FALSE
    /\ mandate = [m \in MandateIds |-> None]
    /\ revoked = {}
    /\ usage = [m \in MandateIds |-> [d \in Days |-> 0]]
    /\ nonceAt = [n \in Commands |-> None]
    /\ signed = [n \in Commands |-> None]
    /\ pc = [c \in Clients |-> "idle"]
    /\ cmd = [c \in Clients |-> None]
    /\ using = [c \in Clients |-> None]
    /\ checked = [c \in Clients |-> None]
    /\ order = [n \in Commands |-> None]
    /\ lost = {}
    /\ humans = {}
    /\ turns = 0

\* Something happens around the requests.
Turn == turns < MaxTurns /\ turns' = turns + 1

-----------------------------------------------------------------------------
(* The agent and its keys.                                                 *)

NextKey == {k \in KeyIds : key[k] = "NONE" /\ \A j \in KeyIds : key[j] = "NONE" => k =< j}

\* The row and its first key are created together.
CreateAgent ==
    /\ agent = "NONE"
    /\ \E k \in NextKey :
        /\ agent' = "ACTIVE"
        /\ key' = [key EXCEPT ![k] = "LIVE"]
    /\ UNCHANGED <<now, limitVars, rotating, keyless, mandateVars, countVars, callVars,
                   signed, humans, turns>>

KeysRevoked == [k \in KeyIds |-> IF key[k] = "LIVE" THEN "REVOKED" ELSE key[k]]

\* POST /:agentId/keys/rotate: two statements, and no look at the agent's status.
RotateRevoke(r) ==
    /\ Turn
    /\ agent # "NONE"
    /\ r \notin rotating
    /\ Cardinality(rotating) < Cardinality({k \in KeyIds : key[k] = "NONE"})
    /\ rotating' = rotating \cup {r}
    /\ key' = KeysRevoked
    /\ UNCHANGED <<now, limitVars, agent, keyless, mandateVars, countVars, callVars,
                   signed, humans>>

RotateCreate(r) ==
    /\ r \in rotating
    /\ rotating' = rotating \ {r}
    /\ \E k \in NextKey : key' = [key EXCEPT ![k] = "LIVE"]
    /\ UNCHANGED <<now, limitVars, agent, keyless, mandateVars, countVars, callVars,
                   signed, humans, turns>>

RotateFails(r) ==
    /\ r \in rotating
    /\ rotating' = rotating \ {r}
    /\ keyless' = TRUE
    /\ UNCHANGED <<now, limitVars, agent, key, mandateVars, countVars, callVars, signed,
                   humans, turns>>

\* POST /:agentId/revoke, one transaction.
RevokeAgent ==
    /\ Turn
    /\ agent = "ACTIVE"
    /\ agent' = "REVOKED"
    /\ key' = KeysRevoked
    /\ revoked' = {m \in MandateIds : mandate[m] # None}
    /\ UNCHANGED <<now, limitVars, rotating, keyless, mandate, countVars, callVars, signed,
                   humans>>

-----------------------------------------------------------------------------
(* Mandates.  None of the routes looks at the agent's status.              *)

IssueMandate(row) ==
    /\ agent # "NONE"
    /\ \E m \in MandateIds :
        /\ mandate[m] = None
        /\ \A j \in MandateIds : mandate[j] = None => m =< j
        /\ mandate' = [mandate EXCEPT ![m] = row]
    /\ UNCHANGED <<now, limitVars, agentVars, revoked, countVars, callVars, signed, humans,
                   turns>>

RevokeMandate(m) ==
    /\ Turn
    /\ mandate[m] # None
    /\ revoked' = revoked \cup {m}
    /\ UNCHANGED <<now, limitVars, agentVars, mandate, countVars, callVars, signed, humans>>

-----------------------------------------------------------------------------
(* A command: signed by the agent, delivered, and handled by a client.     *)

\* The agent signs with the newest key it has been given.
Sign(n, market, error) ==
    /\ Turn
    /\ signed[n] = None
    /\ \E k \in KeyIds :
        /\ key[k] # "NONE"
        /\ \A j \in KeyIds : key[j] # "NONE" => j =< k
        /\ signed' = [signed EXCEPT ![n] = [market |-> market, ts |-> now + error, key |-> k]]
    /\ UNCHANGED <<now, limitVars, agentVars, mandateVars, countVars, callVars, humans>>

Deliver(c, n) ==
    /\ pc[c] = "idle"
    /\ signed[n] # None
    /\ pc' = [pc EXCEPT ![c] = "nonce"]
    /\ cmd' = [cmd EXCEPT ![c] = n]
    /\ UNCHANGED <<now, limitVars, agentVars, mandateVars, countVars, using, checked,
                   signed, humans, turns>>

\* The request has been answered, or has failed.
EndCall(c) ==
    /\ pc' = [pc EXCEPT ![c] = "idle"]
    /\ cmd' = [cmd EXCEPT ![c] = None]
    /\ using' = [using EXCEPT ![c] = None]
    /\ checked' = [checked EXCEPT ![c] = None]

\* STALE_TIMESTAMP
Stale(n) == now - signed[n].ts > Skew \/ signed[n].ts - now > Skew

\* The keys the middleware loads, newest first, and the first of them.
LiveKeys == {k \in KeyIds : key[k] = "LIVE"}

\* Wrong on purpose: the oldest key comes first.
Verifies_Oldest(n) == LiveKeys # {} /\ Min(LiveKeys) = signed[n].key

Verifies(n) == LiveKeys # {} /\ Max(LiveKeys) = signed[n].key

\* Mandates that are active and cover the command's market now.
Matching(n) ==
    {m \in MandateIds \ revoked :
        /\ mandate[m] # None
        /\ mandate[m].action = "TRADE"
        /\ mandate[m].notBefore =< now
        /\ mandate[m].expiresAt > now
        /\ mandate[m].market \in {AnyMarket, signed[n].market}}

\* Wrong on purpose: the agent's own status is left to its keys and mandates.
Authorized_ByKeys(n) == Verifies(n) /\ Matching(n) # {}

Authorized(n) == agent = "ACTIVE" /\ Verifies(n) /\ Matching(n) # {}

\* Wrong on purpose: one more than the mandate allows.
Spent_OffByOne(m, d) == mandate[m].maxOrders > 0 /\ usage[m][d] > mandate[m].maxOrders

\* The mandate's orders of a day are used up; a limit of 0 allows any number.
Spent(m, d) == mandate[m].maxOrders > 0 /\ usage[m][d] >= mandate[m].maxOrders

\* A check of the middleware ends the request.
Refused(c) ==
    \/ pc[c] = "nonce" /\ (Stale(cmd[c]) \/ nonceAt[cmd[c]] # None)
    \/ pc[c] = "load" /\ ~Authorized(cmd[c])
    \/ pc[c] = "usage" /\ Spent(using[c], checked[c])

Refuse(c) ==
    /\ Refused(c)
    /\ EndCall(c)
    /\ UNCHANGED <<now, limitVars, agentVars, mandateVars, countVars, signed, humans, turns>>

\* Wrong on purpose: nonces are kept no longer than a timestamp is valid.
Outdated_Skew(n) == nonceAt[n] # None /\ nonceAt[n] < now - Skew

Outdated(n) == nonceAt[n] # None /\ nonceAt[n] < now - NonceLife

\* rejectIfReplay stores the nonce, which is unique, and deletes the old ones.
TakeNonce(c) ==
    /\ pc[c] = "nonce"
    /\ ~Refused(c)
    /\ nonceAt' = [n \in Commands |-> IF n = cmd[c] THEN now
                                      ELSE IF Outdated(n) THEN None ELSE nonceAt[n]]
    /\ pc' = [pc EXCEPT ![c] = "load"]
    /\ UNCHANGED <<now, limitVars, agentVars, mandateVars, usage, order, lost,
                   cmd, using, checked, signed, humans, turns>>

\* The agent with its keys and mandates; the newest mandate that matches is used.
Load(c) ==
    /\ pc[c] = "load"
    /\ ~Refused(c)
    /\ using' = [using EXCEPT ![c] = Max(Matching(cmd[c]))]
    /\ checked' = [checked EXCEPT ![c] = Day(now)]
    /\ pc' = [pc EXCEPT ![c] = "usage"]
    /\ UNCHANGED <<now, limitVars, agentVars, mandateVars, countVars, cmd, signed, humans, turns>>

CheckUsage(c) ==
    /\ pc[c] = "usage"
    /\ ~Refused(c)
    /\ pc' = [pc EXCEPT ![c] = "admit"]
    /\ UNCHANGED <<now, limitVars, agentVars, mandateVars, countVars, cmd, using, checked,
                   signed, humans, turns>>

\* enforceAdmissionControls
Admit(c) ==
    /\ pc[c] = "admit"
    /\ TakesFromWindows(Owner, cmd[c])
    /\ IF PassesWindows(Owner)
       THEN pc' = [pc EXCEPT ![c] = "place"] /\ UNCHANGED <<cmd, using, checked>>
       ELSE EndCall(c)
    /\ UNCHANGED <<now, bucket, let, agentVars, mandateVars, countVars, signed, humans, turns>>

\* The order commits ...
Place(c) ==
    /\ pc[c] = "place"
    /\ order' = [order EXCEPT ![cmd[c]] = [mandate |-> using[c], day |-> checked[c]]]
    /\ pc' = [pc EXCEPT ![c] = "count"]
    /\ UNCHANGED <<now, limitVars, agentVars, mandateVars, usage, nonceAt, lost,
                   cmd, using, checked, signed, humans, turns>>

\* ... and bumpOrdersPlaced counts it, on the day that it is by then.
Count(c) ==
    /\ pc[c] = "count"
    /\ usage' = [usage EXCEPT ![using[c]][Day(now)] = @ + 1]
    /\ EndCall(c)
    /\ UNCHANGED <<now, limitVars, agentVars, mandateVars, nonceAt, order, lost, signed, humans, turns>>

\* A statement fails, the order is refused, or the connection is lost: an order that was
\* placed stays, uncounted.
Abort(c) ==
    /\ pc[c] # "idle"
    /\ lost' = IF pc[c] = "count" THEN lost \cup {cmd[c]} ELSE lost
    /\ EndCall(c)
    /\ UNCHANGED <<now, limitVars, agentVars, mandateVars, usage, nonceAt, order, signed, humans, turns>>

-----------------------------------------------------------------------------
\* A user's own order: rate limit, then the same windows.
HumanOrder(h, u) ==
    /\ Turn
    /\ h \notin humans
    /\ humans' = humans \cup {h}
    /\ TakesFromBucket(h)
    /\ IF PassesBucket THEN TakesFromWindows(u, h) ELSE UNCHANGED <<windows, at, admitted>>
    /\ UNCHANGED <<now, agentVars, mandateVars, countVars, callVars, signed>>

\* The process starts again.
Restart ==
    /\ Turn
    /\ LimitsLost
    /\ lost' = lost \cup {cmd[c] : c \in {d \in Clients : pc[d] = "count"}}
    /\ pc' = [c \in Clients |-> "idle"]
    /\ cmd' = [c \in Clients |-> None]
    /\ using' = [c \in Clients |-> None]
    /\ checked' = [c \in Clients |-> None]
    /\ rotating' = {}
    /\ keyless' = (keyless \/ rotating # {})
    /\ UNCHANGED <<now, agent, key, mandateVars, usage, nonceAt, order, signed, humans>>

Clock == Tick /\ UNCHANGED <<agentVars, mandateVars, countVars, callVars, signed, humans, turns>>

Proceed(c) ==
    \/ Refuse(c) \/ TakeNonce(c) \/ Load(c) \/ CheckUsage(c)
    \/ Admit(c) \/ Place(c) \/ Count(c)

Next ==
    \/ Clock \/ Restart
    \/ CreateAgent \/ RevokeAgent
    \/ \E r \in Rotators : RotateRevoke(r) \/ RotateCreate(r) \/ RotateFails(r)
    \/ \E row \in MandateRows : IssueMandate(row)
    \/ \E m \in MandateIds : RevokeMandate(m)
    \/ \E n \in Commands, market \in Markets, error \in ClockErrors : Sign(n, market, error)
    \/ \E c \in Clients : Proceed(c) \/ Abort(c) \/ \E n \in Commands : Deliver(c, n)
    \/ \E h \in HumanOrders, u \in Traders : HumanOrder(h, u)

Spec == Init /\ [][Next]_vars
=============================================================================
