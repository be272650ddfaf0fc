------------------------ MODULE AgentTradingProofs ------------------------
(***************************************************************************)
(* Theorems about AgentTrading, for any number of requests, commands,      *)
(* keys, mandates and restarts.  Each has an invariant of its own: IInv    *)
(* (nonces), WindowsInv and BucketInv (limits of requests), KeysInv,       *)
(* MandatesInv, and DailyInv (orders of a day).                            *)
(***************************************************************************)
EXTENDS AgentTradingProperties, FiniteSetTheorems, WellFoundedInduction, TLAPS

Types ==
    /\ now \in Time
    /\ nonceAt \in [Commands -> Time \cup {None}]
    /\ signed \in [Commands -> Signed \cup {None}]
    /\ pc \in [Clients -> Steps]
    /\ cmd \in [Clients -> Commands \cup {None}]
    /\ DOMAIN order = Commands

\* No request can take the command any more: its nonce is there, or it is too old.
Gone(n) == signed[n] # None /\ (nonceAt[n] # None \/ now - signed[n].ts > Skew)

\* A nonce was stored while its command was not too far ahead of the clock.
NonceInv ==
    \A n \in Commands : nonceAt[n] # None =>
        signed[n] # None /\ signed[n].ts =< nonceAt[n] + Skew /\ nonceAt[n] =< now

\* What a request has taken, and what has placed an order, is gone.
GoneInv ==
    /\ \A c \in Clients : pc[c] # "idle" => cmd[c] \in Commands /\ signed[cmd[c]] # None
    /\ \A c \in Clients : Taken(c) => Gone(cmd[c])
    /\ \A n \in Commands : order[n] # None => Gone(n)

IInv == Types /\ NonceInv /\ GoneInv /\ ActsOnce

USE RateLimitsAssumption, AgentAssumption DEF Time

\* It holds at first.
LEMMA InitHolds == Init => IInv
  BY DEF Init, IInv, Types, NonceInv, GoneInv, ActsOnce, Taken, Steps

\* Steps that leave what the invariant is about.
LEMMA ApartHolds ==
    ASSUME IInv, UNCHANGED <<now, nonceAt, signed, pc, cmd, order>>
    PROVE  IInv'
  BY DEF IInv, Types, NonceInv, GoneInv, ActsOnce, Taken, Gone

\* Time makes commands too old, never young again.
LEMMA ClockHolds ==
    ASSUME IInv, Clock
    PROVE  IInv'
<1>1. /\ now \in 0..MaxTime /\ now < MaxTime /\ now' = now + 1
      /\ UNCHANGED <<nonceAt, signed, pc, cmd, order>>
  BY DEF IInv, Types, Clock, Tick, countVars, callVars
<1>2. Types'
  BY <1>1 DEF IInv, Types
<1>3. NonceInv'
  BY <1>1 DEF IInv, Types, NonceInv
<1>4. \A n \in Commands : Gone(n) => Gone(n)'
  BY <1>1 DEF IInv, Types, Gone, Signed
<1>5. GoneInv' /\ ActsOnce'
  BY <1>1, <1>4 DEF IInv, GoneInv, ActsOnce, Taken
<1> QED
  BY <1>2, <1>3, <1>5 DEF IInv

\* A command is signed once.
LEMMA SignHolds ==
    ASSUME IInv, NEW n \in Commands, NEW market \in Markets, NEW error \in ClockErrors,
           Sign(n, market, error)
    PROVE  IInv'
<1>1. PICK k \in KeyIds :
        signed' = [signed EXCEPT ![n] = [market |-> market, ts |-> now + error, key |-> k]]
  BY DEF Sign
<1>2. signed[n] = None /\ UNCHANGED <<now, nonceAt, pc, cmd, order>>
  BY DEF Sign, countVars, callVars
<1>3. now + error \in Int
  BY DEF IInv, Types
<1>4. [market |-> market, ts |-> now + error, key |-> k] \in Signed
  BY <1>3 DEF Signed
<1>5. Types'
  BY <1>1, <1>2, <1>4 DEF IInv, Types
<1>6. signed'[n] # None /\ \A m \in Commands : m # n => signed'[m] = signed[m]
  BY <1>1, <1>4 DEF IInv, Types
<1>7. NonceInv'
  BY <1>2, <1>6 DEF IInv, NonceInv
<1>8. \A m \in Commands : Gone(m) => Gone(m)'
  BY <1>2, <1>6 DEF Gone
<1>9. GoneInv' /\ ActsOnce'
  BY <1>2, <1>6, <1>8 DEF IInv, GoneInv, ActsOnce, Taken
<1> QED
  BY <1>5, <1>7, <1>9 DEF IInv

\* A delivery, however often repeated, takes no nonce.
LEMMA DeliverHolds ==
    ASSUME IInv, NEW c \in Clients, NEW n \in Commands, Deliver(c, n)
    PROVE  IInv'
<1>1. /\ pc' = [pc EXCEPT ![c] = "nonce"] /\ cmd' = [cmd EXCEPT ![c] = n]
      /\ signed[n] # None /\ UNCHANGED <<now, nonceAt, signed, order>>
  BY DEF Deliver, countVars
<1>2. /\ pc'[c] = "nonce" /\ cmd'[c] = n
      /\ \A d \in Clients : d # c => pc'[d] = pc[d] /\ cmd'[d] = cmd[d]
  BY <1>1 DEF IInv, Types
<1>3. Types'
  BY <1>1 DEF IInv, Types, Steps
<1>4. NonceInv'
  BY <1>1 DEF IInv, NonceInv
<1>5. GoneInv' /\ ActsOnce'
  BY <1>1, <1>2 DEF IInv, GoneInv, ActsOnce, Taken, Gone
<1> QED
  BY <1>3, <1>4, <1>5 DEF IInv

\* Requests that end take nothing with them.
LEMMA EndHolds ==
    ASSUME IInv, NEW gone \in SUBSET Clients, UNCHANGED <<now, nonceAt, signed, order>>,
           pc' = [c \in Clients |-> IF c \in gone THEN "idle" ELSE pc[c]],
           cmd' = [c \in Clients |-> IF c \in gone THEN None ELSE cmd[c]]
    PROVE  IInv'
<1>1. Types'
  BY DEF IInv, Types, Steps
<1>2. NonceInv'
  BY DEF IInv, NonceInv
<1>3. GoneInv' /\ ActsOnce'
  BY DEF IInv, GoneInv, ActsOnce, Taken, Gone
<1> QED
  BY <1>1, <1>2, <1>3 DEF IInv

\* A request that ends leaves everything behind.
LEMMA EndCallHolds ==
    ASSUME IInv, NEW c \in Clients, UNCHANGED <<now, nonceAt, signed, order>>, EndCall(c)
    PROVE  IInv'
<1>1. /\ pc' = [d \in Clients |-> IF d \in {c} THEN "idle" ELSE pc[d]]
      /\ cmd' = [d \in Clients |-> IF d \in {c} THEN None ELSE cmd[d]]
  BY DEF IInv, Types, EndCall
<1>2. {c} \in SUBSET Clients
  OBVIOUS
<1> QED
  BY <1>1, <1>2, EndHolds

\* A nonce is deleted only when its command is too old for the check that comes before.
LEMMA NonceTaken ==
    ASSUME IInv, NEW c \in Clients, TakeNonce(c)
    PROVE  /\ cmd[c] \in Commands /\ ~Gone(cmd[c]) /\ Gone(cmd[c])'
           /\ signed[cmd[c]].ts =< now + Skew
           /\ \A m \in Commands : Gone(m) => Gone(m)'
<1>0. PICK n \in Commands : n = cmd[c] /\ signed[n] # None
  BY DEF IInv, GoneInv, TakeNonce
<1>1. /\ nonceAt' = [m \in Commands |-> IF m = n THEN now
                                        ELSE IF Outdated(m) THEN None ELSE nonceAt[m]]
      /\ UNCHANGED <<now, signed>>
  BY <1>0 DEF TakeNonce
<1>2. n \in Commands /\ signed[n] # None
  BY <1>0
<1>3. nonceAt[n] = None /\ ~Stale(n)
  BY <1>0 DEF TakeNonce, Refused
<1>4. \A m \in Commands : signed[m] # None => signed[m].ts \in Int
  BY DEF IInv, Types, Signed
<1>5. now \in Int /\ now # None /\ Skew \in Int /\ NonceLife \in Int
  BY DEF IInv, Types
<1>6. signed[n].ts =< now + Skew /\ now - signed[n].ts =< Skew
  BY <1>2, <1>3, <1>4, <1>5 DEF Stale
<1>7. ASSUME NEW m \in Commands, Gone(m) PROVE Gone(m)'
  <2>1. CASE m = n
    BY <1>1, <1>2, <1>5, <2>1 DEF Gone
  <2>2. CASE m # n /\ Outdated(m)
    <3>1. /\ nonceAt[m] \in Int /\ nonceAt[m] < now - NonceLife
          /\ signed[m] # None /\ signed[m].ts =< nonceAt[m] + Skew
      BY <2>2 DEF IInv, Types, NonceInv, Outdated
    <3>2. now - signed[m].ts > Skew
      BY <1>4, <1>5, <3>1
    <3> QED
      BY <1>1, <3>1, <3>2 DEF Gone
  <2>3. CASE m # n /\ ~Outdated(m)
    BY <1>1, <1>7, <2>3 DEF Gone
  <2> QED
    BY <2>1, <2>2, <2>3
<1>8. ~Gone(n) /\ Gone(n)'
  <2>1. ~(now - signed[n].ts > Skew)
    BY <1>2, <1>4, <1>5, <1>6
  <2>2. nonceAt'[n] # None /\ signed'[n] # None
    BY <1>1, <1>2, <1>5
  <2> QED
    BY <1>1, <1>3, <2>1, <2>2 DEF Gone
<1>9. Gone(n)' = Gone(cmd[c])'
  BY <1>0, <1>1 DEF TakeNonce, Gone
<1> QED
  BY <1>0, <1>6, <1>7, <1>8, <1>9

\* Only the first request takes the nonce.
LEMMA TakeNonceHolds ==
    ASSUME IInv, NEW c \in Clients, TakeNonce(c)
    PROVE  IInv'
<1>0. PICK n \in Commands : n = cmd[c] /\ signed[n] # None
  BY DEF IInv, GoneInv, TakeNonce
<1>1. /\ pc[c] = "nonce" /\ pc' = [pc EXCEPT ![c] = "load"]
      /\ nonceAt' = [m \in Commands |-> IF m = n THEN now
                                        ELSE IF Outdated(m) THEN None ELSE nonceAt[m]]
      /\ UNCHANGED <<now, signed, cmd, order>>
  BY <1>0 DEF TakeNonce
<1>2. /\ n \in Commands /\ ~Gone(n) /\ Gone(n)' /\ signed[n].ts =< now + Skew
      /\ \A m \in Commands : Gone(m) => Gone(m)'
  <2>1. Gone(n)' = Gone(cmd[c])'
    BY <1>0, <1>1 DEF Gone
  <2> QED
    BY <1>0, <2>1, NonceTaken
<1>3. now \in Int /\ now # None
  BY DEF IInv, Types
<1>4. Types'
  BY <1>1 DEF IInv, Types, Steps
<1>5. NonceInv'
  <2>1. ASSUME NEW m \in Commands, nonceAt'[m] # None
        PROVE  signed[m] # None /\ signed[m].ts =< nonceAt'[m] + Skew /\ nonceAt'[m] =< now
    <3>1. CASE m = n
      BY <1>0, <1>1, <1>2, <1>3, <3>1
    <3>2. CASE m # n
      BY <1>1, <2>1, <3>2 DEF IInv, NonceInv
    <3> QED
      BY <3>1, <3>2
  <2> QED
    BY <1>1, <2>1 DEF NonceInv
<1>6. /\ pc'[c] = "load" /\ cmd[c] = n /\ ~Taken(c)
      /\ \A d \in Clients : d # c => pc'[d] = pc[d] /\ (Taken(d)' <=> Taken(d))
  BY <1>0, <1>1 DEF IInv, Types, Taken
<1>7. GoneInv'
  <2>1. \A d \in Clients : pc'[d] # "idle" => cmd'[d] \in Commands /\ signed'[cmd'[d]] # None
    BY <1>1, <1>6 DEF IInv, GoneInv
  <2>2. \A d \in Clients : Taken(d)' => Gone(cmd[d])'
    <3>1. ASSUME NEW d \in Clients, Taken(d)', d # c PROVE Gone(cmd[d])'
      <4>1. Taken(d) /\ cmd[d] \in Commands /\ Gone(cmd[d])
        BY <1>6, <3>1 DEF IInv, GoneInv, Taken
      <4> QED
        BY <1>1, <1>2, <4>1 DEF Gone
    <3>2. Gone(cmd[c])'
      BY <1>1, <1>2, <1>6 DEF Gone
    <3> QED
      BY <3>1, <3>2
  <2>3. \A m \in Commands : order'[m] # None => Gone(m)'
    BY <1>1, <1>2 DEF IInv, GoneInv
  <2> QED
    BY <2>1, <2>2, <2>3 DEF GoneInv
<1>8. ActsOnce'
  <2>1. \A d \in Clients : Taken(d) => cmd[d] # n
    BY <1>2 DEF IInv, GoneInv
  <2>2. order[n] = None
    BY <1>2 DEF IInv, GoneInv
  <2> QED
    BY <1>1, <1>6, <2>1, <2>2 DEF IInv, ActsOnce
<1> QED
  BY <1>4, <1>5, <1>7, <1>8 DEF IInv

\* A request that has taken its command goes on with it.
LEMMA GoOnHolds ==
    ASSUME IInv, NEW c \in Clients, NEW step \in Steps, Taken(c), pc[c] # "count",
           step \notin {"idle", "nonce"}, pc' = [pc EXCEPT ![c] = step],
           UNCHANGED <<now, nonceAt, signed, cmd, order>>
    PROVE  IInv'
<1>1. /\ pc'[c] = step
      /\ \A d \in Clients : d # c => pc'[d] = pc[d]
      /\ \A d \in Clients : Taken(d)' <=> Taken(d)
  BY DEF IInv, Types, Taken
<1>2. Types'
  BY DEF IInv, Types
<1>3. NonceInv'
  BY DEF IInv, NonceInv
<1>4. GoneInv'
  BY <1>1 DEF IInv, GoneInv, Gone, Taken
<1>5. ActsOnce'
  BY <1>1 DEF IInv, ActsOnce
<1> QED
  BY <1>2, <1>3, <1>4, <1>5 DEF IInv

\* The order is placed by the request that took the nonce.
LEMMA PlaceHolds ==
    ASSUME IInv, NEW c \in Clients, Place(c)
    PROVE  IInv'
<1> DEFINE n == cmd[c]
<1>1. /\ pc[c] = "place" /\ pc' = [pc EXCEPT ![c] = "count"]
      /\ order' = [order EXCEPT ![n] = [mandate |-> using[c], day |-> checked[c]]]
      /\ UNCHANGED <<now, nonceAt, signed, cmd>>
  BY DEF Place
<1>2. Taken(c) /\ Gone(n)
  BY <1>1 DEF IInv, GoneInv, Taken
<1>3. n = cmd[c]
  OBVIOUS
<1> HIDE DEF n
<1>4. /\ pc'[c] = "count"
      /\ \A d \in Clients : d # c => pc'[d] = pc[d]
      /\ \A d \in Clients : Taken(d)' <=> Taken(d)
  BY <1>1 DEF IInv, Types, Taken
<1>5. DOMAIN order' = Commands /\ \A m \in Commands : m # n => order'[m] = order[m]
  BY <1>1 DEF IInv, Types
<1>6. Types'
  BY <1>1, <1>5 DEF IInv, Types, Steps
<1>7. NonceInv'
  BY <1>1 DEF IInv, NonceInv
<1>8. GoneInv'
  BY <1>1, <1>2, <1>4, <1>5 DEF IInv, GoneInv, Gone
<1>9. ActsOnce'
  <2>1. \A d \in Clients : d # c /\ Taken(d) => cmd[d] # n /\ cmd[d] \in Commands
    BY <1>2, <1>3 DEF IInv, ActsOnce, GoneInv, Taken
  <2> QED
    BY <1>1, <1>4, <1>5, <2>1 DEF IInv, ActsOnce
<1> QED
  BY <1>6, <1>7, <1>8, <1>9 DEF IInv

\* Every step keeps the invariant.
LEMMA NextHolds == IInv /\ [Next]_vars => IInv'
<1> SUFFICES ASSUME IInv, [Next]_vars PROVE IInv'
  OBVIOUS
<1>1. CASE Clock
  BY <1>1, ClockHolds
<1>2. CASE Restart
  <2>1. /\ pc' = [c \in Clients |-> IF c \in Clients THEN "idle" ELSE pc[c]]
        /\ cmd' = [c \in Clients |-> IF c \in Clients THEN None ELSE cmd[c]]
        /\ UNCHANGED <<now, nonceAt, signed, order>>
    BY <1>2 DEF Restart
  <2> QED
    BY <2>1, EndHolds
<1>3. CASE \/ CreateAgent \/ RevokeAgent
           \/ \E r \in Rotators : RotateRevoke(r) \/ RotateCreate(r) \/ RotateFails(r)
           \/ \E row \in MandateRows : IssueMandate(row)
           \/ \E m \in MandateIds : RevokeMandate(m)
           \/ \E h \in HumanOrders, u \in Traders : HumanOrder(h, u)
           \/ UNCHANGED vars
  <2>1. UNCHANGED <<now, nonceAt, signed, pc, cmd, order>>
    BY <1>3 DEF CreateAgent, RevokeAgent, RotateRevoke, RotateCreate, RotateFails, IssueMandate,
       RevokeMandate, HumanOrder, vars, countVars, callVars
  <2> QED
    BY <2>1, ApartHolds
<1>4. ASSUME NEW n \in Commands, NEW market \in Markets, NEW error \in ClockErrors, Sign(n, market, error)
      PROVE  IInv'
  BY <1>4, SignHolds
<1>5. ASSUME NEW c \in Clients, NEW n \in Commands, Deliver(c, n) PROVE IInv'
  BY <1>5, DeliverHolds
<1>6. ASSUME NEW c \in Clients, Abort(c) \/ Refuse(c) \/ Count(c) PROVE IInv'
  <2>1. EndCall(c) /\ UNCHANGED <<now, nonceAt, signed, order>>
    BY <1>6 DEF Abort, Refuse, Count, countVars
  <2> QED
    BY <2>1, EndCallHolds
<1>7. ASSUME NEW c \in Clients, TakeNonce(c) PROVE IInv'
  BY <1>7, TakeNonceHolds
<1>8. ASSUME NEW c \in Clients, Load(c) \/ CheckUsage(c) PROVE IInv'
  <2>1. PICK step \in {"usage", "admit"} : pc' = [pc EXCEPT ![c] = step]
    BY <1>8 DEF Load, CheckUsage
  <2>2. Taken(c) /\ pc[c] # "count" /\ UNCHANGED <<now, nonceAt, signed, cmd, order>>
    BY <1>8 DEF Load, CheckUsage, Taken, countVars
  <2> QED
    BY <2>1, <2>2, GoOnHolds DEF Steps
<1>9. ASSUME NEW c \in Clients, Admit(c) PROVE IInv'
  <2>1. pc[c] = "admit" /\ UNCHANGED <<now, nonceAt, signed, order>>
    BY <1>9 DEF Admit, countVars
  <2>2. CASE EndCall(c)
    BY <2>1, <2>2, EndCallHolds
  <2>3. CASE pc' = [pc EXCEPT ![c] = "place"] /\ UNCHANGED cmd
    BY <2>1, <2>3, GoOnHolds DEF Steps, Taken
  <2> QED
    BY <1>9, <2>2, <2>3 DEF Admit
<1>10. ASSUME NEW c \in Clients, Place(c) PROVE IInv'
  BY <1>10, PlaceHolds
<1> QED
  BY <1>1, <1>2, <1>3, <1>4, <1>5, <1>6, <1>7, <1>8, <1>9, <1>10 DEF Next, Proceed

\* The inductive invariant.
THEOREM InvariantHolds == Spec => []IInv
<1> QED
  BY InitHolds, NextHolds, PTL DEF Spec

\* However often and late a command is delivered, and although its nonce is deleted, one
\* request at most carries it past the check.
THEOREM CommandsActOnce == Spec => []ActsOnce
<1>1. IInv => ActsOnce
  BY DEF IInv
<1> QED
  BY <1>1, InvariantHolds, PTL

-----------------------------------------------------------------------------
(* The sliding windows.                                                    *)

WindowTypes ==
    /\ at \in [Requests -> Time]
    /\ windows \in [WindowKey -> SUBSET Requests]
    /\ admitted \in [WindowKey -> SUBSET Requests]

\* A window holds all that it counted within its length.
WindowKept(k) ==
    /\ windows[k] \subseteq admitted[k]
    /\ IsFiniteSet(admitted[k])
    /\ \A r \in admitted[k] :
          /\ at[r] =< now
          /\ Limit[k] > 0 /\ at[r] > now - WindowLength => r \in windows[k]

\* What a window counted comes no second time.
AdmittedOnce ==
    \A k \in WindowKey : \A r \in admitted[k] :
        /\ r \in Commands =>
              /\ Gone(r)
              /\ \A c \in Clients : pc[c] \in {"load", "usage", "admit"} => cmd[c] # r
        /\ r \in HumanOrders => r \in humans

\* The requests that a window let pass in the span that ends at t.
Span(k, t) == {r \in admitted[k] : t - WindowLength < at[r] /\ at[r] =< t}

SpansBounded == \A k \in WindowKey, t \in Time : Limit[k] > 0 => Cardinality(Span(k, t)) =< Limit[k]

WindowsInv ==
    /\ WindowTypes
    /\ \A k \in WindowKey : WindowKept(k)
    /\ AdmittedOnce
    /\ SpansBounded

\* One more element makes a finite set larger by at most one.
LEMMA OneMore ==
    ASSUME NEW S, NEW x, IsFiniteSet(S)
    PROVE  /\ IsFiniteSet(S \cup {x})
           /\ Cardinality(S) \in Nat
           /\ Cardinality(S \cup {x}) \in Nat
           /\ Cardinality(S \cup {x}) =< Cardinality(S) + 1
           /\ x \notin S => Cardinality(S \cup {x}) = Cardinality(S) + 1
<1>1. Cardinality(S) \in Nat
  BY FS_CardinalityType
<1>2. IsFiniteSet(S \cup {x})
      /\ Cardinality(S \cup {x}) = IF x \in S THEN Cardinality(S) ELSE Cardinality(S) + 1
  BY FS_AddElement
<1> QED
  BY <1>1, <1>2

\* A window takes one more request.
LEMMA WindowTakes ==
    ASSUME NEW k \in WindowKey, NEW r \in Requests, now \in Time, WindowTypes, WindowTypes',
           WindowKept(k), r \notin admitted[k], now' = now,
           \A q \in Requests : q # r => at'[q] = at[q], at'[r] = now,
           ~Full(k), admitted'[k] = admitted[k] \cup {r},
           Limit[k] > 0 => windows'[k] = Recent(k) \cup {r},
           Limit[k] = 0 => windows'[k] = windows[k],
           \A t \in Time : Limit[k] > 0 => Cardinality(Span(k, t)) =< Limit[k]
    PROVE  /\ WindowKept(k)'
           /\ \A t \in Time : Limit[k] > 0 => Cardinality(Span(k, t)') =< Limit[k]
<1>1. admitted[k] \subseteq Requests /\ windows[k] \subseteq admitted[k] /\ Limit[k] \in Nat
  BY DEF WindowTypes, WindowKept
<1>2. \A q \in admitted[k] : q # r /\ at'[q] = at[q] /\ at[q] \in Int
  BY <1>1 DEF WindowTypes
<1>3. IsFiniteSet(admitted'[k])
  BY FS_AddElement DEF WindowKept
<1>4. WindowKept(k)'
  <2>1. windows'[k] \subseteq admitted'[k]
    BY <1>1 DEF Recent
  <2>2. ASSUME NEW q \in admitted'[k]
        PROVE  /\ at'[q] =< now
               /\ Limit[k] > 0 /\ at'[q] > now - WindowLength => q \in windows'[k]
    BY <1>1, <1>2 DEF WindowKept, Recent
  <2> QED
    BY <1>3, <2>1, <2>2 DEF WindowKept
<1>5. ASSUME NEW t \in Time, Limit[k] > 0
      PROVE  Cardinality(Span(k, t)') =< Limit[k]
  <2>1. CASE ~(t - WindowLength < now /\ now =< t)
    <3>1. Span(k, t)' = Span(k, t)
      BY <1>2, <2>1 DEF Span
    <3> QED
      BY <1>5, <3>1
  <2>2. CASE t - WindowLength < now /\ now =< t
    <3>1. Span(k, t)' \in SUBSET (Recent(k) \cup {r})
      <4>1. ASSUME NEW q \in admitted[k], t - WindowLength < at[q] PROVE q \in Recent(k)
        BY <1>2, <1>5, <2>2, <4>1 DEF WindowKept, Recent
      <4> QED
        BY <1>2, <4>1 DEF Span
    <3>2. IsFiniteSet(Recent(k))
      <4>1. Recent(k) \in SUBSET admitted[k]
        BY <1>1 DEF Recent
      <4> QED
        BY <4>1, FS_Subset DEF WindowKept
    <3>3. Cardinality(Recent(k)) \in Nat /\ Cardinality(Recent(k)) < Limit[k]
      BY <1>1, <1>5, <3>2, FS_CardinalityType DEF Full
    <3>4. /\ IsFiniteSet(Recent(k) \cup {r})
          /\ Cardinality(Recent(k) \cup {r}) \in Nat
          /\ Cardinality(Recent(k) \cup {r}) =< Cardinality(Recent(k)) + 1
      BY <3>2, <3>3, OneMore
    <3>5. /\ Cardinality(Span(k, t)') =< Cardinality(Recent(k) \cup {r})
          /\ Cardinality(Span(k, t)') \in Nat
      BY <3>1, <3>4, FS_Subset, FS_CardinalityType
    <3> QED
      BY <1>1, <3>3, <3>4, <3>5
  <2> QED
    BY <2>1, <2>2
<1> QED
  BY <1>4, <1>5

\* A window is left alone, or forgets what is old.
LEMMA WindowLeft ==
    ASSUME NEW k \in WindowKey, now \in Time, WindowTypes, WindowKept(k),
           now' = now, admitted'[k] = admitted[k],
           \A q \in admitted[k] : at'[q] = at[q],
           windows'[k] \in {windows[k], Recent(k)}
    PROVE  /\ WindowKept(k)'
           /\ \A t : Span(k, t)' = Span(k, t)
<1>1. \A q \in admitted[k] : at'[q] = at[q] /\ at[q] \in Int
  BY DEF WindowTypes
<1>2. WindowKept(k)'
  BY <1>1 DEF WindowKept, Recent
<1> QED
  BY <1>1, <1>2 DEF Span

\* A request that counts on the windows of its user leaves them within their limits.
LEMMA TakesHolds ==
    ASSUME WindowsInv, now \in Time, now' = now, NEW u \in Traders, NEW r \in Requests,
           TakesFromWindows(u, r), \A k \in WindowKey : r \notin admitted[k]
    PROVE  /\ WindowTypes' /\ \A k \in WindowKey : WindowKept(k)'
           /\ SpansBounded'
           /\ \A k \in WindowKey : admitted'[k] \subseteq admitted[k] \cup {r}
<1>1. /\ windows' = [k \in WindowKey |->
                      IF Limit[k] = 0 \/ k \notin Touched(u) THEN windows[k]
                      ELSE IF Full(k) THEN Recent(k) ELSE Recent(k) \cup {r}]
      /\ at' = IF Counting(u) = {} THEN at ELSE [at EXCEPT ![r] = now]
      /\ admitted' = [k \in WindowKey |->
                       IF k \in Counting(u) THEN admitted[k] \cup {r} ELSE admitted[k]]
  BY DEF TakesFromWindows
<1>2. WindowTypes'
  <2>1. \A k \in WindowKey : Recent(k) \in SUBSET Requests
    BY DEF WindowsInv, WindowTypes, Recent
  <2> QED
    BY <1>1, <2>1 DEF WindowsInv, WindowTypes
<1>3. \A k \in WindowKey : \A q \in admitted[k] : at'[q] = at[q]
  BY <1>1 DEF WindowsInv, WindowTypes
<1>4. \A k \in WindowKey : Limit[k] \in Nat
  OBVIOUS
<1>5. ASSUME NEW k \in WindowKey
      PROVE  WindowKept(k)' /\ \A t \in Time : Limit[k] > 0 => Cardinality(Span(k, t)') =< Limit[k]
  <2>1. CASE k \in Counting(u)
    <3>1. k \in Touched(u) /\ ~Full(k)
      BY <2>1 DEF Counting
    <3>2. /\ at'[r] = now
          /\ \A q \in Requests : q # r => at'[q] = at[q]
      BY <1>1, <2>1 DEF WindowsInv, WindowTypes
    <3>3. /\ admitted'[k] = admitted[k] \cup {r}
          /\ Limit[k] > 0 => windows'[k] = Recent(k) \cup {r}
          /\ Limit[k] = 0 => windows'[k] = windows[k]
      BY <1>1, <1>4, <2>1, <3>1
    <3>4. /\ WindowTypes /\ WindowKept(k)
          /\ \A t \in Time : Limit[k] > 0 => Cardinality(Span(k, t)) =< Limit[k]
      BY DEF WindowsInv, SpansBounded
    <3> QED
      BY <1>2, <3>1, <3>2, <3>3, <3>4, WindowTakes
  <2>2. CASE k \notin Counting(u)
    <3>1. k \notin Touched(u) \/ Full(k)
      BY <2>2 DEF Counting
    <3>2. admitted'[k] = admitted[k] /\ windows'[k] \in {windows[k], Recent(k)}
      BY <1>1, <2>2, <3>1
    <3>3. /\ WindowTypes /\ WindowKept(k)
          /\ \A t \in Time : Limit[k] > 0 => Cardinality(Span(k, t)) =< Limit[k]
      BY DEF WindowsInv, SpansBounded
    <3>4. WindowKept(k)' /\ \A t : Span(k, t)' = Span(k, t)
      BY <1>3, <3>2, <3>3, WindowLeft
    <3> QED
      BY <3>3, <3>4
  <2> QED
    BY <2>1, <2>2
<1>6. \A k \in WindowKey : admitted'[k] \subseteq admitted[k] \cup {r}
  BY <1>1
<1> QED
  BY <1>2, <1>5, <1>6 DEF SpansBounded
\* What is gone stays gone.
LEMMA GoneStays ==
    ASSUME IInv, [Next]_vars
    PROVE  \A n \in Commands : Gone(n) => Gone(n)'
<1>1. CASE UNCHANGED <<now, nonceAt, signed>>
  BY <1>1 DEF Gone
<1>2. CASE Clock
  <2>1. now' = now + 1 /\ now \in Int /\ UNCHANGED <<nonceAt, signed>>
    BY <1>2 DEF IInv, Types, Clock, Tick, countVars
  <2> QED
    BY <2>1 DEF IInv, Types, Gone, Signed
<1>3. CASE \E n \in Commands, market \in Markets, error \in ClockErrors : Sign(n, market, error)
  <2>1. PICK n \in Commands : /\ signed[n] = None /\ UNCHANGED <<now, nonceAt>>
                              /\ \E s : signed' = [signed EXCEPT ![n] = s]
    BY <1>3 DEF Sign, countVars
  <2> QED
    BY <2>1 DEF IInv, Types, Gone
<1>4. CASE \E c \in Clients : TakeNonce(c)
  BY <1>4, NonceTaken
<1> QED
  BY <1>1, <1>2, <1>3, <1>4 DEF Next, Proceed, Restart, CreateAgent, RevokeAgent, RotateRevoke,
     RotateCreate, RotateFails, IssueMandate, RevokeMandate, Refuse, Load, CheckUsage, Admit,
     Place, Count, Abort, Deliver, HumanOrder, vars, countVars

\* At first no window has counted anything.
LEMMA WindowsInit == Init => WindowsInv
<1> SUFFICES ASSUME Init PROVE WindowsInv
  OBVIOUS
<1>1. /\ at = [r \in Requests |-> 0] /\ windows = [k \in WindowKey |-> {}]
      /\ admitted = [k \in WindowKey |-> {}] /\ now = 0
  BY DEF Init, LimitsInit
<1>2. \A k \in WindowKey : windows[k] = {} /\ admitted[k] = {}
  BY <1>1
<1>3. WindowTypes
  BY <1>1 DEF WindowTypes
<1>4. \A k \in WindowKey : \A t \in Time : Span(k, t) = {}
  BY <1>2 DEF Span
<1>5. SpansBounded
  <2>1. Cardinality({}) = 0 /\ \A k \in WindowKey : Limit[k] \in Nat
    BY FS_EmptySet
  <2>2. \A k \in WindowKey : \A t \in Time : Cardinality(Span(k, t)) = 0
    BY <1>4, <2>1
  <2> QED
    BY <2>1, <2>2 DEF SpansBounded
<1>6. \A k \in WindowKey : WindowKept(k)
  BY <1>2, FS_EmptySet DEF WindowKept
<1> QED
  BY <1>2, <1>3, <1>5, <1>6 DEF WindowsInv, AdmittedOnce

\* Requests that carry a command past the check of its nonce.
LEMMA WindowsApart ==
    ASSUME IInv, IInv', WindowsInv, [Next]_vars, now =< now', UNCHANGED <<windows, at, admitted>>,
           humans \subseteq humans',
           \A c \in Clients : pc'[c] \in {"load", "usage", "admit"} =>
               \/ pc[c] \in {"load", "usage", "admit"} /\ cmd'[c] = cmd[c]
               \/ ~Gone(cmd'[c])
    PROVE  WindowsInv'
<1>1. WindowTypes' /\ SpansBounded'
  BY DEF WindowsInv, WindowTypes, SpansBounded, Span
<1>2. now \in Int /\ now' \in Int
  BY DEF IInv, Types
<1>3. \A k \in WindowKey : WindowKept(k)'
  BY <1>2 DEF WindowsInv, WindowKept, WindowTypes
<1>4. AdmittedOnce'
  <2>1. ASSUME NEW k \in WindowKey, NEW r \in admitted[k]
        PROVE  /\ r \in Commands =>
                    /\ Gone(r)'
                    /\ \A c \in Clients : pc'[c] \in {"load", "usage", "admit"} => cmd'[c] # r
               /\ r \in HumanOrders => r \in humans'
    BY <2>1, GoneStays DEF WindowsInv, AdmittedOnce
  <2> QED
    BY <2>1 DEF AdmittedOnce
<1> QED
  BY <1>1, <1>3, <1>4 DEF WindowsInv

\* Every step keeps the windows.
LEMMA WindowsNext ==
    ASSUME IInv, IInv', WindowsInv, [Next]_vars
    PROVE  WindowsInv'
<1>0. now \in Time /\ now' \in Time
  BY DEF IInv, Types
<1>1. CASE Restart
  <2>1. /\ at' = [r \in Requests |-> 0] /\ windows' = [k \in WindowKey |-> {}]
        /\ admitted' = [k \in WindowKey |-> {}]
    BY <1>1 DEF Restart, LimitsLost
  <2>2. \A k \in WindowKey : windows'[k] = {} /\ admitted'[k] = {}
    BY <2>1
  <2>3. WindowTypes'
    BY <2>1 DEF WindowTypes
  <2>4. \A k \in WindowKey : \A t \in Time : Span(k, t)' = {}
    BY <2>2 DEF Span
  <2>5. SpansBounded'
    <3>1. Cardinality({}) = 0 /\ \A k \in WindowKey : Limit[k] \in Nat
      BY FS_EmptySet
    <3>2. \A k \in WindowKey : \A t \in Time : Cardinality(Span(k, t)') = 0
      BY <2>4, <3>1
    <3> QED
      BY <3>1, <3>2 DEF SpansBounded
  <2>6. \A k \in WindowKey : WindowKept(k)'
    BY <2>2, FS_EmptySet DEF WindowKept
  <2> QED
    BY <2>2, <2>3, <2>5, <2>6 DEF WindowsInv, AdmittedOnce
<1>2. ASSUME NEW c \in Clients, Admit(c) PROVE WindowsInv'
  <2>0. PICK n \in Commands : n = cmd[c]
    BY <1>2 DEF Admit, IInv, GoneInv
  <2>1. /\ pc[c] = "admit" /\ TakesFromWindows(Owner, n) /\ UNCHANGED <<now, humans>>
        /\ \/ pc' = [pc EXCEPT ![c] = "place"] /\ UNCHANGED cmd
           \/ EndCall(c)
    BY <1>2, <2>0 DEF Admit
  <2>2. n \in Requests /\ n \notin HumanOrders /\ Gone(n) /\ Gone(n)' /\ Owner \in Traders
    BY <2>0, <2>1, GoneStays DEF IInv, GoneInv, Taken
  <2>3. \A k \in WindowKey : n \notin admitted[k]
    BY <2>0, <2>1, <2>2 DEF WindowsInv, AdmittedOnce
  <2>4. \A d \in Clients : d # c /\ pc[d] \in {"load", "usage", "admit"} => cmd[d] # n
    BY <2>0, <2>1 DEF IInv, ActsOnce, Taken
  <2>5. \A d \in Clients : pc'[d] \in {"load", "usage", "admit"} =>
            d # c /\ pc'[d] = pc[d] /\ cmd'[d] = cmd[d]
    BY <2>1 DEF EndCall, IInv, Types
  <2>6. /\ WindowTypes' /\ \A k \in WindowKey : WindowKept(k)'
        /\ SpansBounded'
        /\ \A k \in WindowKey : admitted'[k] \subseteq admitted[k] \cup {n}
    BY <1>0, <2>1, <2>2, <2>3, TakesHolds
  <2>7. AdmittedOnce'
    <3>1. ASSUME NEW k \in WindowKey, NEW r \in admitted'[k]
          PROVE  /\ r \in Commands =>
                      /\ Gone(r)'
                      /\ \A d \in Clients : pc'[d] \in {"load", "usage", "admit"} => cmd'[d] # r
                 /\ r \in HumanOrders => r \in humans'
      <4>1. CASE r \in admitted[k]
        BY <2>1, <2>5, <4>1, GoneStays DEF WindowsInv, AdmittedOnce
      <4>2. CASE r = n
        BY <2>2, <2>4, <2>5, <4>2
      <4> QED
        BY <2>6, <4>1, <4>2
    <3> QED
      BY <3>1 DEF AdmittedOnce
  <2> QED
    BY <2>6, <2>7 DEF WindowsInv
<1>3. ASSUME NEW h \in HumanOrders, NEW u \in Traders, HumanOrder(h, u) PROVE WindowsInv'
  <2>1. /\ h \notin humans /\ humans' = humans \cup {h}
        /\ UNCHANGED <<now, pc, cmd>>
        /\ TakesFromWindows(u, h) \/ UNCHANGED <<windows, at, admitted>>
    BY <1>3 DEF HumanOrder, callVars
  <2>2. h \in Requests /\ h \notin Commands
    OBVIOUS
  <2>3. \A k \in WindowKey : h \notin admitted[k]
    BY <2>1 DEF WindowsInv, AdmittedOnce
  <2>4. CASE UNCHANGED <<windows, at, admitted>>
    BY <1>0, <2>1, <2>4, WindowsApart
  <2>5. CASE TakesFromWindows(u, h)
    <3>1. /\ WindowTypes' /\ \A k \in WindowKey : WindowKept(k)'
          /\ SpansBounded'
          /\ \A k \in WindowKey : admitted'[k] \subseteq admitted[k] \cup {h}
      BY <1>0, <2>1, <2>2, <2>3, <2>5, TakesHolds
    <3>2. AdmittedOnce'
      <4>1. ASSUME NEW k \in WindowKey, NEW r \in admitted'[k]
            PROVE  /\ r \in Commands =>
                        /\ Gone(r)'
                        /\ \A d \in Clients : pc'[d] \in {"load", "usage", "admit"} => cmd'[d] # r
                   /\ r \in HumanOrders => r \in humans'
        <5>1. CASE r \in admitted[k]
          BY <2>1, <5>1, GoneStays DEF WindowsInv, AdmittedOnce
        <5>2. CASE r = h
          BY <2>1, <2>2, <5>2
        <5> QED
          BY <3>1, <5>1, <5>2
      <4> QED
        BY <4>1 DEF AdmittedOnce
    <3> QED
      BY <3>1, <3>2 DEF WindowsInv
  <2> QED
    BY <2>1, <2>4, <2>5
<1>4. ASSUME NEW c \in Clients, TakeNonce(c) PROVE WindowsInv'
  <2>1. /\ UNCHANGED <<now, windows, at, admitted, humans, cmd>>
        /\ pc' = [pc EXCEPT ![c] = "load"]
    BY <1>4 DEF TakeNonce, limitVars
  <2>2. ~Gone(cmd[c])
    BY <1>4, NonceTaken
  <2>3. \A d \in Clients : d # c => pc'[d] = pc[d]
    BY <2>1 DEF IInv, Types
  <2> QED
    BY <1>0, <2>1, <2>2, <2>3, WindowsApart
<1>5. CASE /\ ~Restart
           /\ \A c \in Clients : ~Admit(c) /\ ~TakeNonce(c)
           /\ \A h \in HumanOrders, u \in Traders : ~HumanOrder(h, u)
  <2>1. UNCHANGED <<windows, at, admitted, humans>> /\ now' \in {now, now + 1}
    BY <1>5 DEF Next, Proceed, Clock, Tick, CreateAgent, RevokeAgent, RotateRevoke,
       RotateCreate, RotateFails, IssueMandate, RevokeMandate, Sign, Refuse, Load, CheckUsage,
       Place, Count, Abort, Deliver, vars, limitVars
  <2>2. now =< now'
    BY <1>0, <2>1
  <2>3. ASSUME NEW c \in Clients, pc'[c] \in {"load", "usage", "admit"}
        PROVE  pc[c] \in {"load", "usage", "admit"} /\ cmd'[c] = cmd[c]
    <3>1. CASE UNCHANGED callVars
      BY <2>3, <3>1 DEF callVars
    <3>2. CASE \E d \in Clients : EndCall(d)
      BY <2>3, <3>2 DEF EndCall, IInv, Types
    <3>3. CASE \E d \in Clients, n \in Commands : Deliver(d, n)
      BY <2>3, <3>3 DEF Deliver, IInv, Types
    <3>4. CASE \E d \in Clients : Load(d) \/ CheckUsage(d) \/ Place(d)
      BY <2>3, <3>4 DEF Load, CheckUsage, Place, IInv, Types
    <3> QED
      BY <1>5, <3>1, <3>2, <3>3, <3>4 DEF Next, Proceed, Clock, CreateAgent, RevokeAgent,
         RotateRevoke, RotateCreate, RotateFails, IssueMandate, RevokeMandate, Sign, Refuse,
         Count, Abort, vars
  <2> QED
    BY <2>1, <2>2, <2>3, WindowsApart
<1> QED
  BY <1>1, <1>2, <1>3, <1>4, <1>5

\* In no span of its length does a window let more requests pass than its limit, although
\* requests are dropped from it as they age: checkSlidingWindow in front of the agent routes.
THEOREM WindowsHold == Spec => []WindowsBounded
<1>1. WindowsInv => WindowsBounded
  BY DEF WindowsInv, SpansBounded, Span, WindowsBounded
<1>2. Init => WindowsInv
  BY WindowsInit
<1>3. IInv /\ IInv' /\ WindowsInv /\ [Next]_vars => WindowsInv'
  BY WindowsNext
<1>4. Spec => []IInv
  BY InvariantHolds
<1> QED
  BY <1>1, <1>2, <1>3, <1>4, PTL DEF Spec

-----------------------------------------------------------------------------
(* The bucket.                                                             *)

\* The requests that passed since the bucket in force was opened.
PassedSince == {p \in let : p[2] >= bucket.resetAt - BucketLife}

\* The bucket counts no request that neither passed nor found it full.
BucketInv ==
    /\ bucket \in [count : Nat, resetAt : Nat]
    /\ bucket.resetAt =< now + BucketLife
    /\ IsFiniteSet(let)
    /\ let \subseteq HumanOrders \X Time
    /\ \A p \in let : p[1] \in humans
    /\ \/ Cardinality(PassedSince) >= bucket.count
       \/ Cardinality(PassedSince) >= BucketMax

\* The bucket starts empty.
LEMMA BucketInit == Init => BucketInv
<1> SUFFICES ASSUME Init PROVE BucketInv
  OBVIOUS
<1>1. bucket = [count |-> 0, resetAt |-> 0] /\ let = {} /\ now = 0
  BY DEF Init, LimitsInit, NoBucket
<1>2. PassedSince = {}
  BY <1>1 DEF PassedSince
<1>3. IsFiniteSet({}) /\ Cardinality({}) = 0
  BY FS_EmptySet
<1>4. Cardinality(PassedSince) >= bucket.count
  BY <1>1, <1>2, <1>3
<1> QED
  BY <1>1, <1>3, <1>4 DEF BucketInv

\* One more request.
LEMMA BucketTakes ==
    ASSUME BucketInv, now \in Time, now' = now, NEW h \in HumanOrders, h \notin humans,
           humans' = humans \cup {h}, TakesFromBucket(h)
    PROVE  BucketInv'
<1>1. /\ bucket' = Hit
      /\ let' = IF PassesBucket THEN let \cup {<<h, now>>} ELSE let
  BY DEF TakesFromBucket
<1>2. /\ bucket.count \in Nat /\ bucket.resetAt \in Nat /\ now \in Nat
      /\ BucketLife \in Nat /\ BucketMax \in Nat /\ BucketMax >= 1 /\ BucketLife >= 1
      /\ bucket.resetAt =< now + BucketLife
  BY DEF BucketInv
<1>3. /\ bucket.resetAt =< now => bucket' = [count |-> 1, resetAt |-> now + BucketLife]
      /\ bucket.resetAt > now =>
            bucket' = [count |-> bucket.count + 1, resetAt |-> bucket.resetAt]
  <2>1. bucket \in [count : Nat, resetAt : Nat]
    BY DEF BucketInv
  <2> QED
    BY <1>1, <1>2, <2>1 DEF Hit
<1>4. bucket' \in [count : Nat, resetAt : Nat] /\ bucket'.resetAt =< now + BucketLife
  BY <1>2, <1>3
<1>5. IsFiniteSet(let')
  BY <1>1, FS_AddElement DEF BucketInv
<1>6. let' \subseteq HumanOrders \X Time /\ \A p \in let' : p[1] \in humans'
  BY <1>1 DEF BucketInv
<1>7. let \subseteq let' /\ <<h, now>> \notin let
  BY <1>1 DEF BucketInv
<1>8. IsFiniteSet(PassedSince) /\ IsFiniteSet(PassedSince')
  <2>1. PassedSince \in SUBSET let /\ PassedSince' \in SUBSET let'
    BY DEF PassedSince
  <2> QED
    BY <1>5, <2>1, FS_Subset DEF BucketInv
<1> DEFINE before == PassedSince
           after == PassedSince'
<1>9. IsFiniteSet(before) /\ IsFiniteSet(after)
  BY <1>8
<1>10. Cardinality(before) \in Nat /\ Cardinality(after) \in Nat
  BY <1>9, FS_CardinalityType
<1>11. Cardinality(before) >= bucket.count \/ Cardinality(before) >= BucketMax
  BY DEF BucketInv
<1>12. Cardinality(after) >= bucket'.count \/ Cardinality(after) >= BucketMax
  <2>1. CASE bucket.resetAt =< now
    <3>1. <<h, now>> \in after
      <4>1. Hit.count = 1 /\ bucket'.resetAt - BucketLife = now
        BY <1>1, <1>2, <1>3, <2>1
      <4>2. <<h, now>> \in let'
        BY <1>1, <1>2, <4>1 DEF PassesBucket
      <4> QED
        BY <1>2, <4>1, <4>2 DEF PassedSince
    <3>2. Cardinality(after) # 0
      BY <1>9, <3>1, FS_EmptySet
    <3>3. bucket'.count = 1
      BY <1>3, <2>1
    <3> QED
      BY <1>10, <3>2, <3>3
  <2>2. CASE bucket.resetAt > now /\ PassesBucket
    <3>1. /\ bucket'.resetAt = bucket.resetAt /\ bucket'.count = bucket.count + 1
          /\ let' = let \cup {<<h, now>>} /\ bucket.count + 1 =< BucketMax
      BY <1>1, <1>2, <1>3, <2>2 DEF PassesBucket
    <3>2. bucket.resetAt - BucketLife =< now
      BY <1>2
    <3>3. after = before \cup {<<h, now>>} /\ <<h, now>> \notin before
      BY <1>7, <3>1, <3>2 DEF PassedSince
    <3>4. Cardinality(after) = Cardinality(before) + 1
      BY <1>9, <3>3, OneMore
    <3> HIDE DEF before, after
    <3> QED
      BY <1>2, <1>10, <1>11, <3>1, <3>4
  <2>3. CASE bucket.resetAt > now /\ ~PassesBucket
    <3>1. /\ bucket'.resetAt = bucket.resetAt /\ let' = let
          /\ bucket.count >= BucketMax
      BY <1>1, <1>2, <1>3, <2>3 DEF PassesBucket
    <3>2. after = before
      BY <3>1 DEF PassedSince
    <3> HIDE DEF before, after
    <3> QED
      BY <1>2, <1>10, <1>11, <3>1, <3>2
  <2> QED
    BY <1>2, <2>1, <2>2, <2>3
<1> QED
  BY <1>4, <1>5, <1>6, <1>12 DEF BucketInv

\* Every step keeps the bucket.
LEMMA BucketNext ==
    ASSUME IInv, IInv', BucketInv, [Next]_vars
    PROVE  BucketInv'
<1>0. now \in Time /\ now' \in Time
  BY DEF IInv, Types
<1>1. CASE Restart
  <2>1. /\ bucket' = [count |-> 0, resetAt |-> 0] /\ let' = {} /\ now' = now
    BY <1>1 DEF Restart, LimitsLost, NoBucket
  <2>2. PassedSince' = {}
    BY <2>1 DEF PassedSince
  <2>3. IsFiniteSet({}) /\ Cardinality({}) = 0
    BY FS_EmptySet
  <2>4. Cardinality(PassedSince') >= bucket'.count
    BY <2>1, <2>2, <2>3
  <2> QED
    BY <1>0, <2>1, <2>3, <2>4 DEF BucketInv
<1>2. ASSUME NEW h \in HumanOrders, NEW u \in Traders, HumanOrder(h, u) PROVE BucketInv'
  <2>1. h \notin humans /\ humans' = humans \cup {h} /\ TakesFromBucket(h) /\ now' = now
    BY <1>2 DEF HumanOrder
  <2> QED
    BY <1>0, <2>1, BucketTakes
<1>3. CASE ~Restart /\ \A h \in HumanOrders, u \in Traders : ~HumanOrder(h, u)
  <2>1. UNCHANGED <<bucket, let, humans>> /\ now' \in {now, now + 1}
    BY <1>3 DEF Next, Proceed, Clock, Tick, CreateAgent, RevokeAgent, RotateRevoke,
       RotateCreate, RotateFails, IssueMandate, RevokeMandate, Sign, Refuse, TakeNonce, Load,
       CheckUsage, Admit, Place, Count, Abort, Deliver, vars, limitVars
  <2>2. now =< now'
    BY <1>0, <2>1
  <2>3. PassedSince' = PassedSince
    BY <2>1 DEF PassedSince
  <2> QED
    BY <1>0, <2>1, <2>2, <2>3 DEF BucketInv
<1> QED
  BY <1>1, <1>2, <1>3

\* A bucket that is full was filled by requests that passed.
LEMMA BucketShown == IInv /\ BucketInv => BucketReopens
<1> SUFFICES ASSUME IInv, BucketInv, bucket.resetAt > now, bucket.count >= BucketMax
             PROVE  Cardinality({p \in let : p[2] > now - BucketLife}) >= BucketMax
  BY DEF BucketReopens
<1> DEFINE passed == PassedSince
           recent == {p \in let : p[2] > now - BucketLife}
<1>1. bucket.count \in Nat /\ bucket.resetAt \in Nat /\ now \in Nat /\ BucketMax \in Nat /\ BucketLife \in Nat
  BY DEF BucketInv, IInv, Types
<1>2. passed \in SUBSET recent
  BY <1>1 DEF PassedSince, BucketInv
<1>3. recent \in SUBSET let
  OBVIOUS
<1>4. IsFiniteSet(recent)
  BY <1>3, FS_Subset DEF BucketInv
<1>5. Cardinality(passed) =< Cardinality(recent)
  BY <1>2, <1>4, FS_Subset
<1>6. Cardinality(passed) \in Nat /\ Cardinality(recent) \in Nat
  BY <1>2, <1>4, FS_Subset, FS_CardinalityType
<1>7. Cardinality(passed) >= bucket.count \/ Cardinality(passed) >= BucketMax
  BY DEF BucketInv
<1> HIDE DEF passed, recent
<1>8. Cardinality(recent) >= BucketMax
  BY <1>1, <1>5, <1>6, <1>7
<1> QED
  BY <1>8 DEF recent

\* A client of the order routes is refused only while as many requests as the bucket holds have
\* passed within its life: a bucket whose time is over opens again.
THEOREM BucketIsFair == Spec => []BucketReopens
<1>1. Init => BucketInv
  BY BucketInit
<1>2. IInv /\ IInv' /\ BucketInv /\ [Next]_vars => BucketInv'
  BY BucketNext
<1>3. Spec => []IInv
  BY InvariantHolds
<1>4. IInv /\ BucketInv => BucketReopens
  BY BucketShown
<1> QED
  BY <1>1, <1>2, <1>3, <1>4, PTL DEF Spec

-----------------------------------------------------------------------------
(* The keys.                                                               *)

\* The key of index k is the newest.
Newest(k) == key[k] # "NONE" /\ \A j \in KeyIds : key[j] # "NONE" => j =< k

\* Keys are created one after the other; the newest is revoked only between the two
\* statements of a rotation, or for good.
KeysInv ==
    /\ key \in [KeyIds -> {"NONE", "LIVE", "REVOKED"}]
    /\ \A j, k \in KeyIds : key[k] # "NONE" /\ j =< k => key[j] # "NONE"
    /\ agent = "ACTIVE" /\ rotating = {} /\ ~keyless =>
          \E k \in KeyIds : key[k] = "LIVE" /\ Newest(k)
    /\ agent = "NONE" => rotating = {}

\* A key is created as the newest.
LEMMA KeyCreated ==
    ASSUME KeysInv, NEW k \in NextKey, key' = [key EXCEPT ![k] = "LIVE"], agent' # "NONE"
    PROVE  KeysInv'
<1>1. k \in KeyIds /\ key[k] = "NONE" /\ \A j \in KeyIds : key[j] = "NONE" => k =< j
  BY DEF NextKey
<1>2. KeyIds \subseteq Int
  BY DEF KeyIds
<1>3. \A j \in KeyIds : key'[j] = IF j = k THEN "LIVE" ELSE key[j]
  BY <1>1 DEF KeysInv
<1>4. \A j \in KeyIds : key[j] # "NONE" <=> j < k
  BY <1>1, <1>2 DEF KeysInv
<1>5. \A j \in KeyIds : key'[j] # "NONE" <=> j =< k
  BY <1>1, <1>2, <1>3, <1>4
<1>6. key'[k] = "LIVE" /\ Newest(k)'
  BY <1>1, <1>3, <1>5 DEF Newest
<1>7. key' \in [KeyIds -> {"NONE", "LIVE", "REVOKED"}]
  BY <1>1 DEF KeysInv
<1>8. \A i, j \in KeyIds : key'[j] # "NONE" /\ i =< j => key'[i] # "NONE"
  BY <1>2, <1>5, <1>1
<1> QED
  BY <1>1, <1>6, <1>7, <1>8 DEF KeysInv

\* Revoking all keys is for good, or for the length of a rotation.
LEMMA KeysRevokedHold ==
    ASSUME KeysInv, key' = KeysRevoked, agent' # "NONE",
           agent' = "REVOKED" \/ rotating' # {}
    PROVE  KeysInv'
<1>1. key' \in [KeyIds -> {"NONE", "LIVE", "REVOKED"}]
  BY DEF KeysInv, KeysRevoked
<1>2. \A j \in KeyIds : key'[j] # "NONE" <=> key[j] # "NONE"
  BY DEF KeysInv, KeysRevoked
<1>3. \A i, j \in KeyIds : key'[j] # "NONE" /\ i =< j => key'[i] # "NONE"
  BY <1>2 DEF KeysInv
<1> QED
  BY <1>1, <1>3 DEF KeysInv

\* Every step keeps the keys in order.
LEMMA KeysNext ==
    ASSUME KeysInv, [Next]_vars
    PROVE  KeysInv'
<1>1. CASE CreateAgent
  <2>1. PICK k \in NextKey : agent' = "ACTIVE" /\ key' = [key EXCEPT ![k] = "LIVE"]
    BY <1>1 DEF CreateAgent
  <2> QED
    BY <2>1, KeyCreated
<1>2. ASSUME NEW r \in Rotators, RotateRevoke(r) PROVE KeysInv'
  <2>1. key' = KeysRevoked /\ agent' = agent /\ agent # "NONE" /\ rotating' # {}
    BY <1>2 DEF RotateRevoke
  <2> QED
    BY <2>1, KeysRevokedHold
<1>3. CASE RevokeAgent
  <2>1. key' = KeysRevoked /\ agent' = "REVOKED"
    BY <1>3 DEF RevokeAgent
  <2> QED
    BY <2>1, KeysRevokedHold
<1>4. ASSUME NEW r \in Rotators, RotateCreate(r) PROVE KeysInv'
  <2>1. PICK k \in NextKey : key' = [key EXCEPT ![k] = "LIVE"]
    BY <1>4 DEF RotateCreate
  <2>2. CASE agent # "NONE"
    <3>1. agent' # "NONE"
      BY <1>4, <2>2 DEF RotateCreate
    <3> QED
      BY <2>1, <3>1, KeyCreated
  <2>3. CASE agent = "NONE"
    BY <1>4, <2>3 DEF RotateCreate, KeysInv
  <2> QED
    BY <2>2, <2>3
<1>5. CASE UNCHANGED agentVars
  BY <1>5 DEF KeysInv, Newest, agentVars
<1>6. ASSUME NEW r \in Rotators, RotateFails(r) PROVE KeysInv'
  BY <1>6 DEF KeysInv, Newest, RotateFails
<1>7. CASE Restart
  BY <1>7 DEF KeysInv, Newest, Restart
<1> QED
  BY <1>1, <1>2, <1>3, <1>4, <1>5, <1>6, <1>7 DEF Next, Proceed, Clock, IssueMandate, RevokeMandate, Sign, Refuse, TakeNonce, Load, CheckUsage, Admit, Place, Count, Abort,
     Deliver, HumanOrder, vars

\* There is no key at first.
LEMMA KeysInit == Init => KeysInv
  BY DEF Init, KeysInv

\* The newest key of an active agent is live, and verifies.
LEMMA KeysShown == IInv /\ KeysInv => NewestKeyWorks
<1> SUFFICES ASSUME IInv, KeysInv, agent = "ACTIVE", rotating = {}, ~keyless,
                    NEW n \in Commands, signed[n] # None, Newest(signed[n].key)
             PROVE  Verifies(n)
  BY DEF NewestKeyWorks, Newest
<1>1. signed[n].key \in KeyIds
  BY DEF IInv, Types, Signed
<1>2. PICK k \in KeyIds : key[k] = "LIVE" /\ Newest(k)
  BY DEF KeysInv
<1>3. k \in Int /\ signed[n].key \in Int
  BY <1>1 DEF KeyIds
<1>4. signed[n].key = k
  BY <1>1, <1>2, <1>3 DEF Newest
<1>5. k \in LiveKeys /\ \A j \in LiveKeys : j \in Int /\ k >= j
  BY <1>2 DEF LiveKeys, Newest, KeyIds
<1>6. \A j \in LiveKeys : (\A i \in LiveKeys : j >= i) => j = k
  BY <1>3, <1>5
<1>7. Max(LiveKeys) = k
  BY <1>5, <1>6 DEF Max
<1> QED
  BY <1>4, <1>5, <1>7 DEF Verifies

\* What an active agent signs with its newest key verifies, unless a rotation is in progress or
\* stopped half way: rotating revokes the old keys and no other.
THEOREM NewestKeyIsLive == Spec => []NewestKeyWorks
<1>1. KeysInv /\ [Next]_vars => KeysInv'
  BY KeysNext
<1>2. Spec => []IInv
  BY InvariantHolds
<1> QED
  BY <1>1, <1>2, KeysInit, KeysShown, PTL DEF Spec

-----------------------------------------------------------------------------
(* Mandates, and what is revoked.                                          *)

\* A finite set of integers has a greatest element.
LEMMA Greatest ==
    ASSUME NEW S, IsFiniteSet(S), S \subseteq Int, S # {}
    PROVE  Max(S) \in S /\ \A y \in S : Max(S) >= y
<1> DEFINE above == [x \in S |-> {y \in S : y > x}]
           T == {above[x] : x \in S}
<1>0. \A A, B \in SUBSET S : A \subseteq B /\ A # B => <<A, B>> \in StrictSubsetOrdering(S)
  BY DEF StrictSubsetOrdering
<1>1. \A x \in S : above[x] \in SUBSET S
  OBVIOUS
<1>2. ASSUME NEW x \in S, NEW y \in S, y > x
      PROVE  above[y] \subseteq above[x] /\ above[y] # above[x]
  <2>0. \A z \in Int : z \in S => (z \in above[y] <=> z > y) /\ (z \in above[x] <=> z > x)
    OBVIOUS
  <2> HIDE DEF above
  <2>1. y \in above[x] /\ y \notin above[y]
    <3>1. y \in Int /\ ~(y > y)
      OBVIOUS
    <3> QED
      BY <1>2, <2>0, <3>1
  <2>3. ASSUME NEW z \in above[y] PROVE z \in above[x]
    <3>1. z \in S /\ z \in Int /\ x \in Int /\ y \in Int
      BY <1>1
    <3>2. z > x
      BY <1>2, <2>0, <3>1
    <3> QED
      BY <2>0, <3>1, <3>2
  <2>2. above[y] # above[x]
    BY <2>1
  <2> QED
    BY <2>2, <2>3
<1> HIDE DEF above
<1>3. IsWellFoundedOn(StrictSubsetOrdering(S), FiniteSubsetsOf(S))
  BY FS_StrictSubsetOrderingWellFounded
<1>4. T \subseteq FiniteSubsetsOf(S)
  BY <1>1, FS_FiniteSubsetsOfFinite
<1>5. PICK x \in S : \A y \in S : ~(<<above[y], above[x]>> \in StrictSubsetOrdering(S))
  <2>1. T # {}
    <3>1. PICK z \in S : TRUE
      OBVIOUS
    <3>2. above[z] \in T
      OBVIOUS
    <3> QED
      BY <3>2
  <2>2. PICK U \in T : \A V \in T : ~(<<V, U>> \in StrictSubsetOrdering(S))
    <3> HIDE DEF T
    <3> QED
      BY <1>3, <1>4, <2>1, WFMin
  <2> QED
    BY <2>2
<1>6. ASSUME NEW y \in S PROVE x >= y
  <2>1. ~(y > x)
    BY <1>0, <1>1, <1>2, <1>5
  <2> QED
    BY <2>1
<1> QED
  BY <1>6 DEF Max

Late == {"usage", "admit", "place", "count"}

\* A request past the load of its mandate names one that was issued, and a day that has
\* begun; what it places, and what is revoked, was issued too.
MandatesInv ==
    /\ mandate \in [MandateIds -> MandateRow \cup {None}]
    /\ order \in [Commands -> Placed \cup {None}]
    /\ using \in [Clients -> MandateIds \cup {None}]
    /\ checked \in [Clients -> Days \cup {None}]
    /\ \A c \in Clients : pc[c] \in Late =>
          /\ using[c] \in MandateIds /\ mandate[using[c]] # None
          /\ checked[c] \in Days /\ checked[c] =< Day(now)
    /\ \A c \in Clients : pc[c] = "count" =>
          order[cmd[c]] = [mandate |-> using[c], day |-> checked[c]]
    /\ \A n \in Commands : order[n] # None => mandate[order[n].mandate] # None
    /\ \A m \in revoked : m \in MandateIds /\ mandate[m] # None

\* Days follow each other.
LEMMA DaysFollow ==
    /\ \A t \in Time : Day(t) \in Days /\ Day(t) \in Int
    /\ Days \subseteq Int
    /\ \A s, t \in Time : s =< t => Day(s) =< Day(t)
<1>1. \A t \in Time : Day(t) \in Days
  BY DEF Days
<1>2. ASSUME NEW t \in Int PROVE Day(t) \in Int
  BY DEF Day
<1>3. ASSUME NEW s \in Int, NEW t \in Int, s =< t PROVE Day(s) =< Day(t)
  BY <1>3 DEF Day
<1> QED
  BY <1>1, <1>2, <1>3 DEF Days

\* There is no mandate at first.
LEMMA MandatesInit == Init => MandatesInv
<1> SUFFICES ASSUME Init PROVE MandatesInv
  OBVIOUS
<1>1. /\ mandate = [m \in MandateIds |-> None] /\ order = [n \in Commands |-> None]
      /\ using = [c \in Clients |-> None] /\ checked = [c \in Clients |-> None]
      /\ pc = [c \in Clients |-> "idle"] /\ revoked = {}
  BY DEF Init
<1> QED
  BY <1>1 DEF MandatesInv, Late

\* Steps that issue no mandate, load none and place nothing.
LEMMA MandatesApart ==
    ASSUME MandatesInv, now \in Time, now' \in Time, now =< now', UNCHANGED <<mandate, order>>,
           using' \in [Clients -> MandateIds \cup {None}], checked' \in [Clients -> Days \cup {None}],
           \A m \in revoked' : m \in MandateIds /\ mandate[m] # None,
           \A c \in Clients : pc'[c] \in Late =>
               pc[c] \in Late /\ using'[c] = using[c] /\ checked'[c] = checked[c],
           \A c \in Clients : pc'[c] = "count" => pc[c] = "count" /\ cmd'[c] = cmd[c]
    PROVE  MandatesInv'
<1>1. Day(now) \in Int /\ Day(now') \in Int /\ Day(now) =< Day(now') /\ Days \subseteq Int
  BY DaysFollow
<1>2. Day(now)' = Day(now')
  BY DEF Day
<1>3. ASSUME NEW c \in Clients, pc'[c] \in Late
      PROVE  /\ using'[c] \in MandateIds /\ mandate'[using'[c]] # None
             /\ checked'[c] \in Days /\ checked'[c] =< Day(now)'
  <2>1. /\ using[c] \in MandateIds /\ mandate[using[c]] # None
        /\ checked[c] \in Days /\ checked[c] =< Day(now)
        /\ using'[c] = using[c] /\ checked'[c] = checked[c]
    BY <1>3 DEF MandatesInv
  <2>2. checked[c] \in Int
    BY <1>1, <2>1
  <2> QED
    BY <1>1, <1>2, <2>1, <2>2
<1>4. ASSUME NEW c \in Clients, pc'[c] = "count"
      PROVE  order'[cmd'[c]] = [mandate |-> using'[c], day |-> checked'[c]]
  <2>1. pc'[c] \in Late /\ pc[c] = "count" /\ cmd'[c] = cmd[c]
    BY <1>4 DEF Late
  <2> QED
    BY <2>1 DEF MandatesInv
<1> QED
  BY <1>3, <1>4 DEF MandatesInv
\* A request that ends uses no mandate any more.
LEMMA EndsTyped ==
    ASSUME MandatesInv, NEW c \in Clients, EndCall(c)
    PROVE  /\ using' \in [Clients -> MandateIds \cup {None}]
           /\ checked' \in [Clients -> Days \cup {None}]
  BY DEF MandatesInv, EndCall

\* A mandate that is loaded was issued.
LEMMA LoadedMandate ==
    ASSUME IInv, MandatesInv, NEW c \in Clients, Load(c)
    PROVE  /\ using' = [using EXCEPT ![c] = using'[c]] /\ using'[c] \in MandateIds \ revoked
           /\ mandate[using'[c]] # None /\ agent = "ACTIVE"
<1> DEFINE S == Matching(cmd[c])
<1>1. Authorized(cmd[c]) /\ using' = [using EXCEPT ![c] = Max(S)]
  BY DEF Load, Refused
<1>2. S # {} /\ agent = "ACTIVE"
  BY <1>1 DEF Authorized
<1>3. \A m \in S : m \in MandateIds \ revoked /\ mandate[m] # None
  BY DEF Matching
<1>4. S \subseteq Int /\ IsFiniteSet(S)
  <2>1. IsFiniteSet(MandateIds) /\ MandateIds \subseteq Int
    BY FS_Interval DEF MandateIds
  <2>2. S \in SUBSET MandateIds
    BY <1>3
  <2> QED
    BY <2>1, <2>2, FS_Subset
<1> HIDE DEF S
<1>5. Max(S) \in S
  BY <1>2, <1>4, Greatest
<1>6. using'[c] = Max(S)
  BY <1>1 DEF MandatesInv
<1> QED
  BY <1>1, <1>2, <1>3, <1>5, <1>6

\* The mandates issued stay, and what is revoked was issued.
LEMMA RevokedNext ==
    ASSUME MandatesInv, [Next]_vars
    PROVE  /\ revoked \subseteq revoked'
           /\ \A m \in revoked' : m \in MandateIds /\ mandate[m] # None
           /\ \A m \in MandateIds : mandate[m] # None => mandate'[m] = mandate[m]
<1>1. CASE RevokeAgent
  BY <1>1 DEF RevokeAgent, MandatesInv
<1>2. ASSUME NEW m \in MandateIds, RevokeMandate(m)
      PROVE  /\ revoked \subseteq revoked'
             /\ \A j \in revoked' : j \in MandateIds /\ mandate[j] # None
             /\ mandate' = mandate
  BY <1>2 DEF RevokeMandate, MandatesInv
<1>3. ASSUME NEW row \in MandateRows, IssueMandate(row)
      PROVE  revoked' = revoked /\ \A m \in MandateIds : mandate[m] # None => mandate'[m] = mandate[m]
  BY <1>3 DEF IssueMandate, MandatesInv
<1>4. CASE UNCHANGED mandateVars
  BY <1>4 DEF mandateVars, MandatesInv
<1>5. \A m \in revoked : m \in MandateIds /\ mandate[m] # None
  BY DEF MandatesInv
<1> QED
  BY <1>1, <1>2, <1>3, <1>4, <1>5 DEF Next, Proceed, Clock, Restart, CreateAgent, RotateRevoke,
     RotateCreate, RotateFails, Sign, Refuse, TakeNonce, Load, CheckUsage, Admit, Place, Count,
     Abort, Deliver, HumanOrder, vars

\* Every step keeps the mandates.
LEMMA MandatesNext ==
    ASSUME IInv, IInv', MandatesInv, [Next]_vars
    PROVE  MandatesInv'
<1>0. /\ now \in Time /\ now' \in Time
      /\ \A m \in revoked' : m \in MandateIds /\ mandate[m] # None
      /\ using \in [Clients -> MandateIds \cup {None}] /\ checked \in [Clients -> Days \cup {None}]
  BY RevokedNext DEF IInv, Types, MandatesInv
<1>1. CASE Clock
  <2>1. now =< now' /\ UNCHANGED <<mandate, order, using, checked, pc, cmd>>
    BY <1>0, <1>1 DEF Clock, Tick, mandateVars, countVars, callVars
  <2> QED
    BY <1>0, <2>1, MandatesApart
<1>2. CASE Restart
  <2>1. /\ using' = [c \in Clients |-> None] /\ checked' = [c \in Clients |-> None]
        /\ pc' = [c \in Clients |-> "idle"] /\ UNCHANGED <<now, mandate, order>>
    BY <1>2 DEF Restart, mandateVars
  <2>2. \A c \in Clients : pc'[c] \notin Late /\ pc'[c] # "count"
    BY <2>1 DEF Late
  <2> QED
    BY <1>0, <2>1, <2>2, MandatesApart
<1>3. CASE \/ CreateAgent \/ RevokeAgent
           \/ \E r \in Rotators : RotateRevoke(r) \/ RotateCreate(r) \/ RotateFails(r)
           \/ \E m \in MandateIds : RevokeMandate(m)
           \/ \E n \in Commands, market \in Markets, error \in ClockErrors : Sign(n, market, error)
           \/ \E h \in HumanOrders, u \in Traders : HumanOrder(h, u)
           \/ UNCHANGED vars
  <2>1. UNCHANGED <<now, mandate, order, using, checked, pc, cmd>>
    BY <1>3 DEF CreateAgent, RevokeAgent, RotateRevoke, RotateCreate, RotateFails,
       RevokeMandate, Sign, HumanOrder, vars, mandateVars, countVars, callVars
  <2> QED
    BY <1>0, <2>1, MandatesApart
<1>4. ASSUME NEW row \in MandateRows, IssueMandate(row) PROVE MandatesInv'
  <2>1. PICK m \in MandateIds : mandate[m] = None /\ mandate' = [mandate EXCEPT ![m] = row]
    BY <1>4 DEF IssueMandate
  <2>2. /\ row \in MandateRow /\ UNCHANGED <<now, order, using, checked, pc, cmd>>
        /\ \A j \in MandateIds : mandate[j] # None => mandate'[j] # None
    BY <1>4, RevokedNext DEF IssueMandate, countVars, callVars
  <2>3. mandate' \in [MandateIds -> MandateRow \cup {None}]
    BY <2>1, <2>2 DEF MandatesInv
  <2>4. Day(now)' = Day(now)
    BY <2>2 DEF Day
  <2>5. \A n \in Commands : order[n] # None => order[n].mandate \in MandateIds
    BY DEF MandatesInv, Placed
  <2> QED
    BY <1>0, <2>2, <2>3, <2>4, <2>5 DEF MandatesInv
<1>5. ASSUME NEW c \in Clients, EndCall(c), UNCHANGED <<now, mandate, order>> PROVE MandatesInv'
  <2>1. \A d \in Clients : pc'[d] # "idle" =>
            pc'[d] = pc[d] /\ cmd'[d] = cmd[d] /\ using'[d] = using[d] /\ checked'[d] = checked[d]
    BY <1>5 DEF EndCall, IInv, Types, MandatesInv
  <2>2. \A d \in Clients : pc'[d] \in Late \/ pc'[d] = "count" => pc'[d] # "idle"
    BY DEF Late
  <2> QED
    BY <1>0, <1>5, <2>1, <2>2, EndsTyped, MandatesApart
<1>6. ASSUME NEW c \in Clients, Refuse(c) \/ Count(c) \/ Abort(c) PROVE MandatesInv'
  BY <1>5, <1>6 DEF Refuse, Count, Abort, mandateVars, countVars
<1>7. ASSUME NEW c \in Clients, NEW step \in Steps, pc' = [pc EXCEPT ![c] = step],
             step \in Late => pc[c] \in Late, step # "count", pc[c] # "count",
             UNCHANGED <<now, mandate, order, using, checked>>,
             \A d \in Clients : d # c => cmd'[d] = cmd[d]
      PROVE  MandatesInv'
  <2>1. pc'[c] = step /\ \A d \in Clients : d # c => pc'[d] = pc[d]
    BY <1>7 DEF IInv, Types
  <2> QED
    BY <1>0, <1>7, <2>1, MandatesApart
<1>8. ASSUME NEW c \in Clients, NEW n \in Commands, Deliver(c, n) PROVE MandatesInv'
  <2>1. /\ pc' = [pc EXCEPT ![c] = "nonce"] /\ pc[c] = "idle" /\ cmd' = [cmd EXCEPT ![c] = n]
        /\ UNCHANGED <<now, mandate, order, using, checked>>
    BY <1>8 DEF Deliver, mandateVars, countVars
  <2>2. "nonce" \notin Late /\ "nonce" \in Steps
    BY DEF Late, Steps
  <2> QED
    BY <1>7, <2>1, <2>2 DEF IInv, Types
<1>9. ASSUME NEW c \in Clients, TakeNonce(c) PROVE MandatesInv'
  <2>1. /\ pc' = [pc EXCEPT ![c] = "load"] /\ pc[c] = "nonce"
        /\ UNCHANGED <<now, mandate, order, using, checked, cmd>>
    BY <1>9 DEF TakeNonce, mandateVars
  <2>2. "load" \notin Late /\ "load" \in Steps
    BY DEF Late, Steps
  <2> QED
    BY <1>7, <2>1, <2>2
<1>10. ASSUME NEW c \in Clients, CheckUsage(c) PROVE MandatesInv'
  <2>1. /\ pc' = [pc EXCEPT ![c] = "admit"] /\ pc[c] = "usage"
        /\ UNCHANGED <<now, mandate, order, using, checked, cmd>>
    BY <1>10 DEF CheckUsage, mandateVars, countVars
  <2>2. "usage" \in Late /\ "admit" \in Steps
    BY DEF Late, Steps
  <2> QED
    BY <1>7, <2>1, <2>2
<1>11. ASSUME NEW c \in Clients, Admit(c) PROVE MandatesInv'
  <2>1. pc[c] = "admit" /\ UNCHANGED <<now, mandate, order>>
    BY <1>11 DEF Admit, mandateVars, countVars
  <2>2. CASE EndCall(c)
    BY <1>5, <2>1, <2>2
  <2>3. CASE pc' = [pc EXCEPT ![c] = "place"] /\ UNCHANGED <<cmd, using, checked>>
    <3>1. "admit" \in Late /\ "place" \in Steps
      BY DEF Late, Steps
    <3> QED
      BY <1>7, <2>1, <2>3, <3>1
  <2> QED
    BY <1>11, <2>2, <2>3 DEF Admit
<1>12. ASSUME NEW c \in Clients, Load(c) PROVE MandatesInv'
  <2>1. /\ using' = [using EXCEPT ![c] = using'[c]] /\ using'[c] \in MandateIds
        /\ mandate[using'[c]] # None
    BY <1>12, LoadedMandate
  <2>2. /\ checked' = [checked EXCEPT ![c] = Day(now)] /\ pc' = [pc EXCEPT ![c] = "usage"]
        /\ UNCHANGED <<now, mandate, order, cmd, revoked>>
    BY <1>12 DEF Load, mandateVars, countVars
  <2>3. Day(now) \in Days /\ Day(now) \in Int /\ Day(now)' = Day(now)
    BY <1>0, <2>2, DaysFollow DEF Day
  <2>4. \A d \in Clients : /\ pc'[d] = IF d = c THEN "usage" ELSE pc[d]
                           /\ checked'[d] = IF d = c THEN Day(now) ELSE checked[d]
                           /\ d # c => using'[d] = using[d]
    BY <2>1, <2>2 DEF IInv, Types, MandatesInv
  <2>5. using' \in [Clients -> MandateIds \cup {None}] /\ checked' \in [Clients -> Days \cup {None}]
    BY <1>0, <2>1, <2>2, <2>3
  <2>6. ASSUME NEW d \in Clients, pc'[d] \in Late
        PROVE  /\ using'[d] \in MandateIds /\ mandate'[using'[d]] # None
               /\ checked'[d] \in Days /\ checked'[d] =< Day(now)'
    BY <2>1, <2>2, <2>3, <2>4, <2>6 DEF MandatesInv
  <2>7. ASSUME NEW d \in Clients, pc'[d] = "count"
        PROVE  order'[cmd'[d]] = [mandate |-> using'[d], day |-> checked'[d]]
    <3>1. d # c /\ pc[d] = "count" /\ using'[d] = using[d] /\ checked'[d] = checked[d]
      BY <2>4, <2>7
    <3>2. order[cmd[d]] = [mandate |-> using[d], day |-> checked[d]]
      BY <3>1 DEF MandatesInv
    <3> QED
      BY <2>2, <3>1, <3>2
  <2> QED
    BY <1>0, <2>2, <2>5, <2>6, <2>7 DEF MandatesInv
<1>13. ASSUME NEW c \in Clients, Place(c) PROVE MandatesInv'
  <2>0. PICK n \in Commands : n = cmd[c]
    BY <1>13 DEF Place, IInv, GoneInv
  <2>1. /\ pc[c] = "place" /\ pc' = [pc EXCEPT ![c] = "count"]
        /\ order' = [order EXCEPT ![n] = [mandate |-> using[c], day |-> checked[c]]]
        /\ UNCHANGED <<now, mandate, revoked, using, checked, cmd>>
    BY <1>13, <2>0 DEF Place, mandateVars
  <2>2. /\ using[c] \in MandateIds /\ mandate[using[c]] # None
        /\ checked[c] \in Days
    BY <2>1 DEF MandatesInv, Late
  <2>3. [mandate |-> using[c], day |-> checked[c]] \in Placed
    BY <2>2 DEF Placed
  <2>4. \A j \in Commands : order'[j] =
            IF j = n THEN [mandate |-> using[c], day |-> checked[c]] ELSE order[j]
    BY <2>1 DEF MandatesInv
  <2>5. order' \in [Commands -> Placed \cup {None}]
    BY <2>1, <2>3 DEF MandatesInv
  <2>6. \A d \in Clients : pc'[d] = IF d = c THEN "count" ELSE pc[d]
    BY <2>1 DEF IInv, Types
  <2>7. ASSUME NEW d \in Clients, pc'[d] = "count"
        PROVE  order'[cmd'[d]] = [mandate |-> using'[d], day |-> checked'[d]]
    <3>1. CASE d = c
      BY <2>0, <2>1, <2>4, <3>1
    <3>2. CASE d # c
      <4>1. pc[d] = "count" /\ cmd[d] \in Commands /\ cmd[d] # n
        BY <2>0, <2>1, <2>6, <2>7, <3>2 DEF IInv, ActsOnce, GoneInv, Taken
      <4> QED
        BY <2>1, <2>4, <4>1 DEF MandatesInv
    <3> QED
      BY <3>1, <3>2
  <2>8. \A d \in Clients : pc'[d] \in Late => pc[d] \in Late
    BY <2>1, <2>6 DEF Late
  <2>9. Day(now)' = Day(now)
    BY <2>1 DEF Day
  <2>10. \A j \in Commands : order'[j] # None => mandate'[order'[j].mandate] # None
    BY <2>1, <2>2, <2>4 DEF MandatesInv
  <2> QED
    BY <1>0, <2>1, <2>5, <2>7, <2>8, <2>9, <2>10 DEF MandatesInv
<1> QED
  BY <1>1, <1>2, <1>3, <1>4, <1>6, <1>8, <1>9, <1>10, <1>11, <1>12, <1>13 DEF Next, Proceed

\* The invariant of the mandates holds in every state.
LEMMA MandatesHold == Spec => [](IInv /\ MandatesInv)
<1>1. IInv /\ IInv' /\ MandatesInv /\ [Next]_vars => MandatesInv'
  BY MandatesNext
<1>2. Spec => []IInv
  BY InvariantHolds
<1> QED
  BY <1>1, <1>2, MandatesInit, PTL DEF Spec
\* No order is placed for a revoked agent once the requests it overlapped are over.
LEMMA AgentStaysStopped ==
    ASSUME IInv, MandatesInv, [Next]_vars, AgentStopped
    PROVE  AgentStopped' /\ order' = order
<1>1. agent = "REVOKED" /\ \A c \in Clients : pc[c] \in {"idle", "nonce", "load"}
  BY DEF AgentStopped
<1>2. agent' = "REVOKED"
  BY <1>1 DEF Next, Proceed, Clock, Restart, CreateAgent, RevokeAgent, RotateRevoke, RotateCreate,
     RotateFails, IssueMandate, RevokeMandate, Sign, Refuse, TakeNonce, Load, CheckUsage, Admit,
     Place, Count, Abort, Deliver, HumanOrder, vars, agentVars
<1>3. order' = order
  BY <1>1 DEF Next, Proceed, Clock, Restart, CreateAgent, RevokeAgent, RotateRevoke, RotateCreate,
     RotateFails, IssueMandate, RevokeMandate, Sign, Refuse, TakeNonce, Load, CheckUsage, Admit,
     Place, Count, Abort, Deliver, HumanOrder, vars, countVars
<1>4. ASSUME NEW d \in Clients PROVE pc'[d] \in {"idle", "nonce", "load"}
  <2>1. CASE UNCHANGED callVars
    BY <1>1, <2>1 DEF callVars
  <2>2. CASE \E c \in Clients : EndCall(c)
    BY <1>1, <2>2 DEF EndCall, IInv, Types
  <2>3. CASE \E c \in Clients : TakeNonce(c) \/ \E n \in Commands : Deliver(c, n)
    BY <1>1, <2>3 DEF TakeNonce, Deliver, IInv, Types
  <2>4. CASE Restart
    BY <2>4 DEF Restart
  <2>5. \A c \in Clients : ~Load(c)
    BY <1>1, LoadedMandate
  <2> QED
    BY <1>1, <2>1, <2>2, <2>3, <2>4, <2>5 DEF Next, Proceed, Clock, CreateAgent, RevokeAgent,
       RotateRevoke, RotateCreate, RotateFails, IssueMandate, RevokeMandate, Sign, Refuse,
       CheckUsage, Admit, Place, Count, Abort, HumanOrder, vars
<1> QED
  BY <1>2, <1>3, <1>4 DEF AgentStopped

\* Nor under a revoked mandate.
LEMMA MandateStaysStopped ==
    ASSUME IInv, MandatesInv, [Next]_vars, NEW m \in MandateIds, MandateStopped(m)
    PROVE  /\ MandateStopped(m)'
           /\ \A n \in Commands : order'[n] # order[n] => order'[n].mandate # m
<1>1. m \in revoked /\ \A c \in Clients : using[c] # m
  BY DEF MandateStopped
<1>2. m \in revoked' /\ m # None
  BY <1>1, RevokedNext DEF MandateIds
<1>3. ASSUME NEW d \in Clients PROVE using'[d] # m
  <2>1. CASE using' = using
    BY <1>1, <2>1
  <2>2. CASE \E c \in Clients : EndCall(c)
    BY <1>1, <1>2, <2>2 DEF EndCall, MandatesInv
  <2>3. CASE Restart
    BY <1>2, <2>3 DEF Restart
  <2>4. ASSUME NEW c \in Clients, Load(c) PROVE using'[d] # m
    <3>1. using' = [using EXCEPT ![c] = using'[c]] /\ using'[c] \notin revoked
      BY <2>4, LoadedMandate
    <3> QED
      BY <1>1, <3>1 DEF MandatesInv
  <2> QED
    BY <2>1, <2>2, <2>3, <2>4 DEF Next, Proceed, Clock, CreateAgent, RevokeAgent, RotateRevoke,
       RotateCreate, RotateFails, IssueMandate, RevokeMandate, Sign, Refuse, TakeNonce, CheckUsage,
       Admit, Place, Count, Abort, Deliver, HumanOrder, vars, callVars
<1>4. ASSUME NEW n \in Commands, order'[n] # order[n] PROVE order'[n].mandate # m
  <2>1. PICK c \in Clients : Place(c)
    BY <1>4 DEF Next, Proceed, Clock, Restart, CreateAgent, RevokeAgent, RotateRevoke, RotateCreate,
       RotateFails, IssueMandate, RevokeMandate, Sign, Refuse, TakeNonce, Load, CheckUsage, Admit,
       Count, Abort, Deliver, HumanOrder, vars, countVars
  <2>2. order' = [order EXCEPT ![cmd[c]] = [mandate |-> using[c], day |-> checked[c]]]
    BY <2>1 DEF Place
  <2>3. order'[n].mandate = using[c]
    BY <1>4, <2>2 DEF MandatesInv
  <2> QED
    BY <1>1, <2>3
<1> QED
  BY <1>2, <1>3, <1>4 DEF MandateStopped

\* A revocation is final: once the requests that it overlapped are over, no order is placed for
\* the agent or under the mandate again, whatever is signed, delivered or retried.
THEOREM RevocationsAreKept == Spec => RevocationsHold
<1> DEFINE Step == /\ AgentStopped => AgentStopped' /\ order' = order
                   /\ \A m \in MandateIds : MandateStopped(m) =>
                         /\ MandateStopped(m)'
                         /\ \A n \in Commands : order'[n] # order[n] => order'[n].mandate # m
<1>1. IInv /\ MandatesInv /\ [Next]_vars => Step
  BY AgentStaysStopped, MandateStaysStopped
<1>2. Spec => [](IInv /\ MandatesInv)
  BY MandatesHold
<1>3. RevocationsHold <=> [][Step]_vars
  BY DEF RevocationsHold
<1> HIDE DEF Step
<1> QED
  BY <1>1, <1>2, <1>3, PTL DEF Spec

-----------------------------------------------------------------------------
(* The orders of a day.                                                    *)

\* Requests that have loaded mandate m on day d, and those that its usage let pass.
Read(m, d) == {c \in Clients : pc[c] \in Late /\ using[c] = m /\ checked[c] = d}
Passed(m, d) == {c \in Read(m, d) : pc[c] # "usage"}

\* Orders of the day that no request has still to count.
Counted(m, d) == {n \in OrdersOn(m, d) : \A c \in Clients : pc[c] = "count" => cmd[c] # n}

\* While the day lasts every order has been counted on it.  Requests that go on when it
\* is over will be counted on another day, but each of them has read a usage that held
\* all that was counted then.
DayBound(m, d) ==
    /\ IsFiniteSet(Counted(m, d))
    /\ d >= Day(now) => Cardinality(Counted(m, d)) =< usage[m][d]
    /\ Cardinality(Counted(m, d)) + Cardinality(Read(m, d)) =< usage[m][d] + Cardinality(Clients)
    /\ mandate[m] # None /\ mandate[m].maxOrders > 0 =>
          Cardinality(Counted(m, d)) + Cardinality(Passed(m, d))
              < mandate[m].maxOrders + Cardinality(Clients)

DailyInv ==
    /\ usage \in [MandateIds -> [Days -> Nat]]
    /\ \A m \in MandateIds, d \in Days : DayBound(m, d)

\* A part of a finite set is finite and no larger.
LEMMA Fewer ==
    ASSUME NEW T, IsFiniteSet(T), NEW S, S \subseteq T
    PROVE  /\ IsFiniteSet(S) /\ Cardinality(S) \in Nat /\ Cardinality(T) \in Nat
           /\ Cardinality(S) =< Cardinality(T)
<1>1. S \in SUBSET T
  OBVIOUS
<1>2. IsFiniteSet(S) /\ Cardinality(S) =< Cardinality(T)
  BY <1>1, FS_Subset
<1> QED
  BY <1>2, FS_CardinalityType

\* The requests about a mandate are finitely many.
LEMMA Sizes ==
    ASSUME NEW m, NEW d
    PROVE  /\ IsFiniteSet(Read(m, d)) /\ IsFiniteSet(Passed(m, d))
           /\ Cardinality(Read(m, d)) \in Nat /\ Cardinality(Passed(m, d)) \in Nat
           /\ Cardinality(Clients) \in Nat
           /\ Cardinality(Passed(m, d)) =< Cardinality(Read(m, d))
           /\ Cardinality(Read(m, d)) =< Cardinality(Clients)
<1>1. Read(m, d) \subseteq Clients /\ Passed(m, d) \subseteq Read(m, d)
  BY DEF Read, Passed
<1>2. IsFiniteSet(Read(m, d))
  BY <1>1, Fewer
<1> QED
  BY <1>1, <1>2, Fewer

\* And so they are after a step.
LEMMA SizesNext ==
    ASSUME NEW m, NEW d
    PROVE  /\ IsFiniteSet(Read(m, d)') /\ IsFiniteSet(Passed(m, d)')
           /\ Cardinality(Read(m, d)') \in Nat /\ Cardinality(Passed(m, d)') \in Nat
           /\ Cardinality(Clients) \in Nat
           /\ Cardinality(Passed(m, d)') =< Cardinality(Read(m, d)')
           /\ Cardinality(Read(m, d)') =< Cardinality(Clients)
<1>1. Read(m, d)' \subseteq Clients /\ Passed(m, d)' \subseteq Read(m, d)'
  BY DEF Read, Passed
<1>2. IsFiniteSet(Read(m, d)')
  BY <1>1, Fewer
<1> QED
  BY <1>1, <1>2, Fewer

\* Nothing is added to a day.
LEMMA DayStays ==
    ASSUME NEW m \in MandateIds, NEW d \in Days, DayBound(m, d), MandatesInv,
           now \in Time, now' \in Time, now =< now', usage[m][d] \in Nat, usage'[m][d] \in Nat,
           Counted(m, d)' \subseteq Counted(m, d), Read(m, d)' \subseteq Read(m, d),
           Passed(m, d)' \subseteq Passed(m, d),
           usage[m][d] =< usage'[m][d], mandate'[m] = mandate[m]
    PROVE  DayBound(m, d)'
<1>1. /\ Day(now) \in Int /\ Day(now') \in Int /\ Day(now) =< Day(now')
      /\ d \in Int /\ Day(now)' = Day(now')
  BY DaysFollow DEF Day
<1>2. /\ IsFiniteSet(Counted(m, d)') /\ Cardinality(Counted(m, d)') \in Nat
      /\ Cardinality(Counted(m, d)) \in Nat
      /\ Cardinality(Counted(m, d)') =< Cardinality(Counted(m, d))
  BY Fewer DEF DayBound
<1>3. /\ Cardinality(Read(m, d)') \in Nat /\ Cardinality(Read(m, d)) \in Nat
      /\ Cardinality(Read(m, d)') =< Cardinality(Read(m, d))
  BY Sizes, Fewer
<1>4. /\ Cardinality(Passed(m, d)') \in Nat /\ Cardinality(Passed(m, d)) \in Nat
      /\ Cardinality(Passed(m, d)') =< Cardinality(Passed(m, d))
  BY Sizes, Fewer
<1>5. Cardinality(Clients) \in Nat
  BY Sizes
<1>6. mandate[m] # None => mandate[m].maxOrders \in Nat
  BY DEF MandatesInv, MandateRow
<1>7. (d >= Day(now))' => d >= Day(now)
  BY <1>1
<1>8. (d >= Day(now))' => Cardinality(Counted(m, d)') =< usage'[m][d]
  BY <1>2, <1>7 DEF DayBound
<1>9. Cardinality(Counted(m, d)') + Cardinality(Read(m, d)') =< usage'[m][d] + Cardinality(Clients)
  BY <1>2, <1>3, <1>5 DEF DayBound
<1>10. mandate'[m] # None /\ mandate'[m].maxOrders > 0 =>
          Cardinality(Counted(m, d)') + Cardinality(Passed(m, d)')
              < mandate'[m].maxOrders + Cardinality(Clients)
  BY <1>2, <1>4, <1>5, <1>6 DEF DayBound
<1> QED
  BY <1>2, <1>8, <1>9, <1>10 DEF DayBound

\* Nothing is counted at first.
LEMMA DailyInit == Init => DailyInv
<1> SUFFICES ASSUME Init PROVE DailyInv
  OBVIOUS
<1>1. /\ usage = [m \in MandateIds |-> [d \in Days |-> 0]]
      /\ mandate = [m \in MandateIds |-> None] /\ order = [n \in Commands |-> None]
      /\ pc = [c \in Clients |-> "idle"]
  BY DEF Init
<1>2. IsFiniteSet({}) /\ Cardinality({}) = 0
  BY FS_EmptySet
<1>3. ASSUME NEW m \in MandateIds, NEW d \in Days PROVE DayBound(m, d)
  <2>1. Counted(m, d) = {}
    <3>1. [mandate |-> m, day |-> d] # None
      BY DEF Placed
    <3> QED
      BY <1>1, <3>1 DEF Counted, OrdersOn
  <2>2. Read(m, d) = {}
    BY <1>1 DEF Read, Late
  <2>3. usage[m][d] = 0 /\ mandate[m] = None
    BY <1>1
  <2>4. Cardinality(Clients) \in Nat
    BY Sizes
  <2> QED
    BY <1>2, <2>1, <2>2, <2>3, <2>4 DEF DayBound
<1> QED
  BY <1>1, <1>3 DEF DailyInv

\* Orders are not placed, and those that need no counting any more are lost.
LEMMA CountedShrinks ==
    ASSUME order' = order, lost \subseteq lost',
           \A c \in Clients : pc[c] = "count" =>
               (pc'[c] = "count" /\ cmd'[c] = cmd[c]) \/ cmd[c] \in lost',
           NEW m, NEW d
    PROVE  Counted(m, d)' \subseteq Counted(m, d)
  BY DEF Counted, OrdersOn

\* No request gets further.
LEMMA ReadShrinks ==
    ASSUME \A c \in Clients : pc'[c] \in Late =>
               /\ pc[c] \in Late /\ using'[c] = using[c] /\ checked'[c] = checked[c]
               /\ pc'[c] # "usage" => pc[c] # "usage",
           NEW m, NEW d
    PROVE  Read(m, d)' \subseteq Read(m, d) /\ Passed(m, d)' \subseteq Passed(m, d)
  BY DEF Read, Passed

\* A request that loads a mandate reads all that was counted on the day.
LEMMA DayLoaded ==
    ASSUME IInv, IInv', MandatesInv, DailyInv, NEW c \in Clients, Load(c),
           NEW m \in MandateIds, NEW d \in Days
    PROVE  DayBound(m, d)'
<1>0. now \in Time /\ DayBound(m, d) /\ usage[m][d] \in Nat
  BY DEF IInv, Types, DailyInv
<1>1. /\ pc[c] = "load" /\ pc' = [pc EXCEPT ![c] = "usage"]
      /\ checked' = [checked EXCEPT ![c] = Day(now)]
      /\ UNCHANGED <<now, usage, order, lost, mandate, cmd>>
  BY DEF Load, countVars, mandateVars
<1>2. using' = [using EXCEPT ![c] = using'[c]]
  BY LoadedMandate
<1>3. \A b \in Clients : b # c => pc'[b] = pc[b] /\ using'[b] = using[b] /\ checked'[b] = checked[b]
  BY <1>1, <1>2 DEF IInv, Types, MandatesInv
<1>4. pc'[c] = "usage" /\ checked'[c] = Day(now)
  BY <1>1 DEF IInv, Types, MandatesInv
<1>5. Counted(m, d)' \subseteq Counted(m, d)
  <2>1. \A b \in Clients : pc[b] = "count" => pc'[b] = "count" /\ cmd'[b] = cmd[b]
    BY <1>1, <1>3
  <2> QED
    BY <1>1, <2>1, CountedShrinks
<1>6. Passed(m, d)' \subseteq Passed(m, d)
  BY <1>3, <1>4 DEF Passed, Read
<1>7. CASE Read(m, d)' \subseteq Read(m, d)
  BY <1>0, <1>1, <1>5, <1>6, <1>7, DayStays
<1>8. CASE ~(Read(m, d)' \subseteq Read(m, d))
  <2>1. d = Day(now) /\ Day(now)' = Day(now)
    <3>1. \E b \in Clients : b \in Read(m, d)' /\ b \notin Read(m, d)
      BY <1>8 DEF Read
    <3>2. c \in Read(m, d)'
      BY <1>3, <3>1 DEF Read
    <3> QED
      BY <1>1, <1>4, <3>2 DEF Read, Day
  <2>2. /\ IsFiniteSet(Counted(m, d)') /\ Cardinality(Counted(m, d)') \in Nat
        /\ Cardinality(Counted(m, d)) \in Nat
        /\ Cardinality(Counted(m, d)') =< Cardinality(Counted(m, d))
    BY <1>0, <1>5, Fewer DEF DayBound
  <2>3. /\ Cardinality(Passed(m, d)') \in Nat /\ Cardinality(Passed(m, d)) \in Nat
        /\ Cardinality(Passed(m, d)') =< Cardinality(Passed(m, d))
    BY <1>6, Sizes, Fewer
  <2>4. /\ Cardinality(Read(m, d)') \in Nat /\ Cardinality(Clients) \in Nat
        /\ Cardinality(Read(m, d)') =< Cardinality(Clients)
    BY SizesNext
  <2>5. Cardinality(Counted(m, d)) =< usage[m][d]
    <3>1. d \in Int
      BY DaysFollow
    <3> QED
      BY <1>0, <2>1, <3>1 DEF DayBound
  <2>6. mandate[m] # None => mandate[m].maxOrders \in Nat
    BY DEF MandatesInv, MandateRow
  <2>7. Cardinality(Counted(m, d)') =< usage'[m][d]
    BY <1>0, <1>1, <2>2, <2>5
  <2>8. Cardinality(Counted(m, d)') + Cardinality(Read(m, d)') =< usage'[m][d] + Cardinality(Clients)
    BY <1>0, <1>1, <2>2, <2>4, <2>7
  <2>9. mandate'[m] # None /\ mandate'[m].maxOrders > 0 =>
          Cardinality(Counted(m, d)') + Cardinality(Passed(m, d)')
              < mandate'[m].maxOrders + Cardinality(Clients)
    BY <1>0, <1>1, <2>2, <2>3, <2>4, <2>6 DEF DayBound
  <2> QED
    BY <2>2, <2>7, <2>8, <2>9 DEF DayBound
<1> QED
  BY <1>7, <1>8

\* The usage that lets a request pass holds all that was counted, and those that have
\* read it with it make up for what they will count.
LEMMA DayPassed ==
    ASSUME IInv, IInv', MandatesInv, DailyInv, NEW c \in Clients, CheckUsage(c),
           NEW m \in MandateIds, NEW d \in Days
    PROVE  DayBound(m, d)'
<1>0. now \in Time /\ DayBound(m, d) /\ usage[m][d] \in Nat
  BY DEF IInv, Types, DailyInv
<1>1. /\ pc[c] = "usage" /\ pc' = [pc EXCEPT ![c] = "admit"] /\ ~Spent(using[c], checked[c])
      /\ UNCHANGED <<now, usage, order, lost, mandate, cmd, using, checked>>
  BY DEF CheckUsage, Refused, countVars, mandateVars
<1>2. pc'[c] = "admit" /\ \A b \in Clients : b # c => pc'[b] = pc[b]
  BY <1>1 DEF IInv, Types
<1>3. Counted(m, d)' \subseteq Counted(m, d)
  <2>1. \A b \in Clients : pc[b] = "count" => pc'[b] = "count" /\ cmd'[b] = cmd[b]
    BY <1>1, <1>2
  <2> QED
    BY <1>1, <2>1, CountedShrinks
<1>4. Read(m, d)' \subseteq Read(m, d)
  BY <1>1, <1>2 DEF Read, Late
<1>5. CASE Passed(m, d)' \subseteq Passed(m, d)
  BY <1>0, <1>1, <1>3, <1>4, <1>5, DayStays
<1>6. CASE ~(Passed(m, d)' \subseteq Passed(m, d))
  <2>1. using[c] = m /\ checked[c] = d
    <3>1. \E b \in Clients : b \in Passed(m, d)' /\ b \notin Passed(m, d)
      BY <1>6 DEF Passed, Read
    <3>2. c \in Passed(m, d)'
      BY <1>1, <1>2, <3>1 DEF Passed, Read
    <3> QED
      BY <1>1, <3>2 DEF Passed, Read
  <2>2. /\ IsFiniteSet(Counted(m, d)') /\ Cardinality(Counted(m, d)') \in Nat
        /\ Cardinality(Counted(m, d)) \in Nat
        /\ Cardinality(Counted(m, d)') =< Cardinality(Counted(m, d))
    BY <1>0, <1>3, Fewer DEF DayBound
  <2>3. /\ Cardinality(Read(m, d)') \in Nat /\ Cardinality(Read(m, d)) \in Nat
        /\ Cardinality(Read(m, d)') =< Cardinality(Read(m, d))
    BY <1>4, Sizes, Fewer
  <2>4. /\ Cardinality(Passed(m, d)') \in Nat /\ Cardinality(Clients) \in Nat
        /\ Cardinality(Passed(m, d)') =< Cardinality(Read(m, d)')
    BY SizesNext
  <2>5. mandate[m] # None => mandate[m].maxOrders \in Nat
    BY DEF MandatesInv, MandateRow
  <2>6. (d >= Day(now))' <=> d >= Day(now)
    BY <1>1 DEF Day
  <2>7. (d >= Day(now))' => Cardinality(Counted(m, d)') =< usage'[m][d]
    BY <1>0, <1>1, <2>2, <2>6 DEF DayBound
  <2>8. Cardinality(Counted(m, d)') + Cardinality(Read(m, d)') =< usage'[m][d] + Cardinality(Clients)
    BY <1>0, <1>1, <2>2, <2>3, <2>4 DEF DayBound
  <2>9. mandate[m] # None /\ mandate[m].maxOrders > 0 => usage[m][d] < mandate[m].maxOrders
    BY <1>0, <1>1, <2>1, <2>5 DEF Spent
  <2>10. mandate'[m] # None /\ mandate'[m].maxOrders > 0 =>
          Cardinality(Counted(m, d)') + Cardinality(Passed(m, d)')
              < mandate'[m].maxOrders + Cardinality(Clients)
    BY <1>0, <1>1, <2>2, <2>3, <2>4, <2>5, <2>8, <2>9
  <2> QED
    BY <2>2, <2>7, <2>8, <2>10 DEF DayBound
<1> QED
  BY <1>5, <1>6

\* A request that counts its order is no longer one of those that will.
LEMMA DayCounted ==
    ASSUME IInv, IInv', MandatesInv, DailyInv, NEW c \in Clients, Count(c),
           NEW m \in MandateIds, NEW d \in Days, using[c] = m /\ checked[c] = d,
           usage[m][d] \in Nat, usage'[m][d] \in Nat, usage[m][d] =< usage'[m][d],
           d = Day(now) => usage'[m][d] = usage[m][d] + 1
    PROVE  DayBound(m, d)'
<1>0. now \in Time /\ DayBound(m, d)
  BY DEF IInv, Types, DailyInv
<1>1. /\ pc[c] = "count" /\ EndCall(c) /\ UNCHANGED <<now, order, lost, mandate>>
  BY DEF Count, mandateVars
<1>2. /\ pc'[c] = "idle" /\ c \in Read(m, d) /\ c \in Passed(m, d)
      /\ \A b \in Clients : b # c => pc'[b] = pc[b] /\ cmd'[b] = cmd[b] /\ using'[b] = using[b]
                                     /\ checked'[b] = checked[b]
  BY <1>1 DEF EndCall, IInv, Types, MandatesInv, Read, Passed, Late
<1>3. Counted(m, d)' \subseteq Counted(m, d) \cup {cmd[c]}
  BY <1>1, <1>2 DEF Counted, OrdersOn
<1>4. Read(m, d)' \subseteq Read(m, d) \ {c} /\ Passed(m, d)' \subseteq Passed(m, d) \ {c}
  BY <1>2 DEF Read, Passed, Late
<1>5. /\ IsFiniteSet(Counted(m, d)') /\ Cardinality(Counted(m, d)') \in Nat
      /\ Cardinality(Counted(m, d)) \in Nat
      /\ Cardinality(Counted(m, d)') =< Cardinality(Counted(m, d)) + 1
  <2>1. IsFiniteSet(Counted(m, d))
    BY <1>0 DEF DayBound
  <2>2. /\ IsFiniteSet(Counted(m, d) \cup {cmd[c]}) /\ Cardinality(Counted(m, d)) \in Nat
        /\ Cardinality(Counted(m, d) \cup {cmd[c]}) =< Cardinality(Counted(m, d)) + 1
    BY <2>1, OneMore
  <2>3. /\ IsFiniteSet(Counted(m, d)') /\ Cardinality(Counted(m, d)') \in Nat
        /\ Cardinality(Counted(m, d) \cup {cmd[c]}) \in Nat
        /\ Cardinality(Counted(m, d)') =< Cardinality(Counted(m, d) \cup {cmd[c]})
    BY <1>3, <2>2, Fewer
  <2> QED
    BY <2>2, <2>3
<1>6. ASSUME NEW S, NEW T, IsFiniteSet(S), c \in S, T \subseteq S \ {c}
      PROVE  Cardinality(T) \in Nat /\ Cardinality(S) \in Nat /\ Cardinality(T) =< Cardinality(S) - 1
  <2>1. /\ IsFiniteSet(S \ {c}) /\ Cardinality(S \ {c}) = Cardinality(S) - 1
        /\ Cardinality(S) \in Nat
    BY <1>6, FS_RemoveElement, FS_CardinalityType
  <2>2. Cardinality(T) \in Nat /\ Cardinality(T) =< Cardinality(S \ {c})
    BY <1>6, <2>1, Fewer
  <2> QED
    BY <2>1, <2>2
<1>7. /\ Cardinality(Read(m, d)') \in Nat /\ Cardinality(Read(m, d)) \in Nat
      /\ Cardinality(Read(m, d)') =< Cardinality(Read(m, d)) - 1
  BY <1>2, <1>4, <1>6, Sizes
<1>8. /\ Cardinality(Passed(m, d)') \in Nat /\ Cardinality(Passed(m, d)) \in Nat
      /\ Cardinality(Passed(m, d)') =< Cardinality(Passed(m, d)) - 1
  BY <1>2, <1>4, <1>6, Sizes
<1>9. Cardinality(Clients) \in Nat
  BY Sizes
<1>10. mandate[m] # None => mandate[m].maxOrders \in Nat
  BY DEF MandatesInv, MandateRow
<1>11. (d >= Day(now))' => Cardinality(Counted(m, d)') =< usage'[m][d]
  <2>1. d =< Day(now) /\ d \in Int /\ Day(now) \in Int /\ Day(now)' = Day(now)
    BY <1>0, <1>1, DaysFollow DEF MandatesInv, Late, Day
  <2>2. d >= Day(now) => d = Day(now)
    BY <2>1
  <2> QED
    BY <1>0, <1>5, <2>1, <2>2 DEF DayBound
<1>12. Cardinality(Counted(m, d)') + Cardinality(Read(m, d)') =< usage'[m][d] + Cardinality(Clients)
  BY <1>0, <1>5, <1>7, <1>9 DEF DayBound
<1>13. mandate'[m] # None /\ mandate'[m].maxOrders > 0 =>
          Cardinality(Counted(m, d)') + Cardinality(Passed(m, d)')
              < mandate'[m].maxOrders + Cardinality(Clients)
  BY <1>0, <1>1, <1>5, <1>8, <1>9, <1>10 DEF DayBound
<1> QED
  BY <1>5, <1>11, <1>12, <1>13 DEF DayBound

\* Counting an order takes the request that placed it out of the bound.
LEMMA DailyCounted ==
    ASSUME IInv, IInv', MandatesInv, DailyInv, NEW c \in Clients, Count(c)
    PROVE  DailyInv'
<1>1. /\ pc[c] = "count" /\ usage' = [usage EXCEPT ![using[c]][Day(now)] = @ + 1]
      /\ EndCall(c) /\ UNCHANGED <<now, order, lost, mandate>>
  BY DEF Count, mandateVars
<1>2. /\ now \in Time /\ using[c] \in MandateIds /\ checked[c] \in Days /\ Day(now) \in Days
      /\ usage \in [MandateIds -> [Days -> Nat]]
  BY <1>1, DaysFollow DEF IInv, Types, MandatesInv, Late, DailyInv
<1>3. PICK today : today = Day(now)
  OBVIOUS
<1>4. \A m \in MandateIds : \A d \in Days : usage'[m][d] =
          IF m = using[c] /\ d = today THEN usage[m][d] + 1 ELSE usage[m][d]
  BY <1>1, <1>2, <1>3
<1>5. \A m \in MandateIds : \A d \in Days : usage[m][d] \in Nat
  BY <1>2
<1>6. usage' \in [MandateIds -> [Days -> Nat]]
  BY <1>1, <1>2
<1>7. ASSUME NEW m \in MandateIds, NEW d \in Days PROVE DayBound(m, d)'
  <2>1. usage[m][d] \in Nat /\ usage'[m][d] \in Nat /\ usage[m][d] =< usage'[m][d]
    BY <1>4, <1>5
  <2>2. CASE using[c] = m /\ checked[c] = d
    <3>1. d = Day(now) => usage'[m][d] = usage[m][d] + 1
      BY <1>3, <1>4, <2>2
    <3> QED
      BY <2>1, <2>2, <3>1, DayCounted
  <2>3. CASE ~(using[c] = m /\ checked[c] = d)
    <3>1. Counted(m, d)' \subseteq Counted(m, d)
      <4>1. order[cmd[c]] # [mandate |-> m, day |-> d]
        <5>1. order[cmd[c]] = [mandate |-> using[c], day |-> checked[c]]
          BY <1>1 DEF MandatesInv
        <5>2. order[cmd[c]].mandate # m \/ order[cmd[c]].day # d
          BY <2>3, <5>1
        <5> QED
          BY <5>2
      <4>2. \A b \in Clients : b # c /\ pc[b] = "count" => pc'[b] = "count" /\ cmd'[b] = cmd[b]
        BY <1>1 DEF EndCall, IInv, Types
      <4> QED
        BY <1>1, <4>1, <4>2 DEF Counted, OrdersOn
    <3>2. \A b \in Clients : pc'[b] \in Late =>
               /\ pc[b] \in Late /\ using'[b] = using[b] /\ checked'[b] = checked[b]
               /\ pc'[b] # "usage" => pc[b] # "usage"
      BY <1>1 DEF EndCall, IInv, Types, MandatesInv, Late
    <3>3. Read(m, d)' \subseteq Read(m, d) /\ Passed(m, d)' \subseteq Passed(m, d)
      BY <3>2, ReadShrinks
    <3>4. DayBound(m, d) /\ now =< now' /\ now' \in Time
      BY <1>1, <1>2 DEF DailyInv
    <3> QED
      BY <1>1, <1>2, <2>1, <3>1, <3>3, <3>4, DayStays
  <2> QED
    BY <2>2, <2>3
<1> QED
  BY <1>6, <1>7 DEF DailyInv

\* Steps that count nothing and let no request get further.
LEMMA DailyApart ==
    ASSUME IInv, IInv', MandatesInv, DailyInv, now =< now', UNCHANGED <<usage, mandate>>,
           \A m \in MandateIds, d \in Days : Counted(m, d)' \subseteq Counted(m, d),
           \A c \in Clients : pc'[c] \in Late =>
               /\ pc[c] \in Late /\ using'[c] = using[c] /\ checked'[c] = checked[c]
               /\ pc'[c] # "usage" => pc[c] # "usage"
    PROVE  DailyInv'
<1>1. ASSUME NEW m \in MandateIds, NEW d \in Days PROVE DayBound(m, d)'
  <2>1. Read(m, d)' \subseteq Read(m, d) /\ Passed(m, d)' \subseteq Passed(m, d)
    BY ReadShrinks
  <2>2. usage[m][d] \in Nat /\ usage'[m][d] = usage[m][d] /\ DayBound(m, d)
    BY DEF DailyInv
  <2>3. now \in Time /\ now' \in Time /\ usage[m][d] =< usage'[m][d]
    BY <2>2 DEF IInv, Types
  <2> QED
    BY <2>1, <2>2, <2>3, DayStays
<1> QED
  BY <1>1 DEF DailyInv

\* An order that is placed is one that a request has still to count.
LEMMA DailyPlaced ==
    ASSUME IInv, IInv', MandatesInv, DailyInv, NEW c \in Clients, Place(c)
    PROVE  DailyInv'
<1>1. /\ pc[c] = "place" /\ pc' = [pc EXCEPT ![c] = "count"]
      /\ order' = [order EXCEPT ![cmd[c]] = [mandate |-> using[c], day |-> checked[c]]]
      /\ UNCHANGED <<now, usage, mandate, lost, using, checked, cmd>>
  BY DEF Place, mandateVars
<1>2. pc'[c] = "count" /\ \A b \in Clients : b # c => pc'[b] = pc[b]
  BY <1>1 DEF IInv, Types
<1>3. \A n \in Commands : n # cmd[c] => order'[n] = order[n]
  BY <1>1 DEF MandatesInv
<1>4. ASSUME NEW m \in MandateIds, NEW d \in Days PROVE Counted(m, d)' \subseteq Counted(m, d)
  <2>1. \A n \in Counted(m, d)' : n # cmd[c] /\ n \in Commands
    BY <1>1, <1>2 DEF Counted, OrdersOn
  <2>2. \A b \in Clients : pc[b] = "count" => pc'[b] = "count"
    BY <1>2
  <2> QED
    BY <1>1, <1>3, <2>1, <2>2 DEF Counted, OrdersOn
<1>5. \A b \in Clients : pc'[b] \in Late =>
               /\ pc[b] \in Late /\ using'[b] = using[b] /\ checked'[b] = checked[b]
               /\ pc'[b] # "usage" => pc[b] # "usage"
  BY <1>1, <1>2 DEF Late
<1>6. now =< now'
  BY <1>1 DEF IInv, Types
<1> QED
  BY <1>1, <1>4, <1>5, <1>6, DailyApart

\* A mandate begins without orders.
LEMMA DailyIssued ==
    ASSUME IInv, IInv', MandatesInv, DailyInv, NEW row \in MandateRows, IssueMandate(row)
    PROVE  DailyInv'
<1>1. PICK j \in MandateIds : mandate[j] = None /\ mandate' = [mandate EXCEPT ![j] = row]
  BY DEF IssueMandate
<1>2. UNCHANGED <<now, usage, order, lost, pc, cmd, using, checked>> /\ row \in MandateRow
  BY DEF IssueMandate, countVars, callVars
<1>3. now \in Time /\ now =< now' /\ now' = now
  BY <1>2 DEF IInv, Types
<1>4. ASSUME NEW m \in MandateIds, NEW d \in Days PROVE DayBound(m, d)'
  <2>1. Counted(m, d)' = Counted(m, d) /\ Read(m, d)' = Read(m, d) /\ Passed(m, d)' = Passed(m, d)
    BY <1>2 DEF Counted, OrdersOn, Read, Passed
  <2>2. usage[m][d] \in Nat /\ usage'[m][d] = usage[m][d] /\ DayBound(m, d)
    BY <1>2 DEF DailyInv
  <2>3. CASE m # j
    <3>1. mandate'[m] = mandate[m] /\ usage[m][d] =< usage'[m][d]
      BY <1>1, <2>2, <2>3 DEF MandatesInv
    <3> QED
      BY <1>3, <2>1, <2>2, <3>1, DayStays
  <2>4. CASE m = j
    <3>1. Counted(m, d) = {}
      <4>1. ASSUME NEW n \in Counted(m, d) PROVE FALSE
        <5>1. n \in Commands /\ order[n] = [mandate |-> m, day |-> d]
          BY DEF Counted, OrdersOn
        <5>2. order[n] # None
          BY <5>1 DEF Placed
        <5>3. mandate[order[n].mandate] # None /\ order[n].mandate = m
          BY <5>1, <5>2 DEF MandatesInv
        <5> QED
          BY <1>1, <2>4, <5>3
      <4> QED
        BY <4>1
    <3>2. Passed(m, d) = {}
      <4>1. \A c \in Clients : pc[c] \in Late => using[c] # m
        BY <1>1, <2>4 DEF MandatesInv
      <4> QED
        BY <4>1 DEF Passed, Read
    <3>3. Cardinality({}) = 0 /\ Cardinality(Clients) \in Nat
      BY Sizes, FS_EmptySet
    <3>4. mandate'[m] = row /\ row.maxOrders \in Nat
      BY <1>1, <1>2, <2>4 DEF MandatesInv, MandateRow
    <3>5. mandate'[m] # None /\ mandate'[m].maxOrders > 0 =>
          Cardinality(Counted(m, d)') + Cardinality(Passed(m, d)')
              < mandate'[m].maxOrders + Cardinality(Clients)
      BY <2>1, <3>1, <3>2, <3>3, <3>4
    <3>6. (d >= Day(now))' <=> d >= Day(now)
      BY <1>3 DEF Day
    <3> QED
      BY <1>2, <2>1, <2>2, <3>5, <3>6 DEF DayBound
  <2> QED
    BY <2>3, <2>4
<1> QED
  BY <1>2, <1>4 DEF DailyInv

\* Every step keeps the bound.
LEMMA DailyNext ==
    ASSUME IInv, IInv', MandatesInv, DailyInv, [Next]_vars
    PROVE  DailyInv'
<1>0. now \in Time /\ now' \in Time
  BY DEF IInv, Types
<1>1. ASSUME UNCHANGED <<usage, mandate, order, lost>>, now =< now',
             \A c \in Clients : pc[c] = "count" => pc'[c] = "count" /\ cmd'[c] = cmd[c],
             \A c \in Clients : pc'[c] \in Late =>
               /\ pc[c] \in Late /\ using'[c] = using[c] /\ checked'[c] = checked[c]
               /\ pc'[c] # "usage" => pc[c] # "usage"
      PROVE  DailyInv'
  BY <1>1, CountedShrinks, DailyApart
<1>2. CASE \/ Clock \/ CreateAgent \/ RevokeAgent
           \/ \E r \in Rotators : RotateRevoke(r) \/ RotateCreate(r) \/ RotateFails(r)
           \/ \E m \in MandateIds : RevokeMandate(m)
           \/ \E n \in Commands, market \in Markets, error \in ClockErrors : Sign(n, market, error)
           \/ \E h \in HumanOrders, u \in Traders : HumanOrder(h, u)
           \/ UNCHANGED vars
  <2>1. now' \in {now, now + 1} /\ UNCHANGED <<usage, mandate, order, lost, callVars>>
    BY <1>2 DEF Clock, Tick, CreateAgent, RevokeAgent, RotateRevoke, RotateCreate, RotateFails,
       RevokeMandate, Sign, HumanOrder, vars, mandateVars, countVars
  <2> QED
    BY <1>0, <1>1, <2>1 DEF callVars
<1>3. ASSUME NEW c \in Clients, EndCall(c), UNCHANGED <<now, usage, mandate, order>>, lost \subseteq lost',
             pc[c] = "count" => cmd[c] \in lost'
      PROVE  DailyInv'
  <2>1. \A d \in Clients : d # c => pc'[d] = pc[d] /\ cmd'[d] = cmd[d] /\ using'[d] = using[d]
                                    /\ checked'[d] = checked[d]
    BY <1>3 DEF EndCall, IInv, Types, MandatesInv
  <2>2. pc'[c] = "idle"
    BY <1>3 DEF EndCall, IInv, Types
  <2>3. \A m \in MandateIds, d \in Days : Counted(m, d)' \subseteq Counted(m, d)
    BY <1>3, <2>1, CountedShrinks
  <2> QED
    BY <1>0, <1>3, <2>1, <2>2, <2>3, DailyApart DEF Late
<1>4. ASSUME NEW c \in Clients, Refuse(c) \/ Abort(c) PROVE DailyInv'
  <2>1. EndCall(c) /\ UNCHANGED <<now, usage, mandate, order>>
    BY <1>4 DEF Refuse, Abort, mandateVars, countVars
  <2>2. lost \subseteq lost' /\ (pc[c] = "count" => cmd[c] \in lost')
    BY <1>4 DEF Refuse, Refused, Abort, countVars
  <2> QED
    BY <1>3, <2>1, <2>2
<1>5. CASE Restart
  <2>1. /\ lost' = lost \cup {cmd[c] : c \in {d \in Clients : pc[d] = "count"}}
        /\ pc' = [c \in Clients |-> "idle"] /\ UNCHANGED <<now, usage, mandate, order>>
    BY <1>5 DEF Restart, mandateVars
  <2>2. \A m \in MandateIds, d \in Days : Counted(m, d)' \subseteq Counted(m, d)
    <3>1. \A c \in Clients : pc[c] = "count" => cmd[c] \in lost'
      BY <2>1
    <3> QED
      BY <2>1, <3>1, CountedShrinks
  <2>3. \A c \in Clients : pc'[c] \notin Late
    BY <2>1 DEF Late
  <2> QED
    BY <1>0, <2>1, <2>2, <2>3, DailyApart
<1>6. ASSUME NEW c \in Clients, NEW n \in Commands, Deliver(c, n) PROVE DailyInv'
  <2>1. /\ pc' = [pc EXCEPT ![c] = "nonce"] /\ pc[c] = "idle" /\ cmd' = [cmd EXCEPT ![c] = n]
        /\ UNCHANGED <<now, usage, mandate, order, lost, using, checked>>
    BY <1>6 DEF Deliver, mandateVars, countVars
  <2>2. /\ pc'[c] = "nonce"
        /\ \A d \in Clients : d # c => pc'[d] = pc[d] /\ cmd'[d] = cmd[d]
    BY <2>1 DEF IInv, Types
  <2>3. \A d \in Clients : pc'[d] \in Late => d # c
    BY <2>2 DEF Late
  <2> QED
    BY <1>0, <1>1, <2>1, <2>2, <2>3
<1>7. ASSUME NEW c \in Clients, TakeNonce(c) PROVE DailyInv'
  <2>1. /\ pc' = [pc EXCEPT ![c] = "load"] /\ pc[c] = "nonce"
        /\ UNCHANGED <<now, usage, mandate, order, lost, using, checked, cmd>>
    BY <1>7 DEF TakeNonce, mandateVars
  <2>2. pc'[c] = "load" /\ \A d \in Clients : d # c => pc'[d] = pc[d]
    BY <2>1 DEF IInv, Types
  <2>3. \A d \in Clients : pc'[d] \in Late => d # c
    BY <2>2 DEF Late
  <2> QED
    BY <1>0, <1>1, <2>1, <2>2, <2>3
<1>8. ASSUME NEW c \in Clients, Admit(c) PROVE DailyInv'
  <2>1. pc[c] = "admit" /\ UNCHANGED <<now, usage, mandate, order, lost>>
    BY <1>8 DEF Admit, mandateVars, countVars
  <2>2. CASE EndCall(c)
    BY <1>3, <2>1, <2>2
  <2>3. CASE pc' = [pc EXCEPT ![c] = "place"] /\ UNCHANGED <<cmd, using, checked>>
    <3>1. pc'[c] = "place" /\ \A d \in Clients : d # c => pc'[d] = pc[d]
      BY <2>3 DEF IInv, Types
    <3>2. pc[c] \in Late
      BY <2>1 DEF Late
    <3> QED
      BY <1>0, <1>1, <2>1, <2>3, <3>1, <3>2
  <2> QED
    BY <1>8, <2>2, <2>3 DEF Admit
<1>9. ASSUME NEW c \in Clients, Load(c) PROVE DailyInv'
  <2>1. usage' = usage
    BY <1>9 DEF Load, countVars
  <2> QED
    BY <1>9, <2>1, DayLoaded DEF DailyInv
<1>10. ASSUME NEW c \in Clients, CheckUsage(c) PROVE DailyInv'
  <2>1. usage' = usage
    BY <1>10 DEF CheckUsage, countVars
  <2> QED
    BY <1>10, <2>1, DayPassed DEF DailyInv
<1> QED
  BY <1>2, <1>4, <1>5, <1>6, <1>7, <1>8, <1>9, <1>10, DailyIssued, DailyPlaced, DailyCounted
     DEF Next, Proceed

\* An order is placed only under a usage that was below the limit when it was read.
LEMMA DailyShown == IInv /\ MandatesInv /\ DailyInv => DailyLimit
<1> SUFFICES ASSUME IInv, MandatesInv, DailyInv, NEW m \in MandateIds, NEW d \in Days,
                    mandate[m] # None, mandate[m].maxOrders > 0
             PROVE  Cardinality(OrdersOn(m, d)) < mandate[m].maxOrders + Cardinality(Clients)
  BY DEF DailyLimit
<1> DEFINE counting == {c \in Clients : pc[c] = "count" /\ cmd[c] \in OrdersOn(m, d)}
           uncounted == {cmd[c] : c \in counting}
<1>1. counting \subseteq Passed(m, d)
  <2>1. ASSUME NEW c \in counting PROVE using[c] = m /\ checked[c] = d
    <3>1. order[cmd[c]] = [mandate |-> using[c], day |-> checked[c]]
      BY DEF MandatesInv
    <3>2. order[cmd[c]] = [mandate |-> m, day |-> d]
      BY DEF OrdersOn
    <3> QED
      BY <3>1, <3>2
  <2> QED
    BY <2>1 DEF Passed, Read, Late
<1>2. /\ IsFiniteSet(counting) /\ Cardinality(counting) \in Nat
      /\ Cardinality(Passed(m, d)) \in Nat /\ Cardinality(counting) =< Cardinality(Passed(m, d))
  BY <1>1, Sizes, Fewer
<1>3. IsFiniteSet(uncounted) /\ Cardinality(uncounted) =< Cardinality(counting)
  <2>1. [c \in counting |-> cmd[c]] \in Surjection(counting, uncounted)
    BY DEF Surjection
  <2> HIDE DEF counting, uncounted
  <2> QED
    BY <1>2, <2>1, FS_Surjection
<1>4. OrdersOn(m, d) \subseteq Counted(m, d) \cup uncounted
  BY DEF Counted
<1>5. IsFiniteSet(Counted(m, d)) /\ DayBound(m, d)
  BY DEF DailyInv, DayBound
<1> HIDE DEF counting, uncounted
<1>6. /\ IsFiniteSet(Counted(m, d) \cup uncounted)
      /\ Cardinality(Counted(m, d) \cup uncounted)
           = Cardinality(Counted(m, d)) + Cardinality(uncounted) - Cardinality(Counted(m, d) \cap uncounted)
  BY <1>3, <1>5, FS_Union
<1>7. /\ Cardinality(Counted(m, d)) \in Nat /\ Cardinality(uncounted) \in Nat
      /\ Cardinality(Counted(m, d) \cap uncounted) \in Nat
  BY <1>3, <1>5, Fewer
<1>8. /\ Cardinality(OrdersOn(m, d)) \in Nat
      /\ Cardinality(OrdersOn(m, d)) =< Cardinality(Counted(m, d) \cup uncounted)
  BY <1>4, <1>6, Fewer
<1>9. mandate[m].maxOrders \in Nat /\ Cardinality(Clients) \in Nat
  BY Sizes, ZenonT(40) DEF MandatesInv, MandateRow
<1>10. Cardinality(Counted(m, d)) + Cardinality(Passed(m, d)) < mandate[m].maxOrders + Cardinality(Clients)
  BY <1>5 DEF DayBound
<1> QED
  BY <1>2, <1>3, <1>6, <1>7, <1>8, <1>9, <1>10

\* The orders placed under a mandate on a day exceed maxOrdersPerDay by fewer than the requests
\* in progress: the check of the usage and its increment are apart, but no further than that.
THEOREM DailyLimitHolds == Spec => []DailyLimit
<1>1. IInv /\ IInv' /\ MandatesInv /\ DailyInv /\ [Next]_vars => DailyInv'
  BY DailyNext
<1>2. Spec => [](IInv /\ MandatesInv)
  BY MandatesHold
<1>3. IInv /\ MandatesInv /\ DailyInv => DailyLimit
  BY DailyShown
<1> QED
  BY <1>1, <1>2, <1>3, DailyInit, PTL DEF Spec
=============================================================================
