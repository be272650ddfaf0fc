---------------------------- MODULE ProcessProofs ----------------------------
(***************************************************************************)
(* What one process runs beside its requests: the lanes of                 *)
(* SerializedDispatch, and the reconciliation runs of Operations.          *)
(*                                                                         *)
(* SerializedDispatch runs the tasks of a key one at a time and in order,  *)
(* keeps no lane of finished tasks, and implements LaneQueue.  A task      *)
(* knows only the promise it waits for, so the invariant has to say that   *)
(* this promise speaks for every earlier task of the key: nothing of the   *)
(* key lies between the two, and the map holds the latest task.            *)
(*                                                                         *)
(* The runs of Operations read while orders are placed and filled; their   *)
(* invariant says what a run has still to find by the statements it has    *)
(* still to make.                                                          *)
(***************************************************************************)
EXTENDS SerializedDispatchProperties, OperationsProperties, FiniteSetTheorems,
        WellFoundedInduction, SequenceTheorems, TLAPS

Tickets ==
    /\ \A t \in Tasks : state[t] = "new" => key[t] = None
    /\ \A t \in Tasks : state[t] # "new" => key[t] \in Keys /\ ticket[t] =< arrivals
    /\ \A t, u \in Tasks : key[t] = key[u] /\ key[t] \in Keys /\ t # u => ticket[t] # ticket[u]

\* The lane of a key is its latest task, until that one has settled.
Latest ==
    \A k \in Keys :
        /\ lanes[k] = None => \A t \in Of(k) : state[t] \in Settled
        /\ lanes[k] # None =>
               /\ lanes[k] \in Of(k) /\ state[lanes[k]] \notin Settled
               /\ \A t \in Of(k) : ticket[t] =< ticket[lanes[k]]

\* A queued task waits for the task right before it in its key.
Chained ==
    \A u \in Tasks : state[u] = "queued" =>
        \A t \in Of(key[u]) : ticket[t] < ticket[u] =>
            \/ previous[u] = None /\ state[t] \in Settled
            \/ /\ previous[u] \in Of(key[u])
               /\ ticket[t] =< ticket[previous[u]] /\ ticket[previous[u]] < ticket[u]

IInv == TypeOK /\ Tickets /\ Latest /\ Chained /\ InOrder

\* Nothing has arrived yet.
LEMMA InitHolds == Init => IInv
  BY DispatchAssumption DEF Init, IInv, TypeOK, Tickets, Latest, Chained, InOrder, Of, States

\* Handing in makes the task the latest of its key, behind the one that was.
LEMMA HandInHolds ==
    ASSUME IInv, NEW t \in Tasks, NEW k \in Keys, HandIn(t, k)
    PROVE  IInv'
<1> USE DispatchAssumption
<1>1. TypeOK'
  BY DEF IInv, TypeOK, HandIn, LastOfLane, States
<1>2. /\ \A u \in Tasks : u # t => key'[u] = key[u] /\ ticket'[u] = ticket[u]
                                   /\ previous'[u] = previous[u] /\ state'[u] = state[u]
      /\ key'[t] = k /\ ticket'[t] = arrivals + 1 /\ previous'[t] = lanes[k]
      /\ state'[t] = "queued" /\ state[t] = "new" /\ key[t] = None
      /\ \A h \in Keys : lanes'[h] = IF h = k THEN t ELSE lanes[h]
      /\ arrivals' = arrivals + 1
  BY DEF IInv, TypeOK, Tickets, HandIn, LastOfLane
<1>3. /\ \A u \in Tasks : ticket[u] \in Nat /\ key[u] \in Keys \cup {None}
      /\ arrivals \in Nat
  BY DEF IInv, TypeOK
<1>4. Tickets'
  BY <1>2, <1>3 DEF IInv, Tickets
<1>5. \A u \in Tasks : key[u] \in Keys => ticket[u] =< arrivals
  BY DEF IInv, Tickets
<1>6. Latest'
  BY <1>2, <1>3, <1>5 DEF IInv, Latest, Of, Settled
<1>7. Chained'
  <2>1. SUFFICES ASSUME NEW u \in Tasks, state'[u] = "queued",
                        NEW v \in Tasks, key'[v] = key'[u], ticket'[v] < ticket'[u]
                 PROVE  \/ previous'[u] = None /\ state'[v] \in Settled
                        \/ /\ previous'[u] \in Tasks /\ key'[previous'[u]] = key'[u]
                           /\ ticket'[v] =< ticket'[previous'[u]]
                           /\ ticket'[previous'[u]] < ticket'[u]
    BY DEF Chained, Of
  <2>2. CASE u = t
    <3>1. v # t /\ key[v] = k /\ state'[v] = state[v] /\ ticket'[v] = ticket[v]
      BY <1>2, <1>3, <2>1, <2>2
    <3>2. CASE lanes[k] = None
      BY <1>2, <2>2, <3>1, <3>2 DEF IInv, Latest, Of
    <3>3. CASE lanes[k] # None
      <4>1. /\ lanes[k] \in Tasks /\ key[lanes[k]] = k /\ lanes[k] # t
            /\ ticket[v] =< ticket[lanes[k]]
        BY <1>2, <3>1, <3>3 DEF IInv, Latest, Of
      <4> QED BY <1>2, <1>3, <1>5, <2>2, <3>1, <4>1
    <3> QED BY <3>2, <3>3
  <2>3. CASE u # t
    <3>1. /\ key[u] \in Keys /\ ticket[u] =< arrivals /\ state[u] = "queued"
          /\ key'[u] = key[u] /\ ticket'[u] = ticket[u] /\ previous'[u] = previous[u]
      BY <1>2, <2>1, <2>3 DEF IInv, Tickets
    <3>2. v # t /\ key[v] = key[u] /\ ticket[v] < ticket[u] /\ state'[v] = state[v]
          /\ ticket'[v] = ticket[v]
      BY <1>2, <1>3, <2>1, <3>1
    <3>3. \/ previous[u] = None /\ state[v] \in Settled
          \/ /\ previous[u] \in Tasks /\ key[previous[u]] = key[u]
             /\ ticket[v] =< ticket[previous[u]] /\ ticket[previous[u]] < ticket[u]
      BY <3>1, <3>2 DEF IInv, Chained, Of
    <3>4. previous[u] \in Tasks /\ key[previous[u]] = key[u] => previous[u] # t
      BY <1>2, <3>1
    <3> QED BY <1>2, <3>1, <3>2, <3>3, <3>4
  <2> QED BY <2>2, <2>3
<1>8. InOrder'
  <2>1. SUFFICES ASSUME NEW v \in Tasks, NEW u \in Tasks, key'[v] = key'[u],
                        ticket'[v] < ticket'[u], state'[u] \notin {"new", "queued"}
                 PROVE  state'[v] \in Settled
    BY DEF InOrder
  <2>2. u # t /\ key[u] \in Keys /\ ticket[u] =< arrivals
    BY <1>2, <2>1 DEF IInv, Tickets
  <2>3. v # t
    BY <1>2, <1>3, <2>1, <2>2
  <2> QED BY <1>2, <2>1, <2>2, <2>3 DEF IInv, InOrder
<1> QED BY <1>1, <1>4, <1>6, <1>7, <1>8 DEF IInv

\* When a task begins, the promise it waited for has settled, and with it every
\* earlier task of the key.
LEMMA BeginHolds ==
    ASSUME IInv, NEW t \in Tasks, Begin(t)
    PROVE  IInv'
<1> USE DispatchAssumption
<1>1. TypeOK' /\ Tickets' /\ Latest'
  BY DEF IInv, TypeOK, Tickets, Latest, Of, Begin, States, Settled
<1>2. Chained'
  BY DEF IInv, TypeOK, Chained, Of, Begin, Settled
<1>3. \A v \in Tasks : key[v] = key[t] /\ ticket[v] < ticket[t] => state[v] \in Settled
  <2>1. SUFFICES ASSUME NEW v \in Tasks, key[v] = key[t], ticket[v] < ticket[t]
                 PROVE  state[v] \in Settled
    OBVIOUS
  <2>2. CASE previous[t] = None
    BY <2>1, <2>2 DEF IInv, Chained, Of, Begin
  <2>3. CASE previous[t] # None
    <3>1. /\ previous[t] \in Tasks /\ key[previous[t]] = key[t]
          /\ ticket[v] =< ticket[previous[t]] /\ state[previous[t]] \in Settled
      BY <2>1, <2>3 DEF IInv, Chained, Of, Begin, PreviousOver
    <3>2. key[t] \in Keys /\ ticket[v] \in Nat /\ ticket[previous[t]] \in Nat
      BY <3>1 DEF IInv, TypeOK, Tickets, Begin
    <3>3. v = previous[t] \/ ticket[v] < ticket[previous[t]]
      BY <2>1, <3>1, <3>2 DEF IInv, Tickets
    <3> QED BY <2>1, <3>1, <3>3 DEF IInv, InOrder, Settled
  <2> QED BY <2>2, <2>3
<1>4. InOrder'
  BY <1>3 DEF IInv, TypeOK, InOrder, Begin, Settled
<1> QED BY <1>1, <1>2, <1>4 DEF IInv

\* A task that ends stays ahead of those behind it.
LEMMA EndHolds ==
    ASSUME IInv, NEW t \in Tasks, End(t)
    PROVE  IInv'
<1> USE DispatchAssumption
<1>1. PICK outcome \in {"ended", "failed"} : state' = [state EXCEPT ![t] = outcome]
  BY DEF End
<1>2. TypeOK' /\ Tickets' /\ Latest' /\ Chained'
  BY <1>1 DEF IInv, TypeOK, Tickets, Latest, Chained, Of, End, States, Settled
<1>3. InOrder'
  BY <1>1 DEF IInv, TypeOK, InOrder, End, Settled
<1> QED BY <1>2, <1>3 DEF IInv

\* The callback drops the lane only for the latest task, and then every earlier one
\* has settled too.
LEMMA CleanupHolds ==
    ASSUME IInv, NEW t \in Tasks, Cleanup(t)
    PROVE  IInv'
<1> USE DispatchAssumption
<1> DEFINE end == IF state[t] = "ended" THEN "resolved" ELSE "rejected"
<1>1. state' = [state EXCEPT ![t] = end] /\ end \in Settled
      /\ UNCHANGED <<key, previous, ticket, arrivals>>
      /\ state[t] \in {"ended", "failed"}
  BY DEF Cleanup, Settled
<1>2. key[t] \in Keys
  BY <1>1 DEF IInv, Tickets
<1> HIDE DEF end
<1>3. TypeOK'
  BY <1>1, <1>2 DEF IInv, TypeOK, Cleanup, States, Settled
<1>4. Tickets' /\ Chained' /\ InOrder'
  BY <1>1 DEF IInv, TypeOK, Tickets, Chained, InOrder, Of, Settled
<1>5. \A u \in Of(key[t]) : ticket[u] < ticket[t] => state[u] \in Settled
  BY <1>1 DEF IInv, InOrder, Of
<1>6. Latest'
  <2>1. CASE lanes[key[t]] = t
    <3>1. lanes' = [lanes EXCEPT ![key[t]] = None]
      BY <2>1 DEF Cleanup, Drops
    <3>2. \A u \in Of(key[t]) : u = t \/ state[u] \in Settled
      <4>1. SUFFICES ASSUME NEW u \in Of(key[t]), u # t PROVE ticket[u] < ticket[t]
        BY <1>5
      <4>2. ticket[u] =< ticket[t] /\ ticket[u] # ticket[t]
        BY <1>2, <2>1, <4>1, t # None DEF IInv, Latest, Tickets, Of
      <4> QED BY <4>1, <4>2 DEF IInv, TypeOK, Of
    <3> QED BY <1>1, <1>2, <3>1, <3>2 DEF IInv, TypeOK, Latest, Of
  <2>2. CASE lanes[key[t]] # t
    <3>1. lanes' = lanes
      BY <2>2 DEF Cleanup, Drops
    <3> QED BY <1>1, <1>2, <2>2, <3>1 DEF IInv, TypeOK, Latest, Of
  <2> QED BY <2>1, <2>2
<1> QED BY <1>3, <1>4, <1>6 DEF IInv

\* IInv holds in every reachable state.
THEOREM InductiveInvariant == Spec => []IInv
<1>1. IInv /\ [Next]_vars => IInv'
  <2> SUFFICES ASSUME IInv, [Next]_vars PROVE IInv'
    OBVIOUS
  <2>1. ASSUME NEW t \in Tasks, NEW k \in Keys, HandIn(t, k) PROVE IInv'
    BY <2>1, HandInHolds
  <2>2. ASSUME NEW t \in Tasks, Begin(t) PROVE IInv'
    BY <2>2, BeginHolds
  <2>3. ASSUME NEW t \in Tasks, End(t) PROVE IInv'
    BY <2>3, EndHolds
  <2>4. ASSUME NEW t \in Tasks, Cleanup(t) PROVE IInv'
    BY <2>4, CleanupHolds
  <2>5. CASE UNCHANGED vars
    BY <2>5 DEF vars, IInv, TypeOK, Tickets, Latest, Chained, InOrder, Of
  <2> QED BY <2>1, <2>2, <2>3, <2>4, <2>5 DEF Next
<1> QED BY InitHolds, <1>1, PTL DEF Spec

\* Tasks of a key run in the order in which they were handed in: none begins before
\* all that came before it are over.
THEOREM RunInOrder == Spec => []InOrder
  BY InductiveInvariant, PTL DEF IInv

\* No two tasks of a key ever run together: runSerializedByKey is a mutual exclusion.
THEOREM RunOneAtATime == Spec => []OneAtATime
<1>1. IInv => OneAtATime
  <2> SUFFICES ASSUME IInv, NEW t \in Tasks, NEW u \in Tasks, t # u, key[t] = key[u],
                      state[t] = "running", state[u] = "running"
               PROVE  FALSE
    BY DEF OneAtATime
  <2>1. ticket[t] < ticket[u] \/ ticket[u] < ticket[t]
    BY DEF IInv, TypeOK, Tickets
  <2> QED BY <2>1 DEF IInv, InOrder, Settled
<1> QED BY InductiveInvariant, <1>1, PTL

\* The map holds a lane for exactly the keys with unsettled tasks, so it does not grow.
THEOREM KeepsNoLane == Spec => []LanesDropped
<1>1. IInv => LanesDropped
  BY DispatchAssumption DEF IInv, Latest, LanesDropped
<1> QED BY InductiveInvariant, <1>1, PTL

-----------------------------------------------------------------------------
(* The order of tasks.                                                     *)

\* A set of subsets that has each subset whose smaller ones it has, has them all.
LEMMA FromSmaller ==
    ASSUME NEW S, IsFiniteSet(S), NEW Good,
           \A T \in SUBSET S : (\A U \in SUBSET T : U # T => U \in Good) => T \in Good
    PROVE  \A T \in SUBSET S : T \in Good
<1> DEFINE Bad == {T \in SUBSET S : T \notin Good}
<1>1. SUFFICES ASSUME Bad # {} PROVE FALSE
  OBVIOUS
<1>2. IsWellFoundedOn(StrictSubsetOrdering(S), FiniteSubsetsOf(S))
  BY FS_StrictSubsetOrderingWellFounded
<1>3. Bad \subseteq FiniteSubsetsOf(S)
  BY FS_FiniteSubsetsOfFinite
<1>4. PICK T \in Bad : \A U \in Bad : ~(<<U, T>> \in StrictSubsetOrdering(S))
  <2> HIDE DEF Bad
  <2> QED
    BY <1>1, <1>2, <1>3, WFMin
<1>5. \A U \in SUBSET T : U # T => U \in Good
  <2> SUFFICES ASSUME NEW U \in SUBSET T, U # T PROVE U \in Good
    OBVIOUS
  <2>1. <<U, T>> \in StrictSubsetOrdering(S) /\ U \in SUBSET S
    BY <1>4 DEF StrictSubsetOrdering
  <2> QED
    BY <1>4, <2>1
<1> QED
  BY <1>4, <1>5

Youngest(T, at) == CHOOSE t \in T : \A u \in T : at[u] =< at[t]

\* Of finitely many tasks one is the youngest.
LEMMA YoungestIs ==
    ASSUME NEW S, IsFiniteSet(S), S # {}, NEW at, \A t \in S : at[t] \in Nat
    PROVE  Youngest(S, at) \in S /\ \A u \in S : at[u] =< at[Youngest(S, at)]
<1> DEFINE Good == {T \in SUBSET S : T # {} => \E t \in T : \A u \in T : at[u] =< at[t]}
<1>1. ASSUME NEW T \in SUBSET S, \A U \in SUBSET T : U # T => U \in Good
      PROVE  T \in Good
  <2> SUFFICES ASSUME T # {} PROVE \E t \in T : \A u \in T : at[u] =< at[t]
    OBVIOUS
  <2>1. PICK x \in T : TRUE
    OBVIOUS
  <2>2. T \ {x} \in Good
    BY <1>1
  <2>3. CASE T = {x}
    BY <2>3
  <2>4. CASE T # {x}
    <3>1. PICK t \in T \ {x} : \A u \in T \ {x} : at[u] =< at[t]
      BY <2>1, <2>2, <2>4
    <3>2. at[t] \in Nat /\ at[x] \in Nat /\ \A u \in T : at[u] \in Nat
      OBVIOUS
    <3>3. CASE at[x] =< at[t]
      BY <3>1, <3>3
    <3>4. CASE at[t] < at[x]
      BY <3>1, <3>2, <3>4
    <3> QED
      BY <3>2, <3>3, <3>4
  <2> QED
    BY <2>3, <2>4
<1>2. S \in Good
  <2> HIDE DEF Good
  <2> QED
    BY <1>1, FromSmaller
<1> QED
  BY <1>2 DEF Youngest

\* it holds, for every subset of S, its tasks in order.
AreOrders(S, at, it) ==
    it = [T \in SUBSET S |-> IF T = {} THEN << >>
                             ELSE Append(it[T \ {Youngest(T, at)}], Youngest(T, at))]

\* There is one such function at most.
LEMMA OrdersAgree ==
    ASSUME NEW S, IsFiniteSet(S), NEW at, \A t \in S : at[t] \in Nat,
           NEW T, NEW U, S \subseteq T, S \subseteq U,
           NEW it, AreOrders(T, at, it), NEW jt, AreOrders(U, at, jt)
    PROVE  it[S] = jt[S]
<1> DEFINE Good == {s \in SUBSET S : it[s] = jt[s]}
<1>1. ASSUME NEW s \in SUBSET S, \A u \in SUBSET s : u # s => u \in Good
      PROVE  s \in Good
  <2> DEFINE y == Youngest(s, at)
  <2>1. s \in SUBSET T /\ s \in SUBSET U
    OBVIOUS
  <2>2. it[s] = IF s = {} THEN << >> ELSE Append(it[s \ {y}], y)
    BY <2>1 DEF AreOrders
  <2>3. jt[s] = IF s = {} THEN << >> ELSE Append(jt[s \ {y}], y)
    BY <2>1 DEF AreOrders
  <2>4. s # {} => y \in s
    <3>1. IsFiniteSet(s)
      BY FS_Subset
    <3> QED
      BY <3>1, YoungestIs
  <2> HIDE DEF y
  <2>5. s # {} => s \ {y} \in Good
    BY <1>1, <2>4
  <2> QED
    BY <2>2, <2>3, <2>5
<1> HIDE DEF Good
<1>2. S \in Good
  BY <1>1, FromSmaller
<1> QED
  BY <1>2 DEF Good

\* And there is one.
LEMMA OrdersExist ==
    ASSUME NEW S, IsFiniteSet(S), NEW at, \A t \in S : at[t] \in Nat
    PROVE  \E it : AreOrders(S, at, it)
<1> DEFINE Good == {T \in SUBSET S : \E it : AreOrders(T, at, it)}
           G(T) == CHOOSE it : AreOrders(T, at, it)
           Y(T) == Youngest(T, at)
<1>1. ASSUME NEW T \in SUBSET S, \A U \in SUBSET T : U # T => U \in Good
      PROVE  T \in Good
  <2> DEFINE E(s) == IF s = {} THEN << >> ELSE Append(G(s \ {Y(s)})[s \ {Y(s)}], Y(s))
             it == [s \in SUBSET T |-> E(s)]
             F(s) == IF s = {} THEN << >> ELSE Append(it[s \ {Y(s)}], Y(s))
  <2>1. \A U \in SUBSET T : U # T => AreOrders(U, at, G(U))
    BY <1>1
  <2>2. \A s \in SUBSET T : s # {} => Y(s) \in s /\ s \ {Y(s)} \in SUBSET T /\ s \ {Y(s)} # T
    <3> SUFFICES ASSUME NEW s \in SUBSET T, s # {} PROVE Y(s) \in s
      OBVIOUS
    <3>1. IsFiniteSet(s) /\ \A t \in s : at[t] \in Nat
      BY FS_Subset
    <3> QED
      BY <3>1, YoungestIs
  <2>3. ASSUME NEW U \in SUBSET T, U # T PROVE it[U] = G(U)[U]
    <3> DEFINE V == U \ {Y(U)}
    <3>1. AreOrders(U, at, G(U))
      BY <2>1, <2>3
    <3>2. G(U)[U] = IF U = {} THEN << >> ELSE Append(G(U)[V], Y(U))
      <4> HIDE DEF G
      <4> QED
        BY <3>1 DEF AreOrders
    <3>3. it[U] = IF U = {} THEN << >> ELSE Append(G(V)[V], Y(U))
      OBVIOUS
    <3>4. CASE U # {}
      <4>1. V \in SUBSET U /\ V \in SUBSET T /\ V # T
        BY <2>2, <3>4
      <4>2. AreOrders(V, at, G(V)) /\ IsFiniteSet(V) /\ \A t \in V : at[t] \in Nat
        BY <2>1, <4>1, FS_Subset
      <4>3. G(U)[V] = G(V)[V]
        <5> HIDE DEF G, V
        <5> QED
          BY <3>1, <4>1, <4>2, OrdersAgree
      <4> HIDE DEF it, G, V
      <4> QED
        BY <3>2, <3>3, <4>3
    <3>5. CASE U = {}
      <4> HIDE DEF it, G
      <4> QED
        BY <3>2, <3>3, <3>5
    <3> QED
      BY <3>4, <3>5
  <2>4. \A s \in SUBSET T : E(s) = F(s)
    <3> SUFFICES ASSUME NEW s \in SUBSET T PROVE E(s) = F(s)
      OBVIOUS
    <3> DEFINE v == s \ {Y(s)}
    <3>1. s # {} => v \in SUBSET T /\ v # T
      BY <2>2
    <3> HIDE DEF it
    <3>2. s # {} => it[v] = G(v)[v]
      BY <2>3, <3>1
    <3> HIDE DEF G, Y
    <3> QED
      BY <3>2
  <2>5. it = [s \in SUBSET T |-> F(s)]
    <3>1. [s \in SUBSET T |-> E(s)] = [s \in SUBSET T |-> F(s)]
      <4> HIDE DEF E, F
      <4> QED
        BY <2>4
    <3> QED
      BY <3>1
  <2>6. AreOrders(T, at, it)
    <3> HIDE DEF it
    <3> QED
      BY <2>5 DEF AreOrders
  <2> QED
    <3> HIDE DEF it
    <3> QED
      BY <2>6
<1>2. S \in Good
  <2> HIDE DEF Good
  <2> QED
    BY <1>1, FromSmaller
<1> QED
  BY <1>2

\* The order of nothing, and of a set from which the youngest is taken.
LEMMA OrderUnfolds ==
    ASSUME NEW S, IsFiniteSet(S), NEW at, \A t \in S : at[t] \in Nat
    PROVE  ByTicket(S, at) =
               IF S = {} THEN << >>
               ELSE Append(ByTicket(S \ {Youngest(S, at)}, at), Youngest(S, at))
<1> DEFINE G(T) == CHOOSE it : AreOrders(T, at, it)
           y == Youngest(S, at)
<1>1. ASSUME NEW T \in SUBSET S PROVE ByTicket(T, at) = G(T)[T] /\ AreOrders(T, at, G(T))
  <2>1. IsFiniteSet(T) /\ \A t \in T : at[t] \in Nat
    BY FS_Subset
  <2>2. \E it : AreOrders(T, at, it)
    BY <2>1, OrdersExist
  <2>3. ByTicket(T, at) = G(T)[T]
    BY DEF ByTicket, MapThenFoldSet, AreOrders, Youngest
  <2> QED
    BY <2>2, <2>3
<1>2. S \in SUBSET S /\ S \ {y} \in SUBSET S
  OBVIOUS
<1> HIDE DEF G
<1>3. G(S)[S] = IF S = {} THEN << >> ELSE Append(G(S)[S \ {y}], y)
  BY <1>1, <1>2 DEF AreOrders
<1>4. G(S)[S \ {y}] = G(S \ {y})[S \ {y}]
  <2>1. IsFiniteSet(S \ {y}) /\ \A t \in S \ {y} : at[t] \in Nat
    BY FS_Subset
  <2> HIDE DEF y
  <2> QED
    BY <1>1, <1>2, <2>1, OrdersAgree
<1> QED
  BY <1>1, <1>2, <1>3, <1>4

\* q has the tasks of S and no others, each older than the next.
IsInOrder(q, S, at) ==
    /\ q \in Seq(S)
    /\ \A t \in S : \E i \in 1..Len(q) : q[i] = t
    /\ \A i, j \in 1..Len(q) : i < j => at[q[i]] < at[q[j]]

\* Behind a sequence in order comes what is younger than all of it.
LEMMA AppendInOrder ==
    ASSUME NEW S, NEW at, NEW q, IsInOrder(q, S, at), NEW y, y \notin S,
           \A t \in S : at[t] < at[y]
    PROVE  IsInOrder(Append(q, y), S \cup {y}, at)
<1>1. q \in Seq(S) /\ q \in Seq(S \cup {y}) /\ Len(q) \in Nat
  BY DEF IsInOrder
<1>2. /\ Append(q, y) \in Seq(S \cup {y}) /\ Len(Append(q, y)) = Len(q) + 1
      /\ \A i \in 1..Len(q) : Append(q, y)[i] = q[i] /\ q[i] \in S
      /\ Append(q, y)[Len(q) + 1] = y
  BY <1>1
<1>3. ASSUME NEW t \in S \cup {y}
      PROVE  \E i \in 1..Len(Append(q, y)) : Append(q, y)[i] = t
  <2>1. CASE t = y
    BY <1>1, <1>2, <2>1
  <2>2. CASE t \in S
    <3>1. PICK i \in 1..Len(q) : q[i] = t
      BY <2>2 DEF IsInOrder
    <3> QED
      BY <1>1, <1>2, <3>1
  <2> QED
    BY <2>1, <2>2
<1>4. ASSUME NEW i \in 1..Len(Append(q, y)), NEW j \in 1..Len(Append(q, y)), i < j
      PROVE  at[Append(q, y)[i]] < at[Append(q, y)[j]]
  <2>1. i \in 1..Len(q) /\ (j \in 1..Len(q) \/ j = Len(q) + 1)
    BY <1>1, <1>2, <1>4
  <2> QED
    BY <1>2, <1>4, <2>1 DEF IsInOrder
<1> QED
  BY <1>2, <1>3, <1>4 DEF IsInOrder

\* ByTicket puts tasks in order, if no two have the same place.
LEMMA TasksAreInOrder ==
    ASSUME NEW S, IsFiniteSet(S), NEW at, \A t \in S : at[t] \in Nat,
           \A t, u \in S : t # u => at[t] # at[u]
    PROVE  IsInOrder(ByTicket(S, at), S, at)
<1> DEFINE Good == {T \in SUBSET S : IsInOrder(ByTicket(T, at), T, at)}
<1>1. ASSUME NEW T \in SUBSET S, \A U \in SUBSET T : U # T => U \in Good
      PROVE  T \in Good
  <2> DEFINE y == Youngest(T, at)
             q == ByTicket(T \ {y}, at)
  <2>1. IsFiniteSet(T) /\ \A t \in T : at[t] \in Nat
    BY FS_Subset
  <2>2. ByTicket(T, at) = IF T = {} THEN << >> ELSE Append(q, y)
    BY <2>1, OrderUnfolds
  <2>3. CASE T = {}
    <3>1. << >> \in Seq(T) /\ 1..Len(<< >>) = {}
      OBVIOUS
    <3>2. IsInOrder(<< >>, T, at)
      BY <2>3, <3>1 DEF IsInOrder
    <3> QED
      BY <2>2, <2>3, <3>2
  <2>4. CASE T # {}
    <3>1. y \in T /\ \A u \in T : at[u] =< at[y]
      BY <2>1, <2>4, YoungestIs
    <3> HIDE DEF y
    <3>2. IsInOrder(q, T \ {y}, at)
      BY <1>1, <3>1
    <3>3. \A u \in T \ {y} : at[u] < at[y]
      BY <2>1, <3>1
    <3>4. (T \ {y}) \cup {y} = T
      BY <3>1
    <3> HIDE DEF q
    <3>5. IsInOrder(Append(q, y), T, at)
      <4>1. y \notin T \ {y}
        OBVIOUS
      <4>2. IsInOrder(Append(q, y), (T \ {y}) \cup {y}, at)
        BY <3>2, <3>3, <4>1, AppendInOrder
      <4> QED
        BY <3>4, <4>2
    <3> QED
      BY <2>2, <2>4, <3>5
  <2> QED
    BY <2>3, <2>4
<1>2. S \in Good
  <2> HIDE DEF Good
  <2> QED
    BY <1>1, FromSmaller
<1> QED
  BY <1>2

\* And there is no other sequence of them that is in order.
LEMMA OrderIsUnique ==
    ASSUME NEW S, IsFiniteSet(S), NEW at, \A t \in S : at[t] \in Nat,
           NEW q, IsInOrder(q, S, at)
    PROVE  ByTicket(S, at) = q
<1> DEFINE Good == {T \in SUBSET S :
                       \A p \in Seq(S) : IsInOrder(p, T, at) => ByTicket(T, at) = p}
<1>1. ASSUME NEW T \in SUBSET S, \A U \in SUBSET T : U # T => U \in Good
      PROVE  T \in Good
  <2> SUFFICES ASSUME NEW p \in Seq(S), IsInOrder(p, T, at) PROVE ByTicket(T, at) = p
    OBVIOUS
  <2> HIDE DEF Good
  <2> DEFINE y == Youngest(T, at)
             r == SubSeq(p, 1, Len(p) - 1)
  <2>1. IsFiniteSet(T) /\ \A t \in T : at[t] \in Nat
    BY FS_Subset
  <2>2. ByTicket(T, at) = IF T = {} THEN << >> ELSE Append(ByTicket(T \ {y}, at), y)
    BY <2>1, OrderUnfolds
  <2>3. p \in Seq(T) /\ Len(p) \in Nat /\ \A i \in 1..Len(p) : p[i] \in T
    BY DEF IsInOrder
  <2>4. CASE T = {}
    <3>1. p = << >>
      BY <2>3, <2>4
    <3> QED
      BY <2>2, <2>4, <3>1
  <2>5. CASE T # {}
    <3>1. y \in T /\ \A u \in T : at[u] =< at[y]
      BY <2>1, <2>5, YoungestIs
    <3> HIDE DEF y
    <3>2. PICK m \in 1..Len(p) : p[m] = y
      BY <3>1 DEF IsInOrder
    <3>3. m = Len(p)
      <4>1. SUFFICES ASSUME m < Len(p) PROVE FALSE
        BY <2>3, <3>2
      <4>2. Len(p) \in 1..Len(p) /\ p[Len(p)] \in T
        BY <2>3, <4>1
      <4>3. at[y] < at[p[Len(p)]]
        BY <3>2, <4>1, <4>2 DEF IsInOrder
      <4> QED
        BY <2>1, <3>1, <4>2, <4>3
    <3>4. /\ r \in Seq(T) /\ Len(r) = Len(p) - 1
          /\ \A i \in 1..Len(r) : i \in 1..Len(p) /\ r[i] = p[i]
          /\ Len(p) > 0
      <4>1. Len(p) > 0 /\ Len(p) - 1 \in Nat
        BY <2>3, <3>2
      <4>2. \A i \in 1..Len(p) - 1 : i \in 1..Len(p)
        BY <2>3
      <4>3. r = [i \in 1..Len(p) - 1 |-> p[i]]
        BY <2>3, <4>1
      <4>4. r \in Seq(T) /\ Len(r) = Len(p) - 1
        <5> DEFINE n == Len(p) - 1
        <5>0. \A i \in 1..n : p[i] \in T
          BY <2>3, <4>2
        <5>1. n \in Nat /\ n \in Int /\ 1 \in Int
          BY <4>1
        <5> HIDE DEF n
        <5>2. SubSeq(p, 1, n) \in Seq(T) /\ Len(SubSeq(p, 1, n)) = IF 1 =< n THEN n - 1 + 1 ELSE 0
          BY <5>0, <5>1, SubSeqProperties
        <5>3. SubSeq(p, 1, n) \in Seq(T) /\ Len(SubSeq(p, 1, n)) = n
          BY <5>1, <5>2
        <5> QED
          BY <5>3 DEF n
      <4> QED
        BY <4>1, <4>2, <4>3, <4>4
    <3>5. p = Append(r, y)
      BY <2>3, <3>2, <3>3, <3>4
    <3> HIDE DEF r
    <3>6. \A i \in 1..Len(r) : r[i] \in T \ {y}
      <4> SUFFICES ASSUME NEW i \in 1..Len(r) PROVE r[i] # y
        BY <3>4
      <4>0. i \in 1..Len(p) /\ Len(p) \in 1..Len(p) /\ i < Len(p) /\ p[i] \in T
        BY <2>3, <3>4
      <4>1. at[p[i]] < at[p[Len(p)]]
        BY <4>0 DEF IsInOrder
      <4> QED
        BY <2>1, <3>1, <3>2, <3>3, <3>4, <4>0, <4>1
    <3>7. IsInOrder(r, T \ {y}, at)
      <4>1. r \in Seq(T \ {y})
        BY <3>4, <3>6
      <4>2. ASSUME NEW t \in T \ {y} PROVE \E i \in 1..Len(r) : r[i] = t
        <5>1. PICK i \in 1..Len(p) : p[i] = t
          BY DEF IsInOrder
        <5>2. i # Len(p)
          BY <3>2, <3>3, <5>1
        <5>3. i \in 1..Len(r)
          BY <2>3, <3>4, <5>1, <5>2
        <5> QED
          BY <3>4, <5>1, <5>3
      <4>3. \A i, j \in 1..Len(r) : i < j => at[r[i]] < at[r[j]]
        BY <3>4 DEF IsInOrder
      <4> QED
        BY <4>1, <4>2, <4>3 DEF IsInOrder
    <3>8. r \in Seq(S)
      BY <3>4
    <3>9. ByTicket(T \ {y}, at) = r
      <4>1. T \ {y} \in Good
        BY <1>1, <3>1
      <4> QED
        BY <3>7, <3>8, <4>1 DEF Good
    <3> QED
      BY <2>2, <2>5, <3>5, <3>9
  <2> QED
    BY <2>4, <2>5
<1>2. S \in Good
  <2> HIDE DEF Good
  <2> QED
    BY <1>1, FromSmaller
<1> QED
  BY <1>2 DEF IsInOrder

-----------------------------------------------------------------------------
(* The queues.                                                             *)

\* Only the places of the tasks in it matter.
LEMMA SamePlaces ==
    ASSUME NEW q, NEW S, NEW at, IsInOrder(q, S, at), NEW place, \A t \in S : place[t] = at[t]
    PROVE  IsInOrder(q, S, place)
<1>1. \A i \in 1..Len(q) : q[i] \in S
  BY DEF IsInOrder
<1> QED
  BY <1>1 DEF IsInOrder

\* Without its first task a sequence in order is in order.
LEMMA TailInOrder ==
    ASSUME NEW q, NEW S, NEW at, \A t \in S : at[t] \in Nat, IsInOrder(q, S, at), q # << >>
    PROVE  IsInOrder(Tail(q), S \ {Head(q)}, at)
<1>1. q \in Seq(S) /\ Len(q) \in Nat /\ Len(q) > 0 /\ \A i \in 1..Len(q) : q[i] \in S
  BY DEF IsInOrder
<1>2. Head(q) = q[1] /\ 1 \in 1..Len(q)
  BY <1>1
<1>3. /\ Tail(q) \in Seq(S) /\ Len(Tail(q)) = Len(q) - 1
      /\ \A i \in 1..Len(Tail(q)) : Tail(q)[i] = q[i + 1]
  BY <1>1
<1>4. \A i \in 1..Len(Tail(q)) : i + 1 \in 1..Len(q) /\ 1 < i + 1
  BY <1>1, <1>3
<1>5. \A i \in 1..Len(Tail(q)) : Tail(q)[i] \in S \ {Head(q)}
  <2> SUFFICES ASSUME NEW i \in 1..Len(Tail(q)) PROVE Tail(q)[i] \in S \ {Head(q)}
    OBVIOUS
  <2>1. at[q[1]] < at[q[i + 1]] /\ q[1] \in S /\ q[i + 1] \in S
    BY <1>1, <1>2, <1>4 DEF IsInOrder
  <2> QED
    BY <1>2, <1>3, <2>1
<1>6. Tail(q) \in Seq(S \ {Head(q)})
  <2> DEFINE r == Tail(q)
             R == S \ {Head(q)}
  <2>1. r \in Seq(S) /\ \A i \in 1..Len(r) : r[i] \in R
    BY <1>3, <1>5
  <2> HIDE DEF r, R
  <2>2. r \in Seq(R)
    BY <2>1
  <2> QED
    BY <2>2 DEF r, R
<1>7. ASSUME NEW t \in S \ {Head(q)} PROVE \E i \in 1..Len(Tail(q)) : Tail(q)[i] = t
  <2>1. PICK i \in 1..Len(q) : q[i] = t
    BY DEF IsInOrder
  <2>2. i - 1 \in 1..Len(Tail(q)) /\ (i - 1) + 1 = i
    BY <1>1, <1>2, <1>3, <2>1
  <2> QED
    BY <1>3, <2>1, <2>2
<1>8. ASSUME NEW i \in 1..Len(Tail(q)), NEW j \in 1..Len(Tail(q)), i < j
      PROVE  at[Tail(q)[i]] < at[Tail(q)[j]]
  <2>1. i + 1 < j + 1
    BY <1>8
  <2> QED
    BY <1>3, <1>4, <2>1 DEF IsInOrder
<1> QED
  BY <1>6, <1>7, <1>8 DEF IsInOrder

\* Finitely many tasks have arrived.
Arrived == {t \in Tasks : state[t] # "new"}

ArrivedInv == IInv /\ IsFiniteSet(Arrived)

\* One more at a time.
LEMMA ArrivedStay == ArrivedInv /\ IInv' /\ [Next]_vars => ArrivedInv'
<1> SUFFICES ASSUME ArrivedInv, IInv', [Next]_vars PROVE IsFiniteSet(Arrived')
  BY DEF ArrivedInv
<1>1. ASSUME NEW t \in Tasks, NEW k \in Keys, HandIn(t, k) PROVE Arrived' = Arrived \cup {t}
  BY <1>1 DEF HandIn, Arrived, ArrivedInv, IInv, TypeOK
<1>2. ASSUME NEW t \in Tasks, Begin(t) \/ End(t) \/ Cleanup(t) PROVE Arrived' = Arrived
  BY <1>2 DEF Begin, End, Cleanup, Arrived, ArrivedInv, IInv, TypeOK
<1>3. CASE UNCHANGED vars
  BY <1>3 DEF vars, Arrived, ArrivedInv
<1>4. \A t : IsFiniteSet(Arrived \cup {t})
  BY FS_AddElement DEF ArrivedInv
<1> QED
  BY <1>1, <1>2, <1>3, <1>4 DEF Next, ArrivedInv

\* What Lane needs to be in order.
LEMMA LaneIsInOrder ==
    ASSUME ArrivedInv, NEW k \in Keys
    PROVE  /\ IsFiniteSet(Unended(k))
           /\ \A t \in Unended(k) : ticket[t] \in Nat
           /\ IsInOrder(Lane(k), Unended(k), ticket)
<1>1. Unended(k) \subseteq Arrived
  BY DEF Unended, Of, Arrived
<1>2. IsFiniteSet(Unended(k))
  BY <1>1, FS_Subset DEF ArrivedInv
<1>3. /\ \A t \in Unended(k) : ticket[t] \in Nat
      /\ \A t, u \in Unended(k) : t # u => ticket[t] # ticket[u]
  BY DEF ArrivedInv, IInv, TypeOK, Tickets, Unended, Of
<1> QED
  BY <1>2, <1>3, TasksAreInOrder DEF Lane

\* The lane of a key whose tasks and tickets stay is the same.
LEMMA LaneStays ==
    ASSUME ArrivedInv, ArrivedInv', NEW k \in Keys, Unended(k)' = Unended(k),
           \A t \in Unended(k) : ticket'[t] = ticket[t]
    PROVE  Lane(k)' = Lane(k)
<1>1. IsInOrder(Lane(k), Unended(k), ticket) /\ IsFiniteSet(Unended(k))
  BY LaneIsInOrder
<1>2. IsInOrder(Lane(k), Unended(k), ticket')
  BY <1>1, SamePlaces
<1>3. \A t \in Unended(k) : ticket'[t] \in Nat
  BY DEF ArrivedInv, IInv, TypeOK, Unended, Of
<1>4. ByTicket(Unended(k), ticket') = Lane(k)
  BY <1>1, <1>2, <1>3, OrderIsUnique
<1> QED
  BY <1>4 DEF Lane

\* A task that every unended task of its key has come after is the first of its lane.
LEMMA OldestIsHead ==
    ASSUME ArrivedInv, NEW k \in Keys, NEW t \in Unended(k),
           \A u \in Unended(k) : ~(ticket[u] < ticket[t])
    PROVE  Lane(k) # << >> /\ Head(Lane(k)) = t
<1> DEFINE q == Lane(k)
<1>1. IsInOrder(q, Unended(k), ticket)
  BY LaneIsInOrder
<1> HIDE DEF q
<1>2. PICK i \in 1..Len(q) : q[i] = t
  BY <1>1 DEF IsInOrder
<1>3. q \in Seq(Unended(k)) /\ Len(q) \in Nat /\ 1 \in 1..Len(q) /\ q[1] \in Unended(k)
  BY <1>1, <1>2 DEF IsInOrder
<1>4. i = 1
  <2>1. i > 1 => ticket[q[1]] < ticket[q[i]]
    BY <1>1, <1>3 DEF IsInOrder
  <2> QED
    BY <1>2, <1>3, <2>1
<1>5. q # << >> /\ Head(q) = q[1]
  BY <1>3
<1> QED
  BY <1>2, <1>4, <1>5 DEF q

Begun == {t \in Tasks : state[t] \notin {"new", "queued"}}

LaneOf == [k \in Keys |-> Lane(k)]

\* A task handed in is appended to the queue of its key.
LEMMA HandInIsHandIn ==
    ASSUME ArrivedInv, ArrivedInv', NEW t \in Tasks, NEW k \in Keys, HandIn(t, k)
    PROVE  Queues!HandIn(t, k)
<1> USE DispatchAssumption
<1>1. /\ \A u \in Tasks : u # t => key'[u] = key[u] /\ ticket'[u] = ticket[u] /\ state'[u] = state[u]
      /\ key'[t] = k /\ ticket'[t] = arrivals + 1
      /\ state'[t] = "queued" /\ state[t] = "new" /\ key[t] = None
      /\ arrivals \in Nat /\ \A u \in Tasks : ticket[u] \in Nat
  BY DEF ArrivedInv, IInv, TypeOK, Tickets, HandIn
<1>2. \A h \in Keys : t \notin Unended(h) /\ h # None
  BY <1>1 DEF Unended, Of
<1>3. \A h \in Keys : \A u \in Unended(h) : u # t /\ ticket'[u] = ticket[u] /\ ticket[u] =< arrivals
  BY <1>1, <1>2 DEF ArrivedInv, IInv, Tickets, Unended, Of
<1>4. ASSUME NEW h \in Keys, h # k PROVE Lane(h)' = Lane(h)
  <2>1. Unended(h)' = Unended(h)
    BY <1>1, <1>4 DEF Unended, Of
  <2> QED
    BY <1>3, <2>1, LaneStays
<1>5. Lane(k)' = Append(Lane(k), t)
  <2>1. Unended(k)' = Unended(k) \cup {t}
    BY <1>1 DEF Unended, Of
  <2>2. IsInOrder(Lane(k), Unended(k), ticket) /\ IsFiniteSet(Unended(k) \cup {t})
    BY LaneIsInOrder, FS_AddElement
  <2>3. IsInOrder(Lane(k), Unended(k), ticket')
    BY <1>3, <2>2, SamePlaces
  <2>4. \A u \in Unended(k) : ticket'[u] < ticket'[t]
    BY <1>1, <1>3 DEF Unended, Of
  <2>5. IsInOrder(Append(Lane(k), t), Unended(k) \cup {t}, ticket')
    BY <1>2, <2>3, <2>4, AppendInOrder
  <2>6. \A u \in Unended(k) \cup {t} : ticket'[u] \in Nat
    BY <1>1, <1>3 DEF Unended, Of
  <2>7. ByTicket(Unended(k) \cup {t}, ticket') = Append(Lane(k), t)
    BY <2>1, <2>2, <2>5, <2>6, OrderIsUnique
  <2> QED
    BY <2>1, <2>7 DEF Lane
<1>6. \A h \in Keys : \A i \in DOMAIN Lane(h) : Lane(h)[i] # t
  <2> SUFFICES ASSUME NEW h \in Keys, NEW i \in DOMAIN Lane(h) PROVE Lane(h)[i] \in Unended(h)
    BY <1>2
  <2>1. Lane(h) \in Seq(Unended(h))
    BY LaneIsInOrder DEF IsInOrder
  <2> QED
    BY <2>1
<1>7. t \notin Begun /\ Begun' = Begun
  BY <1>1 DEF Begun
<1>8. LaneOf' = [LaneOf EXCEPT ![k] = Append(@, t)]
  BY <1>4, <1>5 DEF LaneOf
<1>9. ~Queues!InQueue(t)
  BY <1>6 DEF Queues!InQueue
<1> QED
  BY <1>7, <1>8, <1>9 DEF Queues!HandIn, LaneOf, Begun

\* A task that begins is the first of its queue.
LEMMA BeginIsBegin ==
    ASSUME ArrivedInv, ArrivedInv', NEW t \in Tasks, Begin(t)
    PROVE  Queues!Begin(t)
<1> USE DispatchAssumption
<1>1. /\ \A u \in Tasks : u # t => state'[u] = state[u]
      /\ state[t] = "queued" /\ state'[t] = "running"
      /\ UNCHANGED <<key, ticket>>
      /\ key[t] \in Keys
  BY DEF ArrivedInv, IInv, TypeOK, Tickets, Begin
<1>2. \A k \in Keys : Unended(k)' = Unended(k)
  BY <1>1 DEF Unended, Of
<1>3. LaneOf' = LaneOf
  BY <1>1, <1>2, LaneStays DEF LaneOf
<1>4. Begun' = Begun \cup {t} /\ t \notin Begun
  BY <1>1 DEF Begun
<1>5. t \in Unended(key[t])
  BY <1>1 DEF Unended, Of
<1>6. \A u \in Unended(key[t]) : ~(ticket[u] < ticket[t])
  <2>1. \A u \in Tasks : key[u] = key[t] /\ ticket[u] < ticket[t] => state'[u] \in Settled
    BY <1>1 DEF ArrivedInv, IInv, InOrder
  <2> QED
    BY <1>1, <2>1 DEF Unended, Of, Settled
<1>7. Lane(key[t]) # << >> /\ Head(Lane(key[t])) = t
  BY <1>1, <1>5, <1>6, OldestIsHead
<1> QED
  BY <1>1, <1>3, <1>4, <1>7 DEF Queues!Begin, LaneOf, Begun

\* A task that ends is still the first, and is taken out.
LEMMA EndIsEnd ==
    ASSUME ArrivedInv, ArrivedInv', NEW t \in Tasks, End(t)
    PROVE  Queues!End(t)
<1> USE DispatchAssumption
<1> DEFINE k == key[t]
<1>1. /\ \A u \in Tasks : u # t => state'[u] = state[u]
      /\ state[t] = "running" /\ state'[t] \in {"ended", "failed"}
      /\ UNCHANGED <<key, ticket>>
      /\ k \in Keys
  BY DEF ArrivedInv, IInv, TypeOK, Tickets, End
<1>2. \A h \in Keys : Unended(h)' = IF h = k THEN Unended(h) \ {t} ELSE Unended(h)
  BY <1>1 DEF Unended, Of
<1>3. t \in Unended(k) /\ \A u \in Unended(k) : ~(ticket[u] < ticket[t])
  BY <1>1 DEF Unended, Of, ArrivedInv, IInv, InOrder, Settled
<1> HIDE DEF k
<1>4. Lane(k) # << >> /\ Head(Lane(k)) = t
  BY <1>1, <1>3, OldestIsHead
<1>5. Lane(k)' = Tail(Lane(k))
  <2>1. /\ IsInOrder(Lane(k), Unended(k), ticket)
        /\ \A u \in Unended(k) : ticket[u] \in Nat
        /\ IsFiniteSet(Unended(k)) /\ IsFiniteSet(Unended(k) \ {t})
    BY <1>1, LaneIsInOrder, FS_Subset
  <2>2. IsInOrder(Tail(Lane(k)), Unended(k) \ {t}, ticket)
    BY <1>4, <2>1, TailInOrder
  <2>3. ByTicket(Unended(k) \ {t}, ticket) = Tail(Lane(k))
    BY <2>1, <2>2, OrderIsUnique
  <2>4. k' = k
    BY <1>1 DEF k
  <2>5. Unended(k)' = Unended(k) \ {t}
    BY <1>1, <1>2, <2>4
  <2> QED
    BY <1>1, <2>3, <2>5 DEF Lane
<1>6. \A h \in Keys : h # k => Lane(h)' = Lane(h)
  BY <1>1, <1>2, LaneStays
<1>7. LaneOf' = [LaneOf EXCEPT ![k] = Tail(@)]
  BY <1>1, <1>5, <1>6 DEF LaneOf, k
<1>8. t \in Begun /\ Begun' = Begun
  BY <1>1 DEF Begun
<1> QED
  BY <1>1, <1>4, <1>7, <1>8 DEF Queues!End, LaneOf, Begun

\* The queues do not see the rest.
LEMMA OthersAreStutters ==
    ASSUME ArrivedInv, ArrivedInv', UNCHANGED vars \/ \E t \in Tasks : Cleanup(t)
    PROVE  LaneOf' = LaneOf /\ Begun' = Begun
<1> USE DispatchAssumption
<1>1. CASE UNCHANGED vars
  <2>1. \A k \in Keys : Unended(k)' = Unended(k)
    BY <1>1 DEF vars, Unended, Of
  <2> QED
    BY <1>1, <2>1, LaneStays DEF vars, LaneOf, Begun
<1>2. ASSUME NEW t \in Tasks, Cleanup(t) PROVE LaneOf' = LaneOf /\ Begun' = Begun
  <2>1. /\ \A u \in Tasks : u # t => state'[u] = state[u]
        /\ state[t] \in {"ended", "failed"} /\ state'[t] \in {"resolved", "rejected"}
        /\ UNCHANGED <<key, ticket>>
    BY <1>2 DEF ArrivedInv, IInv, TypeOK, Cleanup
  <2>2. \A k \in Keys : Unended(k)' = Unended(k)
    BY <2>1 DEF Unended, Of
  <2>3. Begun' = Begun
    BY <2>1 DEF Begun
  <2> QED
    BY <2>1, <2>2, <2>3, LaneStays DEF LaneOf
<1> QED
  BY <1>1, <1>2

\* SerializedDispatch implements LaneQueue: runSerializedByKey is a queue per key, whose
\* first task alone may run.
THEOREM QueuesAreImplemented == Spec => ImplementsQueues
<1>1. Init => IsFiniteSet(Arrived)
  <2>1. Init => Arrived = {}
    BY DEF Init, Arrived
  <2> QED
    BY <2>1, FS_EmptySet
<1>2. Init => Queues!Init
  <2> SUFFICES ASSUME Init PROVE Queues!Init
    OBVIOUS
  <2>1. \A k \in Keys : Unended(k) = {}
    BY DEF Init, Unended, Of
  <2>2. ByTicket({}, ticket) = << >>
    BY FS_EmptySet, OrderUnfolds
  <2>3. Begun = {}
    BY DEF Init, Begun
  <2> QED
    BY <2>1, <2>2, <2>3 DEF Queues!Init, Lane, Begun
<1>3. ASSUME ArrivedInv, ArrivedInv', [Next]_vars
      PROVE  [Queues!Next]_<<[k \in Keys |-> Lane(k)], {t \in Tasks : state[t] \notin {"new", "queued"}}>>
  <2>1. CASE UNCHANGED vars \/ \E t \in Tasks : Cleanup(t)
    BY <1>3, <2>1, OthersAreStutters DEF LaneOf, Begun
  <2>2. ASSUME NEW t \in Tasks, NEW k \in Keys, HandIn(t, k) PROVE Queues!Next
    BY <1>3, <2>2, HandInIsHandIn DEF Queues!Next
  <2>3. ASSUME NEW t \in Tasks, Begin(t) \/ End(t) PROVE Queues!Next
    BY <1>3, <2>3, BeginIsBegin, EndIsEnd DEF Queues!Next
  <2> QED
    BY <1>3, <2>1, <2>2, <2>3 DEF Next
<1> QED
  BY <1>1, <1>2, <1>3, InductiveInvariant, ArrivedStay, InitHolds, PTL
  DEF Spec, ImplementsQueues, Queues!Spec, ArrivedInv

-----------------------------------------------------------------------------
(* Operations.                                                             *)

\* The data that is watched.

DataInv ==
    /\ status \in [OrderIds -> {"NONE", "OPEN", "FILLED"}]
    /\ tape \in Seq(OrderIds)
    /\ settled \subseteq Traded
    /\ wrong \subseteq {"GLOBAL_BALANCE", "NON_NEGATIVE_BALANCES"}

\* What is wrong stays wrong; trades and orders are only added, and a trade that is added fills
\* an order that had none.
DataGrows ==
    /\ Traded \subseteq Traded'
    /\ Defects \subseteq Defects'
    /\ Len(tape) =< Len(tape')
    /\ \A i \in DOMAIN tape' : tape'[i] \in Traded => i \in DOMAIN tape /\ tape'[i] = tape[i]
    /\ \A o \in OrderIds : status[o] # "NONE" => status'[o] # "NONE"

\* A defect is one of three kinds.
LEMMA DefectKinds ==
    ASSUME NEW d \in Defects
    PROVE  \/ d.check \in wrong
           \/ d.check = "RECENT_TRADE_SETTLEMENT" /\ d.of \in Unsettled
           \/ d.check = "ORDER_STATUS_CONSISTENCY" /\ d.of \in Unmarked
  BY DEF Defects

\* There is a defect for each thing that is wrong.
LEMMA DefectsAre ==
    /\ \A c \in wrong : \E d \in Defects : d.check = c
    /\ Unsettled # {} => \E d \in Defects : d.check = "RECENT_TRADE_SETTLEMENT"
    /\ Unmarked # {} => \E d \in Defects : d.check = "ORDER_STATUS_CONSISTENCY"
<1>1. ASSUME NEW c \in wrong PROVE \E d \in Defects : d.check = c
  <2>1. [check |-> c, of |-> 0] \in Defects
    BY DEF Defects
  <2> QED
    BY <2>1
<1>2. ASSUME NEW o \in Unsettled PROVE \E d \in Defects : d.check = "RECENT_TRADE_SETTLEMENT"
  <2>1. [check |-> "RECENT_TRADE_SETTLEMENT", of |-> o] \in Defects
    BY DEF Defects
  <2> QED
    BY <2>1
<1>3. ASSUME NEW o \in Unmarked PROVE \E d \in Defects : d.check = "ORDER_STATUS_CONSISTENCY"
  <2>1. [check |-> "ORDER_STATUS_CONSISTENCY", of |-> o] \in Defects
    BY DEF Defects
  <2> QED
    BY <2>1
<1> QED
  BY <1>1, <1>2, <1>3

\* Defects follow what they are made of.
LEMMA DefectsFollow ==
    ASSUME wrong \subseteq wrong',
           \A o \in Unsettled : o \in Unsettled',
           \A o \in Unmarked : o \in Unmarked'
    PROVE  Defects \subseteq Defects'
<1>1. Unsettled \subseteq Unsettled' /\ Unmarked \subseteq Unmarked'
  OBVIOUS
<1>2. ASSUME NEW A, NEW B, NEW C, NEW A2, NEW B2, NEW C2, A \subseteq A2, B \subseteq B2, C \subseteq C2
      PROVE  [check : A, of : {0}]
                 \cup [check : {"RECENT_TRADE_SETTLEMENT"}, of : B]
                 \cup [check : {"ORDER_STATUS_CONSISTENCY"}, of : C]
             \subseteq [check : A2, of : {0}]
                 \cup [check : {"RECENT_TRADE_SETTLEMENT"}, of : B2]
                 \cup [check : {"ORDER_STATUS_CONSISTENCY"}, of : C2]
  BY <1>2
<1> QED
  BY <1>1, <1>2 DEF Defects

\* Nothing is placed yet.
LEMMA DataInit == OpInit => DataInv
<1> SUFFICES ASSUME OpInit PROVE DataInv
  OBVIOUS
<1>1. /\ status = [o \in OrderIds |-> "NONE"] /\ tape = <<>> /\ settled = {} /\ wrong = {}
  BY DEF OpInit
<1> QED
  BY <1>1 DEF DataInv

\* Nothing of the data changes but the age of trades.
LEMMA DataStays ==
    ASSUME DataInv, UNCHANGED <<status, tape, settled, wrong>>
    PROVE  DataInv' /\ DataGrows /\ Defects' = Defects /\ Traded' = Traded
<1>1. /\ Traded' = Traded /\ Unsettled' = Unsettled /\ Unmarked' = Unmarked
  BY DEF Traded, Unsettled, Unmarked
<1>2. Defects' = Defects
  BY <1>1 DEF Defects
<1>3. Len(tape) \in Nat
  BY DEF DataInv
<1> QED
  BY <1>1, <1>2, <1>3 DEF DataInv, DataGrows

LEMMA OrdersFinite == IsFiniteSet(OrderIds)
  BY OperationsAssumption, FS_Interval DEF OrderIds

\* More trades and more orders are never easier to see.
LEMMA SightShrinks ==
    ASSUME DataInv, DataInv', DataGrows, NEW r, cutoff'[r] = cutoff[r], NEW d \in Defects,
           InSight(r, d)'
    PROVE  InSight(r, d)
<1>1. CASE d.check = "RECENT_TRADE_SETTLEMENT"
  <2>1. PICK i \in DOMAIN tape' : tape'[i] = d.of /\ i > cutoff'[r] /\ Len(tape') - i < TakeTrades
    BY <1>1 DEF InSight
  <2>2. d.of \in Traded
    BY <1>1, DefectKinds DEF Unsettled, DataInv
  <2>3. i \in DOMAIN tape /\ tape[i] = d.of
    BY <2>1, <2>2 DEF DataGrows
  <2>4. /\ Len(tape) \in Nat /\ Len(tape') \in Nat /\ i \in Int /\ TakeTrades \in Nat
        /\ Len(tape) =< Len(tape')
    BY <2>3, OperationsAssumption DEF DataInv, DataGrows
  <2>5. Len(tape) - i < TakeTrades
    BY <2>1, <2>4
  <2> QED
    BY <1>1, <2>1, <2>3, <2>5 DEF InSight
<1>2. CASE d.check = "ORDER_STATUS_CONSISTENCY"
  <2> DEFINE newer == {o \in OrderIds : o > d.of /\ status[o] # "NONE"}
             newerNext == {o \in OrderIds : o > d.of /\ status'[o] # "NONE"}
  <2>1. Cardinality(newerNext) < TakeOrders
    BY <1>2 DEF InSight
  <2>2. newer \subseteq newerNext
    <3>1. \A o \in OrderIds : status[o] # "NONE" => status'[o] # "NONE"
      BY DEF DataGrows
    <3> QED
      BY <3>1
  <2>3. IsFiniteSet(newerNext)
    BY OrdersFinite, FS_Subset
  <2> HIDE DEF newer, newerNext
  <2>4. /\ Cardinality(newer) \in Nat /\ Cardinality(newerNext) \in Nat
        /\ Cardinality(newer) =< Cardinality(newerNext)
    BY <2>2, <2>3, FS_Subset, FS_CardinalityType
  <2>5. Cardinality(newer) < TakeOrders
    BY <2>1, <2>4, OperationsAssumption
  <2> QED
    BY <1>2, <2>5 DEF newer, InSight
<1>3. CASE d.check # "RECENT_TRADE_SETTLEMENT" /\ d.check # "ORDER_STATUS_CONSISTENCY"
  BY <1>3 DEF InSight
<1> QED
  BY <1>1, <1>2, <1>3

\* A placement makes nothing wrong.
LEMMA PlaceGrows ==
    ASSUME DataInv, NEW o \in OrderIds, Place(o)
    PROVE  DataInv' /\ DataGrows
<1>1. /\ status[o] = "NONE" /\ status' = [status EXCEPT ![o] = "OPEN"]
      /\ UNCHANGED <<tape, settled, wrong>>
  BY DEF Place
<1>2. Traded' = Traded /\ Unsettled' = Unsettled
  BY <1>1 DEF Traded, Unsettled
<1>3. DataInv'
  BY <1>1, <1>2 DEF DataInv
<1>4. \A p \in Unmarked : p \in Unmarked'
  BY <1>1, <1>2 DEF DataInv, Unmarked
<1>5. Defects \subseteq Defects'
  BY <1>1, <1>2, <1>4, DefectsFollow
<1>6. \A p \in OrderIds : status[p] # "NONE" => status'[p] # "NONE"
  BY <1>1 DEF DataInv
<1>7. Len(tape) \in Nat /\ tape' = tape
  BY <1>1 DEF DataInv
<1> QED
  BY <1>2, <1>3, <1>5, <1>6, <1>7 DEF DataGrows

\* A fill, with or without a defect, leaves what was wrong wrong.
LEMMA FillGrows ==
    ASSUME DataInv, NEW o \in OrderIds, NEW settles, NEW marks, Fill(o, settles, marks)
    PROVE  DataInv' /\ DataGrows
<1>1. /\ status[o] = "OPEN" /\ o \notin Traded
      /\ tape' = Append(tape, o)
      /\ settled' = settled \/ settled' = settled \cup {o}
      /\ status' = status \/ status' = [status EXCEPT ![o] = "FILLED"]
      /\ UNCHANGED wrong
  BY DEF Fill
<1>2. /\ tape \in Seq(OrderIds) /\ tape' \in Seq(OrderIds)
      /\ Len(tape) \in Nat /\ Len(tape') = Len(tape) + 1
  BY <1>1 DEF DataInv
<1>3. /\ DOMAIN tape = 1..Len(tape) /\ DOMAIN tape' = 1..Len(tape) + 1
      /\ \A i \in 1..Len(tape) : tape'[i] = tape[i] /\ i \in 1..Len(tape) + 1
      /\ tape'[Len(tape) + 1] = o /\ Len(tape) + 1 \in 1..Len(tape) + 1
      /\ \A i \in 1..Len(tape) + 1 : i = Len(tape) + 1 \/ i \in 1..Len(tape)
  BY <1>1, <1>2
<1>4. Traded' = Traded \cup {o}
  <2>1. Traded = {tape[i] : i \in 1..Len(tape)}
    BY <1>3 DEF Traded
  <2>2. Traded' = {tape'[i] : i \in 1..Len(tape) + 1}
    BY <1>3 DEF Traded
  <2> QED
    BY <1>3, <2>1, <2>2
<1>5. DataInv'
  BY <1>1, <1>2, <1>4 DEF DataInv
<1>6. \A p \in Unsettled : p \in Unsettled'
  BY <1>1, <1>4 DEF Unsettled
<1>7. \A p \in Unmarked : p \in Unmarked'
  BY <1>1, <1>4 DEF DataInv, Unmarked
<1>8. Defects \subseteq Defects'
  BY <1>1, <1>6, <1>7, DefectsFollow
<1>9. \A p \in OrderIds : status[p] # "NONE" => status'[p] # "NONE"
  BY <1>1 DEF DataInv
<1>10. \A i \in DOMAIN tape' : tape'[i] \in Traded => i \in DOMAIN tape /\ tape'[i] = tape[i]
  BY <1>1, <1>3
<1>11. Len(tape) =< Len(tape')
  BY <1>2
<1> QED
  BY <1>4, <1>5, <1>8, <1>9, <1>10, <1>11 DEF DataGrows

\* A defect adds to what is wrong.
LEMMA SpoilGrows ==
    ASSUME DataInv, NEW check \in {"GLOBAL_BALANCE", "NON_NEGATIVE_BALANCES"}, Spoil(check)
    PROVE  DataInv' /\ DataGrows
<1>1. wrong' = wrong \cup {check} /\ UNCHANGED <<status, tape, settled>>
  BY DEF Spoil
<1>2. Traded' = Traded /\ Unsettled' = Unsettled /\ Unmarked' = Unmarked
  BY <1>1 DEF Traded, Unsettled, Unmarked
<1>3. DataInv'
  BY <1>1, <1>2 DEF DataInv
<1>4. Defects \subseteq Defects'
  BY <1>1, <1>2, DefectsFollow
<1>5. Len(tape) \in Nat
  BY DEF DataInv
<1> QED
  BY <1>1, <1>2, <1>3, <1>4, <1>5 DEF DataGrows

-----------------------------------------------------------------------------
(* Operations: what a run has read, and what it has still to find.         *)

RunTypes ==
    /\ stage \in [Runs -> {"none", "checking", "auditing", "alerting", "done"}]
    /\ DOMAIN origin = Runs
    /\ todo \in [Runs -> SUBSET Statements]
    /\ DOMAIN cutoff = Runs
    /\ trades \in [Runs -> SUBSET OrderIds]
    /\ open \in [Runs -> SUBSET OrderIds]
    /\ failed \in [Runs -> SUBSET Checks]
    /\ broken \in [Runs -> SUBSET Checks]
    /\ DOMAIN had = Runs
    /\ raced \in [Runs -> BOOLEAN]

\* A failure of a run has its defect, or the run was late.
Real(r, c) ==
    \/ \E d \in Defects : d.check = c
    \/ c = "ORDER_STATUS_CONSISTENCY" /\ raced[r]

\* A run has read trades there are, orders that are still open unless one was filled since,
\* and what it has found is wrong, or it was late.  It keeps none from one time to the next.
Seen(r) ==
    /\ trades[r] \subseteq Traded
    /\ \A o \in open[r] : status[o] = "OPEN" \/ raced[r]
    /\ had[r] \subseteq Defects
    /\ \A c \in failed[r] \ broken[r] : Real(r, c)
    /\ open[r] # {} => "fills" \in todo[r]
    /\ todo[r] # {} => stage[r] = "checking"

\* A statement that is still to come will show d.
Due(r, d) ==
    \/ d.check = "GLOBAL_BALANCE" /\ "global" \in todo[r]
    \/ d.check = "NON_NEGATIVE_BALANCES" /\ "negative" \in todo[r]
    \/ /\ d.check = "RECENT_TRADE_SETTLEMENT"
       /\ "trades" \in todo[r] \/ ("settlements" \in todo[r] /\ d.of \in trades[r])
    \/ /\ d.check = "ORDER_STATUS_CONSISTENCY"
       /\ "orders" \in todo[r] \/ ("fills" \in todo[r] /\ d.of \in open[r])

\* What was wrong when a run began, and is in its sight, has been found or will be.
Covers(r) ==
    /\ stage[r] = "checking" =>
           \A d \in had[r] : InSight(r, d) => d.check \in failed[r] \/ Due(r, d)
    /\ Concluded(r) => \A d \in had[r] : InSight(r, d) => d.check \in failed[r]

RunInv == \A r \in Runs : Seen(r) /\ Covers(r)

OpsInv == DataInv /\ RunTypes /\ RunInv

Same(r) ==
    /\ stage'[r] = stage[r] /\ todo'[r] = todo[r] /\ cutoff'[r] = cutoff[r]
    /\ trades'[r] = trades[r] /\ open'[r] = open[r] /\ failed'[r] = failed[r]
    /\ broken'[r] = broken[r] /\ had'[r] = had[r]

\* While a run does nothing, what is wrong grows, and it can see no more.
LEMMA RunStays ==
    ASSUME DataInv, DataInv', DataGrows, NEW r \in Runs, Seen(r), Covers(r), Same(r),
           raced[r] => raced'[r],
           \A o \in open[r] : status[o] = "OPEN" => status'[o] = "OPEN" \/ raced'[r]
    PROVE  Seen(r)' /\ Covers(r)'
<1>1. Seen(r)'
  <2>1. trades'[r] \subseteq Traded'
    BY DEF Seen, Same, DataGrows
  <2>2. \A o \in open'[r] : status'[o] = "OPEN" \/ raced'[r]
    BY DEF Seen, Same
  <2>3. had'[r] \subseteq Defects'
    BY DEF Seen, Same, DataGrows
  <2>4. \A c : Real(r, c) => Real(r, c)'
    BY DEF Real, DataGrows
  <2>5. \A c \in failed'[r] \ broken'[r] : Real(r, c)'
    BY <2>4 DEF Seen, Same
  <2>6. /\ open'[r] # {} => "fills" \in todo'[r]
        /\ todo'[r] # {} => stage'[r] = "checking"
    BY DEF Seen, Same
  <2> QED
    BY <2>1, <2>2, <2>3, <2>5, <2>6 DEF Seen
<1>2. \A d : Due(r, d) => Due(r, d)'
  BY DEF Due, Same
<1>3. Covers(r)'
  <2>1. Concluded(r)' <=> Concluded(r)
    BY DEF Concluded, Same
  <2>2. ASSUME NEW d \in had'[r], InSight(r, d)' PROVE d \in had[r] /\ InSight(r, d)
    <3>1. d \in Defects /\ d \in had[r] /\ cutoff'[r] = cutoff[r]
      BY <2>2 DEF Seen, Same
    <3> QED
      BY <2>2, <3>1, SightShrinks
  <2> QED
    BY <1>2, <2>1, <2>2 DEF Covers, Same
<1> QED
  BY <1>1, <1>3

\* A step that changes neither the data nor the runs, but perhaps to record that one is late.
LEMMA RunsStay ==
    ASSUME OpsInv, DataInv', DataGrows,
           UNCHANGED <<stage, origin, todo, cutoff, trades, open, failed, broken, had>>,
           raced' \in [Runs -> BOOLEAN], \A r \in Runs : raced[r] => raced'[r],
           \A r \in Runs : \A o \in open[r] : status[o] = "OPEN" => status'[o] = "OPEN" \/ raced'[r]
    PROVE  OpsInv'
<1>1. RunTypes'
  BY DEF OpsInv, RunTypes, Statements, OrderIds, Checks
<1>2. ASSUME NEW r \in Runs PROVE Seen(r)' /\ Covers(r)'
  <2>1. DataInv /\ Seen(r) /\ Covers(r) /\ Same(r)
    BY DEF OpsInv, RunInv, Same
  <2> QED
    BY <2>1, RunStays
<1> QED
  BY <1>1, <1>2 DEF OpsInv, RunInv

\* When one run goes on, it is only that run.
LEMMA OneRun ==
    ASSUME OpsInv, UNCHANGED <<status, tape, settled, wrong>>, RunTypes', NEW r \in Runs, Seen(r)', Covers(r)',
           \A p \in Runs : p # r => Same(p) /\ raced'[p] = raced[p]
    PROVE  OpsInv'
<1>1. DataInv /\ DataInv' /\ DataGrows
  BY DataStays DEF OpsInv
<1>2. ASSUME NEW p \in Runs, p # r PROVE Seen(p)' /\ Covers(p)'
  <2>1. Seen(p) /\ Covers(p) /\ Same(p) /\ raced'[p] = raced[p] /\ UNCHANGED status
    BY <1>2 DEF OpsInv, RunInv
  <2> QED
    BY <1>1, <2>1, RunStays
<1> QED
  BY <1>1, <1>2 DEF OpsInv, RunInv

\* A run that begins has every statement to come, and takes what is wrong as it is.
LEMMA BeginsHolds ==
    ASSUME OpsInv, UNCHANGED dataVars, NEW r \in Runs, NEW who, Begins(r, who)
    PROVE  OpsInv'
<1>1. /\ stage' = [stage EXCEPT ![r] = "checking"]
      /\ origin' = [origin EXCEPT ![r] = who]
      /\ todo' = [todo EXCEPT ![r] = {"global", "negative", "trades", "orders"}]
      /\ cutoff' = [cutoff EXCEPT ![r] = past]
      /\ had' = [had EXCEPT ![r] = Defects]
      /\ failed' = [failed EXCEPT ![r] = {}]
      /\ broken' = [broken EXCEPT ![r] = {}]
      /\ raced' = [raced EXCEPT ![r] = FALSE]
      /\ UNCHANGED <<trades, open>>
  BY DEF Begins
<1>2. RunTypes /\ Seen(r) /\ stage[r] # "checking"
  BY DEF OpsInv, RunInv, Begins
<1>3. DataInv /\ UNCHANGED <<status, tape, settled, wrong>>
  BY DEF OpsInv, dataVars
<1>4. Defects' = Defects /\ Traded' = Traded
  BY <1>3, DataStays
<1>5. \A d \in Defects : d.check \in Checks
  BY <1>3, DefectKinds DEF DataInv, Checks
<1>6. /\ stage'[r] = "checking" /\ todo'[r] = {"global", "negative", "trades", "orders"}
      /\ had'[r] = Defects /\ failed'[r] = {} /\ open'[r] = {} /\ trades'[r] = trades[r]
  BY <1>1, <1>2 DEF RunTypes, Seen
<1>7. RunTypes'
  BY <1>1, <1>2 DEF RunTypes, Statements, OrderIds, Checks
<1>8. Seen(r)'
  BY <1>2, <1>4, <1>6 DEF Seen
<1>9. Covers(r)'
  <2>1. \A d : d.check \in Checks => Due(r, d)'
    BY <1>6 DEF Due, Checks
  <2> QED
    BY <1>5, <1>6, <2>1 DEF Covers, Concluded
<1>10. \A p \in Runs : p # r => Same(p) /\ raced'[p] = raced[p]
  BY <1>1, <1>2 DEF RunTypes, Same
<1> QED
  BY <1>3, <1>7, <1>8, <1>9, <1>10, OneRun

\* Sight of one run, while neither data nor cutoff change.
LEMMA SameSight ==
    ASSUME UNCHANGED <<status, tape>>, NEW r, cutoff'[r] = cutoff[r], NEW d
    PROVE  InSight(r, d)' <=> InSight(r, d)
  BY DEF InSight

\* An answer that leaves what is to be found to come, or finds it.
LEMMA AnswerHolds ==
    ASSUME OpsInv, NEW r \in Runs, NEW q \in Statements, NEW bad \in BOOLEAN,
           NEW next \in SUBSET Statements, Answered(r, q, bad, next), UNCHANGED raced,
           NEW seen \in SUBSET OrderIds, trades' = [trades EXCEPT ![r] = seen],
           NEW found \in SUBSET OrderIds, open' = [open EXCEPT ![r] = found],
           bad => Real(r, CheckOf(q)),
           seen \subseteq Traded,
           \A o \in found : status[o] = "OPEN" \/ raced[r],
           found # {} => "fills" \in todo'[r],
           \A d \in Defects : InSight(r, d) /\ Due(r, d) => (bad /\ d.check = CheckOf(q)) \/ Due(r, d)'
    PROVE  OpsInv'
<1>1. /\ stage[r] = "checking" /\ q \in todo[r]
      /\ todo' = [todo EXCEPT ![r] = (@ \ {q}) \cup next]
      /\ failed' = IF bad THEN [failed EXCEPT ![r] = @ \cup {CheckOf(q)}] ELSE failed
      /\ UNCHANGED <<status, tape, settled, wrong>>
      /\ UNCHANGED <<stage, origin, cutoff, broken, had>>
  BY DEF Answered, dataVars
<1>2. RunTypes /\ Seen(r) /\ Covers(r)
  BY DEF OpsInv, RunInv
<1>3. CheckOf(q) \in Checks
  BY DEF Statements, CheckOf, Checks
<1>4. Defects' = Defects /\ Traded' = Traded /\ status' = status
  BY <1>1, DataStays DEF OpsInv
<1>5. RunTypes'
  BY <1>1, <1>2, <1>3 DEF RunTypes, Statements, OrderIds, Checks
<1>6. /\ trades'[r] = seen /\ open'[r] = found /\ stage'[r] = "checking"
      /\ failed'[r] = IF bad THEN failed[r] \cup {CheckOf(q)} ELSE failed[r]
      /\ broken'[r] = broken[r] /\ had'[r] = had[r] /\ raced'[r] = raced[r]
  BY <1>1, <1>2 DEF RunTypes
<1>7. Seen(r)'
  <2>1. \A c : Real(r, c)' <=> Real(r, c)
    BY <1>4, <1>6 DEF Real
  <2>2. \A c \in failed'[r] \ broken'[r] : Real(r, c)'
    BY <1>2, <1>6, <2>1 DEF Seen
  <2> QED
    BY <1>2, <1>4, <1>6, <2>2 DEF Seen
<1>8. Covers(r)'
  <2>1. ASSUME NEW d \in had'[r], InSight(r, d)' PROVE d.check \in failed'[r] \/ Due(r, d)'
    <3>1. d \in had[r] /\ d \in Defects
      BY <1>2, <1>6, <2>1 DEF Seen
    <3>2. InSight(r, d)
      BY <1>1, <2>1, SameSight
    <3>3. d.check \in failed[r] \/ Due(r, d)
      BY <1>1, <1>2, <3>1, <3>2 DEF Covers
    <3> QED
      BY <1>6, <3>1, <3>2, <3>3
  <2> QED
    BY <1>6, <2>1 DEF Covers, Concluded
<1>9. \A p \in Runs : p # r => Same(p) /\ raced'[p] = raced[p]
  BY <1>1, <1>2 DEF RunTypes, Same
<1> QED
  BY <1>1, <1>5, <1>7, <1>8, <1>9, OneRun

\* What an answered statement leaves to come.
LEMMA ToCome ==
    ASSUME OpsInv, NEW r \in Runs, NEW q, NEW bad, NEW next, Answered(r, q, bad, next)
    PROVE  /\ todo'[r] = (todo[r] \ {q}) \cup next /\ stage[r] = "checking" /\ q \in todo[r]
           /\ UNCHANGED <<status, tape, settled, wrong>>
  BY DEF OpsInv, RunTypes, Answered, dataVars

\* A sum over the postings tells whether the ledger is wrong now.
LEMMA SumHolds ==
    ASSUME OpsInv, NEW r \in Runs, NEW q, Sum(r, q)
    PROVE  OpsInv'
<1> DEFINE bad == CheckOf(q) \in wrong
           seen == trades[r]
           found == open[r]
<1>1. /\ q \in {"global", "negative"} /\ Answered(r, q, bad, {})
      /\ UNCHANGED <<trades, open, raced>>
  BY DEF Sum
<1>2. DataInv /\ RunTypes /\ Seen(r)
  BY DEF OpsInv, RunInv
<1>3. q \in Statements /\ bad \in BOOLEAN /\ {} \in SUBSET Statements
  BY <1>1 DEF Statements
<1>4. bad => Real(r, CheckOf(q))
  BY DefectsAre DEF Real
<1>5. /\ seen \in SUBSET OrderIds /\ trades' = [trades EXCEPT ![r] = seen]
      /\ found \in SUBSET OrderIds /\ open' = [open EXCEPT ![r] = found]
  BY <1>1, <1>2 DEF RunTypes
<1>6. todo'[r] = todo[r] \ {q} /\ UNCHANGED <<status, tape, settled, wrong>>
  BY <1>1, ToCome
<1>7. ASSUME NEW d \in Defects, InSight(r, d), Due(r, d)
      PROVE  (bad /\ d.check = CheckOf(q)) \/ Due(r, d)'
  <2>1. CASE d.check = CheckOf(q)
    <3>1. d.check \in wrong
      BY <1>1, <2>1, DefectKinds DEF CheckOf
    <3> QED
      BY <2>1, <3>1
  <2>2. CASE d.check # CheckOf(q)
    <3>1. trades' = trades /\ open' = open
      BY <1>1
    <3> QED
      BY <1>1, <1>6, <1>7, <2>2, <3>1 DEF Due, CheckOf
  <2> QED
    BY <2>1, <2>2
<1>8. /\ seen \subseteq Traded
      /\ \A o \in found : status[o] = "OPEN" \/ raced[r]
      /\ found # {} => "fills" \in todo'[r]
  BY <1>1, <1>2, <1>6 DEF Seen
<1>9. Answered(r, q, bad, {}) /\ UNCHANGED raced
  BY <1>1
<1> HIDE DEF bad, seen, found
<1> QED
  BY <1>3, <1>4, <1>5, <1>7, <1>8, <1>9, AnswerHolds

\* Trades that have been read have their settlements still to come.
LEMMA ReadTradesHolds ==
    ASSUME OpsInv, NEW r \in Runs, ReadTrades(r)
    PROVE  OpsInv'
<1> DEFINE seen == RecentTrades(r)
           found == open[r]
           next == IF seen = {} THEN {} ELSE {"settlements"}
<1>1. /\ trades' = [trades EXCEPT ![r] = seen]
      /\ Answered(r, "trades", FALSE, next)
      /\ UNCHANGED <<open, raced>>
  BY DEF ReadTrades
<1>2. DataInv /\ RunTypes /\ Seen(r)
  BY DEF OpsInv, RunInv
<1>3. "trades" \in Statements /\ next \in SUBSET Statements
  BY DEF Statements
<1>4. /\ seen \subseteq Traded
      /\ Traded \subseteq OrderIds
      /\ \A d : d.check = "RECENT_TRADE_SETTLEMENT" /\ InSight(r, d) => d.of \in seen
  <2>1. tape \in Seq(OrderIds)
    BY <1>2 DEF DataInv
  <2>2. Traded \subseteq OrderIds
    BY <2>1 DEF Traded
  <2>3. seen \subseteq Traded
    BY DEF Traded, RecentTrades
  <2>4. ASSUME NEW d, d.check = "RECENT_TRADE_SETTLEMENT", InSight(r, d) PROVE d.of \in seen
    BY <2>4 DEF InSight, RecentTrades
  <2> QED
    BY <2>2, <2>3, <2>4
<1> HIDE DEF seen
<1>5. /\ seen \in SUBSET OrderIds
      /\ found \in SUBSET OrderIds /\ open' = [open EXCEPT ![r] = found]
  BY <1>1, <1>2, <1>4 DEF RunTypes
<1>6. todo'[r] = (todo[r] \ {"trades"}) \cup next
  <2> HIDE DEF next, found
  <2>1. todo' = [todo EXCEPT ![r] = (@ \ {"trades"}) \cup next]
    BY <1>1 DEF Answered
  <2> QED
    BY <1>2, <2>1 DEF RunTypes
<1>7. ASSUME NEW d \in Defects, InSight(r, d), Due(r, d)
      PROVE  (FALSE /\ d.check = CheckOf("trades")) \/ Due(r, d)'
  <2>1. CASE d.check = "RECENT_TRADE_SETTLEMENT"
    <3>1. d.of \in seen
      BY <1>4, <1>7, <2>1
    <3>2. trades'[r] = seen
      BY <1>1, <1>2 DEF RunTypes
    <3>3. d.of \in trades'[r] /\ "settlements" \in todo'[r]
      BY <1>6, <3>1, <3>2
    <3> QED
      BY <2>1, <3>3 DEF Due
  <2>2. CASE d.check # "RECENT_TRADE_SETTLEMENT"
    <3>1. open' = open
      BY <1>1
    <3> QED
      BY <1>6, <1>7, <2>2, <3>1 DEF Due
  <2> QED
    BY <2>1, <2>2
<1>8. /\ \A o \in found : status[o] = "OPEN" \/ raced[r]
      /\ found # {} => "fills" \in todo'[r]
  BY <1>2, <1>6 DEF Seen
<1> HIDE DEF found, next
<1> QED
  BY <1>1, <1>3, <1>4, <1>5, <1>7, <1>8, AnswerHolds

\* The settlements of the trades that were read: one missing is missing still.
LEMMA ReadSettlementsHolds ==
    ASSUME OpsInv, NEW r \in Runs, ReadSettlements(r)
    PROVE  OpsInv'
<1> DEFINE bad == trades[r] \ settled # {}
           found == open[r]
<1>1. /\ trades' = [trades EXCEPT ![r] = {}]
      /\ Answered(r, "settlements", bad, {})
      /\ UNCHANGED <<open, raced>>
  BY DEF ReadSettlements
<1>2. DataInv /\ RunTypes /\ Seen(r)
  BY DEF OpsInv, RunInv
<1>3. "settlements" \in Statements /\ {} \in SUBSET Statements /\ bad \in BOOLEAN
  BY DEF Statements
<1>4. bad => Real(r, CheckOf("settlements"))
  <2>1. bad => Unsettled # {}
    BY <1>2 DEF Seen, Unsettled
  <2> QED
    BY <2>1, DefectsAre DEF Real, CheckOf
<1>5. /\ {} \in SUBSET OrderIds
      /\ found \in SUBSET OrderIds /\ open' = [open EXCEPT ![r] = found]
  BY <1>1, <1>2 DEF RunTypes
<1>6. todo'[r] = todo[r] \ {"settlements"} /\ UNCHANGED <<status, tape, settled, wrong>>
  BY <1>1, ToCome
<1>7. ASSUME NEW d \in Defects, InSight(r, d), Due(r, d)
      PROVE  (bad /\ d.check = CheckOf("settlements")) \/ Due(r, d)'
  <2>1. CASE d.check = "RECENT_TRADE_SETTLEMENT" /\ "trades" \in todo[r]
    BY <1>6, <2>1 DEF Due
  <2>2. CASE d.check = "RECENT_TRADE_SETTLEMENT" /\ d.of \in trades[r]
    <3>1. d.of \notin settled
      BY <1>2, <2>2, DefectKinds DEF Unsettled, DataInv
    <3> QED
      BY <2>2, <3>1 DEF CheckOf
  <2>3. CASE d.check # "RECENT_TRADE_SETTLEMENT"
    <3>1. open' = open
      BY <1>1
    <3> QED
      BY <1>6, <1>7, <2>3, <3>1 DEF Due
  <2> QED
    BY <1>7, <2>1, <2>2, <2>3 DEF Due
<1>8. /\ \A o \in found : status[o] = "OPEN" \/ raced[r]
      /\ found # {} => "fills" \in todo'[r]
      /\ {} \subseteq Traded
  <2>1. \A o \in found : status[o] = "OPEN" \/ raced[r]
    BY <1>2 DEF Seen
  <2>2. found # {} => "fills" \in todo[r]
    BY <1>2 DEF Seen
  <2>3. found # {} => "fills" \in todo'[r]
    BY <1>6, <2>2
  <2> QED
    BY <2>1, <2>3
<1>9. PICK none : none = {}
  OBVIOUS
<1>10. bad \in BOOLEAN /\ none \in SUBSET Statements /\ none \in SUBSET OrderIds /\ none \subseteq Traded
  BY <1>3, <1>5, <1>9
<1>11. /\ Answered(r, "settlements", bad, none) /\ UNCHANGED raced
       /\ trades' = [trades EXCEPT ![r] = none]
  BY <1>1, <1>9
<1> HIDE DEF bad, found
<1> QED
  BY <1>3, <1>4, <1>5, <1>7, <1>8, <1>10, <1>11, AnswerHolds

\* An active order that is in sight is among those that are read.
LEMMA ActiveAre ==
    ASSUME DataInv
    PROVE  /\ \A o \in ActiveOrders : o \in OrderIds /\ status[o] = "OPEN"
           /\ \A r, d : /\ d.check = "ORDER_STATUS_CONSISTENCY" /\ d.of \in Unmarked
                        /\ InSight(r, d)
                        => d.of \in ActiveOrders
<1> DEFINE active == {o \in OrderIds : status[o] = "OPEN"}
<1>1. ActiveOrders = {o \in active : Cardinality({p \in active : p > o}) < TakeOrders}
  BY DEF ActiveOrders
<1>2. \A o \in ActiveOrders : o \in OrderIds /\ status[o] = "OPEN"
  BY <1>1
<1>3. ASSUME NEW r, NEW d, d.check = "ORDER_STATUS_CONSISTENCY", d.of \in Unmarked, InSight(r, d)
      PROVE  d.of \in ActiveOrders
  <2> DEFINE newer == {p \in active : p > d.of}
             placed == {o \in OrderIds : o > d.of /\ status[o] # "NONE"}
  <2>1. d.of \in active
    BY <1>3 DEF Unmarked
  <2>2. newer \subseteq placed
    OBVIOUS
  <2>3. Cardinality(placed) < TakeOrders
    BY <1>3 DEF InSight
  <2>4. IsFiniteSet(placed)
    BY OrdersFinite, FS_Subset
  <2> HIDE DEF placed, newer
  <2>5. /\ Cardinality(newer) \in Nat /\ Cardinality(placed) \in Nat
        /\ Cardinality(newer) =< Cardinality(placed)
    BY <2>2, <2>4, FS_Subset, FS_CardinalityType
  <2>6. Cardinality(newer) < TakeOrders
    BY <2>3, <2>5, OperationsAssumption
  <2> QED
    BY <1>1, <2>1, <2>6 DEF newer
<1> QED
  BY <1>2, <1>3

\* Orders that have been read have their fills still to come.
LEMMA ReadOrdersHolds ==
    ASSUME OpsInv, NEW r \in Runs, ReadOrders(r)
    PROVE  OpsInv'
<1> DEFINE seen == trades[r]
           found == ActiveOrders
           next == IF found = {} THEN {} ELSE {"fills"}
<1>1. /\ open' = [open EXCEPT ![r] = found]
      /\ Answered(r, "orders", FALSE, next)
      /\ UNCHANGED <<trades, raced>>
  BY DEF ReadOrders
<1>2. DataInv /\ RunTypes /\ Seen(r)
  BY DEF OpsInv, RunInv
<1>3. "orders" \in Statements /\ next \in SUBSET Statements
  BY DEF Statements
<1>4. \A o \in found : o \in OrderIds /\ status[o] = "OPEN"
  BY <1>2, ActiveAre
<1>5. ASSUME NEW d \in Defects, InSight(r, d), d.check = "ORDER_STATUS_CONSISTENCY"
      PROVE  d.of \in found
  <2>1. d.of \in Unmarked
    BY <1>2, <1>5, DefectKinds DEF DataInv
  <2> QED
    BY <1>2, <1>5, <2>1, ActiveAre
<1> HIDE DEF found
<1>6. /\ found \in SUBSET OrderIds
      /\ seen \in SUBSET OrderIds /\ trades' = [trades EXCEPT ![r] = seen]
  <2>1. found \subseteq OrderIds
    BY <1>4
  <2> QED
    BY <1>1, <1>2, <2>1 DEF RunTypes
<1>7. todo'[r] = (todo[r] \ {"orders"}) \cup next
  <2> HIDE DEF next, seen
  <2>1. todo' = [todo EXCEPT ![r] = (@ \ {"orders"}) \cup next]
    BY <1>1 DEF Answered
  <2> QED
    BY <1>2, <2>1 DEF RunTypes
<1>8. ASSUME NEW d \in Defects, InSight(r, d), Due(r, d)
      PROVE  (FALSE /\ d.check = CheckOf("orders")) \/ Due(r, d)'
  <2>1. CASE d.check = "ORDER_STATUS_CONSISTENCY"
    <3>1. d.of \in found
      BY <1>5, <1>8, <2>1
    <3>2. open'[r] = found
      BY <1>1, <1>2 DEF RunTypes
    <3>3. d.of \in open'[r] /\ "fills" \in todo'[r]
      BY <1>7, <3>1, <3>2
    <3> QED
      BY <2>1, <3>3 DEF Due
  <2>2. CASE d.check # "ORDER_STATUS_CONSISTENCY"
    <3>1. trades' = trades
      BY <1>1
    <3> QED
      BY <1>7, <1>8, <2>2, <3>1 DEF Due
  <2> QED
    BY <2>1, <2>2
<1>9. /\ \A o \in found : status[o] = "OPEN" \/ raced[r]
      /\ found # {} => "fills" \in todo'[r]
      /\ seen \subseteq Traded
  BY <1>2, <1>4, <1>7 DEF Seen
<1>10. Answered(r, "orders", FALSE, next) /\ UNCHANGED raced
  BY <1>1
<1> HIDE DEF next, seen
<1> QED
  BY <1>1, <1>3, <1>6, <1>8, <1>9, <1>10, AnswerHolds

\* The fills of one order, which was active when the orders were read.
LEMMA ReadFillsHolds ==
    ASSUME OpsInv, NEW r \in Runs, ReadFills(r)
    PROVE  OpsInv'
<1>1. PICK o \in open[r] :
         /\ open' = [open EXCEPT ![r] = @ \ {o}]
         /\ Answered(r, "fills", o \in Traded, IF open[r] = {o} THEN {} ELSE {"fills"})
  BY DEF ReadFills
<1> DEFINE bad == o \in Traded
           seen == trades[r]
           found == open[r] \ {o}
           next == IF open[r] = {o} THEN {} ELSE {"fills"}
<1>2. DataInv /\ RunTypes /\ Seen(r)
  BY DEF OpsInv, RunInv
<1>3. "fills" \in Statements /\ next \in SUBSET Statements /\ bad \in BOOLEAN
  BY DEF Statements
<1>4. bad => Real(r, CheckOf("fills"))
  <2> SUFFICES ASSUME bad PROVE Real(r, "ORDER_STATUS_CONSISTENCY")
    BY DEF CheckOf
  <2>1. CASE raced[r]
    BY <2>1 DEF Real
  <2>2. CASE status[o] = "OPEN"
    <3>1. o \in Unmarked
      BY <1>1, <1>2, <2>2 DEF RunTypes, Unmarked
    <3> QED
      BY <3>1, DefectsAre DEF Real
  <2> QED
    BY <1>2, <2>1, <2>2 DEF Seen
<1>5. /\ found \in SUBSET OrderIds /\ open' = [open EXCEPT ![r] = found]
      /\ seen \in SUBSET OrderIds /\ trades' = [trades EXCEPT ![r] = seen]
      /\ open'[r] = found /\ UNCHANGED <<trades, raced>>
  BY <1>1, <1>2 DEF RunTypes, ReadFills
<1>6. todo'[r] = (todo[r] \ {"fills"}) \cup next
  BY <1>1, ToCome
<1>7. found # {} => "fills" \in todo'[r]
  BY <1>6
<1>8. ASSUME NEW d \in Defects, InSight(r, d), Due(r, d)
      PROVE  (bad /\ d.check = CheckOf("fills")) \/ Due(r, d)'
  <2>1. CASE d.check = "ORDER_STATUS_CONSISTENCY"
    <3>1. CASE "orders" \in todo[r]
      BY <1>6, <2>1, <3>1 DEF Due
    <3>2. CASE d.of = o
      <4>1. o \in Traded
        BY <1>2, <2>1, <3>2, DefectKinds DEF Unmarked, DataInv
      <4> QED
        BY <2>1, <4>1 DEF CheckOf
    <3>3. CASE d.of \in open[r] /\ d.of # o
      <4>1. d.of \in open'[r] /\ "fills" \in todo'[r]
        BY <1>5, <1>7, <3>3
      <4> QED
        BY <2>1, <4>1 DEF Due
    <3> QED
      BY <1>8, <2>1, <3>1, <3>2, <3>3 DEF Due
  <2>2. CASE d.check # "ORDER_STATUS_CONSISTENCY"
    BY <1>5, <1>6, <1>8, <2>2 DEF Due
  <2> QED
    BY <2>1, <2>2
<1>9. /\ \A p \in found : status[p] = "OPEN" \/ raced[r]
      /\ seen \subseteq Traded
  BY <1>2 DEF Seen
<1>10. Answered(r, "fills", bad, next) /\ UNCHANGED raced
  BY <1>1, <1>5
<1>11. /\ found \in SUBSET OrderIds /\ open' = [open EXCEPT ![r] = found]
       /\ seen \in SUBSET OrderIds /\ trades' = [trades EXCEPT ![r] = seen]
  BY <1>5
<1> HIDE DEF bad, next, seen, found
<1> QED
  BY <1>3, <1>4, <1>7, <1>8, <1>9, <1>10, <1>11, AnswerHolds

\* A check whose query fails is found not to be ok, and said to be broken.
LEMMA QueryFailsHolds ==
    ASSUME OpsInv, NEW r \in Runs, NEW q \in Statements, QueryFails(r, q)
    PROVE  OpsInv'
<1>1. /\ stage[r] = "checking" /\ q \in todo[r]
      /\ todo' = [todo EXCEPT ![r] = @ \ {q}]
      /\ trades' = IF q = "settlements" THEN [trades EXCEPT ![r] = {}] ELSE trades
      /\ open' = IF q = "fills" THEN [open EXCEPT ![r] = {}] ELSE open
      /\ failed' = [failed EXCEPT ![r] = @ \cup {CheckOf(q)}]
      /\ broken' = [broken EXCEPT ![r] = @ \cup {CheckOf(q)}]
      /\ UNCHANGED <<status, tape, settled, wrong>>
      /\ UNCHANGED <<stage, origin, cutoff, had, raced>>
  BY DEF QueryFails
<1>2. RunTypes /\ Seen(r) /\ Covers(r)
  BY DEF OpsInv, RunInv
<1>3. CheckOf(q) \in Checks
  BY DEF Statements, CheckOf, Checks
<1>4. Defects' = Defects /\ Traded' = Traded
  BY <1>1, DataStays DEF OpsInv
<1>5. RunTypes'
  BY <1>1, <1>2, <1>3 DEF RunTypes, Statements, OrderIds, Checks
<1>6. /\ trades'[r] = (IF q = "settlements" THEN {} ELSE trades[r])
      /\ open'[r] = (IF q = "fills" THEN {} ELSE open[r])
      /\ todo'[r] = todo[r] \ {q} /\ stage'[r] = "checking"
      /\ failed'[r] = failed[r] \cup {CheckOf(q)}
      /\ broken'[r] = broken[r] \cup {CheckOf(q)}
      /\ had'[r] = had[r] /\ raced'[r] = raced[r] /\ cutoff'[r] = cutoff[r]
  BY <1>1, <1>2 DEF RunTypes
<1>7. Seen(r)'
  <2>1. \A c : Real(r, c)' <=> Real(r, c)
    BY <1>4, <1>6 DEF Real
  <2>2. \A c \in failed'[r] \ broken'[r] : Real(r, c)'
    BY <1>2, <1>6, <2>1 DEF Seen
  <2>3. trades'[r] \subseteq Traded' /\ had'[r] \subseteq Defects'
    BY <1>2, <1>4, <1>6 DEF Seen
  <2>4. /\ \A o \in open'[r] : status'[o] = "OPEN" \/ raced'[r]
        /\ open'[r] # {} => "fills" \in todo'[r]
    BY <1>1, <1>2, <1>6 DEF Seen
  <2> QED
    BY <1>6, <2>2, <2>3, <2>4 DEF Seen
<1>8. Covers(r)'
  <2>1. ASSUME NEW d \in had'[r], InSight(r, d)' PROVE d.check \in failed'[r] \/ Due(r, d)'
    <3>1. d \in had[r] /\ InSight(r, d)
      BY <1>1, <1>6, <2>1, SameSight
    <3>2. d.check \in failed[r] \/ Due(r, d)
      BY <1>1, <1>2, <3>1 DEF Covers
    <3>3. CASE d.check = CheckOf(q) \/ d.check \in failed[r]
      BY <1>6, <3>3
    <3>4. CASE d.check # CheckOf(q) /\ Due(r, d)
      BY <1>1, <1>6, <3>4 DEF Due, CheckOf, Statements
    <3> QED
      BY <3>2, <3>3, <3>4
  <2> QED
    BY <1>6, <2>1 DEF Covers, Concluded
<1>9. \A p \in Runs : p # r => Same(p) /\ raced'[p] = raced[p]
  BY <1>1, <1>2 DEF RunTypes, Same
<1> QED
  BY <1>1, <1>5, <1>7, <1>8, <1>9, OneRun

\* A run goes on to its end with nothing to come: what it had to find has been found.
LEMMA ConcludeHolds ==
    ASSUME OpsInv, NEW r \in Runs, Conclude(r) \/ Note(r) \/ AlertEnds(r)
    PROVE  OpsInv'
<1>1. PICK next \in {"auditing", "alerting", "done"} : stage' = [stage EXCEPT ![r] = next]
  BY DEF Conclude, Note, AlertEnds
<1>2. /\ UNCHANGED <<status, tape, settled, wrong>>
      /\ UNCHANGED <<origin, todo, cutoff, trades, open, failed, broken, had, raced>>
  BY DEF Conclude, Note, AlertEnds, dataVars
<1>3. RunTypes /\ Seen(r) /\ Covers(r)
  BY DEF OpsInv, RunInv
<1>4. todo[r] = {}
  BY <1>3 DEF Conclude, Note, AlertEnds, Seen
<1>5. Defects' = Defects /\ Traded' = Traded
  BY <1>2, DataStays DEF OpsInv
<1>6. RunTypes'
  BY <1>1, <1>2, <1>3 DEF RunTypes, Statements, OrderIds, Checks
<1>7. stage'[r] = next
  BY <1>1, <1>3 DEF RunTypes
<1>8. Seen(r)'
  BY <1>2, <1>3, <1>4, <1>5 DEF Seen, Real
<1>9. \A d \in had[r] : InSight(r, d) => d.check \in failed[r]
  <2>1. CASE stage[r] = "checking"
    BY <1>3, <1>4, <2>1 DEF Covers, Due
  <2>2. CASE stage[r] # "checking"
    BY <1>3, <2>2 DEF Covers, Concluded, Conclude, Note, AlertEnds
  <2> QED
    BY <2>1, <2>2
<1>10. \A d : InSight(r, d)' <=> InSight(r, d)
  BY <1>2, SameSight
<1>11. Covers(r)'
  BY <1>2, <1>7, <1>9, <1>10 DEF Covers
<1>12. \A p \in Runs : p # r => Same(p) /\ raced'[p] = raced[p]
  BY <1>1, <1>2, <1>3 DEF RunTypes, Same
<1> QED
  BY <1>2, <1>6, <1>8, <1>11, <1>12, OneRun

\* A process that has ended has no runs.
LEMMA EndsHolds ==
    ASSUME OpsInv, NEW how, Ends(how)
    PROVE  OpsInv'
<1>1. /\ stage' = [r \in Runs |-> "none"]
      /\ origin' = [r \in Runs |-> "NONE"]
      /\ todo' = [r \in Runs |-> {}]
      /\ cutoff' = [r \in Runs |-> 0]
      /\ trades' = [r \in Runs |-> {}]
      /\ open' = [r \in Runs |-> {}]
      /\ failed' = [r \in Runs |-> {}]
      /\ broken' = [r \in Runs |-> {}]
      /\ had' = [r \in Runs |-> {}]
      /\ raced' = [r \in Runs |-> FALSE]
      /\ UNCHANGED <<status, tape, settled, wrong>>
  BY DEF Ends, dataVars
<1>2. DataInv'
  BY <1>1, DataStays DEF OpsInv
<1>3. RunTypes'
  BY <1>1 DEF RunTypes
<1>4. RunInv'
  BY <1>1 DEF RunInv, Seen, Covers, Concluded
<1> QED
  BY <1>2, <1>3, <1>4 DEF OpsInv

\* A fill makes late the runs that have read its order as active.
LEMMA FillHolds ==
    ASSUME OpsInv, NEW o \in OrderIds, NEW settles, NEW marks, Fill(o, settles, marks)
    PROVE  OpsInv'
<1>1. DataInv' /\ DataGrows
  BY FillGrows DEF OpsInv
<1>2. /\ status' = status \/ status' = [status EXCEPT ![o] = "FILLED"]
      /\ raced' = [r \in Runs |-> raced[r] \/ o \in open[r]]
      /\ UNCHANGED <<stage, origin, todo, cutoff, trades, open, failed, broken, had>>
  BY DEF Fill
<1>3. DataInv /\ RunTypes
  BY DEF OpsInv
<1>4. ASSUME NEW r \in Runs, NEW p \in open[r], status[p] = "OPEN"
      PROVE  status'[p] = "OPEN" \/ raced'[r]
  BY <1>2, <1>3, <1>4 DEF DataInv, RunTypes
<1>5. raced' \in [Runs -> BOOLEAN] /\ \A r \in Runs : raced[r] => raced'[r]
  BY <1>2
<1> QED
  BY <1>1, <1>2, <1>4, <1>5, RunsStay

\* What only the process does, or time.
LEMMA ProcessHolds ==
    ASSUME OpsInv, UNCHANGED <<status, tape, settled, wrong>>, UNCHANGED runVars
    PROVE  OpsInv'
<1>1. DataInv' /\ DataGrows
  BY DataStays DEF OpsInv
<1>2. UNCHANGED <<stage, origin, todo, cutoff, trades, open, failed, broken, had, raced>>
  BY DEF runVars
<1>3. raced' \in [Runs -> BOOLEAN] /\ \A r \in Runs : raced[r] => raced'[r]
  BY <1>2 DEF OpsInv, RunTypes
<1>4. \A r \in Runs : \A o \in open[r] : status[o] = "OPEN" => status'[o] = "OPEN" \/ raced'[r]
  OBVIOUS
<1> QED
  BY <1>1, <1>2, <1>3, <1>4, RunsStay

\* No run has begun.
LEMMA OpsInvInit == OpInit => OpsInv
<1> SUFFICES ASSUME OpInit PROVE OpsInv
  OBVIOUS
<1>1. RunTypes
  BY DEF OpInit, RunTypes
<1>2. RunInv
  BY DEF OpInit, RunInv, Seen, Covers, Concluded
<1> QED
  BY <1>1, <1>2, DataInit DEF OpsInv

\* Every step keeps the invariant.
LEMMA OpsInvNext == OpsInv /\ [OpNext]_opVars => OpsInv'
<1> SUFFICES ASSUME OpsInv, [OpNext]_opVars PROVE OpsInv'
  OBVIOUS
<1>1. ASSUME NEW o \in OrderIds, Place(o) PROVE OpsInv'
  <2>1. DataInv' /\ DataGrows
    BY <1>1, PlaceGrows DEF OpsInv
  <2>2. /\ status' = [status EXCEPT ![o] = "OPEN"]
        /\ UNCHANGED <<stage, origin, todo, cutoff, trades, open, failed, broken, had, raced>>
    BY <1>1 DEF Place, runVars
  <2>3. raced' \in [Runs -> BOOLEAN] /\ \A r \in Runs : raced[r] => raced'[r]
    BY <2>2 DEF OpsInv, RunTypes
  <2>4. \A r \in Runs : \A p \in open[r] : status[p] = "OPEN" => status'[p] = "OPEN" \/ raced'[r]
    BY <2>2 DEF OpsInv, DataInv, RunTypes
  <2> QED
    BY <2>1, <2>2, <2>3, <2>4, RunsStay
<1>2. ASSUME NEW o \in OrderIds, NEW settles \in BOOLEAN, NEW marks \in BOOLEAN,
             Fill(o, settles, marks)
      PROVE  OpsInv'
  BY <1>2, FillHolds
<1>3. ASSUME NEW check \in {"GLOBAL_BALANCE", "NON_NEGATIVE_BALANCES"}, Spoil(check)
      PROVE  OpsInv'
  <2>1. DataInv' /\ DataGrows
    BY <1>3, SpoilGrows DEF OpsInv
  <2>2. /\ UNCHANGED status
        /\ UNCHANGED <<stage, origin, todo, cutoff, trades, open, failed, broken, had, raced>>
    BY <1>3 DEF Spoil, runVars
  <2>3. raced' \in [Runs -> BOOLEAN] /\ \A r \in Runs : raced[r] => raced'[r]
    BY <2>2 DEF OpsInv, RunTypes
  <2> QED
    BY <2>1, <2>2, <2>3, RunsStay
<1>4. ASSUME NEW r \in Runs, Boot(r) \/ Tick(r) \/ Ask(r) PROVE OpsInv'
  BY <1>4, BeginsHolds DEF Boot, Tick, Ask
<1>5. ASSUME NEW r \in Runs, Reconcile(r) PROVE OpsInv'
  BY <1>5, ReadTradesHolds, ReadSettlementsHolds, ReadOrdersHolds, ReadFillsHolds, SumHolds,
     QueryFailsHolds, ConcludeHolds DEF Reconcile
<1>6. ASSUME NEW x \in Streams, Connect(x) \/ Leave(x) PROVE OpsInv'
  BY <1>6, ProcessHolds DEF Connect, Leave, dataVars
<1>7. CASE Signal \/ Closed \/ Age
  BY <1>7, ProcessHolds DEF Signal, Closed, Age, dataVars
<1>8. CASE BootFails \/ Exit \/ ForceExit
  BY <1>8, EndsHolds DEF BootFails, Exit, ForceExit
<1>9. CASE UNCHANGED opVars
  BY <1>9, ProcessHolds DEF opVars, dataVars
<1> QED
  BY <1>1, <1>2, <1>3, <1>4, <1>5, <1>6, <1>7, <1>8, <1>9 DEF OpNext, Step

\* Whatever is placed, filled, spoilt or cannot be read while a reconciliation run reads, one
\* statement after the other, its failures are real, broken or late, and each defect there was
\* when it began fails its check, unless its trade was older than lookbackMinutes then, or
\* more trades or orders are newer than it takes.
THEOREM VerdictsHold == OpSpec => []VerdictsAreRight
<1>1. OpsInv => VerdictsAreRight
  BY DEF OpsInv, RunInv, Seen, Covers, Real, VerdictsAreRight
<1> QED
  BY <1>1, OpsInvNext, OpsInvInit, PTL DEF OpSpec

\* The steps of a run leave the process alone, and begin no run.
LEMMA ReconcileKeepsProcess ==
    ASSUME NEW r \in Runs, Reconcile(r)
    PROVE  /\ DOMAIN stage' = DOMAIN stage
           /\ \A s \in DOMAIN stage : stage'[s] = "checking" => stage[s] = "checking"
           /\ UNCHANGED <<origin, shuttingDown, worker, startedLate>>
<1>1. CASE \/ ReadTrades(r) \/ ReadSettlements(r) \/ ReadOrders(r) \/ ReadFills(r)
           \/ \E q \in Statements : Sum(r, q) \/ QueryFails(r, q)
  <2>1. UNCHANGED <<processVars, stage, origin>>
    BY <1>1 DEF ReadTrades, ReadSettlements, ReadOrders, ReadFills, Sum,
                Answered, QueryFails
  <2> QED
    BY <2>1 DEF processVars
<1>2. CASE Conclude(r) \/ Note(r) \/ AlertEnds(r)
  <2>1. /\ DOMAIN stage' = DOMAIN stage
        /\ \A s \in DOMAIN stage : stage'[s] = "checking" => stage[s] = "checking"
    BY <1>2 DEF Conclude, Note, AlertEnds
  <2>2. UNCHANGED <<processVars, origin>>
    BY <1>2 DEF Conclude, Note, AlertEnds
  <2> QED
    BY <2>1, <2>2 DEF processVars
<1> QED
  BY <1>1, <1>2 DEF Reconcile

\* After a signal the worker is stopped, unless it was started after it.
StopInv == DOMAIN stage = Runs /\ DOMAIN origin = Runs /\ (shuttingDown => ~worker \/ startedLate)

\* No signal has come.
LEMMA StopInit == OpInit => StopInv
  BY DEF OpInit, StopInv

\* No step starts the worker after a signal but the one that says so.
LEMMA StopNext == StopInv /\ [OpNext]_opVars => StopInv'
<1> SUFFICES ASSUME StopInv, [OpNext]_opVars PROVE StopInv'
  OBVIOUS
<1>1. ASSUME NEW o \in OrderIds, Place(o) PROVE StopInv'
  BY <1>1 DEF StopInv, Place, processVars, runVars
<1>2. ASSUME NEW o \in OrderIds, NEW settles \in BOOLEAN, NEW marks \in BOOLEAN,
             Fill(o, settles, marks)
      PROVE  StopInv'
  BY <1>2 DEF StopInv, Fill, processVars
<1>3. ASSUME NEW check \in {"GLOBAL_BALANCE", "NON_NEGATIVE_BALANCES"}, Spoil(check)
      PROVE  StopInv'
  BY <1>3 DEF StopInv, Spoil, processVars, runVars
<1>4. ASSUME NEW r \in Runs, Boot(r) \/ Tick(r) \/ Ask(r) PROVE StopInv'
  BY <1>4 DEF StopInv, Boot, Tick, Ask, Begins, processVars
<1>5. ASSUME NEW r \in Runs, Reconcile(r) PROVE StopInv'
  <2>1. /\ DOMAIN stage' = DOMAIN stage
        /\ UNCHANGED <<origin, shuttingDown, worker, startedLate>>
    BY <1>5, ReconcileKeepsProcess
  <2> QED
    BY <2>1 DEF StopInv
<1>6. ASSUME NEW x \in Streams, Connect(x) \/ Leave(x) PROVE StopInv'
  BY <1>6 DEF StopInv, Connect, Leave, runVars
<1>7. CASE Signal \/ Closed \/ Age
  BY <1>7 DEF StopInv, Signal, Closed, Age, runVars, processVars
<1>8. CASE BootFails \/ Exit \/ ForceExit
  BY <1>8 DEF StopInv, BootFails, Exit, ForceExit, Ends
<1>9. CASE UNCHANGED opVars
  BY <1>9 DEF StopInv, opVars, processVars, runVars
<1> QED
  BY <1>1, <1>2, <1>3, <1>4, <1>5, <1>6, <1>7, <1>8, <1>9 DEF OpNext, Step

\* A step after which a run is checking that was not before.
LEMMA BeginningsAreAllowed ==
    ASSUME StopInv, [OpNext]_opVars, NEW s \in Runs, shuttingDown,
           stage[s] # "checking", stage'[s] = "checking"
    PROVE  origin'[s] = "ADMIN" \/ startedLate'
<1>1. ASSUME NEW o \in OrderIds, Place(o) PROVE FALSE
  BY <1>1 DEF Place, runVars
<1>2. ASSUME NEW o \in OrderIds, NEW settles \in BOOLEAN, NEW marks \in BOOLEAN,
             Fill(o, settles, marks)
      PROVE  FALSE
  BY <1>2 DEF Fill
<1>3. ASSUME NEW check \in {"GLOBAL_BALANCE", "NON_NEGATIVE_BALANCES"}, Spoil(check)
      PROVE  FALSE
  BY <1>3 DEF Spoil, runVars
<1>4. ASSUME NEW r \in Runs, Boot(r) \/ Tick(r) \/ Ask(r)
      PROVE  origin'[s] = "ADMIN" \/ startedLate'
  <2>1. CASE Boot(r)
    BY <2>1 DEF Boot
  <2>2. CASE Tick(r)
    BY <2>2 DEF StopInv, Tick, processVars
  <2>3. CASE Ask(r)
    <3>1. s = r
      BY <2>3 DEF StopInv, Ask, Begins
    <3> QED
      BY <2>3, <3>1 DEF StopInv, Ask, Begins
  <2> QED
    BY <1>4, <2>1, <2>2, <2>3
<1>5. ASSUME NEW r \in Runs, Reconcile(r) PROVE FALSE
  BY <1>5, ReconcileKeepsProcess DEF StopInv
<1>6. ASSUME NEW x \in Streams, Connect(x) \/ Leave(x) PROVE FALSE
  BY <1>6 DEF Connect, Leave, runVars
<1>7. CASE Signal \/ Closed \/ Age
  BY <1>7 DEF Signal, Closed, Age, runVars
<1>8. CASE BootFails \/ Exit \/ ForceExit
  BY <1>8 DEF BootFails, Exit, ForceExit, Ends
<1>9. CASE UNCHANGED opVars
  BY <1>9 DEF opVars, runVars
<1> QED
  BY <1>1, <1>2, <1>3, <1>4, <1>5, <1>6, <1>7, <1>8, <1>9 DEF OpNext, Step

\* After a signal no reconciliation run begins but at an administrator's request, unless the
\* worker was started only after the signal.
THEOREM NoRunBegins == OpSpec => NoRunAfterStop
<1>1. StopInv /\ [OpNext]_opVars
        => [\A r \in Runs :
               shuttingDown /\ stage[r] # "checking" /\ stage'[r] = "checking"
                   => origin'[r] = "ADMIN" \/ startedLate']_opVars
  BY BeginningsAreAllowed
<1> QED
  BY <1>1, StopInit, StopNext, PTL DEF OpSpec, NoRunAfterStop
=============================================================================
