----------------------- MODULE InMemoryMatcherProofs ------------------------
(***************************************************************************)
(* What is proved of InMemoryMatcher, for any number of clients, orders,   *)
(* prices and quantities: the requests never stand still, the book never   *)
(* rests crossed, and no unit of an order is offered twice.                *)
(*                                                                         *)
(* All three rest on one invariant, IInv, of the tables, the transactions  *)
(* and the lane.  The last two also need to know what the walk over the    *)
(* book takes: WalkTakes and WalkDrains, proved by induction over the      *)
(* makers in the order in which the walk meets them.                       *)
(***************************************************************************)
EXTENDS InMemoryMatcherProperties, FiniteSetTheorems, WellFoundedInduction,
        SequenceTheorems, TLAPS

\* A set of subsets that holds whenever it holds for everything smaller has them all.
LEMMA SmallerFirst ==
    ASSUME NEW S, IsFiniteSet(S), NEW Good,
           \A T \in SUBSET S : (\A U \in SUBSET T : U # T => U \in Good) => T \in Good
    PROVE  \A T \in SUBSET S : T \in Good
<1> DEFINE Bad == {T \in SUBSET S : T \notin Good}
<1>1. SUFFICES ASSUME Bad # {} PROVE FALSE
  OBVIOUS
<1>2. IsWellFoundedOn(StrictSubsetOrdering(S), FiniteSubsetsOf(S))
  BY FS_StrictSubsetOrderingWellFounded
<1>3. Bad \subseteq FiniteSubsetsOf(S)
  BY FS_FiniteSubsetsOfFinite
<1>4. PICK T \in Bad : \A U \in Bad : ~(<<U, T>> \in StrictSubsetOrdering(S))
  <2> HIDE DEF Bad
  <2> QED
    BY <1>1, <1>2, <1>3, WFMin
<1>5. \A U \in SUBSET T : U # T => <<U, T>> \in StrictSubsetOrdering(S)
  BY DEF StrictSubsetOrdering
<1>6. ASSUME NEW U \in SUBSET T, U # T PROVE U \in Good
  <2>1. U \notin Bad
    BY <1>4, <1>5, <1>6
  <2>2. U \in SUBSET S
    BY <1>4
  <2> QED
    BY <2>1, <2>2
<1>7. T \in SUBSET S /\ T \notin Good
  BY <1>4
<1> QED
  BY <1>6, <1>7

\* Induction over the subsets of a finite set, one element at a time.
LEMMA OneByOne ==
    ASSUME NEW S, IsFiniteSet(S), NEW Good, {} \in Good,
           \A T \in SUBSET S : \A x \in S \ T : T \in Good => T \cup {x} \in Good
    PROVE  S \in Good
<1>1. ASSUME NEW T \in SUBSET S, \A U \in SUBSET T : U # T => U \in Good
      PROVE  T \in Good
  <2>1. CASE T = {}
    BY <2>1
  <2>2. CASE T # {}
    <3>1. PICK x \in T : TRUE
      BY <2>2
    <3>2. T \ {x} \in Good /\ T \ {x} \in SUBSET S /\ x \in S \ (T \ {x})
      BY <1>1
    <3>3. T = (T \ {x}) \cup {x}
      OBVIOUS
    <3> QED
      BY <3>2, <3>3
  <2> QED
    BY <2>1, <2>2
<1> QED
  BY <1>1, SmallerFirst

-----------------------------------------------------------------------------

Pick(s) == CHOOSE x \in s : TRUE

\* it holds the sums of f over all subsets of T.
IsSums(f, T, it) ==
    it = [s \in SUBSET T |-> IF s = {} THEN 0 ELSE f[Pick(s)] + it[s \ {Pick(s)}]]

\* What is picked is in the set.
LEMMA PickIsIn == ASSUME NEW s, s # {} PROVE Pick(s) \in s
  BY DEF Pick

\* There is one such function at most.
LEMMA SumsAgree ==
    ASSUME NEW f, NEW S, NEW T, NEW U, IsFiniteSet(S), S \subseteq T, S \subseteq U,
           NEW it, IsSums(f, T, it), NEW jt, IsSums(f, U, jt)
    PROVE  it[S] = jt[S]
<1> DEFINE Good == {s \in SUBSET S : it[s] = jt[s]}
<1>1. ASSUME NEW s \in SUBSET S, \A u \in SUBSET s : u # s => u \in Good
      PROVE  s \in Good
  <2>1. it[s] = IF s = {} THEN 0 ELSE f[Pick(s)] + it[s \ {Pick(s)}]
    <3>1. s \in SUBSET T
      OBVIOUS
    <3> QED
      BY <3>1 DEF IsSums
  <2>2. jt[s] = IF s = {} THEN 0 ELSE f[Pick(s)] + jt[s \ {Pick(s)}]
    <3>1. s \in SUBSET U
      OBVIOUS
    <3> QED
      BY <3>1 DEF IsSums
  <2>3. s # {} => s \ {Pick(s)} \in Good
    BY <1>1, PickIsIn
  <2> QED
    BY <2>1, <2>2, <2>3
<1> HIDE DEF Good
<1>2. S \in Good
  BY <1>1, SmallerFirst
<1> QED
  BY <1>2 DEF Good

\* And there is one.
LEMMA SumsExist ==
    ASSUME NEW f, NEW S, IsFiniteSet(S)
    PROVE  \E it : IsSums(f, S, it)
<1> DEFINE Good == {T \in SUBSET S : \E it : IsSums(f, T, it)}
           G(T) == CHOOSE it : IsSums(f, T, it)
<1>1. ASSUME NEW T \in SUBSET S, \A U \in SUBSET T : U # T => U \in Good
      PROVE  T \in Good
  <2> DEFINE it == [s \in SUBSET T |->
                       IF s = {} THEN 0
                       ELSE f[Pick(s)] + G(s \ {Pick(s)})[s \ {Pick(s)}]]
  <2>1. \A U \in SUBSET T : U # T => IsSums(f, U, G(U))
    BY <1>1
  <2>2. ASSUME NEW U \in SUBSET T, U # T PROVE it[U] = G(U)[U]
    <3>1. IsSums(f, U, G(U))
      BY <2>1, <2>2
    <3>2. G(U)[U] = IF U = {} THEN 0 ELSE f[Pick(U)] + G(U)[U \ {Pick(U)}]
      <4> HIDE DEF G
      <4> QED
        BY <3>1 DEF IsSums
    <3>3. CASE U # {}
      <4> DEFINE V == U \ {Pick(U)}
      <4>1. V \in SUBSET U /\ V \in SUBSET T /\ V # T
        BY <3>3, PickIsIn
      <4>2. IsSums(f, V, G(V))
        BY <2>1, <4>1
      <4>3. IsFiniteSet(V)
        BY <4>1, FS_Subset
      <4>4. G(U)[V] = G(V)[V]
        <5> HIDE DEF G, V
        <5> QED
          BY <3>1, <4>1, <4>2, <4>3, SumsAgree
      <4> QED
        BY <3>2, <3>3, <4>4
    <3>4. CASE U = {}
      BY <3>2, <3>4
    <3> QED
      BY <3>3, <3>4
  <2>3. \A s \in SUBSET T : s # {} => s \ {Pick(s)} \in SUBSET T /\ s \ {Pick(s)} # T
    BY PickIsIn
  <2>4. it = [s \in SUBSET T |-> IF s = {} THEN 0 ELSE f[Pick(s)] + it[s \ {Pick(s)}]]
    <3>1. \A s \in SUBSET T : it[s] = IF s = {} THEN 0 ELSE f[Pick(s)] + it[s \ {Pick(s)}]
      <4> SUFFICES ASSUME NEW s \in SUBSET T
                   PROVE  it[s] = IF s = {} THEN 0 ELSE f[Pick(s)] + it[s \ {Pick(s)}]
        OBVIOUS
      <4> DEFINE v == s \ {Pick(s)}
      <4>1. it[s] = IF s = {} THEN 0 ELSE f[Pick(s)] + G(v)[v]
        OBVIOUS
      <4>2. s # {} => it[v] = G(v)[v]
        BY <2>2, <2>3
      <4> HIDE DEF it, G, v
      <4>3. it[s] = IF s = {} THEN 0 ELSE f[Pick(s)] + it[v]
        BY <4>1, <4>2
      <4> QED
        BY <4>3 DEF v
    <3> DEFINE E(s) == IF s = {} THEN 0
                       ELSE f[Pick(s)] + G(s \ {Pick(s)})[s \ {Pick(s)}]
               F(s) == IF s = {} THEN 0 ELSE f[Pick(s)] + it[s \ {Pick(s)}]
    <3>2. \A s \in SUBSET T : E(s) = F(s)
      BY <3>1
    <3> QED
      <4> HIDE DEF E, F
      <4>1. [s \in SUBSET T |-> E(s)] = [s \in SUBSET T |-> F(s)]
        BY <3>2
      <4> QED
        BY <4>1 DEF E, F
  <2>5. IsSums(f, T, it)
    BY <2>4 DEF IsSums
  <2> QED
    <3> HIDE DEF it
    <3> QED
      BY <2>5
<1>2. S \in Good
  <2> HIDE DEF Good
  <2> QED
    BY <1>1, SmallerFirst
<1> QED
  BY <1>2

\* Any function of that kind has the sum.
LEMMA SumIs ==
    ASSUME NEW f, NEW S, NEW T, IsFiniteSet(S), S \subseteq T, NEW it, IsSums(f, T, it)
    PROVE  Sum(f, S) = it[S]
<1> DEFINE G == CHOOSE jt : IsSums(f, S, jt)
<1>1. IsSums(f, S, G)
  BY SumsExist
<1>2. Sum(f, S) = G[S]
  BY DEF Sum, MapThenSumSet, MapThenFoldSet, IsSums, Pick
<1> QED
  <2> HIDE DEF G
  <2>1. S \subseteq S
    OBVIOUS
  <2>2. G[S] = it[S]
    BY <1>1, <2>1, SumsAgree
  <2> QED
    BY <1>2, <2>2

\* The sum of nothing, and of a set of which one element is picked first.
LEMMA SumUnfolds ==
    ASSUME NEW f, NEW S, IsFiniteSet(S)
    PROVE  Sum(f, S) = IF S = {} THEN 0 ELSE f[Pick(S)] + Sum(f, S \ {Pick(S)})
<1>1. PICK it : IsSums(f, S, it)
  BY SumsExist
<1>2. S \in SUBSET S
  OBVIOUS
<1>3. it[S] = IF S = {} THEN 0 ELSE f[Pick(S)] + it[S \ {Pick(S)}]
  BY <1>1, <1>2 DEF IsSums
<1>4. Sum(f, S) = it[S]
  BY <1>1, <1>2, SumIs
<1>5. Sum(f, S \ {Pick(S)}) = it[S \ {Pick(S)}]
  <2>1. IsFiniteSet(S \ {Pick(S)}) /\ S \ {Pick(S)} \subseteq S
    BY FS_Subset
  <2> QED
    BY <1>1, <2>1, SumIs
<1> QED
  BY <1>3, <1>4, <1>5

\* Integers add up to an integer.
LEMMA SumIsInt ==
    ASSUME NEW S, IsFiniteSet(S), NEW f, \A x \in S : f[x] \in Int
    PROVE  Sum(f, S) \in Int
<1> DEFINE Good == {T \in SUBSET S : Sum(f, T) \in Int}
<1>1. ASSUME NEW T \in SUBSET S, \A U \in SUBSET T : U # T => U \in Good
      PROVE  T \in Good
  <2>1. Sum(f, T) = IF T = {} THEN 0 ELSE f[Pick(T)] + Sum(f, T \ {Pick(T)})
    BY FS_Subset, SumUnfolds
  <2>2. T # {} => Pick(T) \in T /\ T \ {Pick(T)} \in Good
    BY <1>1, PickIsIn
  <2> QED
    BY <2>1, <2>2
<1> HIDE DEF Good
<1>2. S \in Good
  BY <1>1, SmallerFirst
<1> QED
  BY <1>2 DEF Good

\* Any element may be taken out first.
LEMMA SumTakesOut ==
    ASSUME NEW S, IsFiniteSet(S), NEW f, \A x \in S : f[x] \in Int, NEW x \in S
    PROVE  Sum(f, S) = f[x] + Sum(f, S \ {x})
<1> DEFINE Good == {T \in SUBSET S : \A y \in T : Sum(f, T) = f[y] + Sum(f, T \ {y})}
<1>1. ASSUME NEW T \in SUBSET S, \A U \in SUBSET T : U # T => U \in Good
      PROVE  T \in Good
  <2> SUFFICES ASSUME NEW y \in T PROVE Sum(f, T) = f[y] + Sum(f, T \ {y})
    OBVIOUS
  <2> DEFINE p == Pick(T)
  <2>0. p \in T /\ IsFiniteSet(T) /\ IsFiniteSet(T \ {p}) /\ IsFiniteSet(T \ {y, p})
    BY PickIsIn, FS_Subset
  <2>1. Sum(f, T) = f[p] + Sum(f, T \ {p})
    BY <2>0, SumUnfolds
  <2>2. CASE y # p
    <3>1. T \ {p} \in Good /\ T \ {y} \in Good
      BY <1>1, <2>0
    <3>2. Sum(f, T \ {p}) = f[y] + Sum(f, (T \ {p}) \ {y})
      BY <2>0, <2>2, <3>1
    <3>3. Sum(f, T \ {y}) = f[p] + Sum(f, (T \ {y}) \ {p})
      BY <2>0, <2>2, <3>1
    <3>4. (T \ {p}) \ {y} = T \ {y, p} /\ (T \ {y}) \ {p} = T \ {y, p}
      OBVIOUS
    <3>5. Sum(f, T \ {y, p}) \in Int
      BY <2>0, SumIsInt
    <3>6. f[y] \in Int /\ f[p] \in Int
      BY <2>0
    <3>7. Sum(f, T \ {p}) = f[y] + Sum(f, T \ {y, p})
      BY <3>2, <3>4
    <3>8. Sum(f, T \ {y}) = f[p] + Sum(f, T \ {y, p})
      BY <3>3, <3>4
    <3> QED
      BY <2>1, <3>5, <3>6, <3>7, <3>8
  <2>3. CASE y = p
    BY <2>1, <2>3
  <2> QED
    BY <2>2, <2>3
<1> HIDE DEF Good
<1>2. S \in Good
  BY <1>1, SmallerFirst
<1> QED
  BY <1>2 DEF Good

\* The sum over nothing, and over one element more.
LEMMA SumOfNone == ASSUME NEW f PROVE Sum(f, {}) = 0
  BY FS_EmptySet, SumUnfolds

\* One more element adds its own value.
LEMMA SumAdds ==
    ASSUME NEW S, IsFiniteSet(S), NEW x, x \notin S, NEW f,
           \A y \in S \cup {x} : f[y] \in Int
    PROVE  Sum(f, S \cup {x}) = f[x] + Sum(f, S)
<1>1. IsFiniteSet(S \cup {x}) /\ (S \cup {x}) \ {x} = S
  BY FS_AddElement
<1> QED
  BY <1>1, SumTakesOut

\* Only the summands matter.
LEMMA SumOfSame ==
    ASSUME NEW S, IsFiniteSet(S), NEW f, NEW g, \A x \in S : f[x] = g[x]
    PROVE  Sum(f, S) = Sum(g, S)
<1> DEFINE Good == {T \in SUBSET S : Sum(f, T) = Sum(g, T)}
<1>1. ASSUME NEW T \in SUBSET S, \A U \in SUBSET T : U # T => U \in Good
      PROVE  T \in Good
  <2>1. /\ Sum(f, T) = IF T = {} THEN 0 ELSE f[Pick(T)] + Sum(f, T \ {Pick(T)})
        /\ Sum(g, T) = IF T = {} THEN 0 ELSE g[Pick(T)] + Sum(g, T \ {Pick(T)})
    BY FS_Subset, SumUnfolds
  <2>2. T # {} => Pick(T) \in T /\ T \ {Pick(T)} \in Good
    BY <1>1, PickIsIn
  <2> QED
    BY <2>1, <2>2
<1> HIDE DEF Good
<1>2. S \in Good
  BY <1>1, SmallerFirst
<1> QED
  BY <1>2 DEF Good

\* Sums may be added term by term.
LEMMA SumOfTwo ==
    ASSUME NEW S, IsFiniteSet(S), NEW f, NEW g, NEW h,
           \A x \in S : f[x] \in Int /\ g[x] \in Int /\ h[x] = f[x] + g[x]
    PROVE  Sum(h, S) = Sum(f, S) + Sum(g, S)
<1> DEFINE Good == {T \in SUBSET S : Sum(h, T) = Sum(f, T) + Sum(g, T)}
<1>1. {} \in Good
  BY SumOfNone
<1>2. ASSUME NEW T \in SUBSET S, NEW x \in S \ T, T \in Good
      PROVE  T \cup {x} \in Good
  <2>0. IsFiniteSet(T) /\ \A y \in T \cup {x} : h[y] \in Int
    BY FS_Subset
  <2>1. /\ Sum(h, T \cup {x}) = h[x] + Sum(h, T)
        /\ Sum(f, T \cup {x}) = f[x] + Sum(f, T)
        /\ Sum(g, T \cup {x}) = g[x] + Sum(g, T)
    BY <2>0, SumAdds
  <2>2. Sum(f, T) \in Int /\ Sum(g, T) \in Int
    BY <2>0, SumIsInt
  <2> QED
    BY <1>2, <2>1, <2>2
<1> HIDE DEF Good
<1>3. S \in Good
  BY <1>1, <1>2, OneByOne
<1> QED
  BY <1>3 DEF Good

\* A change of one summand changes the sum by as much.
LEMMA SumChanges ==
    ASSUME NEW S, IsFiniteSet(S), NEW f, NEW g, \A x \in S : f[x] \in Int, NEW y, NEW n \in Int,
           \A x \in S : g[x] = IF x = y THEN f[x] + n ELSE f[x]
    PROVE  Sum(g, S) = IF y \in S THEN Sum(f, S) + n ELSE Sum(f, S)
<1>1. CASE y \notin S
  BY <1>1, SumOfSame
<1>2. CASE y \in S
  <2>1. Sum(f, S) = f[y] + Sum(f, S \ {y})
    BY <1>2, SumTakesOut
  <2>2. Sum(g, S) = g[y] + Sum(g, S \ {y})
    <3>1. \A x \in S : g[x] \in Int
      OBVIOUS
    <3> QED
      BY <1>2, <3>1, SumTakesOut
  <2>3. IsFiniteSet(S \ {y})
    BY FS_Subset
  <2>4. Sum(f, S \ {y}) = Sum(g, S \ {y})
    BY <2>3, SumOfSame
  <2>5. Sum(f, S \ {y}) \in Int /\ f[y] \in Int /\ g[y] = f[y] + n
    BY <1>2, <2>3, SumIsInt
  <2> QED
    BY <1>2, <2>1, <2>2, <2>4, <2>5
<1> QED
  BY <1>1, <1>2

\* A sum of naturals is a natural, and zero only if they all are.
LEMMA SumIsNat ==
    ASSUME NEW S, IsFiniteSet(S), NEW f, \A x \in S : f[x] \in Nat
    PROVE  Sum(f, S) \in Nat
<1> DEFINE Good == {T \in SUBSET S : Sum(f, T) \in Nat}
<1>1. ASSUME NEW T \in SUBSET S, \A U \in SUBSET T : U # T => U \in Good
      PROVE  T \in Good
  <2>1. Sum(f, T) = IF T = {} THEN 0 ELSE f[Pick(T)] + Sum(f, T \ {Pick(T)})
    BY FS_Subset, SumUnfolds
  <2>2. T # {} => Pick(T) \in T /\ T \ {Pick(T)} \in Good
    BY <1>1, PickIsIn
  <2> QED
    BY <2>1, <2>2
<1> HIDE DEF Good
<1>2. S \in Good
  BY <1>1, SmallerFirst
<1> QED
  BY <1>2 DEF Good

\* None of some naturals is more than their sum.
LEMMA SumCovers ==
    ASSUME NEW S, IsFiniteSet(S), NEW f, \A x \in S : f[x] \in Nat, NEW x \in S
    PROVE  f[x] =< Sum(f, S)
<1>1. Sum(f, S) = f[x] + Sum(f, S \ {x})
  BY SumTakesOut
<1>2. IsFiniteSet(S \ {x})
  BY FS_Subset
<1>3. Sum(f, S \ {x}) \in Nat
  BY <1>2, SumIsNat
<1> QED
  BY <1>1, <1>3

\* Zeros may be left out.
LEMMA SumOfZeros ==
    ASSUME NEW S, IsFiniteSet(S), NEW T \in SUBSET S, NEW f, \A x \in S : f[x] \in Int,
           \A x \in S \ T : f[x] = 0
    PROVE  Sum(f, S) = Sum(f, T)
<1> DEFINE Good == {U \in SUBSET (S \ T) : Sum(f, T \cup U) = Sum(f, T)}
<1>0. IsFiniteSet(T) /\ IsFiniteSet(S \ T)
  BY FS_Subset
<1>1. {} \in Good
  <2>1. T \cup {} = T
    OBVIOUS
  <2> QED
    BY <2>1
<1>2. ASSUME NEW U \in SUBSET (S \ T), NEW x \in (S \ T) \ U, U \in Good
      PROVE  U \cup {x} \in Good
  <2>1. IsFiniteSet(T \cup U) /\ x \notin T \cup U
    BY FS_Subset
  <2>2. \A y \in (T \cup U) \cup {x} : f[y] \in Int
    OBVIOUS
  <2>3. Sum(f, (T \cup U) \cup {x}) = f[x] + Sum(f, T \cup U)
    BY <2>1, <2>2, SumAdds
  <2>4. (T \cup U) \cup {x} = T \cup (U \cup {x})
    OBVIOUS
  <2>5. Sum(f, T \cup U) = Sum(f, T) /\ Sum(f, T) \in Int /\ f[x] = 0
    BY <1>0, <1>2, SumIsInt
  <2>6. \A n \in Int : 0 + n = n
    OBVIOUS
  <2>7. Sum(f, T \cup (U \cup {x})) = Sum(f, T)
    BY <2>3, <2>4, <2>5, <2>6
  <2> QED
    BY <2>7
<1>3. S \ T \in Good
  <2> HIDE DEF Good
  <2> QED
    BY <1>0, <1>1, <1>2, OneByOne
<1>4. T \cup (S \ T) = S
  OBVIOUS
<1> QED
  BY <1>3, <1>4

\* The steps of a task that has matched and has its fills to settle.
OnLane == {"fill", "settle", "syncRead", "syncWrite", "cancelRest"}

Steps == {"idle", "match", "queued", "commit", "releaseHold", "cancelWrite"} \cup OnLane

Submitting(c) == req[c].kind = "submit"

RequestType ==
    [kind : {"none", "submit", "cancel"}, id : Nat, bps : Nat, makers : {{}},
     remaining : Nat, buy : Nat, sell : Nat, qty : Nat, price : Nat,
     sync : Side, next : Status \cup {"NONE"}]

RowOrNone == Core!OrderRow \cup {NoOrder}

Types ==
    /\ nextId \in Nat \ {0}
    /\ order \in [Ids -> RowOrNone]
    /\ status \in [Ids -> Status \cup {"NONE"}]
    /\ executed \in [Ids -> Nat]
    /\ pc \in [Clients -> Steps]
    /\ req \in [Clients -> RequestType]
    /\ dExec \in [Clients -> [Ids -> Nat]]
    /\ wStatus \in [Clients -> [Ids -> Status \cup {"NONE"}]]
    /\ book \in [Ids -> Nat]
    /\ known \in [Ids -> RowOrNone]
    /\ fills \in [Clients -> [Ids -> Nat]]

\* Rows are of orders that have been handed out, trades are of rows, and what the book has
\* never been given is not in it.
RowsInv ==
    \A o \in Ids :
        /\ IF status[o] = "NONE" THEN executed[o] = 0 ELSE order[o] # NoOrder
        /\ o >= nextId => order[o] = NoOrder /\ known[o] = NoOrder
        /\ known[o] = NoOrder => book[o] = 0

\* The steps each kind of request goes through.
PhaseInv(c) ==
    /\ req[c].kind = "none" => pc[c] = "idle"
    /\ Submitting(c) => pc[c] \in {"match", "queued"} \cup OnLane \cup {"commit"}
    /\ req[c].kind = "cancel" => pc[c] \in {"releaseHold", "cancelWrite", "commit"}

\* The order of a submission is seen by nobody, that of a cancel is a row.
OwnRowInv(c) ==
    /\ Submitting(c) =>
           /\ req[c].id \in Ids /\ req[c].id < nextId
           /\ order[req[c].id] # NoOrder /\ status[req[c].id] = "NONE"
           /\ pc[c] \in {"match", "queued"} => known[req[c].id] = NoOrder
    /\ req[c].kind = "cancel" => req[c].id \in Ids /\ status[req[c].id] # "NONE"

\* The rows that a transaction may write: committed ones and its own.
Writable(c, o) == o \in Ids /\ (status[o] # "NONE" \/ (Submitting(c) /\ o = req[c].id))

\* Only a task that has matched has something to trade, and only with what was in the book.
TradesInv(c) ==
    /\ ~Submitting(c) \/ pc[c] \in {"match", "queued"} =>
           \A o \in Ids : fills[c][o] = 0 /\ dExec[c][o] = 0
    /\ pc[c] \in {"cancelRest", "commit"} => \A o \in Ids : fills[c][o] = 0
    /\ \A o \in Ids : fills[c][o] > 0 => known[o] # NoOrder /\ o # req[c].id
    /\ \A o \in Ids : dExec[c][o] > 0 => Writable(c, o)

\* What a transaction settles and updates it may write; its own row is there from the start.
\* Cancels update their row last.
WritesInv(c) ==
    /\ Submitting(c) => wStatus[c][req[c].id] # "NONE"
    /\ pc[c] = "syncWrite" => req[c].next # "NONE"
    /\ pc[c] \in {"settle", "syncRead", "syncWrite"} =>
           Writable(c, req[c].buy) /\ Writable(c, req[c].sell)
    /\ \A o \in Ids : wStatus[c][o] # "NONE" =>
           /\ Writable(c, o)
           /\ pc[c] \in {"match", "queued"} => o = req[c].id
           /\ ~Submitting(c) => pc[c] = "commit"

\* A client is on the lane once at most, from the moment it is handed in, and at its
\* head from the moment it has matched.
LaneInv ==
    /\ lane \in Seq(Clients)
    /\ \A i, j \in 1..Len(lane) : lane[i] = lane[j] => i = j
    /\ \A i \in 1..Len(lane) : pc[lane[i]] \in {"queued", "commit"} \cup OnLane
    /\ \A c \in Clients :
           /\ pc[c] = "queued" => \E i \in 1..Len(lane) : lane[i] = c
           /\ pc[c] \in OnLane => Len(lane) > 0 /\ lane[1] = c

DistinctInv ==
    \A c, d \in Clients : Submitting(c) /\ Submitting(d) /\ c # d => req[c].id # req[d].id

ClientInv(c) == PhaseInv(c) /\ OwnRowInv(c) /\ TradesInv(c) /\ WritesInv(c)

IInv == Types /\ RowsInv /\ LaneInv /\ DistinctInv /\ \A c \in Clients : ClientInv(c)

USE DEF Ids

\* Order ids are positive.
LEMMA IdsAreNats == Ids \subseteq Nat \ {0}
  BY MatcherAssumption DEF Core!Ids

\* What the rows of orders hold, and that none is the missing row.
LEMMA RowsAreRows ==
    ASSUME NEW row \in Core!OrderRow
    PROVE  /\ row # NoOrder /\ row.price \in Nat \ {0} /\ row.qty \in Nat \ {0}
           /\ row.side \in Side /\ row.tif \in TimeInForce
<1>1. row # NoOrder
  BY MatcherAssumption
<1>2. row.price \in Prices /\ row.qty \in Qtys /\ row.side \in Side /\ row.tif \in Tifs
  BY DEF Core!OrderRow, Core!Side, Side
<1> QED
  BY <1>1, <1>2, MatcherAssumption

\* The invariant holds before the first request.
LEMMA InitIInv == Init => IInv
<1> SUFFICES ASSUME Init PROVE IInv
  OBVIOUS
<1> USE DEF Init, Core!Init, Core!NoRequest, Core!NoExec, Core!NoWrites, NoFills
<1>1. Types
  BY IdsAreNats DEF Types, RowOrNone, RequestType, Steps, Side, Status
<1>2. RowsInv
  BY DEF RowsInv
<1>3. LaneInv
  BY DEF LaneInv, OnLane
<1>4. DistinctInv
  BY DEF DistinctInv, Submitting
<1>5. ASSUME NEW c \in Clients PROVE ClientInv(c)
  BY <1>5 DEF ClientInv, PhaseInv, OwnRowInv, TradesInv, WritesInv, Submitting, Writable
<1> QED
  BY <1>1, <1>2, <1>3, <1>4, <1>5 DEF IInv

-----------------------------------------------------------------------------
\* What leaves the lane leaves the others in their order.
LEMMA LaneShrinks ==
    ASSUME NEW c \in Clients, lane \in Seq(Clients),
           \A i, j \in 1..Len(lane) : lane[i] = lane[j] => i = j
    PROVE  /\ LaneAfter(c) \in Seq(Clients)
           /\ \A i, j \in 1..Len(LaneAfter(c)) : LaneAfter(c)[i] = LaneAfter(c)[j] => i = j
           /\ \A i \in 1..Len(LaneAfter(c)) :
                  LaneAfter(c)[i] # c /\ \E j \in 1..Len(lane) : LaneAfter(c)[i] = lane[j]
           /\ \A j \in 1..Len(lane) : lane[j] # c =>
                  \E i \in 1..Len(LaneAfter(c)) : LaneAfter(c)[i] = lane[j]
           /\ Len(lane) > 0 /\ lane[1] # c =>
                  Len(LaneAfter(c)) > 0 /\ LaneAfter(c)[1] = lane[1]
<1>0. DOMAIN lane = 1..Len(lane) /\ Len(lane) \in Nat /\ \A i \in 1..Len(lane) : lane[i] \in Clients
  OBVIOUS
<1>1. CASE \A i \in 1..Len(lane) : lane[i] # c
  BY <1>0, <1>1 DEF LaneAfter
<1>2. CASE \E i \in 1..Len(lane) : lane[i] = c
  <2> DEFINE turn == CHOOSE i \in DOMAIN lane : lane[i] = c
  <2>1. turn \in 1..Len(lane) /\ lane[turn] = c
    BY <1>0, <1>2
  <2>2. LaneAfter(c) = SubSeq(lane, 1, turn - 1) \o SubSeq(lane, turn + 1, Len(lane))
    BY <1>0, <1>2 DEF LaneAfter
  <2> HIDE DEF turn
  <2> DEFINE first == SubSeq(lane, 1, turn - 1)
             last == SubSeq(lane, turn + 1, Len(lane))
  <2>3. /\ first \in Seq(Clients) /\ Len(first) = turn - 1
        /\ \A i \in 1..(turn - 1) : first[i] = lane[i]
    <3>1. turn - 1 \in Int /\ 1 \in Int /\ \A i \in 1..(turn - 1) : lane[i] \in Clients
      BY <1>0, <2>1
    <3> QED
      BY <1>0, <2>1, <3>1, SubSeqProperties
  <2>4. /\ last \in Seq(Clients) /\ Len(last) = Len(lane) - turn
        /\ \A i \in 1..(Len(lane) - turn) : last[i] = lane[turn + i]
    <3>1. /\ turn + 1 \in Int /\ Len(lane) \in Int
          /\ \A i \in (turn + 1)..Len(lane) : lane[i] \in Clients
      BY <1>0, <2>1
    <3>2. /\ last \in Seq(Clients)
          /\ Len(last) = IF turn + 1 =< Len(lane) THEN Len(lane) - (turn + 1) + 1 ELSE 0
          /\ \A i \in 1..(Len(lane) - (turn + 1) + 1) : last[i] = lane[turn + 1 + i - 1]
      BY <3>1, SubSeqProperties
    <3> HIDE DEF last
    <3>3. ASSUME NEW i \in 1..(Len(lane) - turn) PROVE last[i] = lane[turn + i]
      <4>1. i \in 1..(Len(lane) - (turn + 1) + 1) /\ turn + 1 + i - 1 = turn + i
        BY <1>0, <2>1
      <4> QED
        BY <3>2, <4>1
    <3>4. Len(last) = Len(lane) - turn
      <4>1. Len(lane) \in Nat /\ turn \in Nat /\ turn =< Len(lane)
        BY <1>0, <2>1
      <4>2. Len(last) = IF turn + 1 =< Len(lane) THEN Len(lane) - (turn + 1) + 1 ELSE 0
        BY <3>2
      <4> QED
        BY <4>1, <4>2
    <3> QED
      BY <3>2, <3>3, <3>4
  <2>5. /\ LaneAfter(c) \in Seq(Clients)
        /\ Len(LaneAfter(c)) = Len(lane) - 1
        /\ \A i \in 1..(Len(lane) - 1) :
               LaneAfter(c)[i] = IF i < turn THEN lane[i] ELSE lane[i + 1]
    <3> HIDE DEF first, last
    <3>1. /\ first \o last \in Seq(Clients)
          /\ Len(first \o last) = Len(first) + Len(last)
          /\ \A i \in 1..(Len(first) + Len(last)) :
                 (first \o last)[i] = IF i =< Len(first) THEN first[i] ELSE last[i - Len(first)]
      BY <2>3, <2>4, ConcatProperties
    <3>2. LaneAfter(c) = first \o last
      BY <2>2 DEF first, last
    <3>3. Len(first) + Len(last) = Len(lane) - 1 /\ Len(first) = turn - 1
      BY <1>0, <2>1, <2>3, <2>4
    <3>4. ASSUME NEW i \in 1..(Len(lane) - 1)
          PROVE  (first \o last)[i] = IF i < turn THEN lane[i] ELSE lane[i + 1]
      <4>1. (first \o last)[i] = IF i =< turn - 1 THEN first[i] ELSE last[i - (turn - 1)]
        BY <3>1, <3>3
      <4>2. CASE i < turn
        BY <1>0, <2>1, <2>3, <4>1, <4>2
      <4>3. CASE ~(i < turn)
        <5>1. i - (turn - 1) \in 1..(Len(lane) - turn) /\ turn + (i - (turn - 1)) = i + 1
          BY <1>0, <2>1, <4>3
        <5> QED
          BY <1>0, <2>1, <2>4, <4>1, <4>3, <5>1
      <4> QED
        BY <4>2, <4>3
    <3> QED
      BY <3>1, <3>2, <3>3, <3>4
  <2> DEFINE after == LaneAfter(c)
  <2> HIDE DEF first, last, after
  <2>6. /\ after \in Seq(Clients)
        /\ Len(after) = Len(lane) - 1
        /\ \A i \in 1..(Len(lane) - 1) :
               after[i] = IF i < turn THEN lane[i] ELSE lane[i + 1]
    BY <2>5 DEF after
  <2>7. \A i, j \in 1..Len(after) : after[i] = after[j] => i = j
    BY <1>0, <2>1, <2>6
  <2>8. \A i \in 1..Len(after) : after[i] # c /\ \E j \in 1..Len(lane) : after[i] = lane[j]
    <3>1. ASSUME NEW i \in 1..Len(after)
          PROVE  after[i] # c /\ \E j \in 1..Len(lane) : after[i] = lane[j]
      <4>1. CASE i < turn
        <5>1. i \in 1..Len(lane) /\ after[i] = lane[i] /\ i # turn
          BY <1>0, <2>1, <2>6, <3>1, <4>1
        <5> QED
          BY <2>1, <5>1
      <4>2. CASE ~(i < turn)
        <5>1. i + 1 \in 1..Len(lane) /\ after[i] = lane[i + 1] /\ i + 1 # turn
          BY <1>0, <2>1, <2>6, <3>1, <4>2
        <5> QED
          BY <2>1, <5>1
      <4> QED
        BY <4>1, <4>2
    <3> QED
      BY <3>1
  <2>9. \A j \in 1..Len(lane) : lane[j] # c => \E i \in 1..Len(after) : after[i] = lane[j]
    <3>1. ASSUME NEW j \in 1..Len(lane), lane[j] # c
          PROVE  \E i \in 1..Len(after) : after[i] = lane[j]
      <4>1. CASE j < turn
        <5>1. j \in 1..Len(after) /\ after[j] = lane[j]
          BY <1>0, <2>1, <2>6, <3>1, <4>1
        <5> QED
          BY <5>1
      <4>2. CASE ~(j < turn)
        <5>1. j - 1 \in 1..Len(after) /\ after[j - 1] = lane[j]
          BY <1>0, <2>1, <2>6, <3>1, <4>2
        <5> QED
          BY <5>1
      <4> QED
        BY <4>1, <4>2
    <3> QED
      BY <3>1
  <2>10. Len(lane) > 0 /\ lane[1] # c => Len(after) > 0 /\ after[1] = lane[1]
    BY <1>0, <2>1, <2>6
  <2> QED
    BY <2>6, <2>7, <2>8, <2>9, <2>10 DEF after
<1> QED
  BY <1>1, <1>2

\* What one client does leaves the others' part of the invariant as it is, if it writes
\* committed rows and its own only.
LEMMA OthersKeep ==
    ASSUME IInv, NEW c \in Clients, NEW d \in Clients, d # c,
           pc'[d] = pc[d], req'[d] = req[d], dExec'[d] = dExec[d],
           wStatus'[d] = wStatus[d], fills'[d] = fills[d],
           nextId' \in Nat, nextId' >= nextId,
           \A o \in Ids :
               /\ status'[o] = status[o] \/ (Writable(c, o) /\ status'[o] # "NONE")
               /\ order[o] # NoOrder /\ ~(Submitting(c) /\ o = req[c].id) => order'[o] # NoOrder
               /\ known'[o] = known[o]
                  \/ (Submitting(c) /\ o = req[c].id /\ known'[o] # NoOrder)
    PROVE  ClientInv(d)'
<1>0. /\ PhaseInv(d) /\ OwnRowInv(d) /\ TradesInv(d) /\ WritesInv(d)
      /\ Submitting(c) /\ Submitting(d) => req[c].id # req[d].id
      /\ nextId \in Nat /\ req[d].id \in Nat
  BY DEF IInv, ClientInv, DistinctInv, Types, RequestType
<1>1. Submitting(d)' <=> Submitting(d)
  BY DEF Submitting
<1>2. PhaseInv(d)'
  BY <1>0, <1>1 DEF PhaseInv
<1>3. OwnRowInv(d)'
  BY <1>0, <1>1 DEF OwnRowInv, Writable
<1>5. ASSUME NEW o, Writable(d, o) PROVE Writable(d, o)'
  BY <1>1, <1>5 DEF Writable
<1>4. TradesInv(d)'
  <2>1. \A o \in Ids : dExec'[d][o] > 0 => Writable(d, o)'
    BY <1>0, <1>5 DEF TradesInv
  <2>2. \A o \in Ids : fills'[d][o] > 0 => known'[o] # NoOrder /\ o # req'[d].id
    BY <1>0 DEF TradesInv
  <2> QED
    BY <1>0, <1>1, <2>1, <2>2 DEF TradesInv
<1>6. WritesInv(d)'
  <2>1. pc'[d] \in {"settle", "syncRead", "syncWrite"} =>
           Writable(d, req[d].buy)' /\ Writable(d, req[d].sell)'
    <3>1. pc[d] \in {"settle", "syncRead", "syncWrite"} =>
              Writable(d, req[d].buy) /\ Writable(d, req[d].sell)
      BY <1>0 DEF WritesInv
    <3>2. PICK r : r = req[d]
      OBVIOUS
    <3>3. req'[d] = r
      BY <3>2
    <3>4. Writable(d, r.buy) => Writable(d, r.buy)'
      BY <1>5
    <3>5. Writable(d, r.sell) => Writable(d, r.sell)'
      BY <1>5
    <3> QED
      BY <3>1, <3>2, <3>3, <3>4, <3>5 DEF Writable
  <2> QED
    BY <1>0, <1>1, <1>5, <2>1 DEF WritesInv, Writable
<1> QED
  BY <1>2, <1>3, <1>4, <1>6 DEF ClientInv

-----------------------------------------------------------------------------
\* A placement that its funds do not cover spends an id and nothing else.
LEMMA PlaceRefusedKeeps ==
    ASSUME IInv, NEW c \in Clients, NEW row \in Core!OrderRow, Core!PlaceRefused(c, row),
           UNCHANGED <<book, known, lane, fills>>
    PROVE  IInv'
<1>0. nextId \in Nat
  BY DEF IInv, Types
<1>1. /\ nextId \in Ids /\ nextId' = nextId + 1
      /\ UNCHANGED <<order, status, executed, pc, req, dExec, wStatus, book, known, lane, fills>>
  BY DEF Core!PlaceRefused, Core!dbVars
<1>2. Types'
  BY <1>0, <1>1 DEF IInv, Types
<1>3. RowsInv'
  <2>1. \A o \in Ids : o >= nextId' => o >= nextId
    BY <1>0, <1>1, IdsAreNats
  <2> QED
    BY <1>1, <2>1 DEF IInv, RowsInv
<1>4. LaneInv' /\ DistinctInv'
  BY <1>1 DEF IInv, LaneInv, DistinctInv, Submitting
<1>5. ASSUME NEW d \in Clients PROVE ClientInv(d)'
  <2>1. PhaseInv(d) /\ OwnRowInv(d) /\ TradesInv(d) /\ WritesInv(d) /\ req[d].id \in Nat
    BY DEF IInv, ClientInv, Types, RequestType
  <2>2. PhaseInv(d)' /\ OwnRowInv(d)'
    BY <1>0, <1>1, <2>1 DEF PhaseInv, OwnRowInv, Submitting
  <2>4. TradesInv(d)'
    BY <1>1, <2>1 DEF TradesInv, Submitting, Writable
  <2>3. WritesInv(d)'
    BY <1>1, <2>1 DEF WritesInv, Writable, Submitting
  <2> QED
    BY <2>2, <2>3, <2>4 DEF ClientInv
<1> QED
  BY <1>2, <1>3, <1>4, <1>5 DEF IInv

\* A placement gives the client the next order, which nobody has seen.
LEMMA PlaceKeeps ==
    ASSUME IInv, NEW c \in Clients, NEW row \in Core!OrderRow, NEW bps \in FeeBps,
           Core!Place(c, row, bps), UNCHANGED <<book, known, lane, fills>>
    PROVE  IInv'
<1> DEFINE r == [Core!NoRequest EXCEPT !.kind = "submit", !.id = nextId, !.bps = bps]
<1>0. nextId \in Nat
  BY DEF IInv, Types
<1>1. /\ nextId \in Ids /\ nextId' = nextId + 1
      /\ pc[c] = "idle" /\ pc' = [pc EXCEPT ![c] = "match"]
      /\ order' = [order EXCEPT ![nextId] = row]
      /\ req' = [req EXCEPT ![c] = r]
      /\ wStatus' = [wStatus EXCEPT ![c][nextId] = "OPEN"]
      /\ UNCHANGED <<status, executed, dExec, book, known, lane, fills>>
  BY DEF Core!Place, Core!dbVars
<1>2. /\ r \in RequestType /\ r.kind = "submit" /\ r.id = nextId
  BY <1>0, <1>1, MatcherAssumption DEF Core!NoRequest, RequestType, Side
<1>3. Types /\ RowsInv /\ LaneInv /\ DistinctInv /\ \A d \in Clients : ClientInv(d)
  BY DEF IInv
<1>4. PhaseInv(c) /\ TradesInv(c) /\ WritesInv(c) /\ req[c].kind = "none"
  BY <1>0, <1>1, <1>3 DEF ClientInv, PhaseInv, OnLane, Types, RequestType, Submitting
<1>5. order[nextId] = NoOrder /\ known[nextId] = NoOrder /\ status[nextId] = "NONE"
  BY <1>0, <1>1, <1>3 DEF RowsInv
<1>6. row # NoOrder
  BY RowsAreRows
<1> HIDE DEF r
<1>7. req'[c].kind = "submit" /\ req'[c].id = nextId /\ pc'[c] = "match"
  BY <1>0, <1>1, <1>2, <1>3 DEF Types
<1>8. Types'
  <2>1. wStatus' \in [Clients -> [Ids -> Status \cup {"NONE"}]]
    BY <1>0, <1>1, <1>3 DEF Types, Status
  <2>2. /\ order' \in [Ids -> RowOrNone] /\ pc' \in [Clients -> Steps]
        /\ req' \in [Clients -> RequestType]
    BY <1>0, <1>1, <1>2, <1>3 DEF Types, RowOrNone, Steps
  <2> QED
    BY <1>0, <1>1, <1>3, <2>1, <2>2 DEF Types
<1>9. RowsInv'
  BY <1>0, <1>1, <1>3, <1>6, IdsAreNats DEF Types, RowsInv
<1>10. LaneInv'
  BY <1>0, <1>1, <1>3 DEF LaneInv, Types, OnLane
<1>11. DistinctInv'
  BY <1>0, <1>1, <1>3, <1>7 DEF DistinctInv, Submitting, ClientInv, OwnRowInv, Types
<1>12. ASSUME NEW d \in Clients, d # c PROVE ClientInv(d)'
  BY <1>0, <1>1, <1>3, <1>6, <1>12, OthersKeep DEF Types
<1>13. ClientInv(c)'
  <2>1. PhaseInv(c)'
    BY <1>7 DEF PhaseInv, Submitting
  <2>2. OwnRowInv(c)'
    BY <1>0, <1>1, <1>3, <1>5, <1>6, <1>7 DEF OwnRowInv, Submitting, Types
  <2>3. TradesInv(c)'
    BY <1>0, <1>1, <1>3, <1>4, <1>7 DEF TradesInv, Submitting, Types
  <2>4. WritesInv(c)'
    <3>1. \A o \in Ids : wStatus'[c][o] # "NONE" => o = nextId
      BY <1>0, <1>1, <1>3, <1>4 DEF WritesInv, Submitting, Types
    <3>2. wStatus'[c][nextId] = "OPEN"
      BY <1>1, <1>3 DEF Types
    <3> QED
      BY <1>1, <1>7, <3>1, <3>2 DEF WritesInv, Submitting, Writable
  <2> QED
    BY <2>1, <2>2, <2>3, <2>4 DEF ClientInv
<1> QED
  BY <1>8, <1>9, <1>10, <1>11, <1>12, <1>13 DEF IInv

\* A cancel starts from a committed row.
LEMMA ReadCancelKeeps ==
    ASSUME IInv, NEW c \in Clients, NEW o \in Ids, Core!ReadCancel(c, o),
           UNCHANGED <<book, known, lane, fills>>
    PROVE  IInv'
<1>1. PICK n \in Nat : n = Core!RemainingQty(order[o].qty, executed[o])
  <2>1. order[o].qty \in Nat /\ executed[o] \in Nat
    BY RowsAreRows DEF Core!ReadCancel, IInv, RowsInv, Types, RowOrNone
  <2> QED
    BY <2>1 DEF Core!RemainingQty
<1> DEFINE r == [Core!NoRequest EXCEPT !.kind = "cancel", !.id = o, !.remaining = n]
<1>2. /\ pc[c] = "idle" /\ pc' = [pc EXCEPT ![c] = "releaseHold"] /\ status[o] # "NONE"
      /\ req' = [req EXCEPT ![c] = r]
      /\ UNCHANGED <<nextId, order, status, executed, dExec, wStatus, book, known, lane, fills>>
  BY <1>1 DEF Core!ReadCancel, Core!dbVars
<1>3. /\ r \in RequestType /\ r.kind = "cancel" /\ r.id = o
  BY <1>1, IdsAreNats DEF Core!NoRequest, RequestType, Side
<1>4. Types /\ RowsInv /\ LaneInv /\ DistinctInv /\ \A d \in Clients : ClientInv(d)
  BY DEF IInv
<1>5. PhaseInv(c) /\ TradesInv(c) /\ WritesInv(c) /\ req[c].kind = "none"
  BY <1>2, <1>4 DEF ClientInv, PhaseInv, OnLane, Types, RequestType, Submitting
<1> HIDE DEF r
<1>7. req'[c].kind = "cancel" /\ req'[c].id = o /\ pc'[c] = "releaseHold"
  BY <1>2, <1>3, <1>4 DEF Types
<1>8. Types'
  BY <1>2, <1>3, <1>4 DEF Types, Steps
<1>9. RowsInv'
  BY <1>2, <1>4 DEF RowsInv
<1>10. LaneInv'
  BY <1>2, <1>4 DEF LaneInv, Types, OnLane
<1>11. DistinctInv'
  BY <1>2, <1>4, <1>7 DEF DistinctInv, Submitting, Types
<1>12. ASSUME NEW d \in Clients, d # c PROVE ClientInv(d)'
  BY <1>2, <1>4, <1>12, OthersKeep DEF Types
<1>13. ClientInv(c)'
  <2>1. PhaseInv(c)'
    BY <1>7 DEF PhaseInv, Submitting
  <2>2. OwnRowInv(c)'
    BY <1>2, <1>7 DEF OwnRowInv, Submitting
  <2>3. TradesInv(c)'
    BY <1>2, <1>5, <1>7 DEF TradesInv, Submitting
  <2>4. WritesInv(c)'
    BY <1>2, <1>5, <1>7 DEF WritesInv, Submitting
  <2> QED
    BY <2>1, <2>2, <2>3, <2>4 DEF ClientInv
<1> QED
  BY <1>8, <1>9, <1>10, <1>11, <1>12, <1>13 DEF IInv

\* So every new request keeps the invariant.
LEMMA RequestKeeps ==
    ASSUME IInv, NEW c \in Clients, Request(c)
    PROVE  IInv'
<1>1. CASE \E row \in Core!OrderRow : Core!PlaceRefused(c, row)
  BY <1>1, PlaceRefusedKeeps DEF Request
<1>2. CASE \E row \in Core!OrderRow, bps \in FeeBps : Core!Place(c, row, bps)
  BY <1>2, PlaceKeeps DEF Request
<1>3. CASE \E o \in Ids : Core!ReadCancel(c, o)
  BY <1>3, ReadCancelKeeps DEF Request
<1> QED
  BY <1>1, <1>2, <1>3, MatcherAssumption DEF Request, Core!Request

\* How far a statement of Core takes a transaction: r, s and w are its local variables, its
\* next step and its writes.
Advances(c, r, s, w) ==
    /\ req' = [req EXCEPT ![c] = r]
    /\ pc' = [pc EXCEPT ![c] = s]
    /\ wStatus' = [wStatus EXCEPT ![c] = w]
    /\ r.kind = req[c].kind /\ r.id = req[c].id
    /\ r.buy = req[c].buy /\ r.sell = req[c].sell
    /\ IF Submitting(c) THEN pc[c] \in OnLane /\ s \in OnLane \cup {"commit"}
       ELSE pc[c] \in {"releaseHold", "cancelWrite"} /\ s \in {"cancelWrite", "commit"}
    /\ s \in {"settle", "syncRead", "syncWrite"} => pc[c] \in {"settle", "syncRead", "syncWrite"}
    /\ Submitting(c) /\ s \in {"cancelRest", "commit"} => pc[c] = "cancelRest"
    /\ s = "syncWrite" => r.next # "NONE"
    /\ \A o \in Ids :
           \/ w[o] = wStatus[c][o]
           \/ Writable(c, o) /\ w[o] # "NONE" /\ (Submitting(c) \/ s = "commit")

\* Every statement taken from Exchange advances its transaction in that way.
LEMMA StatementAdvances ==
    ASSUME IInv, NEW c \in Clients, Statement(c)
    PROVE  /\ UNCHANGED <<nextId, order, status, executed, dExec, book, known, lane, fills>>
           /\ \E r \in RequestType, s \in Steps, w \in [Ids -> Status \cup {"NONE"}] :
                  Advances(c, r, s, w)
<1>1. UNCHANGED <<nextId, order, status, executed, dExec, book, known, lane, fills>>
  BY DEF Statement, Core!SettleFill, Core!SyncRead, Core!SyncWrite, Core!CancelRest,
         Core!ReleaseHold, Core!CancelWrite, Core!dbVars
<1>2. /\ Types /\ PhaseInv(c) /\ OwnRowInv(c) /\ WritesInv(c)
      /\ req[c] \in RequestType /\ wStatus[c] \in [Ids -> Status \cup {"NONE"}]
      /\ pc[c] \in Steps
  BY DEF IInv, ClientInv, Types
<1>3. /\ req = [req EXCEPT ![c] = req[c]]
      /\ wStatus = [wStatus EXCEPT ![c] = wStatus[c]]
  BY <1>2 DEF Types
<1> DEFINE Goal == \E r \in RequestType, s \in Steps, w \in [Ids -> Status \cup {"NONE"}] :
                      Advances(c, r, s, w)
<1>4. pc[c] \in OnLane => Submitting(c)
  BY <1>2 DEF PhaseInv, OnLane, RequestType, Submitting
<1>5. pc[c] \in {"releaseHold", "cancelWrite"} => ~Submitting(c)
  BY <1>2 DEF PhaseInv, OnLane, Submitting
<1>6. ASSUME Core!SettleFill(c) PROVE Goal
  <2> DEFINE r == [req[c] EXCEPT !.sync = "BUY"]
  <2>1. r \in RequestType
    BY <1>2 DEF RequestType, Side
  <2>2. Advances(c, r, "syncRead", wStatus[c])
    BY <1>2, <1>3, <1>4, <1>6 DEF Advances, Core!SettleFill, OnLane, RequestType
  <2> QED
    BY <1>2, <2>1, <2>2 DEF Steps, OnLane
<1>7. ASSUME Core!SyncRead(c) PROVE Goal
  <2>1. PICK next \in Status : next = Core!DerivedSeen(c, Core!SyncedOrder(c))
    BY DEF Core!DerivedSeen, Core!DeriveStatus, Status
  <2> DEFINE r == [req[c] EXCEPT !.next = next]
  <2>2. r \in RequestType
    BY <1>2 DEF RequestType
  <2>3. Advances(c, r, "syncWrite", wStatus[c])
    <3>1. r.next # "NONE" /\ r.kind = req[c].kind /\ r.id = req[c].id
          /\ r.buy = req[c].buy /\ r.sell = req[c].sell
      BY <1>2, <2>1 DEF RequestType, Status
    <3>2. /\ req' = [req EXCEPT ![c] = r] /\ wStatus' = [wStatus EXCEPT ![c] = wStatus[c]]
          /\ pc[c] = "syncRead" /\ pc' = [pc EXCEPT ![c] = "syncWrite"]
      BY <1>3, <1>7, <2>1 DEF Core!SyncRead
    <3> QED
      BY <1>4, <3>1, <3>2 DEF Advances, OnLane
  <2> QED
    BY <1>2, <2>2, <2>3 DEF Steps, OnLane
<1>8. ASSUME Core!SyncWrite(c) PROVE Goal
  <2> DEFINE o == Core!SyncedOrder(c)
             r == [req[c] EXCEPT !.sync = Core!Opposite(@), !.next = "NONE"]
             w == [wStatus[c] EXCEPT ![o] = req[c].next]
             s == IF req[c].sync = "BUY" THEN "syncRead" ELSE "fill"
  <2>0. pc[c] = "syncWrite" /\ Submitting(c)
    BY <1>4, <1>8 DEF Core!SyncWrite, OnLane
  <2>1. r \in RequestType /\ s \in Steps
    BY <1>2 DEF RequestType, Core!Opposite, Side, Steps, OnLane
  <2>2. Writable(c, o)
    BY <1>2, <2>0 DEF WritesInv, Core!SyncedOrder
  <2>3. w \in [Ids -> Status \cup {"NONE"}]
    BY <1>2 DEF RequestType
  <2>4. Advances(c, r, s, w)
    <3>1. req' = [req EXCEPT ![c] = r]
      BY <1>8 DEF Core!SyncWrite
    <3>2. wStatus' = [wStatus EXCEPT ![c] = w]
      BY <1>8 DEF Core!SyncWrite
    <3>3. pc' = [pc EXCEPT ![c] = s]
      BY <1>8, <2>0 DEF Core!SyncWrite, Submitting
    <3>4. /\ r.kind = req[c].kind /\ r.id = req[c].id
          /\ r.buy = req[c].buy /\ r.sell = req[c].sell
      BY <1>2 DEF RequestType
    <3>5. \A p \in Ids : w[p] = wStatus[c][p] \/ (Writable(c, p) /\ w[p] # "NONE")
      BY <1>2, <2>0, <2>2 DEF WritesInv
    <3> QED
      BY <2>0, <3>1, <3>2, <3>3, <3>4, <3>5 DEF Advances, OnLane
  <2> QED
    BY <2>1, <2>3, <2>4
<1>9. ASSUME Core!CancelRest(c) PROVE Goal
  <2> DEFINE w == [wStatus[c] EXCEPT ![req[c].id] = "CANCELLED"]
  <2>0. pc[c] = "cancelRest" /\ Submitting(c) /\ req[c].id \in Ids
    BY <1>2, <1>4, <1>9 DEF Core!CancelRest, OnLane, OwnRowInv
  <2>1. w \in [Ids -> Status \cup {"NONE"}]
    BY <1>2 DEF Status
  <2>2. Advances(c, req[c], "commit", w)
    BY <1>2, <1>3, <1>9, <2>0 DEF Advances, Core!CancelRest, OnLane, Writable
  <2> QED
    BY <1>2, <2>1, <2>2 DEF Steps
<1>10. ASSUME Core!ReleaseHold(c) PROVE Goal
  <2>0. /\ pc[c] = "releaseHold" /\ pc' = [pc EXCEPT ![c] = "cancelWrite"]
        /\ req' = req /\ wStatus' = wStatus
    BY <1>10 DEF Core!ReleaseHold
  <2>1. Advances(c, req[c], "cancelWrite", wStatus[c])
    BY <1>2, <1>3, <1>5, <2>0 DEF Advances
  <2> QED
    BY <1>2, <2>1 DEF Steps
<1>11. ASSUME Core!CancelWrite(c) PROVE Goal
  <2> DEFINE w == [wStatus[c] EXCEPT ![req[c].id] = "CANCELLED"]
  <2>0. pc[c] = "cancelWrite" /\ ~Submitting(c) /\ req[c].id \in Ids /\ status[req[c].id] # "NONE"
    <3>1. pc[c] = "cancelWrite"
      BY <1>11 DEF Core!CancelWrite
    <3> QED
      BY <1>2, <1>5, <3>1 DEF PhaseInv, RequestType, Submitting, OwnRowInv
  <2>1. w \in [Ids -> Status \cup {"NONE"}]
    BY <1>2 DEF Status
  <2>2. Advances(c, req[c], "commit", w)
    BY <1>2, <1>3, <1>11, <2>0 DEF Advances, Core!CancelWrite, Writable
  <2> QED
    BY <1>2, <2>1, <2>2 DEF Steps
<1> QED
  BY <1>1, <1>6, <1>7, <1>8, <1>9, <1>10, <1>11 DEF Statement

\* And a transaction that advances in that way keeps the invariant.
LEMMA StatementKeeps ==
    ASSUME IInv, NEW c \in Clients, Statement(c)
    PROVE  IInv'
<1>1. UNCHANGED <<nextId, order, status, executed, dExec, book, known, lane, fills>>
  BY StatementAdvances
<1>2. PICK r \in RequestType, s \in Steps, w \in [Ids -> Status \cup {"NONE"}] :
          Advances(c, r, s, w)
  BY StatementAdvances
<1>3. Types /\ RowsInv /\ LaneInv /\ DistinctInv /\ \A d \in Clients : ClientInv(d)
  BY DEF IInv
<1>4. PhaseInv(c) /\ OwnRowInv(c) /\ TradesInv(c) /\ WritesInv(c)
  BY <1>3 DEF ClientInv
<1>5. /\ req'[c] = r /\ pc'[c] = s /\ wStatus'[c] = w
      /\ \A d \in Clients \ {c} : req'[d] = req[d] /\ pc'[d] = pc[d] /\ wStatus'[d] = wStatus[d]
  BY <1>2, <1>3 DEF Advances, Types
<1>6. req'[c].kind = req[c].kind /\ req'[c].id = req[c].id
  BY <1>2, <1>5 DEF Advances
<1>7. (Submitting(c)' <=> Submitting(c)) /\ \A o : Writable(c, o)' <=> Writable(c, o)
  BY <1>1, <1>6 DEF Submitting, Writable
<1>8. Types'
  BY <1>1, <1>2, <1>3 DEF Types, Advances
<1>9. RowsInv'
  BY <1>1, <1>3 DEF RowsInv
<1>10. LaneInv'
  BY <1>1, <1>2, <1>3, <1>5 DEF LaneInv, Advances, OnLane
<1>11. DistinctInv'
  <2>1. \A d \in Clients : req'[d].kind = req[d].kind /\ req'[d].id = req[d].id
    BY <1>5, <1>6
  <2> QED
    BY <1>3, <2>1 DEF DistinctInv, Submitting
<1>12. ASSUME NEW d \in Clients, d # c PROVE ClientInv(d)'
  BY <1>1, <1>3, <1>5, <1>12, OthersKeep DEF Types
<1>13. ClientInv(c)'
  <2>1. PhaseInv(c)'
    BY <1>2, <1>4, <1>5, <1>6, <1>7 DEF PhaseInv, Advances, Submitting, Types
  <2>2. OwnRowInv(c)'
    BY <1>1, <1>2, <1>4, <1>5, <1>6, <1>7 DEF OwnRowInv, Advances, OnLane
  <2>3. TradesInv(c)'
    BY <1>1, <1>2, <1>4, <1>5, <1>6, <1>7 DEF TradesInv, Advances, OnLane
  <2>4. WritesInv(c)'
    <3>1. s \in {"settle", "syncRead", "syncWrite"} => Writable(c, r.buy) /\ Writable(c, r.sell)
      BY <1>2, <1>4 DEF WritesInv, Advances
    <3>2. \A o \in Ids : w[o] # "NONE" =>
              Writable(c, o) /\ s \notin {"match", "queued"} /\ (~Submitting(c) => s = "commit")
      BY <1>2, <1>4 DEF WritesInv, Advances, OnLane
    <3>3. Submitting(c) => w[r.id] # "NONE"
      BY <1>2, <1>4, <1>5, <1>6 DEF WritesInv, OwnRowInv, Advances
    <3>4. s = "syncWrite" => r.next # "NONE"
      BY <1>2 DEF Advances
    <3> QED
      BY <1>1, <1>5, <1>7, <3>1, <3>2, <3>3, <3>4 DEF WritesInv, Writable, Submitting
  <2> QED
    BY <2>1, <2>2, <2>3, <2>4 DEF ClientInv
<1> QED
  BY <1>8, <1>9, <1>10, <1>11, <1>12, <1>13 DEF IInv

\* A task that is handed in is last on the lane.
LEMMA HandInKeeps ==
    ASSUME IInv, NEW c \in Clients, HandIn(c)
    PROVE  IInv'
<1>1. /\ pc[c] = "match" /\ pc' = [pc EXCEPT ![c] = "queued"]
      /\ lane' = Append(lane, c)
      /\ UNCHANGED <<nextId, order, status, executed, req, dExec, wStatus, book, known, fills>>
  BY DEF HandIn, dbVars
<1>3. Types /\ RowsInv /\ LaneInv /\ DistinctInv /\ \A d \in Clients : ClientInv(d)
  BY DEF IInv
<1>4. PhaseInv(c) /\ OwnRowInv(c) /\ TradesInv(c) /\ WritesInv(c)
  BY <1>3 DEF ClientInv
<1>5. pc'[c] = "queued" /\ \A d \in Clients \ {c} : pc'[d] = pc[d]
  BY <1>1, <1>3 DEF Types
<1>6. Submitting(c)
  BY <1>1, <1>3, <1>4 DEF PhaseInv, Types, RequestType, Submitting
<1>7. (Submitting(c)' <=> Submitting(c)) /\ \A o : Writable(c, o)' <=> Writable(c, o)
  BY <1>1 DEF Submitting, Writable
<1>8. Types'
  BY <1>1, <1>3 DEF Types, Steps
<1>9. RowsInv'
  BY <1>1, <1>3 DEF RowsInv
<1>10. LaneInv'
  <2>1. /\ lane \in Seq(Clients) /\ Len(lane) \in Nat
        /\ \A i \in 1..Len(lane) : lane[i] \in Clients /\ lane[i] # c
    BY <1>1, <1>3 DEF LaneInv, OnLane
  <2>2. /\ lane' \in Seq(Clients) /\ Len(lane') = Len(lane) + 1
        /\ lane'[Len(lane) + 1] = c
        /\ \A i \in 1..Len(lane) : lane'[i] = lane[i]
    BY <1>1, <2>1
  <2>3. \A i, j \in 1..Len(lane') : lane'[i] = lane'[j] => i = j
    BY <1>3, <2>1, <2>2 DEF LaneInv
  <2>4. \A i \in 1..Len(lane') : pc'[lane'[i]] \in {"queued", "commit"} \cup OnLane
    BY <1>3, <1>5, <2>1, <2>2 DEF LaneInv
  <2>5. ASSUME NEW d \in Clients, pc'[d] = "queued" PROVE \E i \in 1..Len(lane') : lane'[i] = d
    <3>1. CASE d = c
      BY <2>1, <2>2, <3>1
    <3>2. CASE d # c
      <4>1. PICK i \in 1..Len(lane) : lane[i] = d
        BY <1>3, <1>5, <2>5, <3>2 DEF LaneInv
      <4>2. i \in 1..Len(lane') /\ lane'[i] = d
        BY <2>1, <2>2, <4>1
      <4> QED
        BY <4>2
    <3> QED
      BY <3>1, <3>2
  <2>6. ASSUME NEW d \in Clients, pc'[d] \in OnLane PROVE Len(lane') > 0 /\ lane'[1] = d
    <3>1. d # c /\ pc[d] \in OnLane
      BY <1>5, <2>6 DEF OnLane
    <3>2. Len(lane) > 0 /\ lane[1] = d
      BY <1>3, <3>1 DEF LaneInv
    <3> QED
      BY <2>1, <2>2, <3>2
  <2> QED
    BY <2>2, <2>3, <2>4, <2>5, <2>6 DEF LaneInv
<1>11. DistinctInv'
  BY <1>1, <1>3 DEF DistinctInv, Submitting
<1>12. ASSUME NEW d \in Clients, d # c PROVE ClientInv(d)'
  BY <1>1, <1>3, <1>5, <1>12, OthersKeep DEF Types
<1>13. ClientInv(c)'
  <2>1. PhaseInv(c)'
    BY <1>1, <1>5, <1>6, <1>7 DEF PhaseInv, Submitting
  <2>2. OwnRowInv(c)'
    BY <1>1, <1>4, <1>5, <1>6, <1>7 DEF OwnRowInv
  <2>3. TradesInv(c)'
    BY <1>1, <1>4, <1>5, <1>6, <1>7 DEF TradesInv
  <2>4. WritesInv(c)'
    BY <1>1, <1>4, <1>5, <1>6, <1>7 DEF WritesInv, Writable
  <2> QED
    BY <2>1, <2>2, <2>3, <2>4 DEF ClientInv
<1> QED
  BY <1>8, <1>9, <1>10, <1>11, <1>12, <1>13 DEF IInv

\* A task that is over leaves the lane to the next before it commits.
LEMMA LeaveLaneKeeps ==
    ASSUME IInv, NEW c \in Clients, LeaveLane(c)
    PROVE  IInv'
<1>1. /\ pc[c] = "commit" /\ lane' = LaneAfter(c)
      /\ UNCHANGED <<nextId, order, status, executed, pc, req, dExec, wStatus, book, known, fills>>
  BY DEF LeaveLane, coreVars
<1>3. Types /\ RowsInv /\ LaneInv /\ DistinctInv /\ \A d \in Clients : ClientInv(d)
  BY DEF IInv
<1>8. Types'
  BY <1>1, <1>3 DEF Types
<1>9. RowsInv'
  BY <1>1, <1>3 DEF RowsInv
<1>10. LaneInv'
  <2>1. /\ lane \in Seq(Clients) /\ \A i, j \in 1..Len(lane) : lane[i] = lane[j] => i = j
        /\ \A i \in 1..Len(lane) : pc[lane[i]] \in {"queued", "commit"} \cup OnLane
        /\ \A d \in Clients : /\ pc[d] = "queued" => \E i \in 1..Len(lane) : lane[i] = d
                              /\ pc[d] \in OnLane => Len(lane) > 0 /\ lane[1] = d
    BY <1>3 DEF LaneInv
  <2> DEFINE after == LaneAfter(c)
  <2>2. /\ after \in Seq(Clients)
        /\ \A i, j \in 1..Len(after) : after[i] = after[j] => i = j
        /\ \A i \in 1..Len(after) : after[i] # c /\ \E j \in 1..Len(lane) : after[i] = lane[j]
        /\ \A j \in 1..Len(lane) : lane[j] # c => \E i \in 1..Len(after) : after[i] = lane[j]
        /\ Len(lane) > 0 /\ lane[1] # c => Len(after) > 0 /\ after[1] = lane[1]
    BY <2>1, LaneShrinks
  <2>3. lane' = after /\ pc' = pc
    BY <1>1
  <2> HIDE DEF after
  <2>4. \A i \in 1..Len(after) : pc[after[i]] \in {"queued", "commit"} \cup OnLane
    <3> SUFFICES ASSUME NEW i \in 1..Len(after)
                 PROVE  pc[after[i]] \in {"queued", "commit"} \cup OnLane
      OBVIOUS
    <3>1. PICK j \in 1..Len(lane) : after[i] = lane[j]
      BY <2>2
    <3> QED
      BY <2>1, <3>1
  <2>5. ASSUME NEW d \in Clients, pc[d] = "queued" PROVE \E i \in 1..Len(after) : after[i] = d
    <3>1. PICK j \in 1..Len(lane) : lane[j] = d
      BY <2>1, <2>5
    <3>2. lane[j] # c
      BY <1>1, <2>5, <3>1
    <3> QED
      BY <2>2, <3>1, <3>2
  <2>6. ASSUME NEW d \in Clients, pc[d] \in OnLane PROVE Len(after) > 0 /\ after[1] = d
    BY <1>1, <2>1, <2>2, <2>6 DEF OnLane
  <2> QED
    BY <2>2, <2>3, <2>4, <2>5, <2>6 DEF LaneInv
<1>11. DistinctInv'
  BY <1>1, <1>3 DEF DistinctInv, Submitting
<1>12. ASSUME NEW d \in Clients PROVE ClientInv(d)'
  <2>1. PhaseInv(d)' /\ OwnRowInv(d)' /\ TradesInv(d)'
    BY <1>1, <1>3 DEF ClientInv, PhaseInv, OwnRowInv, TradesInv, Submitting, Writable
  <2>2. WritesInv(d)'
    BY <1>1, <1>3 DEF ClientInv, WritesInv, Writable, Submitting
  <2> QED
    BY <2>1, <2>2 DEF ClientInv
<1> QED
  BY <1>8, <1>9, <1>10, <1>11, <1>12 DEF IInv

\* A client that is done, or whose process has gone, has nothing left over.
LEMMA IdleIsClean ==
    ASSUME NEW c \in Clients, req'[c] = Core!NoRequest, pc'[c] = "idle",
           dExec'[c] = Core!NoExec, wStatus'[c] = Core!NoWrites,
           \A o \in Ids : fills'[c][o] = 0
    PROVE  ClientInv(c)'
<1>1. req'[c].kind = "none" /\ req'[c].id = 0
  BY DEF Core!NoRequest
<1>2. \A o \in Ids : dExec'[c][o] = 0 /\ wStatus'[c][o] = "NONE"
  BY DEF Core!NoExec, Core!NoWrites
<1>3. PhaseInv(c)' /\ OwnRowInv(c)'
  BY <1>1 DEF PhaseInv, OwnRowInv, Submitting
<1>4. TradesInv(c)' /\ WritesInv(c)'
  BY <1>1, <1>2 DEF TradesInv, WritesInv, Submitting
<1> QED
  BY <1>3, <1>4 DEF ClientInv

\* The variables of a client without a request have their types.
LEMMA EmptyTypes ==
    /\ Core!NoRequest \in RequestType
    /\ Core!NoExec \in [Ids -> Nat]
    /\ Core!NoWrites \in [Ids -> Status \cup {"NONE"}]
    /\ NoFills \in [Ids -> Nat]
  BY DEF Core!NoRequest, RequestType, Side, Core!NoExec, Core!NoWrites, NoFills

\* The client's variables after its transaction has ended.
LEMMA EndedClient ==
    ASSUME IInv, NEW c \in Clients, Core!EndRequest(c)
    PROVE  /\ pc' \in [Clients -> Steps] /\ req' \in [Clients -> RequestType]
           /\ dExec' \in [Clients -> [Ids -> Nat]]
           /\ wStatus' \in [Clients -> [Ids -> Status \cup {"NONE"}]]
           /\ pc'[c] = "idle" /\ req'[c] = Core!NoRequest
           /\ dExec'[c] = Core!NoExec /\ wStatus'[c] = Core!NoWrites
           /\ \A d \in Clients \ {c} : /\ pc'[d] = pc[d] /\ req'[d] = req[d]
                                        /\ dExec'[d] = dExec[d] /\ wStatus'[d] = wStatus[d]
  BY EmptyTypes DEF IInv, Types, Core!EndRequest, Steps

\* A commit writes only rows that the transaction may write.
LEMMA CommitKeeps ==
    ASSUME IInv, NEW c \in Clients, Commit(c)
    PROVE  IInv'
<1>1. /\ pc[c] = "commit" /\ \A i \in DOMAIN lane : lane[i] # c
      /\ status' = [o \in Ids |-> Core!StatusSeen(c, o)]
      /\ executed' = [o \in Ids |-> Core!ExecutedSeen(c, o)]
      /\ Core!EndRequest(c)
      /\ UNCHANGED <<nextId, order, book, known, lane, fills>>
  BY DEF Commit, Core!Commit
<1>2. /\ pc' \in [Clients -> Steps] /\ req' \in [Clients -> RequestType]
      /\ dExec' \in [Clients -> [Ids -> Nat]]
      /\ wStatus' \in [Clients -> [Ids -> Status \cup {"NONE"}]]
      /\ pc'[c] = "idle" /\ req'[c] = Core!NoRequest
      /\ dExec'[c] = Core!NoExec /\ wStatus'[c] = Core!NoWrites
      /\ \A d \in Clients \ {c} : /\ pc'[d] = pc[d] /\ req'[d] = req[d]
                                   /\ dExec'[d] = dExec[d] /\ wStatus'[d] = wStatus[d]
  BY <1>1, EndedClient
<1>3. Types /\ RowsInv /\ LaneInv /\ DistinctInv /\ \A d \in Clients : ClientInv(d)
  BY DEF IInv
<1>4. PhaseInv(c) /\ OwnRowInv(c) /\ TradesInv(c) /\ WritesInv(c)
  BY <1>3 DEF ClientInv
<1>5. \A o \in Ids : status'[o] = status[o] \/ (Writable(c, o) /\ status'[o] # "NONE")
  BY <1>1, <1>4 DEF WritesInv, Core!StatusSeen
<1>6. \A o \in Ids : /\ executed'[o] = executed[o] + dExec[c][o]
                     /\ executed[o] \in Nat /\ dExec[c][o] \in Nat
  BY <1>1, <1>3 DEF Core!ExecutedSeen, Types
<1>8. Types'
  <2>1. status' \in [Ids -> Status \cup {"NONE"}]
    BY <1>1, <1>3 DEF Types, Core!StatusSeen
  <2>2. executed' \in [Ids -> Nat]
    BY <1>1, <1>6 DEF Core!ExecutedSeen
  <2> QED
    BY <1>1, <1>2, <1>3, <2>1, <2>2 DEF Types
<1>9. RowsInv'
  <2>1. \A o \in Ids : status'[o] # "NONE" => order[o] # NoOrder
    BY <1>3, <1>4, <1>5 DEF RowsInv, Writable, OwnRowInv
  <2>2. ASSUME NEW o \in Ids, status'[o] = "NONE" PROVE executed'[o] = 0
    <3>1. wStatus[c][o] = "NONE" /\ status[o] = "NONE"
      BY <1>1, <2>2 DEF Core!StatusSeen
    <3>2. ~Writable(c, o)
      BY <1>4, <3>1 DEF Writable, WritesInv
    <3>3. executed[o] = 0
      BY <1>3, <3>1 DEF RowsInv
    <3> QED
      BY <1>4, <1>6, <3>2, <3>3 DEF TradesInv
  <2> QED
    BY <1>1, <1>3, <2>1, <2>2 DEF RowsInv
<1>10. LaneInv'
  BY <1>1, <1>2, <1>3 DEF LaneInv, Types, OnLane
<1>11. DistinctInv'
  BY <1>2, <1>3 DEF DistinctInv, Submitting, Core!NoRequest
<1>12. ASSUME NEW d \in Clients, d # c PROVE ClientInv(d)'
  BY <1>1, <1>2, <1>3, <1>5, <1>12, OthersKeep DEF Types
<1>13. ClientInv(c)'
  <2>1. \A o \in Ids : fills'[c][o] = 0
    BY <1>1, <1>4 DEF TradesInv
  <2> QED
    BY <1>2, <2>1, IdleIsClean
<1> QED
  BY <1>8, <1>9, <1>10, <1>11, <1>12, <1>13 DEF IInv

\* A rollback takes the order and the task away, wherever the client is.
LEMMA RollbackKeeps ==
    ASSUME IInv, NEW c \in Clients, Rollback(c)
    PROVE  IInv'
<1>1. /\ Core!EndRequest(c)
      /\ order' = IF Submitting(c) THEN [order EXCEPT ![req[c].id] = NoOrder] ELSE order
      /\ lane' = LaneAfter(c)
      /\ fills' = [fills EXCEPT ![c] = NoFills]
      /\ UNCHANGED <<nextId, status, executed, book, known>>
  BY DEF Rollback, Core!Rollback, Core!dbVars, Submitting
<1>2. /\ pc' \in [Clients -> Steps] /\ req' \in [Clients -> RequestType]
      /\ dExec' \in [Clients -> [Ids -> Nat]]
      /\ wStatus' \in [Clients -> [Ids -> Status \cup {"NONE"}]]
      /\ pc'[c] = "idle" /\ req'[c] = Core!NoRequest
      /\ dExec'[c] = Core!NoExec /\ wStatus'[c] = Core!NoWrites
      /\ \A d \in Clients \ {c} : /\ pc'[d] = pc[d] /\ req'[d] = req[d]
                                   /\ dExec'[d] = dExec[d] /\ wStatus'[d] = wStatus[d]
  BY <1>1, EndedClient
<1>3. Types /\ RowsInv /\ LaneInv /\ DistinctInv /\ \A d \in Clients : ClientInv(d)
  BY DEF IInv
<1>4. OwnRowInv(c)
  BY <1>3 DEF ClientInv
<1>5. /\ fills' \in [Clients -> [Ids -> Nat]]
      /\ \A o \in Ids : fills'[c][o] = 0
      /\ \A d \in Clients \ {c} : fills'[d] = fills[d]
  BY <1>1, <1>3, EmptyTypes DEF Types, NoFills
<1>6. \A o \in Ids : order'[o] = IF Submitting(c) /\ o = req[c].id THEN NoOrder ELSE order[o]
  BY <1>1, <1>3 DEF Types
<1>8. Types'
  <2>1. order' \in [Ids -> RowOrNone]
    BY <1>1, <1>3 DEF Types, RowOrNone
  <2> QED
    BY <1>1, <1>2, <1>3, <1>5, <2>1 DEF Types
<1>9. RowsInv'
  BY <1>1, <1>3, <1>4, <1>6 DEF RowsInv, OwnRowInv
<1>10. LaneInv'
  <2>1. /\ lane \in Seq(Clients) /\ \A i, j \in 1..Len(lane) : lane[i] = lane[j] => i = j
        /\ \A i \in 1..Len(lane) : pc[lane[i]] \in {"queued", "commit"} \cup OnLane
        /\ \A i \in 1..Len(lane) : lane[i] \in Clients
        /\ \A d \in Clients : /\ pc[d] = "queued" => \E i \in 1..Len(lane) : lane[i] = d
                              /\ pc[d] \in OnLane => Len(lane) > 0 /\ lane[1] = d
    BY <1>3 DEF LaneInv
  <2> DEFINE after == LaneAfter(c)
  <2>2. /\ after \in Seq(Clients)
        /\ \A i, j \in 1..Len(after) : after[i] = after[j] => i = j
        /\ \A i \in 1..Len(after) : after[i] # c /\ \E j \in 1..Len(lane) : after[i] = lane[j]
        /\ \A j \in 1..Len(lane) : lane[j] # c => \E i \in 1..Len(after) : after[i] = lane[j]
        /\ Len(lane) > 0 /\ lane[1] # c => Len(after) > 0 /\ after[1] = lane[1]
    BY <2>1, LaneShrinks
  <2>3. lane' = after
    BY <1>1
  <2> HIDE DEF after
  <2>4. \A i \in 1..Len(after) : pc'[after[i]] \in {"queued", "commit"} \cup OnLane
    <3> SUFFICES ASSUME NEW i \in 1..Len(after)
                 PROVE  pc'[after[i]] \in {"queued", "commit"} \cup OnLane
      OBVIOUS
    <3>1. PICK j \in 1..Len(lane) : after[i] = lane[j]
      BY <2>2
    <3>2. PICK d \in Clients \ {c} : d = after[i]
      BY <2>1, <2>2, <3>1
    <3>3. pc'[d] = pc[d] /\ pc[d] \in {"queued", "commit"} \cup OnLane
      BY <1>2, <2>1, <3>1, <3>2
    <3> QED
      BY <3>2, <3>3
  <2>5. ASSUME NEW d \in Clients, pc'[d] = "queued" PROVE \E i \in 1..Len(after) : after[i] = d
    <3>0. d # c /\ pc[d] = "queued"
      BY <1>2, <2>5
    <3>1. PICK j \in 1..Len(lane) : lane[j] = d
      BY <2>1, <3>0
    <3> QED
      BY <2>2, <3>0, <3>1
  <2>6. ASSUME NEW d \in Clients, pc'[d] \in OnLane PROVE Len(after) > 0 /\ after[1] = d
    <3>0. d # c /\ pc[d] \in OnLane
      BY <1>2, <2>6 DEF OnLane
    <3> QED
      BY <2>1, <2>2, <3>0
  <2> QED
    BY <2>2, <2>3, <2>4, <2>5, <2>6 DEF LaneInv
<1>11. DistinctInv'
  BY <1>2, <1>3 DEF DistinctInv, Submitting, Core!NoRequest
<1>12. ASSUME NEW d \in Clients, d # c PROVE ClientInv(d)'
  BY <1>1, <1>2, <1>3, <1>5, <1>6, <1>12, OthersKeep DEF Types
<1>13. ClientInv(c)'
  BY <1>2, <1>5, IdleIsClean
<1> QED
  BY <1>8, <1>9, <1>10, <1>11, <1>12, <1>13 DEF IInv

\* A restart leaves committed rows, and nothing open.
LEMMA RestartKeeps ==
    ASSUME IInv, Restart
    PROVE  IInv'
<1>1. Types /\ RowsInv
  BY DEF IInv
<1>2. Types'
  <2>1. order' \in [Ids -> RowOrNone] /\ known' \in [Ids -> RowOrNone] /\ book' \in [Ids -> Nat]
    BY <1>1, EmptyTypes DEF Restart, Types, RowOrNone
  <2>2. /\ pc' \in [Clients -> Steps] /\ req' \in [Clients -> RequestType]
        /\ dExec' \in [Clients -> [Ids -> Nat]]
        /\ wStatus' \in [Clients -> [Ids -> Status \cup {"NONE"}]]
        /\ fills' \in [Clients -> [Ids -> Nat]]
    BY EmptyTypes DEF Restart, Steps
  <2> QED
    BY <1>1, <2>1, <2>2 DEF Restart, Types, dbVars
<1>3. RowsInv'
  <2>1. \A o \in Ids : /\ order'[o] = IF status[o] = "NONE" THEN NoOrder ELSE order[o]
                       /\ known'[o] = NoOrder /\ book'[o] = 0
    BY DEF Restart, NoFills
  <2>2. UNCHANGED <<nextId, status, executed>>
    BY DEF Restart, dbVars
  <2> QED
    BY <1>1, <2>1, <2>2 DEF RowsInv
<1>4. LaneInv'
  BY DEF Restart, LaneInv, OnLane
<1>5. DistinctInv'
  BY DEF Restart, DistinctInv, Submitting, Core!NoRequest
<1>6. ASSUME NEW c \in Clients PROVE ClientInv(c)'
  <2>1. /\ req'[c] = Core!NoRequest /\ pc'[c] = "idle"
        /\ dExec'[c] = Core!NoExec /\ wStatus'[c] = Core!NoWrites
        /\ \A o \in Ids : fills'[c][o] = 0
    BY DEF Restart, NoFills
  <2> QED
    BY <2>1, IdleIsClean
<1> QED
  BY <1>2, <1>3, <1>4, <1>5, <1>6 DEF IInv

\* There are finitely many orders.
LEMMA IdsAreFinite == IsFiniteSet(Ids)
  BY MatcherAssumption, FS_Interval DEF Core!Ids

\* What the walk finds in the book.
LEMMA MakersAreKnown ==
    ASSUME Types, RowsInv, NEW taker \in Core!OrderRow, NEW m \in Makers(taker)
    PROVE  /\ m \in Ids /\ m \in Nat /\ known[m] \in Core!OrderRow
           /\ known[m] # NoOrder /\ known[m].price \in Nat
           /\ known[m].side = Opposite(taker.side) /\ known[m].side \in Side
           /\ book[m] \in Nat /\ book[m] > 0
           /\ Crosses(taker.side, taker.price, known[m].price)
<1>1. /\ m \in Ids /\ book[m] > 0 /\ known[m].side = Opposite(taker.side)
      /\ Crosses(taker.side, taker.price, known[m].price)
  BY DEF Makers
<1>2. book[m] \in Nat /\ known[m] \in RowOrNone /\ known[m] # NoOrder
  BY <1>1 DEF Types, RowsInv
<1>3. known[m] \in Core!OrderRow
  BY <1>2 DEF RowOrNone
<1> QED
  BY <1>1, <1>2, <1>3, RowsAreRows, IdsAreNats

\* The makers of a taker stand in one line.
LEMMA BeforeIsAnOrder ==
    ASSUME Types, RowsInv, NEW taker \in Core!OrderRow, NEW m \in Makers(taker),
           NEW n \in Makers(taker), NEW p \in Makers(taker)
    PROVE  /\ ~Before(m, m)
           /\ Before(m, n) /\ Before(n, p) => Before(m, p)
           /\ m # n => Before(m, n) \/ Before(n, m)
<1>1. /\ m \in Nat /\ n \in Nat /\ p \in Nat
      /\ known[m].price \in Nat /\ known[n].price \in Nat /\ known[p].price \in Nat
      /\ known[m].side = known[n].side /\ known[m].side = known[p].side
  BY MakersAreKnown
<1> QED
  BY <1>1 DEF Before

\* Some of them always stands last.
LEMMA SomeoneIsLast ==
    ASSUME Types, RowsInv, NEW taker \in Core!OrderRow, NEW some \in SUBSET Makers(taker),
           some # {}
    PROVE  \E last \in some : \A n \in some \ {last} : Before(n, last)
<1> DEFINE Last(T, x) == x \in T /\ \A n \in T \ {x} : Before(n, x)
           Good == {T \in SUBSET some : T = {} \/ \E x : Last(T, x)}
<1>1. IsFiniteSet(some)
  BY IdsAreFinite, FS_Subset DEF Makers
<1>2. {} \in Good
  OBVIOUS
<1>3. ASSUME NEW T \in SUBSET some, NEW x \in some \ T, T \in Good
      PROVE  T \cup {x} \in Good
  <2>1. CASE T = {}
    <3>1. Last(T \cup {x}, x)
      BY <2>1
    <3> QED
      BY <3>1
  <2>2. CASE T # {}
    <3>1. PICK y : Last(T, y)
      BY <1>3, <2>2
    <3>2. CASE Before(x, y)
      <4>1. Last(T \cup {x}, y)
        BY <3>1, <3>2
      <4> QED
        BY <4>1
    <3>3. CASE ~Before(x, y)
      <4>1. Before(y, x)
        BY <1>3, <3>1, <3>3, BeforeIsAnOrder
      <4>2. \A n \in T : Before(n, x)
        BY <3>1, <4>1, BeforeIsAnOrder
      <4>3. Last(T \cup {x}, x)
        BY <4>2
      <4> QED
        BY <4>3
    <3> QED
      BY <3>2, <3>3
  <2> QED
    BY <2>1, <2>2
<1>4. some \in Good
  <2> HIDE DEF Good
  <2> QED
    BY <1>1, <1>2, <1>3, OneByOne
<1> QED
  BY <1>4

\* The walk takes from the makers what they have, until the taker is satisfied.
LEMMA WalkTakes ==
    ASSUME Types, RowsInv, NEW taker \in Core!OrderRow
    PROVE  /\ Taken(taker) \in [Ids -> Nat]
           /\ \A m \in Ids : Taken(taker)[m] =< book[m]
           /\ \A m \in Ids : Taken(taker)[m] > 0 => m \in Makers(taker)
           /\ Sum(book, Makers(taker)) \in Nat
           /\ Sum(Taken(taker), Ids) = Lesser(taker.qty, Sum(book, Makers(taker)))
<1> DEFINE M == Makers(taker)
           q == taker.qty
           t == Taken(taker)
           Ahead(m) == {n \in M : n # m /\ Before(n, m)}
<1>1. q \in Nat /\ M \subseteq Ids /\ \A m \in M : book[m] \in Nat
  BY RowsAreRows, MakersAreKnown DEF Makers
<1>2. \A S \in SUBSET M : IsFiniteSet(S)
  BY IdsAreFinite, FS_Subset DEF Makers
<1>3. \A S \in SUBSET M : Sum(book, S) \in Nat
  <2> HIDE DEF M
  <2> QED
    BY <1>1, <1>2, SumIsNat
<1>4. \A m \in Ids :
          t[m] = IF m \notin M THEN 0
                 ELSE Lesser(RemainingQty(q, Sum(book, Ahead(m))), book[m])
  BY DEF Taken
<1>5. t = [m \in Ids |-> t[m]]
  BY DEF Taken
<1> HIDE DEF t
<1>6. \A m \in Ids : /\ t[m] \in Nat /\ t[m] =< book[m]
                     /\ t[m] > 0 => m \in M
  <2> SUFFICES ASSUME NEW m \in Ids
               PROVE  t[m] \in Nat /\ t[m] =< book[m] /\ (t[m] > 0 => m \in M)
    OBVIOUS
  <2>1. book[m] \in Nat
    BY DEF Types
  <2>2. CASE m \notin M
    <3>1. t[m] = 0
      BY <1>4, <2>2
    <3> QED
      BY <2>1, <3>1
  <2>3. CASE m \in M
    <3>1. PICK a \in Nat : a = Sum(book, Ahead(m))
      BY <1>3
    <3>2. t[m] = Lesser(RemainingQty(q, a), book[m])
      BY <1>4, <2>3, <3>1
    <3> HIDE DEF q, M
    <3>3. t[m] \in Nat /\ t[m] =< book[m]
      BY <1>1, <2>1, <3>2 DEF Lesser, RemainingQty
    <3> QED
      BY <2>3, <3>3
  <2> QED
    BY <2>2, <2>3
<1> DEFINE Closed(T) == \A m \in T : Ahead(m) \subseteq T
           Good == {T \in SUBSET M : Closed(T) => Sum(t, T) = Lesser(q, Sum(book, T))}
<1>7. ASSUME NEW T \in SUBSET M, \A U \in SUBSET T : U # T => U \in Good
      PROVE  T \in Good
  <2> SUFFICES ASSUME Closed(T) PROVE Sum(t, T) = Lesser(q, Sum(book, T))
    OBVIOUS
  <2>1. CASE T = {}
    BY <1>1, <2>1, SumOfNone DEF Lesser
  <2>2. CASE T # {}
    <3>1. PICK x \in T : \A n \in T \ {x} : Before(n, x)
      BY <2>2, SomeoneIsLast
    <3> DEFINE R == T \ {x}
    <3>2. Ahead(x) = R
      BY <3>1
    <3>3. Closed(R)
      <4> SUFFICES ASSUME NEW m \in R, NEW n \in Ahead(m) PROVE n \in R
        OBVIOUS
      <4>1. n \in T /\ Before(n, m) /\ n \in M /\ m \in M
        OBVIOUS
      <4>2. Before(m, x)
        BY <3>1
      <4>3. n # x
        BY <3>1, <4>1, <4>2, BeforeIsAnOrder
      <4> QED
        BY <4>1, <4>3
    <3>4. R \in Good
      BY <1>7, <3>1
    <3>5. Sum(t, R) = Lesser(q, Sum(book, R))
      BY <3>3, <3>4
    <3>6. PICK a \in Nat, b \in Nat : a = Sum(book, R) /\ b = book[x]
      BY <1>1, <1>3
    <3>7. t[x] = Lesser(RemainingQty(q, a), b)
      BY <1>1, <1>4, <3>2, <3>6
    <3> HIDE DEF R, M, Ahead, Closed, Good
    <3>8. Sum(t, T) = t[x] + Sum(t, R)
      <4>1. IsFiniteSet(T) /\ \A y \in T : t[y] \in Int
        BY <1>1, <1>2, <1>6
      <4> QED
        BY <4>1, SumTakesOut DEF R
    <3>9. Sum(book, T) = b + a
      <4>1. IsFiniteSet(T) /\ \A y \in T : book[y] \in Int
        BY <1>1, <1>2
      <4> QED
        BY <3>6, <4>1, SumTakesOut DEF R
    <3> QED
      BY <1>1, <3>5, <3>6, <3>7, <3>8, <3>9 DEF Lesser, RemainingQty
  <2> QED
    BY <2>1, <2>2
<1>8. M \in Good
  <2>1. \A T \in SUBSET M : (\A U \in SUBSET T : U # T => U \in Good) => T \in Good
    BY <1>7
  <2> HIDE DEF Good
  <2>2. IsFiniteSet(M)
    BY <1>2
  <2> QED
    BY <2>1, <2>2, SmallerFirst
<1>9. Sum(t, M) = Lesser(q, Sum(book, M))
  BY <1>8
<1>10. Sum(t, Ids) = Sum(t, M)
  <2>1. \A m \in Ids \ M : t[m] = 0
    BY <1>4
  <2> HIDE DEF M
  <2> QED
    BY <1>1, <1>6, <2>1, IdsAreFinite, SumOfZeros
<1>11. t \in [Ids -> Nat]
  BY <1>5, <1>6
<1> QED
  BY <1>3, <1>6, <1>9, <1>10, <1>11 DEF t

\* A taker that is not satisfied leaves none of its makers with anything.
LEMMA WalkDrains ==
    ASSUME Types, RowsInv, NEW taker \in Core!OrderRow,
           Sum(Taken(taker), Ids) < taker.qty
    PROVE  \A m \in Makers(taker) : Taken(taker)[m] = book[m]
<1> DEFINE M == Makers(taker)
           t == Taken(taker)
<1>1. /\ t \in [Ids -> Nat]
      /\ \A m \in Ids : t[m] =< book[m]
      /\ \A m \in Ids : t[m] > 0 => m \in M
      /\ Sum(book, M) \in Nat
      /\ Sum(t, Ids) = Lesser(taker.qty, Sum(book, M))
  BY WalkTakes
<1>2. M \subseteq Ids /\ taker.qty \in Nat /\ \A m \in M : book[m] \in Nat
  BY RowsAreRows, MakersAreKnown DEF Makers
<1> HIDE DEF M, t
<1>3. Sum(t, Ids) = Sum(book, M)
  BY <1>1, <1>2 DEF Lesser, t
<1>4. Sum(t, Ids) = Sum(t, M)
  <2>1. (\A m \in Ids \ M : t[m] = 0) /\ \A m \in Ids : t[m] \in Int
    BY <1>1
  <2> QED
    BY <1>2, <2>1, IdsAreFinite, SumOfZeros
<1>5. IsFiniteSet(M)
  BY <1>2, IdsAreFinite, FS_Subset
<1>6. ASSUME NEW m \in M PROVE t[m] = book[m]
  <2> DEFINE R == M \ {m}
  <2>1. Sum(t, M) = t[m] + Sum(t, R) /\ Sum(book, M) = book[m] + Sum(book, R)
    <3>1. \A y \in M : t[y] \in Int /\ book[y] \in Int
      BY <1>1, <1>2
    <3> QED
      BY <1>5, <3>1, SumTakesOut
  <2>2. Sum(t, R) =< Sum(book, R)
    <3> DEFINE left == [y \in R |-> book[y] - t[y]]
    <3>1. IsFiniteSet(R)
      BY <1>5, FS_Subset
    <3>2. \A y \in R : t[y] \in Int /\ left[y] \in Nat /\ book[y] = t[y] + left[y]
      BY <1>1, <1>2
    <3> HIDE DEF left, R
    <3>3. Sum(left, R) \in Nat /\ Sum(t, R) \in Int
      BY <3>1, <3>2, SumIsNat, SumIsInt
    <3>4. Sum(book, R) = Sum(t, R) + Sum(left, R)
      BY <3>1, <3>2, SumOfTwo
    <3> QED
      BY <3>3, <3>4
  <2>3. Sum(t, R) \in Int /\ Sum(book, R) \in Int
    <3>1. IsFiniteSet(R) /\ \A y \in R : t[y] \in Int /\ book[y] \in Int
      BY <1>1, <1>2, <1>5, FS_Subset
    <3> QED
      BY <3>1, SumIsInt
  <2>4. t[m] \in Nat /\ book[m] \in Nat /\ t[m] =< book[m]
    BY <1>1, <1>2
  <2>5. PICK u \in Int, v \in Int : u = Sum(t, R) /\ v = Sum(book, R)
    BY <2>3
  <2>6. u =< v /\ t[m] + u = book[m] + v
    BY <1>3, <1>4, <2>1, <2>2, <2>5
  <2> QED
    BY <2>4, <2>6
<1> QED
  BY <1>6 DEF M, t

\* What matching does to the book: t is what it takes of each maker of order o, and rest
\* what it adds of o.
Matches(c, o, t, rest) ==
    /\ Submitting(c) /\ o = req[c].id /\ order[o] \in Core!OrderRow
    /\ known[o] = NoOrder /\ book[o] = 0 /\ t[o] = 0
    /\ pc[c] = "queued" /\ Len(lane) > 0 /\ lane[1] = c
    /\ \A m \in Ids : t[m] =< book[m] /\ (t[m] > 0 => m \in Makers(order[o]))
    /\ Sum(t, Ids) \in Nat /\ Sum(t, Ids) + rest =< order[o].qty
    /\ rest > 0 => \A m \in Makers(order[o]) : t[m] = book[m]
    /\ book' = [m \in Ids |-> IF m = o THEN rest ELSE book[m] - t[m]]
    /\ known' = [known EXCEPT ![o] = order[o]]
    /\ fills' = [fills EXCEPT ![c] = t]
    /\ pc' = [pc EXCEPT ![c] = "fill"]
    /\ UNCHANGED <<nextId, order, status, executed, req, dExec, wStatus, lane>>

\* matchIncoming does just that.
LEMMA MatchingMatches ==
    ASSUME IInv, NEW c \in Clients, MatchIncoming(c)
    PROVE  \E o \in Ids, t \in [Ids -> Nat], rest \in Nat : Matches(c, o, t, rest)
<1>1. Types /\ RowsInv /\ LaneInv /\ PhaseInv(c) /\ OwnRowInv(c)
  BY DEF IInv, ClientInv
<1>2. pc[c] = "queued" /\ Head(lane) = c
  BY DEF MatchIncoming, HasTurn
<1>3. Len(lane) > 0 /\ lane[1] = c
  <2>1. PICK i \in 1..Len(lane) : lane[i] = c
    BY <1>1, <1>2 DEF LaneInv
  <2>2. lane \in Seq(Clients) /\ lane # << >>
    BY <1>1, <2>1 DEF LaneInv
  <2> QED
    BY <1>2, <2>2
<1>4. Submitting(c)
  BY <1>1, <1>2 DEF PhaseInv, Types, RequestType, Submitting
<1>5. PICK o \in Ids : o = req[c].id
  BY <1>1, <1>4 DEF OwnRowInv
<1>6. /\ order[o] \in Core!OrderRow /\ known[o] = NoOrder /\ book[o] = 0
  BY <1>1, <1>2, <1>4, <1>5 DEF OwnRowInv, RowsInv, Types, RowOrNone
<1> DEFINE row == order[o]
<1>7. PICK t \in [Ids -> Nat] :
          /\ t = Taken(row)
          /\ \A m \in Ids : t[m] =< book[m] /\ (t[m] > 0 => m \in Makers(row))
          /\ Sum(book, Makers(row)) \in Nat
          /\ Sum(t, Ids) = Lesser(row.qty, Sum(book, Makers(row)))
  BY <1>1, <1>6, WalkTakes
<1>8. row.qty \in Nat
  BY <1>6, RowsAreRows
<1>9. Sum(t, Ids) \in Nat /\ Sum(t, Ids) =< row.qty
  BY <1>7, <1>8 DEF Lesser
<1>10. Sum(t, Ids) < row.qty => \A m \in Makers(row) : t[m] = book[m]
  BY <1>1, <1>6, <1>7, WalkDrains
<1>11. PICK rest \in Nat :
           /\ rest = Rests(row)
           /\ Sum(t, Ids) + rest =< row.qty
           /\ rest > 0 => Sum(t, Ids) < row.qty
  BY <1>7, <1>8, <1>9 DEF Rests, TifAction, RemainingQty
<1>12. t[o] = 0
  BY <1>6, <1>7 DEF Makers
<1>13. /\ book' = [[m \in Ids |-> book[m] - t[m]] EXCEPT ![o] = rest]
       /\ known' = [known EXCEPT ![o] = row]
       /\ fills' = [fills EXCEPT ![c] = t]
       /\ pc' = [pc EXCEPT ![c] = "fill"]
       /\ UNCHANGED <<nextId, order, status, executed, req, dExec, wStatus, lane>>
  BY <1>5, <1>7, <1>11 DEF MatchIncoming, dbVars
<1>14. book' = [m \in Ids |-> IF m = o THEN rest ELSE book[m] - t[m]]
  BY <1>13
<1>15. Matches(c, o, t, rest)
  BY <1>2, <1>3, <1>4, <1>5, <1>6, <1>7, <1>9, <1>10, <1>11, <1>12, <1>13, <1>14 DEF Matches
<1> QED
  BY <1>15

\* Matching keeps the invariant: what it takes was in the book.
LEMMA MatchIncomingKeeps ==
    ASSUME IInv, NEW c \in Clients, MatchIncoming(c)
    PROVE  IInv'
<1>1. PICK o \in Ids, t \in [Ids -> Nat], rest \in Nat : Matches(c, o, t, rest)
  BY MatchingMatches
<1>2. Types /\ RowsInv /\ LaneInv /\ DistinctInv /\ \A d \in Clients : ClientInv(d)
  BY DEF IInv
<1>3. PhaseInv(c) /\ OwnRowInv(c) /\ TradesInv(c) /\ WritesInv(c)
  BY <1>2 DEF ClientInv
<1>4. /\ Submitting(c) /\ o = req[c].id /\ order[o] \in Core!OrderRow
      /\ pc[c] = "queued" /\ Len(lane) > 0 /\ lane[1] = c /\ t[o] = 0
      /\ book' = [m \in Ids |-> IF m = o THEN rest ELSE book[m] - t[m]]
      /\ known' = [known EXCEPT ![o] = order[o]]
      /\ fills' = [fills EXCEPT ![c] = t]
      /\ pc' = [pc EXCEPT ![c] = "fill"]
      /\ UNCHANGED <<nextId, order, status, executed, req, dExec, wStatus, lane>>
  BY <1>1 DEF Matches
<1>5. \A m \in Ids : /\ t[m] \in Nat /\ book[m] \in Nat /\ t[m] =< book[m]
                     /\ t[m] > 0 => known[m] # NoOrder
  <2>1. \A m \in Ids : t[m] =< book[m] /\ (t[m] > 0 => m \in Makers(order[o]))
    BY <1>1 DEF Matches
  <2> QED
    BY <1>2, <1>4, <2>1, MakersAreKnown DEF Types
<1>6. order[o] # NoOrder
  BY <1>4, RowsAreRows
<1>7. \A m \in Ids : known'[m] = IF m = o THEN order[o] ELSE known[m]
  BY <1>2, <1>4 DEF Types
<1>8. pc'[c] = "fill" /\ \A d \in Clients \ {c} : pc'[d] = pc[d]
  BY <1>2, <1>4 DEF Types
<1>9. fills'[c] = t /\ \A d \in Clients \ {c} : fills'[d] = fills[d]
  BY <1>2, <1>4 DEF Types
<1>10. (Submitting(c)' <=> Submitting(c)) /\ \A m : Writable(c, m)' <=> Writable(c, m)
  BY <1>4 DEF Submitting, Writable
<1>11. Types'
  <2>1. book' \in [Ids -> Nat]
    <3>1. \A m \in Ids : (IF m = o THEN rest ELSE book[m] - t[m]) \in Nat
      BY <1>5
    <3> QED
      BY <1>4, <3>1
  <2>2. known' \in [Ids -> RowOrNone] /\ fills' \in [Clients -> [Ids -> Nat]]
    BY <1>2, <1>4 DEF Types, RowOrNone
  <2>3. pc' \in [Clients -> Steps]
    BY <1>2, <1>4 DEF Types, Steps, OnLane
  <2> QED
    BY <1>2, <1>4, <2>1, <2>2, <2>3 DEF Types
<1>12. RowsInv'
  <2>1. ASSUME NEW m \in Ids, m # o, book[m] = 0 PROVE book'[m] = 0
    BY <1>4, <1>5, <2>1
  <2>2. o < nextId
    BY <1>3, <1>4 DEF OwnRowInv
  <2>3. \A m \in Ids : known'[m] = NoOrder => book'[m] = 0
    BY <1>2, <1>6, <1>7, <2>1 DEF RowsInv
  <2>4. \A m \in Ids : m >= nextId => known'[m] = NoOrder
    BY <1>2, <1>7, <2>2, IdsAreNats DEF RowsInv, Types
  <2> QED
    BY <1>2, <1>4, <2>3, <2>4 DEF RowsInv
<1>13. LaneInv'
  BY <1>2, <1>4, <1>8 DEF LaneInv, OnLane
<1>14. DistinctInv'
  BY <1>2, <1>4 DEF DistinctInv, Submitting
<1>15. ASSUME NEW d \in Clients, d # c PROVE ClientInv(d)'
  BY <1>2, <1>4, <1>6, <1>7, <1>8, <1>9, <1>15, OthersKeep DEF Types
<1>16. ClientInv(c)'
  <2>1. PhaseInv(c)'
    BY <1>3, <1>4, <1>8, <1>10 DEF PhaseInv, Submitting, OnLane
  <2>2. OwnRowInv(c)'
    BY <1>3, <1>4, <1>8, <1>10 DEF OwnRowInv, Submitting
  <2>3. TradesInv(c)'
    <3>1. \A m \in Ids : t[m] > 0 => known'[m] # NoOrder /\ m # o
      BY <1>4, <1>5, <1>6, <1>7
    <3>2. \A m \in Ids : dExec[c][m] = 0
      BY <1>3, <1>4 DEF TradesInv
    <3> QED
      BY <1>4, <1>8, <1>9, <1>10, <3>1, <3>2 DEF TradesInv
  <2>4. WritesInv(c)'
    BY <1>3, <1>4, <1>8, <1>10 DEF WritesInv, Writable, Submitting
  <2> QED
    BY <2>1, <2>2, <2>3, <2>4 DEF ClientInv
<1> QED
  BY <1>11, <1>12, <1>13, <1>14, <1>15, <1>16 DEF IInv

-----------------------------------------------------------------------------
\* The settlement of what order o takes of maker m; r holds the local variables after it.
Fills(c, o, m, r) ==
    /\ Submitting(c) /\ pc[c] = "fill" /\ o = req[c].id /\ m # o
    /\ fills[c][m] > 0 /\ fills[c][o] = 0
    /\ status[m] # "NONE"
    /\ r.kind = req[c].kind /\ r.id = o /\ {r.buy, r.sell} = {m, o}
    /\ fills' = [fills EXCEPT ![c][m] = 0]
    /\ dExec' = [dExec EXCEPT ![c][m] = @ + fills[c][m], ![c][o] = @ + fills[c][m]]
    /\ req' = [req EXCEPT ![c] = r]
    /\ pc' = [pc EXCEPT ![c] = "settle"]
    /\ UNCHANGED <<nextId, order, status, executed, wStatus, book, known, lane>>

\* A fill that does not throw settles with a maker whose row is committed.
LEMMA FillingFills ==
    ASSUME IInv, NEW c \in Clients, FillMaker(c)
    PROVE  \E o \in Ids, m \in Ids, r \in RequestType : Fills(c, o, m, r)
<1>1. /\ Types /\ RowsInv /\ PhaseInv(c) /\ OwnRowInv(c) /\ TradesInv(c) /\ WritesInv(c)
      /\ req[c] \in RequestType /\ fills[c] \in [Ids -> Nat]
  BY DEF IInv, ClientInv, Types
<1>2. pc[c] = "fill" /\ pc' = [pc EXCEPT ![c] = "settle"] /\ ~Throws(c)
  BY DEF FillMaker
<1>3. Submitting(c)
  BY <1>1, <1>2 DEF PhaseInv, RequestType, Submitting
<1>4. PICK o \in Ids : o = req[c].id
  BY <1>1, <1>3 DEF OwnRowInv
<1>5. PICK m \in Ids :
          LET isBuy == order[o].side = "BUY"
              q == fills[c][m]
          IN  /\ IsNext(c, m)
              /\ fills' = [fills EXCEPT ![c][m] = 0]
              /\ req' = [req EXCEPT ![c].buy = IF isBuy THEN o ELSE m,
                                    ![c].sell = IF isBuy THEN m ELSE o,
                                    ![c].qty = q,
                                    ![c].price = known[m].price,
                                    ![c].bps = 0]
              /\ dExec' = [dExec EXCEPT ![c][m] = @ + q, ![c][o] = @ + q]
  BY <1>4 DEF FillMaker
<1>6. IsNext(c, m) /\ fills[c][m] > 0
  BY <1>5 DEF IsNext
<1>7. m # o /\ fills[c][o] = 0 /\ known[m] # NoOrder
  BY <1>1, <1>4, <1>6 DEF TradesInv
<1>8. status[m] # "NONE"
  <2>1. Core!StatusSeen(c, m) # "NONE"
    BY <1>2, <1>6 DEF Throws
  <2> QED
    BY <1>1, <1>4, <1>7, <2>1 DEF Core!StatusSeen, WritesInv, Writable
<1>9. known[m].price \in Nat
  <2>1. known[m] \in Core!OrderRow
    BY <1>1, <1>7 DEF Types, RowOrNone
  <2> QED
    BY <2>1, RowsAreRows
<1> DEFINE isBuy == order[o].side = "BUY"
           r == [req[c] EXCEPT !.buy = IF isBuy THEN o ELSE m,
                               !.sell = IF isBuy THEN m ELSE o,
                               !.qty = fills[c][m],
                               !.price = known[m].price,
                               !.bps = 0]
<1>10. /\ r \in RequestType /\ r.kind = req[c].kind /\ r.id = o
       /\ r.buy = (IF isBuy THEN o ELSE m) /\ r.sell = (IF isBuy THEN m ELSE o)
  BY <1>1, <1>4, <1>9, IdsAreNats DEF RequestType
<1>11. req' = [req EXCEPT ![c] = r]
  BY <1>1, <1>5 DEF Types
<1> HIDE DEF r
<1>12. {r.buy, r.sell} = {m, o}
  BY <1>10
<1>13. UNCHANGED <<nextId, order, status, executed, wStatus, book, known, lane>>
  BY DEF FillMaker, dbVars
<1>14. Fills(c, o, m, r)
  BY <1>2, <1>3, <1>4, <1>5, <1>6, <1>7, <1>8, <1>10, <1>11, <1>12, <1>13 DEF Fills
<1> QED
  BY <1>10, <1>14

\* So a fill keeps the invariant.
LEMMA FillMakerKeeps ==
    ASSUME IInv, NEW c \in Clients, FillMaker(c)
    PROVE  IInv'
<1>1. PICK o \in Ids, m \in Ids, r \in RequestType : Fills(c, o, m, r)
  BY FillingFills
<1>2. Types /\ RowsInv /\ LaneInv /\ DistinctInv /\ \A d \in Clients : ClientInv(d)
  BY DEF IInv
<1>3. PhaseInv(c) /\ OwnRowInv(c) /\ TradesInv(c) /\ WritesInv(c)
  BY <1>2 DEF ClientInv
<1>4. PICK q \in Nat : q = fills[c][m]
  BY <1>2 DEF Types
<1>5. /\ Submitting(c) /\ pc[c] = "fill" /\ o = req[c].id /\ m # o
      /\ status[m] # "NONE" /\ r.kind = req[c].kind /\ r.id = o /\ {r.buy, r.sell} = {m, o}
      /\ fills' = [fills EXCEPT ![c][m] = 0]
      /\ dExec' = [dExec EXCEPT ![c][m] = @ + q, ![c][o] = @ + q]
      /\ req' = [req EXCEPT ![c] = r]
      /\ pc' = [pc EXCEPT ![c] = "settle"]
      /\ UNCHANGED <<nextId, order, status, executed, wStatus, book, known, lane>>
  BY <1>1, <1>4 DEF Fills
<1>6. /\ req'[c] = r /\ pc'[c] = "settle"
      /\ \A d \in Clients \ {c} : /\ req'[d] = req[d] /\ pc'[d] = pc[d]
                                   /\ fills'[d] = fills[d] /\ dExec'[d] = dExec[d]
  BY <1>2, <1>5 DEF Types
<1>7. (Submitting(c)' <=> Submitting(c)) /\ \A p : Writable(c, p)' <=> Writable(c, p)
  BY <1>5, <1>6 DEF Submitting, Writable
<1>8. \A p \in Ids : fills'[c][p] = IF p = m THEN 0 ELSE fills[c][p]
  BY <1>2, <1>5 DEF Types
<1>9. \A p \in Ids : dExec'[c][p] = IF p \in {m, o} THEN dExec[c][p] + q ELSE dExec[c][p]
  BY <1>2, <1>5 DEF Types
<1>11. Types'
  <2>1. fills' \in [Clients -> [Ids -> Nat]]
    BY <1>2, <1>5 DEF Types
  <2>2. dExec' \in [Clients -> [Ids -> Nat]]
    <3>1. dExec[c] \in [Ids -> Nat] /\ q \in Nat
      BY <1>2 DEF Types
    <3>2. dExec' = [dExec EXCEPT ![c] = [dExec[c] EXCEPT ![m] = @ + q, ![o] = @ + q]]
      BY <1>2, <1>5 DEF Types
    <3>3. [dExec[c] EXCEPT ![m] = @ + q, ![o] = @ + q] \in [Ids -> Nat]
      BY <3>1
    <3> QED
      BY <1>2, <3>2, <3>3 DEF Types
  <2>3. pc' \in [Clients -> Steps] /\ req' \in [Clients -> RequestType]
    BY <1>2, <1>5 DEF Types, Steps, OnLane
  <2> QED
    BY <1>2, <1>5, <2>1, <2>2, <2>3 DEF Types
<1>12. RowsInv'
  BY <1>2, <1>5 DEF RowsInv
<1>13. LaneInv'
  BY <1>2, <1>5, <1>6 DEF LaneInv, OnLane
<1>14. DistinctInv'
  <2>1. \A d \in Clients : req'[d].kind = req[d].kind /\ req'[d].id = req[d].id
    BY <1>5, <1>6
  <2> QED
    BY <1>2, <2>1 DEF DistinctInv, Submitting
<1>15. ASSUME NEW d \in Clients, d # c PROVE ClientInv(d)'
  BY <1>2, <1>5, <1>6, <1>15, OthersKeep DEF Types
<1>16. ClientInv(c)'
  <2>0. Writable(c, m) /\ Writable(c, o)
    BY <1>5 DEF Writable
  <2>1. PhaseInv(c)'
    BY <1>3, <1>5, <1>6, <1>7 DEF PhaseInv, Submitting, OnLane
  <2>2. OwnRowInv(c)'
    BY <1>3, <1>5, <1>6, <1>7 DEF OwnRowInv, Submitting
  <2>3. TradesInv(c)'
    <3>1. \A p \in Ids : fills'[c][p] > 0 => known'[p] # NoOrder /\ p # r.id
      BY <1>3, <1>5, <1>8 DEF TradesInv
    <3>2. \A p \in Ids : dExec'[c][p] > 0 => Writable(c, p)
      BY <1>3, <1>9, <2>0 DEF TradesInv
    <3> QED
      BY <1>5, <1>6, <1>7, <3>1, <3>2 DEF TradesInv
  <2>4. WritesInv(c)'
    <3>1. \A p \in Ids : wStatus[c][p] # "NONE" => Writable(c, p)
      BY <1>3 DEF WritesInv
    <3>2. r.buy \in {m, o} /\ r.sell \in {m, o}
      BY <1>5
    <3>3. Writable(c, r.buy) /\ Writable(c, r.sell)
      BY <2>0, <3>2
    <3>4. wStatus[c][o] # "NONE"
      BY <1>3, <1>5 DEF WritesInv
    <3> QED
      BY <1>5, <1>6, <1>7, <3>1, <3>3, <3>4 DEF WritesInv, Writable, Submitting
  <2> QED
    BY <2>1, <2>2, <2>3, <2>4 DEF ClientInv
<1> QED
  BY <1>11, <1>12, <1>13, <1>14, <1>15, <1>16 DEF IInv

\* The loop is left when nothing is left to settle.
LEMMA LeaveLoopKeeps ==
    ASSUME IInv, NEW c \in Clients, LeaveLoop(c)
    PROVE  IInv'
<1>1. Types /\ RowsInv /\ LaneInv /\ DistinctInv /\ \A d \in Clients : ClientInv(d)
  BY DEF IInv
<1>2. /\ PhaseInv(c) /\ OwnRowInv(c) /\ TradesInv(c) /\ WritesInv(c)
      /\ req[c] \in RequestType /\ fills[c] = NoFills
      /\ pc[c] = "fill"
      /\ UNCHANGED <<nextId, order, status, executed, dExec, wStatus, book, known, lane, fills>>
  BY <1>1 DEF ClientInv, Types, LeaveLoop, dbVars
<1>3. Submitting(c)
  BY <1>2 DEF PhaseInv, RequestType, Submitting
<1>4. PICK n \in Nat : n = RemainingQty(order[req[c].id].qty, Core!ExecutedSeen(c, req[c].id))
  <2>1. order[req[c].id].qty \in Nat /\ Core!ExecutedSeen(c, req[c].id) \in Nat
    BY <1>1, <1>2, <1>3, RowsAreRows DEF OwnRowInv, Types, RowOrNone, Core!ExecutedSeen
  <2> QED
    BY <2>1 DEF RemainingQty
<1> DEFINE r == [req[c] EXCEPT !.remaining = n]
<1>5. PICK s \in {"cancelRest", "commit"} :
          pc' = [pc EXCEPT ![c] = s] /\ req' = [req EXCEPT ![c] = r]
  BY <1>1, <1>4 DEF LeaveLoop, Types
<1>6. r \in RequestType /\ r.kind = req[c].kind /\ r.id = req[c].id
  BY <1>2, <1>4 DEF RequestType
<1> HIDE DEF r
<1>7. /\ req'[c] = r /\ pc'[c] = s
      /\ \A d \in Clients \ {c} : req'[d] = req[d] /\ pc'[d] = pc[d]
  BY <1>1, <1>5 DEF Types
<1>8. (Submitting(c)' <=> Submitting(c)) /\ \A o : Writable(c, o)' <=> Writable(c, o)
  BY <1>2, <1>6, <1>7 DEF Submitting, Writable
<1>9. Types'
  BY <1>1, <1>2, <1>5, <1>6 DEF Types, Steps, OnLane
<1>10. RowsInv'
  BY <1>1, <1>2 DEF RowsInv
<1>11. LaneInv'
  BY <1>1, <1>2, <1>7 DEF LaneInv, OnLane
<1>12. DistinctInv'
  <2>1. \A d \in Clients : req'[d].kind = req[d].kind /\ req'[d].id = req[d].id
    BY <1>6, <1>7
  <2> QED
    BY <1>1, <2>1 DEF DistinctInv, Submitting
<1>13. ASSUME NEW d \in Clients, d # c PROVE ClientInv(d)'
  BY <1>1, <1>2, <1>7, <1>13, OthersKeep DEF Types
<1>14. ClientInv(c)'
  <2>1. PhaseInv(c)'
    BY <1>3, <1>6, <1>7 DEF PhaseInv, Submitting, OnLane
  <2>2. OwnRowInv(c)'
    BY <1>2, <1>6, <1>7 DEF OwnRowInv, Submitting
  <2>3. TradesInv(c)'
    <3>1. \A o \in Ids : fills'[c][o] = 0
      BY <1>2 DEF NoFills
    <3> QED
      BY <1>2, <1>3, <1>7, <1>8, <3>1 DEF TradesInv
  <2>4. WritesInv(c)'
    BY <1>2, <1>3, <1>6, <1>7, <1>8 DEF WritesInv, Writable, Submitting
  <2> QED
    BY <2>1, <2>2, <2>3, <2>4 DEF ClientInv
<1> QED
  BY <1>9, <1>10, <1>11, <1>12, <1>13, <1>14 DEF IInv

\* Nothing changes when no variable does.
LEMMA StutterKeeps ==
    ASSUME IInv, UNCHANGED vars
    PROVE  IInv'
<1>1. UNCHANGED <<nextId, order, status, executed, pc, req, dExec, wStatus, book, known, lane,
                  fills>>
  BY DEF vars, coreVars
<1>2. Types /\ RowsInv /\ LaneInv /\ DistinctInv /\ \A d \in Clients : ClientInv(d)
  BY DEF IInv
<1>3. Types' /\ RowsInv'
  BY <1>1, <1>2 DEF Types, RowsInv
<1>4. LaneInv' /\ DistinctInv'
  BY <1>1, <1>2 DEF LaneInv, DistinctInv, Submitting
<1>5. ASSUME NEW d \in Clients PROVE ClientInv(d)'
  <2>1. PhaseInv(d)' /\ OwnRowInv(d)' /\ TradesInv(d)'
    BY <1>1, <1>2 DEF ClientInv, PhaseInv, OwnRowInv, TradesInv, Submitting, Writable
  <2>2. WritesInv(d)'
    BY <1>1, <1>2 DEF ClientInv, WritesInv, Writable, Submitting
  <2> QED
    BY <2>1, <2>2 DEF ClientInv
<1> QED
  BY <1>3, <1>4, <1>5 DEF IInv

\* Every step keeps the invariant.
LEMMA NextKeeps == IInv /\ [Next]_vars => IInv'
<1> SUFFICES ASSUME IInv, [Next]_vars PROVE IInv'
  OBVIOUS
<1>1. CASE Restart
  BY <1>1, RestartKeeps
<1>2. ASSUME NEW c \in Clients, Request(c) PROVE IInv'
  BY <1>2, RequestKeeps
<1>3. ASSUME NEW c \in Clients, Proceed(c) PROVE IInv'
  BY <1>3, HandInKeeps, MatchIncomingKeeps, FillMakerKeeps, LeaveLoopKeeps, LeaveLaneKeeps,
     StatementKeeps, CommitKeeps, RollbackKeeps DEF Proceed, Fail
<1>4. ASSUME NEW c \in Clients, Abort(c) PROVE IInv'
  BY <1>4, RollbackKeeps DEF Abort
<1>5. CASE UNCHANGED vars
  BY <1>5, StutterKeeps
<1> QED
  BY <1>1, <1>2, <1>3, <1>4, <1>5 DEF Next

\* The tables, the book and the lane stay well-formed whatever is interleaved, aborted or
\* restarted: every variable has its type, clients are in steps of the requests they have,
\* transactions write only rows that are committed or their own, and matched tasks are at the
\* head of the lane.
THEOREM TypesAndPhases == Spec => []IInv
  BY InitIInv, NextKeeps, PTL DEF Spec

-----------------------------------------------------------------------------
\* Of finitely many numbers one is the least.
LEMMA SomeIsLeast ==
    ASSUME NEW S \in SUBSET Nat, IsFiniteSet(S), S # {}
    PROVE  \E least \in S : \A n \in S : least =< n
<1> DEFINE Least(T, x) == x \in T /\ \A n \in T : x =< n
           Good == {T \in SUBSET S : T = {} \/ \E x : Least(T, x)}
<1>1. {} \in Good
  OBVIOUS
<1>2. ASSUME NEW T \in SUBSET S, NEW x \in S \ T, T \in Good
      PROVE  T \cup {x} \in Good
  <2>1. CASE T = {}
    <3>1. Least(T \cup {x}, x)
      BY <2>1
    <3> QED
      BY <3>1
  <2>2. CASE T # {}
    <3>1. PICK y : Least(T, y)
      BY <1>2, <2>2
    <3>2. CASE y =< x
      <4>1. Least(T \cup {x}, y)
        BY <3>1, <3>2
      <4> QED
        BY <4>1
    <3>3. CASE ~(y =< x)
      <4>1. Least(T \cup {x}, x)
        BY <3>1, <3>3
      <4> QED
        BY <4>1
    <3> QED
      BY <3>2, <3>3
  <2> QED
    BY <2>1, <2>2
<1>3. S \in Good
  <2> HIDE DEF Good
  <2> QED
    BY <1>1, <1>2, OneByOne
<1> QED
  BY <1>3

\* Before it commits, a request that is not on the lane has updated nothing, and one that
\* waits there has only created its own row.
LEMMA OwnRowsAreNotAwaited ==
    ASSUME IInv, NEW c \in Clients, NEW d \in Clients, d # c, NEW o \in Ids,
           Writable(c, o), pc[d] \in {"queued", "cancelWrite"}
    PROVE  wStatus[d][o] = "NONE"
<1>1. PhaseInv(d) /\ OwnRowInv(d) /\ WritesInv(d) /\ DistinctInv /\ req[d] \in RequestType
  BY DEF IInv, ClientInv, Types
<1> SUFFICES ASSUME wStatus[d][o] # "NONE" PROVE FALSE
  OBVIOUS
<1>2. CASE pc[d] = "queued"
  <2>1. Submitting(d)
    BY <1>1, <1>2 DEF PhaseInv, Submitting, RequestType
  <2>2. o = req[d].id /\ status[o] = "NONE"
    BY <1>1, <1>2, <2>1 DEF WritesInv, OwnRowInv
  <2> QED
    BY <1>1, <2>1, <2>2 DEF Writable, DistinctInv
<1>3. CASE pc[d] = "cancelWrite"
  <2>1. ~Submitting(d)
    BY <1>1, <1>3 DEF PhaseInv, Submitting, OnLane
  <2> QED
    BY <1>1, <1>3, <2>1 DEF WritesInv
<1> QED
  BY <1>2, <1>3

\* Some request never waits for the others: one that waits for nothing at all, or the one
\* at the head of the lane, or a cancel, or else the first of those that are queued.
LEMMA LaneMoves == IInv => NoStandstill
<1> SUFFICES ASSUME IInv PROVE NoStandstill
  OBVIOUS
<1>1. /\ LaneInv /\ lane \in Seq(Clients) /\ Len(lane) \in Nat /\ DOMAIN lane = 1..Len(lane)
  BY DEF IInv, LaneInv
<1>2. \A i \in DOMAIN lane : pc[lane[i]] \notin {"idle", "match"}
  BY <1>1 DEF LaneInv, OnLane
<1>3. ASSUME NEW S \in (SUBSET Clients) \ {{}}
      PROVE  \E c \in S : \A d \in S \ {c} : ~WaitsFor(c, d)
  <2>1. CASE \E c \in S : pc[c] \notin {"queued", "syncWrite", "cancelWrite"}
    BY <2>1 DEF WaitsFor
  <2>2. CASE /\ \A c \in S : pc[c] \in {"queued", "syncWrite", "cancelWrite"}
             /\ \E c \in S : pc[c] = "syncWrite"
    <3>1. PICK c \in S : pc[c] = "syncWrite"
      BY <2>2
    <3>2. Writable(c, Core!SyncedOrder(c))
      BY <3>1 DEF IInv, ClientInv, WritesInv, Core!SyncedOrder
    <3>3. ASSUME NEW d \in S \ {c} PROVE ~WaitsFor(c, d)
      <4>1. pc[d] # "syncWrite"
        BY <1>1, <3>1 DEF LaneInv, OnLane
      <4>2. wStatus[d][Core!SyncedOrder(c)] = "NONE"
        BY <2>2, <3>2, <4>1, OwnRowsAreNotAwaited DEF Writable
      <4> QED
        BY <3>1, <4>2 DEF WaitsFor
    <3> QED
      BY <3>3
  <2>3. CASE /\ \A c \in S : pc[c] \in {"queued", "cancelWrite"}
             /\ \E c \in S : pc[c] = "cancelWrite"
    <3>1. PICK c \in S : pc[c] = "cancelWrite"
      BY <2>3
    <3>2. Writable(c, req[c].id)
      <4>1. PhaseInv(c) /\ OwnRowInv(c) /\ req[c] \in RequestType
        BY DEF IInv, ClientInv, Types
      <4>2. req[c].kind = "cancel"
        BY <3>1, <4>1 DEF PhaseInv, Submitting, RequestType, OnLane
      <4> QED
        BY <4>1, <4>2 DEF OwnRowInv, Writable
    <3>3. ASSUME NEW d \in S \ {c} PROVE ~WaitsFor(c, d)
      <4>1. wStatus[d][req[c].id] = "NONE"
        BY <2>3, <3>2, OwnRowsAreNotAwaited DEF Writable
      <4> QED
        BY <3>1, <4>1 DEF WaitsFor
    <3> QED
      BY <3>3
  <2>4. CASE \A c \in S : pc[c] = "queued"
    <3> DEFINE turns == {i \in 1..Len(lane) : lane[i] \in S}
    <3>1. turns # {}
      BY <1>1, <2>4 DEF LaneInv
    <3>2. turns \in SUBSET Nat /\ IsFiniteSet(turns)
      <4>1. IsFiniteSet(1..Len(lane))
        BY <1>1, FS_Interval
      <4>2. turns \subseteq 1..Len(lane)
        OBVIOUS
      <4> HIDE DEF turns
      <4>3. IsFiniteSet(turns)
        BY <4>1, <4>2, FS_Subset
      <4>4. turns \subseteq Nat
        BY <4>2
      <4> QED
        BY <4>3, <4>4
    <3>3. PICK first \in turns : \A i \in turns : first =< i
      <4> HIDE DEF turns
      <4> QED
        BY <3>1, <3>2, SomeIsLeast
    <3> DEFINE c == lane[first]
    <3>4. c \in S /\ first \in 1..Len(lane)
      OBVIOUS
    <3>5. ASSUME NEW d \in S \ {c}, IsBefore(d, c) PROVE FALSE
      <4>1. PICK i, j \in 1..Len(lane) : i < j /\ lane[i] = d /\ lane[j] = c
        BY <1>1, <3>5 DEF IsBefore
      <4>2. j = first
        BY <1>1, <3>4, <4>1 DEF LaneInv
      <4>3. first =< i
        BY <3>3, <4>1
      <4> QED
        BY <1>1, <4>1, <4>2, <4>3
    <3>6. \A d \in S \ {c} : ~WaitsFor(c, d)
      BY <2>4, <3>4, <3>5 DEF WaitsFor
    <3> QED
      BY <3>4, <3>6
  <2> QED
    BY <2>1, <2>2, <2>3, <2>4
<1> QED
  BY <1>2, <1>3 DEF NoStandstill

\* The lane and the rows never bring requests to a standstill, and whoever is on the lane
\* has a task there, although tasks fail, time out and commit after they have left it.
THEOREM RequestsNeverStandStill == Spec => []NoStandstill
  BY TypesAndPhases, LaneMoves, PTL

\* A taker rests only if it has drained every maker that crosses it.
LEMMA BookStaysUncrossed ==
    IInv /\ BookUncrossed /\ [Next]_vars => BookUncrossed'
<1> SUFFICES ASSUME IInv, BookUncrossed, [Next]_vars PROVE BookUncrossed'
  OBVIOUS
<1>1. Types /\ RowsInv
  BY DEF IInv
<1>2. ASSUME UNCHANGED <<book, known>> PROVE BookUncrossed'
  BY <1>2 DEF BookUncrossed
<1>3. CASE Restart
  <2>1. \A o \in Ids : book'[o] = 0
    BY <1>3 DEF Restart, NoFills
  <2> QED
    BY <2>1 DEF BookUncrossed
<1>4. ASSUME NEW c \in Clients, MatchIncoming(c) PROVE BookUncrossed'
  <2>1. PICK o \in Ids, t \in [Ids -> Nat], rest \in Nat : Matches(c, o, t, rest)
    BY <1>4, MatchingMatches
  <2> DEFINE row == order[o]
  <2>2. /\ row \in Core!OrderRow /\ row.price \in Nat /\ row.side \in Side
    BY <2>1, RowsAreRows DEF Matches
  <2>3. \A m \in Ids : /\ book'[m] = IF m = o THEN rest ELSE book[m] - t[m]
                       /\ known'[m] = IF m = o THEN row ELSE known[m]
                       /\ book[m] \in Nat /\ t[m] \in Nat
    BY <1>1, <2>1 DEF Matches, Types
  <2>4. ASSUME NEW m \in Ids, m # o, book'[m] > 0, rest > 0
        PROVE  m \notin Makers(row) /\ book[m] > 0 /\ known[m] \in Core!OrderRow
    <3>1. book[m] > 0 /\ t[m] # book[m]
      BY <2>3, <2>4
    <3>2. m \notin Makers(row)
      BY <2>1, <2>4, <3>1 DEF Matches
    <3>3. known[m] \in RowOrNone /\ known[m] # NoOrder
      BY <1>1, <3>1 DEF Types, RowsInv
    <3> QED
      BY <3>1, <3>2, <3>3 DEF RowOrNone
  <2> SUFFICES ASSUME NEW b \in Ids, NEW s \in Ids, book'[b] > 0, book'[s] > 0,
                      known'[b].side = "BUY", known'[s].side = "SELL"
               PROVE  known'[b].price < known'[s].price
    BY DEF BookUncrossed
  <2>5. CASE b # o /\ s # o
    <3>1. book[b] > 0 /\ book[s] > 0
      BY <2>3, <2>5
    <3> QED
      BY <2>3, <2>5, <3>1 DEF BookUncrossed
  <2>6. CASE b = o
    <3>1. s # o /\ rest > 0 /\ row.side = "BUY" /\ known[s].side = "SELL"
      BY <2>3, <2>6
    <3>2. s \notin Makers(row) /\ book[s] > 0 /\ known[s].price \in Nat
      BY <2>4, <3>1, RowsAreRows
    <3>3. ~Crosses("BUY", row.price, known[s].price)
      BY <3>1, <3>2 DEF Makers, Opposite
    <3> QED
      BY <2>2, <2>3, <2>6, <3>1, <3>2, <3>3 DEF Crosses
  <2>7. CASE s = o
    <3>1. b # o /\ rest > 0 /\ row.side = "SELL" /\ known[b].side = "BUY"
      BY <2>3, <2>7
    <3>2. b \notin Makers(row) /\ book[b] > 0 /\ known[b].price \in Nat
      BY <2>4, <3>1, RowsAreRows
    <3>3. ~Crosses("SELL", row.price, known[b].price)
      BY <3>1, <3>2 DEF Makers, Opposite
    <3> QED
      BY <2>2, <2>3, <2>7, <3>1, <3>2, <3>3 DEF Crosses
  <2> QED
    BY <2>5, <2>6, <2>7
<1>5. ASSUME NEW c \in Clients, Request(c) \/ Abort(c) PROVE BookUncrossed'
  BY <1>2, <1>5 DEF Request, Abort, Rollback
<1>6. ASSUME NEW c \in Clients, Proceed(c), ~MatchIncoming(c) PROVE BookUncrossed'
  BY <1>2, <1>6 DEF Proceed, HandIn, FillMaker, LeaveLoop, LeaveLane, Statement, Commit,
                    Fail, Rollback
<1>7. CASE UNCHANGED vars
  BY <1>2, <1>7 DEF vars
<1> QED
  BY <1>3, <1>4, <1>5, <1>6, <1>7 DEF Next

\* The book never rests crossed, although entries leave it for good when a transaction that
\* took them rolls back.
THEOREM BookNeverCrosses == Spec => []BookUncrossed
<1>1. Init => BookUncrossed
  BY DEF Init, NoFills, BookUncrossed
<1> QED
  BY <1>1, TypesAndPhases, BookStaysUncrossed, PTL DEF Spec

\* What all clients claim of an order.
Offered(o) == MapThenSumSet(LAMBDA c : Claimed(c, o), Clients)

\* The claims on an order, as the sum of a function of the clients.
ClaimsAreSummed ==
    \A o \in Ids : \A f : f = [c \in Clients |-> Claimed(c, o)] => Offered(o) = Sum(f, Clients)

\* And that is what MapThenSumSet computes.
LEMMA ClaimsAddUp == ClaimsAreSummed
<1> SUFFICES ASSUME NEW o \in Ids, NEW f, f = [c \in Clients |-> Claimed(c, o)]
             PROVE  Offered(o) = Sum(f, Clients)
  BY DEF ClaimsAreSummed
<1> DEFINE Adds(it) == it = [s \in SUBSET Clients |->
                                IF s = {} THEN 0 ELSE Claimed(Pick(s), o) + it[s \ {Pick(s)}]]
           G == CHOOSE jt : IsSums(f, Clients, jt)
<1>1. ASSUME NEW it PROVE IsSums(f, Clients, it) <=> Adds(it)
  <2>1. \A s \in SUBSET Clients : s # {} => f[Pick(s)] = Claimed(Pick(s), o)
    BY PickIsIn
  <2> DEFINE E(s) == IF s = {} THEN 0 ELSE f[Pick(s)] + it[s \ {Pick(s)}]
             F(s) == IF s = {} THEN 0 ELSE Claimed(Pick(s), o) + it[s \ {Pick(s)}]
  <2>2. \A s \in SUBSET Clients : E(s) = F(s)
    BY <2>1
  <2> HIDE DEF E, F
  <2>3. [s \in SUBSET Clients |-> E(s)] = [s \in SUBSET Clients |-> F(s)]
    BY <2>2
  <2> QED
    BY <2>3 DEF E, F, IsSums
<1>2. PICK jt : IsSums(f, Clients, jt)
  BY MatcherAssumption, SumsExist
<1>3. Adds(CHOOSE it : Adds(it))
  BY <1>1, <1>2
<1>4. Offered(o) = (CHOOSE it : Adds(it))[Clients]
  BY DEF Offered, MapThenSumSet, MapThenFoldSet, Pick
<1>5. IsSums(f, Clients, CHOOSE it : Adds(it))
  BY <1>1, <1>3
<1> QED
  <2> HIDE DEF Adds
  <2>1. Sum(f, Clients) = (CHOOSE it : Adds(it))[Clients]
    BY <1>5, MatcherAssumption, SumIs
  <2> QED
    BY <1>4, <2>1

\* The same of the next state.
LEMMA ClaimsAddUpLater ==
    ASSUME NEW o \in Ids, NEW f, f = [c \in Clients |-> Claimed(c, o)'] 
    PROVE  Offered(o)' = Sum(f, Clients)
<1>1. ClaimsAreSummed'
  BY ClaimsAddUp, PTL
<1> QED
  BY <1>1 DEF ClaimsAreSummed

\* What a client claims of an order, in terms of what it has matched.
ClaimsAre ==
    \A c \in Clients, o \in Ids : \A f : f = fills[c] =>
        Claimed(c, o) = dExec[c][o] + f[o] + (IF req[c].id = o THEN Sum(f, Ids) ELSE 0)

\* And that is what is claimed.
LEMMA WhatIsClaimed == ClaimsAre
  BY DEF Claimed, ClaimsAre

\* The same of the next state.
LEMMA WhatIsClaimedLater ==
    ASSUME NEW c \in Clients, NEW o \in Ids, NEW f, f = fills'[c]
    PROVE  Claimed(c, o)' = dExec'[c][o] + f[o] + (IF req'[c].id = o THEN Sum(f, Ids) ELSE 0)
<1>1. ClaimsAre'
  BY WhatIsClaimed, PTL
<1> QED
  BY <1>1 DEF ClaimsAre

\* Nobody claims less than nothing.
LEMMA ClaimsAreNats ==
    ASSUME IInv, NEW c \in Clients, NEW o \in Ids
    PROVE  Claimed(c, o) \in Nat
<1>1. PICK f \in [Ids -> Nat] : f = fills[c]
  BY DEF IInv, Types
<1>2. Sum(f, Ids) \in Nat
  BY IdsAreFinite, SumIsNat
<1>3. dExec[c][o] \in Nat /\ f[o] \in Nat
  BY DEF IInv, Types
<1>4. Claimed(c, o) = dExec[c][o] + f[o] + (IF req[c].id = o THEN Sum(f, Ids) ELSE 0)
  BY <1>1, WhatIsClaimed DEF ClaimsAre
<1> QED
  BY <1>2, <1>3, <1>4

\* Nor do all together.
LEMMA OffersAreNats ==
    ASSUME IInv, NEW o \in Ids
    PROVE  Offered(o) \in Nat
<1> DEFINE f == [c \in Clients |-> Claimed(c, o)]
<1>1. \A c \in Clients : f[c] \in Nat
  BY ClaimsAreNats
<1>2. Offered(o) = Sum(f, Clients)
  BY ClaimsAddUp DEF ClaimsAreSummed
<1> HIDE DEF f
<1> QED
  BY <1>1, <1>2, MatcherAssumption, SumIsNat

\* Zeros add up to zero.
LEMMA NothingSums ==
    ASSUME NEW f, \A m \in Ids : f[m] = 0
    PROVE  Sum(f, Ids) = 0
<1>1. Sum(f, Ids) = Sum(f, {})
  <2> DEFINE none == {m \in Ids : FALSE}
  <2>1. none \in SUBSET Ids /\ none = {}
    OBVIOUS
  <2>2. (\A m \in Ids : f[m] \in Int) /\ \A m \in Ids \ none : f[m] = 0
    OBVIOUS
  <2> HIDE DEF none
  <2>3. Sum(f, Ids) = Sum(f, none)
    BY <2>1, <2>2, IdsAreFinite, SumOfZeros
  <2> QED
    BY <2>1, <2>3
<1> QED
  BY <1>1, SumOfNone

\* The claims on an order change as the one that a step changes does.
LEMMA OffersChange ==
    ASSUME IInv, NEW c \in Clients, NEW o \in Ids, NEW n \in Int,
           \A d \in Clients \ {c} : Claimed(d, o)' = Claimed(d, o),
           Claimed(c, o)' = Claimed(c, o) + n
    PROVE  Offered(o)' = Offered(o) + n
<1>1. PICK f : f = [d \in Clients |-> Claimed(d, o)]
  OBVIOUS
<1>2. PICK g : g = [d \in Clients |-> Claimed(d, o)']
  OBVIOUS
<1>3. \A d \in Clients : f[d] \in Int
  BY <1>1, ClaimsAreNats
<1>4. \A d \in Clients : g[d] = IF d = c THEN f[d] + n ELSE f[d]
  BY <1>1, <1>2
<1>5. Sum(g, Clients) = Sum(f, Clients) + n
  BY <1>3, <1>4, MatcherAssumption, SumChanges
<1>6. Offered(o) = Sum(f, Clients)
  BY <1>1, ClaimsAddUp DEF ClaimsAreSummed
<1>7. Offered(o)' = Sum(g, Clients)
  BY <1>2, ClaimsAddUpLater
<1> QED
  BY <1>5, <1>6, <1>7

\* A client whose variables stay as they are claims the same.
LEMMA ClaimStays ==
    ASSUME NEW c \in Clients, NEW o \in Ids,
           fills'[c] = fills[c], dExec'[c] = dExec[c], req'[c].id = req[c].id
    PROVE  Claimed(c, o)' = Claimed(c, o)
<1>1. PICK f : f = fills[c]
  OBVIOUS
<1>2. Claimed(c, o) = dExec[c][o] + f[o] + (IF req[c].id = o THEN Sum(f, Ids) ELSE 0)
  BY <1>1, WhatIsClaimed DEF ClaimsAre
<1>3. Claimed(c, o)' = dExec'[c][o] + f[o] + (IF req'[c].id = o THEN Sum(f, Ids) ELSE 0)
  BY <1>1, WhatIsClaimedLater
<1> QED
  BY <1>2, <1>3

\* A client whose task has matched nothing claims what it has traded.
LEMMA OnlyTradesAreClaimed ==
    ASSUME IInv, NEW c \in Clients, NEW o \in Ids, \A m \in Ids : fills[c][m] = 0
    PROVE  Claimed(c, o) = dExec[c][o]
<1>1. PICK f : f = fills[c]
  OBVIOUS
<1>2. f[o] = 0 /\ Sum(f, Ids) = 0
  BY <1>1, NothingSums
<1>3. dExec[c][o] \in Int
  BY DEF IInv, Types
<1>4. Claimed(c, o) = dExec[c][o] + f[o] + (IF req[c].id = o THEN Sum(f, Ids) ELSE 0)
  BY <1>1, WhatIsClaimed DEF ClaimsAre
<1> QED
  BY <1>2, <1>3, <1>4

\* The same of the next state.
LEMMA OnlyTradesAreClaimedLater ==
    ASSUME IInv', NEW c \in Clients, NEW o \in Ids, \A m \in Ids : fills'[c][m] = 0
    PROVE  Claimed(c, o)' = dExec'[c][o]
<1>1. PICK f : f = fills'[c]
  OBVIOUS
<1>2. f[o] = 0 /\ Sum(f, Ids) = 0
  BY <1>1, NothingSums
<1>3. dExec'[c][o] \in Int
  BY DEF IInv, Types
<1>4. Claimed(c, o)' = dExec'[c][o] + f[o] + (IF req'[c].id = o THEN Sum(f, Ids) ELSE 0)
  BY <1>1, WhatIsClaimedLater
<1> QED
  BY <1>2, <1>3, <1>4

\* An order that has not been matched, and is not committed, is nobody's.
LEMMA NewOrderIsUnclaimed ==
    ASSUME IInv, NEW o \in Ids, known[o] = NoOrder, status[o] = "NONE", NEW c \in Clients,
           Submitting(c) => req[c].id # o \/ pc[c] = "queued"
    PROVE  Claimed(c, o) = 0
<1>1. TradesInv(c) /\ fills[c] \in [Ids -> Nat] /\ dExec[c] \in [Ids -> Nat]
  BY DEF IInv, ClientInv, Types
<1>2. CASE ~Submitting(c) \/ pc[c] = "queued"
  <2>1. (\A m \in Ids : fills[c][m] = 0) /\ dExec[c][o] = 0
    BY <1>1, <1>2 DEF TradesInv
  <2> QED
    BY <2>1, OnlyTradesAreClaimed
<1>3. CASE Submitting(c) /\ pc[c] # "queued"
  <2>1. req[c].id # o
    BY <1>3
  <2>2. ~Writable(c, o)
    BY <2>1 DEF Writable
  <2>3. dExec[c][o] = 0 /\ fills[c][o] = 0
    BY <1>1, <2>2 DEF TradesInv
  <2>4. PICK f : f = fills[c]
    OBVIOUS
  <2>5. Claimed(c, o) = dExec[c][o] + f[o] + (IF req[c].id = o THEN Sum(f, Ids) ELSE 0)
    BY <2>4, WhatIsClaimed DEF ClaimsAre
  <2> QED
    BY <2>1, <2>3, <2>4, <2>5
<1> QED
  BY <1>2, <1>3

\* What nobody claims is not claimed in sum.
LEMMA UnclaimedIsNotOffered ==
    ASSUME NEW o \in Ids, \A c \in Clients : Claimed(c, o) = 0
    PROVE  Offered(o) = 0
<1>1. PICK f : f = [c \in Clients |-> Claimed(c, o)]
  OBVIOUS
<1>2. \A c \in Clients : f[c] = 0
  BY <1>1
<1>3. Offered(o) = Sum(f, Clients)
  BY <1>1, ClaimsAddUp DEF ClaimsAreSummed
<1> DEFINE none == {c \in Clients : FALSE}
<1>4. none \in SUBSET Clients /\ none = {}
  OBVIOUS
<1>5. (\A c \in Clients : f[c] \in Int) /\ \A c \in Clients \ none : f[c] = 0
  BY <1>2
<1> HIDE DEF none
<1>6. Sum(f, Clients) = Sum(f, none)
  BY <1>4, <1>5, MatcherAssumption, SumOfZeros
<1> QED
  BY <1>3, <1>4, <1>6, SumOfNone

\* The same of the next state.
LEMMA UnclaimedIsNotOfferedLater ==
    ASSUME NEW o \in Ids, \A c \in Clients : Claimed(c, o)' = 0
    PROVE  Offered(o)' = 0
<1>1. PICK f : f = [c \in Clients |-> Claimed(c, o)']
  OBVIOUS
<1>2. \A c \in Clients : f[c] = 0
  BY <1>1
<1>3. Offered(o)' = Sum(f, Clients)
  BY <1>1, ClaimsAddUpLater
<1> DEFINE none == {c \in Clients : FALSE}
<1>4. none \in SUBSET Clients /\ none = {}
  OBVIOUS
<1>5. (\A c \in Clients : f[c] \in Int) /\ \A c \in Clients \ none : f[c] = 0
  BY <1>2
<1> HIDE DEF none
<1>6. Sum(f, Clients) = Sum(f, none)
  BY <1>4, <1>5, MatcherAssumption, SumOfZeros
<1> QED
  BY <1>3, <1>4, <1>6, SumOfNone

-----------------------------------------------------------------------------
\* What NothingOfferedTwice says of one order.
OfferHolds(o) ==
    order[o] # NoOrder => book[o] + executed[o] + Offered(o) =< order[o].qty

\* NothingOfferedTwice says it of every order.
LEMMA OffersAre == NothingOfferedTwice <=> \A o \in Ids : OfferHolds(o)
  BY DEF NothingOfferedTwice, OfferHolds, Offered

\* A step of one client that gives no more of an order away than it takes back.
LEMMA OfferKept ==
    ASSUME IInv, IInv', NEW c \in Clients, NEW o \in Ids, OfferHolds(o),
           order'[o] \in {order[o], NoOrder},
           \A d \in Clients \ {c} : Claimed(d, o)' = Claimed(d, o),
           NEW n \in Int, Claimed(c, o)' = Claimed(c, o) + n,
           book'[o] + executed'[o] + n =< book[o] + executed[o]
    PROVE  OfferHolds(o)'
<1>1. Offered(o)' = Offered(o) + n /\ Offered(o) \in Nat
  BY OffersChange, OffersAreNats
<1>2. book[o] \in Nat /\ executed[o] \in Nat /\ book'[o] \in Nat /\ executed'[o] \in Nat
  BY DEF IInv, Types
<1>3. order[o] # NoOrder => order[o].qty \in Nat
  BY RowsAreRows DEF IInv, Types, RowOrNone
<1> QED
  BY <1>1, <1>2, <1>3 DEF OfferHolds

\* The others are left alone.
OthersStay(c) ==
    \A d \in Clients \ {c} :
        fills'[d] = fills[d] /\ dExec'[d] = dExec[d] /\ req'[d].id = req[d].id

\* So they claim the same.
LEMMA OthersClaimTheSame ==
    ASSUME NEW c \in Clients, OthersStay(c), NEW o \in Ids
    PROVE  \A d \in Clients \ {c} : Claimed(d, o)' = Claimed(d, o)
  BY ClaimStays DEF OthersStay

\* Steps that neither trade, match nor end anything.
LEMMA QuietOffers ==
    ASSUME IInv, IInv', NEW c \in Clients, NEW o \in Ids, OfferHolds(o),
           order'[o] = order[o], UNCHANGED <<book, executed, fills, dExec>>,
           OthersStay(c), req'[c].id = req[c].id \/ ~Submitting(c)
    PROVE  OfferHolds(o)'
<1>1. Claimed(c, o)' = Claimed(c, o) + 0
  <2>1. CASE req'[c].id = req[c].id
    <3>1. Claimed(c, o)' = Claimed(c, o) /\ Claimed(c, o) \in Nat
      BY <2>1, ClaimStays, ClaimsAreNats
    <3> QED
      BY <3>1
  <2>2. CASE ~Submitting(c)
    <3>1. \A m \in Ids : fills[c][m] = 0
      BY <2>2 DEF IInv, ClientInv, TradesInv
    <3>2. Claimed(c, o)' = dExec[c][o] /\ Claimed(c, o) = dExec[c][o] /\ dExec[c][o] \in Nat
      BY <3>1, OnlyTradesAreClaimed, OnlyTradesAreClaimedLater DEF IInv, Types
    <3> QED
      BY <3>2
  <2> QED
    BY <2>1, <2>2
<1>2. book[o] \in Nat /\ executed[o] \in Nat
  BY DEF IInv, Types
<1>3. book'[o] + executed'[o] + 0 =< book[o] + executed[o]
  BY <1>2
<1> QED
  BY <1>1, <1>3, OthersClaimTheSame, OfferKept

\* A new order is claimed by nobody, and not in the book.
LEMMA PlacedOffers ==
    ASSUME IInv, IInv', NEW c \in Clients, NEW row \in Core!OrderRow, NEW bps \in FeeBps,
           Core!Place(c, row, bps), UNCHANGED <<book, known, lane, fills>>,
           NEW o \in Ids, OfferHolds(o)
    PROVE  OfferHolds(o)'
<1> DEFINE r == [Core!NoRequest EXCEPT !.kind = "submit", !.id = nextId, !.bps = bps]
<1>0. nextId \in Nat /\ Types /\ RowsInv /\ \A d \in Clients : PhaseInv(d) /\ OwnRowInv(d)
  BY DEF IInv, Types, ClientInv
<1>1. /\ nextId \in Ids /\ pc[c] = "idle"
      /\ order' = [order EXCEPT ![nextId] = row]
      /\ req' = [req EXCEPT ![c] = r]
      /\ UNCHANGED <<status, executed, dExec, book, known, lane, fills>>
  BY DEF Core!Place, Core!dbVars
<1>2. ~Submitting(c)
  BY <1>0, <1>1 DEF PhaseInv, OnLane
<1>3. OthersStay(c)
  BY <1>0, <1>1 DEF OthersStay, Types
<1>4. CASE o # nextId
  <2>1. order'[o] = order[o]
    BY <1>0, <1>1, <1>4 DEF Types
  <2> QED
    BY <1>1, <1>2, <1>3, <2>1, QuietOffers
<1>5. CASE o = nextId
  <2>1. known[o] = NoOrder /\ status[o] = "NONE" /\ executed[o] = 0 /\ book[o] = 0
    BY <1>0, <1>5 DEF RowsInv
  <2>2. \A d \in Clients : Submitting(d) => req[d].id # o
    BY <1>0, <1>5 DEF OwnRowInv
  <2>3. \A d \in Clients : Claimed(d, o) = 0
    BY <2>1, <2>2, NewOrderIsUnclaimed
  <2>4. Claimed(c, o)' = 0
    <3>1. (\A m \in Ids : fills[c][m] = 0) /\ dExec[c][o] = 0
      BY <1>2 DEF IInv, ClientInv, TradesInv
    <3> QED
      BY <1>1, <3>1, OnlyTradesAreClaimedLater
  <2>5. Offered(o)' = 0
    BY <1>3, <2>3, <2>4, OthersClaimTheSame, UnclaimedIsNotOfferedLater
  <2>6. order'[o] = row /\ row.qty \in Nat
    BY <1>0, <1>1, <1>5, RowsAreRows DEF Types
  <2> QED
    BY <1>1, <2>1, <2>5, <2>6 DEF OfferHolds
<1> QED
  BY <1>4, <1>5

\* New requests claim nothing.
LEMMA RequestOffers ==
    ASSUME IInv, IInv', NEW c \in Clients, Request(c), NEW o \in Ids, OfferHolds(o)
    PROVE  OfferHolds(o)'
<1>1. ASSUME NEW row \in Core!OrderRow, Core!PlaceRefused(c, row) PROVE OfferHolds(o)'
  <2>1. UNCHANGED <<order, executed, req, dExec, book, fills>>
    BY <1>1 DEF Request, Core!PlaceRefused, Core!dbVars
  <2>2. OthersStay(c)
    BY <2>1 DEF OthersStay
  <2> QED
    BY <2>1, <2>2, QuietOffers
<1>2. ASSUME NEW row \in Core!OrderRow, NEW bps \in FeeBps, Core!Place(c, row, bps)
      PROVE  OfferHolds(o)'
  BY <1>2, PlacedOffers DEF Request
<1>3. ASSUME NEW p \in Ids, Core!ReadCancel(c, p) PROVE OfferHolds(o)'
  <2>1. /\ pc[c] = "idle" /\ UNCHANGED <<order, executed, dExec, book, fills>>
        /\ \A d \in Clients \ {c} : req'[d] = req[d]
    BY <1>3 DEF Request, Core!ReadCancel, Core!dbVars, IInv, Types
  <2>2. OthersStay(c)
    BY <2>1 DEF OthersStay
  <2>3. ~Submitting(c)
    BY <2>1 DEF IInv, ClientInv, PhaseInv, OnLane
  <2> QED
    BY <2>1, <2>2, <2>3, QuietOffers
<1> QED
  BY <1>1, <1>2, <1>3, MatcherAssumption DEF Request, Core!Request

\* Statements of Exchange claim nothing.
LEMMA StatementOffers ==
    ASSUME IInv, IInv', NEW c \in Clients, Statement(c), NEW o \in Ids, OfferHolds(o)
    PROVE  OfferHolds(o)'
<1>1. UNCHANGED <<order, executed, dExec, book, fills>>
  BY StatementAdvances
<1>2. PICK r \in RequestType, s \in Steps, w \in [Ids -> Status \cup {"NONE"}] :
          Advances(c, r, s, w)
  BY StatementAdvances
<1>3. req'[c].id = req[c].id /\ \A d \in Clients \ {c} : req'[d] = req[d]
  BY <1>2 DEF Advances, IInv, Types
<1>4. OthersStay(c)
  BY <1>1, <1>3 DEF OthersStay
<1> QED
  BY <1>1, <1>3, <1>4, QuietOffers

\* Handing in, leaving the loop and leaving the lane.
LEMMA LaneOffers ==
    ASSUME IInv, IInv', NEW c \in Clients, HandIn(c) \/ LeaveLoop(c) \/ LeaveLane(c),
           NEW o \in Ids, OfferHolds(o)
    PROVE  OfferHolds(o)'
<1>1. UNCHANGED <<order, executed, dExec, book, fills>>
  BY DEF HandIn, LeaveLoop, LeaveLane, dbVars, coreVars
<1>2. \A d \in Clients : req'[d].id = req[d].id
  <2>1. CASE HandIn(c) \/ LeaveLane(c)
    BY <2>1 DEF HandIn, LeaveLane, coreVars
  <2>2. CASE LeaveLoop(c)
    <3>1. PICK n : req' = [req EXCEPT ![c].remaining = n]
      BY <2>2 DEF LeaveLoop
    <3>2. req \in [Clients -> RequestType]
      BY DEF IInv, Types
    <3> QED
      BY <3>1, <3>2 DEF RequestType
  <2> QED
    BY <2>1, <2>2
<1>3. OthersStay(c)
  BY <1>1, <1>2 DEF OthersStay
<1> QED
  BY <1>1, <1>2, <1>3, QuietOffers

\* A sum changes as its one changed element does.
LEMMA OneLeavesTheSum ==
    ASSUME NEW f, NEW g, NEW m \in Ids, NEW n \in Int, \A p \in Ids : f[p] \in Int,
           \A p \in Ids : g[p] = IF p = m THEN f[p] + n ELSE f[p]
    PROVE  Sum(g, Ids) = Sum(f, Ids) + n
<1>1. Sum(g, Ids) = IF m \in Ids THEN Sum(f, Ids) + n ELSE Sum(f, Ids)
  BY IdsAreFinite, SumChanges
<1> QED
  BY <1>1

\* A fill that is settled becomes a trade of both orders.
LEMMA FillOffers ==
    ASSUME IInv, IInv', NEW c \in Clients, FillMaker(c), NEW o \in Ids, OfferHolds(o)
    PROVE  OfferHolds(o)'
<1>1. PICK taker \in Ids, m \in Ids, r \in RequestType : Fills(c, taker, m, r)
  BY FillingFills
<1>2. PICK f : f = fills[c] /\ \A p \in Ids : f[p] \in Nat
  BY DEF IInv, Types
<1>3. PICK g : g = fills'[c]
  OBVIOUS
<1>4. PICK q \in Nat : q = f[m]
  BY <1>2
<1>5. /\ taker = req[c].id /\ m # taker /\ f[taker] = 0 /\ r.id = taker
      /\ fills' = [fills EXCEPT ![c][m] = 0]
      /\ dExec' = [dExec EXCEPT ![c][m] = @ + q, ![c][taker] = @ + q]
      /\ req' = [req EXCEPT ![c] = r]
      /\ UNCHANGED <<order, executed, book>>
  BY <1>1, <1>2, <1>4 DEF Fills
<1>6. Types
  BY DEF IInv
<1>7. \A p \in Ids : g[p] = IF p = m THEN 0 ELSE f[p]
  BY <1>2, <1>3, <1>5, <1>6 DEF Types
<1>8. \A p \in Ids : dExec'[c][p] = IF p \in {m, taker} THEN dExec[c][p] + q ELSE dExec[c][p]
  BY <1>5, <1>6 DEF Types
<1>9. req'[c].id = taker
  BY <1>5, <1>6 DEF Types
<1>10. OthersStay(c)
  BY <1>5, <1>6 DEF OthersStay, Types
<1>11. Sum(g, Ids) = Sum(f, Ids) - q
  <2>0. PICK n \in Int : n = 0 - q
    OBVIOUS
  <2>1. \A p \in Ids : f[p] \in Int
    BY <1>2
  <2>2. \A p \in Ids : g[p] = IF p = m THEN f[p] + n ELSE f[p]
    BY <1>4, <1>7, <2>0
  <2>4. Sum(g, Ids) = Sum(f, Ids) + n
    BY <2>1, <2>2, OneLeavesTheSum
  <2>3. Sum(f, Ids) \in Nat
    BY <1>2, IdsAreFinite, SumIsNat
  <2> QED
    BY <2>0, <2>3, <2>4
<1>12. Claimed(c, o) = dExec[c][o] + f[o] + (IF taker = o THEN Sum(f, Ids) ELSE 0)
  BY <1>2, <1>5, WhatIsClaimed DEF ClaimsAre
<1>13. Claimed(c, o)' = dExec'[c][o] + g[o] + (IF taker = o THEN Sum(g, Ids) ELSE 0)
  BY <1>3, <1>9, WhatIsClaimedLater
<1>14. PICK s \in Nat, e \in Nat : s = Sum(f, Ids) /\ e = dExec[c][o]
  BY <1>2, <1>6, IdsAreFinite, SumIsNat DEF Types
<1>15. Claimed(c, o)' = Claimed(c, o) + 0
  <2>1. CASE o = m
    <3>1. taker # o /\ g[o] = 0 /\ f[o] = q /\ dExec'[c][o] = e + q
      BY <1>4, <1>5, <1>7, <1>8, <1>14, <2>1
    <3>2. Claimed(c, o) = e + q + 0
      BY <1>12, <1>14, <3>1
    <3>3. Claimed(c, o)' = e + q + 0 + 0
      BY <1>13, <3>1
    <3> QED
      BY <3>2, <3>3
  <2>2. CASE o = taker
    <3>1. g[o] = 0 /\ f[o] = 0 /\ dExec'[c][o] = e + q
      BY <1>5, <1>7, <1>8, <1>14, <2>2
    <3>2. Claimed(c, o) = e + 0 + s
      BY <1>12, <1>14, <2>2, <3>1
    <3>3. Claimed(c, o)' = e + q + 0 + (s - q)
      BY <1>11, <1>13, <1>14, <2>2, <3>1
    <3> QED
      BY <3>2, <3>3
  <2>3. CASE o \notin {m, taker}
    <3>1. taker # o /\ g[o] = f[o] /\ dExec'[c][o] = e /\ f[o] \in Nat
      BY <1>2, <1>7, <1>8, <1>14, <2>3
    <3>2. Claimed(c, o) = e + f[o] + 0
      BY <1>12, <1>14, <3>1
    <3>3. Claimed(c, o)' = e + f[o] + 0
      BY <1>13, <3>1
    <3> QED
      BY <3>1, <3>2, <3>3
  <2> QED
    BY <2>1, <2>2, <2>3
<1>16. book'[o] + executed'[o] + 0 =< book[o] + executed[o]
  BY <1>5, <1>6 DEF Types
<1> QED
  BY <1>5, <1>10, <1>15, <1>16, OthersClaimTheSame, OfferKept

\* What is matched leaves the book, and the taker's own order is offered for the first time.
LEMMA MatchOffers ==
    ASSUME IInv, IInv', NEW c \in Clients, MatchIncoming(c), NEW o \in Ids, OfferHolds(o)
    PROVE  OfferHolds(o)'
<1>1. PICK taker \in Ids, t \in [Ids -> Nat], rest \in Nat : Matches(c, taker, t, rest)
  BY MatchingMatches
<1>2. /\ Submitting(c) /\ pc[c] = "queued" /\ taker = req[c].id
      /\ known[taker] = NoOrder /\ t[taker] = 0
      /\ Sum(t, Ids) \in Nat /\ Sum(t, Ids) + rest =< order[taker].qty
      /\ book' = [m \in Ids |-> IF m = taker THEN rest ELSE book[m] - t[m]]
      /\ fills' = [fills EXCEPT ![c] = t]
      /\ UNCHANGED <<order, status, executed, req, dExec>>
  BY <1>1 DEF Matches
<1>3. Types /\ RowsInv /\ TradesInv(c) /\ OwnRowInv(c) /\ DistinctInv
  BY DEF IInv, ClientInv
<1>4. OthersStay(c) /\ fills'[c] = t
  BY <1>2, <1>3 DEF OthersStay, Types
<1>5. Claimed(c, o) = 0
  <2>1. (\A m \in Ids : fills[c][m] = 0) /\ dExec[c][o] = 0
    BY <1>2, <1>3 DEF TradesInv
  <2> QED
    BY <2>1, OnlyTradesAreClaimed
<1>6. Claimed(c, o)' = t[o] + (IF taker = o THEN Sum(t, Ids) ELSE 0)
  <2>1. dExec'[c][o] = 0
    BY <1>2, <1>3 DEF TradesInv
  <2>2. Claimed(c, o)' = dExec'[c][o] + t[o] + (IF req'[c].id = o THEN Sum(t, Ids) ELSE 0)
    BY <1>4, WhatIsClaimedLater
  <2> QED
    BY <1>2, <2>1, <2>2
<1>7. book[o] \in Nat /\ executed[o] \in Nat
  BY <1>3 DEF Types
<1>8. CASE o # taker
  <2>1. Claimed(c, o)' = Claimed(c, o) + t[o]
    BY <1>5, <1>6, <1>8
  <2>2. book'[o] + executed'[o] + t[o] =< book[o] + executed[o]
    BY <1>2, <1>7, <1>8
  <2>3. order'[o] = order[o]
    BY <1>2
  <2>4. t[o] \in Int
    OBVIOUS
  <2> QED
    BY <1>4, <2>1, <2>2, <2>3, <2>4, OthersClaimTheSame, OfferKept
<1>9. CASE o = taker
  <2>1. status[o] = "NONE" /\ executed[o] = 0
    BY <1>2, <1>3, <1>9 DEF OwnRowInv, RowsInv
  <2>2. \A d \in Clients : Submitting(d) => req[d].id # o \/ pc[d] = "queued"
    BY <1>2, <1>3, <1>9 DEF DistinctInv
  <2>3. \A d \in Clients : Claimed(d, o) = 0
    BY <1>2, <1>9, <2>1, <2>2, NewOrderIsUnclaimed
  <2>4. Offered(o) = 0
    BY <2>3, UnclaimedIsNotOffered
  <2>5. Claimed(c, o)' = Claimed(c, o) + Sum(t, Ids)
    BY <1>2, <1>5, <1>6, <1>9
  <2>6. Offered(o)' = Offered(o) + Sum(t, Ids)
    <3>1. Sum(t, Ids) \in Int
      BY <1>2
    <3> QED
      BY <1>4, <2>5, <3>1, OthersClaimTheSame, OffersChange
  <2>7. book'[o] = rest
    BY <1>2, <1>9
  <2>8. PICK s \in Nat : s = Sum(t, Ids)
    BY <1>2
  <2>9. book'[o] + executed'[o] + Offered(o)' = rest + s
    BY <1>2, <2>1, <2>4, <2>6, <2>7, <2>8
  <2>10. order[o] \in Core!OrderRow /\ order[o].qty \in Nat /\ s + rest =< order[o].qty
    BY <1>1, <1>2, <1>9, <2>8, RowsAreRows DEF Matches
  <2> QED
    BY <1>2, <2>9, <2>10 DEF OfferHolds
<1> QED
  BY <1>8, <1>9

\* The trades of a transaction become everybody's.
LEMMA CommitOffers ==
    ASSUME IInv, IInv', NEW c \in Clients, Commit(c), NEW o \in Ids, OfferHolds(o)
    PROVE  OfferHolds(o)'
<1>1. /\ pc[c] = "commit"
      /\ executed' = [p \in Ids |-> Core!ExecutedSeen(c, p)]
      /\ Core!EndRequest(c)
      /\ UNCHANGED <<order, book, fills>>
  BY DEF Commit, Core!Commit
<1>2. /\ dExec'[c] = Core!NoExec
      /\ \A d \in Clients \ {c} : req'[d] = req[d] /\ dExec'[d] = dExec[d]
  BY <1>1, EndedClient
<1>3. OthersStay(c)
  BY <1>1, <1>2 DEF OthersStay
<1>4. PICK e \in Nat : e = dExec[c][o]
  BY DEF IInv, Types
<1>5. \A m \in Ids : fills[c][m] = 0
  BY <1>1 DEF IInv, ClientInv, TradesInv
<1>6. Claimed(c, o) = e
  BY <1>4, <1>5, OnlyTradesAreClaimed
<1>7. Claimed(c, o)' = 0
  <2>1. dExec'[c][o] = 0
    BY <1>2 DEF Core!NoExec
  <2> QED
    BY <1>1, <1>5, <2>1, OnlyTradesAreClaimedLater
<1>8. PICK n \in Int : n = 0 - e
  OBVIOUS
<1>9. Claimed(c, o)' = Claimed(c, o) + n
  BY <1>6, <1>7, <1>8
<1>10. book'[o] + executed'[o] + n =< book[o] + executed[o]
  <2>1. executed'[o] = executed[o] + e
    BY <1>1, <1>4 DEF Core!ExecutedSeen
  <2>2. executed[o] \in Nat /\ book[o] \in Nat
    BY DEF IInv, Types
  <2> QED
    BY <1>1, <1>8, <2>1, <2>2
<1> QED
  BY <1>1, <1>3, <1>9, <1>10, OthersClaimTheSame, OfferKept

\* What a transaction has matched is gone: the book does not get it back.
LEMMA RollbackOffers ==
    ASSUME IInv, IInv', NEW c \in Clients, Rollback(c), NEW o \in Ids, OfferHolds(o)
    PROVE  OfferHolds(o)'
<1>1. /\ Core!EndRequest(c)
      /\ order' = IF Submitting(c) THEN [order EXCEPT ![req[c].id] = NoOrder] ELSE order
      /\ fills' = [fills EXCEPT ![c] = NoFills]
      /\ UNCHANGED <<executed, book>>
  BY DEF Rollback, Core!Rollback, Core!dbVars, Submitting
<1>2. /\ dExec'[c] = Core!NoExec
      /\ \A d \in Clients \ {c} : req'[d] = req[d] /\ dExec'[d] = dExec[d]
  BY <1>1, EndedClient
<1>3. OthersStay(c) /\ \A m \in Ids : fills'[c][m] = 0
  BY <1>1, <1>2 DEF OthersStay, IInv, Types, NoFills
<1>4. PICK k \in Nat : k = Claimed(c, o)
  BY ClaimsAreNats
<1>5. Claimed(c, o)' = 0
  <2>1. dExec'[c][o] = 0
    BY <1>2 DEF Core!NoExec
  <2> QED
    BY <1>3, <2>1, OnlyTradesAreClaimedLater
<1>6. PICK n \in Int : n = 0 - k /\ n =< 0
  OBVIOUS
<1>7. Claimed(c, o)' = Claimed(c, o) + n
  BY <1>4, <1>5, <1>6
<1>8. book'[o] + executed'[o] + n =< book[o] + executed[o]
  <2>1. executed[o] \in Nat /\ book[o] \in Nat
    BY DEF IInv, Types
  <2> QED
    BY <1>1, <1>6, <2>1
<1>9. order'[o] \in {order[o], NoOrder}
  BY <1>1 DEF IInv, Types
<1> QED
  BY <1>3, <1>7, <1>8, <1>9, OthersClaimTheSame, OfferKept

\* A restart leaves only what has been traded.
LEMMA RestartOffers ==
    ASSUME IInv, IInv', Restart, NEW o \in Ids, OfferHolds(o)
    PROVE  OfferHolds(o)'
<1>1. /\ order'[o] \in {order[o], NoOrder} /\ executed'[o] = executed[o] /\ book'[o] = 0
  BY DEF Restart, dbVars, NoFills
<1>2. ASSUME NEW c \in Clients PROVE Claimed(c, o)' = 0
  <2>1. (\A m \in Ids : fills'[c][m] = 0) /\ dExec'[c][o] = 0
    BY DEF Restart, NoFills, Core!NoExec
  <2> QED
    BY <2>1, OnlyTradesAreClaimedLater
<1>3. Offered(o)' = 0
  BY <1>2, UnclaimedIsNotOfferedLater
<1>4. Offered(o) \in Nat /\ book[o] \in Nat /\ executed[o] \in Nat
  BY OffersAreNats DEF IInv, Types
<1>5. order[o] # NoOrder => order[o].qty \in Nat
  BY RowsAreRows DEF IInv, Types, RowOrNone
<1> QED
  BY <1>1, <1>3, <1>4, <1>5 DEF OfferHolds

\* Nothing changes when no variable does.
LEMMA StutterOffers ==
    ASSUME IInv, IInv', UNCHANGED vars, NEW o \in Ids, OfferHolds(o)
    PROVE  OfferHolds(o)'
<1>1. UNCHANGED <<order, executed, req, dExec, book, fills>>
  BY DEF vars, coreVars
<1>2. CASE Clients = {}
  <2>1. Offered(o)' = 0 /\ Offered(o) \in Nat
    BY <1>2, UnclaimedIsNotOfferedLater, OffersAreNats
  <2>2. book[o] \in Nat /\ executed[o] \in Nat
    BY DEF IInv, Types
  <2>3. order[o] # NoOrder => order[o].qty \in Nat
    BY RowsAreRows DEF IInv, Types, RowOrNone
  <2> QED
    BY <1>1, <2>1, <2>2, <2>3 DEF OfferHolds
<1>3. ASSUME NEW c \in Clients PROVE OfferHolds(o)'
  BY <1>1, QuietOffers DEF OthersStay
<1> QED
  BY <1>2, <1>3

\* Every step keeps what is offered within the orders.
LEMMA OffersStayWithinOrders ==
    IInv /\ NothingOfferedTwice /\ [Next]_vars => NothingOfferedTwice'
<1> SUFFICES ASSUME IInv, NothingOfferedTwice, [Next]_vars PROVE NothingOfferedTwice'
  OBVIOUS
<1>1. IInv'
  BY NextKeeps
<1>2. ASSUME NEW o \in Ids PROVE OfferHolds(o)'
  <2>1. OfferHolds(o)
    BY OffersAre
  <2>2. CASE Restart
    BY <1>1, <2>1, <2>2, RestartOffers
  <2>3. ASSUME NEW c \in Clients, Request(c) PROVE OfferHolds(o)'
    BY <1>1, <2>1, <2>3, RequestOffers
  <2>4. ASSUME NEW c \in Clients, Proceed(c) PROVE OfferHolds(o)'
    BY <1>1, <2>1, <2>4, LaneOffers, MatchOffers, FillOffers, StatementOffers, CommitOffers,
       RollbackOffers DEF Proceed, Fail
  <2>5. ASSUME NEW c \in Clients, Abort(c) PROVE OfferHolds(o)'
    BY <1>1, <2>1, <2>5, RollbackOffers DEF Abort
  <2>6. CASE UNCHANGED vars
    BY <1>1, <2>1, <2>6, StutterOffers
  <2> QED
    BY <2>2, <2>3, <2>4, <2>5, <2>6 DEF Next
<1> QED
  BY <1>2 DEF NothingOfferedTwice, OfferHolds, Offered

\* No unit of an order is offered twice: what rests in the book, what open transactions have
\* matched and what has been traded never exceed the order together, whatever is aborted,
\* cancelled or restarted in between.
THEOREM UnitsAreOfferedOnce == Spec => []NothingOfferedTwice
<1>1. Init => NothingOfferedTwice
  <2>1. ASSUME Init, NEW o \in Ids PROVE order[o] = NoOrder
    BY <2>1 DEF Init, Core!Init
  <2> QED
    BY <2>1 DEF NothingOfferedTwice
<1> QED
  BY <1>1, TypesAndPhases, OffersStayWithinOrders, PTL DEF Spec
=============================================================================
