------------------------- MODULE MarketStreamsProofs -------------------------
(***************************************************************************)
(* Theorems about MarketStreams, for any number of connections, orders,    *)
(* symbols and changes.                                                    *)
(***************************************************************************)
EXTENDS MarketStreamsProperties, FiniteSetTheorems, SequenceTheorems, WellFoundedInduction, TLAPS

-----------------------------------------------------------------------------
(* Candles: what comes of a sequence member by member.                     *)

\* What holds of 0 and passes from each number to the next holds of all.
LEMMA Counting ==
    ASSUME NEW Good, 0 \in Good, \A n \in Nat : n \in Good => n + 1 \in Good
    PROVE  Nat \subseteq Good
<1> DEFINE Bad == Nat \ Good
<1>1. SUFFICES ASSUME Bad # {} PROVE FALSE
  OBVIOUS
<1>2. PICK n \in Bad : \A m \in Bad : ~(<<m, n>> \in OpToRel(<, Nat))
  <2>1. Bad \subseteq Nat
    OBVIOUS
  <2> HIDE DEF Bad
  <2> QED
    BY <1>1, <2>1, NatLessThanWellFounded, WFMin
<1>0. n \in Nat /\ n # 0
  BY <1>2
<1>3. n - 1 \in Nat /\ n - 1 < n /\ (n - 1) + 1 = n
  BY <1>0
<1>4. n - 1 \notin Bad
  BY <1>2, <1>3 DEF OpToRel
<1> QED
  BY <1>2, <1>3, <1>4

Longest(T) == CHOOSE i \in T : \A j \in T : i >= j

\* The highest place is the one that no other exceeds.
LEMMA LongestIs ==
    ASSUME NEW T \in SUBSET Nat, NEW n \in T, \A j \in T : n >= j
    PROVE  Longest(T) = n
<1>1. \A i \in T : (\A j \in T : i >= j) => i = n
  OBVIOUS
<1> QED
  BY <1>1 DEF Longest

\* The three folds over trades, and the one over periods: what they begin with, and what one
\* more makes of what there is.
Base(kind, p) ==
    CASE kind = "trades" -> <<>> [] kind = "buckets" -> <<>> [] kind = "volume" -> 0
      [] kind = "periods" -> p.base

More(kind, p, s, x) ==
    CASE kind = "trades" -> IF p.from =< x.at /\ x.at < p.to THEN Append(s, x) ELSE s
      [] kind = "buckets" -> AddTrade(s, x)
      [] kind = "volume" -> IF FloorTo(x.at) = p THEN s + x.qty ELSE s
      [] kind = "periods" -> NextCandle(p.buckets, s, x)

\* it holds what comes of the members of any places up to n.
AreFolded(kind, p, xs, n, it) ==
    it = [T \in SUBSET (1..n) |->
             IF T = {} THEN Base(kind, p)
             ELSE More(kind, p, it[T \ {Longest(T)}], xs[Longest(T)])]

\* Of a shorter sequence it holds what it holds of the longer one.
LEMMA FoldsAgree ==
    ASSUME NEW c, NEW d, NEW kind, NEW p, NEW m \in Nat, NEW n \in Nat, m =< n,
           \A i \in 1..m : c[i] = d[i],
           NEW it, AreFolded(kind, p, c, m, it), NEW jt, AreFolded(kind, p, d, n, jt)
    PROVE  it[1..m] = jt[1..m]
<1> DEFINE Good == {l \in Nat : l =< m => it[1..l] = jt[1..l]}
<1>1. \A l \in Nat : l =< m => 1..l \in SUBSET (1..m) /\ 1..l \in SUBSET (1..n)
  OBVIOUS
<1>2. 0 \in Good
  <2>1. 1..0 = {}
    OBVIOUS
  <2> QED
    BY <1>1, <2>1 DEF AreFolded
<1>3. ASSUME NEW l \in Nat, l \in Good PROVE l + 1 \in Good
  <2> SUFFICES ASSUME l + 1 =< m PROVE it[1..(l + 1)] = jt[1..(l + 1)]
    OBVIOUS
  <2> DEFINE T == 1..(l + 1)
  <2>1. T # {} /\ Longest(T) = l + 1 /\ T \ {l + 1} = 1..l /\ l + 1 \in 1..m
    <3>1. T \in SUBSET Nat /\ l + 1 \in T /\ \A j \in T : l + 1 >= j
      OBVIOUS
    <3>2. T # {} /\ T \ {l + 1} = 1..l /\ l + 1 \in 1..m
      OBVIOUS
    <3> QED
      BY <3>1, <3>2, LongestIs
  <2>2. T \in SUBSET (1..m) /\ T \in SUBSET (1..n)
    BY <1>1
  <2> HIDE DEF T
  <2>3. it[T] = More(kind, p, it[1..l], c[l + 1])
    <3>1. it[T] = IF T = {} THEN Base(kind, p)
                  ELSE More(kind, p, it[T \ {Longest(T)}], c[Longest(T)])
      BY <2>2, Zenon DEF AreFolded
    <3> QED
      BY <2>1, <3>1, Zenon
  <2>4. jt[T] = More(kind, p, jt[1..l], d[l + 1])
    <3>1. jt[T] = IF T = {} THEN Base(kind, p)
                  ELSE More(kind, p, jt[T \ {Longest(T)}], d[Longest(T)])
      BY <2>2, Zenon DEF AreFolded
    <3> QED
      BY <2>1, <3>1, Zenon
  <2>5. it[1..l] = jt[1..l] /\ c[l + 1] = d[l + 1]
    BY <1>3, <2>1
  <2>6. it[T] = jt[T]
    BY <2>3, <2>4, <2>5
  <2> QED
    BY <2>6 DEF T
<1>4. Nat \subseteq Good
  <2> HIDE DEF Good
  <2> QED
    BY <1>2, <1>3, Counting
<1> QED
  BY <1>4

\* There is such a function, place by place.
LEMMA FoldsExist ==
    ASSUME NEW c, NEW kind, NEW p, NEW m \in Nat
    PROVE  \E it : AreFolded(kind, p, c, m, it)
<1> DEFINE Good == {n \in Nat : \E it : AreFolded(kind, p, c, n, it)}
<1>1. 0 \in Good
  <2> DEFINE it == [T \in SUBSET (1..0) |-> Base(kind, p)]
  <2>1. \A T \in SUBSET (1..0) : T = {}
    OBVIOUS
  <2>2. AreFolded(kind, p, c, 0, it)
    BY <2>1 DEF AreFolded
  <2> QED
    BY <2>2
<1>2. ASSUME NEW n \in Nat, n \in Good PROVE n + 1 \in Good
  <2>1. PICK it : AreFolded(kind, p, c, n, it)
    BY <1>2
  <2> DEFINE E(T) == IF n + 1 \in T THEN More(kind, p, it[T \ {n + 1}], c[n + 1]) ELSE it[T]
             jt == [T \in SUBSET (1..(n + 1)) |-> E(T)]
             F(T) == IF T = {} THEN Base(kind, p) ELSE More(kind, p, jt[T \ {Longest(T)}], c[Longest(T)])
  <2>2. ASSUME NEW T \in SUBSET (1..(n + 1)) PROVE E(T) = F(T)
    <3>1. CASE n + 1 \in T
      <4>1. Longest(T) = n + 1
        <5>1. T \in SUBSET Nat /\ \A j \in T : n + 1 >= j
          OBVIOUS
        <5> QED
          BY <3>1, <5>1, LongestIs
      <4>2. T \ {n + 1} \in SUBSET (1..(n + 1)) /\ n + 1 \notin T \ {n + 1} /\ T # {}
        BY <3>1
      <4>3. jt[T \ {n + 1}] = it[T \ {n + 1}]
        BY <4>2
      <4>4. E(T) = More(kind, p, it[T \ {n + 1}], c[n + 1])
        BY <3>1
      <4> HIDE DEF jt, E
      <4> QED
        BY <4>1, <4>2, <4>3, <4>4
    <3>2. CASE n + 1 \notin T
      <4>1. T \in SUBSET (1..n)
        BY <3>2
      <4>2. it[T] = IF T = {} THEN Base(kind, p) ELSE More(kind, p, it[T \ {Longest(T)}], c[Longest(T)])
        BY <2>1, <4>1 DEF AreFolded
      <4>3. T \ {Longest(T)} \in SUBSET (1..(n + 1)) /\ n + 1 \notin T \ {Longest(T)}
        BY <3>2
      <4>4. jt[T \ {Longest(T)}] = it[T \ {Longest(T)}]
        BY <4>3
      <4>5. E(T) = it[T]
        BY <3>2
      <4> HIDE DEF jt, E
      <4> QED
        BY <4>2, <4>4, <4>5
    <3> QED
      BY <3>1, <3>2
  <2>3. jt = [T \in SUBSET (1..(n + 1)) |-> F(T)]
    <3>1. [T \in SUBSET (1..(n + 1)) |-> E(T)] = [T \in SUBSET (1..(n + 1)) |-> F(T)]
      <4> HIDE DEF E, F
      <4> QED
        BY <2>2
    <3> QED
      BY <3>1
  <2>4. AreFolded(kind, p, c, n + 1, jt)
    <3> HIDE DEF jt
    <3> QED
      BY <2>3 DEF AreFolded
  <2> QED
    <3> HIDE DEF jt
    <3> QED
      BY <2>4
<1>3. Nat \subseteq Good
  <2> HIDE DEF Good
  <2> QED
    BY <1>1, <1>2, Counting
<1> QED
  BY <1>3

\* What comes of all members of a sequence.
Folded(kind, p, c) == (CHOOSE it : AreFolded(kind, p, c, Len(c), it))[1..Len(c)]

\* It is what any longer function of the folds holds of its places.
LEMMA FoldedIs ==
    ASSUME NEW X, NEW c \in Seq(X), NEW kind, NEW p, NEW n \in Nat, Len(c) =< n, NEW d,
           \A i \in 1..Len(c) : c[i] = d[i], NEW it, AreFolded(kind, p, d, n, it)
    PROVE  Folded(kind, p, c) = it[1..Len(c)]
<1> DEFINE jt == CHOOSE kt : AreFolded(kind, p, c, Len(c), kt)
<1>1. Len(c) \in Nat
  OBVIOUS
<1>2. AreFolded(kind, p, c, Len(c), jt)
  BY <1>1, FoldsExist
<1>3. Folded(kind, p, c) = jt[1..Len(c)]
  BY DEF Folded
<1> HIDE DEF jt
<1> QED
  BY <1>1, <1>2, <1>3, FoldsAgree

\* Nothing comes of nothing.
LEMMA FoldedNone ==
    ASSUME NEW kind, NEW p
    PROVE  Folded(kind, p, <<>>) = Base(kind, p)
<1> DEFINE c == <<>>
<1>1. /\ c \in Seq({}) /\ Len(c) = 0 /\ 1..Len(c) = {} /\ {} \in SUBSET (1..0)
      /\ \A i \in 1..Len(c) : c[i] = c[i]
  OBVIOUS
<1>0. Len(c) =< 0 /\ 0 \in Nat
  BY <1>1
<1> HIDE DEF c
<1>2. PICK it : AreFolded(kind, p, c, 0, it)
  BY FoldsExist
<1>3. it[{}] = Base(kind, p)
  BY <1>1, <1>2 DEF AreFolded
<1>4. Folded(kind, p, c) = it[1..Len(c)]
  <2>1. c \in Seq({}) /\ Len(c) =< 0 /\ \A i \in 1..Len(c) : c[i] = c[i]
    BY <1>0, <1>1
  <2> QED
    BY <1>0, <1>2, <2>1, FoldedIs
<1>5. Folded(kind, p, c) = Base(kind, p)
  BY <1>1, <1>3, <1>4
<1> QED
  BY <1>5 DEF c

\* One member more.
LEMMA FoldedMore ==
    ASSUME NEW X, NEW c \in Seq(X), NEW x \in X, NEW kind, NEW p
    PROVE  Folded(kind, p, Append(c, x)) = More(kind, p, Folded(kind, p, c), x)
<1> DEFINE d == Append(c, x)
           n == Len(c) + 1
           D == 1..n
<1>1. /\ Len(c) \in Nat /\ n \in Nat /\ d \in Seq(X) /\ Len(d) = n
      /\ \A i \in 1..Len(c) : c[i] = d[i]
      /\ d[n] = x /\ Len(c) =< n
  OBVIOUS
<1>2. Longest(D) = n /\ D \ {n} = 1..Len(c) /\ D # {}
  <2>1. D \in SUBSET Nat /\ n \in D /\ \A j \in D : n >= j
    BY <1>1
  <2>2. D \ {n} = 1..Len(c)
    BY <1>1
  <2> QED
    BY <2>1, <2>2, LongestIs
<1> HIDE DEF d, n
<1>3. PICK it : AreFolded(kind, p, d, n, it)
  BY <1>1, FoldsExist
<1>4. Folded(kind, p, c) = it[1..Len(c)]
  BY <1>1, <1>3, FoldedIs
<1>5. Folded(kind, p, d) = it[D]
  BY <1>1, <1>3, FoldedIs
<1>6. it[D] = More(kind, p, it[1..Len(c)], x)
  <2>1. D \in SUBSET (1..n)
    OBVIOUS
  <2> HIDE DEF D
  <2> QED
    BY <1>1, <1>2, <1>3, <2>1 DEF AreFolded
<1> QED
  BY <1>4, <1>5, <1>6 DEF d

\* The trades of a span are such a fold.
LEMMA WithinIs ==
    ASSUME NEW X, NEW c \in Seq(X), NEW from, NEW to
    PROVE  Within(c, from, to) = Folded("trades", [from |-> from, to |-> to], c)
<1> DEFINE p == [from |-> from, to |-> to]
           Keeps(s, x) == IF from =< x.at /\ x.at < to THEN Append(s, x) ELSE s
           Own(it) == it = [T \in SUBSET (1..Len(c)) |->
                               IF T = {} THEN <<>> ELSE Keeps(it[T \ {Longest(T)}], c[Longest(T)])]
           jt == CHOOSE it : Own(it)
<1>1. DOMAIN c = 1..Len(c) /\ Len(c) \in Nat
  OBVIOUS
<1>2. Within(c, from, to) = jt[1..Len(c)]
  BY <1>1 DEF Within, FoldLeft, MapThenFoldSet, Max, Longest
<1>3. \A it : AreFolded("trades", p, c, Len(c), it) <=> Own(it)
  <2>1. \A s, x : More("trades", p, s, x) = Keeps(s, x)
    BY DEF More
  <2>2. Base("trades", p) = <<>>
    BY DEF Base
  <2> HIDE DEF Keeps, p
  <2> QED
    BY <2>1, <2>2 DEF AreFolded
<1>4. AreFolded("trades", p, c, Len(c), jt)
  <2>1. \E it : Own(it)
    BY <1>1, <1>3, FoldsExist
  <2>2. Own(jt)
    <3> HIDE DEF Own
    <3> QED
      BY <2>1
  <2> HIDE DEF jt, Own
  <2> QED
    BY <1>3, <2>2
<1> HIDE DEF jt, p
<1>5. \A i \in 1..Len(c) : c[i] = c[i]
  OBVIOUS
<1>6. Folded("trades", p, c) = jt[1..Len(c)]
  BY <1>1, <1>4, <1>5, FoldedIs
<1> QED
  BY <1>2, <1>6 DEF p

\* The buckets of trades are such a fold.
LEMMA BucketsIs ==
    ASSUME NEW X, NEW c \in Seq(X)
    PROVE  Buckets(c) = Folded("buckets", 0, c)
<1> DEFINE Own(it) == it = [T \in SUBSET (1..Len(c)) |->
                               IF T = {} THEN <<>> ELSE AddTrade(it[T \ {Longest(T)}], c[Longest(T)])]
           jt == CHOOSE it : Own(it)
<1>1. DOMAIN c = 1..Len(c) /\ Len(c) \in Nat
  OBVIOUS
<1>2. Buckets(c) = jt[1..Len(c)]
  BY <1>1 DEF Buckets, FoldLeft, MapThenFoldSet, Max, Longest
<1>3. \A it : AreFolded("buckets", 0, c, Len(c), it) <=> Own(it)
  <2>1. \A s, x : More("buckets", 0, s, x) = AddTrade(s, x)
    BY DEF More
  <2>2. Base("buckets", 0) = <<>>
    BY DEF Base
  <2> QED
    BY <2>1, <2>2 DEF AreFolded
<1>4. AreFolded("buckets", 0, c, Len(c), jt)
  <2>1. \E it : Own(it)
    BY <1>1, <1>3, FoldsExist
  <2>2. Own(jt)
    <3> HIDE DEF Own
    <3> QED
      BY <2>1
  <2> HIDE DEF jt, Own
  <2> QED
    BY <1>3, <2>2
<1> HIDE DEF jt
<1>5. \A i \in 1..Len(c) : c[i] = c[i]
  OBVIOUS
<1> QED
  BY <1>1, <1>2, <1>4, <1>5, FoldedIs

\* So is what was traded in a period.
LEMMA VolumeIs ==
    ASSUME NEW X, NEW c \in Seq(X), NEW t
    PROVE  Volume(c, t) = Folded("volume", t, c)
<1> DEFINE Adds(v, x) == IF FloorTo(x.at) = t THEN v + x.qty ELSE v
           Own(it) == it = [T \in SUBSET (1..Len(c)) |->
                               IF T = {} THEN 0 ELSE Adds(it[T \ {Longest(T)}], c[Longest(T)])]
           jt == CHOOSE it : Own(it)
<1>1. DOMAIN c = 1..Len(c) /\ Len(c) \in Nat
  OBVIOUS
<1>2. Volume(c, t) = jt[1..Len(c)]
  BY <1>1 DEF Volume, FoldLeft, MapThenFoldSet, Max, Longest
<1>3. \A it : AreFolded("volume", t, c, Len(c), it) <=> Own(it)
  <2>1. \A v, x : More("volume", t, v, x) = Adds(v, x)
    BY DEF More
  <2>2. Base("volume", t) = 0
    BY DEF Base
  <2> DEFINE G(it, T) == IF T = {} THEN 0 ELSE Adds(it[T \ {Longest(T)}], c[Longest(T)])
             H(it, T) == IF T = {} THEN Base("volume", t)
                         ELSE More("volume", t, it[T \ {Longest(T)}], c[Longest(T)])
  <2>3. \A it, T : G(it, T) = H(it, T)
    <3> HIDE DEF Adds
    <3> QED
      BY <2>1, <2>2
  <2>4. \A it : [T \in SUBSET (1..Len(c)) |-> G(it, T)] = [T \in SUBSET (1..Len(c)) |-> H(it, T)]
    <3> HIDE DEF G, H
    <3> QED
      BY <2>3
  <2> HIDE DEF Adds
  <2> QED
    BY <2>4 DEF AreFolded
<1>4. AreFolded("volume", t, c, Len(c), jt)
  <2>1. \E it : Own(it)
    BY <1>1, <1>3, FoldsExist
  <2>2. Own(jt)
    <3> HIDE DEF Own
    <3> QED
      BY <2>1
  <2> HIDE DEF jt, Own
  <2> QED
    BY <1>3, <2>2
<1> HIDE DEF jt
<1>5. \A i \in 1..Len(c) : c[i] = c[i]
  OBVIOUS
<1> QED
  BY <1>1, <1>2, <1>4, <1>5, FoldedIs

\* The periods of a window.
Starts(time) == [i \in 1..Limit |-> Start(time) + (i - 1) * Period]

Periods(buckets, seed) == [buckets |-> buckets, base |-> [candles |-> <<>>, close |-> seed]]

\* And so are the candles of the periods of a window.
LEMMA FilledIs ==
    ASSUME NEW buckets, NEW seed, NEW time, Starts(time) \in Seq(Int)
    PROVE  Filled(buckets, seed, time) = Folded("periods", Periods(buckets, seed), Starts(time))
<1> DEFINE p == Periods(buckets, seed)
           c == Starts(time)
           Own(it) == it = [T \in SUBSET (1..Len(c)) |->
                               IF T = {} THEN [candles |-> <<>>, close |-> seed]
                               ELSE NextCandle(buckets, it[T \ {Longest(T)}], c[Longest(T)])]
           jt == CHOOSE it : Own(it)
<1>1. DOMAIN c = 1..Len(c) /\ Len(c) \in Nat
  OBVIOUS
<1>2. Filled(buckets, seed, time) = jt[1..Len(c)]
  BY <1>1 DEF Filled, FoldLeft, MapThenFoldSet, Max, Longest, Starts
<1>3. \A it : AreFolded("periods", p, c, Len(c), it) <=> Own(it)
  <2>1. \A s, x : More("periods", p, s, x) = NextCandle(buckets, s, x)
    BY DEF More, Periods
  <2>2. Base("periods", p) = [candles |-> <<>>, close |-> seed]
    BY DEF Base, Periods
  <2> DEFINE G(it, T) == IF T = {} THEN [candles |-> <<>>, close |-> seed]
                         ELSE NextCandle(buckets, it[T \ {Longest(T)}], c[Longest(T)])
             H(it, T) == IF T = {} THEN Base("periods", p)
                         ELSE More("periods", p, it[T \ {Longest(T)}], c[Longest(T)])
  <2> HIDE DEF p, c
  <2>3. \A it, T : G(it, T) = H(it, T)
    BY <2>1, <2>2
  <2>4. \A it : [T \in SUBSET (1..Len(c)) |-> G(it, T)] = [T \in SUBSET (1..Len(c)) |-> H(it, T)]
    <3> HIDE DEF G, H
    <3> QED
      BY <2>3
  <2> QED
    BY <2>4 DEF AreFolded
<1>4. AreFolded("periods", p, c, Len(c), jt)
  <2>1. \E it : Own(it)
    BY <1>1, <1>3, FoldsExist
  <2>2. Own(jt)
    <3> HIDE DEF Own
    <3> QED
      BY <2>1
  <2> HIDE DEF jt, Own
  <2> QED
    BY <1>3, <2>2
<1>5. c \in Seq(Int) /\ \A i \in 1..Len(c) : c[i] = c[i]
  OBVIOUS
<1> HIDE DEF jt, c, p
<1>6. Folded("periods", p, c) = jt[1..Len(c)]
  BY <1>1, <1>4, <1>5, FoldedIs
<1> QED
  BY <1>2, <1>6 DEF p, c

-----------------------------------------------------------------------------
(* Periods.                                                                *)

\* A multiple of a period is at least one period from any other.
LEMMA Apart ==
    ASSUME NEW k \in Int, NEW l \in Int, NEW n \in Nat \ {0}, k < l
    PROVE  k * n + n =< l * n
<1>1. PICK d \in Nat : l = k + 1 + d
  <2>1. l - k - 1 \in Nat /\ l = k + 1 + (l - k - 1)
    OBVIOUS
  <2> QED
    BY <2>1
<1>2. d * n \in Nat
  OBVIOUS
<1>3. l * n = k * n + n + d * n
  BY <1>1
<1> QED
  BY <1>2, <1>3

\* A time is in the period it is rounded down to, and in no other.
LEMMA FloorIs ==
    ASSUME NEW t \in Nat, NEW k \in Int
    PROVE  /\ FloorTo(t) \in Nat /\ FloorTo(t) =< t /\ t < FloorTo(t) + Period
           /\ FloorTo(t) = k * Period <=> (k * Period =< t /\ t < k * Period + Period)
<1>0. Period \in Nat \ {0}
  BY CandlesAssumption
<1> DEFINE q == t \div Period
<1>1. q \in Nat /\ q * Period =< t /\ t < q * Period + Period
  BY <1>0
<1>2. FloorTo(t) = q * Period
  BY DEF FloorTo
<1> HIDE DEF q
<1>3. q * Period \in Nat /\ k * Period \in Int
  BY <1>0, <1>1
<1>4. ASSUME k * Period =< t, t < k * Period + Period, q # k PROVE FALSE
  <2>1. CASE q < k
    <3>1. q * Period + Period =< k * Period
      BY <1>0, <1>1, <2>1, Apart
    <3> QED
      BY <1>0, <1>1, <1>3, <1>4, <3>1
  <2>2. CASE k < q
    <3>1. k * Period + Period =< q * Period
      BY <1>0, <1>1, <2>2, Apart
    <3> QED
      BY <1>0, <1>1, <1>3, <1>4, <3>1
  <2> QED
    BY <1>1, <1>4, <2>1, <2>2
<1> QED
  BY <1>1, <1>2, <1>3, <1>4

\* The periods of a window follow each other.
At(time, i) == Start(time) + (i - 1) * Period

\* Each begins at a multiple of the period, one period after the one before.
LEMMA AtIs ==
    ASSUME NEW time \in Nat, NEW i \in Nat
    PROVE  /\ \E k \in Int : At(time, i) = k * Period
           /\ At(time, i) \in Int /\ At(time, i + 1) = At(time, i) + Period
           /\ At(time, 1) = Start(time)
           /\ i # 0 => Start(time) =< At(time, i)
<1>0. Period \in Nat \ {0} /\ Limit \in Nat
  BY CandlesAssumption
<1> DEFINE q == time \div Period
<1>1. q \in Nat
  BY <1>0
<1>2. Start(time) = q * Period - (Limit - 1) * Period
  BY DEF Start, FloorTo
<1> HIDE DEF q
<1>3. At(time, i) = (q - Limit + i) * Period
  <2>1. q * Period - (Limit - 1) * Period + (i - 1) * Period = (q - Limit + i) * Period
    BY <1>0, <1>1
  <2> QED
    BY <1>2, <2>1 DEF At
<1>4. q - Limit + i \in Int /\ (q - Limit + i) * Period \in Int
  BY <1>0, <1>1
<1>5. Start(time) \in Int
  BY <1>0, <1>1, <1>2
<1>6. ((i + 1) - 1) * Period = (i - 1) * Period + Period /\ (1 - 1) * Period = 0
  BY <1>0
<1>7. i # 0 => (i - 1) * Period \in Nat
  BY <1>0
<1>8. (i - 1) * Period \in Int
  BY <1>0
<1>9. \E k \in Int : At(time, i) = k * Period
  BY <1>3, <1>4
<1>10. At(time, i) \in Int
  BY <1>3, <1>4
<1>11. At(time, i + 1) = At(time, i) + Period
  BY <1>0, <1>5, <1>6, <1>8 DEF At
<1>12. At(time, 1) = Start(time)
  BY <1>5, <1>6 DEF At
<1>13. i # 0 => Start(time) =< At(time, i)
  BY <1>5, <1>7 DEF At
<1> QED
  BY <1>9, <1>10, <1>11, <1>12, <1>13

-----------------------------------------------------------------------------
(* Trades.                                                                 *)

Ordered(c) == \A i, j \in DOMAIN c : i =< j => c[i].at =< c[j].at

\* A sequence that is not empty is one with a last member.
LEMMA LastMember ==
    ASSUME NEW X, NEW n \in Nat, NEW c \in Seq(X), Len(c) = n + 1
    PROVE  \E h \in Seq(X), x \in X :
               /\ c = Append(h, x) /\ Len(h) = n
               /\ DOMAIN c = 1..(n + 1) /\ DOMAIN h = 1..n
               /\ c[n + 1] = x /\ \A i \in 1..n : c[i] = h[i]
<1> DEFINE h == [i \in 1..n |-> c[i]]
<1>1. \A i \in 1..(n + 1) : c[i] \in X
  OBVIOUS
<1>2. h \in Seq(X) /\ Len(h) = n /\ c[n + 1] \in X
  BY <1>1
<1>3. c = Append(h, c[n + 1])
  BY <1>2
<1>4. \A i \in 1..n : c[i] = h[i]
  OBVIOUS
<1>5. DOMAIN c = 1..(n + 1) /\ DOMAIN h = 1..n
  OBVIOUS
<1> HIDE DEF h
<1> QED
  BY <1>2, <1>3, <1>4, <1>5

\* No trades have none of a span.
LEMMA WithinNone ==
    ASSUME NEW from, NEW to
    PROVE  Within(<<>>, from, to) = <<>>
<1> DEFINE c == <<>>
<1>1. c \in Seq({})
  OBVIOUS
<1> HIDE DEF c
<1>2. Within(c, from, to) = Folded("trades", [from |-> from, to |-> to], c)
  BY <1>1, WithinIs
<1>3. Within(<<>>, from, to) = Folded("trades", [from |-> from, to |-> to], <<>>)
  BY <1>2 DEF c
<1> QED
  BY <1>3, FoldedNone DEF Base

\* One more trade is of the span or is left out.
LEMMA WithinMore ==
    ASSUME NEW c \in Seq(Trades), NEW x \in Trades, NEW from, NEW to
    PROVE  Within(Append(c, x), from, to) =
               IF from =< x.at /\ x.at < to THEN Append(Within(c, from, to), x)
               ELSE Within(c, from, to)
<1> DEFINE p == [from |-> from, to |-> to]
           d == Append(c, x)
<1>1. p.from = from /\ p.to = to /\ d \in Seq(Trades)
  OBVIOUS
<1> HIDE DEF p, d
<1>2. Within(c, from, to) = Folded("trades", p, c) /\ Within(d, from, to) = Folded("trades", p, d)
  BY <1>1, WithinIs DEF p
<1>3. Folded("trades", p, d) = More("trades", p, Folded("trades", p, c), x)
  BY FoldedMore DEF d
<1>4. Within(d, from, to) = IF from =< x.at /\ x.at < to THEN Append(Within(c, from, to), x)
                           ELSE Within(c, from, to)
  BY <1>1, <1>2, <1>3 DEF More
<1> QED
  BY <1>4 DEF d

\* w has trades of c, of the span, in their order.
Fit(c, w, from, to) ==
    /\ w \in Seq(Trades)
    /\ Ordered(w)
    /\ \A i \in DOMAIN w : from =< w[i].at /\ w[i].at < to
    /\ \A i \in DOMAIN w : \E j \in DOMAIN c : w[i] = c[j]

\* One more trade of an ordered tape keeps those of the span in order.
LEMMA FitMore ==
    ASSUME NEW n \in Nat, NEW h \in Seq(Trades), NEW d \in Seq(Trades), NEW x \in Trades,
           DOMAIN d = 1..(n + 1), DOMAIN h = 1..n, d[n + 1] = x, \A i \in 1..n : d[i] = h[i],
           Ordered(d), NEW w, NEW from \in Int, NEW to \in Int, Fit(h, w, from, to)
    PROVE  /\ Fit(d, w, from, to)
           /\ from =< x.at /\ x.at < to => Fit(d, Append(w, x), from, to)
<1>1. Fit(d, w, from, to)
  <2>1. \A i \in DOMAIN w : \E j \in DOMAIN d : w[i] = d[j]
    <3> TAKE i \in DOMAIN w
    <3>1. PICK j \in 1..n : w[i] = h[j]
      BY DEF Fit
    <3> QED
      BY <3>1
  <2> QED
    BY <2>1 DEF Fit
<1>2. ASSUME from =< x.at /\ x.at < to PROVE Fit(d, Append(w, x), from, to)
  <2> DEFINE m == Len(w)
             v == Append(w, x)
  <2>0. w \in Seq(Trades)
    BY DEF Fit
  <2>1. /\ m \in Nat /\ DOMAIN w = 1..m /\ DOMAIN v = 1..(m + 1)
        /\ v \in Seq(Trades) /\ v[m + 1] = x
        /\ \A i \in 1..m : v[i] = w[i]
    BY <2>0
  <2> HIDE DEF m, v
  <2>2. \A i \in 1..m : w[i].at =< x.at
    <3> TAKE i \in 1..m
    <3>1. PICK j \in 1..n : w[i] = h[j]
      BY <2>1 DEF Fit
    <3>2. d[j].at =< d[n + 1].at
      BY DEF Ordered
    <3> QED
      BY <3>1, <3>2
  <2>3. Ordered(v)
    <3> SUFFICES ASSUME NEW i \in 1..(m + 1), NEW j \in 1..(m + 1), i =< j
                 PROVE  v[i].at =< v[j].at
      BY <2>1 DEF Ordered
    <3>1. CASE j \in 1..m
      <4>1. i \in 1..m
        BY <2>1, <3>1
      <4>2. w[i].at =< w[j].at
        BY <2>1, <3>1, <4>1 DEF Fit, Ordered
      <4> QED
        BY <2>1, <3>1, <4>1, <4>2
    <3>2. CASE j = m + 1 /\ i \in 1..m
      BY <2>1, <2>2, <3>2
    <3>3. CASE j = m + 1 /\ i = m + 1
      <4>1. x.at \in Nat
        BY StreamsAssumption DEF Trades
      <4> QED
        BY <2>1, <3>3, <4>1
    <3> QED
      BY <2>1, <3>1, <3>2, <3>3
  <2>4. \A i \in 1..(m + 1) : from =< v[i].at /\ v[i].at < to
    <3> TAKE i \in 1..(m + 1)
    <3>1. CASE i \in 1..m
      BY <2>1, <3>1 DEF Fit
    <3>2. CASE i = m + 1
      BY <1>2, <2>1, <3>2
    <3> QED
      BY <2>1, <3>1, <3>2
  <2>5. \A i \in 1..(m + 1) : \E j \in DOMAIN d : v[i] = d[j]
    <3> TAKE i \in 1..(m + 1)
    <3>1. CASE i \in 1..m
      BY <1>1, <2>1, <3>1 DEF Fit
    <3>2. CASE i = m + 1
      <4>1. n + 1 \in DOMAIN d
        OBVIOUS
      <4> QED
        BY <2>1, <3>2, <4>1
    <3> QED
      BY <2>1, <3>1, <3>2
  <2>6. Fit(d, v, from, to)
    BY <2>1, <2>3, <2>4, <2>5 DEF Fit
  <2> QED
    BY <2>6 DEF v
<1> QED
  BY <1>1, <1>2

\* The trades of a span come from the tape, and in its order.
LEMMA WithinHolds ==
    ASSUME NEW c \in Seq(Trades), Ordered(c), NEW from \in Int, NEW to \in Int
    PROVE  Fit(c, Within(c, from, to), from, to)
<1> DEFINE Good == {n \in Nat : \A d \in Seq(Trades) :
                       Len(d) = n /\ Ordered(d) => Fit(d, Within(d, from, to), from, to)}
<1>1. 0 \in Good
  <2> SUFFICES ASSUME NEW d \in Seq(Trades), Len(d) = 0
               PROVE  Fit(d, Within(d, from, to), from, to)
    OBVIOUS
  <2>1. d = <<>>
    OBVIOUS
  <2>2. Within(d, from, to) = <<>>
    BY <2>1, WithinNone
  <2> QED
    BY <2>2 DEF Fit, Ordered
<1>2. ASSUME NEW n \in Nat, n \in Good PROVE n + 1 \in Good
  <2> SUFFICES ASSUME NEW d \in Seq(Trades), Len(d) = n + 1, Ordered(d)
               PROVE  Fit(d, Within(d, from, to), from, to)
    OBVIOUS
  <2>1. PICK h \in Seq(Trades), x \in Trades :
               /\ d = Append(h, x) /\ Len(h) = n
               /\ DOMAIN d = 1..(n + 1) /\ DOMAIN h = 1..n
               /\ d[n + 1] = x /\ \A i \in 1..n : d[i] = h[i]
    BY LastMember
  <2>2. Ordered(h)
    BY <2>1 DEF Ordered
  <2>3. PICK w : w = Within(h, from, to)
    OBVIOUS
  <2>4. Fit(h, w, from, to)
    BY <1>2, <2>1, <2>2, <2>3
  <2>5. Within(d, from, to) = IF from =< x.at /\ x.at < to THEN Append(w, x) ELSE w
    BY <2>1, <2>3, WithinMore
  <2>6. /\ Fit(d, w, from, to)
        /\ from =< x.at /\ x.at < to => Fit(d, Append(w, x), from, to)
    BY <2>1, <2>4, FitMore
  <2> QED
    BY <2>5, <2>6
<1>3. Nat \subseteq Good
  <2> HIDE DEF Good
  <2> QED
    BY <1>1, <1>2, Counting
<1>4. Len(c) \in Nat
  OBVIOUS
<1> QED
  BY <1>3, <1>4

-----------------------------------------------------------------------------
(* Candles.                                                                *)

\* No trades have no buckets.
LEMMA BucketsNone == Buckets(<<>>) = <<>>
<1> DEFINE c == <<>>
<1>1. c \in Seq({})
  OBVIOUS
<1> HIDE DEF c
<1>2. Buckets(c) = Folded("buckets", 0, c)
  BY <1>1, BucketsIs
<1>3. Buckets(<<>>) = Folded("buckets", 0, <<>>)
  BY <1>2 DEF c
<1> QED
  BY <1>3, FoldedNone DEF Base

\* One more trade is added to the buckets.
LEMMA BucketsMore ==
    ASSUME NEW c \in Seq(Trades), NEW x \in Trades
    PROVE  Buckets(Append(c, x)) = AddTrade(Buckets(c), x)
<1> DEFINE d == Append(c, x)
<1>1. d \in Seq(Trades)
  OBVIOUS
<1> HIDE DEF d
<1>2. Buckets(c) = Folded("buckets", 0, c) /\ Buckets(d) = Folded("buckets", 0, d)
  BY <1>1, BucketsIs
<1>3. Folded("buckets", 0, d) = More("buckets", 0, Folded("buckets", 0, c), x)
  BY FoldedMore DEF d
<1>4. Buckets(d) = AddTrade(Buckets(c), x)
  BY <1>2, <1>3 DEF More
<1> QED
  BY <1>4 DEF d

\* No trades have no volume.
LEMMA VolumeNone == ASSUME NEW t PROVE Volume(<<>>, t) = 0
<1> DEFINE c == <<>>
<1>1. c \in Seq({})
  OBVIOUS
<1> HIDE DEF c
<1>2. Volume(c, t) = Folded("volume", t, c)
  BY <1>1, VolumeIs
<1>3. Volume(<<>>, t) = Folded("volume", t, <<>>)
  BY <1>2 DEF c
<1> QED
  BY <1>3, FoldedNone DEF Base

\* One more trade adds to the volume of its period.
LEMMA VolumeMore ==
    ASSUME NEW c \in Seq(Trades), NEW x \in Trades, NEW t
    PROVE  Volume(Append(c, x), t) =
               IF FloorTo(x.at) = t THEN Volume(c, t) + x.qty ELSE Volume(c, t)
<1> DEFINE d == Append(c, x)
<1>1. d \in Seq(Trades)
  OBVIOUS
<1> HIDE DEF d
<1>2. Volume(c, t) = Folded("volume", t, c) /\ Volume(d, t) = Folded("volume", t, d)
  BY <1>1, VolumeIs
<1>3. Folded("volume", t, d) = More("volume", t, Folded("volume", t, c), x)
  BY FoldedMore DEF d
<1>4. Volume(d, t) = IF FloorTo(x.at) = t THEN Volume(c, t) + x.qty ELSE Volume(c, t)
  BY <1>2, <1>3 DEF More
<1> QED
  BY <1>4 DEF d

Candle == [t : Int, o : Prices, h : Prices, l : Prices, c : Prices, v : Nat, n : Nat]

Mine(d, t) == {j \in DOMAIN d : FloorTo(d[j].at) = t}

\* What k says of the period of t is what the trades of d say.
IsCandle(d, t, k) ==
    /\ k \in Candle /\ k.t = t
    /\ \E j \in Mine(d, t) : k.o = d[j].price /\ \A i \in Mine(d, t) : j =< i
    /\ \E j \in Mine(d, t) : k.c = d[j].price /\ \A i \in Mine(d, t) : i =< j
    /\ \E j \in Mine(d, t) : k.h = d[j].price
    /\ \A i \in Mine(d, t) : d[i].price =< k.h
    /\ \E j \in Mine(d, t) : k.l = d[j].price
    /\ \A i \in Mine(d, t) : k.l =< d[i].price
    /\ k.v = Volume(d, t)
    /\ k.n = Cardinality(Mine(d, t))

Describe(d, b) ==
    /\ DOMAIN b = {FloorTo(d[j].at) : j \in DOMAIN d}
    /\ \A t \in DOMAIN b : IsCandle(d, t, b[t])
    /\ \A t : IsFiniteSet(Mine(d, t)) /\ (Mine(d, t) = {} => Volume(d, t) = 0)

\* One more trade opens its period or moves its candle.
LEMMA MovedIs ==
    ASSUME NEW k \in Candle, NEW x \in Trades
    PROVE  /\ Moved(k, x) \in Candle
           /\ Moved(k, x).t = k.t /\ Moved(k, x).o = k.o
           /\ Moved(k, x).h = Larger(k.h, x.price)
           /\ Moved(k, x).l = Smaller(k.l, x.price)
           /\ Moved(k, x).c = x.price
           /\ Moved(k, x).v = k.v + x.qty
           /\ Moved(k, x).n = k.n + 1
<1>1. Larger(k.h, x.price) \in Prices /\ Smaller(k.l, x.price) \in Prices /\ x.price \in Prices
  BY DEF Candle, Trades, Larger, Smaller
<1>2. k.v + x.qty \in Nat /\ k.n + 1 \in Nat
  BY DEF Candle, Trades
<1>3. k \in [t : Int, o : Prices, h : Prices, l : Prices, c : Prices, v : Nat, n : Nat]
  BY DEF Candle
<1> DEFINE h == Larger(k.h, x.price)
           l == Smaller(k.l, x.price)
           v == k.v + x.qty
           n == k.n + 1
           m == [k EXCEPT !.c = x.price, !.h = h, !.l = l, !.v = v, !.n = n]
<1>4. Moved(k, x) = m
  BY DEF Moved
<1>5. h \in Prices /\ l \in Prices /\ x.price \in Prices /\ v \in Nat /\ n \in Nat
  BY <1>1, <1>2
<1> HIDE DEF h, l, v, n
<1>6. /\ m \in Candle /\ m.t = k.t /\ m.o = k.o /\ m.h = h /\ m.l = l /\ m.c = x.price
      /\ m.v = v /\ m.n = n
  BY <1>3, <1>5 DEF Candle
<1> HIDE DEF m
<1> QED
  BY <1>4, <1>6 DEF h, l, v, n

\* Only the bucket of the trade's period changes.
LEMMA AddTradeIs ==
    ASSUME NEW b, NEW x
    PROVE  /\ DOMAIN AddTrade(b, x) = DOMAIN b \cup {FloorTo(x.at)}
           /\ \A u \in DOMAIN b : u # FloorTo(x.at) => AddTrade(b, x)[u] = b[u]
           /\ FloorTo(x.at) \notin DOMAIN b =>
                 AddTrade(b, x)[FloorTo(x.at)] = Opened(FloorTo(x.at), x)
           /\ FloorTo(x.at) \in DOMAIN b =>
                 AddTrade(b, x)[FloorTo(x.at)] = Moved(b[FloorTo(x.at)], x)
  BY DEF AddTrade

\* The candles of one trade more.
LEMMA DescribeMore ==
    ASSUME NEW n \in Nat, NEW h \in Seq(Trades), NEW d \in Seq(Trades), NEW x \in Trades,
           d = Append(h, x),
           DOMAIN d = 1..(n + 1), DOMAIN h = 1..n, d[n + 1] = x, \A i \in 1..n : d[i] = h[i],
           NEW b, Describe(h, b)
    PROVE  Describe(d, AddTrade(b, x))
<1> DEFINE t == FloorTo(x.at)
           r == AddTrade(b, x)
<1>1. /\ \A u : u # t => Mine(d, u) = Mine(h, u)
      /\ Mine(d, t) = Mine(h, t) \cup {n + 1} /\ n + 1 \notin Mine(h, t)
      /\ \A u : Mine(h, u) \subseteq 1..n
  BY DEF Mine
<1>2. /\ \A u : u # t => Volume(d, u) = Volume(h, u)
      /\ Volume(d, t) = Volume(h, t) + x.qty
  BY VolumeMore
<1>3. /\ DOMAIN r = DOMAIN b \cup {t}
      /\ \A u \in DOMAIN b : u # t => r[u] = b[u]
      /\ t \notin DOMAIN b => r[t] = Opened(t, x)
      /\ t \in DOMAIN b => r[t] = Moved(b[t], x)
  BY AddTradeIs
<1>4. x.at \in Nat /\ x.qty \in Nat /\ x.price \in Prices /\ Prices \subseteq Nat
  BY StreamsAssumption DEF Trades
<1>5. t \in Nat
  BY <1>4, FloorIs
<1>6. \A u : u \in DOMAIN b <=> Mine(h, u) # {}
  BY DEF Describe, Mine
<1>7. \A j \in 1..n : h[j].price \in Nat
  <2> TAKE j \in 1..n
  <2>1. h[j] \in Trades
    OBVIOUS
  <2> QED
    BY <1>4, <2>1 DEF Trades
<1> HIDE DEF t, r
<1>8. DOMAIN r = {FloorTo(d[j].at) : j \in DOMAIN d}
  BY <1>3 DEF Describe, t
<1>9. ASSUME NEW u \in DOMAIN r PROVE IsCandle(d, u, r[u])
  <2>1. CASE u # t
    <3>1. r[u] = b[u] /\ IsCandle(h, u, b[u])
      BY <1>3, <1>9, <2>1 DEF Describe
    <3>2. Mine(d, u) = Mine(h, u) /\ Volume(d, u) = Volume(h, u)
      BY <1>1, <1>2, <2>1
    <3>3. \A j \in Mine(h, u) : d[j] = h[j]
      BY <1>1
    <3> QED
      BY <3>1, <3>2, <3>3 DEF IsCandle
  <2>2. CASE u = t /\ t \notin DOMAIN b
    <3>1. r[u] = Opened(t, x) /\ Mine(d, t) = {n + 1}
      BY <1>1, <1>3, <1>6, <2>2
    <3>2. Volume(d, t) = x.qty
      <4>1. Volume(h, t) = 0
        BY <1>6, <2>2 DEF Describe
      <4> QED
        BY <1>2, <1>4, <4>1
    <3>3. Cardinality(Mine(d, t)) = 1
      BY <3>1, FS_Singleton
    <3>4. Opened(t, x) \in Candle
      BY <1>4, <1>5 DEF Opened, Candle
    <3>5. IsCandle(d, t, Opened(t, x))
      <4> DEFINE k == Opened(t, x)
      <4>1. /\ k.t = t /\ k.o = x.price /\ k.h = x.price /\ k.l = x.price /\ k.c = x.price
            /\ k.v = x.qty /\ k.n = 1
        BY DEF Opened
      <4> HIDE DEF k
      <4>2. n + 1 \in Mine(d, t) /\ \A i \in Mine(d, t) : i = n + 1
        BY <3>1
      <4>3. d[n + 1].price = x.price /\ x.price \in Nat
        BY <1>4
      <4>4. k \in Candle
        BY <3>4 DEF k
      <4>5. IsCandle(d, t, k)
        BY <3>2, <3>3, <4>1, <4>2, <4>3, <4>4 DEF IsCandle
      <4> QED
        BY <4>5 DEF k
    <3> QED
      BY <2>2, <3>1, <3>5
  <2>3. CASE u = t /\ t \in DOMAIN b
    <3> DEFINE k == b[t]
               m == Moved(k, x)
    <3>1. IsCandle(h, t, k)
      BY <2>3 DEF Describe
    <3>2. k \in Candle /\ r[u] = m
      BY <1>3, <2>3, <3>1 DEF IsCandle
    <3>3. /\ m \in Candle /\ m.t = k.t /\ m.o = k.o /\ m.h = Larger(k.h, x.price)
          /\ m.l = Smaller(k.l, x.price) /\ m.c = x.price /\ m.v = k.v + x.qty /\ m.n = k.n + 1
      BY <3>2, MovedIs
    <3> HIDE DEF k, m
    <3>4. \A i \in Mine(d, t) : i = n + 1 \/ (i \in Mine(h, t) /\ i \in 1..n /\ d[i] = h[i])
      BY <1>1
    <3>5. Mine(h, t) \subseteq Mine(d, t) /\ n + 1 \in Mine(d, t)
      BY <1>1
    <3>6. m.t = t /\ k.t = t
      BY <3>1, <3>3 DEF IsCandle
    <3>7. \E j \in Mine(d, t) : m.o = d[j].price /\ \A i \in Mine(d, t) : j =< i
      <4>1. PICK j \in Mine(h, t) : k.o = h[j].price /\ \A i \in Mine(h, t) : j =< i
        BY <3>1 DEF IsCandle
      <4>2. j \in 1..n /\ d[j] = h[j]
        BY <1>1, <4>1
      <4>3. \A i \in Mine(d, t) : j =< i
        BY <3>4, <4>1, <4>2
      <4> QED
        BY <3>3, <3>5, <4>1, <4>2, <4>3
    <3>8. \E j \in Mine(d, t) : m.c = d[j].price /\ \A i \in Mine(d, t) : i =< j
      <4>1. \A i \in Mine(d, t) : i =< n + 1
        BY <3>4
      <4> QED
        BY <3>3, <3>5, <4>1
    <3>9. k.h \in Nat /\ k.l \in Nat /\ x.price \in Nat
      BY <1>4, <3>2 DEF Candle
    <3>10. \E j \in Mine(d, t) : m.h = d[j].price
      <4>1. PICK j \in Mine(h, t) : k.h = h[j].price
        BY <3>1 DEF IsCandle
      <4>2. d[j] = h[j] /\ j \in Mine(d, t)
        BY <1>1, <3>5, <4>1
      <4>3. m.h = k.h \/ m.h = x.price
        BY <3>3 DEF Larger
      <4> QED
        BY <3>5, <4>1, <4>2, <4>3
    <3>11. \A i \in Mine(d, t) : d[i].price =< m.h
      <4>1. \A i \in Mine(h, t) : h[i].price =< k.h /\ h[i].price \in Nat
        BY <1>1, <1>7, <3>1 DEF IsCandle
      <4>2. k.h =< m.h /\ x.price =< m.h /\ m.h \in Nat
        BY <3>3, <3>9 DEF Larger
      <4>3. \A i \in Mine(h, t) : h[i].price =< m.h
        BY <3>9, <4>1, <4>2
      <4> QED
        BY <3>4, <4>2, <4>3
    <3>12. \E j \in Mine(d, t) : m.l = d[j].price
      <4>1. PICK j \in Mine(h, t) : k.l = h[j].price
        BY <3>1 DEF IsCandle
      <4>2. d[j] = h[j] /\ j \in Mine(d, t)
        BY <1>1, <3>5, <4>1
      <4>3. m.l = k.l \/ m.l = x.price
        BY <3>3 DEF Smaller
      <4> QED
        BY <3>5, <4>1, <4>2, <4>3
    <3>13. \A i \in Mine(d, t) : m.l =< d[i].price
      <4>1. \A i \in Mine(h, t) : k.l =< h[i].price /\ h[i].price \in Nat
        BY <1>1, <1>7, <3>1 DEF IsCandle
      <4>2. m.l =< k.l /\ m.l =< x.price /\ m.l \in Nat
        BY <3>3, <3>9 DEF Smaller
      <4>3. \A i \in Mine(h, t) : m.l =< h[i].price
        BY <3>9, <4>1, <4>2
      <4> QED
        BY <3>4, <4>2, <4>3
    <3>14. m.v = Volume(d, t)
      BY <1>2, <3>1, <3>3 DEF IsCandle
    <3>15. m.n = Cardinality(Mine(d, t))
      <4>1. IsFiniteSet(Mine(h, t))
        BY DEF Describe
      <4>2. Cardinality(Mine(d, t)) = Cardinality(Mine(h, t)) + 1
        BY <1>1, <4>1, FS_AddElement
      <4> QED
        BY <3>1, <3>3, <4>2 DEF IsCandle
    <3>16. IsCandle(d, t, m)
      BY <3>3, <3>6, <3>7, <3>8, <3>10, <3>11, <3>12, <3>13, <3>14, <3>15 DEF IsCandle
    <3> QED
      BY <2>3, <3>2, <3>16
  <2> QED
    BY <1>3, <1>9, <2>1, <2>2, <2>3
<1>10. \A u : IsFiniteSet(Mine(d, u)) /\ (Mine(d, u) = {} => Volume(d, u) = 0)
  <2> TAKE u
  <2>1. IsFiniteSet(Mine(h, u)) /\ (Mine(h, u) = {} => Volume(h, u) = 0)
    BY DEF Describe
  <2>2. CASE u = t
    BY <1>1, <2>1, <2>2, FS_AddElement
  <2>3. CASE u # t
    BY <1>1, <1>2, <2>1, <2>3
  <2> QED
    BY <2>2, <2>3
<1>11. Describe(d, r)
  BY <1>8, <1>9, <1>10 DEF Describe
<1> QED
  BY <1>11 DEF r

\* The buckets of any trades are their candles.
LEMMA BucketsDescribe ==
    ASSUME NEW c \in Seq(Trades)
    PROVE  Describe(c, Buckets(c))
<1> DEFINE Good == {n \in Nat : \A d \in Seq(Trades) : Len(d) = n => Describe(d, Buckets(d))}
<1>1. 0 \in Good
  <2> SUFFICES ASSUME NEW d \in Seq(Trades), Len(d) = 0 PROVE Describe(d, Buckets(d))
    OBVIOUS
  <2>1. d = <<>>
    OBVIOUS
  <2>2. Buckets(d) = <<>> /\ \A t : Volume(d, t) = 0
    BY <2>1, BucketsNone, VolumeNone
  <2>3. DOMAIN d = {} /\ \A t : Mine(d, t) = {}
    BY <2>1 DEF Mine
  <2>4. DOMAIN Buckets(d) = {}
    BY <2>2
  <2> QED
    BY <2>2, <2>3, <2>4, FS_EmptySet DEF Describe
<1>2. ASSUME NEW n \in Nat, n \in Good PROVE n + 1 \in Good
  <2> SUFFICES ASSUME NEW d \in Seq(Trades), Len(d) = n + 1 PROVE Describe(d, Buckets(d))
    OBVIOUS
  <2>1. PICK h \in Seq(Trades), x \in Trades :
               /\ d = Append(h, x) /\ Len(h) = n
               /\ DOMAIN d = 1..(n + 1) /\ DOMAIN h = 1..n
               /\ d[n + 1] = x /\ \A i \in 1..n : d[i] = h[i]
    BY LastMember
  <2>2. PICK b : b = Buckets(h)
    OBVIOUS
  <2>3. Describe(h, b)
    BY <1>2, <2>1, <2>2
  <2>4. Buckets(d) = AddTrade(b, x)
    BY <2>1, <2>2, BucketsMore
  <2>5. Describe(d, AddTrade(b, x))
    BY <2>1, <2>3, DescribeMore
  <2> QED
    BY <2>4, <2>5
<1>3. Nat \subseteq Good
  <2> HIDE DEF Good
  <2> QED
    BY <1>1, <1>2, Counting
<1>4. Len(c) \in Nat
  OBVIOUS
<1> QED
  BY <1>3, <1>4

-----------------------------------------------------------------------------
(* The window.                                                             *)

\* The largest number is the one that no other exceeds.
LEMMA MaxIs ==
    ASSUME NEW S \in SUBSET Int, NEW n \in S, \A j \in S : j =< n
    PROVE  Max(S) = n
<1>1. \A i \in S : (\A j \in S : i >= j) => i = n
  OBVIOUS
<1>2. \A j \in S : n >= j
  OBVIOUS
<1> QED
  BY <1>1, <1>2 DEF Max

\* The smallest is the one that exceeds no other.
LEMMA MinIs ==
    ASSUME NEW S \in SUBSET Int, NEW n \in S, \A j \in S : n =< j
    PROVE  Min(S) = n
<1>1. \A i \in S : (\A j \in S : i =< j) => i = n
  OBVIOUS
<1> QED
  BY <1>1 DEF Min

\* The trades before the window, and those of it, are in order and on their side of its start.
LEMMA SidesHold ==
    ASSUME NEW c \in Seq(Trades), Ordered(c), NEW time \in Nat
    PROVE  /\ Earlier(c, time) \in Seq(Trades) /\ Gathered(c, time) \in Seq(Trades)
           /\ Ordered(Earlier(c, time)) /\ Ordered(Gathered(c, time))
           /\ \A i \in DOMAIN Earlier(c, time) : Earlier(c, time)[i].at < Start(time)
           /\ \A i \in DOMAIN Gathered(c, time) : Start(time) =< Gathered(c, time)[i].at
<1>1. Start(time) \in Int /\ FloorTo(time) + Period \in Int
  <2>1. At(time, 1) \in Int /\ At(time, 1) = Start(time)
    BY AtIs
  <2>2. FloorTo(time) \in Nat
    BY FloorIs
  <2> QED
    BY <2>1, <2>2, CandlesAssumption
<1>2. Fit(c, Within(c, 0, Start(time)), 0, Start(time))
  BY <1>1, WithinHolds
<1>3. PICK w : w = Within(c, Start(time), FloorTo(time) + Period)
  OBVIOUS
<1>4. Fit(c, w, Start(time), FloorTo(time) + Period)
  BY <1>1, <1>3, WithinHolds
<1> DEFINE m == Smaller(Len(w), TakeTrades)
           g == SubSeq(w, 1, m)
<1>5. Gathered(c, time) = g
  BY <1>3 DEF Gathered
<1>6. w \in Seq(Trades) /\ Len(w) \in Nat /\ DOMAIN w = 1..Len(w)
  BY <1>4 DEF Fit
<1>7. m \in Nat /\ m =< Len(w)
  BY <1>6, CandlesAssumption DEF Smaller
<1> HIDE DEF m
<1>8. /\ g \in Seq(Trades) /\ DOMAIN g = 1..m
      /\ \A i \in 1..m : g[i] = w[i] /\ i \in DOMAIN w
  BY <1>6, <1>7
<1> HIDE DEF g
<1>9. Ordered(g) /\ \A i \in DOMAIN g : Start(time) =< g[i].at
  BY <1>4, <1>8 DEF Fit, Ordered
<1> QED
  BY <1>2, <1>5, <1>8, <1>9 DEF Fit, Earlier

\* e are trades before s, g trades from s on, and old is e followed by g.
Sides(e, g, old, s) ==
    /\ e \in Seq(Trades) /\ g \in Seq(Trades) /\ old \in Seq(Trades)
    /\ Ordered(e) /\ Ordered(g)
    /\ \A i \in DOMAIN e : e[i].at < s
    /\ \A i \in DOMAIN g : s =< g[i].at
    /\ DOMAIN e = 1..Len(e) /\ DOMAIN g = 1..Len(g) /\ DOMAIN old = 1..(Len(e) + Len(g))
    /\ Len(e) \in Nat /\ Len(g) \in Nat
    /\ \A i \in 1..Len(e) : old[i] = e[i]
    /\ \A i \in 1..Len(g) : old[Len(e) + i] = g[i]

\* What a request reads are such trades.
LEMMA SidesAre ==
    ASSUME NEW c \in Seq(Trades), Ordered(c), NEW time \in Nat
    PROVE  Sides(Earlier(c, time), Gathered(c, time), Earlier(c, time) \o Gathered(c, time),
                 Start(time))
<1>1. PICK e : e = Earlier(c, time)
  OBVIOUS
<1>2. PICK g : g = Gathered(c, time)
  OBVIOUS
<1>3. /\ e \in Seq(Trades) /\ g \in Seq(Trades)
      /\ Ordered(e) /\ Ordered(g)
      /\ \A i \in DOMAIN e : e[i].at < Start(time)
      /\ \A i \in DOMAIN g : Start(time) =< g[i].at
  BY <1>1, <1>2, SidesHold
<1>4. /\ e \o g \in Seq(Trades)
      /\ DOMAIN e = 1..Len(e) /\ DOMAIN g = 1..Len(g)
      /\ DOMAIN (e \o g) = 1..(Len(e) + Len(g))
      /\ Len(e) \in Nat /\ Len(g) \in Nat
      /\ \A i \in 1..Len(e) : (e \o g)[i] = e[i]
      /\ \A i \in 1..Len(g) : (e \o g)[Len(e) + i] = g[i]
  BY <1>3
<1>5. Sides(e, g, e \o g, Start(time))
  BY <1>3, <1>4 DEF Sides
<1> QED
  BY <1>1, <1>2, <1>5

Before(old, x) == {j \in DOMAIN old : old[j].at < x}

\* The last price before x, or the first there is.
CloseAt(old, x) == old[IF Before(old, x) # {} THEN Max(Before(old, x)) ELSE 1].price

\* A period moves the close to that of its candle, and a period without trades keeps it.
LEMMA CloseMoves ==
    ASSUME NEW s \in Int, NEW k \in Int, s =< k * Period, NEW e, NEW g, NEW old,
           Sides(e, g, old, s), NEW b, Describe(g, b)
    PROVE  /\ k * Period \in DOMAIN b => b[k * Period].c = CloseAt(old, k * Period + Period)
           /\ k * Period \notin DOMAIN b =>
                 Before(old, k * Period + Period) = Before(old, k * Period)
<1> DEFINE t == k * Period
           u == t + Period
<1>1. t \in Int /\ u \in Int /\ t < u /\ s =< t
  BY CandlesAssumption
<1>2. \A i \in 1..(Len(e) + Len(g)) : old[i].at \in Nat
  <2> TAKE i \in 1..(Len(e) + Len(g))
  <2>1. old[i] \in Trades
    BY DEF Sides
  <2> QED
    BY <2>1, StreamsAssumption DEF Trades
<1>3. \A a \in Nat : FloorTo(a) = t <=> t =< a /\ a < u
  BY FloorIs
<1> HIDE DEF t, u
<1>4. \A i \in 1..Len(g) : g[i].at \in Nat /\ (i \in Mine(g, t) <=> t =< g[i].at /\ g[i].at < u)
  <2> TAKE i \in 1..Len(g)
  <2>1. g[i].at \in Nat
    <3>1. Len(e) + i \in 1..(Len(e) + Len(g)) /\ old[Len(e) + i] = g[i]
      BY DEF Sides
    <3> QED
      BY <1>2, <3>1
  <2> QED
    BY <1>3, <2>1 DEF Mine, Sides
<1>5. \A i \in 1..(Len(e) + Len(g)) : i =< Len(e) => old[i].at < s
  BY DEF Sides
<1>6. \A i \in 1..(Len(e) + Len(g)) :
         i > Len(e) => i - Len(e) \in 1..Len(g) /\ old[i] = g[i - Len(e)]
  <2> TAKE i \in 1..(Len(e) + Len(g))
  <2>1. Len(e) \in Nat /\ Len(g) \in Nat /\ \A j \in 1..Len(g) : old[Len(e) + j] = g[j]
    BY DEF Sides
  <2> SUFFICES ASSUME i > Len(e) PROVE i - Len(e) \in 1..Len(g) /\ old[i] = g[i - Len(e)]
    OBVIOUS
  <2>2. i - Len(e) \in 1..Len(g) /\ Len(e) + (i - Len(e)) = i
    BY <2>1
  <2> QED
    BY <2>1, <2>2
<1>7. DOMAIN old = 1..(Len(e) + Len(g)) /\ Len(e) \in Nat /\ Len(g) \in Nat
  BY DEF Sides
<1>8. t \in DOMAIN b <=> Mine(g, t) # {}
  BY DEF Describe, Mine
<1>9. ASSUME t \in DOMAIN b PROVE b[t].c = CloseAt(old, u)
  <2>1. PICK q \in Mine(g, t) : b[t].c = g[q].price /\ \A i \in Mine(g, t) : i =< q
    BY <1>9 DEF Describe, IsCandle
  <2>2. q \in 1..Len(g) /\ t =< g[q].at /\ g[q].at < u
    BY <1>4 DEF Mine, Sides
  <2> DEFINE m == Len(e) + q
  <2>3. m \in 1..(Len(e) + Len(g)) /\ old[m] = g[q]
    BY <1>7, <2>2 DEF Sides
  <2>4. m \in Before(old, u)
    BY <1>7, <2>2, <2>3 DEF Before
  <2>5. \A j \in Before(old, u) : j =< m
    <3> SUFFICES ASSUME NEW j \in 1..(Len(e) + Len(g)), old[j].at < u, j > m PROVE FALSE
      BY <1>7, <2>3 DEF Before
    <3>1. j > Len(e) /\ j - Len(e) > q
      BY <1>7, <2>2
    <3>2. j - Len(e) \in 1..Len(g) /\ old[j] = g[j - Len(e)]
      BY <1>6, <3>1
    <3>3. g[q].at =< g[j - Len(e)].at
      <4>1. Ordered(g) /\ DOMAIN g = 1..Len(g)
        BY DEF Sides
      <4>2. \A i \in 1..Len(g) : q =< i => g[q].at =< g[i].at
        BY <2>2, <4>1 DEF Ordered
      <4>3. q =< j - Len(e)
        BY <1>7, <2>2, <3>1, <3>2
      <4> QED
        BY <3>2, <4>2, <4>3
    <3>4. g[q].at \in Nat /\ g[j - Len(e)].at \in Nat
      BY <1>4, <2>2, <3>2
    <3>5. t =< g[j - Len(e)].at /\ g[j - Len(e)].at < u
      <4>1. PICK x \in Nat : x = g[j - Len(e)].at
        BY <3>4
      <4>2. PICK y \in Nat : y = g[q].at
        BY <3>4
      <4>3. y =< x /\ t =< y
        BY <2>2, <3>3, <4>1, <4>2
      <4>4. x < u
        BY <3>2, <4>1
      <4> QED
        BY <1>1, <4>1, <4>3, <4>4
    <3>6. j - Len(e) \in Mine(g, t)
      BY <1>4, <3>2, <3>5
    <3> QED
      BY <2>1, <2>2, <3>1, <3>6, <1>7
  <2>6. Before(old, u) \in SUBSET Int
    BY <1>7 DEF Before
  <2> HIDE DEF m
  <2>7. Max(Before(old, u)) = m
    BY <2>4, <2>5, <2>6, MaxIs
  <2> QED
    BY <2>1, <2>3, <2>4, <2>7 DEF CloseAt
<1>10. ASSUME t \notin DOMAIN b PROVE Before(old, u) = Before(old, t)
  <2>1. ASSUME NEW j \in 1..(Len(e) + Len(g)) PROVE old[j].at < u <=> old[j].at < t
    <3>1. CASE j =< Len(e)
      BY <1>1, <1>2, <1>5, <3>1
    <3>2. CASE j > Len(e)
      <4>1. j - Len(e) \in 1..Len(g) /\ old[j] = g[j - Len(e)]
        BY <1>6, <3>2
      <4>2. ~(t =< g[j - Len(e)].at /\ g[j - Len(e)].at < u)
        BY <1>4, <1>8, <1>10, <4>1
      <4> QED
        BY <1>1, <1>4, <4>1, <4>2
    <3> QED
      BY <1>7, <3>1, <3>2
  <2> QED
    BY <1>7, <2>1 DEF Before
<1> QED
  BY <1>9, <1>10 DEF t, u

\* The candle of the period of t.
Expected(b, old, t) == IF t \in DOMAIN b THEN b[t] ELSE Flat(t, CloseAt(old, t))

\* The first n candles are those, and the close is the one before the next period.
FilledTo(b, old, time, n, r) ==
    /\ DOMAIN r.candles = 1..n
    /\ r.candles \in Seq({Expected(b, old, At(time, i)) : i \in Nat})
    /\ \A i \in 1..n : r.candles[i] = Expected(b, old, At(time, i))
    /\ r.close = CloseAt(old, At(time, n + 1))

\* One period more.
LEMMA FilledMore ==
    ASSUME NEW time \in Nat, NEW e, NEW g, NEW old, Sides(e, g, old, Start(time)),
           NEW b, Describe(g, b), NEW n \in Nat, NEW r, FilledTo(b, old, time, n, r)
    PROVE  FilledTo(b, old, time, n + 1, NextCandle(b, r, At(time, n + 1)))
<1> DEFINE t == At(time, n + 1)
           c == IF t \in DOMAIN b THEN b[t] ELSE Flat(t, r.close)
           X == {Expected(b, old, At(time, i)) : i \in Nat}
           u == At(time, (n + 1) + 1)
           cs == Append(r.candles, c)
<1>1. /\ \E k \in Int : t = k * Period
      /\ t \in Int /\ u = t + Period /\ Start(time) =< t
  <2>1. n + 1 \in Nat /\ n + 1 # 0
    OBVIOUS
  <2> QED
    BY <2>1, AtIs
<1>2. NextCandle(b, r, t) = [candles |-> cs, close |-> c.c]
  BY DEF NextCandle
<1>3. r.close = CloseAt(old, t)
  BY DEF FilledTo
<1>4. c = Expected(b, old, t)
  BY <1>3 DEF Expected
<1>5. c \in X
  BY <1>4
<1>6. c.c = CloseAt(old, u)
  <2>1. PICK k \in Int : t = k * Period
    BY <1>1
  <2>2. Start(time) \in Int
    <3>1. Start(time) = At(time, 1) /\ At(time, 1) \in Int
      BY AtIs
    <3> QED
      BY <3>1
  <2>3. /\ t \in DOMAIN b => b[t].c = CloseAt(old, u)
        /\ t \notin DOMAIN b => Before(old, u) = Before(old, t)
    <3>1. Start(time) =< k * Period /\ u = k * Period + Period
      BY <1>1, <2>1
    <3> HIDE DEF t, u
    <3> QED
      BY <2>1, <2>2, <3>1, CloseMoves
  <2>4. CASE t \in DOMAIN b
    BY <2>3, <2>4
  <2>5. CASE t \notin DOMAIN b
    <3>1. c = Flat(t, CloseAt(old, t))
      BY <1>3, <2>5
    <3>2. c.c = CloseAt(old, t)
      BY <3>1 DEF Flat
    <3>3. CloseAt(old, t) = CloseAt(old, u)
      BY <2>3, <2>5 DEF CloseAt
    <3> QED
      BY <3>2, <3>3
  <2> QED
    BY <2>4, <2>5
<1>7. r.candles \in Seq(X) /\ DOMAIN r.candles = 1..n
  BY DEF FilledTo
<1>8. \A i \in 1..n : r.candles[i] = Expected(b, old, At(time, i))
  BY DEF FilledTo
<1>9. PICK h : h = r.candles
  OBVIOUS
<1> HIDE DEF c, X
<1>10. cs \in Seq(X) /\ DOMAIN cs = 1..(n + 1) /\ cs[n + 1] = c /\ \A i \in 1..n : cs[i] = h[i]
  <2>1. h \in Seq(X) /\ DOMAIN h = 1..n /\ c \in X
    BY <1>5, <1>7, <1>9
  <2>2. Len(h) = n
    BY <2>1
  <2>3. /\ Append(h, c) \in Seq(X) /\ DOMAIN Append(h, c) = 1..(n + 1) /\ Append(h, c)[n + 1] = c
        /\ \A i \in 1..n : Append(h, c)[i] = h[i]
    BY <2>1, <2>2
  <2> QED
    BY <1>9, <2>3
<1> HIDE DEF cs
<1>11. \A i \in 1..(n + 1) : cs[i] = Expected(b, old, At(time, i))
  <2> TAKE i \in 1..(n + 1)
  <2>1. CASE i \in 1..n
    BY <1>8, <1>9, <1>10, <2>1
  <2>2. CASE i = n + 1
    BY <1>4, <1>10, <2>2
  <2> QED
    BY <2>1, <2>2
<1> DEFINE q == [candles |-> cs, close |-> c.c]
<1>12. q.candles = cs /\ q.close = c.c
  OBVIOUS
<1> HIDE DEF q, u, t
<1>13. FilledTo(b, old, time, n + 1, q)
  BY <1>6, <1>10, <1>11, <1>12 DEF FilledTo, X, u
<1> QED
  BY <1>2, <1>13 DEF q, t

\* The candles of a window, from the first period to the last.
LEMMA FilledHolds ==
    ASSUME NEW time \in Nat, NEW e, NEW g, NEW old, Sides(e, g, old, Start(time)),
           NEW b, Describe(g, b)
    PROVE  FilledTo(b, old, time, Limit, Filled(b, CloseAt(old, Start(time)), time))
<1> DEFINE p == Periods(b, CloseAt(old, Start(time)))
           Upto(n) == [i \in 1..n |-> At(time, i)]
           F(n) == Folded("periods", p, Upto(n))
           Good == {n \in Nat : FilledTo(b, old, time, n, F(n))}
<1>1. \A n \in Nat : Upto(n) \in Seq(Int)
  <2>1. \A i \in Nat : At(time, i) \in Int
    BY AtIs
  <2> QED
    BY <2>1
<1>2. 0 \in Good
  <2>1. Upto(0) = <<>>
    OBVIOUS
  <2>2. F(0) = [candles |-> <<>>, close |-> CloseAt(old, Start(time))]
    BY <2>1, FoldedNone DEF Base, Periods
  <2>3. At(time, 0 + 1) = Start(time)
    BY AtIs
  <2> DEFINE X == {Expected(b, old, At(time, i)) : i \in Nat}
             z == <<>>
  <2>4. z \in Seq(X) /\ DOMAIN z = 1..0
    OBVIOUS
  <2> DEFINE r == F(0)
  <2>5. r.candles = z /\ r.close = CloseAt(old, Start(time))
    BY <2>2
  <2> HIDE DEF r, z
  <2>6. FilledTo(b, old, time, 0, r)
    BY <2>3, <2>4, <2>5 DEF FilledTo
  <2> QED
    BY <2>6 DEF r
<1>3. ASSUME NEW n \in Nat, n \in Good PROVE n + 1 \in Good
  <2>1. Upto(n + 1) = Append(Upto(n), At(time, n + 1))
    <3>1. Len(Upto(n)) = n
      BY <1>1
    <3> QED
      BY <1>1, <3>1
  <2>2. At(time, n + 1) \in Int
    BY AtIs
  <2>3. F(n + 1) = More("periods", p, F(n), At(time, n + 1))
    <3> HIDE DEF p
    <3>1. PICK c : c = Upto(n)
      OBVIOUS
    <3>2. Folded("periods", p, Append(c, At(time, n + 1)))
             = More("periods", p, Folded("periods", p, c), At(time, n + 1))
      BY <1>1, <2>2, <3>1, FoldedMore
    <3> HIDE DEF Upto
    <3> QED
      BY <2>1, <3>1, <3>2
  <2>4. F(n + 1) = NextCandle(b, F(n), At(time, n + 1))
    <3>1. p.buckets = b
      BY DEF Periods
    <3> HIDE DEF p, F
    <3> QED
      BY <2>3, <3>1 DEF More
  <2>5. FilledTo(b, old, time, n, F(n))
    BY <1>3
  <2> HIDE DEF F
  <2>6. FilledTo(b, old, time, n + 1, NextCandle(b, F(n), At(time, n + 1)))
    BY <2>5, FilledMore
  <2> QED
    BY <2>4, <2>6
<1>4. Nat \subseteq Good
  <2> HIDE DEF Good
  <2> QED
    BY <1>2, <1>3, Counting
<1>5. Limit \in Nat
  BY CandlesAssumption
<1>6. Starts(time) = Upto(Limit)
  BY DEF Starts, At
<1>7. Filled(b, CloseAt(old, Start(time)), time) = F(Limit)
  <2>1. Starts(time) \in Seq(Int)
    BY <1>1, <1>5, <1>6
  <2> HIDE DEF Upto
  <2> QED
    BY <1>6, <2>1, FilledIs
<1> HIDE DEF F
<1> QED
  BY <1>4, <1>5, <1>7

\* Before the first period the close is that of the last trade before it, or the first price.
LEMMA SeedIs ==
    ASSUME NEW c, NEW time \in Nat, NEW old,
           Sides(Earlier(c, time), Gathered(c, time), old, Start(time))
    PROVE  Seed(c, time) = IF Len(Earlier(c, time)) + Len(Gathered(c, time)) = 0 THEN {}
                           ELSE {CloseAt(old, Start(time))}
<1>1. PICK e : e = Earlier(c, time)
  OBVIOUS
<1>2. PICK g : g = Gathered(c, time)
  OBVIOUS
<1> DEFINE s == Start(time)
<1>3. Sides(e, g, old, s)
  BY <1>1, <1>2
<1>4. Seed(c, time) = IF e # <<>> THEN {e[Len(e)].price}
                      ELSE IF g # <<>> THEN {g[1].price} ELSE {}
  BY <1>1, <1>2 DEF Seed, Last
<1>5. s \in Int
  <2>1. Start(time) = At(time, 1) /\ At(time, 1) \in Int
    BY AtIs
  <2> QED
    BY <2>1
<1> HIDE DEF s
<1>6. /\ Len(e) \in Nat /\ Len(g) \in Nat /\ e \in Seq(Trades) /\ g \in Seq(Trades)
      /\ DOMAIN old = 1..(Len(e) + Len(g))
      /\ \A i \in 1..Len(e) : old[i] = e[i] /\ e[i].at < s
      /\ \A i \in 1..Len(g) : old[Len(e) + i] = g[i] /\ s =< g[i].at
  BY <1>3 DEF Sides
<1>7. \A i \in 1..Len(g) : g[i].at \in Nat
  <2> TAKE i \in 1..Len(g)
  <2>1. g[i] \in Trades
    BY <1>6
  <2> QED
    BY <2>1, StreamsAssumption DEF Trades
<1>8. Before(old, s) = 1..Len(e)
  <2>1. ASSUME NEW j \in 1..(Len(e) + Len(g)) PROVE old[j].at < s <=> j =< Len(e)
    <3>1. CASE j =< Len(e)
      BY <1>6, <3>1
    <3>2. CASE j > Len(e)
      <4>1. j - Len(e) \in 1..Len(g) /\ Len(e) + (j - Len(e)) = j
        BY <1>6, <3>2
      <4>2. old[j] = g[j - Len(e)] /\ s =< g[j - Len(e)].at
        BY <1>6, <4>1
      <4>3. g[j - Len(e)].at \in Nat
        BY <1>7, <4>1
      <4> QED
        BY <1>5, <1>6, <3>2, <4>2, <4>3
    <3> QED
      BY <1>6, <3>1, <3>2
  <2> QED
    BY <1>6, <2>1 DEF Before
<1>9. CASE e # <<>>
  <2>1. Len(e) \in 1..Len(e)
    BY <1>6, <1>9
  <2>2. Max(Before(old, s)) = Len(e)
    <3>1. 1..Len(e) \in SUBSET Int /\ \A j \in 1..Len(e) : j =< Len(e)
      BY <1>6
    <3> QED
      BY <1>8, <2>1, <3>1, MaxIs
  <2>3. CloseAt(old, s) = e[Len(e)].price
    BY <1>6, <1>8, <2>1, <2>2 DEF CloseAt
  <2>4. Len(e) + Len(g) # 0
    BY <1>6, <2>1
  <2> QED
    BY <1>1, <1>2, <1>4, <1>9, <2>3, <2>4 DEF s
<1>10. CASE e = <<>> /\ g # <<>>
  <2>1. Len(e) = 0 /\ 1 \in 1..Len(g)
    BY <1>6, <1>10
  <2>2. old[1] = g[1]
    BY <1>6, <2>1
  <2>3. Before(old, s) = {}
    BY <1>8, <2>1
  <2>4. CloseAt(old, s) = g[1].price
    BY <2>2, <2>3 DEF CloseAt
  <2>5. Len(e) + Len(g) # 0
    BY <1>6, <2>1
  <2> QED
    BY <1>1, <1>2, <1>4, <1>10, <2>4, <2>5 DEF s
<1>11. CASE e = <<>> /\ g = <<>>
  <2>1. Len(e) = 0 /\ Len(g) = 0
    BY <1>11
  <2> QED
    BY <1>1, <1>2, <1>4, <1>11, <2>1
<1> QED
  BY <1>9, <1>10, <1>11
\* A candle of a bucket has the first and the last price of its trades, and the extremes.
LEMMA CandleIs ==
    ASSUME NEW g \in Seq(Trades), NEW old, NEW t, NEW k, IsCandle(g, t, k)
    PROVE  Describes(k, g, old)
<1> DEFINE M == Mine(g, t)
           P == {g[j].price : j \in M}
<1>1. M \in SUBSET Int /\ \A j \in M : g[j] \in Trades
  BY DEF Mine
<1>2. P \in SUBSET Int
  <2>1. ASSUME NEW j \in M PROVE g[j].price \in Int
    <3>1. PICK x \in Trades : x = g[j]
      BY <1>1
    <3>2. x.price \in Prices
      BY DEF Trades
    <3>3. Prices \subseteq Int
      BY StreamsAssumption
    <3> QED
      BY <3>1, <3>2, <3>3
  <2> QED
    BY <2>1
<1>3. k.o = g[Min(M)].price
  <2>1. PICK j \in M : k.o = g[j].price /\ \A i \in M : j =< i
    BY DEF IsCandle
  <2>2. Min(M) = j
    <3> HIDE DEF M
    <3> QED
      BY <1>1, <2>1, MinIs
  <2> QED
    BY <2>1, <2>2
<1>4. k.c = g[Max(M)].price
  <2>1. PICK j \in M : k.c = g[j].price /\ \A i \in M : i =< j
    BY DEF IsCandle
  <2>2. Max(M) = j
    <3> HIDE DEF M
    <3> QED
      BY <1>1, <2>1, MaxIs
  <2> QED
    BY <2>1, <2>2
<1>5. k.h \in P /\ \A x \in P : x =< k.h
  BY DEF IsCandle
<1>6. k.l \in P /\ \A x \in P : k.l =< x
  BY DEF IsCandle
<1>7. Max(P) = k.h
  <2> HIDE DEF P
  <2> QED
    BY <1>2, <1>5, MaxIs
<1>8. Min(P) = k.l
  <2> HIDE DEF P
  <2> QED
    BY <1>2, <1>6, MinIs
<1>9. k.t = t /\ M # {} /\ k.v = Volume(g, t) /\ k.n = Cardinality(M)
  BY DEF IsCandle
<1>10. {j \in DOMAIN g : FloorTo(g[j].at) = k.t} = M
  BY <1>9 DEF Mine
<1> HIDE DEF M
<1> QED
  BY <1>3, <1>4, <1>7, <1>8, <1>9, <1>10 DEF Describes

\* The candles of a tape in order are those that its trades define.
LEMMA CandlesHold ==
    ASSUME NEW c \in Seq(Trades), Ordered(c), NEW time \in Nat
    PROVE  AreCandles(GapFilledCandles(c, time), Gathered(c, time),
                      Earlier(c, time) \o Gathered(c, time), time)
<1>1. PICK e : e = Earlier(c, time)
  OBVIOUS
<1>2. PICK g : g = Gathered(c, time)
  OBVIOUS
<1>3. PICK old : old = e \o g
  OBVIOUS
<1>4. Sides(e, g, old, Start(time))
  BY <1>1, <1>2, <1>3, SidesAre
<1>5. /\ g \in Seq(Trades) /\ e \in Seq(Trades) /\ Len(e) \in Nat /\ Len(g) \in Nat
      /\ old \in Seq(Trades) /\ DOMAIN old = 1..(Len(e) + Len(g))
  BY <1>4 DEF Sides
<1>6. PICK candles : candles = GapFilledCandles(c, time)
  OBVIOUS
<1>7. Seed(c, time) = IF Len(e) + Len(g) = 0 THEN {} ELSE {CloseAt(old, Start(time))}
  BY <1>1, <1>2, <1>4, SeedIs
<1>8. Limit \in Nat
  BY CandlesAssumption
<1>9. CASE Len(e) + Len(g) = 0
  <2>1. candles = <<>>
    BY <1>6, <1>7, <1>9 DEF GapFilledCandles
  <2>2. old = <<>>
    BY <1>5, <1>9
  <2>3. Len(candles) = 0 /\ DOMAIN candles = {}
    BY <2>1
  <2>4. AreCandles(candles, g, old, time)
    BY <2>2, <2>3 DEF AreCandles
  <2> QED
    BY <1>1, <1>2, <1>3, <1>6, <2>4
<1>10. CASE Len(e) + Len(g) # 0
  <2>1. PICK b : b = Buckets(g)
    OBVIOUS
  <2>2. Describe(g, b)
    BY <1>5, <2>1, BucketsDescribe
  <2>3. PICK r : r = Filled(b, CloseAt(old, Start(time)), time)
    OBVIOUS
  <2>4. FilledTo(b, old, time, Limit, r)
    BY <1>4, <2>2, <2>3, FilledHolds
  <2>5. candles = r.candles
    <3>1. Seed(c, time) = {CloseAt(old, Start(time))}
      BY <1>7, <1>10
    <3>2. (CHOOSE p \in Seed(c, time) : TRUE) = CloseAt(old, Start(time)) /\ Seed(c, time) # {}
      BY <3>1
    <3> QED
      BY <1>2, <1>6, <2>1, <2>3, <3>2 DEF GapFilledCandles
  <2>6. DOMAIN candles = 1..Limit /\ Len(candles) = Limit /\ old # <<>>
    <3>1. DOMAIN candles = 1..Limit
      BY <2>4, <2>5 DEF FilledTo
    <3>2. PICK X : candles \in Seq(X)
      BY <2>4, <2>5 DEF FilledTo
    <3>3. Len(candles) = Limit
      BY <1>8, <3>1, <3>2
    <3>4. old # <<>>
      BY <1>5, <1>10
    <3> QED
      BY <3>1, <3>3, <3>4
  <2>7. ASSUME NEW i \in 1..Limit
        PROVE  candles[i].t = Start(time) + (i - 1) * Period /\ Describes(candles[i], g, old)
    <3>1. PICK t : t = At(time, i)
      OBVIOUS
    <3>2. PICK k : k = candles[i]
      OBVIOUS
    <3>3. k = Expected(b, old, t)
      BY <2>4, <2>5, <3>1, <3>2 DEF FilledTo
    <3>4. t \in DOMAIN b <=> Mine(g, t) # {}
      BY <2>2 DEF Describe, Mine
    <3>5. t = Start(time) + (i - 1) * Period
      BY <3>1 DEF At
    <3>6. CASE t \in DOMAIN b
      <4>1. k = b[t] /\ IsCandle(g, t, k)
        BY <2>2, <3>3, <3>6 DEF Describe, Expected
      <4>2. k.t = t /\ Describes(k, g, old)
        BY <1>5, <4>1, CandleIs DEF IsCandle
      <4> QED
        BY <3>2, <3>5, <4>2
    <3>7. CASE t \notin DOMAIN b
      <4>1. k = Flat(t, CloseAt(old, t))
        BY <3>3, <3>7 DEF Expected
      <4>2. k.t = t
        BY <4>1 DEF Flat
      <4>3. {j \in DOMAIN g : FloorTo(g[j].at) = k.t} = {}
        BY <3>4, <3>7, <4>2 DEF Mine
      <4>4. {j \in DOMAIN old : old[j].at < k.t} = Before(old, t)
        BY <4>2 DEF Before
      <4>5. Describes(k, g, old)
        BY <4>1, <4>2, <4>3, <4>4 DEF Describes, CloseAt
      <4> QED
        BY <3>2, <3>5, <4>2, <4>5
    <3> QED
      BY <3>6, <3>7
  <2>8. AreCandles(candles, g, old, time)
    BY <2>6, <2>7 DEF AreCandles
  <2> QED
    BY <1>1, <1>2, <1>3, <1>6, <2>8
<1> QED
  BY <1>5, <1>9, <1>10

-----------------------------------------------------------------------------
(* The trades that candles are made of are the first of the tape.          *)

\* A tape is the trades of e followed by those of w.
Halves(c, e, w) ==
    /\ e \in Seq(Trades) /\ w \in Seq(Trades)
    /\ Len(c) = Len(e) + Len(w)
    /\ \A i \in 1..Len(e) : c[i] = e[i]
    /\ \A i \in 1..Len(w) : c[Len(e) + i] = w[i]

\* One more trade goes to the second half, or to the first if the second has none.
LEMMA HalvesMore ==
    ASSUME NEW n \in Nat, NEW h \in Seq(Trades), NEW d \in Seq(Trades), NEW x \in Trades,
           Len(h) = n, Len(d) = n + 1, d[n + 1] = x, \A i \in 1..n : d[i] = h[i],
           NEW e, NEW w, Halves(h, e, w)
    PROVE  /\ Halves(d, e, Append(w, x))
           /\ w = <<>> => Halves(d, Append(e, x), w)
<1>1. /\ e \in Seq(Trades) /\ w \in Seq(Trades) /\ n = Len(e) + Len(w)
      /\ Len(e) \in Nat /\ Len(w) \in Nat
      /\ \A i \in 1..Len(e) : d[i] = e[i]
      /\ \A i \in 1..Len(w) : d[Len(e) + i] = w[i]
  BY DEF Halves
<1>2. Halves(d, e, Append(w, x))
  <2> DEFINE v == Append(w, x)
  <2>1. v \in Seq(Trades) /\ Len(v) = Len(w) + 1 /\ v[Len(w) + 1] = x /\ \A i \in 1..Len(w) : v[i] = w[i]
    BY <1>1
  <2> HIDE DEF v
  <2>2. \A i \in 1..Len(v) : d[Len(e) + i] = v[i]
    <3> TAKE i \in 1..Len(v)
    <3>1. CASE i \in 1..Len(w)
      BY <1>1, <2>1, <3>1
    <3>2. CASE i = Len(w) + 1
      BY <1>1, <2>1, <3>2
    <3> QED
      BY <1>1, <2>1, <3>1, <3>2
  <2>3. Halves(d, e, v)
    BY <1>1, <2>1, <2>2 DEF Halves
  <2> QED
    BY <2>3 DEF v
<1>3. ASSUME w = <<>> PROVE Halves(d, Append(e, x), w)
  <2> DEFINE f == Append(e, x)
  <2>1. f \in Seq(Trades) /\ Len(f) = Len(e) + 1 /\ f[Len(e) + 1] = x /\ \A i \in 1..Len(e) : f[i] = e[i]
    BY <1>1
  <2>2. Len(w) = 0 /\ n = Len(e)
    BY <1>1, <1>3
  <2> HIDE DEF f
  <2>3. \A i \in 1..Len(f) : d[i] = f[i]
    BY <1>1, <2>1, <2>2
  <2>4. Halves(d, f, w)
    BY <1>1, <2>1, <2>2, <2>3 DEF Halves
  <2> QED
    BY <2>4 DEF f
<1> QED
  BY <1>2, <1>3

\* A tape in order is the trades before a time, followed by those from it on.
LEMMA HalvesAre ==
    ASSUME NEW c \in Seq(Trades), Ordered(c), NEW s \in Int, NEW to \in Int,
           \A i \in DOMAIN c : c[i].at < to
    PROVE  Halves(c, Within(c, 0, s), Within(c, s, to))
<1> DEFINE Good == {n \in Nat : \A d \in Seq(Trades) :
                       Len(d) = n /\ Ordered(d) /\ (\A i \in DOMAIN d : d[i].at < to)
                       => Halves(d, Within(d, 0, s), Within(d, s, to))}
<1>1. 0 \in Good
  <2> SUFFICES ASSUME NEW d \in Seq(Trades), Len(d) = 0
               PROVE  Halves(d, Within(d, 0, s), Within(d, s, to))
    OBVIOUS
  <2>1. d = <<>>
    OBVIOUS
  <2>2. Within(d, 0, s) = <<>> /\ Within(d, s, to) = <<>>
    BY <2>1, WithinNone
  <2>3. Halves(d, <<>>, <<>>)
    <3> DEFINE none == <<>>
    <3>1. none \in Seq(Trades) /\ Len(none) = 0
      BY EmptySeq
    <3> HIDE DEF none
    <3>2. Halves(d, none, none)
      BY <3>1 DEF Halves
    <3> QED
      BY <3>2 DEF none
  <2> QED
    BY <2>2, <2>3
<1>2. ASSUME NEW n \in Nat, n \in Good PROVE n + 1 \in Good
  <2> SUFFICES ASSUME NEW d \in Seq(Trades), Len(d) = n + 1, Ordered(d),
                      \A i \in DOMAIN d : d[i].at < to
               PROVE  Halves(d, Within(d, 0, s), Within(d, s, to))
    OBVIOUS
  <2>1. PICK h \in Seq(Trades), x \in Trades :
               /\ d = Append(h, x) /\ Len(h) = n
               /\ DOMAIN d = 1..(n + 1) /\ DOMAIN h = 1..n
               /\ d[n + 1] = x /\ \A i \in 1..n : d[i] = h[i]
    BY LastMember
  <2>2. Ordered(h) /\ \A i \in DOMAIN h : h[i].at < to
    BY <2>1 DEF Ordered
  <2>3. PICK e : e = Within(h, 0, s)
    OBVIOUS
  <2>4. PICK w : w = Within(h, s, to)
    OBVIOUS
  <2>5. Halves(h, e, w)
    BY <1>2, <2>1, <2>2, <2>3, <2>4
  <2>6. /\ Within(d, 0, s) = IF 0 =< x.at /\ x.at < s THEN Append(e, x) ELSE e
        /\ Within(d, s, to) = IF s =< x.at /\ x.at < to THEN Append(w, x) ELSE w
    BY <2>1, <2>3, <2>4, WithinMore
  <2>7. x.at \in Nat /\ x.at < to
    <3>1. x.at \in Nat
      BY StreamsAssumption DEF Trades
    <3>2. n + 1 \in DOMAIN d
      BY <2>1
    <3> QED
      BY <2>1, <3>1, <3>2
  <2>8. /\ Halves(d, e, Append(w, x))
        /\ w = <<>> => Halves(d, Append(e, x), w)
    BY <2>1, <2>5, HalvesMore
  <2>9. CASE x.at < s
    <3>1. Fit(h, w, s, to)
      BY <2>2, <2>4, WithinHolds
    <3>2. ASSUME NEW i \in DOMAIN w PROVE FALSE
      <4>1. PICK j \in 1..n : w[i] = h[j]
        BY <2>1, <3>1 DEF Fit
      <4>2. d[j].at =< d[n + 1].at /\ d[j] = w[i]
        <5>1. j \in DOMAIN d /\ n + 1 \in DOMAIN d /\ j =< n + 1
          BY <2>1
        <5>2. d[j].at =< d[n + 1].at
          BY <5>1 DEF Ordered
        <5>3. d[j] = w[i]
          BY <2>1, <4>1
        <5> QED
          BY <5>2, <5>3
      <4>3. s =< w[i].at
        BY <3>1 DEF Fit
      <4>4. w[i].at \in Nat
        <5>1. w[i] \in Trades
          BY <3>1 DEF Fit
        <5> QED
          BY <5>1, StreamsAssumption DEF Trades
      <4>5. d[n + 1] = x
        BY <2>1
      <4>6. w[i].at =< x.at
        BY <4>2, <4>5
      <4> QED
        BY <2>7, <2>9, <4>3, <4>4, <4>6
    <3>3. w = <<>>
      BY <3>1, <3>2 DEF Fit
    <3>4. Within(d, 0, s) = Append(e, x) /\ Within(d, s, to) = w
      BY <2>6, <2>7, <2>9
    <3> QED
      BY <2>8, <3>3, <3>4
  <2>10. CASE s =< x.at
    <3>1. Within(d, 0, s) = e /\ Within(d, s, to) = Append(w, x)
      BY <2>6, <2>7, <2>10
    <3> QED
      BY <2>8, <3>1
  <2> QED
    BY <2>7, <2>9, <2>10
<1>3. Nat \subseteq Good
  <2> HIDE DEF Good
  <2> QED
    BY <1>1, <1>2, Counting
<1>4. Len(c) \in Nat
  OBVIOUS
<1> QED
  BY <1>3, <1>4

\* The trades before a time are as many as the first half has.
LEMMA OlderIs ==
    ASSUME NEW c \in Seq(Trades), NEW time \in Nat, NEW e, NEW w, Halves(c, e, w),
           \A i \in DOMAIN e : e[i].at < Start(time),
           \A i \in DOMAIN w : ~(w[i].at < Start(time))
    PROVE  Older(c, time) = Len(e)
<1>1. /\ e \in Seq(Trades) /\ w \in Seq(Trades) /\ Len(e) \in Nat /\ Len(w) \in Nat
      /\ Len(c) = Len(e) + Len(w) /\ DOMAIN c = 1..(Len(e) + Len(w))
      /\ DOMAIN e = 1..Len(e) /\ DOMAIN w = 1..Len(w)
      /\ \A i \in 1..Len(e) : c[i] = e[i]
      /\ \A i \in 1..Len(w) : c[Len(e) + i] = w[i]
  BY DEF Halves
<1>2. \A i \in 1..Len(e) : c[i].at < Start(time)
  BY <1>1
<1>3. ASSUME NEW i \in DOMAIN c, c[i].at < Start(time) PROVE i \in 1..Len(e)
  <2>1. SUFFICES ASSUME i > Len(e) PROVE FALSE
    BY <1>1
  <2>2. i - Len(e) \in 1..Len(w) /\ Len(e) + (i - Len(e)) = i
    BY <1>1, <2>1
  <2>3. c[i] = w[i - Len(e)]
    BY <1>1, <2>2
  <2> QED
    BY <1>1, <1>3, <2>2, <2>3
<1>4. {i \in DOMAIN c : c[i].at < Start(time)} = 1..Len(e)
  BY <1>1, <1>2, <1>3
<1>5. Cardinality(1..Len(e)) = Len(e)
  <2>1. PICK n \in Nat : n = Len(e)
    BY <1>1
  <2>2. Cardinality(1..n) = n
    BY FS_Interval
  <2> QED
    BY <2>1, <2>2
<1> QED
  BY <1>4, <1>5 DEF Older

\* What is known of a tape is what was earlier, and what is gathered.
LEMMA KnownIs ==
    ASSUME NEW c \in Seq(Trades), Ordered(c), NEW time \in Nat, \A i \in DOMAIN c : c[i].at =< time
    PROVE  /\ Known(c, time) = Earlier(c, time) \o Gathered(c, time)
           /\ SubSeq(Known(c, time), Older(c, time) + 1, Len(Known(c, time))) = Gathered(c, time)
<1>1. PICK e : e = Earlier(c, time)
  OBVIOUS
<1>2. PICK w : w = Within(c, Start(time), FloorTo(time) + Period)
  OBVIOUS
<1>3. PICK g : g = Gathered(c, time)
  OBVIOUS
<1>4. Start(time) \in Int /\ FloorTo(time) + Period \in Int
  <2>1. At(time, 1) \in Int /\ At(time, 1) = Start(time)
    BY AtIs
  <2>2. FloorTo(time) \in Nat
    BY FloorIs
  <2> QED
    BY <2>1, <2>2, CandlesAssumption
<1>5. \A i \in DOMAIN c : c[i].at < FloorTo(time) + Period
  <2> TAKE i \in DOMAIN c
  <2>1. c[i].at \in Nat /\ c[i].at =< time
    <3>1. c[i] \in Trades
      OBVIOUS
    <3> QED
      BY <3>1, StreamsAssumption DEF Trades
  <2>2. time < FloorTo(time) + Period
    BY FloorIs
  <2> QED
    BY <1>4, <2>1, <2>2
<1>6. Halves(c, e, w)
  BY <1>1, <1>2, <1>4, <1>5, HalvesAre DEF Earlier
<1>7. Fit(c, e, 0, Start(time)) /\ Fit(c, w, Start(time), FloorTo(time) + Period)
  BY <1>1, <1>2, <1>4, WithinHolds DEF Earlier
<1>8. Older(c, time) = Len(e)
  <2>1. \A i \in DOMAIN e : e[i].at < Start(time)
    BY <1>7 DEF Fit
  <2>2. \A i \in DOMAIN w : ~(w[i].at < Start(time))
    <3> TAKE i \in DOMAIN w
    <3>1. w[i] \in Trades /\ Start(time) =< w[i].at
      BY <1>7 DEF Fit
    <3>2. w[i].at \in Nat
      BY <3>1, StreamsAssumption DEF Trades
    <3> QED
      BY <1>4, <3>1, <3>2
  <2> QED
    BY <1>6, <2>1, <2>2, OlderIs
<1>9. PICK m : m = Smaller(Len(w), TakeTrades)
  OBVIOUS
<1>10. /\ e \in Seq(Trades) /\ w \in Seq(Trades) /\ Len(e) \in Nat /\ Len(w) \in Nat
       /\ Len(c) = Len(e) + Len(w)
       /\ \A i \in 1..Len(e) : c[i] = e[i]
       /\ \A i \in 1..Len(w) : c[Len(e) + i] = w[i]
  BY <1>6 DEF Halves
<1>11. m \in Nat /\ m =< Len(w) /\ Smaller(Len(c), Len(e) + TakeTrades) = Len(e) + m
  BY <1>9, <1>10, CandlesAssumption DEF Smaller
<1>12. g = SubSeq(w, 1, m)
  BY <1>2, <1>3, <1>9 DEF Gathered
<1>13. g \in Seq(Trades) /\ Len(g) = m /\ \A i \in 1..m : g[i] = w[i]
  BY <1>10, <1>11, <1>12
<1>14. PICK k : k = Known(c, time)
  OBVIOUS
<1>15. k = SubSeq(c, 1, Len(e) + m)
  BY <1>8, <1>11, <1>14 DEF Known
<1>16. k \in Seq(Trades) /\ Len(k) = Len(e) + m /\ \A i \in 1..(Len(e) + m) : k[i] = c[i]
  BY <1>10, <1>11, <1>15
<1>17. k = e \o g
  <2>1. PICK o : o = e \o g
    OBVIOUS
  <2>2. /\ o \in Seq(Trades) /\ Len(o) = Len(e) + m
        /\ \A i \in 1..Len(e) : o[i] = e[i]
        /\ \A i \in 1..m : o[Len(e) + i] = g[i]
    <3>1. Sides(e, g, o, Start(time))
      BY <1>1, <1>3, <2>1, SidesAre
    <3>2. /\ o \in Seq(Trades) /\ DOMAIN o = 1..(Len(e) + Len(g))
          /\ \A i \in 1..Len(e) : o[i] = e[i]
          /\ \A i \in 1..Len(g) : o[Len(e) + i] = g[i]
      BY <3>1 DEF Sides
    <3>3. Len(o) = Len(e) + m
      BY <1>10, <1>11, <1>13, <3>2
    <3> QED
      BY <1>13, <3>2, <3>3
  <2>3. ASSUME NEW i \in 1..Len(k) PROVE k[i] = o[i]
    <3>1. CASE i \in 1..Len(e)
      BY <1>10, <1>16, <2>2, <3>1
    <3>2. CASE i > Len(e)
      <4>1. i - Len(e) \in 1..m /\ i - Len(e) \in 1..Len(w) /\ Len(e) + (i - Len(e)) = i
        BY <1>10, <1>11, <1>16, <3>2
      <4>2. o[i] = g[i - Len(e)] /\ c[i] = w[i - Len(e)]
        BY <1>10, <2>2, <4>1
      <4> QED
        BY <1>13, <1>16, <4>1, <4>2
    <3> QED
      BY <1>10, <1>16, <3>1, <3>2
  <2>4. k = o
    BY <1>16, <2>2, <2>3, SeqEqual
  <2> QED
    BY <2>1, <2>4
<1>18. SubSeq(k, Len(e) + 1, Len(k)) = g
  <2>1. PICK o : o = SubSeq(k, Len(e) + 1, Len(k))
    OBVIOUS
  <2>2. o \in Seq(Trades) /\ Len(o) = m /\ \A i \in 1..m : o[i] = k[Len(e) + i]
    BY <1>10, <1>11, <1>16, <2>1
  <2>3. ASSUME NEW i \in 1..Len(o) PROVE o[i] = g[i]
    <3>1. i \in 1..m /\ i \in 1..Len(w) /\ Len(e) + i \in 1..(Len(e) + m)
      BY <1>10, <1>11, <2>2
    <3> QED
      BY <1>10, <1>13, <1>16, <2>2, <3>1
  <2>4. o = g
    BY <1>13, <2>2, <2>3, SeqEqual
  <2> QED
    BY <2>1, <2>4
<1>19. k = Earlier(c, time) \o Gathered(c, time)
  BY <1>1, <1>3, <1>17
<1> QED
  BY <1>3, <1>8, <1>14, <1>18, <1>19

\* The candles of a tape in order are those that its trades define, up to the cap.
LEMMA CandlesOfTape ==
    ASSUME NEW c \in Seq(Trades), Ordered(c), NEW time \in Nat, \A i \in DOMAIN c : c[i].at =< time
    PROVE  AreCandles(GapFilledCandles(c, time),
                      SubSeq(Known(c, time), Older(c, time) + 1, Len(Known(c, time))),
                      Known(c, time), time)
<1>1. PICK g : g = Gathered(c, time)
  OBVIOUS
<1>2. PICK k : k = Earlier(c, time) \o Gathered(c, time)
  OBVIOUS
<1>3. AreCandles(GapFilledCandles(c, time), g, k, time)
  BY <1>1, <1>2, CandlesHold
<1>4. Known(c, time) = k /\ SubSeq(Known(c, time), Older(c, time) + 1, Len(Known(c, time))) = g
  BY <1>1, <1>2, KnownIs
<1> QED
  BY <1>3, <1>4

-----------------------------------------------------------------------------
(* Streams.                                                                *)

Busy(s) == stage[s] # "none"

Cur(s) == control[asked[s].symbol]

NumberInv == \A sym \in Symbols : control[sym].nr =< changes

\* What a stream is about.
NamedInv ==
    /\ \A s \in Streams : Busy(s) => asked[s].symbol \in Symbols
    /\ \A s \in snapshot : stage[s] = "open" /\ s \notin left
    /\ \A s \in Streams : ~Busy(s) =>
        /\ shown[s] = NoControl /\ newest[s] = -1 /\ pending[s] = {} /\ unseen[s] = {} /\ beyond[s] = {}
        /\ s \notin overtaken /\ s \notin left

\* A number belongs to one control.
SameNr(c, d) == c.nr =< d.nr /\ (c.nr = d.nr => c = d)

\* Every change since the request has been told at once: what a client has not been told
\* is what the snapshot will say.
ControlInv ==
    \A s \in Streams : Busy(s) =>
        /\ SameNr(first[s], Cur(s))
        /\ SameNr(shown[s], Cur(s))
        /\ \A c \in pending[s] : SameNr(c, Cur(s))
        /\ newest[s] =< Cur(s).nr
        /\ s \notin overtaken => shown[s].nr = newest[s]
        /\ s \in snapshot => newest[s] = Cur(s).nr
        /\ stage[s] # "open" /\ s \notin left => newest[s] = Cur(s).nr \/ first[s] = Cur(s)

TradedIn(sym) == {tape[sym][i].order : i \in DOMAIN tape[sym]}

\* What was asked for and is still unseen when the book has been read was taken from it before.
ReadInv ==
    /\ \A o \in Orders : order[o] \in {"PARTIALLY_FILLED", "FILLED"} => o \in TradedIn(SymbolOf[o])
    /\ \A s \in Streams : \A o \in unseen[s] \ beyond[s] :
        /\ SymbolOf[o] = asked[s].symbol
        /\ order[o] # "NONE"
        /\ stage[s] = "trades" => order[o] # "OPEN"
        /\ s \in snapshot => order[o] = "CANCELLED"

IInv == TypeOK /\ NumberInv /\ NamedInv /\ StreamsObeyFlags /\ ControlInv /\ ReadInv

USE DEF Flags, Modes

LEMMA InitHolds == Init => IInv
<1> SUFFICES ASSUME Init PROVE IInv
  OBVIOUS
<1> USE ControlAssumption, StreamsAssumption DEF Init, ControlInit
<1>1. TypeOK
  BY DEF TypeOK, Control, NoControl, Nobody, Asked, Status
<1>2. NumberInv /\ NamedInv /\ StreamsObeyFlags /\ ControlInv /\ ReadInv
  BY DEF NumberInv, NamedInv, StreamsObeyFlags, ControlInv, ReadInv, Busy
<1> QED
  BY <1>1, <1>2 DEF IInv

\* The market does not touch the streams, and an order never opens again.
LEMMA MarketHolds ==
    ASSUME IInv,
           \/ \E o \in Orders : Place(o)
           \/ \E o \in Orders : Cancel(o)
           \/ \E o \in Orders, price \in Prices, status \in {"FILLED", "PARTIALLY_FILLED"} :
                 Trade(o, price, status)
           \/ Clock
    PROVE  IInv'
<1> USE ControlAssumption, StreamsAssumption
<1>1. UNCHANGED <<controlVars, streamVars>>
  BY DEF Place, Cancel, Trade, Clock
<1>2. TypeOK'
  <2>1. ASSUME NEW o \in Orders, Place(o) \/ Cancel(o)
        PROVE  TypeOK'
    <3>1. order' \in [Orders -> Status]
      <4>1. order \in [Orders -> Status]
        BY DEF IInv, TypeOK
      <4>2. PICK status \in {"OPEN", "CANCELLED"} : order' = [order EXCEPT ![o] = status]
        BY <2>1 DEF Place, Cancel
      <4> QED
        BY <4>1, <4>2 DEF Status
    <3>2. UNCHANGED <<now, tape, controlVars, streamVars>>
      BY <2>1 DEF Place, Cancel
    <3> QED
      BY <3>1, <3>2 DEF IInv, TypeOK, controlVars, streamVars, clientVars
  <2>2. CASE Clock
    BY <2>2 DEF IInv, TypeOK, Clock, controlVars, streamVars, clientVars, Status
  <2>3. ASSUME NEW o \in Orders, NEW price \in Prices, NEW status \in {"FILLED", "PARTIALLY_FILLED"},
               Trade(o, price, status)
        PROVE  TypeOK'
    <3> DEFINE x == [order |-> o, price |-> price, qty |-> 1, at |-> now]
    <3>1. x \in Trades /\ SymbolOf[o] \in Symbols
      BY DEF IInv, TypeOK, Trades
    <3>2. /\ tape' = [tape EXCEPT ![SymbolOf[o]] = Append(@, x)]
          /\ order' = [order EXCEPT ![o] = status]
          /\ UNCHANGED <<now, controlVars, streamVars>>
      BY <2>3 DEF Trade
    <3> HIDE DEF x
    <3>3. tape' \in [Symbols -> Seq(Trades)]
      BY <3>1, <3>2 DEF IInv, TypeOK
    <3>4. order' \in [Orders -> Status]
      BY <3>2 DEF IInv, TypeOK, Status
    <3> QED
      BY <3>2, <3>3, <3>4 DEF IInv, TypeOK, controlVars, streamVars, clientVars
  <2> QED
    BY <2>1, <2>2, <2>3
<1>3. NumberInv' /\ NamedInv' /\ StreamsObeyFlags' /\ ControlInv'
  BY <1>1 DEF IInv, NumberInv, NamedInv, StreamsObeyFlags, ControlInv, Busy, Cur, SameNr, Forbids,
     FlagsOf, controlVars, streamVars, clientVars
<1>4. ReadInv'
  <2>1. \A o \in Orders :
          /\ o \in TradedIn(SymbolOf[o]) => o \in TradedIn(SymbolOf[o])'
          /\ order'[o] \in {"PARTIALLY_FILLED", "FILLED"} =>
                o \in TradedIn(SymbolOf[o])' \/ order'[o] = order[o]
          /\ order'[o] = "NONE" => order[o] = "NONE"
          /\ order'[o] = "OPEN" => order[o] \in {"NONE", "OPEN"}
          /\ order[o] = "CANCELLED" => order'[o] = "CANCELLED"
    <3>1. CASE \E o \in Orders : Place(o) \/ Cancel(o)
      <4>1. PICK o \in Orders : Place(o) \/ Cancel(o)
        BY <3>1
      <4>2. \A p \in Orders : TradedIn(SymbolOf[p])' = TradedIn(SymbolOf[p])
        BY <4>1 DEF Place, Cancel, TradedIn
      <4>3. order \in [Orders -> Status]
        BY DEF IInv, TypeOK
      <4> QED
        BY <4>1, <4>2, <4>3 DEF Place, Cancel, Status
    <3>2. CASE Clock
      BY <3>2 DEF Clock, TradedIn
    <3>3. ASSUME NEW o \in Orders, NEW price \in Prices, NEW status \in {"FILLED", "PARTIALLY_FILLED"},
                 Trade(o, price, status)
          PROVE  /\ \A p \in Orders : p \in TradedIn(SymbolOf[p]) => p \in TradedIn(SymbolOf[p])'
                 /\ o \in TradedIn(SymbolOf[o])'
                 /\ order' = [order EXCEPT ![o] = status]
                 /\ order[o] \in {"OPEN", "PARTIALLY_FILLED"}
      <4> DEFINE x == [order |-> o, price |-> price, qty |-> 1, at |-> now]
      <4>s. PICK sym \in Symbols : sym = SymbolOf[o]
        OBVIOUS
      <4>0. x.order = o
        OBVIOUS
      <4>1. tape \in [Symbols -> Seq(Trades)]
        BY DEF IInv, TypeOK
      <4>2. tape' = [tape EXCEPT ![sym] = Append(@, x)]
        BY <3>3, <4>s DEF Trade
      <4> HIDE DEF x
      <4>3. /\ tape'[sym] = Append(tape[sym], x)
            /\ \A y \in Symbols : y # sym => tape'[y] = tape[y]
        BY <4>0, <4>1, <4>2
      <4>4. /\ DOMAIN tape'[sym] = DOMAIN tape[sym] \cup {Len(tape[sym]) + 1}
            /\ \A i \in DOMAIN tape[sym] : tape'[sym][i] = tape[sym][i]
            /\ tape'[sym][Len(tape[sym]) + 1] = x
        BY <4>0, <4>1, <4>3
      <4>5. o \in TradedIn(sym)' /\ TradedIn(sym) \subseteq TradedIn(sym)'
        <5> DEFINE old == tape[sym]
                   new == tape'[sym]
                   n == Len(tape[sym]) + 1
        <5>1. /\ n \in DOMAIN new /\ new[n].order = o
              /\ \A i \in DOMAIN old : i \in DOMAIN new /\ new[i] = old[i]
          BY <4>0, <4>4
        <5>2. TradedIn(sym) = {old[i].order : i \in DOMAIN old}
          BY DEF TradedIn
        <5>3. TradedIn(sym)' = {new[i].order : i \in DOMAIN new}
          BY DEF TradedIn
        <5> HIDE DEF old, new, n
        <5> QED
          BY <5>1, <5>2, <5>3
      <4>6. \A y \in Symbols : TradedIn(y) \subseteq TradedIn(y)'
        <5>1. ASSUME NEW y \in Symbols, y # sym PROVE TradedIn(y)' = TradedIn(y)
          BY <4>3, <5>1 DEF TradedIn
        <5> QED
          BY <4>5, <5>1
      <4>7. \A p \in Orders : SymbolOf[p] \in Symbols
        OBVIOUS
      <4> QED
        BY <3>3, <4>5, <4>6, <4>7, <4>s DEF Trade
    <3> QED
      BY <3>1, <3>2, <3>3 DEF IInv, TypeOK, Status
  <2> QED
    BY <1>1, <2>1 DEF IInv, TypeOK, ReadInv, Status, streamVars
<1> QED
  BY <1>2, <1>3, <1>4 DEF IInv

\* A new stream is told everything from now on.
LEMMA ConnectHolds ==
    ASSUME IInv, NEW s \in Streams, NEW request \in Requests, NEW candles \in BOOLEAN,
           Connect(s, request, candles)
    PROVE  IInv'
<1> USE ControlAssumption, StreamsAssumption
<1> DEFINE sym == request.symbol
<1>0. sym \in Symbols /\ FlagsOf(sym) \in Flags
  BY DEF IInv, TypeOK, FlagsOf, Requests
<1> DEFINE a == [request EXCEPT !.level = IF @ = 0 THEN FlagsOf(sym).streamDefaultLevel ELSE @]
<1>1. a.symbol = sym /\ a \in Asked
  BY <1>0 DEF Requests, Asked
<1>2. /\ stage[s] = "none"
      /\ ~Forbids(FlagsOf(sym), a)
      /\ stage' = [stage EXCEPT ![s] = IF candles THEN "candles" ELSE "book"]
      /\ asked' = [asked EXCEPT ![s] = a]
      /\ first' = [first EXCEPT ![s] = control[a.symbol]]
      /\ unseen' = [unseen EXCEPT ![s] = OpenOf(a.symbol)]
      /\ UNCHANGED <<beyond, snapshot, pending, clientVars, left, escaped, controlVars, marketVars>>
  BY DEF Connect
<1> HIDE DEF a, sym
<1>3. TypeOK'
  <2>1. OpenOf(a.symbol) \subseteq Orders /\ control[a.symbol] \in Control
    BY <1>0, <1>1 DEF IInv, TypeOK, Control, OpenOf
  <2>2. /\ stage' \in [Streams -> {"none", "candles", "book", "trades", "open"}]
        /\ asked' \in [Streams -> Asked]
        /\ first' \in [Streams -> Control]
        /\ unseen' \in [Streams -> SUBSET Orders]
    BY <1>1, <1>2, <2>1 DEF IInv, TypeOK
  <2> QED
    BY <1>2, <2>2 DEF IInv, TypeOK, controlVars, marketVars, clientVars
<1>4. /\ stage'[s] \in {"candles", "book"} /\ asked'[s] = a /\ first'[s] = control[sym]
      /\ unseen'[s] = OpenOf(sym) /\ Cur(s)' = control[sym] /\ beyond' = beyond
      /\ \A t \in Streams : t # s => /\ stage'[t] = stage[t] /\ asked'[t] = asked[t]
                                     /\ first'[t] = first[t] /\ unseen'[t] = unseen[t]
  BY <1>1, <1>2 DEF IInv, TypeOK, Cur, controlVars
<1>5. NumberInv' /\ NamedInv'
  BY <1>0, <1>1, <1>2, <1>4 DEF IInv, NumberInv, NamedInv, Busy, controlVars, clientVars, TypeOK
<1>6. StreamsObeyFlags'
  BY <1>1, <1>2, <1>4 DEF IInv, StreamsObeyFlags, FlagsOf, controlVars
<1>7. ControlInv'
  BY <1>0, <1>1, <1>2, <1>4 DEF IInv, TypeOK, NamedInv, ControlInv, Busy, Cur, SameNr, NoControl,
     controlVars, clientVars
<1>8. ReadInv'
  BY <1>1, <1>2, <1>4 DEF IInv, TypeOK, ReadInv, NamedInv, Busy, OpenOf, TradedIn, marketVars
<1> QED
  BY <1>3, <1>5, <1>6, <1>7, <1>8 DEF IInv

\* A control that goes out keeps what is known of what its client has received.
LEMMA ReceiveKeeps ==
    ASSUME TypeOK, NEW s \in Streams, NEW c \in Control, Receive(s, c)
    PROVE  /\ shown' \in [Streams -> Control]
           /\ newest' \in [Streams -> -1..MaxChanges]
           /\ overtaken' \subseteq Streams
           /\ shown'[s] = c
           /\ newest'[s] = IF newest[s] > c.nr THEN newest[s] ELSE c.nr
           /\ s \notin overtaken' => c.nr = newest'[s]
           /\ \A t \in Streams : t # s =>
                /\ shown'[t] = shown[t] /\ newest'[t] = newest[t]
                /\ t \in overtaken' <=> t \in overtaken
  BY ControlAssumption DEF TypeOK, Control, Receive, Larger

\* A subset of a finite set has no more members, and fewer if it lacks one.
LEMMA Fewer ==
    ASSUME NEW T, IsFiniteSet(T), NEW S \in SUBSET T
    PROVE  /\ Cardinality(S) \in Nat /\ Cardinality(T) \in Nat /\ Cardinality(S) =< Cardinality(T)
           /\ S # T => Cardinality(S) < Cardinality(T)
<1>1. IsFiniteSet(S) /\ Cardinality(S) =< Cardinality(T)
  BY FS_Subset
<1>2. S # T => Cardinality(S) # Cardinality(T)
  BY FS_Subset
<1>3. Cardinality(S) \in Nat /\ Cardinality(T) \in Nat
  BY <1>1, FS_CardinalityType
<1> QED
  BY <1>1, <1>2, <1>3

\* An open order of the symbol that is not in the book that is read was not asked for.
LEMMA BookOrBeyond ==
    ASSUME NEW a \in Asked, NEW o \in OpenOf(a.symbol), o \notin Book(a)
    PROVE  o \in OutOfDepth(a)
<1> DEFINE open == OpenOf(a.symbol)
           raw == Take(open, TakeRaw(a.depth))
<1>1. IsFiniteSet(open) /\ raw \subseteq open
  BY StreamsAssumption, FS_Subset DEF OpenOf, Take
<1>2. a.depth \in Nat /\ TakeRaw(a.depth) \in Int
  BY StreamsAssumption DEF Asked, TakeRaw, Smaller, Larger
<1>3. Book(a) = IF a.level = 3 THEN Take(open, a.depth) ELSE Levels(raw, a.depth)
  BY DEF Book
<1>4. OutOfDepth(a) = {p \in open :
          IF a.level = 3 THEN Cardinality(OrdersAhead(open, p)) >= a.depth
          ELSE Cardinality(PricesAhead(open, p)) >= a.depth
               \/ Cardinality(OrdersAhead(open, p)) >= TakeRaw(a.depth)}
  BY DEF OutOfDepth
<1>5. o \in open
  OBVIOUS
<1> HIDE DEF open
<1>6. Cardinality(OrdersAhead(open, o)) \in Nat
  BY <1>1, Fewer DEF OrdersAhead
<1>7. CASE a.level = 3
  <2>1. ~(Cardinality(OrdersAhead(open, o)) < a.depth)
    BY <1>3, <1>5, <1>7 DEF Take
  <2> QED
    BY <1>2, <1>4, <1>5, <1>6, <1>7, <2>1
<1>8. CASE a.level # 3 /\ o \notin raw
  <2>1. ~(Cardinality(OrdersAhead(open, o)) < TakeRaw(a.depth))
    BY <1>5, <1>8 DEF Take
  <2> QED
    BY <1>2, <1>4, <1>5, <1>6, <1>8, <2>1
<1>9. CASE a.level # 3 /\ o \in raw
  <2> HIDE DEF raw
  <2>1. ~(Cardinality(PricesAhead(raw, o)) < a.depth)
    BY <1>3, <1>9 DEF Levels
  <2>2. IsFiniteSet(PricesAhead(open, o))
    <3> DEFINE Q == {q \in open : Better(q, o)}
               f == [q \in Q |-> PriceOf[q]]
    <3>1. IsFiniteSet(Q)
      BY <1>1, FS_Subset
    <3>2. f \in Surjection(Q, PricesAhead(open, o))
      BY DEF PricesAhead, Surjection
    <3> QED
      BY <3>1, <3>2, FS_Surjection
  <2>3. PricesAhead(raw, o) \subseteq PricesAhead(open, o)
    BY <1>1 DEF PricesAhead
  <2>4. /\ Cardinality(PricesAhead(raw, o)) \in Nat /\ Cardinality(PricesAhead(open, o)) \in Nat
        /\ Cardinality(PricesAhead(raw, o)) =< Cardinality(PricesAhead(open, o))
    BY <2>2, <2>3, Fewer
  <2> QED
    BY <1>2, <1>4, <1>5, <1>9, <2>1, <2>4
<1> QED
  BY <1>7, <1>8, <1>9

\* An order that traded and is in none of the trades that are read was not asked for.
LEMMA TradesOrBeyond ==
    ASSUME TypeOK, NEW a \in Asked, a.symbol \in Symbols, NEW read \in NewestTrades(a),
           NEW o \in TradedIn(a.symbol), \A i \in read : tape[a.symbol][i].order # o
    PROVE  o \in OutOfLimits(a)
<1> DEFINE trades == tape[a.symbol]
           others(i) == {j \in DOMAIN trades \ {i} : trades[j].at >= trades[i].at}
<1>1. /\ trades \in Seq(Trades)
      /\ a.limit \in Nat /\ a.since \in Nat /\ MaxTime \in Nat
  BY StreamsAssumption DEF TypeOK, Asked
<1>2. IsFiniteSet(DOMAIN trades)
  <2>1. PICK n \in Nat : DOMAIN trades = 1..n
    BY <1>1
  <2>2. IsFiniteSet(1..n)
    BY FS_Interval
  <2> QED
    BY <2>1, <2>2
<1>3. \A i \in DOMAIN trades : trades[i].at \in Nat
  <2> TAKE i \in DOMAIN trades
  <2>1. trades[i] \in Trades
    BY <1>1
  <2> QED
    BY <1>1, <2>1 DEF Trades
<1>4. ASSUME NEW i \in DOMAIN trades, trades[i].order = o, ~(trades[i].at < a.since)
      PROVE  Cardinality(others(i)) >= a.limit
  <2>1. /\ read \subseteq Since(a) /\ Cardinality(read) = Smaller(Cardinality(Since(a)), a.limit)
        /\ \A k \in read, j \in Since(a) \ read : trades[k].at >= trades[j].at
    BY DEF NewestTrades
  <2>2. i \in Since(a) \ read
    BY <1>1, <1>3, <1>4 DEF Since
  <2>3. IsFiniteSet(Since(a)) /\ Since(a) \subseteq DOMAIN trades
    BY <1>2, FS_Subset DEF Since
  <2>4. Cardinality(read) \in Nat /\ Cardinality(Since(a)) \in Nat /\ Cardinality(read) < Cardinality(Since(a))
    BY <2>1, <2>2, <2>3, Fewer
  <2>5. Cardinality(read) = a.limit
    BY <1>1, <2>1, <2>4 DEF Smaller
  <2>6. read \subseteq others(i)
    BY <2>1, <2>2, <2>3
  <2>7. IsFiniteSet(others(i))
    BY <1>2, FS_Subset
  <2> HIDE DEF others
  <2>8. Cardinality(others(i)) \in Nat /\ Cardinality(read) =< Cardinality(others(i))
    BY <2>6, <2>7, Fewer
  <2> QED
    BY <1>1, <2>5, <2>8
<1>5. o \in {trades[i].order : i \in DOMAIN trades}
  BY DEF TradedIn
<1> QED
  BY <1>4, <1>5 DEF OutOfLimits

\* A read that is not the last only moves on; the last one sends the snapshot, if there is
\* anybody to send it to.
LEMMA ReadHolds ==
    ASSUME IInv, NEW s \in Streams, Read(s)
    PROVE  IInv'
<1> USE ControlAssumption, StreamsAssumption
<1>1. /\ stage[s] \in {"candles", "book", "trades"}
      /\ stage' = [stage EXCEPT ![s] = NextRead(@)]
      /\ stage'[s] \in {"book", "trades", "open"}
      /\ stage'[s] = "trades" <=> stage[s] = "book"
      /\ stage'[s] = "open" <=> stage[s] = "trades"
      /\ \A t \in Streams : t # s => stage'[t] = stage[t]
      /\ stage' \in [Streams -> {"none", "candles", "book", "trades", "open"}]
  BY DEF IInv, TypeOK, Read, NextRead
<1>2. UNCHANGED <<asked, pending, left, escaped, controlVars, marketVars>>
  BY DEF Read
<1>3. /\ first' \in [Streams -> Control]
      /\ stage'[s] # "open" => first'[s] = first[s]
      /\ stage'[s] = "open" => first'[s] = NoControl
      /\ \A t \in Streams : t # s => first'[t] = first[t]
  BY DEF IInv, TypeOK, Read, NoControl, Control
<1> DEFINE a == asked[s]
<1>a. a \in Asked /\ a.symbol \in Symbols
  BY <1>1 DEF IInv, TypeOK, NamedInv, Busy
<1>b. PICK found \in Findings(s) : unseen' = [unseen EXCEPT ![s] = @ \ found]
  BY DEF Read
<1>c. beyond' = [beyond EXCEPT ![s] = @ \cup NotAsked(s)]
  BY DEF Read
<1>d. /\ stage[s] = "book" => found = Book(a) /\ NotAsked(s) = OutOfDepth(a)
      /\ stage[s] = "trades" =>
            /\ \E read \in NewestTrades(a) : found = {tape[a.symbol][i].order : i \in read}
            /\ NotAsked(s) = OutOfLimits(a)
      /\ stage[s] = "candles" => NotAsked(s) = {}
  BY <1>b DEF Findings, NotAsked
<1>e. NotAsked(s) \subseteq Orders
  <2>1. OutOfDepth(a) \subseteq Orders
    BY DEF OutOfDepth, OpenOf
  <2>2. OutOfLimits(a) \subseteq TradedIn(a.symbol)
    BY DEF OutOfLimits, TradedIn
  <2>3. TradedIn(a.symbol) \subseteq Orders
    <3>1. tape[a.symbol] \in Seq(Trades)
      BY <1>a DEF IInv, TypeOK
    <3>2. ASSUME NEW i \in DOMAIN tape[a.symbol] PROVE tape[a.symbol][i].order \in Orders
      <4>1. tape[a.symbol][i] \in Trades
        BY <3>1
      <4> QED
        BY <4>1 DEF Trades
    <3> QED
      BY <3>2 DEF TradedIn
  <2> QED
    BY <1>1, <1>d, <2>1, <2>2, <2>3
<1>4. /\ unseen' \in [Streams -> SUBSET Orders] /\ beyond' \in [Streams -> SUBSET Orders]
      /\ unseen'[s] = unseen[s] \ found /\ beyond'[s] = beyond[s] \cup NotAsked(s)
      /\ \A t \in Streams : t # s => unseen'[t] = unseen[t] /\ beyond'[t] = beyond[t]
  BY <1>b, <1>c, <1>e DEF IInv, TypeOK
<1> HIDE DEF a
<1>5. /\ snapshot' \subseteq Streams
      /\ \A t \in Streams : t # s => (t \in snapshot' <=> t \in snapshot)
      /\ s \in snapshot' => stage'[s] = "open" /\ s \notin left
      /\ s \notin snapshot
  BY <1>1 DEF IInv, TypeOK, NamedInv, Read
<1>6. /\ shown' \in [Streams -> Control]
      /\ newest' \in [Streams -> -1..MaxChanges]
      /\ overtaken' \subseteq Streams
      /\ \A t \in Streams : t # s =>
            /\ shown'[t] = shown[t] /\ newest'[t] = newest[t]
            /\ t \in overtaken' <=> t \in overtaken
      /\ \/ UNCHANGED clientVars /\ s \notin snapshot'
         \/ /\ stage[s] = "trades" /\ s \notin left
            /\ shown'[s] = first[s]
            /\ newest'[s] = IF newest[s] > first[s].nr THEN newest[s] ELSE first[s].nr
            /\ s \notin overtaken' => first[s].nr = newest'[s]
  <2>1. TypeOK /\ first[s] \in Control
    BY DEF IInv, TypeOK
  <2>2. CASE stage'[s] = "open" /\ s \notin left
    <3>1. Receive(s, first[s])
      BY <2>2 DEF Read
    <3> QED
      BY <1>1, <2>1, <2>2, <3>1, ReceiveKeeps
  <2>3. CASE ~(stage'[s] = "open" /\ s \notin left)
    BY <1>5, <2>1, <2>3 DEF Read, TypeOK, clientVars
  <2> QED
    BY <2>2, <2>3
<1>7. TypeOK'
  BY <1>1, <1>2, <1>3, <1>4, <1>5, <1>6 DEF IInv, TypeOK, controlVars, marketVars
<1>8. NumberInv' /\ NamedInv' /\ StreamsObeyFlags'
  BY <1>1, <1>2, <1>4, <1>5, <1>6 DEF IInv, TypeOK, NumberInv, NamedInv, StreamsObeyFlags, Busy,
     FlagsOf, controlVars
<1>9. ControlInv'
  <2>1. ASSUME NEW t \in Streams, t # s, Busy(t)'
        PROVE  /\ SameNr(first[t], Cur(t))' /\ SameNr(shown[t], Cur(t))'
               /\ \A c \in pending'[t] : SameNr(c, Cur(t)')
               /\ newest'[t] =< Cur(t)'.nr
               /\ t \notin overtaken' => shown'[t].nr = newest'[t]
               /\ t \in snapshot' => newest'[t] = Cur(t)'.nr
               /\ stage'[t] # "open" /\ t \notin left' => newest'[t] = Cur(t)'.nr \/ first'[t] = Cur(t)'
    BY <1>1, <1>2, <1>3, <1>5, <1>6, <2>1 DEF IInv, ControlInv, Busy, Cur, SameNr, controlVars, clientVars
  <2>2. /\ Busy(s) /\ Cur(s)' = Cur(s) /\ Cur(s) \in [mode : Modes, nr : 0..MaxChanges]
        /\ first[s] \in Control /\ shown[s] \in Control /\ newest[s] \in -1..MaxChanges
    BY <1>1, <1>2 DEF IInv, TypeOK, NamedInv, Busy, Cur, controlVars
  <2>3. /\ SameNr(first[s], Cur(s)) /\ SameNr(shown[s], Cur(s))
        /\ \A c \in pending[s] : SameNr(c, Cur(s))
        /\ newest[s] =< Cur(s).nr
        /\ s \notin overtaken => shown[s].nr = newest[s]
        /\ s \notin left => newest[s] = Cur(s).nr \/ first[s] = Cur(s)
    BY <1>1, <2>2 DEF IInv, ControlInv
  <2>4. /\ SameNr(first'[s], Cur(s))
        /\ stage'[s] # "open" => first'[s] = first[s]
    BY <1>3, <2>2, <2>3 DEF SameNr, NoControl, Control
  <2>5. CASE UNCHANGED clientVars /\ s \notin snapshot'
    <3>1. /\ shown'[s] = shown[s] /\ newest'[s] = newest[s] /\ (s \in overtaken' <=> s \in overtaken)
          /\ pending'[s] = pending[s] /\ (s \in left' <=> s \in left)
      BY <1>2, <2>5 DEF clientVars
    <3> QED
      BY <2>1, <2>2, <2>3, <2>4, <2>5, <3>1 DEF ControlInv
  <2>6. CASE /\ stage[s] = "trades" /\ s \notin left
             /\ shown'[s] = first[s]
             /\ newest'[s] = IF newest[s] > first[s].nr THEN newest[s] ELSE first[s].nr
             /\ s \notin overtaken' => first[s].nr = newest'[s]
    <3>1. newest'[s] = Cur(s).nr
      BY <2>2, <2>3, <2>6 DEF SameNr, Control
    <3>2. SameNr(shown'[s], Cur(s))
      BY <2>3, <2>6
    <3>3. pending'[s] = pending[s] /\ stage'[s] = "open"
      BY <1>1, <1>2, <2>6
    <3> QED
      BY <2>1, <2>2, <2>3, <2>4, <2>6, <3>1, <3>2, <3>3 DEF ControlInv
  <2> QED
    BY <1>6, <2>5, <2>6
<1>10. ReadInv'
  <2>1. order' = order /\ asked' = asked /\ \A sym : TradedIn(sym)' = TradedIn(sym)
    BY <1>2 DEF TradedIn, marketVars
  <2>2. ASSUME NEW t \in Streams, t # s, NEW o \in unseen'[t] \ beyond'[t]
        PROVE  /\ SymbolOf[o] = asked[t].symbol
               /\ order[o] # "NONE"
               /\ stage'[t] = "trades" => order[o] # "OPEN"
               /\ t \in snapshot' => order[o] = "CANCELLED"
    BY <1>1, <1>4, <1>5, <2>2 DEF IInv, ReadInv
  <2>3. ASSUME NEW o \in unseen'[s] \ beyond'[s]
        PROVE  /\ SymbolOf[o] = asked[s].symbol
               /\ order[o] # "NONE"
               /\ stage'[s] = "trades" => order[o] # "OPEN"
               /\ s \in snapshot' => order[o] = "CANCELLED"
    <3>1. o \in unseen[s] \ beyond[s] /\ o \in Orders /\ o \notin found /\ o \notin NotAsked(s)
      BY <1>4 DEF IInv, TypeOK
    <3>2. SymbolOf[o] = a.symbol /\ order[o] # "NONE" /\ (stage[s] = "trades" => order[o] # "OPEN")
      BY <3>1 DEF IInv, ReadInv, a
    <3>3. ASSUME stage'[s] = "trades", order[o] = "OPEN" PROVE FALSE
      <4>1. o \in OpenOf(a.symbol)
        BY <3>1, <3>2, <3>3 DEF OpenOf
      <4>2. o \notin Book(a) /\ o \notin OutOfDepth(a)
        BY <1>1, <1>d, <3>1, <3>3
      <4> QED
        BY <1>a, <4>1, <4>2, BookOrBeyond
    <3>4. ASSUME s \in snapshot' PROVE order[o] = "CANCELLED"
      <4>1. stage[s] = "trades"
        BY <1>1, <1>5, <3>4
      <4>2. o \notin TradedIn(a.symbol)
        <5>1. PICK read \in NewestTrades(a) : found = {tape[a.symbol][i].order : i \in read}
          BY <1>d, <4>1
        <5>2. (\A i \in read : tape[a.symbol][i].order # o) /\ o \notin OutOfLimits(a)
          BY <1>d, <3>1, <4>1, <5>1
        <5> QED
          BY <1>a, <5>2, TradesOrBeyond DEF IInv
      <4>3. order[o] \notin {"PARTIALLY_FILLED", "FILLED"} /\ order[o] \in Status
        BY <3>1, <3>2, <4>2 DEF IInv, TypeOK, ReadInv
      <4> QED
        BY <3>2, <4>1, <4>3 DEF Status
    <3> QED
      BY <3>2, <3>3, <3>4 DEF a
  <2>4. \A o \in Orders : order[o] \in {"PARTIALLY_FILLED", "FILLED"} => o \in TradedIn(SymbolOf[o])
    BY DEF IInv, ReadInv
  <2> QED
    BY <2>1, <2>2, <2>3, <2>4 DEF ReadInv
<1> QED
  BY <1>7, <1>8, <1>9, <1>10 DEF IInv

LEMMA SnapshotFailsHolds ==
    ASSUME IInv, NEW s \in Streams, SnapshotFails(s)
    PROVE  IInv'
<1> USE ControlAssumption, StreamsAssumption
<1>1. TypeOK'
  BY DEF IInv, TypeOK, SnapshotFails, NoControl, Control, controlVars, marketVars, clientVars
<1>2. NumberInv' /\ NamedInv' /\ StreamsObeyFlags'
  BY DEF IInv, TypeOK, SnapshotFails, NumberInv, NamedInv, StreamsObeyFlags, Busy, FlagsOf,
     controlVars, clientVars
<1>3. ControlInv'
  BY DEF IInv, TypeOK, SnapshotFails, NamedInv, ControlInv, Busy, Cur, SameNr, NoControl, Control,
     controlVars, clientVars
<1>4. ReadInv'
  BY DEF IInv, TypeOK, SnapshotFails, NamedInv, ReadInv, TradedIn, marketVars
<1> QED
  BY <1>1, <1>2, <1>3, <1>4 DEF IInv

LEMMA AnswerModeHolds ==
    ASSUME IInv, NEW s \in Streams, AnswerMode(s)
    PROVE  IInv'
<1> USE ControlAssumption, StreamsAssumption
<1>1. PICK c \in pending[s] : /\ pending' = [pending EXCEPT ![s] = @ \ {c}]
                              /\ Receive(s, c) \/ UNCHANGED clientVars
  BY DEF AnswerMode
<1>2. c \in Control /\ TypeOK
  BY DEF IInv, TypeOK
<1>3. UNCHANGED <<stage, asked, first, unseen, beyond, snapshot, left, escaped, controlVars, marketVars>>
  BY DEF AnswerMode
<1>4. CASE UNCHANGED clientVars
  <2>1. TypeOK'
    BY <1>1, <1>3, <1>4 DEF IInv, TypeOK, controlVars, marketVars, clientVars
  <2>2. NumberInv' /\ NamedInv' /\ StreamsObeyFlags' /\ ReadInv'
    BY <1>1, <1>3, <1>4 DEF IInv, TypeOK, NumberInv, NamedInv, StreamsObeyFlags, ReadInv, Busy,
       FlagsOf, TradedIn, controlVars, marketVars, clientVars
  <2>3. ControlInv'
    BY <1>1, <1>3, <1>4 DEF IInv, TypeOK, ControlInv, Busy, Cur, controlVars, clientVars
  <2> QED
    BY <2>1, <2>2, <2>3 DEF IInv
<1>5. CASE Receive(s, c)
  <2>1. /\ shown' \in [Streams -> Control]
        /\ newest' \in [Streams -> -1..MaxChanges]
        /\ overtaken' \subseteq Streams
        /\ shown'[s] = c
        /\ newest'[s] = IF newest[s] > c.nr THEN newest[s] ELSE c.nr
        /\ s \notin overtaken' => c.nr = newest'[s]
        /\ \A t \in Streams : t # s =>
              /\ shown'[t] = shown[t] /\ newest'[t] = newest[t]
              /\ t \in overtaken' <=> t \in overtaken
    BY <1>2, <1>5, ReceiveKeeps
  <2>2. /\ pending' \in [Streams -> SUBSET Control]
        /\ pending'[s] = pending[s] \ {c}
        /\ \A t \in Streams : t # s => pending'[t] = pending[t]
    BY <1>1, <1>2 DEF TypeOK
  <2>3. Busy(s)
    BY <1>1 DEF IInv, NamedInv
  <2>4. TypeOK'
    BY <1>2, <1>3, <2>1, <2>2 DEF TypeOK, controlVars, marketVars
  <2>5. NumberInv' /\ NamedInv' /\ StreamsObeyFlags' /\ ReadInv'
    BY <1>3, <2>1, <2>2, <2>3 DEF IInv, TypeOK, NumberInv, NamedInv, StreamsObeyFlags, ReadInv, Busy,
       FlagsOf, TradedIn, controlVars, marketVars
  <2>6. SameNr(c, Cur(s))
    BY <1>1, <2>3 DEF IInv, ControlInv
  <2>7. ControlInv'
    BY <1>2, <1>3, <2>1, <2>2, <2>3, <2>6, SMTT(30)
    DEF IInv, TypeOK, NamedInv, ControlInv, Busy, Cur, SameNr, Control, controlVars
  <2> QED
    BY <2>4, <2>5, <2>7 DEF IInv
<1> QED
  BY <1>1, <1>4, <1>5

\* shutdown leaves nothing of a stream behind, and touches no other.
LEMMA ClosedKeeps ==
    ASSUME IInv, NEW gone \in SUBSET Streams, Closed(gone),
           UNCHANGED <<first, marketVars, control>>, changes' \in Int, changes =< changes'
    PROVE  /\ stage' \in [Streams -> {"none", "candles", "book", "trades", "open"}]
           /\ asked' \in [Streams -> Asked]
           /\ unseen' \in [Streams -> SUBSET Orders] /\ beyond' \in [Streams -> SUBSET Orders]
           /\ pending' \in [Streams -> SUBSET Control]
           /\ shown' \in [Streams -> Control]
           /\ newest' \in [Streams -> -1..MaxChanges]
           /\ snapshot' \subseteq Streams /\ overtaken' \subseteq Streams /\ left' \subseteq Streams
           /\ \A s \in Streams \ gone : stage'[s] = stage[s] /\ asked'[s] = asked[s]
           /\ \A s \in gone : stage'[s] = "none"
           /\ NumberInv' /\ NamedInv' /\ ControlInv' /\ ReadInv'
<1> USE ControlAssumption, StreamsAssumption
<1>1. /\ stage' \in [Streams -> {"none", "candles", "book", "trades", "open"}]
      /\ asked' \in [Streams -> Asked]
      /\ unseen' \in [Streams -> SUBSET Orders] /\ beyond' \in [Streams -> SUBSET Orders]
      /\ pending' \in [Streams -> SUBSET Control]
  BY DEF IInv, TypeOK, Closed, Nobody, Asked
<1>2. /\ shown' \in [Streams -> Control]
      /\ newest' \in [Streams -> -1..MaxChanges]
      /\ snapshot' \subseteq Streams /\ overtaken' \subseteq Streams /\ left' \subseteq Streams
  BY DEF IInv, TypeOK, Closed, NoControl, Control
<1>3. \A s \in Streams \ gone :
        /\ stage'[s] = stage[s] /\ asked'[s] = asked[s] /\ unseen'[s] = unseen[s]
        /\ beyond'[s] = beyond[s]
        /\ pending'[s] = pending[s] /\ shown'[s] = shown[s] /\ newest'[s] = newest[s]
        /\ s \in snapshot' <=> s \in snapshot
        /\ s \in overtaken' <=> s \in overtaken
        /\ s \in left' <=> s \in left
  BY DEF Closed
<1>4. \A s \in gone :
        /\ stage'[s] = "none" /\ unseen'[s] = {} /\ beyond'[s] = {} /\ pending'[s] = {}
        /\ shown'[s] = NoControl /\ newest'[s] = -1
        /\ s \notin snapshot' /\ s \notin overtaken' /\ s \notin left'
  BY DEF Closed
<1>5. NumberInv'
  BY DEF IInv, TypeOK, NumberInv
<1>6. NamedInv'
  BY <1>2, <1>3, <1>4 DEF IInv, NamedInv, Busy
<1>7. ControlInv'
  BY <1>3, <1>4 DEF IInv, ControlInv, Busy, Cur
<1>8. ReadInv'
  <2>1. order' = order /\ \A sym : TradedIn(sym)' = TradedIn(sym)
    BY DEF TradedIn, marketVars
  <2>2. \A o \in Orders : order[o] \in {"PARTIALLY_FILLED", "FILLED"} => o \in TradedIn(SymbolOf[o])
    BY DEF IInv, ReadInv
  <2>3. ASSUME NEW s \in Streams, NEW o \in unseen'[s] \ beyond'[s]
        PROVE  /\ SymbolOf[o] = asked'[s].symbol
               /\ order[o] # "NONE"
               /\ stage'[s] = "trades" => order[o] # "OPEN"
               /\ s \in snapshot' => order[o] = "CANCELLED"
    <3>1. s \in Streams \ gone
      BY <1>4, <2>3
    <3> QED
      BY <1>3, <2>3, <3>1 DEF IInv, ReadInv
  <2> QED
    BY <2>1, <2>2, <2>3 DEF ReadInv
<1> QED
  BY <1>1, <1>2, <1>3, <1>4, <1>5, <1>6, <1>7, <1>8

LEMMA LeaveHolds ==
    ASSUME IInv, NEW s \in Streams, Leave(s)
    PROVE  IInv'
<1> USE ControlAssumption, StreamsAssumption
<1>1. UNCHANGED <<first, controlVars, marketVars>> /\ stage[s] # "none"
  BY DEF Leave
<1>2. CASE stage[s] = "open"
  <2>1. Closed({s}) /\ escaped' = escaped \ {s}
    BY <1>2 DEF Leave
  <2>2. UNCHANGED <<first, marketVars, control>> /\ changes' \in Int /\ changes =< changes'
    BY <1>1 DEF IInv, TypeOK, controlVars
  <2>3. /\ stage' \in [Streams -> {"none", "candles", "book", "trades", "open"}]
        /\ asked' \in [Streams -> Asked]
        /\ unseen' \in [Streams -> SUBSET Orders] /\ beyond' \in [Streams -> SUBSET Orders]
        /\ pending' \in [Streams -> SUBSET Control]
        /\ shown' \in [Streams -> Control]
        /\ newest' \in [Streams -> -1..MaxChanges]
        /\ snapshot' \subseteq Streams /\ overtaken' \subseteq Streams /\ left' \subseteq Streams
        /\ \A t \in Streams \ {s} : stage'[t] = stage[t] /\ asked'[t] = asked[t]
        /\ \A t \in {s} : stage'[t] = "none"
        /\ NumberInv' /\ NamedInv' /\ ControlInv' /\ ReadInv'
    BY <2>1, <2>2, ClosedKeeps
  <2>4. TypeOK'
    BY <1>1, <2>1, <2>3 DEF IInv, TypeOK, controlVars, marketVars
  <2>5. StreamsObeyFlags'
    BY <1>1, <2>1, <2>3 DEF IInv, StreamsObeyFlags, FlagsOf, controlVars
  <2> QED
    BY <2>3, <2>4, <2>5 DEF IInv
<1>3. CASE stage[s] # "open"
  <2>1. /\ left' = left \cup {s}
        /\ UNCHANGED <<stage, asked, unseen, beyond, snapshot, pending, clientVars, escaped>>
    BY <1>3 DEF Leave
  <2>2. TypeOK'
    BY <1>1, <2>1 DEF IInv, TypeOK, controlVars, marketVars, clientVars
  <2>3. s \notin snapshot
    BY <1>3 DEF IInv, NamedInv
  <2>4. NumberInv' /\ NamedInv' /\ StreamsObeyFlags'
    BY <1>1, <2>1, <2>3 DEF IInv, NumberInv, NamedInv, StreamsObeyFlags, Busy, FlagsOf, controlVars,
       clientVars
  <2>5. ControlInv' /\ ReadInv'
    BY <1>1, <2>1 DEF IInv, ControlInv, ReadInv, Busy, Cur, TradedIn, controlVars, marketVars, clientVars
  <2> QED
    BY <2>2, <2>4, <2>5 DEF IInv
<1> QED
  BY <1>2, <1>3

\* The control that is set is newer than any, and every listener gets it at once.
LEMMA ModeHolds ==
    ASSUME IInv, NEW sym \in Symbols, NEW mode \in Modes, SetMode(sym, mode), HearMode(sym)
    PROVE  IInv'
<1> USE ControlAssumption, StreamsAssumption
<1> DEFINE c == [mode |-> mode, nr |-> changes + 1]
<1> DEFINE hears == Told(sym) \ left
<1>1. /\ changes' = changes + 1 /\ changes < MaxChanges
      /\ control' = [control EXCEPT ![sym] = c]
      /\ UNCHANGED <<defaults, override>>
      /\ UNCHANGED <<stage, asked, first, unseen, beyond, snapshot, left, escaped, marketVars>>
  BY DEF SetMode, Change, HearMode
<1>2. /\ changes \in 0..MaxChanges /\ changes + 1 \in 0..MaxChanges
      /\ c \in [mode : Modes, nr : 0..MaxChanges] /\ c \in Control /\ c.nr = changes + 1
  BY <1>1 DEF IInv, TypeOK, Control
<1>3. control'[sym] = c /\ \A x \in Symbols : x # sym => control'[x] = control[x]
  BY <1>1 DEF IInv, TypeOK
<1>4. Everyone # sym /\ hears \subseteq Streams
  BY DEF Told
<1>5. \A s \in Streams :
        /\ s \in hears <=> stage[s] # "none" /\ asked[s].symbol = sym /\ s \notin left
        /\ s \in hears => /\ shown'[s] = c /\ newest'[s] = c.nr
                          /\ pending'[s] = pending[s] \cup {c} /\ s \notin overtaken'
        /\ s \notin hears => /\ shown'[s] = shown[s] /\ newest'[s] = newest[s]
                             /\ pending'[s] = pending[s]
                             /\ (s \in overtaken' <=> s \in overtaken)
  BY <1>3, <1>4 DEF HearMode, Told
<1>6. /\ shown' = [s \in Streams |-> IF s \in hears THEN c ELSE shown[s]]
      /\ newest' = [s \in Streams |-> IF s \in hears THEN c.nr ELSE newest[s]]
      /\ overtaken' = overtaken \ hears
      /\ pending' = [s \in Streams |-> IF s \in hears THEN pending[s] \cup {c} ELSE pending[s]]
  BY <1>3 DEF HearMode
<1> HIDE DEF c, hears
<1>7. TypeOK'
  <2>1. /\ control' \in [Symbols -> [mode : Modes, nr : 0..MaxChanges]]
        /\ changes' \in 0..MaxChanges
    BY <1>1, <1>2 DEF IInv, TypeOK
  <2>2. /\ shown' \in [Streams -> Control]
        /\ newest' \in [Streams -> -1..MaxChanges]
        /\ overtaken' \subseteq Streams
        /\ pending' \in [Streams -> SUBSET Control]
    BY <1>2, <1>6 DEF IInv, TypeOK
  <2> QED
    BY <1>1, <2>1, <2>2 DEF IInv, TypeOK, marketVars
<1>8. NumberInv'
  <2>1. ASSUME NEW x \in Symbols PROVE control'[x].nr =< changes'
    <3>1. control[x].nr =< changes /\ control[x].nr \in Int
      BY DEF IInv, TypeOK, NumberInv
    <3> QED
      BY <1>1, <1>2, <1>3, <3>1
  <2> QED
    BY <2>1 DEF NumberInv
<1>9. NamedInv' /\ StreamsObeyFlags'
  BY <1>1, <1>5 DEF IInv, NamedInv, StreamsObeyFlags, Busy, FlagsOf
<1>10. ReadInv'
  BY <1>1 DEF IInv, ReadInv, TradedIn, marketVars
<1>11. ControlInv'
  <2>1. ASSUME NEW s \in Streams, Busy(s), asked[s].symbol # sym
        PROVE  Cur(s)' = Cur(s) /\ s \notin hears
    BY <1>1, <1>3, <1>5, <2>1 DEF IInv, NamedInv, Cur
  <2>2. ASSUME NEW s \in Streams, Busy(s), asked[s].symbol = sym
        PROVE  /\ Cur(s)' = c
               /\ Cur(s).nr < c.nr
               /\ \A d \in Control : SameNr(d, Cur(s)) => SameNr(d, c)
    <3>1. Cur(s)' = c
      BY <1>1, <1>3, <2>2 DEF Cur
    <3>2. Cur(s).nr \in Int /\ Cur(s).nr =< changes
      BY <2>2 DEF IInv, TypeOK, NumberInv, Cur
    <3> QED
      BY <1>2, <3>1, <3>2 DEF SameNr, Control
  <2>3. ASSUME NEW s \in Streams, Busy(s), asked[s].symbol = sym
        PROVE  /\ SameNr(first[s], c) /\ SameNr(shown'[s], c)
               /\ \A d \in pending'[s] : SameNr(d, c)
               /\ newest'[s] =< c.nr
               /\ s \notin overtaken' => shown'[s].nr = newest'[s]
               /\ s \in snapshot => newest'[s] = c.nr
               /\ s \notin left => newest'[s] = c.nr
    <3>1. SameNr(c, c) /\ c.nr \in Int
      BY <1>2 DEF SameNr
    <3>2. /\ SameNr(first[s], c) /\ SameNr(shown[s], c)
          /\ \A d \in pending[s] : SameNr(d, c)
      <4>1. /\ first[s] \in Control /\ shown[s] \in Control /\ \A d \in pending[s] : d \in Control
        BY DEF IInv, TypeOK
      <4>2. /\ SameNr(first[s], Cur(s)) /\ SameNr(shown[s], Cur(s))
            /\ \A d \in pending[s] : SameNr(d, Cur(s))
        BY <2>3 DEF IInv, ControlInv
      <4> QED
        BY <2>2, <2>3, <4>1, <4>2
    <3>3. newest[s] =< c.nr
      <4>1. newest[s] \in Int /\ Cur(s).nr \in Int /\ newest[s] =< Cur(s).nr
        BY <2>3 DEF IInv, TypeOK, ControlInv, Cur
      <4> QED
        BY <2>2, <2>3, <3>1, <4>1
    <3>4. s \in snapshot => s \notin left
      BY DEF IInv, NamedInv
    <3>5. s \notin left => s \in hears
      BY <1>5, <2>3 DEF Busy
    <3>6. s \notin overtaken => shown[s].nr = newest[s]
      BY <2>3 DEF IInv, ControlInv
    <3> QED
      BY <1>5, <3>1, <3>2, <3>3, <3>4, <3>5, <3>6
  <2>4. ASSUME NEW s \in Streams, Busy(s)'
        PROVE  /\ SameNr(first[s], Cur(s)') /\ SameNr(shown'[s], Cur(s)')
               /\ \A d \in pending'[s] : SameNr(d, Cur(s)')
               /\ newest'[s] =< Cur(s)'.nr
               /\ s \notin overtaken' => shown'[s].nr = newest'[s]
               /\ s \in snapshot => newest'[s] = Cur(s)'.nr
               /\ stage[s] # "open" /\ s \notin left => newest'[s] = Cur(s)'.nr \/ first[s] = Cur(s)'
    <3>1. Busy(s)
      BY <1>1, <2>4 DEF Busy
    <3>2. CASE asked[s].symbol = sym
      BY <2>2, <2>3, <3>1, <3>2
    <3>3. CASE asked[s].symbol # sym
      BY <1>5, <2>1, <3>1, <3>3 DEF IInv, ControlInv
    <3> QED
      BY <3>2, <3>3
  <2> QED
    BY <1>1, <2>4 DEF ControlInv
<1> QED
  BY <1>7, <1>8, <1>9, <1>10, <1>11 DEF IInv

\* Whoever the new flags forbid hears of them, and is closed or escapes.
LEMMA FlagsHold ==
    ASSUME IInv, NEW sym \in Symbols \cup {Everyone}, Change, UNCHANGED control,
           defaults' \in Flags, override' \in [Symbols -> Flags \cup {NoFlags}],
           sym # Everyone => \A x \in Symbols : x # sym => NewFlags(x) = FlagsOf(x),
           HearFlags(sym)
    PROVE  IInv'
<1> USE ControlAssumption, StreamsAssumption
<1> DEFINE open == {s \in Forbidden(sym) : stage[s] = "open"}
<1>1. /\ Closed(open) /\ escaped' = (escaped \cup Forbidden(sym)) \ open
      /\ UNCHANGED <<first, marketVars>>
      /\ open \in SUBSET Streams /\ Forbidden(sym) \subseteq Streams
  BY DEF HearFlags, Forbidden, Told
<1>2. changes' \in 0..MaxChanges /\ changes' \in Int /\ changes =< changes'
  BY DEF IInv, TypeOK, Change
<1>3. \A s \in open : s \in Forbidden(sym)
  OBVIOUS
<1>4. \A s \in Forbidden(sym) : s \in open \/ s \in escaped'
  BY <1>1
<1>5. \A s \in Streams : s \in escaped => s \in open \/ s \in escaped'
  BY <1>1
<1> HIDE DEF open
<1>6. UNCHANGED <<first, marketVars, control>>
  BY <1>1
<1>7. /\ stage' \in [Streams -> {"none", "candles", "book", "trades", "open"}]
      /\ asked' \in [Streams -> Asked]
      /\ unseen' \in [Streams -> SUBSET Orders] /\ beyond' \in [Streams -> SUBSET Orders]
      /\ pending' \in [Streams -> SUBSET Control]
      /\ shown' \in [Streams -> Control]
      /\ newest' \in [Streams -> -1..MaxChanges]
      /\ snapshot' \subseteq Streams /\ overtaken' \subseteq Streams /\ left' \subseteq Streams
      /\ \A t \in Streams \ open : stage'[t] = stage[t] /\ asked'[t] = asked[t]
      /\ \A t \in open : stage'[t] = "none"
      /\ NumberInv' /\ NamedInv' /\ ControlInv' /\ ReadInv'
  BY <1>1, <1>2, <1>6, ClosedKeeps
<1>8. TypeOK'
  BY <1>1, <1>2, <1>7 DEF IInv, TypeOK, marketVars
<1>9. StreamsObeyFlags'
  <2>1. ASSUME NEW s \in Streams, stage'[s] # "none"
        PROVE  ~Forbids(NewFlags(asked[s].symbol), asked[s]) \/ s \in escaped'
    <3>1. s \notin open /\ stage[s] # "none"
      BY <1>7, <2>1
    <3>2. CASE s \in Told(sym)
      BY <1>4, <3>1, <3>2 DEF Forbidden
    <3>3. CASE s \notin Told(sym)
      <4>1. sym # Everyone /\ asked[s].symbol # sym
        BY <3>1, <3>3 DEF Told
      <4>2. asked[s].symbol \in Symbols
        BY <3>1 DEF IInv, NamedInv, Busy
      <4>3. NewFlags(asked[s].symbol) = FlagsOf(asked[s].symbol)
        BY <4>1, <4>2
      <4>4. ~Forbids(FlagsOf(asked[s].symbol), asked[s]) \/ s \in escaped
        BY <3>1 DEF IInv, StreamsObeyFlags
      <4> QED
        BY <1>5, <3>1, <4>3, <4>4
    <3> QED
      BY <3>2, <3>3
  <2>2. ASSUME NEW s \in Streams, stage'[s] # "none"
        PROVE  ~Forbids(FlagsOf(asked[s].symbol), asked[s])' \/ s \in escaped'
    <3>1. asked'[s] = asked[s]
      BY <1>7, <2>2
    <3> QED
      BY <2>1, <2>2, <3>1 DEF Forbids, FlagsOf, NewFlags
  <2> QED
    BY <2>2 DEF StreamsObeyFlags
<1> QED
  BY <1>7, <1>8, <1>9 DEF IInv

LEMMA AdministerHolds ==
    ASSUME IInv, Administer
    PROVE  IInv'
<1> USE ControlAssumption
<1>0. \A x \in Symbols : FlagsOf(x) \in Flags /\ x # Everyone
  BY DEF IInv, TypeOK, FlagsOf
<1>1. ASSUME NEW sym \in Symbols, NEW mode \in Modes, SetMode(sym, mode) /\ HearMode(sym)
      PROVE  IInv'
  BY <1>1, ModeHolds
<1>2. ASSUME NEW patch \in Patches, SetDefaults(patch) /\ HearFlags(Everyone)
      PROVE  IInv'
  <2>1. Change /\ UNCHANGED control
    BY <1>2 DEF SetDefaults
  <2>2. defaults' \in Flags /\ override' \in [Symbols -> Flags \cup {NoFlags}]
    BY <1>2 DEF IInv, TypeOK, SetDefaults
  <2> QED
    BY <1>2, <2>1, <2>2, FlagsHold
<1>3. ASSUME NEW sym \in Symbols, NEW flags \in Flags \cup {NoFlags},
             Change, UNCHANGED <<control, defaults>>,
             override' = [override EXCEPT ![sym] = flags], HearFlags(sym)
      PROVE  IInv'
  <2>1. defaults' \in Flags /\ override' \in [Symbols -> Flags \cup {NoFlags}]
    BY <1>3 DEF IInv, TypeOK
  <2>2. \A x \in Symbols : x # sym => NewFlags(x) = FlagsOf(x)
    BY <1>3 DEF IInv, TypeOK, NewFlags, FlagsOf
  <2> QED
    BY <1>3, <2>1, <2>2, FlagsHold
<1>4. ASSUME NEW sym \in Symbols, NEW patch \in Patches, SetFlags(sym, patch) /\ HearFlags(sym)
      PROVE  IInv'
  BY <1>0, <1>3, <1>4 DEF SetFlags
<1>5. ASSUME NEW sym \in Symbols, ClearFlags(sym) /\ HearFlags(sym)
      PROVE  IInv'
  BY <1>3, <1>5 DEF ClearFlags
<1> QED
  BY <1>1, <1>2, <1>4, <1>5 DEF Administer

LEMMA NextHolds == IInv /\ [Next]_vars => IInv'
<1> SUFFICES ASSUME IInv, [Next]_vars PROVE IInv'
  OBVIOUS
<1>1. CASE Administer
  BY <1>1, AdministerHolds
<1>2. CASE Clock
  BY <1>2, MarketHolds
<1>3. ASSUME NEW o \in Orders,
             \/ Place(o) \/ Cancel(o)
             \/ \E price \in Prices, status \in {"FILLED", "PARTIALLY_FILLED"} : Trade(o, price, status)
      PROVE  IInv'
  BY <1>3, MarketHolds
<1>4. ASSUME NEW s \in Streams, NEW request \in Requests, NEW candles \in BOOLEAN,
             Connect(s, request, candles)
      PROVE  IInv'
  BY <1>4, ConnectHolds
<1>5. ASSUME NEW s \in Streams, Read(s) \/ SnapshotFails(s) \/ Leave(s) \/ AnswerMode(s)
      PROVE  IInv'
  BY <1>5, ReadHolds, SnapshotFailsHolds, LeaveHolds, AnswerModeHolds
<1>6. CASE UNCHANGED vars
  BY <1>6 DEF IInv, TypeOK, NumberInv, NamedInv, StreamsObeyFlags, ControlInv, ReadInv, Busy, Cur,
     FlagsOf, TradedIn, vars, controlVars, marketVars, streamVars, clientVars
<1> QED
  BY <1>1, <1>2, <1>3, <1>4, <1>5, <1>6 DEF Next, Market, Watch

\* The inductive invariant.
THEOREM InvariantHolds == Spec => []IInv
<1> QED
  BY InitHolds, NextHolds, PTL DEF Spec

\* Every variable keeps its shape.
THEOREM TypeCorrect == Spec => []TypeOK
<1>1. IInv => TypeOK
  BY DEF IInv, TypeOK
<1> QED
  BY <1>1, InvariantHolds, PTL

\* Whatever administrators change, and however often, no client who may not have it is
\* served, except those who were reading their snapshot when the flags changed.
THEOREM FlagsObeyed == Spec => []StreamsObeyFlags
<1>1. IInv => StreamsObeyFlags
  BY DEF IInv
<1> QED
  BY <1>1, InvariantHolds, PTL

\* Unless an older message overtook a newer one, the trading mode a client was last told is
\* the one in force: no change falls between the snapshot and the listeners.
THEOREM ControlCurrent == Spec => []LastControlIsCurrent
<1>1. IInv => LastControlIsCurrent
  <2>1. ASSUME IInv, NEW s \in snapshot, s \notin overtaken
        PROVE  shown[s] = control[asked[s].symbol]
    <3>1. s \in Streams /\ Busy(s)
      BY <2>1 DEF IInv, TypeOK, NamedInv, Busy
    <3>2. shown[s].nr = Cur(s).nr /\ SameNr(shown[s], Cur(s))
      BY <2>1, <3>1 DEF IInv, ControlInv
    <3> QED
      BY <3>2 DEF SameNr, Cur
  <2> QED
    BY <2>1 DEF LastControlIsCurrent
<1> QED
  BY <1>1, InvariantHolds, PTL

\* However the reads of a snapshot and the trades interleave, every order that was open is
\* in one of the two reads, unless it was cancelled or lay outside the depth, the limit or the
\* time that the client asked for when the read was made.
THEOREM NothingMissed == Spec => []SnapshotMissesNothing
<1>1. IInv => SnapshotMissesNothing
  BY DEF IInv, TypeOK, ReadInv, SnapshotMissesNothing
<1> QED
  BY <1>1, InvariantHolds, PTL

-----------------------------------------------------------------------------
(* The tape is in order.                                                   *)

InOrder(trades, time) == Ordered(trades) /\ \A i \in DOMAIN trades : trades[i].at =< time

TapeInv == \A sym \in Symbols : InOrder(tape[sym], now)

\* A trade with the time of the clock can follow, and the clock can go on.
LEMMA InOrderMore ==
    ASSUME NEW c \in Seq(Trades), NEW time \in 0..MaxTime, InOrder(c, time)
    PROVE  /\ \A later \in 0..MaxTime : time =< later => InOrder(c, later)
           /\ \A x \in Trades : x.at = time => InOrder(Append(c, x), time)
<1>1. MaxTime \in Nat
  BY StreamsAssumption
<1>2. \A i \in DOMAIN c : c[i].at \in Nat
  <2> TAKE i \in DOMAIN c
  <2>1. c[i] \in Trades
    OBVIOUS
  <2> QED
    BY <1>1, <2>1 DEF Trades
<1>3. ASSUME NEW later \in 0..MaxTime, time =< later PROVE InOrder(c, later)
  BY <1>1, <1>2, <1>3 DEF InOrder
<1>4. ASSUME NEW x \in Trades, x.at = time PROVE InOrder(Append(c, x), time)
  <2> DEFINE n == Len(c)
             d == Append(c, x)
  <2>1. /\ n \in Nat /\ DOMAIN c = 1..n /\ DOMAIN d = 1..(n + 1)
        /\ d[n + 1] = x /\ \A i \in 1..n : d[i] = c[i]
    OBVIOUS
  <2> HIDE DEF n, d
  <2>2. \A i \in 1..(n + 1) : d[i].at =< time /\ d[i].at \in Nat
    <3> TAKE i \in 1..(n + 1)
    <3>1. CASE i \in 1..n
      BY <1>2, <2>1, <3>1 DEF InOrder
    <3>2. CASE i = n + 1
      BY <1>1, <1>4, <2>1, <3>2
    <3> QED
      BY <2>1, <3>1, <3>2
  <2>3. Ordered(d)
    <3> SUFFICES ASSUME NEW i \in 1..(n + 1), NEW j \in 1..(n + 1), i =< j
                 PROVE  d[i].at =< d[j].at
      BY <2>1 DEF Ordered
    <3>1. CASE j \in 1..n
      <4>1. i \in 1..n
        BY <2>1, <3>1
      <4>2. c[i].at =< c[j].at
        BY <2>1, <3>1, <4>1 DEF InOrder, Ordered
      <4> QED
        BY <2>1, <3>1, <4>1, <4>2
    <3>2. CASE j = n + 1
      BY <1>4, <2>1, <2>2, <3>2
    <3> QED
      BY <2>1, <3>1, <3>2
  <2>4. InOrder(d, time)
    BY <2>1, <2>2, <2>3 DEF InOrder
  <2> QED
    BY <2>4 DEF d
<1> QED
  BY <1>3, <1>4

\* A trade is stamped with the clock, and the clock does not go back.
LEMMA TapeHolds == TypeOK /\ TypeOK' /\ TapeInv /\ [Next]_vars => TapeInv'
<1> SUFFICES ASSUME TypeOK, TypeOK', TapeInv, [Next]_vars PROVE TapeInv'
  OBVIOUS
<1>1. /\ now \in 0..MaxTime /\ MaxTime \in Nat /\ tape \in [Symbols -> Seq(Trades)]
      /\ now' \in 0..MaxTime
  BY StreamsAssumption DEF TypeOK, Trades
<1>3. CASE UNCHANGED tape /\ now' >= now
  BY <1>1, <1>3, InOrderMore DEF TapeInv
<1>4. ASSUME NEW o \in Orders, NEW p \in Prices, NEW st \in {"PARTIALLY_FILLED", "FILLED"},
             Trade(o, p, st)
      PROVE  TapeInv'
  <2> DEFINE x == [order |-> o, price |-> p, qty |-> 1, at |-> now]
             sym == SymbolOf[o]
  <2>1. x \in Trades /\ x.at = now /\ sym \in Symbols
    BY <1>1, StreamsAssumption DEF Trades
  <2>2. tape' = [tape EXCEPT ![sym] = Append(@, x)] /\ now' = now
    BY <1>4 DEF Trade
  <2> HIDE DEF x, sym
  <2>3. tape'[sym] = Append(tape[sym], x) /\ \A y \in Symbols : y # sym => tape'[y] = tape[y]
    BY <1>1, <2>1, <2>2
  <2>4. InOrder(Append(tape[sym], x), now)
    BY <1>1, <2>1, InOrderMore DEF TapeInv
  <2> QED
    BY <2>2, <2>3, <2>4 DEF TapeInv
<1>5. CASE Clock
  BY <1>1, <1>3, <1>5 DEF Clock
<1>6. CASE UNCHANGED marketVars
  BY <1>1, <1>3, <1>6 DEF marketVars
<1>7. CASE UNCHANGED vars
  BY <1>6, <1>7 DEF vars
<1>8. ASSUME NEW o \in Orders, Place(o) \/ Cancel(o) PROVE TapeInv'
  BY <1>1, <1>3, <1>8 DEF Place, Cancel
<1>9. ASSUME Administer PROVE UNCHANGED marketVars
  BY <1>9 DEF Administer, HearMode, HearFlags
<1>10. ASSUME NEW s \in Streams, NEW request \in Requests, NEW candles \in BOOLEAN,
              Connect(s, request, candles)
       PROVE  UNCHANGED marketVars
  BY <1>10 DEF Connect
<1>11. ASSUME NEW s \in Streams, Read(s) \/ SnapshotFails(s) \/ Leave(s) \/ AnswerMode(s)
       PROVE  UNCHANGED marketVars
  BY <1>11 DEF Read, SnapshotFails, Leave, AnswerMode
<1> QED
  BY <1>4, <1>5, <1>6, <1>7, <1>8, <1>9, <1>10, <1>11 DEF Next, Market, Watch

\* For any trades of any symbol, clock, length of the window, period and cap: the candles that
\* a request would get are those that the trades before the window and the oldest ones of the
\* window, up to the cap, define, and gaps repeat the last price before them.
THEOREM CandlesAreRight == Spec => []CandlesDescribeTrades
<1>1. Init => TapeInv
  <2>1. InOrder(<<>>, 0)
    BY DEF InOrder, Ordered
  <2> QED
    BY <2>1 DEF Init, TapeInv
<1>2. TypeOK /\ TypeOK' /\ TapeInv /\ [Next]_vars => TapeInv'
  BY TapeHolds
<1>3. TypeOK /\ TapeInv => CandlesDescribeTrades
  <2> SUFFICES ASSUME TypeOK, TapeInv PROVE CandlesDescribeTrades
    OBVIOUS
  <2>1. ASSUME NEW sym \in Symbols
        PROVE  AreCandles(GapFilledCandles(tape[sym], now),
                          SubSeq(Known(tape[sym], now), Older(tape[sym], now) + 1,
                                 Len(Known(tape[sym], now))),
                          Known(tape[sym], now), now)
    <3>1. /\ tape[sym] \in Seq(Trades) /\ now \in Nat /\ Ordered(tape[sym])
          /\ \A i \in DOMAIN tape[sym] : tape[sym][i].at =< now
      BY StreamsAssumption DEF TypeOK, TapeInv, InOrder
    <3> QED
      BY <3>1, CandlesOfTape
  <2> QED
    BY <2>1 DEF CandlesDescribeTrades
<1> QED
  BY <1>1, <1>2, <1>3, TypeCorrect, PTL DEF Spec
=============================================================================
