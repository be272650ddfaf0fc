------------------------ MODULE MatchingEventsProofs ------------------------
(***************************************************************************)
(* Theorems about MatchingEvents, for any number of submissions, runs,     *)
(* streams and readers: the stored events are those of what was committed, *)
(* streams follow the log, and a reader of pages misses nothing.           *)
(***************************************************************************)
EXTENDS MatchingEventsProperties, FiniteSetTheorems, WellFoundedInduction, SequenceTheorems, TLAPS

-----------------------------------------------------------------------------
(* What passes a filter.                                                   *)

\* What holds of 0 and passes from each number to the next holds of all.
LEMMA Counting ==
    ASSUME NEW Good, 0 \in Good, \A n \in Nat : n \in Good => n + 1 \in Good
    PROVE  Nat \subseteq Good
<1> DEFINE Bad == Nat \ Good
<1>1. SUFFICES ASSUME Bad # {} PROVE FALSE
  OBVIOUS
<1>2. PICK n \in Bad : \A m \in Bad : ~(<<m, n>> \in OpToRel(<, Nat))
  <2>1. Bad \subseteq Nat
    OBVIOUS
  <2> HIDE DEF Bad
  <2> QED
    BY <1>1, <2>1, NatLessThanWellFounded, WFMin
<1>0. n \in Nat /\ n # 0
  BY <1>2
<1>3. n - 1 \in Nat /\ n - 1 < n /\ (n - 1) + 1 = n
  BY <1>0
<1>4. n - 1 \notin Bad
  BY <1>2, <1>3 DEF OpToRel
<1> QED
  BY <1>2, <1>3, <1>4

Longest(T) == CHOOSE i \in T : \A j \in T : i >= j

\* The highest place is the one that no other exceeds.
LEMMA LongestIs ==
    ASSUME NEW T \in SUBSET Nat, NEW n \in T, \A j \in T : n >= j
    PROVE  Longest(T) = n
<1>1. \A i \in T : (\A j \in T : i >= j) => i = n
  OBVIOUS
<1> QED
  BY <1>1 DEF Longest

\* One event more.
Heard(heard, e, f) == IF Passes(e, f) THEN Append(heard, e) ELSE heard

\* it holds what passes of the events of any places up to n.
ArePassing(events, f, n, it) ==
    it = [T \in SUBSET (1..n) |->
             IF T = {} THEN <<>> ELSE Heard(it[T \ {Longest(T)}], events[Longest(T)], f)]

\* Of a shorter sequence it holds what it holds of the longer one.
LEMMA PassingAgrees ==
    ASSUME NEW c, NEW d, NEW f, NEW m \in Nat, NEW n \in Nat, m =< n,
           \A i \in 1..m : c[i] = d[i],
           NEW it, ArePassing(c, f, m, it), NEW jt, ArePassing(d, f, n, jt)
    PROVE  it[1..m] = jt[1..m]
<1> DEFINE Good == {l \in Nat : l =< m => it[1..l] = jt[1..l]}
<1>1. \A l \in Nat : l =< m => 1..l \in SUBSET (1..m) /\ 1..l \in SUBSET (1..n)
  OBVIOUS
<1>2. 0 \in Good
  <2>1. 1..0 = {}
    OBVIOUS
  <2> QED
    BY <1>1, <2>1 DEF ArePassing
<1>3. ASSUME NEW l \in Nat, l \in Good PROVE l + 1 \in Good
  <2> SUFFICES ASSUME l + 1 =< m PROVE it[1..(l + 1)] = jt[1..(l + 1)]
    OBVIOUS
  <2> DEFINE T == 1..(l + 1)
  <2>1. T # {} /\ Longest(T) = l + 1 /\ T \ {l + 1} = 1..l /\ l + 1 \in 1..m
    <3>1. T \in SUBSET Nat /\ l + 1 \in T /\ \A j \in T : l + 1 >= j
      OBVIOUS
    <3>2. T # {} /\ T \ {l + 1} = 1..l /\ l + 1 \in 1..m
      OBVIOUS
    <3> QED
      BY <3>1, <3>2, LongestIs
  <2>2. T \in SUBSET (1..m) /\ T \in SUBSET (1..n)
    BY <1>1
  <2> HIDE DEF T
  <2>3. it[T] = Heard(it[1..l], c[l + 1], f)
    <3>1. it[T] = IF T = {} THEN <<>> ELSE Heard(it[T \ {Longest(T)}], c[Longest(T)], f)
      BY <2>2, Zenon DEF ArePassing
    <3> QED
      BY <2>1, <3>1, Zenon
  <2>4. jt[T] = Heard(jt[1..l], d[l + 1], f)
    <3>1. jt[T] = IF T = {} THEN <<>> ELSE Heard(jt[T \ {Longest(T)}], d[Longest(T)], f)
      BY <2>2, Zenon DEF ArePassing
    <3> QED
      BY <2>1, <3>1, Zenon
  <2>5. it[1..l] = jt[1..l] /\ c[l + 1] = d[l + 1]
    BY <1>3, <2>1
  <2>6. it[T] = jt[T]
    BY <2>3, <2>4, <2>5
  <2> QED
    BY <2>6 DEF T
<1>4. Nat \subseteq Good
  <2> HIDE DEF Good
  <2> QED
    BY <1>2, <1>3, Counting
<1> QED
  BY <1>4

\* There is such a function, place by place.
LEMMA PassingExists ==
    ASSUME NEW c, NEW f, NEW m \in Nat
    PROVE  \E it : ArePassing(c, f, m, it)
<1> DEFINE Good == {n \in Nat : \E it : ArePassing(c, f, n, it)}
<1>1. 0 \in Good
  <2> DEFINE it == [T \in SUBSET (1..0) |-> <<>>]
  <2>1. \A T \in SUBSET (1..0) : T = {}
    OBVIOUS
  <2>2. ArePassing(c, f, 0, it)
    BY <2>1 DEF ArePassing
  <2> QED
    BY <2>2
<1>2. ASSUME NEW n \in Nat, n \in Good PROVE n + 1 \in Good
  <2>1. PICK it : ArePassing(c, f, n, it)
    BY <1>2
  <2> DEFINE E(T) == IF n + 1 \in T THEN Heard(it[T \ {n + 1}], c[n + 1], f) ELSE it[T]
             jt == [T \in SUBSET (1..(n + 1)) |-> E(T)]
             F(T) == IF T = {} THEN <<>> ELSE Heard(jt[T \ {Longest(T)}], c[Longest(T)], f)
  <2>2. ASSUME NEW T \in SUBSET (1..(n + 1)) PROVE E(T) = F(T)
    <3>1. CASE n + 1 \in T
      <4>1. Longest(T) = n + 1
        <5>1. T \in SUBSET Nat /\ \A j \in T : n + 1 >= j
          OBVIOUS
        <5> QED
          BY <3>1, <5>1, LongestIs
      <4>2. T \ {n + 1} \in SUBSET (1..(n + 1)) /\ n + 1 \notin T \ {n + 1} /\ T # {}
        BY <3>1
      <4>3. jt[T \ {n + 1}] = it[T \ {n + 1}]
        BY <4>2
      <4>4. E(T) = Heard(it[T \ {n + 1}], c[n + 1], f)
        BY <3>1
      <4> HIDE DEF jt, E
      <4> QED
        BY <4>1, <4>2, <4>3, <4>4
    <3>2. CASE n + 1 \notin T
      <4>1. T \in SUBSET (1..n)
        BY <3>2
      <4>2. it[T] = IF T = {} THEN <<>> ELSE Heard(it[T \ {Longest(T)}], c[Longest(T)], f)
        BY <2>1, <4>1 DEF ArePassing
      <4>3. T \ {Longest(T)} \in SUBSET (1..(n + 1)) /\ n + 1 \notin T \ {Longest(T)}
        BY <3>2
      <4>4. jt[T \ {Longest(T)}] = it[T \ {Longest(T)}]
        BY <4>3
      <4>5. E(T) = it[T]
        BY <3>2
      <4> HIDE DEF jt, E
      <4> QED
        BY <4>2, <4>4, <4>5
    <3> QED
      BY <3>1, <3>2
  <2>3. jt = [T \in SUBSET (1..(n + 1)) |-> F(T)]
    <3>1. [T \in SUBSET (1..(n + 1)) |-> E(T)] = [T \in SUBSET (1..(n + 1)) |-> F(T)]
      <4> HIDE DEF E, F
      <4> QED
        BY <2>2
    <3> QED
      BY <3>1
  <2>4. ArePassing(c, f, n + 1, jt)
    <3> HIDE DEF jt
    <3> QED
      BY <2>3 DEF ArePassing
  <2> QED
    <3> HIDE DEF jt
    <3> QED
      BY <2>4
<1>3. Nat \subseteq Good
  <2> HIDE DEF Good
  <2> QED
    BY <1>1, <1>2, Counting
<1> QED
  BY <1>3

\* What passes of a sequence is what any such function holds.
LEMMA PassingIs ==
    ASSUME NEW X, NEW c \in Seq(X), NEW f, NEW n \in Nat, Len(c) =< n, NEW d,
           \A i \in 1..Len(c) : c[i] = d[i], NEW it, ArePassing(d, f, n, it)
    PROVE  Passing(c, f) = it[1..Len(c)]
<1> DEFINE jt == CHOOSE kt : ArePassing(c, f, Len(c), kt)
<1>0. Len(c) \in Nat /\ DOMAIN c = 1..Len(c)
  OBVIOUS
<1>1. ArePassing(c, f, Len(c), jt)
  BY <1>0, PassingExists
<1>2. Passing(c, f) = jt[1..Len(c)]
  BY <1>0 DEF Passing, FoldLeft, MapThenFoldSet, Max, ArePassing, Heard, Longest
<1> HIDE DEF jt
<1> QED
  BY <1>0, <1>1, <1>2, PassingAgrees

\* Nothing passes of nothing.
LEMMA PassingNone ==
    ASSUME NEW f
    PROVE  Passing(<<>>, f) = <<>>
<1>1. /\ <<>> \in Seq({}) /\ Len(<<>>) =< 0 /\ 1..Len(<<>>) = {} /\ {} \in SUBSET (1..0)
      /\ \A i \in 1..Len(<<>>) : <<>>[i] = <<>>[i]
  OBVIOUS
<1>2. PICK it : ArePassing(<<>>, f, 0, it)
  BY PassingExists
<1>3. it[{}] = <<>>
  BY <1>1, <1>2 DEF ArePassing
<1>4. Passing(<<>>, f) = it[{}]
  <2> DEFINE c == <<>>
  <2>1. /\ c \in Seq({}) /\ Len(c) =< 0 /\ 1..Len(c) = {} /\ 0 \in Nat
        /\ \A i \in 1..Len(c) : c[i] = c[i]
    BY <1>1
  <2>2. ArePassing(c, f, 0, it)
    BY <1>2
  <2> HIDE DEF c
  <2>3. Passing(c, f) = it[1..Len(c)]
    BY <2>1, <2>2, PassingIs
  <2>4. Passing(c, f) = it[{}]
    BY <2>1, <2>3
  <2> QED
    BY <2>4 DEF c
<1> QED
  BY <1>3, <1>4

\* One event more passes or not.
LEMMA PassingStep ==
    ASSUME NEW X, NEW c \in Seq(X), NEW e \in X, NEW f
    PROVE  Passing(Append(c, e), f) = Heard(Passing(c, f), e, f)
<1> DEFINE d == Append(c, e)
           n == Len(c) + 1
           D == 1..n
<1>1. /\ Len(c) \in Nat /\ n \in Nat /\ d \in Seq(X) /\ Len(d) = n
      /\ \A i \in 1..Len(c) : c[i] = d[i]
      /\ d[n] = e /\ Len(c) =< n
  OBVIOUS
<1>2. Longest(D) = n /\ D \ {n} = 1..Len(c) /\ D # {}
  <2>1. D \in SUBSET Nat /\ n \in D /\ \A j \in D : n >= j
    BY <1>1
  <2>2. D \ {n} = 1..Len(c)
    BY <1>1
  <2> QED
    BY <2>1, <2>2, LongestIs
<1> HIDE DEF d, n
<1>3. PICK it : ArePassing(d, f, n, it)
  BY <1>1, PassingExists
<1>4. Passing(c, f) = it[1..Len(c)]
  BY <1>1, <1>3, PassingIs
<1>5. Passing(d, f) = it[D]
  BY <1>1, <1>3, PassingIs
<1>6. it[D] = Heard(it[1..Len(c)], e, f)
  <2>1. D \in SUBSET (1..n)
    OBVIOUS
  <2> HIDE DEF D
  <2> QED
    BY <1>1, <1>2, <1>3, <2>1 DEF ArePassing
<1> QED
  BY <1>4, <1>5, <1>6 DEF d

\* One sequence behind the other.
Joined(u, v) == u \o v

\* What is heard last is heard at the end of the second of two sequences.
LEMMA HeardJoins ==
    ASSUME NEW X, NEW u \in Seq(X), NEW v \in Seq(X), NEW e \in X, NEW f
    PROVE  Heard(Joined(u, v), e, f) = Joined(u, Heard(v, e, f))
<1> DEFINE c == Append(u \o v, e)
           d == u \o Append(v, e)
<1>1. /\ c \in Seq(X) /\ d \in Seq(X) /\ Len(c) = Len(d)
      /\ Len(c) = Len(u) + Len(v) + 1 /\ Len(u) \in Nat /\ Len(v) \in Nat
  OBVIOUS
<1>2. ASSUME NEW i \in 1..Len(c) PROVE c[i] = d[i]
  <2>1. CASE i =< Len(u)
    BY <1>1, <2>1
  <2>2. CASE i > Len(u) /\ i =< Len(u) + Len(v)
    BY <1>1, <2>2
  <2>3. CASE i = Len(u) + Len(v) + 1
    BY <1>1, <2>3
  <2> QED
    BY <1>1, <2>1, <2>2, <2>3
<1>3. c = d
  <2> HIDE DEF c, d
  <2> QED
    BY <1>1, <1>2, SeqEqual
<1> QED
  BY <1>3 DEF Heard, Joined

\* What passes of two sequences, one behind the other, passes of each.
LEMMA PassingJoins ==
    ASSUME NEW X, NEW c \in Seq(X), NEW d \in Seq(X), NEW f
    PROVE  /\ Passing(d, f) \in Seq(X)
           /\ Passing(Joined(c, d), f) = Joined(Passing(c, f), Passing(d, f))
<1> DEFINE Joins(a, b) == Passing(Joined(a, b), f) = Joined(Passing(a, f), Passing(b, f))
           Good == {n \in Nat : \A b \in Seq(X) : Len(b) = n =>
                        Passing(b, f) \in Seq(X) /\ \A a \in Seq(X) :
                            Passing(a, f) \in Seq(X) => Joins(a, b)}
<1>1. 0 \in Good
  <2> SUFFICES ASSUME NEW b \in Seq(X), Len(b) = 0
               PROVE  Passing(b, f) \in Seq(X) /\ \A a \in Seq(X) :
                            Passing(a, f) \in Seq(X) => Joins(a, b)
    OBVIOUS
  <2>1. b = <<>> /\ \A a \in Seq(X) : Joined(a, <<>>) = a
    BY DEF Joined
  <2> QED
    BY <2>1, PassingNone
<1>2. ASSUME NEW n \in Nat, n \in Good PROVE n + 1 \in Good
  <2> SUFFICES ASSUME NEW b \in Seq(X), Len(b) = n + 1
               PROVE  Passing(b, f) \in Seq(X) /\ \A a \in Seq(X) :
                            Passing(a, f) \in Seq(X) => Joins(a, b)
    OBVIOUS
  <2>1. PICK h \in Seq(X), e \in X : b = Append(h, e) /\ Len(h) = n
    <3> DEFINE g == [i \in 1..n |-> b[i]]
    <3>1. \A i \in 1..(n + 1) : b[i] \in X
      OBVIOUS
    <3>2. g \in Seq(X) /\ Len(g) = n /\ b[n + 1] \in X
      BY <3>1
    <3>3. b = Append(g, b[n + 1])
      BY <3>2
    <3> QED
      BY <3>2, <3>3
  <2>2. Passing(h, f) \in Seq(X) /\ \A a \in Seq(X) : Passing(a, f) \in Seq(X) => Joins(a, h)
    BY <1>2, <2>1
  <2>3. Passing(b, f) = Heard(Passing(h, f), e, f)
    BY <2>1, PassingStep
  <2>4. Passing(b, f) \in Seq(X)
    BY <2>2, <2>3 DEF Heard
  <2>5. ASSUME NEW a \in Seq(X), Passing(a, f) \in Seq(X) PROVE Joins(a, b)
    <3>1. Joined(a, h) \in Seq(X) /\ Joined(a, b) = Append(Joined(a, h), e)
      BY <2>1 DEF Joined
    <3>2. Passing(Joined(a, b), f) = Heard(Passing(Joined(a, h), f), e, f)
      BY <3>1, PassingStep
    <3>3. Passing(Joined(a, h), f) = Joined(Passing(a, f), Passing(h, f))
      BY <2>2, <2>5
    <3>4. PICK u \in Seq(X) : u = Passing(a, f)
      BY <2>5
    <3>5. PICK v \in Seq(X) : v = Passing(h, f)
      BY <2>2
    <3>6. Heard(Joined(u, v), e, f) = Joined(u, Heard(v, e, f))
      BY HeardJoins
    <3> QED
      BY <2>3, <3>2, <3>3, <3>4, <3>5, <3>6
  <2> QED
    BY <2>4, <2>5
<1>3. Nat \subseteq Good
  <2> HIDE DEF Good
  <2> QED
    BY <1>1, <1>2, Counting
<1>4. ASSUME NEW b \in Seq(X)
      PROVE  Passing(b, f) \in Seq(X) /\ \A a \in Seq(X) :
                            Passing(a, f) \in Seq(X) => Joins(a, b)
  <2>1. Len(b) \in Good
    BY <1>3
  <2> QED
    BY <2>1
<1> QED
  BY <1>4

\* What is put behind a sequence is behind each end of it.
LEMMA EndJoins ==
    ASSUME NEW X, NEW c \in Seq(X), NEW d \in Seq(X), NEW k \in 0..Len(c)
    PROVE  /\ SubSeq(c, k + 1, Len(c)) \in Seq(X)
           /\ SubSeq(c \o d, k + 1, Len(c \o d)) = SubSeq(c, k + 1, Len(c)) \o d
<1> DEFINE u == SubSeq(c, k + 1, Len(c))
           v == SubSeq(c \o d, k + 1, Len(c \o d))
           w == u \o d
<1>1. /\ Len(c) \in Nat /\ Len(d) \in Nat /\ k \in Nat /\ k =< Len(c)
      /\ c \o d \in Seq(X) /\ Len(c \o d) = Len(c) + Len(d)
      /\ \A i \in 1..Len(c) : c[i] \in X
      /\ \A i \in 1..Len(c) + Len(d) : (c \o d)[i] = IF i =< Len(c) THEN c[i] ELSE d[i - Len(c)]
  OBVIOUS
<1>2. /\ u \in Seq(X) /\ Len(u) = Len(c) - k
      /\ \A i \in 1..Len(c) - k : u[i] = c[k + i]
  BY <1>1, SubSeqProperties
<1>3. /\ v \in Seq(X) /\ Len(v) = Len(c) + Len(d) - k
      /\ \A i \in 1..Len(c) + Len(d) - k : v[i] = (c \o d)[k + i]
  BY <1>1, SubSeqProperties
<1> HIDE DEF u, v
<1>4. /\ w \in Seq(X) /\ Len(w) = Len(v)
      /\ \A i \in 1..Len(v) : w[i] = IF i =< Len(c) - k THEN u[i] ELSE d[i - (Len(c) - k)]
  <2>1. u \in Seq(X) /\ d \in Seq(X)
    BY <1>2
  <2>2. w \in Seq(X) /\ Len(w) = Len(u) + Len(d)
    BY <2>1
  <2>3. \A i \in 1..Len(u) + Len(d) : w[i] = IF i =< Len(u) THEN u[i] ELSE d[i - Len(u)]
    BY <2>1
  <2>4. Len(u) + Len(d) = Len(v)
    BY <1>1, <1>2, <1>3
  <2> HIDE DEF w
  <2> QED
    BY <1>2, <2>2, <2>3, <2>4
<1> HIDE DEF w
<1>5. ASSUME NEW i \in 1..Len(v) PROVE v[i] = w[i]
  <2>1. k + i \in 1..Len(c) + Len(d) /\ v[i] = (c \o d)[k + i]
    BY <1>1, <1>3
  <2>2. CASE i =< Len(c) - k
    <3>1. i \in 1..Len(c) - k /\ k + i =< Len(c)
      BY <1>1, <2>2
    <3>2. v[i] = c[k + i]
      BY <1>1, <2>1, <3>1
    <3>3. w[i] = u[i]
      BY <1>4, <2>2
    <3>4. u[i] = c[k + i]
      BY <1>2, <3>1
    <3> QED
      BY <3>2, <3>3, <3>4
  <2>3. CASE ~(i =< Len(c) - k)
    <3>1. ~(k + i =< Len(c)) /\ i - (Len(c) - k) = k + i - Len(c)
      BY <1>1, <2>3
    <3>2. v[i] = d[k + i - Len(c)]
      BY <1>1, <2>1, <3>1
    <3>3. w[i] = d[i - (Len(c) - k)]
      BY <1>4, <2>3
    <3> QED
      BY <3>1, <3>2, <3>3
  <2> QED
    BY <2>2, <2>3
<1>6. v = w
  BY <1>3, <1>4, <1>5, SeqEqual
<1> QED
  BY <1>2, <1>6 DEF u, v, w

\* What passes of the end of a sequence is followed by what passes of what is put behind.
LEMMA PassingEnd ==
    ASSUME NEW X, NEW c \in Seq(X), NEW d \in Seq(X), NEW k \in 0..Len(c), NEW f
    PROVE  Passing(SubSeq(Joined(c, d), k + 1, Len(Joined(c, d))), f)
               = Joined(Passing(SubSeq(c, k + 1, Len(c)), f), Passing(d, f))
<1>1. PICK u \in Seq(X) : u = SubSeq(c, k + 1, Len(c))
  BY EndJoins
<1>2. SubSeq(Joined(c, d), k + 1, Len(Joined(c, d))) = Joined(u, d)
  BY <1>1, EndJoins, Zenon DEF Joined
<1>3. Passing(Joined(u, d), f) = Joined(Passing(u, f), Passing(d, f))
  BY PassingJoins
<1> QED
  BY <1>1, <1>2, <1>3

-----------------------------------------------------------------------------
(* Rows in the order of their ids.                                         *)

\* A set of subsets that has each subset whose smaller ones it has, has them all.
LEMMA FromSmaller ==
    ASSUME NEW S, IsFiniteSet(S), NEW Good,
           \A T \in SUBSET S : (\A U \in SUBSET T : U # T => U \in Good) => T \in Good
    PROVE  \A T \in SUBSET S : T \in Good
<1> DEFINE Bad == {T \in SUBSET S : T \notin Good}
<1>1. SUFFICES ASSUME Bad # {} PROVE FALSE
  OBVIOUS
<1>2. IsWellFoundedOn(StrictSubsetOrdering(S), FiniteSubsetsOf(S))
  BY FS_StrictSubsetOrderingWellFounded
<1>3. Bad \subseteq FiniteSubsetsOf(S)
  BY FS_FiniteSubsetsOfFinite
<1>4. PICK T \in Bad : \A U \in Bad : ~(<<U, T>> \in StrictSubsetOrdering(S))
  <2> HIDE DEF Bad
  <2> QED
    BY <1>1, <1>2, <1>3, WFMin
<1>5. \A U \in SUBSET T : U # T => U \in Good
  <2> SUFFICES ASSUME NEW U \in SUBSET T, U # T PROVE U \in Good
    OBVIOUS
  <2>1. <<U, T>> \in StrictSubsetOrdering(S) /\ U \in SUBSET S
    BY <1>4 DEF StrictSubsetOrdering
  <2> QED
    BY <1>4, <2>1
<1> QED
  BY <1>4, <1>5

Highest(T) == CHOOSE e \in T : \A d \in T : d.id =< e.id

\* Of finitely many rows one has the highest id.
LEMMA HighestIs ==
    ASSUME NEW S, IsFiniteSet(S), S # {}, \A t \in S : t.id \in Nat
    PROVE  Highest(S) \in S /\ \A u \in S : u.id =< Highest(S).id
<1> DEFINE Good == {T \in SUBSET S : T # {} => \E t \in T : \A u \in T : u.id =< t.id}
<1>1. ASSUME NEW T \in SUBSET S, \A U \in SUBSET T : U # T => U \in Good
      PROVE  T \in Good
  <2> SUFFICES ASSUME T # {} PROVE \E t \in T : \A u \in T : u.id =< t.id
    OBVIOUS
  <2>1. PICK x \in T : TRUE
    OBVIOUS
  <2>2. T \ {x} \in Good
    BY <1>1
  <2>3. CASE T = {x}
    BY <2>3
  <2>4. CASE T # {x}
    <3>1. PICK t \in T \ {x} : \A u \in T \ {x} : u.id =< t.id
      BY <2>1, <2>2, <2>4
    <3>2. t.id \in Nat /\ x.id \in Nat /\ \A u \in T : u.id \in Nat
      OBVIOUS
    <3>3. CASE x.id =< t.id
      BY <3>1, <3>3
    <3>4. CASE t.id < x.id
      BY <3>1, <3>2, <3>4
    <3> QED
      BY <3>2, <3>3, <3>4
  <2> QED
    BY <2>3, <2>4
<1>2. S \in Good
  <2> HIDE DEF Good
  <2> QED
    BY <1>1, FromSmaller
<1> QED
  BY <1>2 DEF Highest

\* it holds, for every subset of S, its rows in order.
AreOrders(S, it) ==
    it = [T \in SUBSET S |-> IF T = {} THEN << >>
                             ELSE Append(it[T \ {Highest(T)}], Highest(T))]

\* There is one such function at most.
LEMMA OrdersAgree ==
    ASSUME NEW S, IsFiniteSet(S), \A t \in S : t.id \in Nat,
           NEW T, NEW U, S \subseteq T, S \subseteq U,
           NEW it, AreOrders(T, it), NEW jt, AreOrders(U, jt)
    PROVE  it[S] = jt[S]
<1> DEFINE Good == {s \in SUBSET S : it[s] = jt[s]}
<1>1. ASSUME NEW s \in SUBSET S, \A u \in SUBSET s : u # s => u \in Good
      PROVE  s \in Good
  <2> DEFINE y == Highest(s)
  <2>1. s \in SUBSET T /\ s \in SUBSET U
    OBVIOUS
  <2>2. it[s] = IF s = {} THEN << >> ELSE Append(it[s \ {y}], y)
    BY <2>1 DEF AreOrders
  <2>3. jt[s] = IF s = {} THEN << >> ELSE Append(jt[s \ {y}], y)
    BY <2>1 DEF AreOrders
  <2>4. s # {} => y \in s
    <3>1. IsFiniteSet(s)
      BY FS_Subset
    <3> QED
      BY <3>1, HighestIs
  <2> HIDE DEF y
  <2>5. s # {} => s \ {y} \in Good
    BY <1>1, <2>4
  <2> QED
    BY <2>2, <2>3, <2>5
<1> HIDE DEF Good
<1>2. S \in Good
  BY <1>1, FromSmaller
<1> QED
  BY <1>2 DEF Good

\* And there is one.
LEMMA OrdersExist ==
    ASSUME NEW S, IsFiniteSet(S), \A t \in S : t.id \in Nat
    PROVE  \E it : AreOrders(S, it)
<1> DEFINE Good == {T \in SUBSET S : \E it : AreOrders(T, it)}
           G(T) == CHOOSE it : AreOrders(T, it)
           Y(T) == Highest(T)
<1>1. ASSUME NEW T \in SUBSET S, \A U \in SUBSET T : U # T => U \in Good
      PROVE  T \in Good
  <2> DEFINE E(s) == IF s = {} THEN << >> ELSE Append(G(s \ {Y(s)})[s \ {Y(s)}], Y(s))
             it == [s \in SUBSET T |-> E(s)]
             F(s) == IF s = {} THEN << >> ELSE Append(it[s \ {Y(s)}], Y(s))
  <2>1. \A U \in SUBSET T : U # T => AreOrders(U, G(U))
    BY <1>1
  <2>2. \A s \in SUBSET T : s # {} => Y(s) \in s /\ s \ {Y(s)} \in SUBSET T /\ s \ {Y(s)} # T
    <3> SUFFICES ASSUME NEW s \in SUBSET T, s # {} PROVE Y(s) \in s
      OBVIOUS
    <3>1. IsFiniteSet(s) /\ \A t \in s : t.id \in Nat
      BY FS_Subset
    <3> QED
      BY <3>1, HighestIs
  <2>3. ASSUME NEW U \in SUBSET T, U # T PROVE it[U] = G(U)[U]
    <3> DEFINE V == U \ {Y(U)}
    <3>1. AreOrders(U, G(U))
      BY <2>1, <2>3
    <3>2. G(U)[U] = IF U = {} THEN << >> ELSE Append(G(U)[V], Y(U))
      <4> HIDE DEF G
      <4> QED
        BY <3>1 DEF AreOrders
    <3>3. it[U] = IF U = {} THEN << >> ELSE Append(G(V)[V], Y(U))
      OBVIOUS
    <3>4. CASE U # {}
      <4>1. V \in SUBSET U /\ V \in SUBSET T /\ V # T
        BY <2>2, <3>4
      <4>2. AreOrders(V, G(V)) /\ IsFiniteSet(V) /\ \A t \in V : t.id \in Nat
        BY <2>1, <4>1, FS_Subset
      <4>3. G(U)[V] = G(V)[V]
        <5> HIDE DEF G, V
        <5> QED
          BY <3>1, <4>1, <4>2, OrdersAgree
      <4> HIDE DEF it, G, V
      <4> QED
        BY <3>2, <3>3, <4>3
    <3>5. CASE U = {}
      <4> HIDE DEF it, G
      <4> QED
        BY <3>2, <3>3, <3>5
    <3> QED
      BY <3>4, <3>5
  <2>4. \A s \in SUBSET T : E(s) = F(s)
    <3> SUFFICES ASSUME NEW s \in SUBSET T PROVE E(s) = F(s)
      OBVIOUS
    <3> DEFINE v == s \ {Y(s)}
    <3>1. s # {} => v \in SUBSET T /\ v # T
      BY <2>2
    <3> HIDE DEF it
    <3>2. s # {} => it[v] = G(v)[v]
      BY <2>3, <3>1
    <3> HIDE DEF G, Y
    <3> QED
      BY <3>2
  <2>5. it = [s \in SUBSET T |-> F(s)]
    <3>1. [s \in SUBSET T |-> E(s)] = [s \in SUBSET T |-> F(s)]
      <4> HIDE DEF E, F
      <4> QED
        BY <2>4
    <3> QED
      BY <3>1
  <2>6. AreOrders(T, it)
    <3> HIDE DEF it
    <3> QED
      BY <2>5 DEF AreOrders
  <2> QED
    <3> HIDE DEF it
    <3> QED
      BY <2>6
<1>2. S \in Good
  <2> HIDE DEF Good
  <2> QED
    BY <1>1, FromSmaller
<1> QED
  BY <1>2

\* The order of nothing, and of a set from which the highest is taken.
LEMMA OrderUnfolds ==
    ASSUME NEW S, IsFiniteSet(S), \A t \in S : t.id \in Nat
    PROVE  ById(S) =
               IF S = {} THEN << >>
               ELSE Append(ById(S \ {Highest(S)}), Highest(S))
<1> DEFINE G(T) == CHOOSE it : AreOrders(T, it)
           y == Highest(S)
<1>1. ASSUME NEW T \in SUBSET S PROVE ById(T) = G(T)[T] /\ AreOrders(T, G(T))
  <2>1. IsFiniteSet(T) /\ \A t \in T : t.id \in Nat
    BY FS_Subset
  <2>2. \E it : AreOrders(T, it)
    BY <2>1, OrdersExist
  <2>3. ById(T) = G(T)[T]
    BY DEF ById, MapThenFoldSet, AreOrders, Highest
  <2> QED
    BY <2>2, <2>3
<1>2. S \in SUBSET S /\ S \ {y} \in SUBSET S
  OBVIOUS
<1> HIDE DEF G
<1>3. G(S)[S] = IF S = {} THEN << >> ELSE Append(G(S)[S \ {y}], y)
  BY <1>1, <1>2 DEF AreOrders
<1>4. G(S)[S \ {y}] = G(S \ {y})[S \ {y}]
  <2>1. IsFiniteSet(S \ {y}) /\ \A t \in S \ {y} : t.id \in Nat
    BY FS_Subset
  <2> HIDE DEF y
  <2> QED
    BY <1>1, <1>2, <2>1, OrdersAgree
<1> QED
  BY <1>1, <1>2, <1>3, <1>4

\* q has the rows of S and no others, each with a lower id than the next.
IsInOrder(q, S) ==
    /\ q \in Seq(S)
    /\ \A t \in S : \E i \in 1..Len(q) : q[i] = t
    /\ \A i, j \in 1..Len(q) : i < j => q[i].id < q[j].id

\* Behind a sequence in order comes what is higher than all of it.
LEMMA AppendInOrder ==
    ASSUME NEW S, NEW q, IsInOrder(q, S), NEW y, y \notin S,
           \A t \in S : t.id < y.id
    PROVE  IsInOrder(Append(q, y), S \cup {y})
<1>1. q \in Seq(S) /\ q \in Seq(S \cup {y}) /\ Len(q) \in Nat
  BY DEF IsInOrder
<1>2. /\ Append(q, y) \in Seq(S \cup {y}) /\ Len(Append(q, y)) = Len(q) + 1
      /\ \A i \in 1..Len(q) : Append(q, y)[i] = q[i] /\ q[i] \in S
      /\ Append(q, y)[Len(q) + 1] = y
  BY <1>1
<1>3. ASSUME NEW t \in S \cup {y}
      PROVE  \E i \in 1..Len(Append(q, y)) : Append(q, y)[i] = t
  <2>1. CASE t = y
    BY <1>1, <1>2, <2>1
  <2>2. CASE t \in S
    <3>1. PICK i \in 1..Len(q) : q[i] = t
      BY <2>2 DEF IsInOrder
    <3> QED
      BY <1>1, <1>2, <3>1
  <2> QED
    BY <2>1, <2>2
<1>4. ASSUME NEW i \in 1..Len(Append(q, y)), NEW j \in 1..Len(Append(q, y)), i < j
      PROVE  Append(q, y)[i].id < Append(q, y)[j].id
  <2>1. i \in 1..Len(q) /\ (j \in 1..Len(q) \/ j = Len(q) + 1)
    BY <1>1, <1>2, <1>4
  <2> QED
    BY <1>2, <1>4, <2>1 DEF IsInOrder
<1> QED
  BY <1>2, <1>3, <1>4 DEF IsInOrder

\* ById puts rows in order, if no two have the same id.
LEMMA RowsAreInOrder ==
    ASSUME NEW S, IsFiniteSet(S), \A t \in S : t.id \in Nat,
           \A t, u \in S : t # u => t.id # u.id
    PROVE  IsInOrder(ById(S), S)
<1> DEFINE Good == {T \in SUBSET S : IsInOrder(ById(T), T)}
<1>1. ASSUME NEW T \in SUBSET S, \A U \in SUBSET T : U # T => U \in Good
      PROVE  T \in Good
  <2> DEFINE y == Highest(T)
             q == ById(T \ {y})
  <2>1. IsFiniteSet(T) /\ \A t \in T : t.id \in Nat
    BY FS_Subset
  <2>2. ById(T) = IF T = {} THEN << >> ELSE Append(q, y)
    BY <2>1, OrderUnfolds
  <2>3. CASE T = {}
    <3>1. << >> \in Seq(T) /\ 1..Len(<< >>) = {}
      OBVIOUS
    <3>2. IsInOrder(<< >>, T)
      BY <2>3, <3>1 DEF IsInOrder
    <3> QED
      BY <2>2, <2>3, <3>2
  <2>4. CASE T # {}
    <3>1. y \in T /\ \A u \in T : u.id =< y.id
      BY <2>1, <2>4, HighestIs
    <3> HIDE DEF y
    <3>2. IsInOrder(q, T \ {y})
      BY <1>1, <3>1
    <3>3. \A u \in T \ {y} : u.id < y.id
      BY <2>1, <3>1
    <3>4. (T \ {y}) \cup {y} = T
      BY <3>1
    <3> HIDE DEF q
    <3>5. IsInOrder(Append(q, y), T)
      <4>1. y \notin T \ {y}
        OBVIOUS
      <4>2. IsInOrder(Append(q, y), (T \ {y}) \cup {y})
        BY <3>2, <3>3, <4>1, AppendInOrder
      <4> QED
        BY <3>4, <4>2
    <3> QED
      BY <2>2, <2>4, <3>5
  <2> QED
    BY <2>3, <2>4
<1>2. S \in Good
  <2> HIDE DEF Good
  <2> QED
    BY <1>1, FromSmaller
<1> QED
  BY <1>2

-----------------------------------------------------------------------------
(* What is stored.                                                         *)

Types ==
    /\ run \in Nat \ {0}
    /\ log \in Seq(Event)
    /\ stage \in [Submissions -> {"new", "storing", "committed", "undone"}]
    /\ emitted \in [Submissions -> SUBSET (1..Len(log))]
    /\ stored \in [Submissions -> SUBSET (1..Len(log))]
    /\ rows \subseteq Event

\* An event of the log carries its place and the run.
LogInv == \A i \in 1..Len(log) : log[i].id = i /\ log[i].run = run

\* A submission emits once, and what it emits belongs to it alone.
EmittedInv ==
    /\ \A o \in Submissions : stage[o] = "new" => emitted[o] = {}
    /\ \A o, p \in Submissions : o # p => emitted[o] \cap emitted[p] = {}

\* No row is of a later run.
RowInv == \A e \in rows : e.run =< run

IInv == Types /\ LogInv /\ EmittedInv /\ RowInv /\ RowsAreCommitted

USE EventsAssumption

KindsOfEvents == {"ORDER_ACCEPTED", "ORDER_FILL", "ORDER_PARTIALLY_FILLED", "ORDER_FILLED",
                  "ORDER_RESTED", "ORDER_CANCELLED", "BOOK_DELTA", "RUNTIME_STATUS",
                  "RECONCILIATION_RESULT"}

\* What a submission tells is a sequence of kinds.
LEMMA KindsType ==
    ASSUME NEW x \in Execution
    PROVE  Kinds(x) \in Seq(KindsOfEvents)
<1>1. x.fills \in Nat
  BY DEF Execution
<1>2. [i \in 1..x.fills |-> "ORDER_FILL"] \in Seq(KindsOfEvents)
  BY <1>1 DEF KindsOfEvents
<1>3. ASSUME NEW kind \in KindsOfEvents, NEW said
      PROVE  Told(said, kind) \in Seq(KindsOfEvents)
  BY DEF Told
<1>4. /\ <<"ORDER_ACCEPTED">> \in Seq(KindsOfEvents)
      /\ Told(x.fills > 0, IF x.left THEN "ORDER_PARTIALLY_FILLED" ELSE "ORDER_FILLED") \in Seq(KindsOfEvents)
      /\ Told(x.rests, "ORDER_RESTED") \in Seq(KindsOfEvents)
      /\ Told(x.cancelled, "ORDER_CANCELLED") \in Seq(KindsOfEvents)
      /\ Told(x.delta, "BOOK_DELTA") \in Seq(KindsOfEvents)
  BY <1>3 DEF KindsOfEvents
<1> QED
  BY <1>2, <1>4 DEF Kinds

\* Events that are published carry the places they get.
LEMMA PublishKeeps ==
    ASSUME IInv, NEW about \in Submissions \cup {System}, NEW kinds \in Seq(KindsOfEvents),
           Publish(Envelopes(about, kinds)), run' = run
    PROVE  /\ log' \in Seq(Event) /\ Len(log') = Len(log) + Len(kinds) /\ Len(kinds) \in Nat
           /\ Len(Envelopes(about, kinds)) = Len(kinds)
           /\ \A i \in 1..Len(log) : log'[i] = log[i]
           /\ LogInv'
<1> DEFINE events == Envelopes(about, kinds)
<1>1. /\ Len(kinds) \in Nat /\ Len(log) \in Nat /\ log \in Seq(Event)
      /\ \A i \in 1..Len(kinds) : kinds[i] \in KindsOfEvents
  BY DEF IInv, Types
<1>2. \A i \in 1..Len(kinds) :
        [id |-> Len(log) + i, run |-> run, about |-> about, kind |-> kinds[i]] \in Event
  BY <1>1 DEF IInv, Types, Event, KindsOfEvents
<1>3. events \in Seq(Event) /\ Len(events) = Len(kinds)
  BY <1>1, <1>2 DEF Envelopes
<1>4. \A i \in 1..Len(kinds) : events[i].id = Len(log) + i /\ events[i].run = run
  BY <1>1 DEF Envelopes
<1>5. log' = log \o events
  BY DEF Publish
<1> HIDE DEF events
<1>6. /\ log' \in Seq(Event) /\ Len(log') = Len(log) + Len(kinds)
      /\ \A i \in 1..Len(log) : log'[i] = log[i]
      /\ \A i \in 1..Len(log') : i > Len(log) => log'[i] = events[i - Len(log)]
  BY <1>1, <1>3, <1>5
<1>7. ASSUME NEW i \in 1..Len(log') PROVE log'[i].id = i /\ log'[i].run = run
  <2>1. CASE i \in 1..Len(log)
    BY <1>6, <2>1 DEF IInv, LogInv
  <2>2. CASE i \notin 1..Len(log)
    <3>1. i - Len(log) \in 1..Len(kinds) /\ i > Len(log) /\ Len(log) + (i - Len(log)) = i
      BY <1>1, <1>6, <2>2
    <3> QED
      BY <1>4, <1>6, <3>1
  <2> QED
    BY <2>1, <2>2
<1> QED
  BY <1>1, <1>3, <1>6, <1>7 DEF LogInv, events

\* While the log only grows, and nothing is committed, the committed events stay.
LEMMA CommittedKeep ==
    ASSUME IInv, \A i \in 1..Len(log) : log'[i] = log[i],
           UNCHANGED <<run, rows>>,
           \A o \in Submissions : /\ stage'[o] = "committed" <=> stage[o] = "committed"
                                  /\ stage[o] = "committed" => emitted'[o] = emitted[o]
    PROVE  RowsAreCommitted' /\ RowInv'
<1>1. \A o \in Submissions : emitted[o] \subseteq 1..Len(log)
  BY DEF IInv, Types
<1>2. CommittedEvents' = CommittedEvents
  <2>1. \A e : e \in CommittedEvents <=>
            \E o \in Submissions : stage[o] = "committed" /\ \E i \in emitted[o] : e = log[i]
    BY DEF CommittedEvents
  <2>2. \A e : e \in CommittedEvents' <=>
            \E o \in Submissions : stage'[o] = "committed" /\ \E i \in emitted'[o] : e = log'[i]
    BY DEF CommittedEvents
  <2>3. \A o \in Submissions : stage[o] = "committed" => \A i \in emitted[o] : log'[i] = log[i]
    BY <1>1
  <2>4. \A o \in Submissions : /\ stage'[o] = "committed" <=> stage[o] = "committed"
                               /\ stage[o] = "committed" => emitted'[o] = emitted[o]
    OBVIOUS
  <2>5. ASSUME NEW e PROVE e \in CommittedEvents' <=> e \in CommittedEvents
    BY <2>1, <2>2, <2>3, <2>4
  <2> QED
    BY <2>5
<1> QED
  BY <1>2 DEF IInv, RowsAreCommitted, RowInv

LEMMA InitHolds == Init => IInv
  BY DEF Init, IInv, Types, LogInv, EmittedInv, RowInv, RowsAreCommitted, CommittedEvents

LEMMA MatchHolds ==
    ASSUME IInv, NEW o \in Submissions, NEW x \in Executions, Match(o, x)
    PROVE  IInv'
<1> DEFINE kinds == Kinds(x)
<1>1. /\ stage[o] = "new" /\ Publish(Envelopes(o, kinds))
      /\ emitted' = [emitted EXCEPT ![o] = {Len(log) + i : i \in 1..Len(Envelopes(o, kinds))}]
      /\ stage' = [stage EXCEPT ![o] = "storing"]
      /\ UNCHANGED <<run, stored, rows>>
  BY DEF Match
<1>2. kinds \in Seq(KindsOfEvents)
  BY KindsType
<1> HIDE DEF kinds
<1>3. /\ log' \in Seq(Event) /\ Len(log') = Len(log) + Len(kinds) /\ Len(kinds) \in Nat
      /\ Len(Envelopes(o, kinds)) = Len(kinds)
      /\ \A i \in 1..Len(log) : log'[i] = log[i]
      /\ LogInv'
  BY <1>1, <1>2, PublishKeeps
<1>4. Len(log) \in Nat /\ \A p \in Submissions : emitted[p] \subseteq 1..Len(log) /\ stored[p] \subseteq 1..Len(log)
  BY DEF IInv, Types
<1>5. /\ emitted'[o] = {Len(log) + i : i \in 1..Len(kinds)}
      /\ emitted'[o] \subseteq 1..Len(log') /\ emitted'[o] \cap 1..Len(log) = {}
      /\ \A p \in Submissions : p # o => emitted'[p] = emitted[p]
  BY <1>1, <1>3, <1>4 DEF IInv, Types
<1>6. 1..Len(log) \subseteq 1..Len(log')
  BY <1>3, <1>4
<1>7. emitted' \in [Submissions -> SUBSET (1..Len(log'))] /\ stored' \in [Submissions -> SUBSET (1..Len(log'))]
  BY <1>1, <1>4, <1>5, <1>6 DEF IInv, Types
<1>8. Types'
  BY <1>1, <1>3, <1>7 DEF IInv, Types
<1>9. EmittedInv'
  BY <1>1, <1>4, <1>5 DEF IInv, Types, EmittedInv
<1>10. RowsAreCommitted' /\ RowInv'
  <2>1. \A p \in Submissions : /\ stage'[p] = "committed" <=> stage[p] = "committed"
                               /\ stage[p] = "committed" => emitted'[p] = emitted[p]
    BY <1>1, <1>5 DEF IInv, Types
  <2> QED
    BY <1>1, <1>3, <2>1, CommittedKeep
<1> QED
  BY <1>3, <1>8, <1>9, <1>10 DEF IInv

LEMMA StoreHolds ==
    ASSUME IInv, NEW o \in Submissions, Store(o)
    PROVE  IInv'
<1>1. PICK i \in emitted[o] \ stored[o] : stored' = [stored EXCEPT ![o] = @ \cup {i}]
  BY DEF Store
<1>2. UNCHANGED <<run, log, stage, emitted, rows>>
  BY DEF Store
<1>3. i \in 1..Len(log)
  BY <1>1 DEF IInv, Types
<1>4. Types'
  BY <1>1, <1>2, <1>3 DEF IInv, Types
<1>5. LogInv' /\ EmittedInv'
  BY <1>2 DEF IInv, LogInv, EmittedInv
<1>6. RowsAreCommitted' /\ RowInv'
  BY <1>2, CommittedKeep
<1> QED
  BY <1>4, <1>5, <1>6 DEF IInv

\* What is committed has ids of its own, and overwrites rows of earlier runs only.
LEMMA CommitHolds ==
    ASSUME IInv, NEW o \in Submissions, Commit(o)
    PROVE  IInv'
<1> DEFINE ids == stored[o]
<1>1. /\ stage[o] = "storing" /\ ids = emitted[o]
      /\ stage' = [stage EXCEPT ![o] = "committed"]
      /\ rows' = {e \in rows : e.id \notin ids} \cup {log[i] : i \in ids}
      /\ UNCHANGED <<run, log, emitted, stored>>
  BY DEF Commit, Upserted
<1>2. ids \subseteq 1..Len(log) /\ \A i \in 1..Len(log) : log[i] \in Event
  BY DEF IInv, Types
<1> HIDE DEF ids
<1>3. \A i \in ids : log[i].id = i /\ log[i].run = run
  BY <1>2 DEF IInv, LogInv
<1>4. Types'
  BY <1>1, <1>2 DEF IInv, Types
<1>5. LogInv' /\ EmittedInv'
  BY <1>1 DEF IInv, Types, LogInv, EmittedInv
<1>6. RowInv'
  BY <1>1, <1>3 DEF IInv, Types, RowInv
<1>7. RowsAreCommitted'
  <2>1. \A e : e \in CommittedEvents <=>
            \E p \in Submissions : stage[p] = "committed" /\ \E i \in emitted[p] : e = log[i]
    BY DEF CommittedEvents
  <2>2. \A e : e \in CommittedEvents' <=>
            \E p \in Submissions : stage'[p] = "committed" /\ \E i \in emitted'[p] : e = log'[i]
    BY DEF CommittedEvents
  <2>3. \A e : e \in CommittedEvents' <=> e \in CommittedEvents \/ \E i \in ids : e = log[i]
    BY <1>1, <2>1, <2>2 DEF IInv, Types
  <2>4. \A e \in CommittedEvents : e.id \notin ids /\ e.run = run
    <3>1. ASSUME NEW p \in Submissions, stage[p] = "committed", NEW i \in emitted[p]
          PROVE  log[i].id \notin ids /\ log[i].run = run
      <4>1. p # o /\ i \in 1..Len(log) /\ i \notin ids
        BY <1>1, <3>1 DEF IInv, Types, EmittedInv
      <4> QED
        BY <4>1 DEF IInv, LogInv
    <3> QED
      BY <2>1, <3>1
  <2>5. {e \in rows : e.run = run} = CommittedEvents /\ \A d, e \in rows : d.id = e.id => d = e
    BY DEF IInv, RowsAreCommitted
  <2>6. \A e : e \in rows' /\ e.run = run <=> e \in CommittedEvents \/ \E i \in ids : e = log[i]
    BY <1>1, <1>3, <2>4, <2>5
  <2>7. \A d, e \in rows' : d.id = e.id => d = e
    BY <1>1, <1>3, <2>5
  <2>8. {e \in rows' : e.run = run'} = CommittedEvents'
    BY <1>1, <2>3, <2>6
  <2> QED
    BY <2>7, <2>8 DEF RowsAreCommitted
<1> QED
  BY <1>4, <1>5, <1>6, <1>7 DEF IInv

LEMMA RollBackHolds ==
    ASSUME IInv, NEW o \in Submissions, RollBack(o)
    PROVE  IInv'
<1>1. /\ stage[o] \in {"new", "storing"}
      /\ stage' = [stage EXCEPT ![o] = "undone"]
      /\ UNCHANGED <<run, log, emitted, stored, rows>>
  BY DEF RollBack
<1>2. Types'
  BY <1>1 DEF IInv, Types
<1>3. LogInv' /\ EmittedInv'
  BY <1>1 DEF IInv, Types, LogInv, EmittedInv
<1>4. RowsAreCommitted' /\ RowInv'
  <2>1. \A p \in Submissions : stage'[p] = "committed" <=> stage[p] = "committed"
    BY <1>1 DEF IInv, Types
  <2> QED
    BY <1>1, <2>1, CommittedKeep
<1> QED
  BY <1>2, <1>3, <1>4 DEF IInv

LEMMA NoticeHolds ==
    ASSUME IInv, NEW kind \in Notices, Notice(kind)
    PROVE  IInv'
<1>1. Publish(Envelopes(System, <<kind>>)) /\ UNCHANGED <<run, stage, emitted, stored, rows>>
  BY DEF Notice
<1>2. <<kind>> \in Seq(KindsOfEvents) /\ Len(<<kind>>) = 1
  BY DEF KindsOfEvents
<1>3. /\ log' \in Seq(Event) /\ Len(log') = Len(log) + Len(<<kind>>)
      /\ \A i \in 1..Len(log) : log'[i] = log[i]
      /\ LogInv'
  BY <1>1, <1>2, PublishKeeps
<1>4. Types'
  <2>1. Len(log) \in Nat /\ 1..Len(log) \subseteq 1..Len(log')
    BY <1>2, <1>3 DEF IInv, Types
  <2> QED
    BY <1>1, <1>3, <2>1 DEF IInv, Types
<1>5. EmittedInv'
  BY <1>1 DEF IInv, EmittedInv
<1>6. RowsAreCommitted' /\ RowInv'
  BY <1>1, <1>3, CommittedKeep
<1> QED
  BY <1>3, <1>4, <1>5, <1>6 DEF IInv

\* A new run has committed nothing, and no row is of it.
LEMMA RestartHolds ==
    ASSUME IInv, Restart
    PROVE  IInv'
<1>1. /\ run' = run + 1 /\ log' = <<>> /\ UNCHANGED rows
      /\ stage' = [o \in Submissions |-> IF stage[o] = "storing" THEN "undone" ELSE stage[o]]
      /\ emitted' = [o \in Submissions |-> {}]
      /\ stored' = [o \in Submissions |-> {}]
  BY DEF Restart
<1>2. Types'
  BY <1>1 DEF IInv, Types
<1>3. LogInv' /\ EmittedInv'
  BY <1>1 DEF LogInv, EmittedInv
<1>4. RowInv' /\ \A e \in rows' : e.run # run'
  BY <1>1 DEF IInv, Types, RowInv, Event
<1>5. RowsAreCommitted'
  <2>1. CommittedEvents' = {}
    BY <1>1 DEF CommittedEvents
  <2> QED
    BY <1>1, <1>4, <2>1 DEF IInv, RowsAreCommitted
<1> QED
  BY <1>2, <1>3, <1>4, <1>5 DEF IInv

LEMMA NextHolds == IInv /\ [Next]_vars => IInv'
<1> SUFFICES ASSUME IInv, [Next]_vars PROVE IInv'
  OBVIOUS
<1>1. CASE Restart
  BY <1>1, RestartHolds
<1>2. ASSUME NEW o \in Submissions, Submit(o) PROVE IInv'
  BY <1>2, MatchHolds, StoreHolds, CommitHolds, RollBackHolds DEF Submit
<1>3. ASSUME NEW kind \in Notices, Notice(kind) PROVE IInv'
  BY <1>3, NoticeHolds
<1>4. CASE UNCHANGED <<run, log, stage, emitted, stored, rows>>
  <2>1. Types' /\ LogInv' /\ EmittedInv'
    BY <1>4 DEF IInv, Types, LogInv, EmittedInv
  <2> QED
    BY <1>4, <2>1, CommittedKeep DEF IInv
<1>5. ASSUME NEW s \in Streams, NEW f \in Filters, CloseStream(s) \/ OpenStream(s, f) PROVE IInv'
  BY <1>4, <1>5 DEF CloseStream, OpenStream
<1>6. ASSUME NEW s \in Streams, CloseStream(s) PROVE IInv'
  BY <1>4, <1>6 DEF CloseStream
<1>7. ASSUME NEW r \in Readers, ReadPage(r) \/ \E f \in Filters : StartReading(r, f) PROVE IInv'
  BY <1>4, <1>7 DEF ReadPage, StartReading
<1>8. CASE UNCHANGED vars
  BY <1>4, <1>8 DEF vars
<1> QED
  BY <1>1, <1>2, <1>3, <1>5, <1>6, <1>7, <1>8 DEF Next

\* The inductive invariant.
THEOREM InvariantHolds == Spec => []IInv
<1> QED
  BY InitHolds, NextHolds, PTL DEF Spec

\* However submissions, failures and restarts interleave, the rows a run has written are the
\* events of the submissions it has committed, and no id has two rows.
THEOREM StoredIsCommitted == Spec => []RowsAreCommitted
<1>1. IInv => RowsAreCommitted
  BY DEF IInv
<1> QED
  BY <1>1, InvariantHolds, PTL

-----------------------------------------------------------------------------
(* What clients hear and read.                                             *)

\* A stream was opened at a place of the log.
StreamTypes ==
    /\ opened \in [Streams -> Nat \cup {-1}]
    /\ stream \in [Streams -> Seq(Event)]
    /\ DOMAIN filter = Streams
    /\ \A s \in Streams : opened[s] =< Len(log)

ReaderTypes ==
    /\ after \in [Readers -> Nat \cup {-1}]
    /\ DOMAIN wanted = Readers
    /\ base \in [Readers -> SUBSET Event]
    /\ got \in [Readers -> Seq(Event)]
    /\ ended \subseteq Readers

\* What a reader began with passes its filter, and what is of this run is still there: only
\* a later run writes over a row.
BaseInv ==
    \A r \in Readers : \A e \in base[r] :
        Passes(e, wanted[r]) /\ e.run =< run /\ (e.run = run => e \in rows)

\* A reader has come to the last id it has read.
GotInv ==
    \A r \in Readers :
        /\ \A i \in 1..Len(got[r]) : got[r][i].id =< after[r]
        /\ after[r] = -1 => base[r] = {} /\ got[r] = <<>> /\ r \notin ended

StreamsInv == StreamTypes /\ StreamsFollowLog

ReadersInv == ReaderTypes /\ BaseInv /\ GotInv /\ ReplayComplete /\ IsFiniteSet(rows)

\* Every open stream hears what is published.
LEMMA StreamsHear ==
    ASSUME IInv, StreamsInv, NEW about \in Submissions \cup {System}, NEW kinds \in Seq(KindsOfEvents),
           Publish(Envelopes(about, kinds)), run' = run
    PROVE  StreamsInv'
<1> DEFINE events == Envelopes(about, kinds)
<1>1. events \in Seq(Event)
  <2>1. \A i \in 1..Len(kinds) :
            [id |-> Len(log) + i, run |-> run, about |-> about, kind |-> kinds[i]] \in Event
    BY DEF IInv, Types, Event, KindsOfEvents
  <2> QED
    BY <2>1 DEF Envelopes
<1>2. /\ log' = log \o events /\ UNCHANGED <<filter, opened>>
      /\ stream' = [s \in Streams |->
                       IF opened[s] = -1 THEN stream[s] ELSE stream[s] \o Passing(events, filter[s])]
  BY DEF Publish
<1>3. log \in Seq(Event) /\ StreamTypes
  BY DEF IInv, Types, StreamsInv
<1> HIDE DEF events
<1>4. ASSUME NEW s \in Streams
      PROVE  stream'[s] \in Seq(Event)
  <2>1. Passing(events, filter[s]) \in Seq(Event)
    BY <1>1, PassingJoins
  <2>2. stream[s] \in Seq(Event)
    BY <1>3 DEF StreamTypes
  <2> QED
    BY <1>2, <2>1, <2>2
<1>5. ASSUME NEW s \in Streams, opened'[s] # -1
      PROVE  \E k \in 0..opened'[s] : stream'[s] = Passing(SubSeq(log', k + 1, Len(log')), filter'[s])
  <2>1. PICK k \in 0..opened[s] : stream[s] = Passing(SubSeq(log, k + 1, Len(log)), filter[s])
    BY <1>2, <1>5 DEF StreamsInv, StreamsFollowLog
  <2>2. k \in 0..Len(log)
    <3>1. opened[s] \in Nat /\ opened[s] =< Len(log) /\ Len(log) \in Nat
      BY <1>2, <1>3, <1>5 DEF StreamTypes
    <3> QED
      BY <3>1
  <2>3. Passing(SubSeq(log', k + 1, Len(log')), filter[s])
            = Joined(Passing(SubSeq(log, k + 1, Len(log)), filter[s]), Passing(events, filter[s]))
    <3>1. log' = Joined(log, events)
      BY <1>2 DEF Joined
    <3> QED
      BY <1>1, <1>3, <2>2, <3>1, PassingEnd
  <2>4. stream'[s] = Joined(stream[s], Passing(events, filter[s]))
    BY <1>2, <1>5 DEF Joined
  <2> QED
    BY <1>2, <2>1, <2>3, <2>4
<1>6. Len(log) =< Len(log')
  BY <1>1, <1>2, <1>3
<1>7. \A s \in Streams : opened'[s] =< Len(log')
  <2>1. \A s \in Streams : opened[s] =< Len(log) /\ opened[s] \in Int
    BY <1>3 DEF StreamTypes
  <2>2. Len(log) \in Int /\ Len(log') \in Int
    BY <1>1, <1>2, <1>3
  <2> QED
    BY <1>2, <1>6, <2>1, <2>2
<1>8. stream' \in [Streams -> Seq(Event)]
  BY <1>2, <1>4
<1> QED
  BY <1>2, <1>3, <1>5, <1>7, <1>8 DEF StreamTypes, StreamsFollowLog, StreamsInv

\* The readers, as far as rows that only grow concern them.
LEMMA ReadersKeep ==
    ASSUME IInv, ReadersInv, UNCHANGED readVars,
           run' = run \/ (run' = run + 1 /\ rows' = rows),
           \A e \in rows : e.run = run => e \in rows',
           \A e \in rows' : e \in rows \/ e.run = run,
           IsFiniteSet(rows')
    PROVE  ReadersInv'
<1>1. /\ run \in Nat /\ BaseInv /\ GotInv /\ ReplayComplete /\ ReaderTypes
      /\ base \in [Readers -> SUBSET Event]
  BY DEF IInv, Types, ReadersInv, ReaderTypes
<1>2. UNCHANGED <<after, wanted, base, got, ended>>
  BY DEF readVars
<1>3. BaseInv'
  <2> SUFFICES ASSUME NEW r \in Readers, NEW e \in base[r]
               PROVE  Passes(e, wanted[r]) /\ e.run =< run' /\ (e.run = run' => e \in rows')
    BY <1>2 DEF BaseInv, Passes
  <2>1. Passes(e, wanted[r]) /\ e.run =< run /\ (e.run = run => e \in rows) /\ e.run \in Nat
    BY <1>1 DEF BaseInv, Event
  <2> QED
    BY <1>1, <2>1
<1>4. GotInv'
  BY <1>1, <1>2 DEF GotInv
<1>5. ReplayComplete'
  <2>1. \A r \in Readers : base[r] \cap rows' \subseteq base[r] \cap rows
    BY <1>1 DEF BaseInv
  <2> QED
    BY <1>1, <1>2, <2>1 DEF ReplayComplete
<1> QED
  BY <1>1, <1>2, <1>3, <1>4, <1>5 DEF ReadersInv, ReaderTypes

\* A stream is opened at the end of the log, with a snapshot of what was last.
LEMMA OpenHears ==
    ASSUME IInv, StreamsInv, NEW s \in Streams, NEW f, OpenStream(s, f)
    PROVE  StreamsInv'
<1>1. /\ filter' = [filter EXCEPT ![s] = f]
      /\ opened' = [opened EXCEPT ![s] = Len(log)]
      /\ stream' = [stream EXCEPT ![s] = Passing(Recent, f)]
      /\ log' = log
  BY DEF OpenStream
<1>2. log \in Seq(Event) /\ Len(log) \in Nat /\ StreamTypes /\ StreamsFollowLog
  BY DEF IInv, Types, StreamsInv
<1>3. PICK k \in 0..Len(log) : Recent = SubSeq(log, k + 1, Len(log))
  <2>1. CASE Len(log) < SnapshotSize
    <3>1. Recent = SubSeq(log, 0 + 1, Len(log)) /\ 0 \in 0..Len(log)
      BY <1>2, <2>1 DEF Recent
    <3> QED
      BY <3>1
  <2>2. CASE ~(Len(log) < SnapshotSize)
    <3>1. Recent = SubSeq(log, (Len(log) - SnapshotSize) + 1, Len(log))
      BY <2>2 DEF Recent
    <3>2. Len(log) - SnapshotSize \in 0..Len(log)
      BY <1>2, <2>2
    <3> QED
      BY <3>1, <3>2
  <2> QED
    BY <2>1, <2>2
<1>4. Passing(Recent, f) \in Seq(Event)
  <2>1. Recent \in Seq(Event)
    BY <1>2, <1>3, EndJoins
  <2> QED
    BY <2>1, PassingJoins
<1>5. StreamTypes'
  BY <1>1, <1>2, <1>4 DEF StreamTypes
<1>6. ASSUME NEW t \in Streams, opened'[t] # -1
      PROVE  \E i \in 0..opened'[t] : stream'[t] = Passing(SubSeq(log', i + 1, Len(log')), filter'[t])
  <2>1. CASE t = s
    <3>1. opened'[s] = Len(log) /\ stream'[s] = Passing(Recent, f)
      BY <1>1, <1>2 DEF StreamTypes
    <3>2. filter'[s] = f
      BY <1>1, <1>2 DEF StreamTypes
    <3> QED
      BY <1>1, <1>3, <2>1, <3>1, <3>2
  <2>2. CASE t # s
    <3>1. opened'[t] = opened[t] /\ stream'[t] = stream[t] /\ filter'[t] = filter[t]
      BY <1>1, <1>2, <2>2 DEF StreamTypes
    <3> QED
      BY <1>1, <1>2, <1>6, <3>1 DEF StreamsFollowLog
  <2> QED
    BY <2>1, <2>2
<1> QED
  BY <1>5, <1>6 DEF StreamsInv, StreamsFollowLog

\* A stream that is closed has nothing to follow.
LEMMA CloseHears ==
    ASSUME IInv, StreamsInv, NEW s \in Streams, CloseStream(s)
    PROVE  StreamsInv'
<1>1. /\ opened' = [opened EXCEPT ![s] = -1]
      /\ stream' = [stream EXCEPT ![s] = <<>>]
      /\ UNCHANGED <<log, filter>>
  BY DEF CloseStream
<1>2. Len(log) \in Nat /\ StreamTypes /\ StreamsFollowLog
  BY DEF IInv, Types, StreamsInv
<1>3. StreamTypes'
  BY <1>1, <1>2 DEF StreamTypes
<1>4. \A t \in Streams : opened'[t] # -1 =>
          opened'[t] = opened[t] /\ stream'[t] = stream[t]
  BY <1>1, <1>2 DEF StreamTypes
<1>5. StreamsFollowLog'
  BY <1>1, <1>2, <1>4 DEF StreamsFollowLog
<1> QED
  BY <1>3, <1>5 DEF StreamsInv

\* What a reader can still find.
Unread(r) == {e \in rows : e.id > after[r] /\ Passes(e, wanted[r])}

\* A page is the beginning of what is unread, in order; a page that is not full is all of it.
LEMMA PageIs ==
    ASSUME IInv, ReadersInv, NEW r \in Readers
    PROVE  LET found == ById(Unread(r))
               page == Page(r)
           IN  /\ IsInOrder(found, Unread(r))
               /\ page \in Seq(Unread(r)) /\ Len(page) =< Len(found)
               /\ \A i \in 1..Len(page) : page[i] = found[i]
               /\ Len(page) < PageSize => Len(page) = Len(found)
<1> DEFINE found == ById(Unread(r))
           n == IF Len(found) > PageSize THEN PageSize ELSE Len(found)
<1>1. IsInOrder(found, Unread(r))
  <2>1. Unread(r) \subseteq rows
    BY DEF Unread
  <2>2. IsFiniteSet(Unread(r))
    BY <2>1, FS_Subset DEF ReadersInv
  <2>3. \A e \in Unread(r) : e.id \in Nat
    BY <2>1 DEF IInv, Types, Event
  <2>4. \A d, e \in Unread(r) : d # e => d.id # e.id
    BY <2>1 DEF IInv, RowsAreCommitted
  <2> QED
    BY <2>2, <2>3, <2>4, RowsAreInOrder
<1>2. Page(r) = SubSeq(found, 1, n)
  BY DEF Page, Unread
<1>3. found \in Seq(Unread(r))
  BY <1>1 DEF IsInOrder
<1> HIDE DEF found
<1>4. Len(found) \in Nat /\ n \in Nat /\ n =< Len(found) /\ (n < PageSize => n = Len(found))
  BY <1>3
<1> HIDE DEF n
<1>5. SubSeq(found, 1, n) \in Seq(Unread(r)) /\ Len(SubSeq(found, 1, n)) = n
  <2>1. \A i \in 1..n : found[i] \in Unread(r)
    BY <1>3, <1>4
  <2>2. SubSeq(found, 1, n) \in Seq(Unread(r)) /\ Len(SubSeq(found, 1, n)) = IF 1 =< n THEN n - 1 + 1 ELSE 0
    BY <1>4, <2>1, SubSeqProperties
  <2> QED
    BY <1>4, <2>2
<1>6. \A i \in 1..n : SubSeq(found, 1, n)[i] = found[i]
  BY <1>3, <1>4
<1>7. /\ IsInOrder(found, Unread(r))
      /\ Page(r) \in Seq(Unread(r)) /\ Len(Page(r)) =< Len(found)
      /\ \A i \in 1..Len(Page(r)) : Page(r)[i] = found[i]
      /\ Len(Page(r)) < PageSize => Len(Page(r)) = Len(found)
  BY <1>1, <1>2, <1>4, <1>5, <1>6
<1> QED
  BY <1>7 DEF found

\* A reader that starts has read nothing, and nothing has the id it is at.
LEMMA StartReads ==
    ASSUME IInv, ReadersInv, NEW r \in Readers, NEW f, StartReading(r, f)
    PROVE  ReadersInv'
<1>1. /\ after[r] = -1
      /\ after' = [after EXCEPT ![r] = 0]
      /\ wanted' = [wanted EXCEPT ![r] = f]
      /\ base' = [base EXCEPT ![r] = {e \in rows : Passes(e, f)}]
      /\ UNCHANGED <<run, rows, got, ended>>
  BY DEF StartReading
<1>2. /\ ReaderTypes /\ BaseInv /\ GotInv /\ ReplayComplete
      /\ rows \subseteq Event /\ RowInv
  BY DEF IInv, Types, ReadersInv
<1>3. /\ after'[r] = 0 /\ wanted'[r] = f /\ base'[r] = {e \in rows : Passes(e, f)}
      /\ \A q \in Readers : q # r =>
            after'[q] = after[q] /\ wanted'[q] = wanted[q] /\ base'[q] = base[q]
      /\ got[r] = <<>> /\ r \notin ended
  BY <1>1, <1>2 DEF ReaderTypes, GotInv
<1>4. ReaderTypes'
  BY <1>1, <1>2 DEF ReaderTypes
<1>5. BaseInv'
  BY <1>1, <1>2, <1>3 DEF BaseInv, RowInv, Passes
<1>6. GotInv'
  <2>1. Len(<<>>) = 0 /\ 1..0 = {}
    OBVIOUS
  <2>2. \A i \in 1..Len(got'[r]) : got'[r][i].id =< after'[r]
    BY <1>1, <1>3, <2>1
  <2> QED
    BY <1>1, <1>2, <1>3, <2>2 DEF GotInv
<1>7. ReplayComplete'
  <2>1. \A e \in rows : ~(e.id =< 0)
    BY <1>2 DEF Event
  <2>2. DOMAIN <<>> = {}
    OBVIOUS
  <2> QED
    BY <1>1, <1>2, <1>3, <2>1, <2>2 DEF ReplayComplete
<1> QED
  BY <1>1, <1>4, <1>5, <1>6, <1>7 DEF ReadersInv

\* A reader that has read a page has all that is below its last id.
LEMMA ReadHolds ==
    ASSUME IInv, ReadersInv, NEW r \in Readers, ReadPage(r)
    PROVE  ReadersInv'
<1> DEFINE page == Page(r)
           found == ById(Unread(r))
           n == Len(page)
<1>1. /\ after[r] # -1 /\ r \notin ended
      /\ got' = [got EXCEPT ![r] = @ \o page]
      /\ after' = IF page = <<>> THEN after ELSE [after EXCEPT ![r] = Last(page).id]
      /\ ended' = IF Len(page) < PageSize THEN ended \cup {r} ELSE ended
      /\ UNCHANGED <<run, rows, wanted, base>>
  BY DEF ReadPage
<1>2. /\ ReaderTypes /\ BaseInv /\ GotInv /\ ReplayComplete /\ IsFiniteSet(rows)
      /\ rows \subseteq Event
  BY DEF IInv, Types, ReadersInv
<1>3. /\ IsInOrder(found, Unread(r))
      /\ page \in Seq(Unread(r)) /\ n =< Len(found)
      /\ \A i \in 1..n : page[i] = found[i]
      /\ n < PageSize => n = Len(found)
  BY PageIs
<1> HIDE DEF page, found
<1>4. /\ n \in Nat /\ Len(found) \in Nat /\ found \in Seq(Unread(r))
      /\ \A i \in 1..n : page[i] \in Unread(r)
      /\ \A e \in Unread(r) : e \in rows /\ e \in Event /\ e.id \in Nat /\ e.id > after[r]
  <2>1. found \in Seq(Unread(r)) /\ page \in Seq(Unread(r))
    BY <1>3 DEF IsInOrder
  <2>2. \A e \in Unread(r) : e \in rows /\ e \in Event /\ e.id > after[r]
    BY <1>2 DEF Unread
  <2>3. \A e \in Event : e.id \in Nat
    BY DEF Event
  <2>4. n \in Nat /\ Len(found) \in Nat /\ \A i \in 1..n : page[i] \in Unread(r)
    BY <2>1
  <2> QED
    BY <2>1, <2>2, <2>3, <2>4
<1>5. /\ after[r] \in Nat /\ got[r] \in Seq(Event) /\ Len(got[r]) \in Nat
      /\ \A i \in 1..Len(got[r]) : got[r][i].id =< after[r] /\ got[r][i].id \in Nat
  <2>1. after[r] \in Nat /\ got[r] \in Seq(Event)
    BY <1>1, <1>2 DEF ReaderTypes
  <2>2. Len(got[r]) \in Nat /\ \A i \in 1..Len(got[r]) : got[r][i] \in Event
    BY <2>1
  <2>3. \A e \in Event : e.id \in Nat
    BY DEF Event
  <2> QED
    BY <1>2, <2>1, <2>2, <2>3 DEF GotInv
<1>6. /\ page \in Seq(Event) /\ got'[r] = got[r] \o page
      /\ got'[r] \in Seq(Event) /\ Len(got'[r]) = Len(got[r]) + n
      /\ \A i \in 1..Len(got[r]) : got'[r][i] = got[r][i]
      /\ \A i \in 1..n : got'[r][Len(got[r]) + i] = page[i]
  <2>1. page \in Seq(Event)
    BY <1>3, <1>4
  <2>2. got'[r] = got[r] \o page
    BY <1>1, <1>2 DEF ReaderTypes
  <2> DEFINE g == got[r]
  <2>3. g \in Seq(Event)
    BY <1>5
  <2> HIDE DEF g
  <2>4. /\ g \o page \in Seq(Event) /\ Len(g \o page) = Len(g) + Len(page)
        /\ \A i \in 1..Len(g) : (g \o page)[i] = g[i]
        /\ \A i \in 1..Len(page) : (g \o page)[Len(g) + i] = page[i]
    BY <2>1, <2>3
  <2> QED
    BY <2>1, <2>2, <2>4 DEF g
<1>7. \A q \in Readers : q # r => got'[q] = got[q] /\ after'[q] = after[q]
  BY <1>1, <1>2 DEF ReaderTypes
<1>8. /\ n = 0 => after'[r] = after[r]
      /\ n > 0 => after'[r] = page[n].id
      /\ after' \in [Readers -> Nat \cup {-1}]
      /\ after'[r] \in Nat /\ after[r] =< after'[r]
  <2>1. CASE n = 0
    <3>1. page = <<>>
      BY <1>3, <2>1
    <3> QED
      BY <1>1, <1>2, <1>5, <2>1, <3>1 DEF ReaderTypes
  <2>2. CASE n > 0
    <3>1. page # <<>> /\ Last(page) = page[n]
      BY <2>2 DEF Last
    <3>2. page[n].id \in Nat /\ page[n].id > after[r]
      BY <1>4, <2>2
    <3> QED
      BY <1>1, <1>2, <1>5, <2>2, <3>1, <3>2 DEF ReaderTypes
  <2> QED
    BY <1>4, <2>1, <2>2
<1>9. \A i \in 1..n : page[i].id =< after'[r]
  <2> SUFFICES ASSUME NEW i \in 1..n PROVE page[i].id =< page[n].id
    BY <1>4, <1>8
  <2>1. CASE i = n
    BY <1>4, <2>1
  <2>2. CASE i < n
    <3>1. i \in 1..Len(found) /\ n \in 1..Len(found) /\ n \in 1..n
      BY <1>3, <1>4, <2>2
    <3>2. found[i].id < found[n].id
      BY <1>3, <2>2, <3>1 DEF IsInOrder
    <3> QED
      BY <1>3, <1>4, <3>1, <3>2
  <2> QED
    BY <1>4, <2>1, <2>2
<1>10. ReaderTypes'
  BY <1>1, <1>2, <1>6, <1>8 DEF ReaderTypes
<1>11. BaseInv'
  BY <1>1, <1>2 DEF BaseInv, Passes
<1>12. ASSUME NEW i \in 1..Len(got'[r])
       PROVE  \/ i \in 1..Len(got[r]) /\ got'[r][i] = got[r][i]
              \/ i - Len(got[r]) \in 1..n /\ got'[r][i] = page[i - Len(got[r])]
  <2>1. CASE i \in 1..Len(got[r])
    BY <1>6, <2>1
  <2>2. CASE i \notin 1..Len(got[r])
    <3>1. i - Len(got[r]) \in 1..n /\ Len(got[r]) + (i - Len(got[r])) = i
      BY <1>4, <1>5, <1>6, <2>2
    <3> QED
      BY <1>6, <3>1
  <2> QED
    BY <2>1, <2>2
<1>13. GotInv'
  <2>1. ASSUME NEW i \in 1..Len(got'[r]) PROVE got'[r][i].id =< after'[r]
    <3>1. CASE i \in 1..Len(got[r]) /\ got'[r][i] = got[r][i]
      <4>1. got[r][i].id =< after[r] /\ got[r][i].id \in Nat
        BY <1>5, <3>1
      <4> QED
        BY <1>5, <1>8, <3>1, <4>1
    <3>2. CASE i - Len(got[r]) \in 1..n /\ got'[r][i] = page[i - Len(got[r])]
      BY <1>9, <3>2
    <3> QED
      BY <1>12, <3>1, <3>2
  <2>2. after'[r] # -1
    BY <1>8
  <2>3. \A q \in Readers : q # r => (q \in ended' <=> q \in ended)
    BY <1>1
  <2> QED
    BY <1>1, <1>2, <1>7, <2>1, <2>2, <2>3 DEF GotInv
<1>14. ASSUME NEW i \in 1..Len(got'[r]), NEW j \in 1..Len(got'[r]), i < j
       PROVE  got'[r][i].id < got'[r][j].id
  <2> DEFINE m == Len(got[r])
  <2>1. CASE i \in 1..m /\ got'[r][i] = got[r][i]
    <3>1. CASE j \in 1..m /\ got'[r][j] = got[r][j]
      <4>1. DOMAIN got[r] = 1..m
        BY <1>5
      <4>2. got[r][i].id < got[r][j].id
        BY <1>2, <1>14, <2>1, <3>1, <4>1 DEF ReplayComplete
      <4> QED
        BY <2>1, <3>1, <4>2
    <3>2. CASE j - m \in 1..n /\ got'[r][j] = page[j - m]
      <4>1. got[r][i].id =< after[r] /\ got[r][i].id \in Nat
        BY <1>5, <2>1
      <4>2. page[j - m].id > after[r] /\ page[j - m].id \in Nat
        BY <1>4, <3>2
      <4> QED
        BY <1>5, <2>1, <3>2, <4>1, <4>2
    <3> QED
      BY <1>12, <3>1, <3>2
  <2>2. CASE i - m \in 1..n /\ got'[r][i] = page[i - m]
    <3>1. j - m \in 1..n /\ j \notin 1..m /\ i - m < j - m
      BY <1>4, <1>5, <1>6, <1>14, <2>2
    <3>2. got'[r][j] = page[j - m]
      BY <1>12, <3>1
    <3>3. i - m \in 1..Len(found) /\ j - m \in 1..Len(found)
      <4>1. \A k \in 1..n : k \in 1..Len(found)
        BY <1>3, <1>4
      <4> QED
        BY <2>2, <3>1, <4>1
    <3>4. found[i - m].id < found[j - m].id
      <4>1. \A k, l \in 1..Len(found) : k < l => found[k].id < found[l].id
        BY <1>3 DEF IsInOrder
      <4> HIDE DEF m
      <4> QED
        BY <3>1, <3>3, <4>1
    <3> QED
      BY <1>3, <2>2, <3>1, <3>2, <3>4
  <2> QED
    BY <1>12, <2>1, <2>2
<1>15. ASSUME NEW e \in base[r] \cap rows, e.id =< after'[r] \/ r \in ended'
       PROVE  e \in Range(got'[r])
  <2>1. SUFFICES \E i \in 1..Len(got'[r]) : got'[r][i] = e
    BY <1>6 DEF Range
  <2>2. e.id \in Nat /\ Passes(e, wanted[r])
    BY <1>2 DEF BaseInv, Event
  <2>3. CASE e.id =< after[r]
    <3>1. e \in Range(got[r])
      BY <1>2, <2>3 DEF ReplayComplete
    <3>2. PICK i \in 1..Len(got[r]) : got[r][i] = e
      BY <1>5, <3>1 DEF Range
    <3>3. i \in 1..Len(got'[r])
      BY <1>4, <1>5, <1>6
    <3> QED
      BY <1>6, <3>2, <3>3
  <2>4. CASE ~(e.id =< after[r])
    <3>1. e \in Unread(r)
      BY <1>5, <2>2, <2>4 DEF Unread
    <3>2. PICK i \in 1..Len(found) : found[i] = e
      BY <1>3, <3>1 DEF IsInOrder
    <3>3. i \in 1..n
      <4>1. CASE n < PageSize
        BY <1>3, <3>2, <4>1
      <4>2. CASE ~(n < PageSize)
        <5>1. r \notin ended'
          BY <1>1, <4>2
        <5>2. n > 0 /\ n \in 1..n /\ n \in 1..Len(found)
          BY <1>3, <1>4, <4>2
        <5>3. e.id =< found[n].id /\ found[n].id \in Nat
          BY <1>3, <1>4, <1>8, <1>15, <5>1, <5>2
        <5>4. ~(n < i)
          <6>1. n < i => found[n].id < found[i].id
            BY <1>3, <5>2 DEF IsInOrder
          <6> QED
            BY <2>2, <3>2, <5>3, <6>1
        <5> QED
          BY <1>4, <3>2, <5>4
      <4> QED
        BY <4>1, <4>2
    <3>4. Len(got[r]) + i \in 1..Len(got'[r]) /\ got'[r][Len(got[r]) + i] = e
      <4>1. got'[r][Len(got[r]) + i] = page[i]
        BY <1>6, <3>3
      <4>2. Len(got[r]) + i \in 1..(Len(got[r]) + n)
        BY <1>4, <1>5, <3>3
      <4>3. page[i] = e
        BY <1>3, <3>2, <3>3
      <4> QED
        BY <1>6, <4>1, <4>2, <4>3
    <3> QED
      BY <3>4
  <2> QED
    BY <2>3, <2>4
<1>16. ReplayComplete'
  <2>1. DOMAIN got'[r] = 1..Len(got'[r])
    BY <1>6
  <2>2. \A q \in Readers : q # r => (q \in ended' <=> q \in ended)
    BY <1>1
  <2>3. ASSUME NEW q \in Readers
        PROVE  /\ \A i, j \in DOMAIN got'[q] : i < j => got'[q][i].id < got'[q][j].id
               /\ \A e \in base[q] \cap rows :
                    e.id =< after'[q] \/ q \in ended' => e \in Range(got'[q])
    <3>1. CASE q = r
      BY <1>14, <1>15, <2>1, <3>1
    <3>2. CASE q # r
      BY <1>2, <1>7, <2>2, <3>2 DEF ReplayComplete
    <3> QED
      BY <3>1, <3>2
  <2> QED
    BY <1>1, <2>3 DEF ReplayComplete, Range
<1> QED
  BY <1>1, <1>2, <1>10, <1>11, <1>13, <1>16 DEF ReadersInv

\* A commit adds finitely many rows, of this run, and takes none of this run away.
LEMMA CommitKeepsReaders ==
    ASSUME IInv, IInv', ReadersInv, NEW o \in Submissions, Commit(o)
    PROVE  ReadersInv'
<1>1. /\ stage' = [stage EXCEPT ![o] = "committed"]
      /\ rows' = {e \in rows : e.id \notin stored[o]} \cup {log[i] : i \in stored[o]}
      /\ UNCHANGED <<run, log, emitted, readVars>>
  BY DEF Commit, Upserted
<1>2. stored[o] \subseteq 1..Len(log) /\ Len(log) \in Nat
  BY DEF IInv, Types
<1>3. CommittedEvents \subseteq CommittedEvents'
  <2>1. \A p \in Submissions : stage[p] = "committed" => stage'[p] = "committed"
    BY <1>1 DEF IInv, Types
  <2> QED
    BY <1>1, <2>1 DEF CommittedEvents
<1>4. \A e \in rows : e.run = run => e \in rows'
  <2>1. {e \in rows : e.run = run} = CommittedEvents
    BY DEF IInv, RowsAreCommitted
  <2>2. {e \in rows' : e.run = run'} = CommittedEvents'
    BY DEF IInv, RowsAreCommitted
  <2> QED
    BY <1>1, <1>3, <2>1, <2>2
<1>5. \A e \in rows' : e \in rows \/ e.run = run
  BY <1>1, <1>2 DEF IInv, LogInv
<1>6. IsFiniteSet(rows')
  <2>1. IsFiniteSet(rows)
    BY DEF ReadersInv
  <2>2. IsFiniteSet({e \in rows : e.id \notin stored[o]})
    BY <2>1, FS_Subset
  <2>3. IsFiniteSet(stored[o])
    <3>1. IsFiniteSet(1..Len(log))
      BY <1>2, FS_Interval
    <3> QED
      BY <1>2, <3>1, FS_Subset
  <2>4. IsFiniteSet({log[i] : i \in stored[o]})
    <3> DEFINE ids == stored[o]
               f == [i \in ids |-> log[i]]
               T == {log[i] : i \in ids}
    <3>1. f \in Surjection(ids, T)
      BY DEF Surjection
    <3> HIDE DEF f, T, ids
    <3>2. IsFiniteSet(T)
      BY <2>3, <3>1, FS_Surjection DEF ids
    <3> QED
      BY <3>2 DEF T, ids
  <2> QED
    BY <1>1, <2>2, <2>4, FS_Union
<1> QED
  <2>1. UNCHANGED readVars
    BY <1>1
  <2>2. run' = run \/ (run' = run + 1 /\ rows' = rows)
    BY <1>1
  <2> QED
    BY <1>4, <1>5, <1>6, <2>1, <2>2, ReadersKeep

\* At first there are no clients.
LEMMA ClientsInit == Init => StreamsInv /\ ReadersInv
<1> SUFFICES ASSUME Init PROVE StreamsInv /\ ReadersInv
  OBVIOUS
<1>1. StreamsInv
  BY DEF Init, StreamsInv, StreamTypes, StreamsFollowLog
<1>2. ReaderTypes /\ BaseInv /\ GotInv
  BY DEF Init, ReaderTypes, BaseInv, GotInv
<1>3. ReplayComplete
  BY DEF Init, ReplayComplete
<1>4. IsFiniteSet(rows)
  BY FS_EmptySet DEF Init
<1> QED
  BY <1>1, <1>2, <1>3, <1>4 DEF ReadersInv

\* Only what is published, and opening and closing, concern streams.
LEMMA StreamsNext == IInv /\ StreamsInv /\ [Next]_vars => StreamsInv'
<1> SUFFICES ASSUME IInv, StreamsInv, [Next]_vars PROVE StreamsInv'
  OBVIOUS
<1>1. CASE UNCHANGED <<log, feedVars>>
  BY <1>1 DEF StreamsInv, StreamTypes, StreamsFollowLog, feedVars
<1>2. CASE Restart
  <2>1. /\ log' = <<>> /\ filter' = [s \in Streams |-> AnySymbol]
        /\ opened' = [s \in Streams |-> -1] /\ stream' = [s \in Streams |-> <<>>]
    BY <1>2 DEF Restart
  <2> QED
    BY <2>1 DEF StreamsInv, StreamTypes, StreamsFollowLog
<1>3. ASSUME NEW o \in Submissions, NEW x \in Executions, Match(o, x) PROVE StreamsInv'
  <2>1. Kinds(x) \in Seq(KindsOfEvents)
    BY KindsType
  <2> QED
    BY <1>3, <2>1, StreamsHear DEF Match
<1>4. ASSUME NEW o \in Submissions, Store(o) \/ Commit(o) \/ RollBack(o) PROVE StreamsInv'
  BY <1>1, <1>4 DEF Store, Commit, RollBack
<1>5. ASSUME NEW kind \in Notices, Notice(kind) PROVE StreamsInv'
  <2>1. <<kind>> \in Seq(KindsOfEvents)
    BY DEF KindsOfEvents
  <2> QED
    BY <1>5, <2>1, StreamsHear DEF Notice
<1>6. ASSUME NEW s \in Streams, CloseStream(s) PROVE StreamsInv'
  BY <1>6, CloseHears
<1>7. ASSUME NEW s \in Streams, NEW f \in Filters, OpenStream(s, f) PROVE StreamsInv'
  BY <1>7, OpenHears
<1>8. ASSUME NEW r \in Readers, ReadPage(r) PROVE StreamsInv'
  BY <1>1, <1>8 DEF ReadPage
<1>9. ASSUME NEW r \in Readers, NEW f \in Filters, StartReading(r, f) PROVE StreamsInv'
  BY <1>1, <1>9 DEF StartReading
<1>10. CASE UNCHANGED vars
  BY <1>1, <1>10 DEF vars
<1> QED
  BY <1>2, <1>3, <1>4, <1>5, <1>6, <1>7, <1>8, <1>9, <1>10 DEF Next, Submit

\* Only reading, and commits, concern readers.
LEMMA ReadersNext == IInv /\ IInv' /\ ReadersInv /\ [Next]_vars => ReadersInv'
<1> SUFFICES ASSUME IInv, IInv', ReadersInv, [Next]_vars PROVE ReadersInv'
  OBVIOUS
<1>1. ASSUME UNCHANGED <<rows, readVars>>, run' = run \/ run' = run + 1 PROVE ReadersInv'
  <2>1. IsFiniteSet(rows')
    BY <1>1 DEF ReadersInv
  <2> QED
    BY <1>1, <2>1, ReadersKeep
<1>2. CASE Restart
  BY <1>1, <1>2 DEF Restart
<1>3. ASSUME NEW o \in Submissions, Store(o) \/ RollBack(o) \/ \E x \in Executions : Match(o, x)
      PROVE  ReadersInv'
  BY <1>1, <1>3 DEF Store, RollBack, Match
<1>4. ASSUME NEW o \in Submissions, Commit(o) PROVE ReadersInv'
  BY <1>4, CommitKeepsReaders
<1>5. ASSUME NEW kind \in Notices, Notice(kind) PROVE ReadersInv'
  BY <1>1, <1>5 DEF Notice
<1>6. ASSUME NEW s \in Streams, CloseStream(s) \/ \E f \in Filters : OpenStream(s, f)
      PROVE  ReadersInv'
  BY <1>1, <1>6 DEF CloseStream, OpenStream
<1>7. ASSUME NEW r \in Readers, ReadPage(r) PROVE ReadersInv'
  BY <1>7, ReadHolds
<1>8. ASSUME NEW r \in Readers, NEW f \in Filters, StartReading(r, f) PROVE ReadersInv'
  BY <1>8, StartReads
<1>9. CASE UNCHANGED vars
  BY <1>1, <1>9 DEF vars
<1> QED
  BY <1>2, <1>3, <1>4, <1>5, <1>6, <1>7, <1>8, <1>9 DEF Next, Submit

\* Whatever is published while it is open, a stream hears the events that pass its filter,
\* from some event of its snapshot to the last of the log, each once and in their order.
THEOREM StreamsHaveNoGaps == Spec => []StreamsFollowLog
<1>1. StreamsInv => StreamsFollowLog
  BY DEF StreamsInv
<1>2. Init => StreamsInv
  BY ClientsInit
<1> QED
  BY <1>1, <1>2, StreamsNext, InvariantHolds, PTL DEF Spec

\* However commits, failures and restarts come between its pages, a reader reads no id
\* twice, and misses no row that was there when it began and has not been written over.
THEOREM ReplayHasNoGaps == Spec => []ReplayComplete
<1>1. ReadersInv => ReplayComplete
  BY DEF ReadersInv
<1>2. Init => ReadersInv
  BY ClientsInit
<1> QED
  BY <1>1, <1>2, ReadersNext, InvariantHolds, PTL DEF Spec
=============================================================================
