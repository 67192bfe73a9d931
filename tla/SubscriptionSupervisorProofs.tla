--------------------- MODULE SubscriptionSupervisorProofs ---------------------
(* What holds of SubscriptionSupervisor for all keys, successions, limits    *)
(* and depths of nested calls: what the entries say is true, nobody waits in *)
(* vain, and no mark of a rotation outlives its lease.                       *)
(*                                                                           *)
(* A method works on states between two others of the same turn, so the      *)
(* proof is by methods: each is shown to keep a state in order (Keeps) if    *)
(* the calls nested in it do (Turning), and then so do calls nested to any   *)
(* depth.  Every action is such a method on a state that is sane.            *)
EXTENDS SubscriptionSupervisor, TLAPS, FiniteSetTheorems, WellFoundedInduction,
        NaturalsInduction

-----------------------------------------------------------------------------
(* Iterations, minima and sequences.                                         *)

(* A non-empty set of natural numbers has a least element.                   *)
LEMMA LeastExists ==
  ASSUME NEW T \in SUBSET Nat, T # {}
  PROVE  \E m \in T : \A n \in T : m <= n
<1>1. IsWellFoundedOn(OpToRel(<, Nat), Nat)
  BY NatLessThanWellFounded
<1>2. PICK m \in T : \A n \in T : ~(<<n, m>> \in OpToRel(<, Nat))
  BY <1>1, WFMin
<1>3. ASSUME NEW n \in T PROVE m <= n
  <2>1. ASSUME n < m PROVE FALSE
    <3>1. <<n, m>> \in Nat \X Nat /\ <<n, m>>[1] < <<n, m>>[2]
      BY <2>1
    <3>2. <<n, m>> \in OpToRel(<, Nat)
      BY <3>1, Zenon DEF OpToRel
    <3> QED BY <3>2, <1>2
  <2> QED BY <2>1
<1> QED BY <1>3

(* f begins with base, and every next value is what G makes of the last.     *)
Iterates(f, base, N, G) == f = [n \in 0..N |-> IF n = 0 THEN base ELSE G[n][f[n - 1]]]

(* The values of an iteration, one by one.                                   *)
LEMMA IterationUnfolds ==
  ASSUME NEW N \in Nat, NEW base, NEW G, NEW f, Iterates(f, base, N, G)
  PROVE  f[0] = base /\ \A n \in 1..N : f[n] = G[n][f[n - 1]]
<1>1. f = [n \in 0..N |-> IF n = 0 THEN base ELSE G[n][f[n - 1]]]
  BY DEF Iterates
<1>2. 0 \in 0..N /\ \A n \in 1..N : n \in 0..N /\ n # 0
  OBVIOUS
<1> QED BY <1>1, <1>2

(* There are such functions.                                                 *)
LEMMA IterationExists ==
  ASSUME NEW N \in Nat, NEW base, NEW G
  PROVE  \E f : Iterates(f, base, N, G)
<1> DEFINE Upto(m) == \E f : Iterates(f, base, m, G)
           Bad == {m \in 0..N : ~Upto(m)}
<1>1. ASSUME Bad # {} PROVE FALSE
  <2>0. Bad \in SUBSET Nat
    OBVIOUS
  <2>1. PICK m \in Bad : \A n \in Bad : m <= n
    <3> HIDE DEF Bad
    <3> QED BY <1>1, <2>0, LeastExists
  <2>2. CASE m = 0
    <3> DEFINE f == [n \in 0..0 |-> base]
    <3>1. \A n \in 0..0 : n = 0
      OBVIOUS
    <3>2. f = [n \in 0..0 |-> IF n = 0 THEN base ELSE G[n][f[n - 1]]]
      BY <3>1
    <3> HIDE DEF f
    <3>3. Upto(0)
      BY <3>2 DEF Iterates
    <3> QED BY <3>3, <2>1, <2>2
  <2>3. CASE m # 0
    <3>1. m - 1 \in 0..N /\ m \in 1..N
      BY <2>1, <2>3
    <3>2. Upto(m - 1)
      <4>1. ~(m <= m - 1)
        BY <3>1
      <4>2. m - 1 \notin Bad
        BY <4>1, <2>1
      <4> HIDE DEF Upto
      <4> QED BY <4>2, <3>1
    <3>3. PICK f : Iterates(f, base, m - 1, G)
      BY <3>2
    <3>4. \A n \in 0..(m - 1) : f[n] = IF n = 0 THEN base ELSE G[n][f[n - 1]]
      <4>1. m - 1 \in Nat
        BY <3>1
      <4>2. f[0] = base /\ \A n \in 1..(m - 1) : f[n] = G[n][f[n - 1]]
        BY <3>3, <4>1, IterationUnfolds
      <4> QED BY <4>1, <4>2
    <3> DEFINE g == [n \in 0..m |-> IF n = m THEN G[m][f[m - 1]] ELSE f[n]]
    <3>5. \A n \in 0..m : g[n] = IF n = 0 THEN base ELSE G[n][g[n - 1]]
      <4> TAKE n \in 0..m
      <4>1. CASE n = m
        BY <4>1, <3>1
      <4>2. CASE n # m
        <5>1. n \in 0..(m - 1)
          BY <4>2, <3>1
        <5>2. g[n] = f[n]
          BY <4>2
        <5>3. n # 0 => g[n - 1] = f[n - 1]
          BY <5>1, <3>1
        <5> HIDE DEF g
        <5> QED BY <5>1, <5>2, <5>3, <3>4
      <4> QED BY <4>1, <4>2
    <3>6. g = [n \in 0..m |-> g[n]]
      OBVIOUS
    <3> HIDE DEF g
    <3>7. Upto(m)
      BY <3>5, <3>6 DEF Iterates
    <3> QED BY <3>7, <2>1
  <2> QED BY <2>2, <2>3
<1>2. Upto(N)
  <2>1. N \notin Bad
    BY <1>1
  <2>2. N \in 0..N
    OBVIOUS
  <2> HIDE DEF Upto
  <2> QED BY <2>1, <2>2
<1> QED BY <1>2

(* What leads from each of a row of sets to the next leads along the row.    *)
LEMMA IterationLeadsTo ==
  ASSUME NEW N \in Nat, NEW base, NEW G, NEW f, Iterates(f, base, N, G),
         NEW P, base \in P[0], \A n \in 1..N : \A t \in P[n - 1] : G[n][t] \in P[n]
  PROVE  \A n \in 0..N : f[n] \in P[n]
<1> DEFINE Bad == {n \in 0..N : f[n] \notin P[n]}
<1>1. f[0] = base /\ \A n \in 1..N : f[n] = G[n][f[n - 1]]
  BY IterationUnfolds
<1>2. ASSUME Bad # {} PROVE FALSE
  <2>0. Bad \in SUBSET Nat
    OBVIOUS
  <2>1. PICK m \in Bad : \A n \in Bad : m <= n
    <3> HIDE DEF Bad
    <3> QED BY <1>2, <2>0, LeastExists
  <2>2. m # 0
    BY <2>1, <1>1
  <2>3. m \in 1..N /\ m - 1 \in 0..N /\ ~(m <= m - 1)
    BY <2>1, <2>2
  <2>4. m - 1 \notin Bad
    <3> HIDE DEF Bad
    <3> QED BY <2>1, <2>3
  <2>5. f[m - 1] \in P[m - 1]
    BY <2>3, <2>4
  <2>6. f[m] \in P[m]
    BY <2>3, <2>5, <1>1
  <2> QED BY <2>6, <2>1
<1> QED BY <1>2

(* A loop takes each set of states to the next one.                          *)
LEMMA EachLeadsTo ==
  ASSUME NEW step, NEW K, NEW q \in Seq(K), NEW P, NEW s \in P[0],
         \A i \in 1..Len(q) : \A t \in P[i - 1] : step[q[i]][t] \in P[i]
  PROVE  Each(step, s, q) \in P[Len(q)]
<1> DEFINE N == Len(q)
           G == [n \in 1..N |-> step[q[n]]]
           Eqn(f) == f = [n \in 0..N |-> IF n = 0 THEN s ELSE step[q[n]][f[n - 1]]]
           after == CHOOSE f : Eqn(f)
<1>1. N \in Nat
  OBVIOUS
<1>2. \A n \in 1..N : G[n] = step[q[n]]
  OBVIOUS
<1>3. PICK f : Iterates(f, s, N, G)
  <2> HIDE DEF G, N
  <2> QED BY <1>1, IterationExists
<1>4. ASSUME NEW h PROVE Iterates(h, s, N, G) <=> Eqn(h)
  <2>1. \A n \in 0..N : n # 0 => n \in 1..N
    BY <1>1
  <2>2. \A n \in 0..N : (IF n = 0 THEN s ELSE G[n][h[n - 1]])
                        = (IF n = 0 THEN s ELSE step[q[n]][h[n - 1]])
    BY <1>2, <2>1
  <2> HIDE DEF G, N
  <2>3. [n \in 0..N |-> IF n = 0 THEN s ELSE G[n][h[n - 1]]]
        = [n \in 0..N |-> IF n = 0 THEN s ELSE step[q[n]][h[n - 1]]]
    BY <2>2
  <2> QED BY <2>3 DEF Iterates
<1> HIDE DEF G, N
<1>5. Eqn(after)
  <2>1. \E h : Eqn(h)
    BY <1>3, <1>4
  <2> QED BY <2>1
<1> HIDE DEF after
<1>6. Iterates(after, s, N, G)
  BY <1>4, <1>5
<1>7. \A n \in 1..N : \A t \in P[n - 1] : G[n][t] \in P[n]
  BY <1>2 DEF N
<1>8. N \in 0..N
  BY <1>1
<1>9. after[N] \in P[N]
  BY <1>1, <1>6, <1>7, <1>8, IterationLeadsTo
<1>10. Each(step, s, q) = after[N]
  BY DEF Each, after, N
<1> QED BY <1>9, <1>10 DEF N

(* The elements of a sequence that is appended to.                           *)
LEMMA AppendedSet ==
  ASSUME NEW R, NEW w \in Seq(R), NEW x \in R
  PROVE  ToSet(Append(w, x)) = ToSet(w) \cup {x}
<1>1. Append(w, x) \in Seq(R)
  OBVIOUS
<1>2. Len(Append(w, x)) = Len(w) + 1
  OBVIOUS
<1>3. \A j \in 1..Len(w) : Append(w, x)[j] = w[j]
  OBVIOUS
<1>4. Append(w, x)[Len(w) + 1] = x
  OBVIOUS
<1>5. 1..(Len(w) + 1) = 1..Len(w) \cup {Len(w) + 1}
  OBVIOUS
<1> DEFINE v == Append(w, x)
<1>6. DOMAIN v = 1..(Len(w) + 1) /\ DOMAIN w = 1..Len(w)
  BY <1>1, <1>2
<1> HIDE DEF v
<1>7. ToSet(v) = ToSet(w) \cup {x}
  BY <1>3, <1>4, <1>5, <1>6 DEF ToSet, v
<1> QED BY <1>7 DEF v

(* Only keeps the elements that are in the set, and no others.               *)
LEMMA OnlyKeeps ==
  ASSUME NEW E, NEW q \in Seq(E), NEW S
  PROVE  /\ Only(q, S) \in Seq(E)
         /\ ToSet(Only(q, S)) = ToSet(q) \cap S
<1> DEFINE R == ToSet(q)
           step == [x \in R |-> [w \in Seq(R) |-> IF x \in S THEN Append(w, x) ELSE w]]
           P == [n \in 0..Len(q) |-> {w \in Seq(R) : ToSet(w) = {q[j] : j \in 1..n} \cap S}]
<1>1. q \in Seq(R)
  BY DEF ToSet
<1>4. <<>> \in P[0]
  BY DEF ToSet
<1>5. ASSUME NEW i \in 1..Len(q), NEW w \in P[i - 1] PROVE step[q[i]][w] \in P[i]
  <2>1. i - 1 \in 0..Len(q) /\ i \in 0..Len(q) /\ q[i] \in R
    BY DEF ToSet
  <2>2. w \in Seq(R) /\ ToSet(w) = {q[j] : j \in 1..(i - 1)} \cap S
    BY <2>1
  <2>3. {q[j] : j \in 1..i} = {q[j] : j \in 1..(i - 1)} \cup {q[i]}
    BY <2>1
  <2>4. CASE q[i] \in S
    <3>1. ToSet(Append(w, q[i])) = ToSet(w) \cup {q[i]}
      <4> HIDE DEF R
      <4> QED BY <2>1, <2>2, AppendedSet
    <3>2. step[q[i]][w] = Append(w, q[i]) /\ Append(w, q[i]) \in Seq(R)
      BY <2>1, <2>2, <2>4
    <3> QED BY <3>1, <3>2, <2>1, <2>2, <2>3, <2>4
  <2>5. CASE q[i] \notin S
    <3>1. step[q[i]][w] = w
      BY <2>1, <2>2, <2>5
    <3> QED BY <3>1, <2>1, <2>2, <2>3, <2>5
  <2> QED BY <2>4, <2>5
<1> DEFINE r == Each(step, <<>>, q)
<1>6. r \in P[Len(q)]
  <2> HIDE DEF step, P
  <2> QED BY <1>1, <1>4, <1>5, EachLeadsTo
<1>7. r \in Seq(R) /\ ToSet(r) = R \cap S
  <2>1. Len(q) \in 0..Len(q) /\ {q[j] : j \in 1..Len(q)} = R
    BY DEF ToSet
  <2> HIDE DEF r, R
  <2> QED BY <1>6, <2>1
<1>8. Only(q, S) = r
  BY DEF Only
<1>9. R \subseteq E
  BY DEF ToSet
<1> HIDE DEF r, R
<1>10. r \in Seq(E)
  BY <1>7, <1>9
<1> QED BY <1>7, <1>8, <1>10 DEF R

-----------------------------------------------------------------------------
(* Sums.                                                                     *)

Pick(w) == CHOOSE x \in w : TRUE
Total(f) == FoldFunction(+, 0, f)

(* The equation of a sum over the subsets of S.                              *)
SumsUp(h, f, S) ==
  h = [w \in SUBSET S |-> IF w = {} THEN 0 ELSE f[Pick(w)] + h[w \ {Pick(w)}]]

(* The element picked from a set is in it.                                   *)
LEMMA PickIn == ASSUME NEW w, w # {} PROVE Pick(w) \in w
BY DEF Pick

(* Without the element picked, a finite set is smaller by one.               *)
LEMMA SmallerWithoutPick ==
  ASSUME NEW S, IsFiniteSet(S), NEW w \in SUBSET S, w # {}
  PROVE  /\ Pick(w) \in S /\ w \ {Pick(w)} \in SUBSET S
         /\ Cardinality(w) \in 1..Cardinality(S)
         /\ Cardinality(w \ {Pick(w)}) = Cardinality(w) - 1
<1>1. Pick(w) \in w
  BY PickIn
<1>2. IsFiniteSet(w) /\ Cardinality(w) <= Cardinality(S)
  BY FS_Subset
<1>3. Cardinality(w) \in Nat /\ Cardinality(S) \in Nat
  BY <1>2, FS_CardinalityType
<1>4. Cardinality(w) # 0
  BY <1>1, <1>2, FS_EmptySet
<1>5. Cardinality(w \ {Pick(w)}) = Cardinality(w) - 1
  BY <1>1, <1>2, FS_RemoveElement
<1> QED BY <1>1, <1>2, <1>3, <1>4, <1>5

(* There is a sum over every subset of a finite set.                         *)
LEMMA SumExists ==
  ASSUME NEW S, IsFiniteSet(S), NEW f \in [S -> Nat]
  PROVE  \E h \in [SUBSET S -> Nat] : SumsUp(h, f, S)
<1> DEFINE N == Cardinality(S)
           X == [SUBSET S -> Nat]
           Step(h) == [w \in SUBSET S |-> IF w = {} THEN 0 ELSE f[Pick(w)] + h[w \ {Pick(w)}]]
           M == N + 1
           G == [n \in 1..M |-> [h \in X |-> Step(h)]]
           zero == [w \in SUBSET S |-> 0]
<1>1. N \in Nat /\ M \in Nat
  BY FS_CardinalityType
<1>2. ASSUME NEW h \in X PROVE Step(h) \in X
  <2>1. ASSUME NEW w \in SUBSET S, w # {} PROVE f[Pick(w)] + h[w \ {Pick(w)}] \in Nat
    <3>1. Pick(w) \in S /\ w \ {Pick(w)} \in SUBSET S
      BY <2>1, SmallerWithoutPick
    <3> QED BY <3>1
  <2> QED BY <2>1
<1>3. zero \in X
  OBVIOUS
<1>4. PICK F : Iterates(F, zero, M, G)
  <2> HIDE DEF G, M, zero
  <2> QED BY <1>1, IterationExists
<1>41. F[0] = zero /\ \A n \in 1..M : F[n] = G[n][F[n - 1]]
  <2> HIDE DEF G, M, zero
  <2> QED BY <1>1, <1>4, IterationUnfolds
<1>5. \A n \in 0..M : F[n] \in X
  <2> DEFINE P == [n \in 0..M |-> X]
  <2>1. zero \in P[0]
    BY <1>3, <1>1
  <2>2. ASSUME NEW n \in 1..M, NEW t \in P[n - 1] PROVE G[n][t] \in P[n]
    <3>1. n - 1 \in 0..M /\ n \in 0..M
      BY <1>1
    <3>2. P[n - 1] = X /\ P[n] = X
      BY <3>1
    <3>3. t \in X
      BY <3>2
    <3> HIDE DEF X, Step, P
    <3>4. G[n][t] = Step(t)
      BY <3>3
    <3> QED BY <3>2, <3>3, <3>4, <1>2
  <2>3. \A n \in 0..M : F[n] \in P[n]
    <3> HIDE DEF P, G, M, zero
    <3> QED BY <1>1, <1>4, <2>1, <2>2, IterationLeadsTo
  <2> HIDE DEF X
  <2> QED BY <2>3
<1>6. \A n \in 1..M : n - 1 \in 0..M /\ F[n - 1] \in X /\ F[n] = Step(F[n - 1])
  <2> TAKE n \in 1..M
  <2>1. n - 1 \in 0..M
    BY <1>1
  <2>2. F[n - 1] \in X
    BY <2>1, <1>5
  <2> HIDE DEF X, Step
  <2>3. F[n] = G[n][F[n - 1]]
    BY <1>41
  <2> QED BY <2>1, <2>2, <2>3
<1> DEFINE Bad == {n \in 0..N : \E w \in SUBSET S : Cardinality(w) <= n /\ F[n + 1][w] # F[n][w]}
<1>7. ASSUME Bad # {} PROVE FALSE
  <2>0. Bad \in SUBSET Nat
    BY <1>1
  <2>1. PICK n \in Bad : \A m \in Bad : n <= m
    <3> HIDE DEF Bad
    <3> QED BY <1>7, <2>0, LeastExists
  <2>2. PICK w \in SUBSET S : Cardinality(w) <= n /\ F[n + 1][w] # F[n][w]
    BY <2>1
  <2>3. n \in 0..N /\ n + 1 \in 1..M /\ (n + 1) - 1 = n
    BY <2>1, <1>1
  <2>4. F[n + 1] = Step(F[n])
    BY <2>3, <1>6
  <2>5. CASE w = {}
    <3>1. F[n + 1][w] = 0
      BY <2>4, <2>5
    <3>2. CASE n = 0
      <4>1. F[n] = zero
        BY <3>2, <1>41
      <4> QED BY <4>1, <3>1, <2>2
    <3>3. CASE n # 0
      <4>1. n \in 1..M
        BY <3>3, <2>3, <1>1
      <4>2. F[n][w] = 0
        BY <4>1, <1>6, <2>5
      <4> QED BY <4>2, <3>1, <2>2
    <3> QED BY <3>2, <3>3
  <2>6. CASE w # {}
    <3> DEFINE v == w \ {Pick(w)}
    <3>1. v \in SUBSET S /\ Cardinality(w) \in 1..N /\ Cardinality(v) = Cardinality(w) - 1
      BY <2>6, SmallerWithoutPick
    <3>2. n \in 1..M /\ n - 1 \in 0..N /\ Cardinality(v) <= n - 1 /\ (n - 1) + 1 = n
      BY <3>1, <2>2, <2>3, <1>1
    <3>3. n - 1 \notin Bad
      <4>1. ~(n <= n - 1)
        BY <3>2
      <4> HIDE DEF Bad
      <4> QED BY <4>1, <2>1
    <3>4. F[n][v] = F[n - 1][v]
      BY <3>1, <3>2, <3>3
    <3>5. F[n] = Step(F[n - 1])
      BY <3>2, <1>6
    <3>6. F[n + 1][w] = f[Pick(w)] + F[n][v]
      BY <2>4, <2>6
    <3>7. F[n][w] = f[Pick(w)] + F[n - 1][v]
      BY <3>5, <2>6
    <3> QED BY <3>4, <3>6, <3>7, <2>2
  <2> QED BY <2>5, <2>6
<1>8. \A w \in SUBSET S : F[M][w] = F[N][w]
  <2> TAKE w \in SUBSET S
  <2>1. Cardinality(w) <= N
    BY FS_Subset
  <2>2. N \notin Bad /\ N \in 0..N
    BY <1>1, <1>7
  <2> QED BY <2>1, <2>2
<1>9. M \in 1..M /\ N \in 0..M /\ M \in 0..M /\ M - 1 = N
  BY <1>1
<1>10. F[N] \in X /\ F[M] \in X /\ F[M] = Step(F[N])
  BY <1>9, <1>6, <1>5
<1>11. F[M] = F[N]
  BY <1>8, <1>10
<1>12. F[N] = Step(F[N])
  BY <1>10, <1>11
<1> QED BY <1>10, <1>12 DEF SumsUp

(* FoldFunction adds up the values of a function.                            *)
LEMMA TotalIsSum ==
  ASSUME NEW S, IsFiniteSet(S), NEW f \in [S -> Nat]
  PROVE  \E h : SumsUp(h, f, S) /\ Total(f) = h[S]
<1> DEFINE Eqn(h) == h = [w \in SUBSET S |-> IF w = {} THEN 0 ELSE f[Pick(w)] + h[w \ {Pick(w)}]]
           sum == CHOOSE h : Eqn(h)
<1>1. \E h : Eqn(h)
  <2>1. PICK h \in [SUBSET S -> Nat] : SumsUp(h, f, S)
    BY SumExists
  <2>2. Eqn(h)
    BY <2>1 DEF SumsUp
  <2> HIDE DEF Eqn
  <2> QED BY <2>2
<1>2. Eqn(sum)
  BY <1>1
<1>3. Total(f) = sum[S]
  BY DEF Total, FoldFunction, FoldFunctionOnSet, MapThenFoldSet, Pick
<1>4. SumsUp(sum, f, S)
  <2> DEFINE h == sum
  <2>1. Eqn(h)
    BY <1>2
  <2> HIDE DEF h
  <2>2. SumsUp(h, f, S)
    BY <2>1 DEF SumsUp
  <2> QED BY <2>2 DEF h
<1> QED BY <1>3, <1>4

(* Two functions that differ at one key differ there in their sums, and      *)
(* nowhere else.                                                             *)
LEMMA TotalChanges ==
  ASSUME NEW S, IsFiniteSet(S), NEW f \in [S -> Nat], NEW g \in [S -> Nat], NEW k \in S,
         \A j \in S : j # k => f[j] = g[j]
  PROVE  Total(f) \in Nat /\ Total(g) \in Nat /\ Total(g) + f[k] = Total(f) + g[k]
<1>1. PICK F : SumsUp(F, f, S) /\ Total(f) = F[S]
  BY TotalIsSum
<1>2. PICK H : SumsUp(H, g, S) /\ Total(g) = H[S]
  BY TotalIsSum
<1> DEFINE N == Cardinality(S)
           Right(w) == /\ F[w] \in Nat /\ H[w] \in Nat
                       /\ k \notin w => F[w] = H[w]
                       /\ k \in w => H[w] + f[k] = F[w] + g[k]
           Bad == {n \in 0..N : \E w \in SUBSET S : Cardinality(w) = n /\ ~Right(w)}
<1>3. N \in Nat
  BY FS_CardinalityType
<1>4. ASSUME Bad # {} PROVE FALSE
  <2>0. Bad \in SUBSET Nat
    BY <1>3
  <2>1. PICK n \in Bad : \A m \in Bad : n <= m
    <3> HIDE DEF Bad
    <3> QED BY <1>4, <2>0, LeastExists
  <2>2. PICK w \in SUBSET S : Cardinality(w) = n /\ ~Right(w)
    BY <2>1
  <2>3. CASE w = {}
    <3>1. F[w] = 0 /\ H[w] = 0
      BY <1>1, <1>2, <2>3 DEF SumsUp
    <3> QED BY <3>1, <2>2, <2>3
  <2>4. CASE w # {}
    <3> DEFINE x == Pick(w)
               v == w \ {x}
    <3>1. x \in S /\ v \in SUBSET S /\ n \in 1..N /\ Cardinality(v) = n - 1 /\ x \in w
      BY <2>2, <2>4, SmallerWithoutPick, PickIn
    <3>2. F[w] = f[x] + F[v] /\ H[w] = g[x] + H[v]
      BY <1>1, <1>2, <2>4 DEF SumsUp
    <3>3. n - 1 \notin Bad /\ n - 1 \in 0..N
      <4>1. ~(n <= n - 1) /\ n - 1 \in 0..N
        BY <3>1, <1>3
      <4> HIDE DEF Bad
      <4> QED BY <4>1, <2>1
    <3>4. Right(v)
      <4> HIDE DEF v, Right
      <4> QED BY <3>1, <3>3
    <3>5. f[x] \in Nat /\ g[x] \in Nat /\ f[k] \in Nat /\ g[k] \in Nat
      BY <3>1
    <3>6. x # k => f[x] = g[x]
      BY <3>1
    <3>7. (k \in v <=> k \in w /\ k # x)
      OBVIOUS
    <3> HIDE DEF v, x
    <3>8. Right(w)
      BY <3>1, <3>2, <3>4, <3>5, <3>6, <3>7
    <3> QED BY <3>8, <2>2
  <2> QED BY <2>3, <2>4
<1>5. Right(S)
  <2>1. N \notin Bad /\ N \in 0..N
    BY <1>3, <1>4
  <2> HIDE DEF Right
  <2> QED BY <2>1
<1> QED BY <1>1, <1>2, <1>5

(* The smallest of some integers is one of them.                             *)
LEMMA MinIn ==
  ASSUME NEW T \in SUBSET Nat, T # {}
  PROVE  Min(T) \in T /\ \A n \in T : Min(T) <= n
<1>1. \E m \in T : \A n \in T : m <= n
  BY LeastExists
<1> QED BY <1>1 DEF Min

-----------------------------------------------------------------------------
(* The invariant, and what a method must keep of it.                         *)

Lease(s) == {s.rotationCurrent} \cup ToSet(s.rotationQueue)

DemandTrue(s) == s.demand = Cardinality({k \in Keys : Has(s, k)})
HandlesTrue(s) == s.handles = Total([k \in Keys |-> s.entry[k].refs])
Listed(s) == \A k \in Keys : k \in ToSet(s.order) <=> Has(s, k)
DestroyedEmpty(s) == s.destroyed => \A k \in Keys : ~Has(s, k)

Blank(e) ==
  /\ ~e.subscribed /\ e.refs = 0 /\ e.queuedAction = "none"
  /\ e.retarget = None /\ e.waitingTarget = None /\ ~e.rotationIncoming
EntriesSound(s) ==
  \A k \in Keys : LET e == s.entry[k] IN
    /\ ~e.present => Blank(e)
    /\ e.subscribed => e.state \in OnWire
    /\ e.retarget # None => <<k, e.retarget>> \in Successions
    /\ e.removing => e.refs = 0

(* A job is on a key, and while it is alive on the entry of that key.        *)
Points(s, job) ==
  /\ job.alive => job.key \in Keys /\ job.action # "none" /\ Has(s, job.key)
  /\ job.key \in Keys <=> job.action # "none"
JobsSound(s) ==
  /\ Points(s, s.currentJob) /\ Points(s, s.sendTimer) /\ Points(s, s.sending)
  /\ \A job \in ToSet(s.queue) : Has(s, job.key)
DeadUnsubscribed(s) ==
  \A k \in Keys : s.currentJob.key = k /\ ~s.currentJob.alive => ~s.entry[k].subscribed
AcceptedIsRegistered(s) ==
  s.answer = "accepted" /\ s.currentJob.action = "subscribe" => s.currentJob.key \in s.registered
MarksNamePartner(s) ==
  \A pair \in Lease(s) :
    pair.outgoing \in Keys => s.entry[pair.outgoing].rotationOutgoing \in {None, pair.incoming}

Good(s) ==
  /\ DemandTrue(s) /\ HandlesTrue(s) /\ Listed(s) /\ DestroyedEmpty(s) /\ EntriesSound(s)
  /\ JobsSound(s) /\ DeadUnsubscribed(s) /\ AcceptedIsRegistered(s) /\ MarksNamePartner(s)

Unregistered(s, k) ==
  /\ s.entry[k].subscribed /\ k \notin s.registered
  /\ ~(s.currentJob.key = k /\ s.currentJob.action = "unsubscribe")
Jobless(s, k) ==
  /\ s.entry[k].queuedAction # "none"
  /\ [key |-> k, action |-> s.entry[k].queuedAction] \notin ToSet(s.queue)
WaitsFor(s, k, target) ==
  Has(s, target) /\ s.entry[target].removing /\ s.entry[k].retarget = target
Stranded(s, k) ==
  s.entry[k].waitingTarget # None /\ ~WaitsFor(s, k, s.entry[k].waitingTarget)
Orphaned(s, k) == s.entry[k].rotationIncoming /\ ~\E pair \in Lease(s) : pair.incoming = k

(* k waits to become n, which is not there; and k has become n for good.     *)
Pending(s, k, n) == Held(s, k) /\ s.entry[k].retarget = n /\ ~Has(s, n)
Over(s, k, n) == ~Has(s, k) /\ (Has(s, n) => s.entry[n].retarget = None)
Progress(s, r) ==
  \A k, n \in Keys : <<k, n>> \in Successions =>
    /\ Pending(s, k, n) => Pending(r, k, n) \/ Over(r, k, n)
    /\ Over(s, k, n) => Over(r, k, n)

NoneStranded(s, r) ==
  \A k \in Keys : Stranded(r, k) =>
    Stranded(s, k) /\ r.entry[k].waitingTarget = s.entry[k].waitingTarget
NoneOrphaned(s, r) == \A k \in Keys : Orphaned(r, k) => Orphaned(s, k)
NoneUnregistered(s, r) == \A k \in Keys : Unregistered(r, k) => Unregistered(s, k)
(* Once the turn is over, no job is inside sendJob.                          *)
Unsent(s, r) == s.sending = NoJob => r.sending = NoJob
NoneJobless(s, r) ==
  Unsent(s, r) /\ \A k \in Keys : Jobless(r, k) => Jobless(s, k)

Guards(s, r) ==
  /\ r \in Supervisors /\ Good(r) /\ NoneStranded(s, r) /\ NoneOrphaned(s, r) /\ Progress(s, r)
  /\ Unsent(s, r)
Keeps(s, r) == Guards(s, r) /\ NoneUnregistered(s, r) /\ NoneJobless(s, r)

Turning(turn) ==
  \A s \in Supervisors : Good(s) =>
    /\ Keeps(s, PumpAgain(turn, s)) /\ Keeps(s, AdvanceRotation(turn, s))
    /\ \A k \in Keys :
         /\ (Has(s, k) => s.entry[k].refs = 0) => Keeps(s, DeleteEntry(turn, s, k))
         /\ Keeps(s, CompleteRetarget(turn, s, k))

(* Frames.                                                                   *)
SameHolders(s, r) ==
  /\ r.demand = s.demand /\ r.handles = s.handles /\ r.order = s.order
  /\ r.destroyed = s.destroyed
  /\ \A k \in Keys :
       /\ r.entry[k].present = s.entry[k].present /\ r.entry[k].refs = s.entry[k].refs
       /\ r.entry[k].removing = s.entry[k].removing
       /\ r.entry[k].retarget = s.entry[k].retarget
       /\ r.entry[k].waitingTarget = s.entry[k].waitingTarget
SameQueue(s, r) ==
  r.queue = s.queue /\ \A k \in Keys : r.entry[k].queuedAction = s.entry[k].queuedAction
SameJobs(s, r) ==
  r.currentJob = s.currentJob /\ r.sendTimer = s.sendTimer /\ r.sending = s.sending
SameSocket(s, r) ==
  /\ r.registered = s.registered /\ r.answer = s.answer
  /\ \A k \in Keys : r.entry[k].subscribed = s.entry[k].subscribed
SameStates(s, r) == \A k \in Keys : r.entry[k].state = s.entry[k].state
SameRotation(s, r) ==
  /\ r.rotationCurrent = s.rotationCurrent /\ r.rotationQueue = s.rotationQueue
  /\ \A k \in Keys : /\ r.entry[k].rotationOutgoing = s.entry[k].rotationOutgoing
                     /\ r.entry[k].rotationIncoming = s.entry[k].rotationIncoming

(* Nothing is kept less by doing nothing.                                    *)
LEMMA KeepsReflexive ==
  ASSUME NEW s \in Supervisors, Good(s) PROVE Keeps(s, s)
BY DEF Keeps, Guards, NoneStranded, NoneOrphaned, NoneUnregistered, NoneJobless, Unsent, Progress

(* What two steps make of a retarget, taken together.                        *)
LEMMA ProgressTransitive ==
  ASSUME NEW s, NEW t, NEW u, Progress(s, t), Progress(t, u) PROVE Progress(s, u)
BY DEF Progress

(* Two steps that guard the state guard it together.                         *)
LEMMA GuardsTransitive ==
  ASSUME NEW s, NEW t, NEW u, Guards(s, t), Guards(t, u) PROVE Guards(s, u)
BY ProgressTransitive DEF Guards, NoneStranded, NoneOrphaned, Unsent

(* Two steps that keep the state in order keep it so together.               *)
LEMMA KeepsTransitive ==
  ASSUME NEW s, NEW t, NEW u, Keeps(s, t), Keeps(t, u) PROVE Keeps(s, u)
BY GuardsTransitive DEF Keeps, NoneUnregistered, NoneJobless, Unsent

(* Who holds what is the same: counts, order and waits stay right.           *)
LEMMA HoldersKept ==
  ASSUME NEW s \in Supervisors, NEW r \in Supervisors, Good(s), SameHolders(s, r)
  PROVE  /\ DemandTrue(r) /\ HandlesTrue(r) /\ Listed(r) /\ DestroyedEmpty(r)
         /\ NoneStranded(s, r) /\ Progress(s, r)
<1>1. \A k \in Keys : Has(r, k) = Has(s, k)
  BY DEF SameHolders, Has
<1>2. DemandTrue(r)
  <2>1. {k \in Keys : Has(r, k)} = {k \in Keys : Has(s, k)}
    BY <1>1
  <2> QED BY <2>1 DEF DemandTrue, Good, SameHolders
<1>3. HandlesTrue(r)
  <2>1. [k \in Keys |-> r.entry[k].refs] = [k \in Keys |-> s.entry[k].refs]
    BY DEF SameHolders
  <2> QED BY <2>1 DEF HandlesTrue, Good, SameHolders
<1>4. Listed(r) /\ DestroyedEmpty(r)
  BY <1>1 DEF Listed, DestroyedEmpty, Good, SameHolders
<1>5. NoneStranded(s, r)
  <2> SUFFICES ASSUME NEW k \in Keys, Stranded(r, k)
               PROVE  Stranded(s, k) /\ r.entry[k].waitingTarget = s.entry[k].waitingTarget
    BY DEF NoneStranded
  <2> DEFINE target == s.entry[k].waitingTarget
  <2>1. r.entry[k].waitingTarget = target /\ target # None
    BY DEF SameHolders, Stranded
  <2>2. target \in Keys
    BY <2>1 DEF Supervisors, Entries
  <2> QED BY <2>1, <2>2, <1>1 DEF SameHolders, Stranded, WaitsFor
<1>6. Progress(s, r)
  BY <1>1 DEF SameHolders, Progress, Pending, Over, Held, Has
<1> QED BY <1>2, <1>3, <1>4, <1>5, <1>6

(* What is in the queue are jobs.                                            *)
LEMMA QueueTyped ==
  ASSUME NEW s \in Supervisors PROVE ToSet(s.queue) \subseteq QueuedJobs
BY DEF Supervisors, ToSet

(* With the same queue and jobs, no job points at nothing.                   *)
LEMMA JobsKept ==
  ASSUME NEW s \in Supervisors, NEW r \in Supervisors, Good(s), SameHolders(s, r),
         SameQueue(s, r), SameJobs(s, r)
  PROVE  JobsSound(r) /\ NoneJobless(s, r)
<1>1. \A k \in Keys : Has(r, k) = Has(s, k)
  BY DEF SameHolders, Has
<1>2. \A job \in ToSet(s.queue) : job.key \in Keys
  BY QueueTyped DEF QueuedJobs
<1>3. JobsSound(s)
  BY DEF Good
<1>4. JobsSound(r)
  BY <1>1, <1>2, <1>3 DEF SameQueue, SameJobs, JobsSound, Points
<1>5. NoneJobless(s, r)
  BY DEF SameQueue, SameJobs, NoneJobless, Unsent, Jobless
<1> QED BY <1>4, <1>5

(* With the same socket, what is subscribed is as registered as before.      *)
LEMMA SocketKept ==
  ASSUME NEW s \in Supervisors, NEW r \in Supervisors, Good(s),
         SameSocket(s, r), SameJobs(s, r)
  PROVE  DeadUnsubscribed(r) /\ AcceptedIsRegistered(r) /\ NoneUnregistered(s, r)
BY DEF SameSocket, SameJobs, DeadUnsubscribed, AcceptedIsRegistered, NoneUnregistered,
       Unregistered, Good

(* With the same lease and marks, the marks are as good as before.           *)
LEMMA RotationKept ==
  ASSUME NEW s \in Supervisors, NEW r \in Supervisors, Good(s), SameRotation(s, r)
  PROVE  MarksNamePartner(r) /\ NoneOrphaned(s, r)
BY DEF SameRotation, MarksNamePartner, NoneOrphaned, Orphaned, Lease, Good

(* The parts of Keeps.                                                       *)
LEMMA AllKept ==
  ASSUME NEW s, NEW r \in Supervisors,
         DemandTrue(r) /\ HandlesTrue(r) /\ Listed(r) /\ DestroyedEmpty(r),
         NoneStranded(s, r) /\ Progress(s, r), EntriesSound(r),
         JobsSound(r) /\ NoneJobless(s, r),
         DeadUnsubscribed(r) /\ AcceptedIsRegistered(r) /\ NoneUnregistered(s, r),
         MarksNamePartner(r) /\ NoneOrphaned(s, r)
  PROVE  Keeps(s, r)
BY DEF Keeps, Guards, Good, NoneJobless

(* What the map has of a key is an entry.                                    *)
LEMMA EntryTyped == ASSUME NEW s \in Supervisors, NEW k \in Keys PROVE s.entry[k] \in Entries
BY DEF Supervisors

(* An entry with one field replaced is an entry.                             *)
LEMMA EntryUpdates ==
  ASSUME NEW e \in Entries
  PROVE  /\ \A x \in Actions : [e EXCEPT !.queuedAction = x] \in Entries
         /\ \A x \in States : [e EXCEPT !.state = x] \in Entries
         /\ \A x \in BOOLEAN : [e EXCEPT !.subscribed = x] \in Entries
         /\ \A x \in BOOLEAN : [e EXCEPT !.removing = x] \in Entries
         /\ \A x \in BOOLEAN : [e EXCEPT !.rotationIncoming = x] \in Entries
         /\ \A x \in Nat : [e EXCEPT !.refs = x] \in Entries
         /\ \A x \in Keys \cup {None} : [e EXCEPT !.retarget = x] \in Entries
         /\ \A x \in Keys \cup {None} : [e EXCEPT !.waitingTarget = x] \in Entries
         /\ \A x \in Refs : [e EXCEPT !.rotationOutgoing = x] \in Entries
BY DEF Entries

(* The constants of the types are in them.                                   *)
LEMMA ConstantsTyped ==
  /\ "none" \in Actions /\ "subscribe" \in Actions /\ "unsubscribe" \in Actions
  /\ "desired" \in States /\ "pending" \in States /\ "live" \in States /\ "stale" \in States
  /\ "parked" \in States /\ "rejected" \in States
  /\ None \in Keys \cup {None} /\ None \in Refs /\ Gone \in Refs /\ Keys \subseteq Refs
  /\ NoJob \in Jobs /\ NoPair \in Pairs
BY DEF Actions, States, Refs, NoJob, Jobs, NoPair, Pairs

-----------------------------------------------------------------------------
(* The control queue.                                                        *)

(* What is left of a sequence whose head is taken.                           *)
LEMMA SubSeqSet ==
  ASSUME NEW R, NEW q \in Seq(R), NEW n \in 0..Len(q)
  PROVE  /\ SubSeq(q, n + 1, Len(q)) \in Seq(R)
         /\ ToSet(SubSeq(q, n + 1, Len(q))) \subseteq ToSet(q)
         /\ \A x \in ToSet(q) : x \in ToSet(SubSeq(q, n + 1, Len(q))) \/ \E i \in 1..n : q[i] = x
<1> DEFINE r == SubSeq(q, n + 1, Len(q))
<1>1. r \in Seq(R) /\ Len(r) = Len(q) - n
  OBVIOUS
<1>2. \A i \in 1..(Len(q) - n) : r[i] = q[i + n]
  OBVIOUS
<1>3. DOMAIN r = 1..(Len(q) - n) /\ DOMAIN q = 1..Len(q)
  BY <1>1
<1> HIDE DEF r
<1>4. ASSUME NEW x \in ToSet(r) PROVE x \in ToSet(q)
  <2>1. PICK i \in 1..(Len(q) - n) : r[i] = x
    BY <1>3 DEF ToSet
  <2>2. i + n \in 1..Len(q) /\ q[i + n] = x
    BY <2>1, <1>2
  <2> QED BY <2>2, <1>3 DEF ToSet
<1>5. ASSUME NEW x \in ToSet(q), ~\E i \in 1..n : q[i] = x PROVE x \in ToSet(r)
  <2>1. PICK i \in 1..Len(q) : q[i] = x
    BY <1>3 DEF ToSet
  <2>2. i \notin 1..n
    BY <2>1, <1>5
  <2>3. i - n \in 1..(Len(q) - n) /\ (i - n) + n = i
    BY <2>2
  <2>4. r[i - n] = x
    BY <2>1, <2>3, <1>2
  <2> QED BY <2>3, <2>4, <1>3 DEF ToSet
<1> QED BY <1>1, <1>4, <1>5 DEF r

(* The elements of a sequence that is prepended to.                          *)
LEMMA PrependedSet ==
  ASSUME NEW R, NEW w \in Seq(R), NEW x \in R
  PROVE  <<x>> \o w \in Seq(R) /\ ToSet(<<x>> \o w) = ToSet(w) \cup {x}
<1> DEFINE v == <<x>> \o w
<1>1. v \in Seq(R) /\ Len(v) = Len(w) + 1
  OBVIOUS
<1>2. v[1] = x /\ \A i \in 1..Len(w) : v[i + 1] = w[i]
  OBVIOUS
<1>3. DOMAIN v = 1..(Len(w) + 1) /\ DOMAIN w = 1..Len(w)
  BY <1>1
<1> HIDE DEF v
<1>4. ASSUME NEW y \in ToSet(v), y # x PROVE y \in ToSet(w)
  <2>1. PICK i \in 1..(Len(w) + 1) : v[i] = y
    BY <1>3 DEF ToSet
  <2>2. i # 1
    BY <2>1, <1>2, <1>4
  <2>3. i - 1 \in 1..Len(w) /\ (i - 1) + 1 = i
    BY <2>2
  <2>4. w[i - 1] = y
    BY <2>1, <2>3, <1>2
  <2> QED BY <2>3, <2>4, <1>3 DEF ToSet
<1>5. ASSUME NEW y \in ToSet(w) PROVE y \in ToSet(v)
  <2>1. PICK i \in 1..Len(w) : w[i] = y
    BY <1>3 DEF ToSet
  <2>2. i + 1 \in 1..(Len(w) + 1) /\ v[i + 1] = y
    BY <2>1, <1>2
  <2> QED BY <2>2, <1>3 DEF ToSet
<1>6. x \in ToSet(v)
  <2>1. 1 \in 1..(Len(w) + 1)
    OBVIOUS
  <2> QED BY <2>1, <1>2, <1>3 DEF ToSet
<1> QED BY <1>1, <1>4, <1>5, <1>6 DEF v

(* When holders and jobs are the same.                                       *)
LEMMA SameHas ==
  ASSUME NEW s \in Supervisors, NEW r \in Supervisors, SameHolders(s, r)
  PROVE  \A k \in Keys : Has(r, k) = Has(s, k)
BY DEF SameHolders, Has

(* Jobs stay sound if new ones in the queue are of entries that are there.   *)
LEMMA JobsSoundIf ==
  ASSUME NEW s \in Supervisors, NEW r \in Supervisors, Good(s), SameHolders(s, r),
         SameJobs(s, r),
         \A job \in ToSet(r.queue) : job \in ToSet(s.queue) \/ Has(s, job.key)
  PROVE  JobsSound(r)
<1>1. \A k \in Keys : Has(r, k) = Has(s, k)
  BY SameHas
<1>2. \A job \in ToSet(r.queue) : job.key \in Keys
  BY QueueTyped DEF QueuedJobs
<1>3. JobsSound(s)
  BY DEF Good
<1> QED BY <1>1, <1>2, <1>3 DEF SameJobs, JobsSound, Points

(* Entries stay sound if absent ones stay blank.                             *)
LEMMA EntriesSoundIf ==
  ASSUME NEW s \in Supervisors, NEW r \in Supervisors, Good(s), SameHolders(s, r),
         \A k \in Keys : ~Has(s, k) =>
            ~r.entry[k].subscribed /\ r.entry[k].queuedAction = "none" /\ ~r.entry[k].rotationIncoming,
         \A k \in Keys : r.entry[k].subscribed => r.entry[k].state \in OnWire
  PROVE  EntriesSound(r)
<1>1. EntriesSound(s)
  BY DEF Good
<1> QED BY <1>1 DEF EntriesSound, Blank, SameHolders, Has

(* An entry that is not in the map has nothing.                              *)
LEMMA BlankWhenAbsent ==
  ASSUME NEW s \in Supervisors, Good(s), NEW k \in Keys, ~Has(s, k)
  PROVE  Blank(s.entry[k])
BY DEF Good, EntriesSound, Has

(* What is subscribed is in a state the server has heard of.                 *)
LEMMA SubscribedOnWire ==
  ASSUME NEW s \in Supervisors, Good(s), NEW k \in Keys, s.entry[k].subscribed
  PROVE  s.entry[k].state \in OnWire
BY DEF Good, EntriesSound

(* Fields no invariant speaks of may change.                                 *)
LEMMA OthersKeep ==
  ASSUME NEW s \in Supervisors, NEW r \in Supervisors, Good(s), SameHolders(s, r),
         SameQueue(s, r), SameJobs(s, r), SameSocket(s, r), SameStates(s, r), SameRotation(s, r)
  PROVE  Keeps(s, r)
<1>1. EntriesSound(r)
  <2>1. \A k \in Keys : ~Has(s, k) => Blank(s.entry[k])
    BY BlankWhenAbsent
  <2>2. \A k \in Keys : s.entry[k].subscribed => s.entry[k].state \in OnWire
    BY SubscribedOnWire
  <2> QED BY <2>1, <2>2, EntriesSoundIf DEF Blank, SameQueue, SameSocket, SameStates, SameRotation
<1> QED BY <1>1, HoldersKept, JobsKept, SocketKept, RotationKept, AllKept

-----------------------------------------------------------------------------
(* The control queue.                                                        *)

(* A job of an entry that is there is put in the queue, at either end.       *)
LEMMA QueuedKeeps ==
  ASSUME NEW s \in Supervisors, NEW r \in Supervisors, Good(s), NEW k \in Keys, Has(s, k),
         NEW a \in Actions, a # "none",
         SameHolders(s, r), SameJobs(s, r), SameSocket(s, r), SameStates(s, r), SameRotation(s, r),
         ToSet(r.queue) = ToSet(s.queue) \cup {[key |-> k, action |-> a]},
         \A j \in Keys : \/ r.entry[j].queuedAction = s.entry[j].queuedAction
                         \/ j = k /\ r.entry[j].queuedAction = a
  PROVE  Keeps(s, r)
<1>1. EntriesSound(r)
  <2>1. \A j \in Keys : ~Has(s, j) => Blank(s.entry[j])
    BY BlankWhenAbsent
  <2>2. \A j \in Keys : s.entry[j].subscribed => s.entry[j].state \in OnWire
    BY SubscribedOnWire
  <2> QED BY <2>1, <2>2, EntriesSoundIf DEF Blank, SameSocket, SameStates, SameRotation
<1>2. JobsSound(r)
  BY JobsSoundIf
<1>3. NoneJobless(s, r)
  BY DEF SameJobs, NoneJobless, Unsent, Jobless
<1> QED BY <1>1, <1>2, <1>3, HoldersKept, SocketKept, RotationKept, AllKept

(* A job is queued and its entry told so.                                    *)
LEMMA AppendJobKeeps ==
  ASSUME NEW s \in Supervisors, Good(s), NEW k \in Keys, Has(s, k),
         NEW a \in Actions, a # "none"
  PROVE  Keeps(s, [s EXCEPT !.entry[k].queuedAction = a,
                            !.queue = Append(@, [key |-> k, action |-> a])])
<1> DEFINE job == [key |-> k, action |-> a]
           r == [s EXCEPT !.entry[k].queuedAction = a, !.queue = Append(@, job)]
<1>1. s.queue \in Seq(QueuedJobs) /\ job \in QueuedJobs
  BY DEF Supervisors, QueuedJobs
<1>2. Append(s.queue, job) \in Seq(QueuedJobs) /\ ToSet(Append(s.queue, job)) = ToSet(s.queue) \cup {job}
  <2> HIDE DEF job
  <2> QED BY <1>1, AppendedSet
<1>3. [s.entry[k] EXCEPT !.queuedAction = a] \in Entries
  BY EntryTyped, EntryUpdates
<1>4. r \in Supervisors
  BY <1>2, <1>3 DEF Supervisors
<1>5. SameHolders(s, r)
  BY DEF Supervisors, Entries, SameHolders
<1>6. SameJobs(s, r) /\ SameStates(s, r)
  BY DEF Supervisors, Entries, SameJobs, SameStates
<1>7. SameSocket(s, r)
  BY DEF Supervisors, Entries, SameSocket
<1>8. SameRotation(s, r)
  BY DEF Supervisors, Entries, SameRotation
<1>9. /\ r.queue = Append(s.queue, job)
      /\ \A j \in Keys : \/ r.entry[j].queuedAction = s.entry[j].queuedAction
                         \/ j = k /\ r.entry[j].queuedAction = a
  <2>1. r.queue = Append(s.queue, job)
    BY DEF Supervisors
  <2> DEFINE e == [s.entry[k] EXCEPT !.queuedAction = a]
  <2>2. r.entry[k] = e /\ \A j \in Keys : j # k => r.entry[j] = s.entry[j]
    BY DEF Supervisors
  <2>3. s.entry[k] \in Entries
    BY EntryTyped
  <2> HIDE DEF r, job
  <2>4. e.queuedAction = a
    BY <2>3 DEF Entries
  <2> HIDE DEF e
  <2> QED BY <2>1, <2>2, <2>4
<1> HIDE DEF r
<1>10. ToSet(r.queue) = ToSet(s.queue) \cup {[key |-> k, action |-> a]}
  BY <1>2, <1>9
<1>11. Keeps(s, r)
  BY <1>4, <1>5, <1>6, <1>7, <1>8, <1>9, <1>10, QueuedKeeps
<1> QED BY <1>11 DEF r

(* enqueueSubscribe keeps the state in order.                                *)
LEMMA EnqueueSubscribeKeeps ==
  ASSUME NEW s \in Supervisors, Good(s), NEW k \in Keys
  PROVE  Keeps(s, EnqueueSubscribe(s, k))
<1>1. CASE EnqueueSubscribe(s, k) = s
  BY <1>1, KeepsReflexive
<1>2. CASE EnqueueSubscribe(s, k) # s
  <2>1. /\ s.entry[k].refs # 0
        /\ EnqueueSubscribe(s, k) = [s EXCEPT !.entry[k].queuedAction = "subscribe",
                                     !.queue = Append(@, [key |-> k, action |-> "subscribe"])]
    BY <1>2 DEF EnqueueSubscribe
  <2>2. Has(s, k)
    BY <2>1, BlankWhenAbsent DEF Blank
  <2>3. "subscribe" \in Actions /\ "subscribe" # "none"
    BY ConstantsTyped
  <2> QED BY ZenonT(40), <2>1, <2>2, <2>3, AppendJobKeeps
<1> QED BY <1>1, <1>2

(* enqueueUnsubscribe keeps the state in order.                              *)
LEMMA EnqueueUnsubscribeKeeps ==
  ASSUME NEW s \in Supervisors, Good(s), NEW k \in Keys
  PROVE  Keeps(s, EnqueueUnsubscribe(s, k))
<1>1. CASE EnqueueUnsubscribe(s, k) = s
  BY <1>1, KeepsReflexive
<1>2. CASE EnqueueUnsubscribe(s, k) # s
  <2>1. /\ s.entry[k].subscribed
        /\ EnqueueUnsubscribe(s, k) = [s EXCEPT !.entry[k].queuedAction = "unsubscribe",
                                     !.queue = Append(@, [key |-> k, action |-> "unsubscribe"])]
    BY <1>2 DEF EnqueueUnsubscribe
  <2>2. Has(s, k)
    BY <2>1, BlankWhenAbsent DEF Blank
  <2>3. "unsubscribe" \in Actions /\ "unsubscribe" # "none"
    BY ConstantsTyped
  <2> QED BY <2>1, <2>2, <2>3, AppendJobKeeps
<1> QED BY <1>1, <1>2

(* requeue keeps the state in order.                                         *)
LEMMA RequeueKeeps ==
  ASSUME NEW s \in Supervisors, Good(s), NEW job \in Jobs, Points(s, job), NEW retry \in BOOLEAN
  PROVE  Keeps(s, Requeue(s, job, retry))
<1>1. CASE ~job.alive
  BY <1>1, KeepsReflexive DEF Requeue
<1>2. CASE job.alive
  <2> DEFINE k == job.key
             a == job.action
             again == [key |-> k, action |-> a]
             qa == IF s.entry[k].queuedAction = "none" THEN a ELSE s.entry[k].queuedAction
             r == [s EXCEPT !.entry[k].queuedAction = IF @ = "none" THEN a ELSE @,
                            !.queue = <<again>> \o @,
                            !.retryTimer = @ \/ retry]
  <2>1. k \in Keys /\ a \in Actions /\ a # "none" /\ Has(s, k)
    BY <1>2 DEF Points, Jobs
  <2>2. s.queue \in Seq(QueuedJobs) /\ again \in QueuedJobs
    BY <2>1 DEF Supervisors, QueuedJobs
  <2>3. <<again>> \o s.queue \in Seq(QueuedJobs) /\ ToSet(<<again>> \o s.queue) = ToSet(s.queue) \cup {again}
    <3> HIDE DEF again
    <3> QED BY <2>2, PrependedSet
  <2>4. qa \in Actions /\ [s.entry[k] EXCEPT !.queuedAction = qa] \in Entries
    <3>1. s.entry[k] \in Entries /\ s.entry[k].queuedAction \in Actions
      BY <2>1, EntryTyped DEF Entries
    <3> HIDE DEF k, a
    <3> QED BY <3>1, <2>1, EntryUpdates
  <2>5. s.retryTimer \/ retry \in BOOLEAN
    BY DEF Supervisors
  <2> HIDE DEF k, a, again
  <2>6. r \in Supervisors
    BY <2>1, <2>3, <2>4, <2>5 DEF Supervisors
  <2>7. SameHolders(s, r)
    BY <2>1 DEF Supervisors, Entries, SameHolders
  <2>8. SameJobs(s, r) /\ SameStates(s, r)
    BY <2>1 DEF Supervisors, Entries, SameJobs, SameStates
  <2>9. SameSocket(s, r)
    BY <2>1 DEF Supervisors, Entries, SameSocket
  <2>10. SameRotation(s, r)
    BY <2>1 DEF Supervisors, Entries, SameRotation
  <2>11. /\ r.queue = <<again>> \o s.queue
         /\ \A j \in Keys : \/ r.entry[j].queuedAction = s.entry[j].queuedAction
                            \/ j = k /\ r.entry[j].queuedAction = a
    <3>1. r.queue = <<again>> \o s.queue
      BY DEF Supervisors
    <3> DEFINE e == [s.entry[k] EXCEPT !.queuedAction = qa]
    <3>2. r.entry[k] = e /\ \A j \in Keys : j # k => r.entry[j] = s.entry[j]
      BY <2>1 DEF Supervisors
    <3>3. s.entry[k] \in Entries
      BY <2>1, EntryTyped
    <3>4. e.queuedAction = qa
      BY <3>3 DEF Entries
    <3> HIDE DEF e
    <3> HIDE DEF r
    <3> QED BY <3>1, <3>2, <3>4, <2>1
  <2>12. Requeue(s, job, retry) = r
    BY <1>2 DEF Requeue, k, a, again
  <2> HIDE DEF r
  <2>13. ToSet(r.queue) = ToSet(s.queue) \cup {[key |-> k, action |-> a]}
    BY <2>3, <2>11 DEF again
  <2>14. Keeps(s, r)
    BY <2>1, <2>6, <2>7, <2>8, <2>9, <2>10, <2>11, <2>13, QueuedKeeps
  <2> QED BY <2>12, <2>14
<1> QED BY <1>1, <1>2

(* Jobs leave the queue, and the marks of those that leave go with them.     *)
LEMMA UnqueuedKeeps ==
  ASSUME NEW s \in Supervisors, NEW r \in Supervisors, Good(s),
         SameHolders(s, r), SameJobs(s, r), SameSocket(s, r), SameRotation(s, r),
         \A k \in Keys : r.entry[k].subscribed => r.entry[k].state \in OnWire,
         ToSet(r.queue) \subseteq ToSet(s.queue),
         \A j \in Keys : \/ r.entry[j].queuedAction = "none"
                         \/ /\ r.entry[j].queuedAction = s.entry[j].queuedAction
                            /\ LET job == [key |-> j, action |-> s.entry[j].queuedAction] IN
                               job \in ToSet(s.queue) => job \in ToSet(r.queue)
  PROVE  Keeps(s, r)
<1>1. EntriesSound(r)
  <2>1. \A j \in Keys : ~Has(s, j) => Blank(s.entry[j])
    BY BlankWhenAbsent
  <2> QED BY <2>1, EntriesSoundIf DEF Blank, SameSocket, SameRotation
<1>2. JobsSound(r)
  BY JobsSoundIf
<1>3. NoneJobless(s, r)
  BY DEF SameJobs, NoneJobless, Unsent, Jobless
<1> QED BY <1>1, <1>2, <1>3, HoldersKept, SocketKept, RotationKept, AllKept

(* The first sensible job is in the queue, if there is one.                  *)
LEMMA FirstSensibleIn ==
  ASSUME NEW s \in Supervisors
  PROVE  /\ FirstSensible(s) \in 0..Len(s.queue)
         /\ FirstSensible(s) # 0 => Sensible(s, s.queue[FirstSensible(s)])
<1> DEFINE I == {i \in 1..Len(s.queue) : Sensible(s, s.queue[i])}
<1>1. I \in SUBSET Nat
  BY DEF Supervisors
<1>2. I # {} => Min(I) \in I
  <2> HIDE DEF I
  <2> QED BY <1>1, MinIn
<1>3. FirstSensible(s) = IF I # {} THEN Min(I) ELSE 0
  BY DEF FirstSensible, SelectInSeq
<1>4. Len(s.queue) \in Nat
  BY DEF Supervisors
<1> QED BY <1>2, <1>3, <1>4

(* nextValidJob tells the entries of the jobs it takes.                      *)
LEMMA TakeJobsKeeps ==
  ASSUME NEW s \in Supervisors, Good(s)
  PROVE  Keeps(s, TakeJobs(s)) /\ SameHolders(s, TakeJobs(s)) /\ SameJobs(s, TakeJobs(s))
<1> DEFINE n == IF FirstSensible(s) = 0 THEN Len(s.queue) ELSE FirstSensible(s)
           taken(k) == \E i \in 1..n : s.queue[i] = [key |-> k, action |-> s.entry[k].queuedAction]
           q == SubSeq(s.queue, n + 1, Len(s.queue))
           f == [k \in Keys |-> IF taken(k) THEN [s.entry[k] EXCEPT !.queuedAction = "none"] ELSE s.entry[k]]
           r == [s EXCEPT !.queue = q, !.entry = f]
<1>0. s.queue \in Seq(QueuedJobs) /\ Len(s.queue) \in Nat
  BY DEF Supervisors
<1>1. n \in 0..Len(s.queue)
  BY <1>0, FirstSensibleIn
<1>2. TakeJobs(s) = r
  BY DEF TakeJobs
<1> HIDE DEF n
<1>3. /\ q \in Seq(QueuedJobs) /\ ToSet(q) \subseteq ToSet(s.queue)
      /\ \A x \in ToSet(s.queue) : x \in ToSet(q) \/ \E i \in 1..n : s.queue[i] = x
  BY <1>0, <1>1, SubSeqSet
<1> HIDE DEF q, taken
<1>4. f \in [Keys -> Entries]
  BY EntryTyped, EntryUpdates, ConstantsTyped
<1>5. r \in Supervisors
  <2> HIDE DEF f
  <2> QED BY <1>3, <1>4 DEF Supervisors
<1>6. r.queue = q /\ r.entry = f
  BY DEF Supervisors
<1>7. \A k \in Keys : f[k] = IF taken(k) THEN [s.entry[k] EXCEPT !.queuedAction = "none"] ELSE s.entry[k]
  OBVIOUS
<1>8. \A k \in Keys : /\ f[k].present = s.entry[k].present /\ f[k].refs = s.entry[k].refs
                      /\ f[k].removing = s.entry[k].removing /\ f[k].retarget = s.entry[k].retarget
                      /\ f[k].waitingTarget = s.entry[k].waitingTarget
                      /\ f[k].subscribed = s.entry[k].subscribed /\ f[k].state = s.entry[k].state
                      /\ f[k].rotationOutgoing = s.entry[k].rotationOutgoing
                      /\ f[k].rotationIncoming = s.entry[k].rotationIncoming
                      /\ f[k].queuedAction = IF taken(k) THEN "none" ELSE s.entry[k].queuedAction
  <2> TAKE k \in Keys
  <2>1. s.entry[k] \in Entries
    BY EntryTyped
  <2> HIDE DEF f
  <2> QED BY <2>1, <1>7 DEF Entries
<1> HIDE DEF f
<1>9. SameHolders(s, r) /\ SameJobs(s, r) /\ SameSocket(s, r) /\ SameRotation(s, r) /\ SameStates(s, r)
  <2>1. SameHolders(s, r)
    BY <1>6, <1>8 DEF SameHolders, Supervisors
  <2>2. SameJobs(s, r) /\ SameStates(s, r)
    BY <1>6, <1>8 DEF SameJobs, SameStates, Supervisors
  <2>3. SameSocket(s, r) /\ SameRotation(s, r)
    BY <1>6, <1>8 DEF SameSocket, SameRotation, Supervisors
  <2> QED BY <2>1, <2>2, <2>3
<1> HIDE DEF r
<1>10. \A k \in Keys : r.entry[k].subscribed => r.entry[k].state \in OnWire
  BY <1>6, <1>8, SubscribedOnWire
<1>11. \A j \in Keys : \/ r.entry[j].queuedAction = "none"
                       \/ /\ r.entry[j].queuedAction = s.entry[j].queuedAction
                          /\ LET job == [key |-> j, action |-> s.entry[j].queuedAction] IN
                             job \in ToSet(s.queue) => job \in ToSet(r.queue)
  BY <1>3, <1>6, <1>8 DEF taken
<1>12. Keeps(s, r)
  BY <1>3, <1>5, <1>6, <1>9, <1>10, <1>11, UnqueuedKeeps
<1> QED BY <1>2, <1>9, <1>12

-----------------------------------------------------------------------------
(* The cap.                                                                  *)

(* The jobs of an entry leave the queue, the others stay.                    *)
LEMMA UnqueueSet ==
  ASSUME NEW q \in Seq(QueuedJobs), NEW k, NEW actions
  PROVE  /\ Unqueue(q, k, actions) \in Seq(QueuedJobs)
         /\ ToSet(Unqueue(q, k, actions)) =
              {job \in ToSet(q) : ~(job.key = k /\ job.action \in actions)}
<1> DEFINE gone == {[key |-> k, action |-> a] : a \in actions}
           r == Unqueue(q, k, actions)
<1>1. r \in Seq(QueuedJobs) /\ ToSet(r) = ToSet(q) \cap (QueuedJobs \ gone)
  BY OnlyKeeps DEF Unqueue
<1>2. ToSet(q) \subseteq QueuedJobs
  BY DEF ToSet
<1>3. \A job \in QueuedJobs : job \in gone <=> job.key = k /\ job.action \in actions
  BY DEF QueuedJobs
<1> HIDE DEF gone, r
<1>4. ToSet(r) = {job \in ToSet(q) : ~(job.key = k /\ job.action \in actions)}
  BY <1>1, <1>2, <1>3
<1> QED BY <1>1, <1>4 DEF r

(* A state a subscription may have is given to an entry.                     *)
LEMMA SetStateKeeps ==
  ASSUME NEW s \in Supervisors, Good(s), NEW k \in Keys, NEW x \in States,
         s.entry[k].subscribed => x \in OnWire
  PROVE  Keeps(s, SetState(s, k, x)) /\ SameHolders(s, SetState(s, k, x))
<1> DEFINE r == [s EXCEPT !.entry[k].state = x]
<1>1. [s.entry[k] EXCEPT !.state = x] \in Entries
  BY EntryTyped, EntryUpdates
<1>2. r \in Supervisors
  BY <1>1 DEF Supervisors
<1>3. SameHolders(s, r)
  BY DEF Supervisors, Entries, SameHolders
<1>4. SameJobs(s, r) /\ SameQueue(s, r)
  BY DEF Supervisors, Entries, SameJobs, SameQueue
<1>5. SameSocket(s, r)
  BY DEF Supervisors, Entries, SameSocket
<1>6. SameRotation(s, r)
  BY DEF Supervisors, Entries, SameRotation
<1>7. r.entry[k].state = x /\ \A j \in Keys : j # k => r.entry[j].state = s.entry[j].state
  BY DEF Supervisors, Entries
<1> HIDE DEF r
<1>8. EntriesSound(r)
  <2>1. \A j \in Keys : ~Has(s, j) => Blank(s.entry[j])
    BY BlankWhenAbsent
  <2>2. \A j \in Keys : s.entry[j].subscribed => s.entry[j].state \in OnWire
    BY SubscribedOnWire
  <2>3. \A j \in Keys : r.entry[j].subscribed => r.entry[j].state \in OnWire
    BY <1>5, <1>7, <2>2 DEF SameSocket
  <2> QED BY <1>2, <1>3, <1>4, <1>5, <1>6, <2>1, <2>3, EntriesSoundIf
          DEF Blank, SameSocket, SameQueue, SameRotation
<1>9. Keeps(s, r)
  BY <1>2, <1>3, <1>4, <1>5, <1>6, <1>8, HoldersKept, JobsKept, SocketKept, RotationKept, AllKept
<1> QED BY <1>3, <1>9 DEF r, SetState

(* parkEntry takes the job and its mark together.                            *)
LEMMA ParkEntryKeeps ==
  ASSUME NEW s \in Supervisors, Good(s), NEW k \in Keys, ~s.entry[k].subscribed
  PROVE  /\ Keeps(s, ParkEntry(s, k))
         /\ \A j \in Keys : ParkEntry(s, k).entry[j].subscribed = s.entry[j].subscribed
<1> DEFINE unqueue == s.entry[k].queuedAction = "subscribe" /\ ~JobOn(s, k)
           qa == IF unqueue THEN "none" ELSE s.entry[k].queuedAction
           q == IF unqueue THEN Unqueue(s.queue, k, {"subscribe"}) ELSE s.queue
           e == [s.entry[k] EXCEPT !.state = "parked", !.queuedAction = qa]
           r == [s EXCEPT !.entry[k] = e, !.queue = q]
<1>1. s.entry[k] \in Entries /\ s.queue \in Seq(QueuedJobs) /\ s.entry[k].queuedAction \in Actions
  BY EntryTyped DEF Supervisors, Entries
<1>2. q \in Seq(QueuedJobs) /\ ToSet(q) \subseteq ToSet(s.queue)
      /\ \A job \in ToSet(s.queue) : job \in ToSet(q) \/ (unqueue /\ job.key = k)
  <2>1. /\ Unqueue(s.queue, k, {"subscribe"}) \in Seq(QueuedJobs)
        /\ ToSet(Unqueue(s.queue, k, {"subscribe"})) =
              {job \in ToSet(s.queue) : ~(job.key = k /\ job.action \in {"subscribe"})}
    BY <1>1, UnqueueSet
  <2> QED BY <1>1, <2>1
<1>3. e \in Entries
  <2>1. qa \in Actions
    BY <1>1, ConstantsTyped
  <2> HIDE DEF qa
  <2> QED BY <1>1, <2>1, EntryUpdates, ConstantsTyped
<1>4. e = [[s.entry[k] EXCEPT !.state = "parked"] EXCEPT !.queuedAction = qa]
  OBVIOUS
<1>5. ParkEntry(s, k) = r
  BY ZenonT(40) DEF ParkEntry, Supervisors
<1>6. /\ e.present = s.entry[k].present /\ e.refs = s.entry[k].refs
      /\ e.removing = s.entry[k].removing /\ e.retarget = s.entry[k].retarget
      /\ e.waitingTarget = s.entry[k].waitingTarget
      /\ e.subscribed = s.entry[k].subscribed
      /\ e.rotationOutgoing = s.entry[k].rotationOutgoing
      /\ e.rotationIncoming = s.entry[k].rotationIncoming
      /\ e.queuedAction = qa
  <2> HIDE DEF qa
  <2> QED BY <1>1 DEF Entries
<1> HIDE DEF e, q
<1>7. r \in Supervisors
  BY <1>2, <1>3 DEF Supervisors
<1>8. /\ r.queue = q /\ r.entry[k] = e /\ \A j \in Keys : j # k => r.entry[j] = s.entry[j]
  BY DEF Supervisors
<1>9. SameJobs(s, r) /\ r.demand = s.demand /\ r.handles = s.handles /\ r.order = s.order
      /\ r.destroyed = s.destroyed /\ r.registered = s.registered /\ r.answer = s.answer
      /\ r.rotationCurrent = s.rotationCurrent /\ r.rotationQueue = s.rotationQueue
  BY DEF Supervisors, SameJobs
<1> HIDE DEF r
<1>10. SameHolders(s, r) /\ SameSocket(s, r) /\ SameRotation(s, r)
  BY <1>6, <1>8, <1>9 DEF SameHolders, SameSocket, SameRotation
<1>11. \A j \in Keys : r.entry[j].subscribed => r.entry[j].state \in OnWire
  BY <1>6, <1>8, SubscribedOnWire
<1>12. \A j \in Keys : \/ r.entry[j].queuedAction = "none"
                       \/ /\ r.entry[j].queuedAction = s.entry[j].queuedAction
                          /\ LET job == [key |-> j, action |-> s.entry[j].queuedAction] IN
                             job \in ToSet(s.queue) => job \in ToSet(r.queue)
  <2> TAKE j \in Keys
  <2>1. CASE j # k
    <3>1. [key |-> j, action |-> s.entry[j].queuedAction].key = j
      OBVIOUS
    <3> QED BY <2>1, <3>1, <1>2, <1>8
  <2>2. CASE j = k /\ unqueue
    BY <2>2, <1>6, <1>8
  <2>3. CASE j = k /\ ~unqueue
    BY <2>3, <1>2, <1>6, <1>8
  <2> QED BY <2>1, <2>2, <2>3
<1>13. Keeps(s, r)
  BY <1>2, <1>7, <1>8, <1>9, <1>10, <1>11, <1>12, UnqueuedKeeps
<1> QED BY <1>5, <1>10, <1>13 DEF SameSocket

(* Keys of a set in the order of the map.                                    *)
LEMMA InOrderIs ==
  ASSUME NEW s \in Supervisors, NEW S
  PROVE  InOrder(s, S) \in Seq(Keys) /\ ToSet(InOrder(s, S)) = ToSet(s.order) \cap S
<1>1. s.order \in Seq(Keys)
  BY DEF Supervisors
<1> QED BY <1>1, OnlyKeeps DEF InOrder

(* A set of keys can be counted.                                             *)
LEMMA CountOfKeys ==
  ASSUME NEW T, T \subseteq Keys PROVE IsFiniteSet(T) /\ Cardinality(T) \in Nat
BY KeysAssumption, FS_Subset, FS_CardinalityType

(* enforceSubscriptionCap keeps the state in order.                          *)
LEMMA EnforceCapKeeps ==
  ASSUME NEW s \in Supervisors, Good(s) PROVE Keeps(s, EnforceCap(s))
<1> DEFINE n == Cardinality(ActiveKeys(s))
           excess == n - MaxLive
           parkable == InOrder(s, {k \in Keys : /\ Held(s, k) /\ State(s, k) = "desired"
                                                /\ ~s.entry[k].rotationIncoming})
           parked == SubSeq(Reverse(parkable), 1, Min({excess, Len(parkable)}))
           step == [k \in Keys |-> [t \in Supervisors |-> ParkEntry(t, k)]]
<1>1. CASE n <= MaxLive
  BY <1>1, KeepsReflexive DEF EnforceCap
<1>2. CASE ~(n <= MaxLive)
  <2>1. n \in Nat /\ MaxLive \in Nat
    BY CountOfKeys, BoundsAssumption DEF ActiveKeys
  <2>2. excess \in Nat
    BY <2>1, <1>2
  <2>3. parkable \in Seq(Keys) /\ \A k \in ToSet(parkable) : k \in Keys /\ s.entry[k].state = "desired"
    BY InOrderIs DEF State
  <2> HIDE DEF parkable, excess, n
  <2>4. Min({excess, Len(parkable)}) \in 0..Len(parkable)
    <3>1. Len(parkable) \in Nat
      BY <2>3
    <3> DEFINE T == {excess, Len(parkable)}
    <3>2. T \in SUBSET Nat /\ T # {}
      BY <2>2, <3>1
    <3>3. Len(parkable) \in T /\ excess \in T
      OBVIOUS
    <3> HIDE DEF T
    <3>4. Min(T) \in T /\ \A i \in T : Min(T) <= i
      BY <3>2, MinIn
    <3>5. Min(T) \in Nat /\ Min(T) <= Len(parkable)
      BY <3>2, <3>3, <3>4
    <3> QED BY <3>1, <3>5 DEF T
  <2>5. parked \in Seq(Keys) /\ \A i \in 1..Len(parked) : parked[i] \in ToSet(parkable)
    <3> DEFINE m == Min({excess, Len(parkable)})
               back == Reverse(parkable)
    <3>1. Len(parkable) \in Nat /\ DOMAIN parkable = 1..Len(parkable)
      BY <2>3
    <3>2. back \in Seq(Keys) /\ Len(back) = Len(parkable)
          /\ \A i \in 1..Len(parkable) : back[i] = parkable[(Len(parkable) - i) + 1]
      BY <2>3, <3>1 DEF Reverse
    <3>3. \A i \in 1..Len(parkable) : back[i] \in ToSet(parkable)
      BY <3>1, <3>2 DEF ToSet
    <3> HIDE DEF back, m
    <3>4. m \in 0..Len(back)
      BY <2>4, <3>2 DEF m
    <3>5. SubSeq(back, 1, m) \in Seq(Keys) /\ Len(SubSeq(back, 1, m)) = m
          /\ \A i \in 1..m : SubSeq(back, 1, m)[i] = back[i]
      BY <3>2, <3>4
    <3>6. \A i \in 1..m : i \in 1..Len(parkable)
      BY <3>1, <3>2, <3>4
    <3>7. parked = SubSeq(back, 1, m)
      BY DEF back, m
    <3> HIDE DEF parked
    <3>8. parked \in Seq(Keys) /\ Len(parked) = m
      BY <3>5, <3>7
    <3>9. \A i \in 1..m : parked[i] \in ToSet(parkable)
      BY <3>3, <3>5, <3>6, <3>7
    <3> QED BY <3>8, <3>9
  <2> HIDE DEF parked
  <2> DEFINE Calm == {t \in Supervisors : Keeps(s, t) /\ \A j \in ToSet(parkable) : ~t.entry[j].subscribed}
             P == [i \in 0..Len(parked) |-> Calm]
  <2>6. s \in P[0]
    <3>1. \A j \in ToSet(parkable) : ~s.entry[j].subscribed
      BY <2>3, SubscribedOnWire DEF OnWire
    <3> QED BY <3>1, <2>5, KeepsReflexive
  <2>7. ASSUME NEW i \in 1..Len(parked), NEW t \in P[i - 1] PROVE step[parked[i]][t] \in P[i]
    <3> DEFINE k == parked[i]
    <3>1. i \in 0..Len(parked) /\ i - 1 \in 0..Len(parked)
      BY <2>5
    <3>2. t \in Calm /\ k \in Keys /\ k \in ToSet(parkable)
      BY <3>1, <2>3, <2>5
    <3>3. t \in Supervisors /\ Good(t) /\ ~t.entry[k].subscribed
      BY <3>2 DEF Keeps, Guards
    <3>4. step[k][t] = ParkEntry(t, k)
      BY <3>2, <3>3
    <3> HIDE DEF k, step
    <3>5. Keeps(t, ParkEntry(t, k)) /\ \A j \in Keys : ParkEntry(t, k).entry[j].subscribed = t.entry[j].subscribed
      BY <3>2, <3>3, ParkEntryKeeps
    <3>6. Keeps(s, ParkEntry(t, k)) /\ ParkEntry(t, k) \in Supervisors
      BY <3>2, <3>5, KeepsTransitive DEF Keeps, Guards
    <3>7. ParkEntry(t, k) \in Calm
      BY <2>3, <3>2, <3>5, <3>6
    <3> HIDE DEF Calm
    <3> QED BY <3>1, <3>4, <3>7 DEF k
  <2>8. Each(step, s, parked) \in P[Len(parked)]
    <3> HIDE DEF P, step
    <3> QED BY <2>5, <2>6, <2>7, EachLeadsTo
  <2>9. Len(parked) \in 0..Len(parked)
    BY <2>5
  <2>10. Keeps(s, Each(step, s, parked))
    <3> HIDE DEF step
    <3> QED BY <2>8, <2>9
  <2>11. EnforceCap(s) = Each(step, s, parked)
    BY <1>2 DEF EnforceCap, n, excess, parkable, parked
  <2> HIDE DEF step
  <2> QED BY <2>10, <2>11
<1> QED BY <1>1, <1>2

-----------------------------------------------------------------------------
(* Flags, the socket and the end of a lease.                                 *)

(* Only fields no invariant speaks of differ.                                *)
SameHeld(s, r) ==
  /\ r.entry = s.entry /\ r.order = s.order /\ r.demand = s.demand
  /\ r.handles = s.handles /\ r.destroyed = s.destroyed
SameCourse(s, r) ==
  r.rotationCurrent = s.rotationCurrent /\ r.rotationQueue = s.rotationQueue

(* The frames in fewer words.                                                *)
LEMMA HeldFrames ==
  ASSUME NEW s, NEW r, SameHeld(s, r), SameCourse(s, r)
  PROVE  SameHolders(s, r) /\ SameStates(s, r) /\ SameRotation(s, r)
BY DEF SameHeld, SameCourse, SameHolders, SameStates, SameRotation

(* What is neither held, queued, pushed nor rotated may change.              *)
LEMMA PlainKeeps ==
  ASSUME NEW s \in Supervisors, NEW r \in Supervisors, Good(s), SameHeld(s, r), SameCourse(s, r),
         SameJobs(s, r), r.queue = s.queue, r.registered = s.registered, r.answer = s.answer
  PROVE  Keeps(s, r)
<1>1. SameQueue(s, r) /\ SameSocket(s, r)
  BY DEF SameHeld, SameQueue, SameSocket
<1> QED BY <1>1, HeldFrames, OthersKeep

(* So may the flags of the connection and of the timers.                     *)
LEMMA OpenAgainKeeps ==
  ASSUME NEW s \in Supervisors, Good(s)
  PROVE  /\ \A x \in BOOLEAN : Keeps(s, [s EXCEPT !.requiresFreshOpen = x])
         /\ \A x \in BOOLEAN : Keeps(s, [s EXCEPT !.retryTimer = x])
         /\ \A x \in BOOLEAN : Keeps(s, [s EXCEPT !.paused = x])
         /\ \A x \in Sockets : Keeps(s, [s EXCEPT !.socket = x])
         /\ \A x \in SUBSET Keys : Keeps(s, [s EXCEPT !.retired = x])
         /\ \A x \in {"away", "connecting", "open"} : Keeps(s, [s EXCEPT !.conn = x])
<1>1. ASSUME NEW x \in BOOLEAN PROVE Keeps(s, [s EXCEPT !.requiresFreshOpen = x])
  <2> DEFINE r == [s EXCEPT !.requiresFreshOpen = x]
  <2>1. r \in Supervisors /\ SameHeld(s, r) /\ SameCourse(s, r) /\ SameJobs(s, r)
        /\ r.queue = s.queue /\ r.registered = s.registered /\ r.answer = s.answer
    BY DEF Supervisors, SameHeld, SameCourse, SameJobs
  <2> HIDE DEF r
  <2>2. Keeps(s, r)
    BY <2>1, PlainKeeps
  <2> QED BY <2>2 DEF r
<1>2. ASSUME NEW x \in BOOLEAN PROVE Keeps(s, [s EXCEPT !.retryTimer = x])
  <2> DEFINE r == [s EXCEPT !.retryTimer = x]
  <2>1. r \in Supervisors /\ SameHeld(s, r) /\ SameCourse(s, r) /\ SameJobs(s, r)
        /\ r.queue = s.queue /\ r.registered = s.registered /\ r.answer = s.answer
    BY DEF Supervisors, SameHeld, SameCourse, SameJobs
  <2> HIDE DEF r
  <2>2. Keeps(s, r)
    BY <2>1, PlainKeeps
  <2> QED BY <2>2 DEF r
<1>3. ASSUME NEW x \in BOOLEAN PROVE Keeps(s, [s EXCEPT !.paused = x])
  <2> DEFINE r == [s EXCEPT !.paused = x]
  <2>1. r \in Supervisors /\ SameHeld(s, r) /\ SameCourse(s, r) /\ SameJobs(s, r)
        /\ r.queue = s.queue /\ r.registered = s.registered /\ r.answer = s.answer
    BY DEF Supervisors, SameHeld, SameCourse, SameJobs
  <2> HIDE DEF r
  <2>2. Keeps(s, r)
    BY <2>1, PlainKeeps
  <2> QED BY <2>2 DEF r
<1>4. ASSUME NEW x \in Sockets PROVE Keeps(s, [s EXCEPT !.socket = x])
  <2> DEFINE r == [s EXCEPT !.socket = x]
  <2>1. r \in Supervisors /\ SameHeld(s, r) /\ SameCourse(s, r) /\ SameJobs(s, r)
        /\ r.queue = s.queue /\ r.registered = s.registered /\ r.answer = s.answer
    BY DEF Supervisors, SameHeld, SameCourse, SameJobs
  <2> HIDE DEF r
  <2>2. Keeps(s, r)
    BY <2>1, PlainKeeps
  <2> QED BY <2>2 DEF r
<1>5. ASSUME NEW x \in SUBSET Keys PROVE Keeps(s, [s EXCEPT !.retired = x])
  <2> DEFINE r == [s EXCEPT !.retired = x]
  <2>1. r \in Supervisors /\ SameHeld(s, r) /\ SameCourse(s, r) /\ SameJobs(s, r)
        /\ r.queue = s.queue /\ r.registered = s.registered /\ r.answer = s.answer
    BY DEF Supervisors, SameHeld, SameCourse, SameJobs
  <2> HIDE DEF r
  <2>2. Keeps(s, r)
    BY <2>1, PlainKeeps
  <2> QED BY <2>2 DEF r
<1>6. ASSUME NEW x \in {"away", "connecting", "open"} PROVE Keeps(s, [s EXCEPT !.conn = x])
  <2> DEFINE r == [s EXCEPT !.conn = x]
  <2>1. r \in Supervisors /\ SameHeld(s, r) /\ SameCourse(s, r) /\ SameJobs(s, r)
        /\ r.queue = s.queue /\ r.registered = s.registered /\ r.answer = s.answer
    BY DEF Supervisors, SameHeld, SameCourse, SameJobs
  <2> HIDE DEF r
  <2>2. Keeps(s, r)
    BY <2>1, PlainKeeps
  <2> QED BY <2>2 DEF r
<1> QED BY <1>1, <1>2, <1>3, <1>4, <1>5, <1>6

-----------------------------------------------------------------------------
(* The connection is lost.                                                   *)

(* A dropped socket leaves subscriptions unregistered and nothing worse.     *)
LEMMA DroppedGuards ==
  ASSUME NEW s \in Supervisors, Good(s)
  PROVE  Guards(s, Dropped(s)) /\ NoneJobless(s, Dropped(s))
<1> DEFINE r == Dropped(s)
<1>1. r \in Supervisors
  BY DEF Dropped, Supervisors, Sockets
<1>2. SameHeld(s, r) /\ SameCourse(s, r)
  BY DEF Dropped, Supervisors, SameHeld, SameCourse
<1>3. SameJobs(s, r) /\ r.queue = s.queue /\ r.answer = "none"
  BY DEF Dropped, Supervisors, SameJobs
<1> HIDE DEF r
<1>4. SameHolders(s, r) /\ SameStates(s, r) /\ SameRotation(s, r)
  BY <1>2, HeldFrames
<1>5. SameQueue(s, r)
  BY <1>2, <1>3 DEF SameHeld, SameQueue
<1>6. EntriesSound(r)
  BY <1>2 DEF SameHeld, EntriesSound, Good
<1>7. DeadUnsubscribed(r) /\ AcceptedIsRegistered(r)
  BY <1>2, <1>3 DEF SameHeld, SameJobs, DeadUnsubscribed, AcceptedIsRegistered, Good
<1>8. /\ DemandTrue(r) /\ HandlesTrue(r) /\ Listed(r) /\ DestroyedEmpty(r)
      /\ NoneStranded(s, r) /\ Progress(s, r)
  BY <1>1, <1>4, HoldersKept
<1>9. JobsSound(r) /\ NoneJobless(s, r)
  BY <1>1, <1>3, <1>4, <1>5, JobsKept
<1>10. MarksNamePartner(r) /\ NoneOrphaned(s, r)
  BY <1>1, <1>4, RotationKept
<1> QED BY <1>1, <1>6, <1>7, <1>8, <1>9, <1>10 DEF Guards, Good, NoneJobless, r

(* All control is cancelled.                                                 *)
Cancelled(s) ==
  [ResetRotation(s) EXCEPT
     !.currentJob = NoJob, !.sendTimer = NoJob, !.retryTimer = FALSE,
     !.queue = <<>>, !.retired = {}]

(* Entries without their rotation marks.                                     *)
LEMMA ResetEntries ==
  ASSUME NEW s \in Supervisors
  PROVE  LET f == [k \in Keys |-> [s.entry[k] EXCEPT !.rotationOutgoing = None,
                                                     !.rotationIncoming = FALSE]]
         IN /\ f \in [Keys -> Entries]
            /\ \A k \in Keys :
                 /\ f[k].present = s.entry[k].present /\ f[k].refs = s.entry[k].refs
                 /\ f[k].removing = s.entry[k].removing /\ f[k].retarget = s.entry[k].retarget
                 /\ f[k].waitingTarget = s.entry[k].waitingTarget
                 /\ f[k].subscribed = s.entry[k].subscribed /\ f[k].state = s.entry[k].state
                 /\ f[k].queuedAction = s.entry[k].queuedAction
                 /\ f[k].rotationOutgoing = None /\ f[k].rotationIncoming = FALSE
<1> DEFINE f == [k \in Keys |-> [s.entry[k] EXCEPT !.rotationOutgoing = None, !.rotationIncoming = FALSE]]
<1>1. ASSUME NEW k \in Keys
      PROVE  /\ f[k] \in Entries
             /\ f[k].present = s.entry[k].present /\ f[k].refs = s.entry[k].refs
             /\ f[k].removing = s.entry[k].removing /\ f[k].retarget = s.entry[k].retarget
             /\ f[k].waitingTarget = s.entry[k].waitingTarget
             /\ f[k].subscribed = s.entry[k].subscribed /\ f[k].state = s.entry[k].state
             /\ f[k].queuedAction = s.entry[k].queuedAction
             /\ f[k].rotationOutgoing = None /\ f[k].rotationIncoming = FALSE
  <2>1. s.entry[k] \in Entries /\ None \in Refs
    BY EntryTyped, ConstantsTyped
  <2>2. f[k] = [s.entry[k] EXCEPT !.rotationOutgoing = None, !.rotationIncoming = FALSE]
    OBVIOUS
  <2> HIDE DEF f
  <2> QED BY <2>1, <2>2 DEF Entries
<1>2. f \in [Keys -> Entries]
  <2>1. \A k \in Keys : f[k] \in Entries
    BY <1>1
  <2> QED BY <2>1
<1> QED BY <1>1, <1>2

(* The end of the lease takes every mark with it.                            *)
LEMMA ResetKeeps ==
  ASSUME NEW s \in Supervisors, Good(s)
  PROVE  LET r == ResetRotation(s) IN
         /\ Keeps(s, r) /\ SameHolders(s, r) /\ SameQueue(s, r)
         /\ SameJobs(s, r) /\ SameSocket(s, r) /\ SameStates(s, r)
         /\ \A k \in Keys : ~r.entry[k].rotationIncoming
<1> DEFINE r == ResetRotation(s)
           f == [k \in Keys |-> [s.entry[k] EXCEPT !.rotationOutgoing = None, !.rotationIncoming = FALSE]]
<1>1. r = [s EXCEPT !.rotationCurrent = NoPair, !.rotationQueue = <<>>, !.entry = f]
  BY DEF ResetRotation
<1>2. /\ f \in [Keys -> Entries]
      /\ \A k \in Keys :
                 /\ f[k].present = s.entry[k].present /\ f[k].refs = s.entry[k].refs
                 /\ f[k].removing = s.entry[k].removing /\ f[k].retarget = s.entry[k].retarget
                 /\ f[k].waitingTarget = s.entry[k].waitingTarget
                 /\ f[k].subscribed = s.entry[k].subscribed /\ f[k].state = s.entry[k].state
                 /\ f[k].queuedAction = s.entry[k].queuedAction
                 /\ f[k].rotationOutgoing = None /\ f[k].rotationIncoming = FALSE
  BY ResetEntries
<1> HIDE DEF f, r
<1>3. r \in Supervisors
  <2>1. <<>> \in Seq(Pairs) /\ NoPair \in Pairs
    BY ConstantsTyped
  <2> QED BY <1>1, <1>2, <2>1 DEF Supervisors
<1>4. /\ r.entry = f /\ SameJobs(s, r) /\ r.queue = s.queue /\ r.order = s.order
      /\ r.demand = s.demand /\ r.handles = s.handles /\ r.destroyed = s.destroyed
      /\ r.registered = s.registered /\ r.answer = s.answer
      /\ r.rotationCurrent = NoPair /\ r.rotationQueue = <<>>
  BY <1>1 DEF Supervisors, SameJobs
<1>5. SameHolders(s, r) /\ SameQueue(s, r) /\ SameSocket(s, r) /\ SameStates(s, r)
  BY <1>2, <1>4 DEF SameHolders, SameQueue, SameSocket, SameStates
<1>6. \A k \in Keys : ~r.entry[k].rotationIncoming /\ r.entry[k].rotationOutgoing = None
  BY <1>2, <1>4
<1>7. EntriesSound(r)
  <2>1. \A k \in Keys : ~Has(s, k) => Blank(s.entry[k])
    BY BlankWhenAbsent
  <2>2. \A k \in Keys : s.entry[k].subscribed => s.entry[k].state \in OnWire
    BY SubscribedOnWire
  <2> QED BY <1>3, <1>5, <1>6, <2>1, <2>2, EntriesSoundIf DEF Blank, SameQueue, SameSocket, SameStates
<1>8. MarksNamePartner(r) /\ NoneOrphaned(s, r)
  BY <1>6 DEF MarksNamePartner, NoneOrphaned, Orphaned
<1>9. Keeps(s, r)
  BY <1>3, <1>4, <1>5, <1>7, <1>8, HoldersKept, JobsKept, SocketKept, AllKept
<1> QED BY <1>4, <1>5, <1>6, <1>9 DEF r

(* cancelRotationFor keeps the state in order.                               *)
LEMMA CancelRotationForKeeps ==
  ASSUME NEW s \in Supervisors, Good(s), NEW k \in Keys
  PROVE  LET r == CancelRotationFor(s, k) IN
         /\ Keeps(s, r) /\ SameHolders(s, r) /\ SameQueue(s, r)
         /\ SameJobs(s, r) /\ SameSocket(s, r) /\ SameStates(s, r)
<1> DEFINE r == CancelRotationFor(s, k)
<1>1. CASE r = s
  BY <1>1, KeepsReflexive DEF SameHolders, SameQueue, SameJobs, SameSocket, SameStates
<1>2. CASE r = ResetRotation(s)
  BY <1>2, ResetKeeps
<1>3. r = s \/ r = ResetRotation(s)
  BY DEF CancelRotationFor
<1> QED BY <1>1, <1>2, <1>3

(* With all control cancelled, queuedAction may name jobs that are gone.     *)
LEMMA CancelledGuards ==
  ASSUME NEW s \in Supervisors, Good(s)
  PROVE  Guards(s, Cancelled(s)) /\ Cancelled(s).order = s.order /\ Cancelled(s).queue = <<>>
<1> DEFINE m == ResetRotation(s)
           r == [m EXCEPT !.currentJob = NoJob, !.sendTimer = NoJob, !.retryTimer = FALSE,
                          !.queue = <<>>, !.retired = {}]
<1>0. r = Cancelled(s)
  BY DEF Cancelled
<1>1. Keeps(s, m) /\ SameHolders(s, m)
  BY ResetKeeps
<1> HIDE DEF m
<1>2. m \in Supervisors /\ Good(m) /\ Guards(s, m)
  BY <1>1 DEF Keeps, Guards
<1>3. r \in Supervisors
  <2>1. <<>> \in Seq(QueuedJobs) /\ NoJob \in Jobs
    BY ConstantsTyped
  <2> QED BY <1>2, <2>1 DEF Supervisors
<1>4. SameHeld(m, r) /\ SameCourse(m, r) /\ r.queue = <<>> /\ r.sending = m.sending
      /\ r.currentJob = NoJob /\ r.sendTimer = NoJob
  BY <1>2 DEF Supervisors, SameHeld, SameCourse
<1> HIDE DEF r
<1>5. SameHolders(m, r) /\ SameRotation(m, r)
  BY <1>4, HeldFrames
<1>6. EntriesSound(r)
  BY <1>2, <1>4 DEF SameHeld, EntriesSound, Good
<1>7. JobsSound(r)
  BY <1>2, <1>4, KeysAssumption DEF JobsSound, Good, Points, NoJob, ToSet, SameHeld, Has
<1>8. DeadUnsubscribed(r) /\ AcceptedIsRegistered(r)
  BY <1>4, KeysAssumption DEF DeadUnsubscribed, AcceptedIsRegistered, NoJob
<1>9. /\ DemandTrue(r) /\ HandlesTrue(r) /\ Listed(r) /\ DestroyedEmpty(r)
      /\ NoneStranded(m, r) /\ Progress(m, r)
  BY <1>2, <1>3, <1>5, HoldersKept
<1>10. MarksNamePartner(r) /\ NoneOrphaned(m, r)
  BY <1>2, <1>3, <1>5, RotationKept
<1>11. Guards(m, r)
  <2>1. Unsent(m, r)
    BY <1>4 DEF Unsent
  <2> QED BY <1>3, <1>6, <1>7, <1>8, <1>9, <1>10, <2>1 DEF Guards, Good
<1>12. Guards(s, r)
  BY <1>2, <1>11, GuardsTransitive
<1> QED BY <1>0, <1>1, <1>4, <1>12 DEF SameHolders, SameHeld

-----------------------------------------------------------------------------
(* The connection goes down.                                                 *)

SameOutside(s, r) ==
  /\ r.order = s.order /\ r.demand = s.demand /\ r.handles = s.handles
  /\ r.destroyed = s.destroyed /\ r.queue = s.queue /\ SameJobs(s, r)
  /\ r.registered = s.registered /\ r.answer = s.answer
  /\ r.rotationCurrent = s.rotationCurrent /\ r.rotationQueue = s.rotationQueue

(* One entry of the map is replaced.                                         *)
LEMMA EntryReplaced ==
  ASSUME NEW s \in Supervisors, NEW k \in Keys, NEW e \in Entries
  PROVE  LET r == [s EXCEPT !.entry[k] = e] IN
         /\ r \in Supervisors /\ SameOutside(s, r)
         /\ r.entry[k] = e /\ \A j \in Keys : j # k => r.entry[j] = s.entry[j]
BY DEF Supervisors, SameOutside, SameJobs

(* An entry loses marks, or a subscription, or takes a state that suits it.  *)
LEMMA EntryKeeps ==
  ASSUME NEW s \in Supervisors, Good(s), NEW k \in Keys, NEW e \in Entries,
         e.present = s.entry[k].present, e.refs = s.entry[k].refs,
         e.removing = s.entry[k].removing, e.retarget = s.entry[k].retarget,
         e.waitingTarget = s.entry[k].waitingTarget,
         e.subscribed => s.entry[k].subscribed /\ e.state \in OnWire,
         e.queuedAction \in {"none", s.entry[k].queuedAction},
         e.rotationOutgoing \in {None, s.entry[k].rotationOutgoing},
         e.rotationIncoming => s.entry[k].rotationIncoming
  PROVE  LET r == [s EXCEPT !.entry[k] = e] IN Keeps(s, r) /\ SameHolders(s, r)
<1> DEFINE r == [s EXCEPT !.entry[k] = e]
<1>1. /\ r \in Supervisors /\ SameOutside(s, r)
      /\ r.entry[k] = e /\ \A j \in Keys : j # k => r.entry[j] = s.entry[j]
  BY EntryReplaced
<1> HIDE DEF r
<1>2. SameHolders(s, r)
  BY <1>1 DEF SameOutside, SameHolders
<1>3. SameJobs(s, r)
  BY <1>1 DEF SameOutside
<1>4. EntriesSound(r)
  <2>1. \A j \in Keys : ~Has(s, j) => Blank(s.entry[j])
    BY BlankWhenAbsent
  <2>2. \A j \in Keys : s.entry[j].subscribed => s.entry[j].state \in OnWire
    BY SubscribedOnWire
  <2>3. \A j \in Keys : ~Has(s, j) =>
            ~r.entry[j].subscribed /\ r.entry[j].queuedAction = "none" /\ ~r.entry[j].rotationIncoming
    BY <1>1, <2>1 DEF Blank
  <2>4. \A j \in Keys : r.entry[j].subscribed => r.entry[j].state \in OnWire
    BY <1>1, <2>2
  <2> QED BY <1>1, <1>2, <2>3, <2>4, EntriesSoundIf
<1>5. /\ DemandTrue(r) /\ HandlesTrue(r) /\ Listed(r) /\ DestroyedEmpty(r)
      /\ NoneStranded(s, r) /\ Progress(s, r)
  BY <1>1, <1>2, HoldersKept
<1>6. JobsSound(r)
  BY <1>1, <1>2, <1>3, JobsSoundIf DEF SameOutside
<1>7. NoneJobless(s, r)
  BY <1>1, <1>3 DEF NoneJobless, Unsent, Jobless, SameOutside, SameJobs
<1>8. DeadUnsubscribed(r) /\ AcceptedIsRegistered(r) /\ NoneUnregistered(s, r)
  BY <1>1 DEF DeadUnsubscribed, AcceptedIsRegistered, NoneUnregistered, Unregistered, Good,
              SameOutside, SameJobs
<1>9. MarksNamePartner(r) /\ NoneOrphaned(s, r)
  BY <1>1 DEF MarksNamePartner, NoneOrphaned, Orphaned, Lease, Good, SameOutside
<1>10. Keeps(s, r)
  BY <1>1, <1>4, <1>5, <1>6, <1>7, <1>8, <1>9, AllKept
<1> QED BY <1>2, <1>10 DEF r

Astray(s, k) == Unregistered(s, k) \/ Jobless(s, k)

(* A lost connection puts one entry right, and no other wrong.               *)
LEMMA LostOneGuards ==
  ASSUME NEW turn, Turning(turn), NEW s \in Supervisors, Good(s), NEW k \in Keys
  PROVE  LET r == LostOne(turn, s, k) IN
         Guards(s, r) /\ \A j \in Keys : Astray(r, j) => j # k /\ Astray(s, j)
<1> DEFINE r == LostOne(turn, s, k)
<1>1. CASE ~Has(s, k)
  <2>1. ~Astray(s, k)
    BY <1>1, BlankWhenAbsent DEF Blank, Astray, Unregistered, Jobless
  <2>2. r = s /\ Guards(s, s)
    BY <1>1, KeepsReflexive DEF LostOne, Keeps
  <2> QED BY <2>1, <2>2
<1>2. CASE Has(s, k)
  <2> DEFINE sub == IF State(s, k) \in OnWire THEN FALSE ELSE s.entry[k].subscribed
             e == [s.entry[k] EXCEPT !.queuedAction = "none", !.subscribed = sub]
             t == [s EXCEPT !.entry[k] = e]
  <2>1. s.entry[k] \in Entries
    BY EntryTyped
  <2>2. sub = FALSE
    BY SubscribedOnWire, <2>1 DEF State, Entries
  <2>3. /\ e \in Entries /\ e.present = s.entry[k].present /\ e.refs = s.entry[k].refs
        /\ e.removing = s.entry[k].removing /\ e.retarget = s.entry[k].retarget
        /\ e.waitingTarget = s.entry[k].waitingTarget
        /\ e.subscribed = FALSE /\ e.queuedAction = "none"
        /\ e.rotationOutgoing = s.entry[k].rotationOutgoing
        /\ e.rotationIncoming = s.entry[k].rotationIncoming
    <3>1. "none" \in Actions
      BY ConstantsTyped
    <3> HIDE DEF sub
    <3> QED BY <2>1, <2>2, <3>1 DEF Entries
  <2> DEFINE calm == [s EXCEPT !.entry[k].queuedAction = "none",
                      !.entry[k].subscribed = IF State(s, k) \in OnWire THEN FALSE ELSE @]
  <2>4. t = calm
    BY <2>1 DEF Supervisors, Entries
  <2> DEFINE done == IF s.entry[k].refs = 0 THEN DeleteEntry(turn, t, k)
                     ELSE IF State(s, k) \in OnWire THEN SetState(t, k, "desired") ELSE t
  <2>5. r = done
    <3>1. r = IF s.entry[k].refs = 0 THEN DeleteEntry(turn, calm, k)
              ELSE IF State(s, k) \in OnWire THEN SetState(calm, k, "desired") ELSE calm
      BY <1>2 DEF LostOne
    <3> HIDE DEF t, calm, r
    <3> QED BY <3>1, <2>4
  <2> HIDE DEF e, r
  <2>6. Keeps(s, t) /\ SameHolders(s, t)
    BY <2>3, EntryKeeps
  <2>7. t \in Supervisors /\ t.entry[k] = e
    BY <2>3, EntryReplaced
  <2> HIDE DEF t
  <2>8. t \in Supervisors /\ Good(t) /\ ~Astray(t, k)
    BY <2>3, <2>6, <2>7 DEF Keeps, Guards, Astray, Unregistered, Jobless
  <2>9. Keeps(t, r)
    <3>1. CASE s.entry[k].refs = 0
      <4>1. t.entry[k].refs = 0
        BY <2>3, <2>7, <3>1
      <4> QED BY <2>5, <2>8, <3>1, <4>1 DEF Turning
    <3>2. CASE s.entry[k].refs # 0 /\ State(s, k) \in OnWire
      <4>1. ~t.entry[k].subscribed /\ "desired" \in States
        BY <2>3, <2>7, ConstantsTyped
      <4> QED BY <2>5, <2>8, <3>2, <4>1, SetStateKeeps
    <3>3. CASE s.entry[k].refs # 0 /\ State(s, k) \notin OnWire
      BY <2>5, <2>8, <3>3, KeepsReflexive
    <3> QED BY <3>1, <3>2, <3>3
  <2>10. Keeps(s, r)
    BY <2>6, <2>9, KeepsTransitive
  <2>11. Guards(s, r) /\ \A j \in Keys : Astray(r, j) => j # k /\ Astray(t, j)
    BY <2>8, <2>9, <2>10 DEF Keeps, NoneUnregistered, NoneJobless, Astray
  <2>12. \A j \in Keys : Astray(t, j) => Astray(s, j)
    BY <2>6 DEF Keeps, NoneUnregistered, NoneJobless, Astray
  <2> QED BY <2>11, <2>12 DEF r
<1> QED BY <1>1, <1>2

(* A pending retarget completes, or nothing happens.                         *)
LEMMA RetargetOneKeeps ==
  ASSUME NEW turn, Turning(turn), NEW s \in Supervisors, Good(s), NEW k \in Keys
  PROVE  Keeps(s, RetargetOne(turn, s, k))
<1>1. CASE RetargetOne(turn, s, k) = s
  BY <1>1, KeepsReflexive
<1>2. CASE RetargetOne(turn, s, k) = CompleteRetarget(turn, s, k)
  BY <1>2 DEF Turning
<1> QED BY <1>1, <1>2 DEF RetargetOne

(* Once every entry is put right, none is wrong.                             *)
LEMMA LostAll ==
  ASSUME NEW turn, Turning(turn), NEW s \in Supervisors, Good(s)
  PROVE  LET r == Each([k \in Keys |-> [t \in Supervisors |-> LostOne(turn, t, k)]], s, s.order)
         IN  Guards(s, r) /\ \A k \in Keys : ~Astray(r, k)
<1> DEFINE step == [k \in Keys |-> [t \in Supervisors |-> LostOne(turn, t, k)]]
           q == s.order
           left(n) == {q[i] : i \in (n + 1)..Len(q)}
           Ok(n) == {t \in Supervisors : Guards(s, t) /\ \A k \in Keys : Astray(t, k) => k \in left(n)}
           P == [n \in 0..Len(q) |-> Ok(n)]
<1>1. q \in Seq(Keys) /\ Len(q) \in Nat /\ DOMAIN q = 1..Len(q)
  BY DEF Supervisors
<1> HIDE DEF q
<1>2. s \in P[0]
  <2>1. ASSUME NEW k \in Keys, Astray(s, k) PROVE k \in left(0)
    <3>1. Has(s, k)
      BY <2>1, BlankWhenAbsent DEF Blank, Astray, Unregistered, Jobless
    <3>2. k \in ToSet(q)
      BY <3>1 DEF Good, Listed, q
    <3>3. PICK i \in DOMAIN q : q[i] = k
      BY <3>2 DEF ToSet
    <3>4. i \in (0 + 1)..Len(q)
      BY <1>1
    <3> QED BY <3>3, <3>4
  <2>2. Guards(s, s)
    BY KeepsReflexive DEF Keeps
  <2>3. s \in Ok(0)
    BY <2>1, <2>2
  <2> HIDE DEF Ok
  <2> QED BY <2>3, <1>1
<1>3. ASSUME NEW i \in 1..Len(q), NEW t \in P[i - 1] PROVE step[q[i]][t] \in P[i]
  <2>1. i \in 0..Len(q) /\ i - 1 \in 0..Len(q) /\ q[i] \in Keys
    BY <1>1
  <2>2. t \in Ok(i - 1)
    <3> HIDE DEF Ok
    <3> QED BY <2>1
  <2> DEFINE k == q[i]
             r == LostOne(turn, t, k)
  <2>3. t \in Supervisors /\ Good(t) /\ Guards(s, t)
    BY <2>2 DEF Guards
  <2>4. Guards(t, r) /\ \A j \in Keys : Astray(r, j) => j # k /\ Astray(t, j)
    <3> HIDE DEF k
    <3> QED BY <2>1, <2>3, LostOneGuards DEF k
  <2>5. step[k][t] = r
    BY <2>1, <2>3
  <2>6. ASSUME NEW j \in Keys, Astray(r, j) PROVE j \in left(i)
    <3>1. j # k /\ j \in left(i - 1)
      BY <2>2, <2>4, <2>6
    <3>2. PICK m \in ((i - 1) + 1)..Len(q) : q[m] = j
      BY <3>1
    <3>3. m # i
      BY <3>1, <3>2
    <3>4. m \in (i + 1)..Len(q)
      BY <3>2, <3>3
    <3> QED BY <3>2, <3>4
  <2>7. Guards(s, r) /\ r \in Supervisors
    BY <2>3, <2>4, GuardsTransitive DEF Guards
  <2> HIDE DEF r, step
  <2>8. r \in Ok(i)
    BY <2>6, <2>7
  <2> HIDE DEF Ok
  <2> QED BY <2>1, <2>5, <2>8
<1>4. Each(step, s, q) \in P[Len(q)]
  <2> HIDE DEF P, step
  <2> QED BY <1>1, <1>2, <1>3, EachLeadsTo
<1>5. Each(step, s, q) \in Ok(Len(q))
  <2> HIDE DEF Ok, step
  <2> QED BY <1>1, <1>4
<1>6. left(Len(q)) = {}
  BY <1>1
<1> HIDE DEF step, left
<1> QED BY <1>5, <1>6 DEF step, q

(* All pending retargets complete.                                           *)
LEMMA RetargetAllOfThem ==
  ASSUME NEW turn, Turning(turn), NEW s \in Supervisors, Good(s)
  PROVE  Keeps(s, Each([k \in Keys |-> [t \in Supervisors |-> RetargetOne(turn, t, k)]], s, s.order))
<1> DEFINE step == [k \in Keys |-> [t \in Supervisors |-> RetargetOne(turn, t, k)]]
           q == s.order
           Ok == {t \in Supervisors : Keeps(s, t)}
           P == [n \in 0..Len(q) |-> Ok]
<1>1. q \in Seq(Keys) /\ Len(q) \in Nat
  BY DEF Supervisors
<1> HIDE DEF q
<1>2. s \in P[0]
  BY <1>1, KeepsReflexive
<1>3. ASSUME NEW i \in 1..Len(q), NEW t \in P[i - 1] PROVE step[q[i]][t] \in P[i]
  <2>1. i \in 0..Len(q) /\ i - 1 \in 0..Len(q) /\ q[i] \in Keys
    BY <1>1
  <2>2. t \in Supervisors /\ Keeps(s, t) /\ Good(t)
    BY <2>1 DEF Keeps, Guards
  <2>3. step[q[i]][t] = RetargetOne(turn, t, q[i])
    BY <2>1, <2>2
  <2>4. Keeps(s, RetargetOne(turn, t, q[i]))
    BY <2>1, <2>2, RetargetOneKeeps, KeepsTransitive
  <2> HIDE DEF step
  <2> QED BY <2>1, <2>3, <2>4 DEF Keeps, Guards
<1>4. Each(step, s, q) \in P[Len(q)]
  <2> HIDE DEF P, step
  <2> QED BY <1>1, <1>2, <1>3, EachLeadsTo
<1> HIDE DEF step
<1>5. Keeps(s, Each(step, s, q))
  BY <1>1, <1>4
<1> QED BY <1>5 DEF step, q

(* handleConnectionState leaves no entry marked subscribed or queued that    *)
(* is not, whatever the socket did.                                          *)
LEMMA HandleDownKeeps ==
  ASSUME NEW turn, Turning(turn), NEW s \in Supervisors, Good(s)
  PROVE  LET r == HandleDown(turn, s) IN
         Keeps(s, r) /\ \A k \in Keys : ~Astray(r, k)
<1>1. CASE s.destroyed
  <2>1. \A k \in Keys : ~Astray(s, k)
    BY <1>1, BlankWhenAbsent DEF Good, DestroyedEmpty, Blank, Astray, Unregistered, Jobless
  <2> QED BY <1>1, <2>1, KeepsReflexive DEF HandleDown
<1>2. CASE ~s.destroyed
  <2> DEFINE m == Cancelled(s)
             lost == Each([k \in Keys |-> [t \in Supervisors |-> LostOne(turn, t, k)]], m, m.order)
             r == Each([k \in Keys |-> [t \in Supervisors |-> RetargetOne(turn, t, k)]], lost, lost.order)
  <2>1. HandleDown(turn, s) = r
    BY <1>2 DEF HandleDown, Cancelled
  <2> HIDE DEF m
  <2>2. Guards(s, m) /\ m \in Supervisors /\ Good(m)
    BY CancelledGuards DEF Guards, m
  <2>3. Guards(m, lost) /\ \A k \in Keys : ~Astray(lost, k)
    BY <2>2, LostAll
  <2> HIDE DEF lost
  <2>4. lost \in Supervisors /\ Good(lost)
    BY <2>3 DEF Guards
  <2>5. Keeps(lost, r)
    BY <2>4, RetargetAllOfThem
  <2> HIDE DEF r
  <2>6. Guards(s, r)
    BY <2>2, <2>3, <2>5, GuardsTransitive DEF Keeps
  <2>7. \A k \in Keys : ~Astray(r, k)
    BY <2>3, <2>5 DEF Keeps, NoneUnregistered, NoneJobless, Astray
  <2> QED BY <2>1, <2>6, <2>7 DEF Keeps, Guards, NoneUnregistered, NoneJobless, Astray
<1> QED BY <1>1, <1>2

(* A connection dropped by the client is the same.                           *)
LEMMA DroppedDownKeeps ==
  ASSUME NEW turn, Turning(turn), NEW s \in Supervisors, Good(s)
  PROVE  LET r == HandleDown(turn, Dropped(s)) IN
         Keeps(s, r) /\ \A k \in Keys : ~Astray(r, k)
<1> DEFINE t == Dropped(s)
           r == HandleDown(turn, t)
<1>1. Guards(s, t) /\ t \in Supervisors /\ Good(t)
  BY DroppedGuards DEF Guards
<1> HIDE DEF t
<1>2. Keeps(t, r) /\ \A k \in Keys : ~Astray(r, k)
  BY <1>1, HandleDownKeeps
<1> HIDE DEF r
<1>3. Guards(s, r)
  BY <1>1, <1>2, GuardsTransitive DEF Keeps
<1>4. Keeps(s, r)
  BY <1>2, <1>3 DEF Keeps, Guards, NoneUnregistered, NoneJobless, Astray
<1> QED BY <1>2, <1>4 DEF r, t

(* forceReconnect keeps the state in order.                                  *)
LEMMA ForceReconnectKeeps ==
  ASSUME NEW turn, Turning(turn), NEW s \in Supervisors, Good(s)
  PROVE  Keeps(s, ForceReconnect(turn, s))
<1>1. CASE ForceReconnect(turn, s) = s
  BY <1>1, KeepsReflexive
<1>2. CASE ForceReconnect(turn, s) = HandleDown(turn, Dropped(s))
  BY <1>2, DroppedDownKeeps
<1> QED BY <1>1, <1>2 DEF ForceReconnect

-----------------------------------------------------------------------------
(* Sending and promotion.                                                    *)

(* The job a timer or a send holds is another one.                           *)
LEMMA JobsMoved ==
  ASSUME NEW s \in Supervisors, NEW r \in Supervisors, Good(s), SameHeld(s, r), SameCourse(s, r),
         r.queue = s.queue, r.registered = s.registered, r.answer = s.answer,
         r.currentJob = s.currentJob, Points(s, r.sendTimer), Points(s, r.sending)
  PROVE  /\ Good(r)
         /\ Unsent(s, r) => Keeps(s, r)
<1>1. SameHolders(s, r) /\ SameStates(s, r) /\ SameRotation(s, r)
  BY HeldFrames
<1>2. JobsSound(r)
  BY DEF JobsSound, Points, SameHeld, Has, Good
<1>3. Unsent(s, r) => NoneJobless(s, r)
  BY DEF SameHeld, NoneJobless, Jobless
<1>4. DeadUnsubscribed(r) /\ AcceptedIsRegistered(r) /\ NoneUnregistered(s, r)
  BY DEF SameHeld, DeadUnsubscribed, AcceptedIsRegistered, NoneUnregistered, Unregistered, Good
<1>5. EntriesSound(r)
  BY DEF SameHeld, EntriesSound, Good
<1>6. Good(r)
  BY <1>1, <1>2, <1>4, <1>5, HoldersKept, RotationKept DEF Good
<1> QED BY <1>1, <1>2, <1>3, <1>4, <1>5, <1>6, HoldersKept, RotationKept, AllKept

(* A job may wait for the spacing timer.                                     *)
LEMMA SendTimerKeeps ==
  ASSUME NEW s \in Supervisors, Good(s), NEW job \in Jobs, Points(s, job)
  PROVE  Keeps(s, [s EXCEPT !.sendTimer = job])
<1> DEFINE r == [s EXCEPT !.sendTimer = job]
<1>1. r \in Supervisors /\ SameHeld(s, r) /\ SameCourse(s, r) /\ r.currentJob = s.currentJob
      /\ r.queue = s.queue /\ r.registered = s.registered /\ r.answer = s.answer
      /\ r.sendTimer = job /\ r.sending = s.sending
  BY DEF Supervisors, SameHeld, SameCourse
<1> HIDE DEF r
<1>2. Points(s, r.sendTimer) /\ Points(s, r.sending) /\ Unsent(s, r)
  BY <1>1 DEF Good, JobsSound, Unsent
<1>3. Keeps(s, r)
  BY <1>1, <1>2, JobsMoved
<1> QED BY <1>3 DEF r

(* A job may be inside sendJob while the connection goes down.               *)
LEMMA SendingKeeps ==
  ASSUME NEW s \in Supervisors, Good(s), NEW job \in Jobs, Points(s, job)
  PROVE  LET r == [s EXCEPT !.sending = job] IN
         /\ r \in Supervisors /\ Good(r) /\ SameHeld(s, r) /\ r.sending = job
         /\ job = NoJob => Keeps(s, r)
         /\ \A u : Keeps(r, u) /\ u.sending = NoJob => Keeps(s, u)
<1> DEFINE r == [s EXCEPT !.sending = job]
<1>1. r \in Supervisors /\ SameHeld(s, r) /\ SameCourse(s, r) /\ r.currentJob = s.currentJob
      /\ r.queue = s.queue /\ r.registered = s.registered /\ r.answer = s.answer
      /\ r.sendTimer = s.sendTimer /\ r.sending = job
  BY DEF Supervisors, SameHeld, SameCourse
<1> HIDE DEF r
<1>2. Points(s, r.sendTimer) /\ Points(s, r.sending)
  BY <1>1 DEF Good, JobsSound
<1>3. Good(r)
  BY <1>1, <1>2, JobsMoved
<1>4. ASSUME job = NoJob PROVE Keeps(s, r)
  BY <1>1, <1>2, <1>4, JobsMoved DEF Unsent
<1>5. ASSUME NEW u, Keeps(r, u), u.sending = NoJob PROVE Keeps(s, u)
  <2>1. /\ NoneStranded(r, u) => NoneStranded(s, u)
        /\ NoneOrphaned(r, u) => NoneOrphaned(s, u)
        /\ NoneUnregistered(r, u) => NoneUnregistered(s, u)
    BY <1>1 DEF SameHeld, SameCourse, NoneStranded, Stranded, WaitsFor, Has, NoneOrphaned,
                Orphaned, Lease, NoneUnregistered, Unregistered
  <2>2. NoneJobless(r, u) => NoneJobless(s, u)
    BY <1>1, <1>5 DEF SameHeld, NoneJobless, Jobless, Unsent
  <2>3. Progress(r, u) => Progress(s, u)
    BY <1>1 DEF SameHeld, Progress, Pending, Over, Held, Has
  <2> QED BY <1>5, <2>1, <2>2, <2>3 DEF Keeps, Guards, Unsent
<1> QED BY <1>1, <1>3, <1>4, <1>5 DEF r

(* A job whose frame is sent becomes the current one.                        *)
LEMMA SentKeeps ==
  ASSUME NEW s \in Supervisors, Good(s), s.currentJob = NoJob,
         NEW job \in Jobs, Points(s, job), job.alive
  PROVE  Keeps(s, Sent(s, job))
<1> DEFINE k == job.key
           x == IF job.action = "subscribe" THEN "pending" ELSE s.entry[k].state
           e == [s.entry[k] EXCEPT !.state = x]
           gone == IF job.action = "subscribe" THEN s.retired \ {k} ELSE s.retired
           r == [s EXCEPT !.currentJob = job, !.paused = TRUE, !.answer = "sent",
                          !.entry[k] = e, !.retired = gone]
<1>1. k \in Keys /\ Has(s, k)
  BY DEF Points
<1> HIDE DEF k
<1>2. s.entry[k] \in Entries
  BY <1>1, EntryTyped
<1>3. /\ e \in Entries /\ e.present = s.entry[k].present /\ e.refs = s.entry[k].refs
      /\ e.removing = s.entry[k].removing /\ e.retarget = s.entry[k].retarget
      /\ e.waitingTarget = s.entry[k].waitingTarget /\ e.subscribed = s.entry[k].subscribed
      /\ e.queuedAction = s.entry[k].queuedAction /\ e.state = x
      /\ e.rotationOutgoing = s.entry[k].rotationOutgoing
      /\ e.rotationIncoming = s.entry[k].rotationIncoming
  <2>1. x \in States
    BY <1>2, ConstantsTyped DEF Entries
  <2> HIDE DEF x
  <2> QED BY <1>2, <2>1 DEF Entries
<1>4. Sent(s, job) = r
  <2>1. CASE job.action = "subscribe"
    BY <1>1, <2>1 DEF Sent, Supervisors, k
  <2>2. CASE job.action # "subscribe"
    <3>1. e = s.entry[k]
      BY <1>2, <2>2 DEF Entries
    <3>2. r = [s EXCEPT !.currentJob = job, !.paused = TRUE, !.answer = "sent"]
      <4> HIDE DEF e
      <4> QED BY <1>1, <2>2, <3>1 DEF Supervisors
    <3> HIDE DEF r
    <3> QED BY <2>2, <3>2 DEF Sent
  <2> QED BY <2>1, <2>2
<1> HIDE DEF e
<1>5. r \in Supervisors
  <2>1. gone \in SUBSET Keys
    BY DEF Supervisors
  <2> HIDE DEF gone
  <2> QED BY <1>3, <2>1 DEF Supervisors
<1>6. /\ r.entry[k] = e /\ \A j \in Keys : j # k => r.entry[j] = s.entry[j]
      /\ r.currentJob = job /\ r.answer = "sent"
  BY <1>1 DEF Supervisors
<1>7. /\ r.order = s.order /\ r.demand = s.demand /\ r.handles = s.handles
      /\ r.destroyed = s.destroyed /\ r.queue = s.queue
      /\ r.sendTimer = s.sendTimer /\ r.sending = s.sending /\ r.registered = s.registered
      /\ r.rotationCurrent = s.rotationCurrent /\ r.rotationQueue = s.rotationQueue
  BY DEF Supervisors
<1> HIDE DEF r
<1>8. SameHolders(s, r) /\ SameQueue(s, r) /\ SameRotation(s, r)
  BY <1>3, <1>6, <1>7 DEF SameHolders, SameQueue, SameRotation
<1>9. EntriesSound(r)
  <2>1. \A j \in Keys : ~Has(s, j) => Blank(s.entry[j])
    BY BlankWhenAbsent
  <2>2. \A j \in Keys : s.entry[j].subscribed => s.entry[j].state \in OnWire
    BY SubscribedOnWire
  <2>3. \A j \in Keys : ~Has(s, j) =>
            ~r.entry[j].subscribed /\ r.entry[j].queuedAction = "none" /\ ~r.entry[j].rotationIncoming
    BY <1>3, <1>6, <2>1 DEF Blank
  <2>4. \A j \in Keys : r.entry[j].subscribed => r.entry[j].state \in OnWire
    BY <1>3, <1>6, <2>2 DEF OnWire
  <2> QED BY <1>5, <1>8, <2>3, <2>4, EntriesSoundIf
<1>10. JobsSound(r) /\ NoneJobless(s, r)
  <2>1. \A j \in Keys : Has(r, j) = Has(s, j)
    BY <1>5, <1>8, SameHas
  <2>2. \A one \in ToSet(s.queue) : one.key \in Keys
    BY QueueTyped DEF QueuedJobs
  <2>3. JobsSound(s)
    BY DEF Good
  <2>4. JobsSound(r)
    BY <1>6, <1>7, <2>1, <2>2, <2>3 DEF JobsSound, Points
  <2>5. NoneJobless(s, r)
    BY <1>7, <1>8 DEF SameQueue, NoneJobless, Unsent, Jobless
  <2> QED BY <2>4, <2>5
<1>11. DeadUnsubscribed(r) /\ AcceptedIsRegistered(r)
  BY <1>6 DEF DeadUnsubscribed, AcceptedIsRegistered
<1>12. NoneUnregistered(s, r)
  <2>1. \A j \in Keys : r.entry[j].subscribed = s.entry[j].subscribed
    BY <1>3, <1>6
  <2> QED BY <1>7, <2>1, KeysAssumption DEF NoneUnregistered, Unregistered, NoJob
<1>13. Keeps(s, r)
  BY <1>5, <1>8, <1>9, <1>10, <1>11, <1>12, HoldersKept, RotationKept, AllKept
<1> QED BY <1>4, <1>13

(* A key that is sent for is no longer retired.                              *)
LEMMA AwaitedKeeps ==
  ASSUME NEW s \in Supervisors, Good(s), NEW job \in Jobs
  PROVE  Keeps(s, Awaited(s, job)) /\ Awaited(s, job).entry = s.entry
<1>1. CASE job.action = "subscribe"
  <2> DEFINE rest == s.retired \ {job.key}
             r == [s EXCEPT !.retired = rest]
  <2>1. rest \in SUBSET Keys
    BY DEF Supervisors
  <2>2. Awaited(s, job) = r
    BY <1>1 DEF Awaited
  <2> HIDE DEF rest
  <2>3. Keeps(s, r) /\ r.entry = s.entry
    BY <2>1, OpenAgainKeeps DEF Supervisors
  <2> QED BY <2>2, <2>3
<1>2. CASE job.action # "subscribe"
  BY <1>2, KeepsReflexive DEF Awaited
<1> QED BY <1>1, <1>2

(* A send that fails keeps the state in order, whether or not it takes the   *)
(* connection down.                                                          *)
LEMMA NotSentKeeps ==
  ASSUME NEW turn, Turning(turn), NEW s \in Supervisors, Good(s), NEW job \in Jobs, Points(s, job)
  PROVE  Keeps(s, NotSent(turn, s, job))
<1> DEFINE held == [s EXCEPT !.sending = job]
           t == HandleDown(turn, Dropped(held))
           u == [t EXCEPT !.sending = NoJob]
<1>1. CASE s.socket # "failing"
  BY <1>1, RequeueKeeps DEF NotSent
<1>2. CASE s.socket = "failing"
  <2>1. NotSent(turn, s, job) = Requeue(u, t.sending, TRUE)
    BY <1>2 DEF NotSent
  <2>2. /\ held \in Supervisors /\ Good(held)
        /\ \A x : Keeps(held, x) /\ x.sending = NoJob => Keeps(s, x)
    BY SendingKeeps
  <2> HIDE DEF held
  <2>4. Keeps(held, t)
    BY <2>2, DroppedDownKeeps
  <2> HIDE DEF t
  <2>5. t \in Supervisors /\ Good(t)
    BY <2>4 DEF Keeps, Guards
  <2>6. t.sending \in Jobs /\ Points(t, t.sending)
    BY <2>5 DEF Supervisors, Good, JobsSound
  <2>7. Keeps(t, u) /\ SameHeld(t, u) /\ u.sending = NoJob
    <3>1. NoJob \in Jobs /\ Points(t, NoJob)
      BY ConstantsTyped, KeysAssumption DEF Points, NoJob
    <3> QED BY <2>5, <3>1, SendingKeeps
  <2> HIDE DEF u
  <2>8. u \in Supervisors /\ Good(u) /\ Points(u, t.sending)
    BY <2>6, <2>7 DEF Keeps, Guards, SameHeld, Points, Has
  <2>9. Keeps(u, Requeue(u, t.sending, TRUE))
    BY <2>6, <2>8, RequeueKeeps
  <2> DEFINE r == Requeue(u, t.sending, TRUE)
  <2>10. Keeps(held, r) /\ r.sending = NoJob
    <3>1. Keeps(held, r)
      BY <2>4, <2>7, <2>9, KeepsTransitive
    <3>2. r.sending = NoJob
      BY <2>7, <2>9 DEF Keeps, Guards, Unsent
    <3> QED BY <3>1, <3>2
  <2> HIDE DEF r
  <2>11. Keeps(s, r)
    BY <2>2, <2>10
  <2> QED BY <2>1, <2>11 DEF r
<1> QED BY <1>1, <1>2

(* sendJob keeps the state in order, whether or not the frame gets out.      *)
LEMMA SendJobKeeps ==
  ASSUME NEW turn, Turning(turn), NEW s \in Supervisors, Good(s), NEW job \in Jobs, Points(s, job)
  PROVE  Keeps(s, SendJob(turn, s, job))
<1> DEFINE early == s.destroyed \/ s.requiresFreshOpen \/ s.conn # "open" \/ s.currentJob # NoJob
           t == Awaited(s, job)
<1>1. CASE early
  BY <1>1, RequeueKeeps DEF SendJob
<1>2. CASE ~early /\ ~job.alive
  BY <1>2 DEF SendJob, Turning
<1>3. CASE ~early /\ job.alive /\ s.socket = "open"
  BY <1>3, SentKeeps DEF SendJob
<1>4. CASE ~early /\ job.alive /\ s.socket # "open"
  <2>1. SendJob(turn, s, job) = NotSent(turn, t, job)
    BY <1>4 DEF SendJob
  <2>2. Keeps(s, t) /\ t.entry = s.entry
    BY AwaitedKeeps
  <2> HIDE DEF t
  <2>3. t \in Supervisors /\ Good(t) /\ Points(t, job)
    BY <2>2 DEF Keeps, Guards, Points, Has
  <2>4. Keeps(t, NotSent(turn, t, job))
    BY <2>3, NotSentKeeps
  <2> QED BY <2>1, <2>2, <2>4, KeepsTransitive
<1> QED BY <1>1, <1>2, <1>3, <1>4

(* pump keeps the state in order.                                            *)
LEMMA PumpKeeps ==
  ASSUME NEW turn, Turning(turn), NEW s \in Supervisors, Good(s)
  PROVE  Keeps(s, Pump(turn, s))
<1> DEFINE f == FirstSensible(s)
           next == s.queue[f]
           job == [key |-> next.key, action |-> next.action, alive |-> TRUE]
           t == TakeJobs(s)
<1>1. Keeps(s, t) /\ SameHolders(s, t)
  BY TakeJobsKeeps
<1> HIDE DEF t
<1>2. t \in Supervisors /\ Good(t)
  BY <1>1 DEF Keeps, Guards
<1>3. CASE Blocked(s)
  BY <1>3, KeepsReflexive DEF Pump
<1>4. CASE ~Blocked(s) /\ f = 0
  BY <1>1, <1>4 DEF Pump, t
<1>5. CASE ~Blocked(s) /\ f # 0
  <2>1. f \in 1..Len(s.queue)
    <3>1. f \in 0..Len(s.queue) /\ Len(s.queue) \in Nat
      BY FirstSensibleIn DEF Supervisors
    <3> HIDE DEF f
    <3> QED BY <1>5, <3>1
  <2> HIDE DEF f
  <2>2. next \in QueuedJobs /\ next \in ToSet(s.queue)
    BY <2>1 DEF Supervisors, ToSet
  <2>3. next.key \in Keys /\ next.action \in Actions /\ next.action # "none"
    BY <2>2 DEF QueuedJobs
  <2>4. Has(s, next.key)
    BY <2>2 DEF Good, JobsSound
  <2>5. Has(t, next.key)
    BY <1>1, <2>3, <2>4 DEF SameHolders, Has
  <2> HIDE DEF next
  <2>6. job \in Jobs /\ Points(t, job)
    BY <2>3, <2>5 DEF Jobs, Points
  <2>7. Pump(turn, s) = IF s.paused THEN [t EXCEPT !.sendTimer = job] ELSE SendJob(turn, t, job)
    BY <1>5 DEF Pump, t, next, f
  <2> HIDE DEF job
  <2>8. Keeps(t, Pump(turn, s))
    BY <1>2, <2>6, <2>7, SendTimerKeeps, SendJobKeeps
  <2> QED BY <1>1, <2>8, KeepsTransitive
<1> QED BY <1>3, <1>4, <1>5

(* promoteParked keeps the state in order.                                   *)
LEMMA PromoteParkedKeeps ==
  ASSUME NEW turn, Turning(turn), NEW s \in Supervisors, Good(s)
  PROVE  Keeps(s, PromoteParked(turn, s))
<1> DEFINE S == {k \in ParkedKeys(s) : ~s.entry[k].rotationIncoming}
           waiting == InOrder(s, S)
           k == waiting[1]
           t == SetState(s, k, "desired")
           u == EnqueueSubscribe(t, k)
<1>1. CASE PromoteParked(turn, s) = s
  BY <1>1, KeepsReflexive
<1>2. CASE PromoteParked(turn, s) # s
  <2>1. waiting # <<>> /\ PromoteParked(turn, s) = Pump(turn, u)
    BY <1>2 DEF PromoteParked
  <2>2. waiting \in Seq(Keys) /\ ToSet(waiting) \subseteq S
    BY InOrderIs
  <2> HIDE DEF waiting
  <2>3. k \in Keys /\ k \in ToSet(waiting)
    BY <2>1, <2>2 DEF ToSet
  <2>4. k \in Keys /\ s.entry[k].state = "parked"
    BY <2>2, <2>3 DEF ParkedKeys, State
  <2> HIDE DEF k
  <2>5. ~s.entry[k].subscribed
    BY <2>4, SubscribedOnWire DEF OnWire
  <2>6. Keeps(s, t)
    BY <2>4, <2>5, SetStateKeeps, ConstantsTyped
  <2> HIDE DEF t
  <2>7. t \in Supervisors /\ Good(t)
    BY <2>6 DEF Keeps, Guards
  <2>8. Keeps(t, u)
    BY <2>4, <2>7, EnqueueSubscribeKeeps
  <2> HIDE DEF u
  <2>9. u \in Supervisors /\ Good(u)
    BY <2>8 DEF Keeps, Guards
  <2>10. Keeps(u, Pump(turn, u))
    BY <2>9, PumpKeeps
  <2> QED BY <2>1, <2>6, <2>8, <2>10, KeepsTransitive
<1> QED BY <1>1, <1>2

(* enforceSubscriptionCap and promoteParked keep the state in order.         *)
LEMMA RebalanceKeeps ==
  ASSUME NEW turn, Turning(turn), NEW s \in Supervisors, Good(s)
  PROVE  Keeps(s, Rebalance(turn, s))
<1> DEFINE t == EnforceCap(s)
<1>1. CASE s.destroyed
  BY <1>1, KeepsReflexive DEF Rebalance
<1>2. CASE ~s.destroyed
  <2>1. Keeps(s, t)
    BY EnforceCapKeeps
  <2> HIDE DEF t
  <2>2. t \in Supervisors /\ Good(t)
    BY <2>1 DEF Keeps, Guards
  <2>3. Keeps(t, PromoteParked(turn, t))
    BY <2>2, PromoteParkedKeeps
  <2>4. Rebalance(turn, s) = PromoteParked(turn, t)
    BY <1>2 DEF Rebalance, t
  <2> QED BY <2>1, <2>3, <2>4, KeepsTransitive
<1> QED BY <1>1, <1>2

-----------------------------------------------------------------------------
(* Rotation.                                                                 *)

SameButMarks(e, d) ==
  /\ e.present = d.present /\ e.refs = d.refs /\ e.removing = d.removing
  /\ e.retarget = d.retarget /\ e.waitingTarget = d.waitingTarget
  /\ e.subscribed = d.subscribed /\ e.state = d.state /\ e.queuedAction = d.queuedAction

(* The elements of a sequence are its head and those of its tail.            *)
LEMMA HeadTailSet ==
  ASSUME NEW R, NEW q \in Seq(R), q # <<>>
  PROVE  Head(q) \in R /\ Tail(q) \in Seq(R) /\ ToSet(q) = {Head(q)} \cup ToSet(Tail(q))
<1>1. /\ Len(q) \in Nat /\ Len(q) >= 1 /\ Head(q) = q[1] /\ Head(q) \in R
      /\ Tail(q) \in Seq(R) /\ Len(Tail(q)) = Len(q) - 1
      /\ \A i \in 1..(Len(q) - 1) : Tail(q)[i] = q[i + 1]
  OBVIOUS
<1>2. DOMAIN q = 1..Len(q) /\ DOMAIN Tail(q) = 1..(Len(q) - 1)
  BY <1>1
<1>3. ASSUME NEW x \in ToSet(q), x # Head(q) PROVE x \in ToSet(Tail(q))
  <2>1. PICK i \in 1..Len(q) : q[i] = x
    BY <1>2 DEF ToSet
  <2>2. i # 1
    BY <1>1, <1>3, <2>1
  <2>3. i - 1 \in 1..(Len(q) - 1) /\ (i - 1) + 1 = i
    BY <1>1, <2>2
  <2>4. Tail(q)[i - 1] = x
    BY <1>1, <2>1, <2>3
  <2> QED BY <1>2, <2>3, <2>4 DEF ToSet
<1>4. ASSUME NEW x \in ToSet(Tail(q)) PROVE x \in ToSet(q)
  <2>1. PICK i \in 1..(Len(q) - 1) : Tail(q)[i] = x
    BY <1>2 DEF ToSet
  <2>2. i + 1 \in 1..Len(q) /\ q[i + 1] = x
    BY <1>1, <2>1
  <2> QED BY <1>2, <2>2 DEF ToSet
<1>5. Head(q) \in ToSet(q)
  <2>1. 1 \in DOMAIN q
    BY <1>1, <1>2
  <2> QED BY <1>1, <2>1 DEF ToSet
<1> QED BY <1>1, <1>3, <1>4, <1>5

(* Only the pairs and the marks of a rotation change, and go together.       *)
LEMMA MarksMoved ==
  ASSUME NEW s \in Supervisors, Good(s),
         NEW f \in [Keys -> Entries], NEW c \in Pairs, NEW q \in Seq(Pairs),
         \A k \in Keys : SameButMarks(f[k], s.entry[k]),
         \A k \in Keys : ~Has(s, k) => ~f[k].rotationIncoming,
         \A pair \in {c} \cup ToSet(q) :
            pair.outgoing \in Keys => f[pair.outgoing].rotationOutgoing \in {None, pair.incoming},
         \A k \in Keys : f[k].rotationIncoming =>
            Orphaned(s, k) \/ \E pair \in {c} \cup ToSet(q) : pair.incoming = k
  PROVE  LET r == [s EXCEPT !.entry = f, !.rotationCurrent = c, !.rotationQueue = q]
         IN  Keeps(s, r) /\ r.rotationCurrent = c
<1> DEFINE r == [s EXCEPT !.entry = f, !.rotationCurrent = c, !.rotationQueue = q]
<1>1. r \in Supervisors
  BY DEF Supervisors
<1>2. /\ r.entry = f /\ r.rotationCurrent = c /\ r.rotationQueue = q
      /\ SameJobs(s, r) /\ r.queue = s.queue /\ r.order = s.order
      /\ r.demand = s.demand /\ r.handles = s.handles /\ r.destroyed = s.destroyed
      /\ r.registered = s.registered /\ r.answer = s.answer
  BY DEF Supervisors, SameJobs
<1> HIDE DEF r
<1>3. SameHolders(s, r) /\ SameQueue(s, r) /\ SameSocket(s, r) /\ SameStates(s, r)
  BY <1>2 DEF SameButMarks, SameHolders, SameQueue, SameSocket, SameStates
<1>4. EntriesSound(r)
  <2>1. \A k \in Keys : ~Has(s, k) => Blank(s.entry[k])
    BY BlankWhenAbsent
  <2>2. \A k \in Keys : s.entry[k].subscribed => s.entry[k].state \in OnWire
    BY SubscribedOnWire
  <2> QED BY <1>1, <1>2, <1>3, <2>1, <2>2, EntriesSoundIf DEF Blank, SameQueue, SameSocket, SameStates
<1>5. MarksNamePartner(r) /\ NoneOrphaned(s, r)
  BY <1>2 DEF MarksNamePartner, NoneOrphaned, Orphaned, Lease
<1>6. Keeps(s, r)
  BY <1>1, <1>2, <1>3, <1>4, <1>5, HoldersKept, JobsKept, SocketKept, AllKept
<1> QED BY <1>2, <1>6 DEF r

Unmarked(s, pair) ==
  [k \in Keys |->
      [s.entry[k] EXCEPT !.rotationOutgoing = IF k = pair.outgoing THEN None ELSE @,
                         !.rotationIncoming = IF k = pair.incoming THEN FALSE ELSE @]]

(* Entries without the marks of one pair.                                    *)
LEMMA UnmarkedIs ==
  ASSUME NEW s \in Supervisors, NEW pair
  PROVE  LET f == Unmarked(s, pair) IN
         /\ f \in [Keys -> Entries]
         /\ \A k \in Keys :
              /\ SameButMarks(f[k], s.entry[k])
              /\ f[k].rotationOutgoing = IF k = pair.outgoing THEN None ELSE s.entry[k].rotationOutgoing
              /\ f[k].rotationIncoming = IF k = pair.incoming THEN FALSE ELSE s.entry[k].rotationIncoming
<1> DEFINE f == Unmarked(s, pair)
<1>1. ASSUME NEW k \in Keys
      PROVE  /\ f[k] \in Entries /\ SameButMarks(f[k], s.entry[k])
             /\ f[k].rotationOutgoing = IF k = pair.outgoing THEN None ELSE s.entry[k].rotationOutgoing
             /\ f[k].rotationIncoming = IF k = pair.incoming THEN FALSE ELSE s.entry[k].rotationIncoming
  <2> DEFINE out == IF k = pair.outgoing THEN None ELSE s.entry[k].rotationOutgoing
             inc == IF k = pair.incoming THEN FALSE ELSE s.entry[k].rotationIncoming
  <2>1. s.entry[k] \in Entries /\ None \in Refs
    BY EntryTyped, ConstantsTyped
  <2>2. f[k] = [s.entry[k] EXCEPT !.rotationOutgoing = out, !.rotationIncoming = inc]
    BY DEF Unmarked
  <2>3. out \in Refs /\ inc \in BOOLEAN
    BY <2>1 DEF Entries
  <2> HIDE DEF f, out, inc
  <2>4. /\ f[k] \in Entries /\ SameButMarks(f[k], s.entry[k])
        /\ f[k].rotationOutgoing = out /\ f[k].rotationIncoming = inc
    BY <2>1, <2>2, <2>3 DEF Entries, SameButMarks
  <2> QED BY <2>4 DEF out, inc
<1>2. f \in [Keys -> Entries]
  <2>1. \A k \in Keys : f[k] \in Entries
    BY <1>1
  <2>2. f = [k \in Keys |-> f[k]]
    BY DEF Unmarked
  <2> HIDE DEF f
  <2> QED BY <2>1, <2>2
<1> HIDE DEF f
<1> QED BY <1>1, <1>2 DEF f

(* The lease is the running pair and those queued.                           *)
LEMMA LeaseIs ==
  ASSUME NEW s \in Supervisors, Good(s), NEW k \in Keys, s.entry[k].rotationIncoming
  PROVE  Orphaned(s, k) \/ \E pair \in Lease(s) : pair.incoming = k
BY DEF Orphaned

(* An entry set aside is in the map.                                         *)
LEMMA IncomingIsThere ==
  ASSUME NEW s \in Supervisors, Good(s), NEW k \in Keys, s.entry[k].rotationIncoming
  PROVE  Has(s, k)
BY BlankWhenAbsent DEF Blank

(* The marks of a pair that ends, or never begins, are taken off.            *)
LEMMA UnmarkKeeps ==
  ASSUME NEW s \in Supervisors, Good(s), NEW ended, NEW q \in Seq(Pairs),
         ToSet(q) \subseteq Lease(s),
         \A p \in Lease(s) : p.incoming \in {None, ended.incoming} \/ p \in ToSet(q)
  PROVE  Keeps(s, [s EXCEPT !.entry = Unmarked(s, ended), !.rotationCurrent = NoPair,
                            !.rotationQueue = q])
<1> DEFINE f == Unmarked(s, ended)
           r == [s EXCEPT !.entry = f, !.rotationCurrent = NoPair, !.rotationQueue = q]
<1>1. /\ f \in [Keys -> Entries]
      /\ \A k \in Keys :
        /\ SameButMarks(f[k], s.entry[k])
        /\ f[k].rotationOutgoing = IF k = ended.outgoing THEN None ELSE s.entry[k].rotationOutgoing
        /\ f[k].rotationIncoming = IF k = ended.incoming THEN FALSE ELSE s.entry[k].rotationIncoming
  BY ZenonT(40), UnmarkedIs
<1>2. NoPair.outgoing = None /\ NoPair.incoming = None /\ None \notin Keys /\ NoPair \in Pairs
  BY KeysAssumption, ConstantsTyped DEF NoPair
<1> HIDE DEF f
<1>3. \A k \in Keys : ~Has(s, k) => ~f[k].rotationIncoming
  BY <1>1, IncomingIsThere
<1>4. \A p \in {NoPair} \cup ToSet(q) :
        p.outgoing \in Keys => f[p.outgoing].rotationOutgoing \in {None, p.incoming}
  <2>1. MarksNamePartner(s)
    BY DEF Good
  <2> QED BY ZenonT(40), <1>1, <1>2, <2>1 DEF MarksNamePartner
<1>5. \A k \in Keys : f[k].rotationIncoming =>
        Orphaned(s, k) \/ \E p \in {NoPair} \cup ToSet(q) : p.incoming = k
  BY <1>1, <1>2 DEF Orphaned
<1>6. Keeps(s, r)
  BY <1>1, <1>2, <1>3, <1>4, <1>5, MarksMoved
<1> QED BY <1>6 DEF f

(* A pair is taken back.                                                     *)
LEMMA UnmarkIs ==
  ASSUME NEW s, NEW pair
  PROVE  Unmark(s, pair) = [s EXCEPT !.entry = Unmarked(s, pair)]
BY DEF Unmark, Unmarked

(* advanceRotation keeps the state in order.                                 *)
LEMMA RotationAdvancedKeeps ==
  ASSUME NEW turn, Turning(turn), NEW s \in Supervisors, Good(s)
  PROVE  Keeps(s, RotationAdvanced(turn, s))
<1> DEFINE pair == Head(s.rotationQueue)
           rest == Tail(s.rotationQueue)
           t == [s EXCEPT !.rotationQueue = Tail(@)]
           begun == [t EXCEPT !.rotationCurrent = pair]
           f == Unmarked(s, pair)
<1>1. CASE s.rotationCurrent # NoPair \/ s.rotationQueue = <<>>
  BY <1>1, KeepsReflexive DEF RotationAdvanced
<1>2. CASE s.rotationCurrent = NoPair /\ s.rotationQueue # <<>>
  <2>1. pair \in Pairs /\ rest \in Seq(Pairs) /\ ToSet(s.rotationQueue) = {pair} \cup ToSet(rest)
    BY <1>2, HeadTailSet DEF Supervisors
  <2>2. begun = [s EXCEPT !.entry = s.entry, !.rotationCurrent = pair, !.rotationQueue = rest]
    BY DEF Supervisors
  <2>3. Unmark(t, pair) = [s EXCEPT !.entry = f, !.rotationCurrent = NoPair, !.rotationQueue = rest]
    <3>1. Unmark(t, pair) = [t EXCEPT !.entry = f]
      <4>1. Unmarked(t, pair) = f
        BY DEF Unmarked, Supervisors
      <4> HIDE DEF f, t, pair
      <4> QED BY <4>1, UnmarkIs
    <3> HIDE DEF f, pair
    <3>2. [t EXCEPT !.entry = f] =
            [s EXCEPT !.entry = f, !.rotationCurrent = NoPair, !.rotationQueue = rest]
      BY <1>2 DEF Supervisors
    <3> HIDE DEF t
    <3> QED BY <3>1, <3>2
  <2>4. RotationAdvanced(turn, s) =
           IF Exchangeable(s, pair) THEN Pump(turn, EnqueueUnsubscribe(begun, pair.outgoing))
           ELSE AdvanceRotation(turn, Unmark(t, pair))
    BY <1>2 DEF RotationAdvanced
  <2>5. NoPair.outgoing = None /\ NoPair.incoming = None /\ None \notin Keys /\ NoPair \in Pairs
    BY KeysAssumption, ConstantsTyped DEF NoPair
  <2>6. Lease(s) = {NoPair, pair} \cup ToSet(rest)
    BY <1>2, <2>1 DEF Lease
  <2> HIDE DEF rest, pair, t, begun, f
  <2>7. CASE Exchangeable(s, pair)
    <3> DEFINE u == EnqueueUnsubscribe(begun, pair.outgoing)
    <3>1. Keeps(s, begun)
      <4>1. s.entry \in [Keys -> Entries] /\ \A k \in Keys : SameButMarks(s.entry[k], s.entry[k])
        BY DEF Supervisors, SameButMarks
      <4>2. \A k \in Keys : ~Has(s, k) => ~s.entry[k].rotationIncoming
        BY IncomingIsThere
      <4>3. \A p \in {pair} \cup ToSet(rest) :
              p.outgoing \in Keys => s.entry[p.outgoing].rotationOutgoing \in {None, p.incoming}
        BY <2>6 DEF Good, MarksNamePartner
      <4>4. \A k \in Keys : s.entry[k].rotationIncoming =>
              Orphaned(s, k) \/ \E p \in {pair} \cup ToSet(rest) : p.incoming = k
        BY <2>5, <2>6 DEF Orphaned
      <4> QED BY <2>1, <2>2, <4>1, <4>2, <4>3, <4>4, MarksMoved
    <3>2. begun \in Supervisors /\ Good(begun) /\ pair.outgoing \in Keys
      BY <2>7, <3>1 DEF Keeps, Guards, Exchangeable
    <3>3. Keeps(begun, u)
      BY <3>2, EnqueueUnsubscribeKeeps
    <3> HIDE DEF u
    <3>4. Keeps(u, Pump(turn, u))
      BY <3>3, PumpKeeps DEF Keeps, Guards
    <3>5. RotationAdvanced(turn, s) = Pump(turn, u)
      BY <2>4, <2>7 DEF u
    <3> QED BY <3>1, <3>3, <3>4, <3>5, KeepsTransitive
  <2>8. CASE ~Exchangeable(s, pair)
    <3> DEFINE u == Unmark(t, pair)
    <3>1. Keeps(s, u)
      <4>1. ToSet(rest) \subseteq Lease(s)
            /\ \A p \in Lease(s) : p.incoming \in {None, pair.incoming} \/ p \in ToSet(rest)
        BY <2>5, <2>6
      <4> HIDE DEF u
      <4>2. Keeps(s, [s EXCEPT !.entry = f, !.rotationCurrent = NoPair, !.rotationQueue = rest])
        BY <2>1, <4>1, UnmarkKeeps DEF f
      <4> QED BY <2>3, <4>2 DEF u
    <3> HIDE DEF u
    <3>2. Keeps(u, AdvanceRotation(turn, u))
      BY <3>1 DEF Turning, Keeps, Guards
    <3>3. RotationAdvanced(turn, s) = AdvanceRotation(turn, u)
      BY <2>4, <2>8 DEF u
    <3> QED BY <3>1, <3>2, <3>3, KeepsTransitive
  <2> QED BY <2>7, <2>8
<1> QED BY <1>1, <1>2

(* The running pair ends with its incoming entry.                            *)
LEMMA EndPairOfKeeps ==
  ASSUME NEW turn, Turning(turn), NEW s \in Supervisors, Good(s), NEW x,
         x \in Keys => ~s.entry[x].rotationIncoming
  PROVE  Keeps(s, EndPairOf(turn, s, x))
<1> DEFINE t == [s EXCEPT !.rotationCurrent = NoPair]
<1>1. CASE s.rotationCurrent.incoming # x
  BY <1>1, KeepsReflexive DEF EndPairOf
<1>2. CASE s.rotationCurrent.incoming = x
  <2>1. t = [s EXCEPT !.entry = s.entry, !.rotationCurrent = NoPair, !.rotationQueue = s.rotationQueue]
    BY DEF Supervisors
  <2>2. s.entry \in [Keys -> Entries] /\ s.rotationQueue \in Seq(Pairs)
        /\ \A k \in Keys : SameButMarks(s.entry[k], s.entry[k])
    BY DEF Supervisors, SameButMarks
  <2>3. \A k \in Keys : ~Has(s, k) => ~s.entry[k].rotationIncoming
    BY IncomingIsThere
  <2>4. NoPair.outgoing = None /\ NoPair.incoming = None /\ None \notin Keys /\ NoPair \in Pairs
    BY KeysAssumption, ConstantsTyped DEF NoPair
  <2>5. \A p \in {NoPair} \cup ToSet(s.rotationQueue) :
          p.outgoing \in Keys => s.entry[p.outgoing].rotationOutgoing \in {None, p.incoming}
    BY <2>4 DEF Good, MarksNamePartner, Lease
  <2>6. \A k \in Keys : s.entry[k].rotationIncoming =>
          Orphaned(s, k) \/ \E p \in {NoPair} \cup ToSet(s.rotationQueue) : p.incoming = k
    BY <1>2 DEF Orphaned, Lease
  <2>7. Keeps(s, t)
    <3> HIDE DEF t
    <3> QED BY <2>1, <2>2, <2>3, <2>4, <2>5, <2>6, MarksMoved
  <2>8. EndPairOf(turn, s, x) = AdvanceRotation(turn, t)
    BY <1>2 DEF EndPairOf
  <2> HIDE DEF t
  <2>9. Keeps(t, AdvanceRotation(turn, t))
    BY <2>7 DEF Turning, Keeps, Guards
  <2> QED BY <2>7, <2>8, <2>9, KeepsTransitive
<1> QED BY <1>1, <1>2

(* finishRotationIncoming keeps the state in order.                          *)
LEMMA FinishRotationIncomingKeeps ==
  ASSUME NEW turn, Turning(turn), NEW s \in Supervisors, Good(s), NEW k \in Keys, NEW marked \in BOOLEAN
  PROVE  Keeps(s, FinishRotationIncoming(turn, s, k, marked))
<1>1. CASE FinishRotationIncoming(turn, s, k, marked) = s
  BY <1>1, KeepsReflexive
<1>2. CASE FinishRotationIncoming(turn, s, k, marked) = EndPairOf(turn, s, Gone)
  BY <1>2, EndPairOfKeeps, KeysAssumption
<1>3. CASE FinishRotationIncoming(turn, s, k, marked) =
             EndPairOf(turn, [s EXCEPT !.entry[k].rotationIncoming = FALSE], k)
  <2> DEFINE e == [s.entry[k] EXCEPT !.rotationIncoming = FALSE]
             t == [s EXCEPT !.entry[k] = e]
  <2>1. s.entry[k] \in Entries
    BY EntryTyped
  <2>2. /\ e \in Entries /\ e.present = s.entry[k].present /\ e.refs = s.entry[k].refs
        /\ e.removing = s.entry[k].removing /\ e.retarget = s.entry[k].retarget
        /\ e.waitingTarget = s.entry[k].waitingTarget
        /\ e.subscribed = s.entry[k].subscribed /\ e.state = s.entry[k].state
        /\ e.queuedAction = s.entry[k].queuedAction
        /\ e.rotationOutgoing = s.entry[k].rotationOutgoing /\ e.rotationIncoming = FALSE
    BY <2>1 DEF Entries
  <2>3. t = [s EXCEPT !.entry[k].rotationIncoming = FALSE]
    BY DEF Supervisors
  <2> HIDE DEF e
  <2>4. Keeps(s, t) /\ t.entry[k] = e
    BY <2>2, SubscribedOnWire, EntryKeeps, EntryReplaced
  <2> HIDE DEF t
  <2>5. t \in Supervisors /\ Good(t) /\ ~t.entry[k].rotationIncoming
    BY <2>2, <2>4 DEF Keeps, Guards
  <2>6. Keeps(t, EndPairOf(turn, t, k))
    BY <2>5, EndPairOfKeeps
  <2> QED BY <1>3, <2>3, <2>4, <2>6, KeepsTransitive
<1> QED BY <1>1, <1>2, <1>3 DEF FinishRotationIncoming

(* completeRotationOutgoing keeps the state in order.                        *)
LEMMA CompleteRotationOutgoingKeeps ==
  ASSUME NEW turn, Turning(turn), NEW s \in Supervisors, Good(s), NEW k \in Keys,
         ~s.entry[k].subscribed, s.entry[k].rotationOutgoing # None
  PROVE  Keeps(s, CompleteRotationOutgoing(turn, s, k))
<1> DEFINE incoming == s.entry[k].rotationOutgoing
           e == [s.entry[k] EXCEPT !.rotationOutgoing = None]
           t == [s EXCEPT !.entry[k] = e]
           parked == SetState(t, k, "parked")
           pair == [outgoing |-> k, incoming |-> incoming]
           ended == [Unmark(parked, pair) EXCEPT !.rotationCurrent = NoPair]
           promoted == SetState(parked, incoming, "desired")
<1>1. s.entry[k] \in Entries
  BY EntryTyped
<1>2. /\ e \in Entries /\ e.present = s.entry[k].present /\ e.refs = s.entry[k].refs
      /\ e.removing = s.entry[k].removing /\ e.retarget = s.entry[k].retarget
      /\ e.waitingTarget = s.entry[k].waitingTarget
      /\ e.subscribed = FALSE /\ e.state = s.entry[k].state
      /\ e.queuedAction = s.entry[k].queuedAction
      /\ e.rotationOutgoing = None /\ e.rotationIncoming = s.entry[k].rotationIncoming
  BY <1>1, ConstantsTyped DEF Entries
<1>3. t = [s EXCEPT !.entry[k].rotationOutgoing = None]
  BY DEF Supervisors
<1>4. CompleteRotationOutgoing(turn, s, k) =
        IF s.rotationCurrent.outgoing # k THEN t
        ELSE IF incoming = Gone \/ incoming \notin ParkedKeys(s)
        THEN AdvanceRotation(turn, ended)
        ELSE EnqueueSubscribe(promoted, incoming)
  <2> HIDE DEF t
  <2> QED BY <1>3 DEF CompleteRotationOutgoing
<1> HIDE DEF e
<1>5. Keeps(s, t) /\ t.entry[k] = e
  BY <1>2, EntryKeeps, EntryReplaced
<1>6. SameOutside(s, t) /\ \A j \in Keys : j # k => t.entry[j] = s.entry[j]
  BY <1>2, EntryReplaced
<1> HIDE DEF t
<1>7. t \in Supervisors /\ Good(t) /\ ~t.entry[k].subscribed
  BY <1>2, <1>5 DEF Keeps, Guards
<1>8. Keeps(t, parked)
  BY <1>7, SetStateKeeps, ConstantsTyped
<1>9. /\ parked.rotationCurrent = t.rotationCurrent /\ parked.rotationQueue = t.rotationQueue
      /\ \A j \in Keys : parked.entry[j].subscribed = t.entry[j].subscribed
                      /\ parked.entry[j].rotationIncoming = t.entry[j].rotationIncoming
  BY <1>7 DEF SetState, Supervisors, Entries
<1> HIDE DEF parked
<1>10. parked \in Supervisors /\ Good(parked) /\ Keeps(s, parked)
  BY <1>5, <1>8, KeepsTransitive DEF Keeps, Guards
<1>11. CASE s.rotationCurrent.outgoing # k
  BY <1>4, <1>5, <1>11
<1>12. CASE s.rotationCurrent.outgoing = k /\ (incoming = Gone \/ incoming \notin ParkedKeys(s))
  <2> DEFINE f == Unmarked(parked, pair)
  <2>1. parked.rotationCurrent.incoming = incoming
    <3>1. s.rotationCurrent.incoming = incoming
      BY <1>12 DEF Good, MarksNamePartner, Lease
    <3> QED BY <1>6, <1>9, <3>1 DEF SameOutside
  <2>2. ended = [parked EXCEPT !.entry = f, !.rotationCurrent = NoPair,
                               !.rotationQueue = parked.rotationQueue]
    <3>1. Unmark(parked, pair) = [parked EXCEPT !.entry = f]
      <4> HIDE DEF pair
      <4> QED BY UnmarkIs
    <3> HIDE DEF f, pair
    <3> QED BY <1>10, <3>1 DEF Supervisors
  <2>3. pair.incoming = incoming
    OBVIOUS
  <2> HIDE DEF pair, ended, incoming
  <2>4. /\ ToSet(parked.rotationQueue) \subseteq Lease(parked)
        /\ \A p \in Lease(parked) : p.incoming \in {None, pair.incoming} \/ p \in ToSet(parked.rotationQueue)
    BY <2>1, <2>3 DEF Lease
  <2>9. parked.rotationQueue \in Seq(Pairs)
    BY <1>10 DEF Supervisors
  <2>10. Keeps(parked, ended)
    BY <1>10, <2>2, <2>4, <2>9, UnmarkKeeps
  <2>11. Keeps(ended, AdvanceRotation(turn, ended))
    BY <2>10 DEF Turning, Keeps, Guards
  <2>12. CompleteRotationOutgoing(turn, s, k) = AdvanceRotation(turn, ended)
    BY <1>4, <1>12
  <2> QED BY <1>10, <2>10, <2>11, <2>12, KeepsTransitive
<1>13. CASE s.rotationCurrent.outgoing = k /\ ~(incoming = Gone \/ incoming \notin ParkedKeys(s))
  <2>1. incoming \in Keys /\ s.entry[incoming].state = "parked"
    BY <1>13 DEF ParkedKeys, State
  <2> HIDE DEF incoming
  <2>2. ~s.entry[incoming].subscribed
    BY <2>1, SubscribedOnWire DEF OnWire
  <2>3. ~parked.entry[incoming].subscribed
    BY <1>5, <1>2, <1>6, <1>9, <2>1, <2>2
  <2>4. Keeps(parked, promoted)
    BY <1>10, <2>1, <2>3, SetStateKeeps, ConstantsTyped
  <2> HIDE DEF promoted
  <2>5. Keeps(promoted, EnqueueSubscribe(promoted, incoming))
    BY <2>1, <2>4, EnqueueSubscribeKeeps DEF Keeps, Guards
  <2>6. CompleteRotationOutgoing(turn, s, k) = EnqueueSubscribe(promoted, incoming)
    BY <1>4, <1>13
  <2> QED BY <1>10, <2>4, <2>5, <2>6, KeepsTransitive
<1> QED BY <1>11, <1>12, <1>13

-----------------------------------------------------------------------------
(* The start of a lease.                                                     *)

(* A new lease marks every entry of its pairs, and no other.                 *)
LEMMA StartRotationLeaseKeeps ==
  ASSUME NEW turn, Turning(turn), NEW s \in Supervisors, Good(s),
         s.rotationCurrent = NoPair, s.rotationQueue = <<>>,
         Cardinality(ActiveKeys(s)) + Cardinality(ParkedKeys(s)) > MaxLive,
         NEW outgoing \in Seq(Keys),
         \A i, j \in 1..Len(outgoing) : i # j => outgoing[i] # outgoing[j]
  PROVE  Keeps(s, StartRotationLease(turn, s, outgoing))
<1> DEFINE S == {k \in ParkedKeys(s) : ~s.entry[k].rotationIncoming}
           incoming == InOrder(s, S)
           excess == Cardinality(ActiveKeys(s)) + Cardinality(ParkedKeys(s)) - MaxLive
           count == Min({excess, MaxLive, Len(outgoing), Len(incoming)})
           pairs == [i \in 1..count |-> [outgoing |-> outgoing[i], incoming |-> incoming[i]]]
           leaves(k) == \E i \in 1..count : outgoing[i] = k
           partner(k) == incoming[CHOOSE i \in 1..count : outgoing[i] = k]
           comes(k) == \E i \in 1..count : incoming[i] = k
           f == [k \in Keys |->
                   [s.entry[k] EXCEPT !.rotationOutgoing = IF leaves(k) THEN partner(k) ELSE @,
                                      !.rotationIncoming = @ \/ comes(k)]]
           t == [s EXCEPT !.rotationQueue = pairs, !.entry = f]
<1>1. StartRotationLease(turn, s, outgoing) = AdvanceRotation(turn, t)
  BY DEF StartRotationLease
<1>2. incoming \in Seq(Keys) /\ ToSet(incoming) \subseteq S
  BY InOrderIs
<1> HIDE DEF incoming, S
<1>3. \A i \in 1..Len(incoming) : incoming[i] \in Keys /\ incoming[i] \in S
  BY <1>2 DEF ToSet
<1>4. count \in Nat /\ count <= Len(outgoing) /\ count <= Len(incoming)
  <2>1. excess \in Nat /\ MaxLive \in Nat /\ Len(outgoing) \in Nat /\ Len(incoming) \in Nat
    <3>1. Cardinality(ActiveKeys(s)) \in Nat /\ Cardinality(ParkedKeys(s)) \in Nat /\ MaxLive \in Nat
      BY CountOfKeys, BoundsAssumption DEF ActiveKeys, ParkedKeys
    <3> QED BY <3>1, <1>2
  <2> HIDE DEF excess
  <2> DEFINE T == {excess, MaxLive, Len(outgoing), Len(incoming)}
  <2>2. T \in SUBSET Nat /\ T # {} /\ Len(outgoing) \in T /\ Len(incoming) \in T
    BY <2>1
  <2> HIDE DEF T
  <2>3. Min(T) \in T /\ \A i \in T : Min(T) <= i
    BY <2>2, MinIn
  <2>4. Min(T) \in Nat /\ Min(T) <= Len(outgoing) /\ Min(T) <= Len(incoming)
    BY <2>2, <2>3
  <2> QED BY <2>4 DEF T
<1> HIDE DEF count, leaves, partner, comes
<1>5. \A i \in 1..count : /\ i \in 1..Len(outgoing) /\ i \in 1..Len(incoming)
                          /\ outgoing[i] \in Keys /\ incoming[i] \in Keys /\ incoming[i] \in S
  <2>1. \A i \in 1..count : i \in 1..Len(outgoing) /\ i \in 1..Len(incoming)
    BY <1>2, <1>4
  <2>2. \A i \in 1..Len(outgoing) : outgoing[i] \in Keys
    OBVIOUS
  <2> QED BY <1>3, <2>1, <2>2
<1>6. \A i \in 1..count : leaves(outgoing[i]) /\ partner(outgoing[i]) = incoming[i]
  <2> TAKE i \in 1..count
  <2> DEFINE c == CHOOSE j \in 1..count : outgoing[j] = outgoing[i]
  <2>1. c \in 1..count /\ outgoing[c] = outgoing[i]
    OBVIOUS
  <2> HIDE DEF c
  <2>2. c = i
    BY <1>5, <2>1
  <2>3. partner(outgoing[i]) = incoming[c]
    BY DEF partner, c
  <2> QED BY <2>2, <2>3 DEF leaves
<1>7. \A k \in Keys : leaves(k) => partner(k) \in Keys
  BY <1>5, <1>6 DEF leaves
<1>8. ASSUME NEW k \in Keys
      PROVE  /\ f[k] \in Entries /\ SameButMarks(f[k], s.entry[k])
             /\ leaves(k) => f[k].rotationOutgoing = partner(k)
             /\ f[k].rotationIncoming => s.entry[k].rotationIncoming \/ comes(k)
  <2> DEFINE out == IF leaves(k) THEN partner(k) ELSE s.entry[k].rotationOutgoing
             inc == s.entry[k].rotationIncoming \/ comes(k)
  <2>1. s.entry[k] \in Entries
    BY EntryTyped
  <2>2. out \in Refs
    BY <1>7, <2>1 DEF Entries, Refs
  <2>3. inc \in BOOLEAN
    BY <2>1 DEF Entries, comes
  <2>4. f[k] = [s.entry[k] EXCEPT !.rotationOutgoing = out, !.rotationIncoming = inc]
    OBVIOUS
  <2> HIDE DEF f, out, inc
  <2>5. f[k] \in Entries /\ SameButMarks(f[k], s.entry[k])
        /\ f[k].rotationOutgoing = out /\ f[k].rotationIncoming = inc
    BY <2>1, <2>2, <2>3, <2>4 DEF Entries, SameButMarks
  <2> QED BY <2>5 DEF out, inc
<1>9. f \in [Keys -> Entries]
  <2>1. f = [k \in Keys |-> f[k]]
    OBVIOUS
  <2> HIDE DEF f
  <2> QED BY <1>8, <2>1
<1> HIDE DEF f
<1>10. /\ pairs \in Seq(Pairs)
       /\ \A p \in ToSet(pairs) : \E i \in 1..count : p.outgoing = outgoing[i] /\ p.incoming = incoming[i]
       /\ \A i \in 1..count : \E p \in ToSet(pairs) : p.incoming = incoming[i]
  <2>1. \A i \in 1..count : pairs[i] \in Pairs /\ pairs[i].outgoing = outgoing[i] /\ pairs[i].incoming = incoming[i]
    BY <1>5 DEF Pairs, Refs
  <2>2. DOMAIN pairs = 1..count /\ pairs = [i \in 1..count |-> pairs[i]]
    OBVIOUS
  <2> HIDE DEF pairs
  <2>3. pairs \in Seq(Pairs)
    BY <1>4, <2>1, <2>2
  <2> QED BY <2>1, <2>2, <2>3 DEF ToSet
<1>11. t = [s EXCEPT !.entry = f, !.rotationCurrent = NoPair, !.rotationQueue = pairs]
  <2> HIDE DEF pairs
  <2> QED BY DEF Supervisors
<1> HIDE DEF pairs, t
<1>12. NoPair.outgoing = None /\ NoPair.incoming = None /\ None \notin Keys /\ NoPair \in Pairs
  BY KeysAssumption, ConstantsTyped DEF NoPair
<1>13. \A k \in Keys : ~Has(s, k) => ~f[k].rotationIncoming
  BY <1>5, <1>8, IncomingIsThere DEF comes, ParkedKeys, Held, S
<1>14. \A p \in {NoPair} \cup ToSet(pairs) :
         p.outgoing \in Keys => f[p.outgoing].rotationOutgoing \in {None, p.incoming}
  BY <1>6, <1>8, <1>10, <1>12
<1>15. \A k \in Keys : f[k].rotationIncoming =>
         Orphaned(s, k) \/ \E p \in {NoPair} \cup ToSet(pairs) : p.incoming = k
  <2>1. \A k \in Keys : comes(k) => \E p \in ToSet(pairs) : p.incoming = k
    BY <1>10 DEF comes
  <2>2. \A k \in Keys : s.entry[k].rotationIncoming => Orphaned(s, k)
    BY <1>12 DEF Orphaned, Lease, ToSet
  <2> QED BY <1>8, <2>1, <2>2
<1>16. \A k \in Keys : SameButMarks(f[k], s.entry[k])
  BY <1>8
<1>17. Keeps(s, t)
  <2>1. pairs \in Seq(Pairs) /\ NoPair \in Pairs
    BY <1>10, <1>12
  <2>2. Keeps(s, [s EXCEPT !.entry = f, !.rotationCurrent = NoPair, !.rotationQueue = pairs])
    BY ZenonT(40), <1>9, <1>13, <1>14, <1>15, <1>16, <2>1, MarksMoved
  <2> QED BY <1>11, <2>2
<1>18. Keeps(t, AdvanceRotation(turn, t))
  BY <1>17 DEF Turning, Keeps, Guards
<1> QED BY <1>1, <1>17, <1>18, KeepsTransitive

-----------------------------------------------------------------------------
(* An entry is forgotten.                                                    *)

(* What is good of a state besides its counts.                               *)
Sound(s) ==
  /\ Listed(s) /\ EntriesSound(s) /\ JobsSound(s) /\ DeadUnsubscribed(s)
  /\ AcceptedIsRegistered(s) /\ MarksNamePartner(s)

(* r is s without k.                                                         *)
Without(s, r, k) ==
  /\ r.entry[k] = Absent
  /\ \A j \in Keys : j # k =>
       /\ SameButMarks(r.entry[j], s.entry[j])
       /\ r.entry[j].rotationOutgoing = MarkGone(s.entry[j].rotationOutgoing, k)
       /\ r.entry[j].rotationIncoming = s.entry[j].rotationIncoming
  /\ ToSet(r.order) = ToSet(s.order) \ {k}
  /\ ToSet(r.queue) = {job \in ToSet(s.queue) : job.key # k}
  /\ r.currentJob = MarkDead(s.currentJob, k) /\ r.sendTimer = MarkDead(s.sendTimer, k)
  /\ r.sending = MarkDead(s.sending, k)
  /\ Lease(r) = {PairWithout(p, k) : p \in Lease(s)}
  /\ r.handles = s.handles /\ r.destroyed = s.destroyed
  /\ r.registered = s.registered /\ r.answer = s.answer

(* A reference stays one when its entry goes.                                *)
LEMMA MarkGoneIn ==
  ASSUME NEW ref \in Refs, NEW k PROVE MarkGone(ref, k) \in Refs
BY ConstantsTyped DEF MarkGone

(* So does a pair.                                                           *)
LEMMA PairWithoutIn ==
  ASSUME NEW pair \in Pairs, NEW k
  PROVE  /\ PairWithout(pair, k) \in Pairs
         /\ PairWithout(pair, k).outgoing = MarkGone(pair.outgoing, k)
         /\ PairWithout(pair, k).incoming = MarkGone(pair.incoming, k)
<1>1. pair.outgoing \in Refs /\ pair.incoming \in Refs
  BY DEF Pairs
<1> QED BY <1>1, MarkGoneIn DEF PairWithout, Pairs

(* A job is as before, or dead.                                              *)
LEMMA MarkDeadIs ==
  ASSUME NEW job \in Jobs, NEW k
  PROVE  /\ MarkDead(job, k) \in Jobs
         /\ MarkDead(job, k).key = job.key /\ MarkDead(job, k).action = job.action
         /\ MarkDead(job, k).alive <=> job.alive /\ job.key # k
BY DEF MarkDead, Jobs

(* No job stays none.                                                        *)
LEMMA MarkDeadNoJob == ASSUME NEW k \in Keys PROVE MarkDead(NoJob, k) = NoJob
BY KeysAssumption DEF MarkDead, NoJob

(* What is left when an entry is forgotten.                                  *)
LEMMA ForgetIs ==
  ASSUME NEW s \in Supervisors, NEW k \in Keys, NEW d \in Nat
  PROVE  LET r == [Forget(s, k) EXCEPT !.demand = d] IN
         r \in Supervisors /\ Without(s, r, k) /\ r.demand = d
<1> DEFINE g == [j \in Keys |-> IF j = k THEN Absent
                   ELSE [s.entry[j] EXCEPT !.rotationOutgoing = MarkGone(@, k)]]
           order == Only(s.order, Keys \ {k})
           queue == Unqueue(s.queue, k, {"subscribe", "unsubscribe"})
           course == [i \in 1..Len(s.rotationQueue) |-> PairWithout(s.rotationQueue[i], k)]
           r == [Forget(s, k) EXCEPT !.demand = d]
<1>1. /\ s.order \in Seq(Keys) /\ s.queue \in Seq(QueuedJobs) /\ s.rotationQueue \in Seq(Pairs)
      /\ s.rotationCurrent \in Pairs
      /\ s.currentJob \in Jobs /\ s.sendTimer \in Jobs /\ s.sending \in Jobs
  BY DEF Supervisors
<1>2. order \in Seq(Keys) /\ ToSet(order) = ToSet(s.order) \ {k}
  <2>1. ToSet(s.order) \subseteq Keys
    BY <1>1 DEF ToSet
  <2> QED BY <1>1, <2>1, OnlyKeeps
<1>3. queue \in Seq(QueuedJobs) /\ ToSet(queue) = {job \in ToSet(s.queue) : job.key # k}
  <2>1. /\ queue \in Seq(QueuedJobs)
        /\ ToSet(queue) = {job \in ToSet(s.queue) : ~(job.key = k /\ job.action \in {"subscribe", "unsubscribe"})}
    BY <1>1, UnqueueSet
  <2>2. \A job \in ToSet(s.queue) : job.action \in {"subscribe", "unsubscribe"}
    BY QueueTyped DEF QueuedJobs, Actions
  <2> HIDE DEF queue
  <2> QED BY <2>1, <2>2
<1>4. course \in Seq(Pairs) /\ ToSet(course) = {PairWithout(p, k) : p \in ToSet(s.rotationQueue)}
  <2>1. Len(s.rotationQueue) \in Nat /\ DOMAIN s.rotationQueue = 1..Len(s.rotationQueue)
    BY <1>1
  <2>2. \A i \in 1..Len(s.rotationQueue) : PairWithout(s.rotationQueue[i], k) \in Pairs
    BY <1>1, PairWithoutIn
  <2>3. course \in Seq(Pairs)
    BY <2>1, <2>2
  <2> QED BY <2>1, <2>3 DEF ToSet
<1>5. /\ g \in [Keys -> Entries] /\ g[k] = Absent
      /\ \A j \in Keys : j # k =>
           /\ SameButMarks(g[j], s.entry[j])
           /\ g[j].rotationOutgoing = MarkGone(s.entry[j].rotationOutgoing, k)
           /\ g[j].rotationIncoming = s.entry[j].rotationIncoming
  <2>1. Absent \in Entries
    BY ConstantsTyped DEF Absent, Entries
  <2>2. ASSUME NEW j \in Keys, j # k
        PROVE  /\ g[j] \in Entries /\ SameButMarks(g[j], s.entry[j])
               /\ g[j].rotationOutgoing = MarkGone(s.entry[j].rotationOutgoing, k)
               /\ g[j].rotationIncoming = s.entry[j].rotationIncoming
    <3> DEFINE x == MarkGone(s.entry[j].rotationOutgoing, k)
    <3>1. s.entry[j] \in Entries
      BY EntryTyped
    <3>2. x \in Refs
      BY <3>1, MarkGoneIn DEF Entries
    <3>3. g[j] = [s.entry[j] EXCEPT !.rotationOutgoing = x]
      BY <2>2
    <3> HIDE DEF g, x
    <3>4. g[j] \in Entries /\ SameButMarks(g[j], s.entry[j]) /\ g[j].rotationOutgoing = x
          /\ g[j].rotationIncoming = s.entry[j].rotationIncoming
      BY <3>1, <3>2, <3>3 DEF Entries, SameButMarks
    <3> QED BY <3>4 DEF x
  <2>3. g[k] = Absent /\ g = [j \in Keys |-> g[j]]
    OBVIOUS
  <2> HIDE DEF g
  <2> QED BY <2>1, <2>2, <2>3
<1>6. /\ MarkDead(s.currentJob, k) \in Jobs /\ MarkDead(s.sendTimer, k) \in Jobs
      /\ MarkDead(s.sending, k) \in Jobs /\ PairWithout(s.rotationCurrent, k) \in Pairs
  BY <1>1, MarkDeadIs, PairWithoutIn
<1>7. r = [s EXCEPT !.entry = g, !.order = order, !.queue = queue,
             !.currentJob = MarkDead(s.currentJob, k), !.sendTimer = MarkDead(s.sendTimer, k),
             !.sending = MarkDead(s.sending, k),
             !.rotationCurrent = PairWithout(s.rotationCurrent, k), !.rotationQueue = course,
             !.demand = d]
  BY DEF Forget, Supervisors
<1> HIDE DEF g, order, queue, course, r
<1>8. r \in Supervisors
  BY <1>2, <1>3, <1>4, <1>5, <1>6, <1>7 DEF Supervisors
<1>9. /\ r.entry = g /\ r.order = order /\ r.queue = queue
      /\ r.currentJob = MarkDead(s.currentJob, k) /\ r.sendTimer = MarkDead(s.sendTimer, k)
      /\ r.sending = MarkDead(s.sending, k)
      /\ r.rotationCurrent = PairWithout(s.rotationCurrent, k) /\ r.rotationQueue = course
      /\ r.demand = d /\ r.handles = s.handles /\ r.destroyed = s.destroyed
      /\ r.registered = s.registered /\ r.answer = s.answer
  BY <1>7 DEF Supervisors
<1>10. Lease(r) = {PairWithout(p, k) : p \in Lease(s)}
  BY <1>4, <1>9 DEF Lease
<1>11. Without(s, r, k)
  BY <1>2, <1>3, <1>5, <1>9, <1>10 DEF Without
<1> QED BY <1>8, <1>9, <1>11 DEF r

(* What leaves takes its jobs and its marks along, and leaves at most those  *)
(* behind that wait for it.                                                  *)
LEMMA WithoutSound ==
  ASSUME NEW s \in Supervisors, Sound(s), NEW r \in Supervisors, NEW k \in Keys, Without(s, r, k)
  PROVE  /\ Sound(r) /\ NoneOrphaned(s, r) /\ NoneUnregistered(s, r) /\ NoneJobless(s, r)
         /\ \A j \in Keys : Stranded(r, j) =>
              /\ Stranded(s, j) \/ s.entry[j].waitingTarget = k
              /\ r.entry[j].waitingTarget = s.entry[j].waitingTarget
<1>0. /\ \A j \in Keys : Has(r, j) <=> Has(s, j) /\ j # k
      /\ r.entry[k] = Absent
      /\ ~Absent.subscribed /\ Absent.queuedAction = "none" /\ ~Absent.rotationIncoming
      /\ Absent.waitingTarget = None /\ Absent.retarget = None /\ Absent.refs = 0 /\ ~Absent.present
      /\ Absent.removing = FALSE /\ Absent.rotationOutgoing = None
  BY DEF Without, SameButMarks, Has, Absent
<1>1. Listed(r)
  BY <1>0 DEF Without, Listed, Sound
<1>2. EntriesSound(r)
  <2>1. EntriesSound(s)
    BY DEF Sound
  <2>2. \A j \in Keys : j # k =>
          /\ r.entry[j].present = s.entry[j].present /\ r.entry[j].refs = s.entry[j].refs
          /\ r.entry[j].removing = s.entry[j].removing /\ r.entry[j].retarget = s.entry[j].retarget
          /\ r.entry[j].waitingTarget = s.entry[j].waitingTarget
          /\ r.entry[j].subscribed = s.entry[j].subscribed /\ r.entry[j].state = s.entry[j].state
          /\ r.entry[j].queuedAction = s.entry[j].queuedAction
          /\ r.entry[j].rotationIncoming = s.entry[j].rotationIncoming
    BY DEF Without, SameButMarks
  <2> QED BY <1>0, <2>1, <2>2 DEF EntriesSound, Blank
<1>3. JobsSound(r) /\ DeadUnsubscribed(r) /\ AcceptedIsRegistered(r)
  <2>1. /\ s.currentJob \in Jobs /\ s.sendTimer \in Jobs /\ s.sending \in Jobs
        /\ ToSet(s.queue) \subseteq QueuedJobs
    BY QueueTyped DEF Supervisors
  <2>2. ASSUME NEW job \in Jobs, Points(s, job) PROVE Points(r, MarkDead(job, k))
    BY <1>0, <2>2, MarkDeadIs DEF Points
  <2>3. JobsSound(r)
    <3>1. Points(r, r.currentJob) /\ Points(r, r.sendTimer) /\ Points(r, r.sending)
      BY <2>1, <2>2 DEF Without, Sound, JobsSound
    <3>2. \A job \in ToSet(r.queue) : Has(r, job.key)
      BY <1>0, <2>1 DEF Without, Sound, JobsSound, QueuedJobs
    <3> QED BY <3>1, <3>2 DEF JobsSound
  <2>4. /\ r.currentJob.key = s.currentJob.key /\ r.currentJob.action = s.currentJob.action
        /\ r.currentJob.alive <=> s.currentJob.alive /\ s.currentJob.key # k
        /\ r.registered = s.registered /\ r.answer = s.answer
    BY <2>1, MarkDeadIs DEF Without
  <2>5. \A j \in Keys : j # k => r.entry[j].subscribed = s.entry[j].subscribed
    BY DEF Without, SameButMarks
  <2>6. DeadUnsubscribed(r)
    BY <1>0, <2>4, <2>5 DEF DeadUnsubscribed, Sound
  <2>7. AcceptedIsRegistered(r)
    BY <2>4 DEF AcceptedIsRegistered, Sound
  <2> QED BY <2>3, <2>6, <2>7
<1>4. MarksNamePartner(r)
  <2> SUFFICES ASSUME NEW pair \in Lease(r), pair.outgoing \in Keys
               PROVE  r.entry[pair.outgoing].rotationOutgoing \in {None, pair.incoming}
    BY DEF MarksNamePartner
  <2>1. PICK p \in Lease(s) : pair = PairWithout(p, k)
    BY DEF Without
  <2>2. p \in Pairs
    BY DEF Lease, Supervisors, ToSet
  <2>3. pair.outgoing = MarkGone(p.outgoing, k) /\ pair.incoming = MarkGone(p.incoming, k)
    BY <2>1, <2>2, PairWithoutIn
  <2>4. p.outgoing = pair.outgoing /\ p.outgoing # k
    BY <2>3, KeysAssumption DEF MarkGone
  <2>5. s.entry[p.outgoing].rotationOutgoing \in {None, p.incoming}
    BY <2>4 DEF Sound, MarksNamePartner
  <2>6. r.entry[pair.outgoing].rotationOutgoing = MarkGone(s.entry[p.outgoing].rotationOutgoing, k)
    BY <2>4 DEF Without
  <2>7. MarkGone(None, k) = None
    BY KeysAssumption DEF MarkGone
  <2> QED BY <2>3, <2>5, <2>6, <2>7
<1>5. NoneOrphaned(s, r)
  <2> SUFFICES ASSUME NEW j \in Keys, Orphaned(r, j), ~Orphaned(s, j) PROVE FALSE
    BY DEF NoneOrphaned
  <2>1. j # k /\ s.entry[j].rotationIncoming
    BY <1>0 DEF Orphaned, Without
  <2>2. PICK p \in Lease(s) : p.incoming = j
    BY <2>1 DEF Orphaned
  <2>3. p \in Pairs
    BY DEF Lease, Supervisors, ToSet
  <2>4. PairWithout(p, k) \in Lease(r) /\ PairWithout(p, k).incoming = j
    BY <2>1, <2>2, <2>3, PairWithoutIn DEF Without, MarkGone
  <2> QED BY <2>4 DEF Orphaned
<1>6. NoneUnregistered(s, r)
  <2>1. s.currentJob \in Jobs
    BY DEF Supervisors
  <2>2. /\ r.currentJob.key = s.currentJob.key /\ r.currentJob.action = s.currentJob.action
        /\ r.registered = s.registered
    BY <2>1, MarkDeadIs DEF Without
  <2> QED BY <1>0, <2>2 DEF NoneUnregistered, Unregistered, Without, SameButMarks
<1>7. NoneJobless(s, r)
  <2> SUFFICES ASSUME NEW j \in Keys, Jobless(r, j) PROVE Jobless(s, j)
    <3>1. Unsent(s, r)
      BY MarkDeadNoJob DEF Without, Unsent
    <3> QED BY <3>1 DEF NoneJobless
  <2>1. j # k /\ r.entry[j].queuedAction = s.entry[j].queuedAction
    BY <1>0 DEF Jobless, Without, SameButMarks
  <2>2. \A a : [key |-> j, action |-> a] \in ToSet(s.queue) => [key |-> j, action |-> a] \in ToSet(r.queue)
    BY <2>1 DEF Without
  <2> QED BY <2>1, <2>2 DEF Jobless
<1>8. ASSUME NEW j \in Keys, Stranded(r, j)
      PROVE  /\ Stranded(s, j) \/ s.entry[j].waitingTarget = k
             /\ r.entry[j].waitingTarget = s.entry[j].waitingTarget
  <2>1. /\ j # k /\ r.entry[j].waitingTarget = s.entry[j].waitingTarget
        /\ r.entry[j].retarget = s.entry[j].retarget
    BY <1>0, <1>8 DEF Stranded, Without, SameButMarks
  <2> DEFINE x == s.entry[j].waitingTarget
  <2>2. x # None /\ ~WaitsFor(r, j, x)
    BY <1>8, <2>1 DEF Stranded
  <2>3. x \in Keys
    BY <2>2 DEF Supervisors, Entries
  <2>4. ASSUME x # k, WaitsFor(s, j, x) PROVE FALSE
    <3>1. Has(r, x) /\ r.entry[x].removing = s.entry[x].removing
      BY <1>0, <2>3, <2>4 DEF WaitsFor, Without, SameButMarks
    <3> QED BY <2>1, <2>2, <2>4, <3>1 DEF WaitsFor
  <2> QED BY <2>1, <2>2, <2>4 DEF Stranded
<1> QED BY <1>1, <1>2, <1>3, <1>4, <1>5, <1>6, <1>7, <1>8 DEF Sound

-----------------------------------------------------------------------------
(* An entry is deleted.                                                      *)

(* A demand too many is released, and the connection with the last one.      *)
LEMMA ReleaseDemandKeeps ==
  ASSUME NEW turn, Turning(turn), NEW s, NEW t \in Supervisors, Good(t),
         t = [s EXCEPT !.demand = @ - 1]
  PROVE  Keeps(t, ReleaseDemand(turn, s))
<1>1. ReleaseDemand(turn, s) = IF t.demand = 0 THEN HandleDown(turn, Dropped(t)) ELSE t
  BY DEF ReleaseDemand
<1> QED BY <1>1, DroppedDownKeeps, KeepsReflexive

(* A retarget may stop waiting.                                              *)
LEMMA WaitingTargetCleared ==
  ASSUME NEW s \in Supervisors, Good(s), NEW k \in Keys
  PROVE  LET r == [s EXCEPT !.entry[k].waitingTarget = None] IN
         /\ Keeps(s, r) /\ ~Stranded(r, k) /\ r.entry[k].waitingTarget = None
         /\ \A j \in Keys :
              /\ Has(r, j) = Has(s, j) /\ r.entry[j].refs = s.entry[j].refs
              /\ r.entry[j].retarget = s.entry[j].retarget
              /\ r.entry[j].removing = s.entry[j].removing
<1> DEFINE e == [s.entry[k] EXCEPT !.waitingTarget = None]
           r == [s EXCEPT !.entry[k] = e]
<1>0. r = [s EXCEPT !.entry[k].waitingTarget = None]
  BY DEF Supervisors
<1>1. s.entry[k] \in Entries
  BY EntryTyped
<1>2. /\ e \in Entries /\ e.present = s.entry[k].present /\ e.refs = s.entry[k].refs
      /\ e.removing = s.entry[k].removing /\ e.retarget = s.entry[k].retarget
      /\ e.waitingTarget = None
      /\ e.subscribed = s.entry[k].subscribed /\ e.state = s.entry[k].state
      /\ e.queuedAction = s.entry[k].queuedAction
      /\ e.rotationOutgoing = s.entry[k].rotationOutgoing
      /\ e.rotationIncoming = s.entry[k].rotationIncoming
  BY <1>1 DEF Entries
<1> HIDE DEF e
<1>3. /\ r \in Supervisors /\ SameOutside(s, r)
      /\ r.entry[k] = e /\ \A j \in Keys : j # k => r.entry[j] = s.entry[j]
  BY <1>2, EntryReplaced
<1> HIDE DEF r
<1>4. SameQueue(s, r) /\ SameSocket(s, r) /\ SameStates(s, r) /\ SameRotation(s, r) /\ SameJobs(s, r)
  BY <1>2, <1>3 DEF SameOutside, SameQueue, SameSocket, SameStates, SameRotation
<1>5. \A j \in Keys :
        /\ Has(r, j) = Has(s, j) /\ r.entry[j].refs = s.entry[j].refs
        /\ r.entry[j].retarget = s.entry[j].retarget /\ r.entry[j].removing = s.entry[j].removing
        /\ r.entry[j].present = s.entry[j].present
        /\ r.entry[j].subscribed = s.entry[j].subscribed /\ r.entry[j].state = s.entry[j].state
        /\ r.entry[j].queuedAction = s.entry[j].queuedAction
        /\ r.entry[j].rotationIncoming = s.entry[j].rotationIncoming
        /\ r.entry[j].waitingTarget \in {None, s.entry[j].waitingTarget}
  BY <1>2, <1>3 DEF Has
<1>6. DemandTrue(r) /\ HandlesTrue(r) /\ Listed(r) /\ DestroyedEmpty(r)
  <2>1. {j \in Keys : Has(r, j)} = {j \in Keys : Has(s, j)}
    BY <1>5
  <2>2. [j \in Keys |-> r.entry[j].refs] = [j \in Keys |-> s.entry[j].refs]
    BY <1>5
  <2>3. DemandTrue(r) /\ HandlesTrue(r)
    BY <1>3, <2>1, <2>2 DEF DemandTrue, HandlesTrue, Good, SameOutside
  <2>4. Listed(r) /\ DestroyedEmpty(r)
    BY <1>3, <1>5 DEF Listed, DestroyedEmpty, Good, SameOutside
  <2> QED BY <2>3, <2>4
<1>7. EntriesSound(r)
  <2>1. EntriesSound(s)
    BY DEF Good
  <2> QED BY <1>5, <2>1 DEF EntriesSound, Blank
<1>8. ASSUME NEW j \in Keys, Stranded(r, j)
      PROVE  j # k /\ Stranded(s, j) /\ r.entry[j].waitingTarget = s.entry[j].waitingTarget
  <2>1. j # k /\ r.entry[j].waitingTarget = s.entry[j].waitingTarget
    BY <1>2, <1>3, <1>8 DEF Stranded
  <2>2. s.entry[j].waitingTarget # None /\ ~WaitsFor(r, j, s.entry[j].waitingTarget)
    BY <1>8, <2>1 DEF Stranded
  <2>3. s.entry[j].waitingTarget \in Keys
    BY <2>2 DEF Supervisors, Entries
  <2> QED BY <1>5, <2>1, <2>2, <2>3 DEF Stranded, WaitsFor
<1>9. NoneStranded(s, r) /\ Progress(s, r)
  <2>1. NoneStranded(s, r)
    BY <1>8 DEF NoneStranded
  <2>2. Progress(s, r)
    BY <1>5 DEF Progress, Pending, Over, Held
  <2> QED BY <2>1, <2>2
<1>10. JobsSound(r) /\ NoneJobless(s, r)
  <2>1. \A job \in ToSet(s.queue) : job.key \in Keys
    BY QueueTyped DEF QueuedJobs
  <2>2. JobsSound(s)
    BY DEF Good
  <2>3. JobsSound(r)
    BY <1>3, <1>5, <2>1, <2>2 DEF SameOutside, SameJobs, JobsSound, Points
  <2>4. NoneJobless(s, r)
    BY <1>3, <1>5 DEF SameOutside, SameJobs, NoneJobless, Unsent, Jobless
  <2> QED BY <2>3, <2>4
<1>11. Keeps(s, r)
  BY <1>3, <1>4, <1>6, <1>7, <1>9, <1>10, SocketKept, RotationKept, AllKept
<1>12. ~Stranded(r, k) /\ r.entry[k].waitingTarget = None
  BY <1>2, <1>3, <1>8
<1>13. \A j \in Keys :
         /\ Has(r, j) = Has(s, j) /\ r.entry[j].refs = s.entry[j].refs
         /\ r.entry[j].retarget = s.entry[j].retarget /\ r.entry[j].removing = s.entry[j].removing
  BY <1>5
<1> QED BY <1>0, <1>11, <1>12, <1>13

(* One that waits is woken.                                                  *)
LEMMA WakeOneKeeps ==
  ASSUME NEW turn, Turning(turn), NEW s \in Supervisors, Good(s), NEW k \in Keys
  PROVE  Keeps(s, WakeOne(turn, s, k)) /\ ~Stranded(WakeOne(turn, s, k), k)
<1> DEFINE t == [s EXCEPT !.entry[k].waitingTarget = None]
           r == WakeOne(turn, s, k)
<1>1. Keeps(s, t) /\ ~Stranded(t, k)
  BY WaitingTargetCleared
<1>2. r = t \/ r = CompleteRetarget(turn, t, k)
  BY DEF WakeOne
<1> HIDE DEF t, r
<1>3. t \in Supervisors /\ Good(t)
  BY <1>1 DEF Keeps, Guards
<1>4. Keeps(t, r)
  BY <1>2, <1>3, KeepsReflexive DEF Turning
<1>5. Keeps(s, r)
  BY <1>1, <1>4, KeepsTransitive
<1>6. ~Stranded(r, k)
  BY <1>1, <1>4 DEF Keeps, Guards, NoneStranded
<1> QED BY <1>5, <1>6 DEF r

(* Everyone who waits for k is woken.                                        *)
LEMMA WakeKeeps ==
  ASSUME NEW turn, Turning(turn), NEW s \in Supervisors, Good(s), NEW k
  PROVE  LET r == WakeRetargetWaiters(turn, s, k) IN
         Keeps(s, r) /\ \A j \in Keys : Stranded(r, j) => s.entry[j].waitingTarget # k
<1> DEFINE step == [source \in Keys |-> [t \in Supervisors |-> WakeOne(turn, t, source)]]
           S == {j \in Keys : s.entry[j].waitingTarget = k}
           q == InOrder(s, S)
           Ok(n) == {t \in Supervisors : Keeps(s, t) /\ \A m \in 1..n : ~Stranded(t, q[m])}
           P == [n \in 0..Len(q) |-> Ok(n)]
<1>1. q \in Seq(Keys) /\ ToSet(q) = ToSet(s.order) \cap S
  BY InOrderIs
<1> HIDE DEF q
<1>2. Len(q) \in Nat /\ DOMAIN q = 1..Len(q)
  BY <1>1
<1>3. s \in P[0]
  <2>1. s \in Ok(0)
    BY KeepsReflexive
  <2> HIDE DEF Ok
  <2> QED BY <1>2, <2>1
<1>4. ASSUME NEW i \in 1..Len(q), NEW t \in P[i - 1] PROVE step[q[i]][t] \in P[i]
  <2>1. i \in 0..Len(q) /\ i - 1 \in 0..Len(q) /\ q[i] \in Keys
    BY <1>1, <1>2
  <2>2. t \in Ok(i - 1)
    <3> HIDE DEF Ok
    <3> QED BY <2>1
  <2> DEFINE r == WakeOne(turn, t, q[i])
  <2>3. t \in Supervisors /\ Good(t) /\ Keeps(s, t)
    BY <2>2 DEF Keeps, Guards
  <2>4. Keeps(t, r) /\ ~Stranded(r, q[i])
    BY <2>1, <2>3, WakeOneKeeps
  <2>5. step[q[i]][t] = r
    BY <2>1, <2>3
  <2> HIDE DEF r, step
  <2>6. Keeps(s, r) /\ r \in Supervisors
    BY <2>3, <2>4, KeepsTransitive DEF Keeps, Guards
  <2>7. ASSUME NEW m \in 1..i PROVE ~Stranded(r, q[m])
    <3>1. CASE m = i
      BY <2>4, <3>1
    <3>2. CASE m # i
      <4>1. m \in 1..(i - 1) /\ q[m] \in Keys
        BY <1>1, <1>2, <3>2
      <4>2. ~Stranded(t, q[m])
        BY <2>2, <4>1
      <4> QED BY <2>4, <4>1, <4>2 DEF Keeps, Guards, NoneStranded
    <3> QED BY <3>1, <3>2
  <2>8. r \in Ok(i)
    BY <2>6, <2>7
  <2> HIDE DEF Ok
  <2> QED BY <2>1, <2>5, <2>8
<1>5. Each(step, s, q) \in P[Len(q)]
  <2> HIDE DEF P, step
  <2> QED BY <1>1, <1>3, <1>4, EachLeadsTo
<1> DEFINE r == Each(step, s, q)
<1>6. r \in Ok(Len(q))
  <2> HIDE DEF Ok, step
  <2> QED BY <1>2, <1>5
<1>7. WakeRetargetWaiters(turn, s, k) = r
  BY DEF WakeRetargetWaiters, q
<1> HIDE DEF r
<1>8. ASSUME NEW j \in Keys, Stranded(r, j), s.entry[j].waitingTarget = k PROVE FALSE
  <2>1. Stranded(s, j)
    BY <1>6, <1>8 DEF Keeps, Guards, NoneStranded
  <2>2. Has(s, j)
    BY <2>1, BlankWhenAbsent DEF Blank, Stranded
  <2>3. j \in ToSet(q)
    BY <1>1, <1>8, <2>2 DEF Good, Listed
  <2>4. PICK m \in 1..Len(q) : q[m] = j
    BY <1>2, <2>3 DEF ToSet
  <2> QED BY <1>6, <1>8, <2>4
<1>9. Keeps(s, r)
  BY <1>6
<1>10. Keeps(s, r) /\ \A j \in Keys : Stranded(r, j) => s.entry[j].waitingTarget # k
  BY <1>8, <1>9
<1> QED BY <1>7, <1>10

(* deleteEntry keeps the state in order.                                     *)
LEMMA EntryDeletedKeeps ==
  ASSUME NEW turn, Turning(turn), NEW s \in Supervisors, Good(s), NEW k \in Keys,
         Has(s, k) => s.entry[k].refs = 0
  PROVE  LET r == EntryDeleted(turn, s, k) IN
         /\ Keeps(s, r)
         /\ \A j \in Keys : <<j, k>> \in Successions /\ Held(s, j) /\ s.entry[j].retarget = k =>
              Pending(r, j, k) \/ Over(r, j, k)
<1> DEFINE c == CancelRotationFor(s, k)
           f == Forget(c, k)
           u == [f EXCEPT !.demand = c.demand - 1]
           v == ReleaseDemand(turn, f)
           w == WakeRetargetWaiters(turn, v, k)
           r == Rebalance(turn, w)
<1>1. CASE ~Has(s, k)
  <2>1. EntryDeleted(turn, s, k) = s /\ Keeps(s, s)
    BY <1>1, KeepsReflexive DEF EntryDeleted
  <2> QED BY <1>1, <2>1 DEF Pending
<1>2. CASE Has(s, k)
  <2>1. EntryDeleted(turn, s, k) = r
    BY <1>2 DEF EntryDeleted
  <2>2. Keeps(s, c) /\ SameHolders(s, c)
    BY CancelRotationForKeeps
  <2> HIDE DEF c
  <2>3. c \in Supervisors /\ Good(c) /\ Has(c, k) /\ c.entry[k].refs = 0
    BY <1>2, <2>2 DEF Keeps, Guards, SameHolders, Has
  <2>4. Sound(c)
    BY <2>3 DEF Good, Sound
  <2> DEFINE H == {j \in Keys : Has(c, j)}
  <2>5. IsFiniteSet(H) /\ Cardinality(H) \in Nat /\ c.demand = Cardinality(H)
    BY <2>3, CountOfKeys DEF Good, DemandTrue
  <2>6. Cardinality(H \ {k}) = Cardinality(H) - 1 /\ Cardinality(H \ {k}) \in Nat
    <3>1. k \in H
      BY <2>3
    <3>2. Cardinality(H \ {k}) \in Nat
      BY CountOfKeys
    <3> HIDE DEF H
    <3> QED BY <2>5, <3>1, <3>2, FS_RemoveElement
  <2>7. u \in Supervisors /\ Without(c, u, k) /\ u.demand = c.demand - 1
    <3>1. c.demand - 1 \in Nat
      BY <2>5, <2>6
    <3> QED BY <2>3, <3>1, ForgetIs
  <2>8. u = [f EXCEPT !.demand = @ - 1]
    <3>1. f.demand = c.demand
      BY <2>3 DEF Forget, Supervisors
    <3> HIDE DEF f
    <3> QED BY <3>1
  <2> HIDE DEF f, u
  <2>9. /\ Sound(u) /\ NoneOrphaned(c, u) /\ NoneUnregistered(c, u) /\ NoneJobless(c, u)
        /\ \A j \in Keys : Stranded(u, j) =>
             /\ Stranded(c, j) \/ c.entry[j].waitingTarget = k
             /\ u.entry[j].waitingTarget = c.entry[j].waitingTarget
    BY <2>3, <2>4, <2>7, WithoutSound
  <2>10. \A j \in Keys : Has(u, j) <=> Has(c, j) /\ j # k
    BY <2>7 DEF Without, SameButMarks, Has, Absent
  <2>11. DemandTrue(u)
    <3>1. {j \in Keys : Has(u, j)} = H \ {k}
      BY <2>10
    <3> HIDE DEF H
    <3> QED BY <2>5, <2>6, <2>7, <3>1 DEF DemandTrue
  <2>12. \A j \in Keys : u.entry[j].refs = c.entry[j].refs
    BY <2>3, <2>7 DEF Without, SameButMarks, Absent
  <2>13. HandlesTrue(u)
    <3>1. [j \in Keys |-> u.entry[j].refs] = [j \in Keys |-> c.entry[j].refs]
      BY <2>12
    <3> QED BY <2>3, <2>7, <3>1 DEF HandlesTrue, Good, Without
  <2>14. DestroyedEmpty(u)
    BY <2>3, <2>7, <2>10 DEF DestroyedEmpty, Good, Without
  <2>15. Good(u)
    BY <2>9, <2>11, <2>13, <2>14 DEF Good, Sound
  <2>16. \A j \in Keys : j # k => u.entry[j].retarget = c.entry[j].retarget
    BY <2>7 DEF Without, SameButMarks
  <2>17. Progress(c, u)
    BY <2>3, <2>10, <2>12, <2>16 DEF Progress, Pending, Over, Held
  <2>18. Keeps(u, v)
    BY <2>7, <2>8, <2>15, ReleaseDemandKeeps
  <2> HIDE DEF v
  <2>19. v \in Supervisors /\ Good(v)
    BY <2>18 DEF Keeps, Guards
  <2>20. Keeps(v, w) /\ \A j \in Keys : Stranded(w, j) => v.entry[j].waitingTarget # k
    BY <2>19, WakeKeeps
  <2> HIDE DEF w
  <2>21. w \in Supervisors /\ Good(w)
    BY <2>20 DEF Keeps, Guards
  <2>22. Keeps(w, r)
    BY <2>21, RebalanceKeeps
  <2> HIDE DEF r
  <2>23. Keeps(u, w)
    BY <2>18, <2>20, KeepsTransitive
  <2>24. Keeps(c, w)
    <3>1. NoneStranded(c, w)
      <4> SUFFICES ASSUME NEW j \in Keys, Stranded(w, j)
                   PROVE  Stranded(c, j) /\ w.entry[j].waitingTarget = c.entry[j].waitingTarget
        BY DEF NoneStranded
      <4>1. v.entry[j].waitingTarget # k /\ Stranded(v, j) /\ w.entry[j].waitingTarget = v.entry[j].waitingTarget
        BY <2>20 DEF Keeps, Guards, NoneStranded
      <4>2. Stranded(u, j) /\ v.entry[j].waitingTarget = u.entry[j].waitingTarget
        BY <2>18, <4>1 DEF Keeps, Guards, NoneStranded
      <4> QED BY <2>9, <4>1, <4>2
    <3>2. Progress(c, w)
      BY <2>17, <2>23, ProgressTransitive DEF Keeps, Guards
    <3> QED BY <2>9, <2>21, <2>23, <3>1, <3>2
            DEF Keeps, Guards, NoneOrphaned, NoneUnregistered, NoneJobless, Unsent
  <2>25. Keeps(s, r)
    BY <2>2, <2>22, <2>24, KeepsTransitive
  <2>26. ASSUME NEW j \in Keys, <<j, k>> \in Successions, Held(s, j), s.entry[j].retarget = k
         PROVE  Pending(r, j, k) \/ Over(r, j, k)
    <3>1. j # k
      BY <2>26, SuccessionsAssumption
    <3>2. Held(c, j) /\ c.entry[j].retarget = k
      BY <2>2, <2>26 DEF SameHolders, Held, Has
    <3>3. Pending(u, j, k)
      BY <2>10, <2>12, <2>16, <3>1, <3>2 DEF Pending, Held
    <3>4. Progress(u, r)
      BY <2>22, <2>23, ProgressTransitive DEF Keeps, Guards
    <3> QED BY <2>26, <3>3, <3>4 DEF Progress
  <2> QED BY <2>1, <2>25, <2>26
<1> QED BY <1>1, <1>2

-----------------------------------------------------------------------------
(* An entry is taken back, or its handles move.                              *)

(* A key has one sibling, so at most one entry waits for another.            *)
LEMMA OneSibling ==
  ASSUME NEW k \in Keys, NEW n \in Keys, <<k, n>> \in Successions,
         NEW i \in Keys, NEW j \in Keys, <<i, j>> \in Successions, i \in {k, n} \/ j \in {k, n}
  PROVE  k # n /\ ((i = k /\ j = n) \/ (i = n /\ j = k))
<1>1. k # n /\ i # j
  BY SuccessionsAssumption
<1>2. {<<k, n>>[1], <<k, n>>[2]} = {k, n} /\ {<<i, j>>[1], <<i, j>>[2]} = {i, j}
  OBVIOUS
<1>3. {k, n} \cap {i, j} # {}
  OBVIOUS
<1>4. {k, n} = {i, j}
  BY <1>2, <1>3, SuccessionsAssumption
<1> QED BY <1>1, <1>4

(* An entry on its way out is taken back.                                    *)
LEMMA CancelQueuedUnsubscribeKeeps ==
  ASSUME NEW s \in Supervisors, Good(s), NEW n \in Keys, Has(s, n),
         NEW k \in Keys, <<k, n>> \in Successions, s.entry[k].waitingTarget = None
  PROVE  LET r == CancelQueuedUnsubscribe(s, n) IN
         /\ Keeps(s, r) /\ ~r.entry[n].removing
         /\ \A j \in Keys : /\ Has(r, j) = Has(s, j) /\ r.entry[j].refs = s.entry[j].refs
                            /\ r.entry[j].retarget = s.entry[j].retarget
<1> DEFINE e == [s.entry[n] EXCEPT !.queuedAction = "none", !.removing = FALSE]
           q == Unqueue(s.queue, n, {"unsubscribe"})
           r == [s EXCEPT !.entry[n] = e, !.queue = q]
<1>1. s.entry[n] \in Entries /\ s.queue \in Seq(QueuedJobs)
  BY EntryTyped DEF Supervisors
<1>2. r = CancelQueuedUnsubscribe(s, n)
  BY DEF CancelQueuedUnsubscribe, Supervisors
<1>3. /\ e \in Entries /\ e.present = s.entry[n].present /\ e.refs = s.entry[n].refs
      /\ ~e.removing /\ e.retarget = s.entry[n].retarget
      /\ e.waitingTarget = s.entry[n].waitingTarget
      /\ e.subscribed = s.entry[n].subscribed /\ e.state = s.entry[n].state
      /\ e.queuedAction = "none"
      /\ e.rotationOutgoing = s.entry[n].rotationOutgoing
      /\ e.rotationIncoming = s.entry[n].rotationIncoming
  BY <1>1, ConstantsTyped DEF Entries
<1>4. q \in Seq(QueuedJobs) /\ ToSet(q) \subseteq ToSet(s.queue)
      /\ \A job \in ToSet(s.queue) : job.key # n => job \in ToSet(q)
  <2>1. q \in Seq(QueuedJobs)
        /\ ToSet(q) = {job \in ToSet(s.queue) : ~(job.key = n /\ job.action \in {"unsubscribe"})}
    BY <1>1, UnqueueSet
  <2> HIDE DEF q
  <2> QED BY <2>1
<1> HIDE DEF e, q
<1>5. r \in Supervisors
  BY <1>3, <1>4 DEF Supervisors
<1>6. /\ r.entry[n] = e /\ \A j \in Keys : j # n => r.entry[j] = s.entry[j]
      /\ r.queue = q /\ SameJobs(s, r) /\ r.order = s.order /\ r.demand = s.demand
      /\ r.handles = s.handles /\ r.destroyed = s.destroyed
      /\ r.registered = s.registered /\ r.answer = s.answer
      /\ r.rotationCurrent = s.rotationCurrent /\ r.rotationQueue = s.rotationQueue
  BY DEF Supervisors, SameJobs
<1> HIDE DEF r
<1>7. SameSocket(s, r) /\ SameStates(s, r) /\ SameRotation(s, r)
  BY <1>3, <1>6 DEF SameSocket, SameStates, SameRotation
<1>8. \A j \in Keys :
        /\ Has(r, j) = Has(s, j) /\ r.entry[j].refs = s.entry[j].refs
        /\ r.entry[j].retarget = s.entry[j].retarget
        /\ r.entry[j].removing => s.entry[j].removing
        /\ j # n => r.entry[j].removing = s.entry[j].removing
        /\ r.entry[j].present = s.entry[j].present
        /\ r.entry[j].subscribed = s.entry[j].subscribed /\ r.entry[j].state = s.entry[j].state
        /\ r.entry[j].queuedAction \in {"none", s.entry[j].queuedAction}
        /\ r.entry[j].rotationIncoming = s.entry[j].rotationIncoming
        /\ r.entry[j].waitingTarget = s.entry[j].waitingTarget
  BY <1>3, <1>6 DEF Has
<1>9. DemandTrue(r) /\ HandlesTrue(r) /\ Listed(r) /\ DestroyedEmpty(r)
  <2>1. {j \in Keys : Has(r, j)} = {j \in Keys : Has(s, j)}
    BY <1>8
  <2>2. [j \in Keys |-> r.entry[j].refs] = [j \in Keys |-> s.entry[j].refs]
    BY <1>8
  <2>3. DemandTrue(r) /\ HandlesTrue(r)
    BY <1>6, <2>1, <2>2 DEF DemandTrue, HandlesTrue, Good
  <2>4. Listed(r) /\ DestroyedEmpty(r)
    BY <1>6, <1>8 DEF Listed, DestroyedEmpty, Good
  <2> QED BY <2>3, <2>4
<1>10. EntriesSound(r)
  <2>1. EntriesSound(s)
    BY DEF Good
  <2> QED BY <1>8, <2>1 DEF EntriesSound, Blank
<1>11. NoneStranded(s, r)
  <2> SUFFICES ASSUME NEW j \in Keys, Stranded(r, j)
               PROVE  Stranded(s, j) /\ r.entry[j].waitingTarget = s.entry[j].waitingTarget
    BY DEF NoneStranded
  <2> DEFINE x == s.entry[j].waitingTarget
  <2>1. x # None /\ x \in Keys /\ ~WaitsFor(r, j, x)
    BY <1>8 DEF Stranded, Supervisors, Entries
  <2>2. ASSUME WaitsFor(s, j, x) PROVE FALSE
    <3>1. s.entry[j].retarget = x /\ <<j, x>> \in Successions
      BY <2>1, <2>2 DEF WaitsFor, Good, EntriesSound
    <3>2. x = n
      BY <1>8, <2>1, <2>2 DEF WaitsFor
    <3>3. <<j, n>> \in Successions
      BY <3>1, <3>2
    <3>4. (j = k /\ n = n) \/ (j = n /\ n = k)
      BY <3>3, OneSibling
    <3>5. j = k
      BY <3>3, <3>4, SuccessionsAssumption
    <3> QED BY <2>1, <3>5
  <2> QED BY <1>8, <2>1, <2>2 DEF Stranded
<1>12. Progress(s, r)
  BY <1>8 DEF Progress, Pending, Over, Held
<1>13. JobsSound(r) /\ NoneJobless(s, r)
  <2>1. \A job \in ToSet(s.queue) : job.key \in Keys
    BY QueueTyped DEF QueuedJobs
  <2>2. JobsSound(s)
    BY DEF Good
  <2>3. JobsSound(r)
    BY <1>4, <1>6, <1>8, <2>1, <2>2 DEF SameJobs, JobsSound, Points
  <2>4. NoneJobless(s, r)
    BY <1>3, <1>4, <1>6 DEF SameJobs, NoneJobless, Unsent, Jobless
  <2> QED BY <2>3, <2>4
<1>14. Keeps(s, r)
  BY <1>5, <1>6, <1>7, <1>9, <1>10, <1>11, <1>12, <1>13, SocketKept, RotationKept, AllKept
<1>15. ~r.entry[n].removing
  BY <1>3, <1>6
<1>16. \A j \in Keys : /\ Has(r, j) = Has(s, j) /\ r.entry[j].refs = s.entry[j].refs
                       /\ r.entry[j].retarget = s.entry[j].retarget
  BY <1>8
<1> QED BY <1>2, <1>14, <1>15, <1>16

(* An entry takes handles over, or comes to be with them.                    *)
Adopted(s, n, refs) ==
  IF Has(s, n) THEN [s EXCEPT !.entry[n].refs = @ + refs]
  ELSE [s EXCEPT !.entry[n] = [Fresh EXCEPT !.refs = refs], !.order = Append(@, n)]

(* Handles move, and the entry they leave is forgotten.                      *)
LEMMA AdoptedSound ==
  ASSUME NEW s \in Supervisors, Good(s), NEW n \in Keys, Has(s, n) => ~s.entry[n].removing,
         NEW refs \in Nat
  PROVE  LET r == Adopted(s, n, refs) IN
         /\ r \in Supervisors /\ Sound(r)
         /\ NoneStranded(s, r) /\ NoneOrphaned(s, r) /\ NoneUnregistered(s, r) /\ NoneJobless(s, r)
         /\ r.demand = s.demand /\ r.handles = s.handles /\ r.destroyed = s.destroyed
         /\ r.entry[n].refs = s.entry[n].refs + refs
         /\ \A j \in Keys : /\ Has(r, j) <=> Has(s, j) \/ j = n
                            /\ r.entry[j].retarget = s.entry[j].retarget
                            /\ r.entry[j].waitingTarget = s.entry[j].waitingTarget
                            /\ j # n => r.entry[j] = s.entry[j]
<1> DEFINE e == IF Has(s, n) THEN [s.entry[n] EXCEPT !.refs = @ + refs] ELSE [Fresh EXCEPT !.refs = refs]
           o == IF Has(s, n) THEN s.order ELSE Append(s.order, n)
           r == [s EXCEPT !.entry[n] = e, !.order = o]
<1>1. s.entry[n] \in Entries /\ s.order \in Seq(Keys)
  BY EntryTyped DEF Supervisors
<1>2. r = Adopted(s, n, refs)
  <2>1. CASE Has(s, n)
    BY <2>1 DEF Adopted, Supervisors
  <2>2. CASE ~Has(s, n)
    BY <2>2 DEF Adopted, Supervisors
  <2> QED BY <2>1, <2>2
<1>3. /\ e \in Entries /\ e.present /\ e.refs = s.entry[n].refs + refs
      /\ ~e.removing /\ e.retarget = s.entry[n].retarget
      /\ e.waitingTarget = s.entry[n].waitingTarget
      /\ e.subscribed = s.entry[n].subscribed
      /\ e.subscribed => e.state \in OnWire
      /\ e.queuedAction = s.entry[n].queuedAction
      /\ e.rotationOutgoing \in {None, s.entry[n].rotationOutgoing}
      /\ e.rotationIncoming = s.entry[n].rotationIncoming
  <2>1. CASE Has(s, n)
    <3>1. e = [s.entry[n] EXCEPT !.refs = s.entry[n].refs + refs]
      BY <2>1
    <3>2. s.entry[n].refs + refs \in Nat /\ s.entry[n].present /\ ~s.entry[n].removing
      BY <1>1, <2>1 DEF Entries, Has
    <3>3. s.entry[n].subscribed => s.entry[n].state \in OnWire
      BY SubscribedOnWire
    <3> HIDE DEF e
    <3> QED BY <1>1, <3>1, <3>2, <3>3 DEF Entries
  <2>2. CASE ~Has(s, n)
    <3>1. Blank(s.entry[n])
      BY <2>2, BlankWhenAbsent
    <3>2. e = [Fresh EXCEPT !.refs = refs]
      BY <2>2
    <3>3. Fresh \in Entries /\ Fresh.present /\ Fresh.subscribed = FALSE /\ Fresh.removing = FALSE
          /\ Fresh.retarget = None /\ Fresh.waitingTarget = None /\ Fresh.queuedAction = "none"
          /\ Fresh.rotationOutgoing = None /\ Fresh.rotationIncoming = FALSE
      BY ConstantsTyped DEF Fresh, Absent, Entries
    <3> HIDE DEF e
    <3>4. /\ e \in Entries /\ e.present /\ e.refs = refs /\ e.removing = FALSE /\ e.retarget = None
          /\ e.waitingTarget = None /\ e.subscribed = FALSE /\ e.queuedAction = "none"
          /\ e.rotationOutgoing = None /\ e.rotationIncoming = FALSE
      BY <3>2, <3>3 DEF Entries
    <3>5. s.entry[n].subscribed = FALSE /\ s.entry[n].rotationIncoming = FALSE
      BY <1>1, <3>1 DEF Blank, Entries
    <3>6. s.entry[n].refs = 0 /\ s.entry[n].queuedAction = "none"
          /\ s.entry[n].retarget = None /\ s.entry[n].waitingTarget = None
      BY <3>1 DEF Blank
    <3>7. e.refs = s.entry[n].refs + refs
      BY <3>4, <3>6
    <3> QED BY <3>4, <3>5, <3>6, <3>7
  <2> QED BY <2>1, <2>2
<1>4. o \in Seq(Keys) /\ ToSet(o) = ToSet(s.order) \cup {n}
  <2>1. CASE Has(s, n)
    <3>1. n \in ToSet(s.order)
      BY <2>1 DEF Good, Listed
    <3> QED BY <1>1, <2>1, <3>1
  <2>2. CASE ~Has(s, n)
    BY <1>1, <2>2, AppendedSet
  <2> QED BY <2>1, <2>2
<1> HIDE DEF e, o
<1>5. r \in Supervisors
  BY <1>3, <1>4 DEF Supervisors
<1>6. /\ r.entry[n] = e /\ \A j \in Keys : j # n => r.entry[j] = s.entry[j]
      /\ r.order = o /\ r.queue = s.queue /\ SameJobs(s, r) /\ r.demand = s.demand
      /\ r.handles = s.handles /\ r.destroyed = s.destroyed
      /\ r.registered = s.registered /\ r.answer = s.answer
      /\ r.rotationCurrent = s.rotationCurrent /\ r.rotationQueue = s.rotationQueue
  BY DEF Supervisors, SameJobs
<1> HIDE DEF r
<1>7. SameSocket(s, r) /\ SameQueue(s, r)
  BY <1>3, <1>6 DEF SameSocket, SameQueue
<1>8. \A j \in Keys : /\ Has(r, j) <=> Has(s, j) \/ j = n
                      /\ r.entry[j].retarget = s.entry[j].retarget
                      /\ r.entry[j].waitingTarget = s.entry[j].waitingTarget
  BY <1>3, <1>6 DEF Has
<1>9. Listed(r)
  BY <1>4, <1>6, <1>8 DEF Listed, Good
<1>10. EntriesSound(r)
  <2>1. EntriesSound(s)
    BY DEF Good
  <2>2. ASSUME NEW j \in Keys, j # n
        PROVE  /\ ~r.entry[j].present => Blank(r.entry[j])
               /\ r.entry[j].subscribed => r.entry[j].state \in OnWire
               /\ r.entry[j].retarget # None => <<j, r.entry[j].retarget>> \in Successions
               /\ r.entry[j].removing => r.entry[j].refs = 0
    BY <1>6, <2>1, <2>2 DEF EntriesSound
  <2>3. /\ r.entry[n].present /\ (r.entry[n].subscribed => r.entry[n].state \in OnWire)
        /\ ~r.entry[n].removing
        /\ r.entry[n].retarget # None => <<n, r.entry[n].retarget>> \in Successions
    BY <1>3, <1>6, <2>1 DEF EntriesSound
  <2> QED BY <2>2, <2>3 DEF EntriesSound
<1>11. JobsSound(r) /\ NoneJobless(s, r)
  <2>1. \A job \in ToSet(s.queue) : job.key \in Keys
    BY QueueTyped DEF QueuedJobs
  <2>2. JobsSound(s)
    BY DEF Good
  <2>3. JobsSound(r)
    BY <1>6, <1>8, <2>1, <2>2 DEF SameJobs, JobsSound, Points
  <2>4. NoneJobless(s, r)
    BY <1>6, <1>7 DEF SameQueue, SameJobs, NoneJobless, Unsent, Jobless
  <2> QED BY <2>3, <2>4
<1>12. DeadUnsubscribed(r) /\ AcceptedIsRegistered(r) /\ NoneUnregistered(s, r)
  BY <1>5, <1>6, <1>7, SocketKept DEF SameJobs
<1>13. \A j \in Keys : r.entry[j].rotationOutgoing \in {None, s.entry[j].rotationOutgoing}
                    /\ r.entry[j].rotationIncoming = s.entry[j].rotationIncoming
  BY <1>3, <1>6
<1>14. MarksNamePartner(r) /\ NoneOrphaned(s, r)
  <2>1. Lease(r) = Lease(s)
    BY <1>6 DEF Lease
  <2>2. MarksNamePartner(s)
    BY DEF Good
  <2> QED BY <1>13, <2>1, <2>2 DEF MarksNamePartner, NoneOrphaned, Orphaned
<1>15. NoneStranded(s, r)
  <2> SUFFICES ASSUME NEW j \in Keys, Stranded(r, j) PROVE Stranded(s, j)
    BY <1>8 DEF NoneStranded
  <2> DEFINE x == s.entry[j].waitingTarget
  <2>1. x # None /\ x \in Keys /\ ~WaitsFor(r, j, x)
    BY <1>8 DEF Stranded, Supervisors, Entries
  <2>2. ASSUME WaitsFor(s, j, x) PROVE FALSE
    <3>1. x # n
      BY <2>2 DEF WaitsFor
    <3> QED BY <1>6, <1>8, <2>1, <2>2, <3>1 DEF WaitsFor
  <2> QED BY <2>1, <2>2 DEF Stranded
<1>16. Sound(r)
  BY <1>9, <1>10, <1>11, <1>12, <1>14 DEF Sound
<1> QED BY <1>2, <1>3, <1>5, <1>6, <1>8, <1>11, <1>12, <1>14, <1>15, <1>16

(* The handles of k become those of n, and no other.                         *)
LEMMA HandlesMove ==
  ASSUME NEW f \in [Keys -> Nat], NEW g \in [Keys -> Nat], NEW k \in Keys, NEW n \in Keys, k # n,
         g[n] = f[n] + f[k], g[k] = 0, \A j \in Keys : j \notin {k, n} => g[j] = f[j]
  PROVE  Total(f) = Total(g)
<1> DEFINE m == [f EXCEPT ![n] = f[n] + f[k]]
<1>1. m \in [Keys -> Nat] /\ m[n] = f[n] + f[k] /\ m[k] = f[k]
      /\ \A j \in Keys : j # n => m[j] = f[j]
  OBVIOUS
<1> HIDE DEF m
<1>2. Total(f) \in Nat /\ Total(m) \in Nat /\ Total(m) + f[n] = Total(f) + m[n]
  BY <1>1, KeysAssumption, TotalChanges
<1>3. Total(g) \in Nat /\ Total(g) + m[k] = Total(m) + g[k]
  <2>1. \A j \in Keys : j # k => m[j] = g[j]
    BY <1>1
  <2> QED BY <1>1, <2>1, KeysAssumption, TotalChanges
<1>4. f[n] \in Nat /\ f[k] \in Nat
  OBVIOUS
<1> QED BY <1>1, <1>2, <1>3, <1>4

-----------------------------------------------------------------------------
(* A retarget completes.                                                     *)

(* The references of the entries are numbers.                                *)
LEMMA RefsTyped ==
  ASSUME NEW s \in Supervisors
  PROVE  /\ [j \in Keys |-> s.entry[j].refs] \in [Keys -> Nat]
         /\ \A j \in Keys : s.entry[j].refs \in Nat
BY EntryTyped DEF Entries

(* One leaves a finite set and another comes.                                *)
LEMMA SwapCount ==
  ASSUME NEW H, IsFiniteSet(H), NEW k \in H, NEW n, n \notin H
  PROVE  Cardinality((H \cup {n}) \ {k}) = Cardinality(H)
<1>1. IsFiniteSet(H \cup {n}) /\ Cardinality(H \cup {n}) = Cardinality(H) + 1
  BY FS_AddElement
<1>2. Cardinality((H \cup {n}) \ {k}) = Cardinality(H \cup {n}) - 1
  BY <1>1, FS_RemoveElement
<1>3. Cardinality(H) \in Nat
  BY FS_CardinalityType
<1> QED BY <1>1, <1>2, <1>3

(* With an entry forgotten there is one demand too many.                     *)
LEMMA ForgetDemand ==
  ASSUME NEW s \in Supervisors, NEW k
  PROVE  Forget(s, k).demand = s.demand /\ Forget(s, k) = [Forget(s, k) EXCEPT !.demand = s.demand]
<1> DEFINE e == [j \in Keys |-> IF j = k THEN Absent
                   ELSE [s.entry[j] EXCEPT !.rotationOutgoing = MarkGone(@, k)]]
           o == Only(s.order, Keys \ {k})
           q == Unqueue(s.queue, k, {"subscribe", "unsubscribe"})
           c == MarkDead(s.currentJob, k)
           t == MarkDead(s.sendTimer, k)
           g == MarkDead(s.sending, k)
           p == PairWithout(s.rotationCurrent, k)
           w == [i \in 1..Len(s.rotationQueue) |-> PairWithout(s.rotationQueue[i], k)]
           r == [s EXCEPT !.entry = e, !.order = o, !.queue = q, !.currentJob = c,
                          !.sendTimer = t, !.sending = g, !.rotationCurrent = p,
                          !.rotationQueue = w]
<1>1. Forget(s, k) = r
  BY DEF Forget
<1> HIDE DEF e, o, q, c, t, g, p, w
<1>2. r.demand = s.demand /\ r = [r EXCEPT !.demand = s.demand]
  BY DEF Supervisors
<1> HIDE DEF r
<1> QED BY <1>1, <1>2

(* The handles of k move to the entry of its target.                         *)
LEMMA MoveRefsKeeps ==
  ASSUME NEW turn, Turning(turn), NEW s \in Supervisors, Good(s), NEW k \in Keys,
         Held(s, k), s.entry[k].retarget # None,
         Has(s, s.entry[k].retarget) => ~s.entry[s.entry[k].retarget].removing
  PROVE  Keeps(s, MoveRefs(turn, s, k))
<1> DEFINE next == s.entry[k].retarget
           refs == s.entry[k].refs
           merges == Has(s, next)
           a == Adopted(s, next, refs)
           moved == Forget(a, k)
           d == IF merges THEN s.demand - 1 ELSE s.demand
           u == [moved EXCEPT !.demand = d]
           held == IF merges THEN ReleaseDemand(turn, moved) ELSE moved
           queued == EnqueueSubscribe(held, next)
           settled == Rebalance(turn, queued)
           r == Pump(turn, settled)
<1>1. MoveRefs(turn, s, k) = r
  BY DEF MoveRefs, Adopted
<1>2. next \in Keys /\ <<k, next>> \in Successions /\ k # next
  <2>1. <<k, next>> \in Successions
    BY DEF Good, EntriesSound
  <2>2. next \in Keys
    BY EntryTyped DEF Entries
  <2> QED BY <2>1, <2>2, SuccessionsAssumption
<1>3. refs \in Nat /\ refs > 0 /\ Has(s, k) /\ s.entry[k].removing = FALSE
  <2>1. s.entry[k] \in Entries
    BY EntryTyped
  <2>2. refs \in Nat /\ refs > 0 /\ Has(s, k)
    BY <2>1 DEF Held, Entries
  <2>3. ~(refs = 0)
    BY <2>2
  <2>4. ~s.entry[k].removing
    BY <2>3 DEF Good, EntriesSound
  <2> QED BY <2>1, <2>2, <2>4 DEF Entries
<1> HIDE DEF next, refs
<1>4. /\ a \in Supervisors /\ Sound(a)
      /\ NoneStranded(s, a) /\ NoneOrphaned(s, a) /\ NoneUnregistered(s, a) /\ NoneJobless(s, a)
      /\ a.demand = s.demand /\ a.handles = s.handles /\ a.destroyed = s.destroyed
      /\ a.entry[next].refs = s.entry[next].refs + refs
      /\ \A j \in Keys : /\ Has(a, j) <=> Has(s, j) \/ j = next
                         /\ a.entry[j].retarget = s.entry[j].retarget
                         /\ a.entry[j].waitingTarget = s.entry[j].waitingTarget
                         /\ j # next => a.entry[j] = s.entry[j]
  <2>1. Has(s, next) => ~s.entry[next].removing
    BY DEF next
  <2> QED BY <1>2, <1>3, <2>1, AdoptedSound
<1> HIDE DEF a
<1>5. s.demand \in Nat /\ s.demand = Cardinality({j \in Keys : Has(s, j)})
  BY DEF Supervisors, Good, DemandTrue
<1>6. Cardinality({j \in Keys : Has(s, j)} \ {k}) = s.demand - 1 /\ s.demand - 1 \in Nat
  <2> DEFINE H == {j \in Keys : Has(s, j)}
  <2>1. IsFiniteSet(H) /\ Cardinality(H \ {k}) \in Nat
    BY CountOfKeys
  <2>2. k \in H
    BY <1>3
  <2> HIDE DEF H
  <2>3. Cardinality(H \ {k}) = Cardinality(H) - 1
    BY <2>1, <2>2, FS_RemoveElement
  <2> QED BY <1>5, <2>1, <2>3 DEF H
<1>7. u \in Supervisors /\ Without(a, u, k) /\ u.demand = d
  <2>1. d \in Nat
    BY <1>5, <1>6
  <2> HIDE DEF d
  <2> QED BY <1>4, <2>1, ForgetIs
<1>8. moved.demand = a.demand /\ moved = [moved EXCEPT !.demand = a.demand]
  BY <1>4, ForgetDemand
<1> HIDE DEF u, moved
<1>9. /\ Sound(u) /\ NoneOrphaned(a, u) /\ NoneUnregistered(a, u) /\ NoneJobless(a, u)
      /\ \A j \in Keys : Stranded(u, j) =>
           /\ Stranded(a, j) \/ a.entry[j].waitingTarget = k
           /\ u.entry[j].waitingTarget = a.entry[j].waitingTarget
  BY <1>4, <1>7, WithoutSound
<1>10. /\ u.entry[k] = Absent
       /\ \A j \in Keys : j # k =>
            /\ u.entry[j].present = a.entry[j].present /\ u.entry[j].refs = a.entry[j].refs
            /\ u.entry[j].retarget = a.entry[j].retarget
       /\ u.handles = a.handles /\ u.destroyed = a.destroyed
  BY <1>7 DEF Without, SameButMarks
<1>11. \A j \in Keys : Has(u, j) <=> (Has(s, j) \/ j = next) /\ j # k
  BY <1>4, <1>10 DEF Has, Absent
<1>12. DemandTrue(u)
  <2> DEFINE H == {j \in Keys : Has(s, j)}
  <2>1. CASE merges
    <3>1. {j \in Keys : Has(u, j)} = H \ {k}
      BY <1>11, <2>1
    <3> QED BY <1>6, <1>7, <2>1, <3>1 DEF DemandTrue
  <2>2. CASE ~merges
    <3>1. {j \in Keys : Has(u, j)} = (H \cup {next}) \ {k}
      BY <1>2, <1>11
    <3>2. IsFiniteSet(H) /\ k \in H /\ next \notin H
      BY <1>3, <2>2, CountOfKeys
    <3>3. u.demand = Cardinality(H)
      BY <1>5, <1>7, <2>2
    <3> HIDE DEF H
    <3> QED BY <3>1, <3>2, <3>3, SwapCount DEF DemandTrue
  <2> QED BY <2>1, <2>2
<1>13. HandlesTrue(u)
  <2> DEFINE f == [j \in Keys |-> s.entry[j].refs]
             g == [j \in Keys |-> u.entry[j].refs]
  <2>1. f \in [Keys -> Nat] /\ g \in [Keys -> Nat]
    BY <1>7, RefsTyped
  <2>2. g[next] = f[next] + f[k] /\ g[k] = 0 /\ \A j \in Keys : j \notin {k, next} => g[j] = f[j]
    <3>1. u.entry[next].refs = s.entry[next].refs + s.entry[k].refs
      BY <1>2, <1>4, <1>10 DEF refs
    <3>2. u.entry[k].refs = 0
      BY <1>10 DEF Absent
    <3>3. \A j \in Keys : j \notin {k, next} => u.entry[j].refs = s.entry[j].refs
      BY <1>4, <1>10
    <3> QED BY <1>2, <3>1, <3>2, <3>3
  <2> HIDE DEF f, g
  <2>3. Total(f) = Total(g)
    BY <1>2, <2>1, <2>2, HandlesMove
  <2> QED BY <1>4, <1>10, <2>3 DEF HandlesTrue, Good, f, g
<1>14. DestroyedEmpty(u)
  BY <1>3, <1>4, <1>10 DEF DestroyedEmpty, Good
<1>15. Good(u)
  BY <1>9, <1>12, <1>13, <1>14 DEF Good, Sound
<1>16. NoneStranded(s, u)
  <2> SUFFICES ASSUME NEW j \in Keys, Stranded(u, j)
               PROVE  Stranded(s, j) /\ u.entry[j].waitingTarget = s.entry[j].waitingTarget
    BY DEF NoneStranded
  <2>1. u.entry[j].waitingTarget = s.entry[j].waitingTarget
    BY <1>4, <1>9
  <2>2. CASE Stranded(a, j)
    BY <1>4, <2>1, <2>2 DEF NoneStranded
  <2>3. CASE s.entry[j].waitingTarget = k
    BY <1>3, <2>1, <2>3, KeysAssumption DEF Stranded, WaitsFor
  <2> QED BY <1>4, <1>9, <2>2, <2>3
<1>17. Progress(s, u)
  <2> SUFFICES ASSUME NEW i \in Keys, NEW j \in Keys, <<i, j>> \in Successions
               PROVE  /\ Pending(s, i, j) => Pending(u, i, j) \/ Over(u, i, j)
                      /\ Over(s, i, j) => Over(u, i, j)
    BY DEF Progress
  <2>1. CASE i \in {k, next} \/ j \in {k, next}
    <3>1. (i = k /\ j = next) \/ (i = next /\ j = k)
      BY <1>2, <2>1, OneSibling
    <3>2. CASE i = k /\ j = next
      <4>1. ~Over(s, i, j)
        BY <1>3, <3>2 DEF Over
      <4>2. ASSUME Pending(s, i, j) PROVE Over(u, i, j)
        <5>1. ~Has(s, next)
          BY <3>2, <4>2 DEF Pending
        <5>2. s.entry[next].retarget = None
          BY <1>2, <5>1, BlankWhenAbsent DEF Blank
        <5>3. u.entry[next].retarget = None
          BY <1>2, <1>4, <1>10, <5>2
        <5> QED BY <1>2, <1>11, <3>2, <5>3 DEF Over
      <4> QED BY <4>1, <4>2
    <3>3. CASE i = next /\ j = k
      <4>1. ~Pending(s, i, j) /\ ~Over(s, i, j)
        BY <1>3, <3>3 DEF Pending, Over, next
      <4> QED BY <4>1
    <3> QED BY <3>1, <3>2, <3>3
  <2>2. CASE ~(i \in {k, next} \/ j \in {k, next})
    <3>1. \A x \in {i, j} : Has(u, x) = Has(s, x) /\ u.entry[x].refs = s.entry[x].refs
                            /\ u.entry[x].retarget = s.entry[x].retarget
      <4>1. \A x \in {i, j} : x \in Keys /\ x # k /\ x # next
        BY <2>2
      <4> QED BY <1>4, <1>10, <4>1 DEF Has
    <3> QED BY <3>1 DEF Pending, Over, Held
  <2> QED BY <2>1, <2>2
<1>18. Keeps(s, u)
  BY <1>4, <1>7, <1>9, <1>15, <1>16, <1>17
     DEF Keeps, Guards, NoneOrphaned, NoneUnregistered, NoneJobless, Unsent
<1>19. Keeps(u, held)
  <2>1. CASE merges
    <3>1. u = [moved EXCEPT !.demand = @ - 1]
      BY <1>4, <1>8, <2>1 DEF u
    <3>2. Keeps(u, ReleaseDemand(turn, moved))
      BY <1>7, <1>15, <3>1, ReleaseDemandKeeps
    <3> QED BY <2>1, <3>2
  <2>2. CASE ~merges
    <3>1. u = moved
      BY <1>4, <1>8, <2>2 DEF u
    <3> QED BY <1>7, <1>15, <2>2, <3>1, KeepsReflexive
  <2> QED BY <2>1, <2>2
<1> HIDE DEF held
<1>20. Keeps(held, queued)
  BY <1>2, <1>19, EnqueueSubscribeKeeps DEF Keeps, Guards
<1> HIDE DEF queued
<1>21. Keeps(queued, settled)
  BY <1>20, RebalanceKeeps DEF Keeps, Guards
<1> HIDE DEF settled
<1>22. Keeps(settled, r)
  BY <1>21, PumpKeeps DEF Keeps, Guards
<1> HIDE DEF r
<1>23. Keeps(s, r)
  BY <1>18, <1>19, <1>20, <1>21, <1>22, KeepsTransitive
<1> QED BY <1>1, <1>23

(* A retarget of an entry without handles is dropped.                        *)
LEMMA RetargetDropped ==
  ASSUME NEW s \in Supervisors, Good(s), NEW k \in Keys, s.entry[k].refs = 0,
         s.entry[k].waitingTarget = None
  PROVE  LET r == [s EXCEPT !.entry[k].retarget = None] IN
         Keeps(s, r) /\ r.entry[k].refs = 0
<1> DEFINE e == [s.entry[k] EXCEPT !.retarget = None]
           r == [s EXCEPT !.entry[k] = e]
<1>0. r = [s EXCEPT !.entry[k].retarget = None]
  BY DEF Supervisors
<1>1. s.entry[k] \in Entries
  BY EntryTyped
<1>2. /\ e \in Entries /\ e.present = s.entry[k].present /\ e.refs = s.entry[k].refs
      /\ e.removing = s.entry[k].removing /\ e.retarget = None
      /\ e.waitingTarget = s.entry[k].waitingTarget
      /\ e.subscribed = s.entry[k].subscribed /\ e.state = s.entry[k].state
      /\ e.queuedAction = s.entry[k].queuedAction
      /\ e.rotationOutgoing = s.entry[k].rotationOutgoing
      /\ e.rotationIncoming = s.entry[k].rotationIncoming
  BY <1>1 DEF Entries
<1> HIDE DEF e
<1>3. /\ r \in Supervisors /\ SameOutside(s, r)
      /\ r.entry[k] = e /\ \A j \in Keys : j # k => r.entry[j] = s.entry[j]
  BY <1>2, EntryReplaced
<1> HIDE DEF r
<1>4. SameQueue(s, r) /\ SameSocket(s, r) /\ SameStates(s, r) /\ SameRotation(s, r) /\ SameJobs(s, r)
  BY <1>2, <1>3 DEF SameOutside, SameQueue, SameSocket, SameStates, SameRotation
<1>5. \A j \in Keys :
        /\ Has(r, j) = Has(s, j) /\ r.entry[j].refs = s.entry[j].refs
        /\ r.entry[j].removing = s.entry[j].removing
        /\ r.entry[j].present = s.entry[j].present
        /\ r.entry[j].subscribed = s.entry[j].subscribed /\ r.entry[j].state = s.entry[j].state
        /\ r.entry[j].queuedAction = s.entry[j].queuedAction
        /\ r.entry[j].rotationIncoming = s.entry[j].rotationIncoming
        /\ r.entry[j].waitingTarget = s.entry[j].waitingTarget
        /\ r.entry[j].retarget \in {None, s.entry[j].retarget}
        /\ j # k => r.entry[j].retarget = s.entry[j].retarget
  BY <1>2, <1>3 DEF Has
<1>6. DemandTrue(r) /\ HandlesTrue(r) /\ Listed(r) /\ DestroyedEmpty(r)
  <2>1. {j \in Keys : Has(r, j)} = {j \in Keys : Has(s, j)}
    BY <1>5
  <2>2. [j \in Keys |-> r.entry[j].refs] = [j \in Keys |-> s.entry[j].refs]
    BY <1>5
  <2>3. DemandTrue(r) /\ HandlesTrue(r)
    BY <1>3, <2>1, <2>2 DEF DemandTrue, HandlesTrue, Good, SameOutside
  <2>4. Listed(r) /\ DestroyedEmpty(r)
    BY <1>3, <1>5 DEF Listed, DestroyedEmpty, Good, SameOutside
  <2> QED BY <2>3, <2>4
<1>7. EntriesSound(r)
  <2>1. EntriesSound(s)
    BY DEF Good
  <2> SUFFICES ASSUME NEW j \in Keys
               PROVE  LET e2 == r.entry[j] IN
                      /\ ~e2.present => Blank(e2)
                      /\ e2.subscribed => e2.state \in OnWire
                      /\ e2.retarget # None => <<j, e2.retarget>> \in Successions
                      /\ e2.removing => e2.refs = 0
    BY DEF EntriesSound
  <2>2. ~s.entry[j].present => Blank(s.entry[j])
    BY <2>1 DEF EntriesSound
  <2>3. ~r.entry[j].present => Blank(r.entry[j])
    BY <1>5, <2>2 DEF Blank
  <2>4. /\ s.entry[j].subscribed => s.entry[j].state \in OnWire
        /\ s.entry[j].retarget # None => <<j, s.entry[j].retarget>> \in Successions
        /\ s.entry[j].removing => s.entry[j].refs = 0
    BY <2>1 DEF EntriesSound
  <2> QED BY <1>5, <2>3, <2>4
<1>8. NoneStranded(s, r)
  <2> SUFFICES ASSUME NEW j \in Keys, Stranded(r, j)
               PROVE  Stranded(s, j) /\ r.entry[j].waitingTarget = s.entry[j].waitingTarget
    BY DEF NoneStranded
  <2>1. j # k /\ s.entry[j].waitingTarget \in Keys
    BY <1>5 DEF Stranded, Supervisors, Entries
  <2> QED BY <1>5, <2>1 DEF Stranded, WaitsFor
<1>9. Progress(s, r)
  <2>1. \A n : ~Pending(s, k, n)
    BY <1>1 DEF Pending, Held, Entries
  <2> QED BY <1>5, <2>1 DEF Progress, Pending, Over, Held
<1>10. JobsSound(r) /\ NoneJobless(s, r)
  <2>1. \A job \in ToSet(s.queue) : job.key \in Keys
    BY QueueTyped DEF QueuedJobs
  <2>2. JobsSound(s)
    BY DEF Good
  <2>3. JobsSound(r)
    BY <1>3, <1>5, <2>1, <2>2 DEF SameOutside, SameJobs, JobsSound, Points
  <2>4. NoneJobless(s, r)
    BY <1>3, <1>5 DEF SameOutside, SameJobs, NoneJobless, Unsent, Jobless
  <2> QED BY <2>3, <2>4
<1>11. Keeps(s, r)
  BY <1>3, <1>4, <1>6, <1>7, <1>8, <1>9, <1>10, SocketKept, RotationKept, AllKept
<1>12. r.entry[k].refs = 0
  BY <1>5
<1> QED BY <1>0, <1>11, <1>12

(* A retarget may wait for a target that is being removed.                   *)
LEMMA WaitKeeps ==
  ASSUME NEW s \in Supervisors, Good(s), NEW k \in Keys, NEW n \in Keys,
         Has(s, k), WaitsFor(s, k, n)
  PROVE  Keeps(s, [s EXCEPT !.entry[k].waitingTarget = n])
<1> DEFINE e == [s.entry[k] EXCEPT !.waitingTarget = n]
           r == [s EXCEPT !.entry[k] = e]
<1>0. r = [s EXCEPT !.entry[k].waitingTarget = n]
  BY DEF Supervisors
<1>1. s.entry[k] \in Entries
  BY EntryTyped
<1>2. /\ e \in Entries /\ e.present = s.entry[k].present /\ e.refs = s.entry[k].refs
      /\ e.removing = s.entry[k].removing /\ e.retarget = s.entry[k].retarget
      /\ e.waitingTarget = n
      /\ e.subscribed = s.entry[k].subscribed /\ e.state = s.entry[k].state
      /\ e.queuedAction = s.entry[k].queuedAction
      /\ e.rotationOutgoing = s.entry[k].rotationOutgoing
      /\ e.rotationIncoming = s.entry[k].rotationIncoming
  BY <1>1 DEF Entries
<1> HIDE DEF e
<1>3. /\ r \in Supervisors /\ SameOutside(s, r)
      /\ r.entry[k] = e /\ \A j \in Keys : j # k => r.entry[j] = s.entry[j]
  BY <1>2, EntryReplaced
<1> HIDE DEF r
<1>4. SameQueue(s, r) /\ SameSocket(s, r) /\ SameStates(s, r) /\ SameRotation(s, r) /\ SameJobs(s, r)
  BY <1>2, <1>3 DEF SameOutside, SameQueue, SameSocket, SameStates, SameRotation
<1>5. \A j \in Keys :
        /\ Has(r, j) = Has(s, j) /\ r.entry[j].refs = s.entry[j].refs
        /\ r.entry[j].removing = s.entry[j].removing
        /\ r.entry[j].retarget = s.entry[j].retarget
        /\ r.entry[j].present = s.entry[j].present
        /\ r.entry[j].subscribed = s.entry[j].subscribed /\ r.entry[j].state = s.entry[j].state
        /\ r.entry[j].queuedAction = s.entry[j].queuedAction
        /\ r.entry[j].rotationIncoming = s.entry[j].rotationIncoming
        /\ j # k => r.entry[j].waitingTarget = s.entry[j].waitingTarget
  BY <1>2, <1>3 DEF Has
<1>6. DemandTrue(r) /\ HandlesTrue(r) /\ Listed(r) /\ DestroyedEmpty(r)
  <2>1. {j \in Keys : Has(r, j)} = {j \in Keys : Has(s, j)}
    BY <1>5
  <2>2. [j \in Keys |-> r.entry[j].refs] = [j \in Keys |-> s.entry[j].refs]
    BY <1>5
  <2>3. DemandTrue(r) /\ HandlesTrue(r)
    BY <1>3, <2>1, <2>2 DEF DemandTrue, HandlesTrue, Good, SameOutside
  <2>4. Listed(r) /\ DestroyedEmpty(r)
    BY <1>3, <1>5 DEF Listed, DestroyedEmpty, Good, SameOutside
  <2> QED BY <2>3, <2>4
<1>7. EntriesSound(r)
  <2>1. EntriesSound(s)
    BY DEF Good
  <2>2. s.entry[k].present
    BY DEF Has
  <2> QED BY <1>5, <2>1, <2>2 DEF EntriesSound, Blank
<1>8. NoneStranded(s, r)
  <2>1. WaitsFor(r, k, n)
    BY <1>5 DEF WaitsFor
  <2>2. ~Stranded(r, k)
    BY <1>2, <1>3, <2>1 DEF Stranded
  <2>3. ASSUME NEW j \in Keys, Stranded(r, j)
        PROVE  Stranded(s, j) /\ r.entry[j].waitingTarget = s.entry[j].waitingTarget
    <3>1. j # k /\ r.entry[j].waitingTarget = s.entry[j].waitingTarget /\ s.entry[j].waitingTarget \in Keys
      BY <1>5, <2>2, <2>3 DEF Stranded, Supervisors, Entries
    <3> QED BY <1>5, <2>3, <3>1 DEF Stranded, WaitsFor
  <2> QED BY <2>3 DEF NoneStranded
<1>9. Progress(s, r)
  BY <1>5 DEF Progress, Pending, Over, Held
<1>10. JobsSound(r) /\ NoneJobless(s, r)
  <2>1. \A job \in ToSet(s.queue) : job.key \in Keys
    BY QueueTyped DEF QueuedJobs
  <2>2. JobsSound(s)
    BY DEF Good
  <2>3. JobsSound(r)
    BY <1>3, <1>5, <2>1, <2>2 DEF SameOutside, SameJobs, JobsSound, Points
  <2>4. NoneJobless(s, r)
    BY <1>3, <1>5 DEF SameOutside, SameJobs, NoneJobless, Unsent, Jobless
  <2> QED BY <2>3, <2>4
<1>11. Keeps(s, r)
  BY <1>3, <1>4, <1>6, <1>7, <1>8, <1>9, <1>10, SocketKept, RotationKept, AllKept
<1> QED BY <1>0, <1>11

(* completeRetarget keeps the state in order.                                *)
LEMMA RetargetCompletedKeeps ==
  ASSUME NEW turn, Turning(turn), NEW s \in Supervisors, Good(s), NEW k \in Keys
  PROVE  Keeps(s, RetargetCompleted(turn, s, k))
<1> DEFINE next == s.entry[k].retarget
           t == [s EXCEPT !.entry[k].waitingTarget = None]
           r == RetargetCompleted(turn, s, k)
<1>0. /\ Keeps(s, t) /\ t \in Supervisors /\ Good(t) /\ t.entry[k].waitingTarget = None
      /\ \A j \in Keys :
              /\ Has(t, j) = Has(s, j) /\ t.entry[j].refs = s.entry[j].refs
              /\ t.entry[j].retarget = s.entry[j].retarget
              /\ t.entry[j].removing = s.entry[j].removing
  BY WaitingTargetCleared DEF Keeps, Guards
<1>1. CASE next = None \/ ~Has(s, k)
  BY <1>1, KeepsReflexive DEF RetargetCompleted
<1>2. CASE next # None /\ Has(s, k) /\ s.entry[k].refs = 0
  <2> DEFINE u == [t EXCEPT !.entry[k].retarget = None]
  <2>1. r = DeleteEntry(turn, u, k)
    BY <1>2 DEF RetargetCompleted
  <2> HIDE DEF t
  <2>2. Keeps(t, u) /\ u.entry[k].refs = 0
    BY <1>0, <1>2, RetargetDropped
  <2> HIDE DEF u
  <2>3. Keeps(u, r)
    BY <2>1, <2>2 DEF Turning, Keeps, Guards
  <2>4. Keeps(s, r)
    BY <1>0, <2>2, <2>3, KeepsTransitive
  <2> QED BY <2>4
<1>3. CASE next # None /\ Has(s, k) /\ s.entry[k].refs # 0
  <2>1. <<k, next>> \in Successions /\ next \in Keys
    BY <1>3, EntryTyped DEF Good, EntriesSound, Entries
  <2>2. s.entry[k].refs > 0
    BY <1>3, EntryTyped DEF Entries
  <2>3. Held(t, k) /\ t.entry[k].retarget = next
    BY <1>0, <1>3, <2>2 DEF Held
  <2> DEFINE leaving == Has(s, next) /\ s.entry[next].removing
             u == CancelQueuedUnsubscribe(t, next)
             v == EntryDeleted(turn, t, next)
             undone == s.entry[next].queuedAction = "unsubscribe" /\ ~JobOn(s, next)
             sent == JobOn(s, next) /\ s.currentJob.action = "unsubscribe"
  <2>4. r = IF ~leaving THEN MoveRefs(turn, t, k)
            ELSE IF undone THEN MoveRefs(turn, u, k)
            ELSE IF sent THEN (IF Has(v, k) THEN MoveRefs(turn, v, k) ELSE v)
            ELSE [s EXCEPT !.entry[k].waitingTarget = next]
    BY <1>3 DEF RetargetCompleted
  <2> HIDE DEF t, r, next, undone, sent
  <2>5. CASE ~leaving
    <3>1. Has(t, next) => ~t.entry[next].removing
      BY <1>0, <2>1, <2>5
    <3>2. next # None
      BY <1>3
    <3>3. Keeps(t, r)
      BY <1>0, <2>3, <2>4, <2>5, <3>1, <3>2, MoveRefsKeeps
    <3>4. Keeps(s, r)
      BY <1>0, <3>3, KeepsTransitive
    <3> QED BY <3>4 DEF r
  <2>6. CASE leaving /\ undone
    <3>1. /\ Keeps(t, u) /\ ~u.entry[next].removing
          /\ \A j \in Keys : /\ Has(u, j) = Has(t, j) /\ u.entry[j].refs = t.entry[j].refs
                             /\ u.entry[j].retarget = t.entry[j].retarget
      <4>1. Has(t, next)
        BY <1>0, <2>1, <2>6
      <4> QED BY <1>0, <2>1, <4>1, CancelQueuedUnsubscribeKeeps
    <3> HIDE DEF u
    <3>2. u \in Supervisors /\ Good(u) /\ Held(u, k) /\ u.entry[k].retarget = next /\ next # None
      BY <1>3, <2>3, <3>1 DEF Keeps, Guards, Held
    <3>3. Keeps(u, r)
      BY <2>4, <2>6, <3>1, <3>2, MoveRefsKeeps
    <3>4. Keeps(s, r)
      BY <1>0, <3>1, <3>3, KeepsTransitive
    <3> QED BY <3>4 DEF r
  <2>7. CASE leaving /\ ~undone /\ sent
    <3>1. t.entry[next].refs = 0
      <4>1. t.entry[next].removing
        BY <1>0, <2>1, <2>7
      <4> QED BY <1>0, <2>1, <4>1 DEF Good, EntriesSound
    <3>2. Keeps(t, v) /\ (Pending(v, k, next) \/ Over(v, k, next))
      BY <1>0, <2>1, <2>3, <3>1, EntryDeletedKeeps
    <3> HIDE DEF v
    <3>3. CASE ~Has(v, k)
      <4>1. Keeps(s, r)
        BY <1>0, <2>4, <2>7, <3>2, <3>3, KeepsTransitive
      <4> QED BY <4>1 DEF r
    <3>4. CASE Has(v, k)
      <4>1. Pending(v, k, next)
        BY <3>2, <3>4 DEF Over
      <4>2. v \in Supervisors /\ Good(v) /\ Held(v, k) /\ v.entry[k].retarget = next /\ next # None
            /\ ~Has(v, next)
        BY <1>3, <3>2, <4>1 DEF Pending, Keeps, Guards
      <4>3. Keeps(v, r)
        BY <2>4, <2>7, <3>4, <4>2, MoveRefsKeeps
      <4>4. Keeps(s, r)
        BY <1>0, <3>2, <4>3, KeepsTransitive
      <4> QED BY <4>4 DEF r
    <3> QED BY <3>3, <3>4
  <2>8. CASE leaving /\ ~undone /\ ~sent
    <3>1. r = [s EXCEPT !.entry[k].waitingTarget = next]
      BY <2>4, <2>8
    <3>2. WaitsFor(s, k, next)
      BY <2>8 DEF WaitsFor, next
    <3>3. Keeps(s, r)
      BY <1>3, <2>1, <3>1, <3>2, WaitKeeps
    <3> QED BY <3>3 DEF r
  <2> QED BY <2>5, <2>6, <2>7, <2>8
<1> QED BY <1>1, <1>2, <1>3

-----------------------------------------------------------------------------
(* A turn, by the depth of its calls.                                        *)

(* Calls that nest no further, and calls that nest one deeper than `turn`.   *)
Shallow ==
  [method \in Methods |-> [k \in Keys \cup {None} |-> [s \in Supervisors |-> TooDeep(s)]]]
Deeper(turn) ==
  [method \in Methods |-> [k \in Keys \cup {None} |-> [s \in Supervisors |->
     Do(turn, method, s, k)]]]

(* f says of each depth up to N what the next lower one says, one deeper.    *)
Nested(f, N) == f = [depth \in 0..N |-> IF depth = 0 THEN Shallow ELSE Deeper(f[depth - 1])]

(* What a call nested so deep does.                                          *)
LEMMA NestedUnfolds ==
  ASSUME NEW N \in Nat, NEW f, Nested(f, N)
  PROVE  f[0] = Shallow /\ \A n \in 1..N : f[n] = Deeper(f[n - 1])
<1>1. f = [n \in 0..N |-> IF n = 0 THEN Shallow ELSE Deeper(f[n - 1])]
  BY DEF Nested
<1>2. 0 \in 0..N /\ \A n \in 1..N : n \in 0..N /\ n # 0
  OBVIOUS
<1> QED BY <1>1, <1>2

(* There are functions for calls nested ever deeper.                         *)
LEMMA NestedExists ==
  ASSUME NEW N \in Nat
  PROVE  \E f : Nested(f, N)
<1> DEFINE Upto(m) == \E f : Nested(f, m)
           Bad == {m \in 0..N : ~Upto(m)}
<1>1. ASSUME Bad # {} PROVE FALSE
  <2>0. Bad \in SUBSET Nat
    OBVIOUS
  <2>1. PICK m \in Bad : \A n \in Bad : m <= n
    <3> HIDE DEF Bad
    <3> QED BY <1>1, <2>0, LeastExists
  <2>2. CASE m = 0
    <3> DEFINE f == [n \in 0..0 |-> Shallow]
    <3>1. \A n \in 0..0 : n = 0
      OBVIOUS
    <3>2. f = [n \in 0..0 |-> IF n = 0 THEN Shallow ELSE Deeper(f[n - 1])]
      BY <3>1
    <3> HIDE DEF f
    <3>3. Upto(0)
      BY <3>2 DEF Nested
    <3> QED BY <3>3, <2>1, <2>2
  <2>3. CASE m # 0
    <3>1. m - 1 \in 0..N /\ m \in 1..N
      BY <2>1, <2>3
    <3>2. Upto(m - 1)
      <4>1. ~(m <= m - 1)
        BY <3>1
      <4>2. m - 1 \notin Bad
        BY <4>1, <2>1
      <4> HIDE DEF Upto
      <4> QED BY <4>2, <3>1
    <3>3. PICK f : Nested(f, m - 1)
      BY <3>2
    <3>4. \A n \in 0..(m - 1) : f[n] = IF n = 0 THEN Shallow ELSE Deeper(f[n - 1])
      <4>1. m - 1 \in Nat
        BY <3>1
      <4>2. f[0] = Shallow /\ \A n \in 1..(m - 1) : f[n] = Deeper(f[n - 1])
        BY <3>3, <4>1, NestedUnfolds
      <4> QED BY <4>1, <4>2
    <3> DEFINE g == [n \in 0..m |-> IF n = m THEN Deeper(f[m - 1]) ELSE f[n]]
    <3>5. \A n \in 0..m : g[n] = IF n = 0 THEN Shallow ELSE Deeper(g[n - 1])
      <4> TAKE n \in 0..m
      <4>1. CASE n = m
        <5>1. g[n - 1] = f[m - 1] /\ g[n] = Deeper(f[m - 1]) /\ n # 0
          BY <4>1, <3>1
        <5> HIDE DEF g
        <5> QED BY <5>1
      <4>2. CASE n # m
        <5>1. n \in 0..(m - 1)
          BY <4>2, <3>1
        <5>2. g[n] = f[n]
          BY <4>2
        <5>3. n # 0 => g[n - 1] = f[n - 1]
          BY <5>1, <3>1
        <5> HIDE DEF g
        <5> QED BY <5>1, <5>2, <5>3, <3>4
      <4> QED BY <4>1, <4>2
    <3>6. g = [n \in 0..m |-> g[n]]
      OBVIOUS
    <3> HIDE DEF g
    <3>7. Upto(m)
      BY <3>5, <3>6 DEF Nested
    <3> QED BY <3>7, <2>1
  <2> QED BY <2>2, <2>3
<1>2. Upto(N)
  <2>1. N \notin Bad
    BY <1>1
  <2>2. N \in 0..N
    OBVIOUS
  <2> HIDE DEF Upto
  <2> QED BY <2>1, <2>2
<1> QED BY <1>2

(* Turns is such a function.                                                 *)
LEMMA TurnsNested == Nested(Turns, MaxDepth)
<1> DEFINE Eqn(f) ==
      f = [depth \in 0..MaxDepth |->
            [method \in Methods |-> [k \in Keys \cup {None} |-> [s \in Supervisors |->
              IF depth = 0 THEN TooDeep(s) ELSE Do(f[depth - 1], method, s, k)]]]]
<1>1. ASSUME NEW f PROVE Nested(f, MaxDepth) <=> Eqn(f)
  <2>1. ASSUME NEW depth \in 0..MaxDepth
        PROVE  (IF depth = 0 THEN Shallow ELSE Deeper(f[depth - 1]))
               = [method \in Methods |-> [k \in Keys \cup {None} |-> [s \in Supervisors |->
                   IF depth = 0 THEN TooDeep(s) ELSE Do(f[depth - 1], method, s, k)]]]
    <3>1. CASE depth = 0
      BY <3>1 DEF Shallow
    <3>2. CASE depth # 0
      BY <3>2 DEF Deeper
    <3> QED BY <3>1, <3>2
  <2>2. [depth \in 0..MaxDepth |-> IF depth = 0 THEN Shallow ELSE Deeper(f[depth - 1])]
        = [depth \in 0..MaxDepth |->
            [method \in Methods |-> [k \in Keys \cup {None} |-> [s \in Supervisors |->
              IF depth = 0 THEN TooDeep(s) ELSE Do(f[depth - 1], method, s, k)]]]]
    BY <2>1
  <2> QED BY <2>2 DEF Nested
<1>2. PICK f : Nested(f, MaxDepth)
  BY NestedExists, BoundsAssumption
<1>3. Turns = CHOOSE g : Eqn(g)
  BY DEF Turns
<1> HIDE DEF Eqn
<1>4. Eqn(f)
  BY <1>1, <1>2
<1>5. Eqn(Turns)
  BY <1>3, <1>4
<1> QED BY <1>1, <1>5

(* A call that goes too deep does nothing.                                   *)
LEMMA ShallowTurning == Turning(Shallow)
<1> SUFFICES ASSUME NEW s \in Supervisors, Good(s)
             PROVE  /\ PumpAgain(Shallow, s) = s /\ AdvanceRotation(Shallow, s) = s
                    /\ \A k \in Keys : /\ DeleteEntry(Shallow, s, k) = s
                                       /\ CompleteRetarget(Shallow, s, k) = s
  BY KeepsReflexive DEF Turning
<1>1. TooDeep(s) = s
  BY DEF TooDeep
<1>2. \A k \in Keys \cup {None} : \A m \in Methods : Shallow[m][k][s] = s
  BY <1>1 DEF Shallow
<1> QED BY <1>2 DEF PumpAgain, AdvanceRotation, DeleteEntry, CompleteRetarget, Methods

(* If nested calls keep the state in order, so does the one that makes them. *)
LEMMA DeeperTurning == ASSUME NEW turn, Turning(turn) PROVE Turning(Deeper(turn))
<1> SUFFICES ASSUME NEW s \in Supervisors, Good(s)
             PROVE  /\ Keeps(s, PumpAgain(Deeper(turn), s))
                    /\ Keeps(s, AdvanceRotation(Deeper(turn), s))
                    /\ \A k \in Keys :
                         /\ (Has(s, k) => s.entry[k].refs = 0) => Keeps(s, DeleteEntry(Deeper(turn), s, k))
                         /\ Keeps(s, CompleteRetarget(Deeper(turn), s, k))
  BY DEF Turning
<1>1. \A k \in Keys \cup {None} : \A m \in Methods : Deeper(turn)[m][k][s] = Do(turn, m, s, k)
  BY DEF Deeper
<1>2. /\ PumpAgain(Deeper(turn), s) = Do(turn, "pump", s, None)
      /\ AdvanceRotation(Deeper(turn), s) = Do(turn, "advanceRotation", s, None)
      /\ \A k \in Keys :
           /\ DeleteEntry(Deeper(turn), s, k) = Do(turn, "deleteEntry", s, k)
           /\ CompleteRetarget(Deeper(turn), s, k) = Do(turn, "completeRetarget", s, k)
  BY <1>1 DEF PumpAgain, AdvanceRotation, DeleteEntry, CompleteRetarget, Methods
<1>3. Do(turn, "pump", s, None) = Pump(turn, s)
  BY DEF Do
<1>4. Do(turn, "advanceRotation", s, None) = RotationAdvanced(turn, s)
  BY DEF Do
<1>5. \A k \in Keys : Do(turn, "deleteEntry", s, k) = EntryDeleted(turn, s, k)
  BY DEF Do
<1>6. \A k \in Keys : Do(turn, "completeRetarget", s, k) = RetargetCompleted(turn, s, k)
  BY DEF Do
<1>7. Keeps(s, Pump(turn, s)) /\ Keeps(s, RotationAdvanced(turn, s))
  BY PumpKeeps, RotationAdvancedKeeps
<1>8. ASSUME NEW k \in Keys
      PROVE  /\ (Has(s, k) => s.entry[k].refs = 0) => Keeps(s, EntryDeleted(turn, s, k))
             /\ Keeps(s, RetargetCompleted(turn, s, k))
  BY EntryDeletedKeeps, RetargetCompletedKeeps
<1> QED BY <1>2, <1>3, <1>4, <1>5, <1>6, <1>7, <1>8

(* Every call of a turn, however deep it nests, keeps what entries are worth. *)
LEMMA TurnTurning == Turning(Turn)
<1> DEFINE Bad == {n \in 0..MaxDepth : ~Turning(Turns[n])}
<1>0. MaxDepth \in Nat
  BY BoundsAssumption
<1>1. Turns[0] = Shallow /\ \A n \in 1..MaxDepth : Turns[n] = Deeper(Turns[n - 1])
  BY <1>0, TurnsNested, NestedUnfolds
<1>2. ASSUME Bad # {} PROVE FALSE
  <2>0. Bad \in SUBSET Nat
    BY <1>0
  <2>1. PICK m \in Bad : \A n \in Bad : m <= n
    <3> HIDE DEF Bad
    <3> QED BY <1>2, <2>0, LeastExists
  <2>2. m # 0
    BY <2>1, <1>1, ShallowTurning
  <2>3. m \in 1..MaxDepth /\ m - 1 \in 0..MaxDepth /\ ~(m <= m - 1)
    BY <1>0, <2>1, <2>2
  <2>4. m - 1 \notin Bad
    <3> HIDE DEF Bad
    <3> QED BY <2>1, <2>3
  <2>5. Turning(Turns[m - 1])
    BY <2>3, <2>4
  <2>6. Turning(Turns[m])
    BY <2>3, <2>5, <1>1, DeeperTurning
  <2> QED BY <2>6, <2>1
<1>3. MaxDepth \in 0..MaxDepth
  BY <1>0
<1> QED BY <1>2, <1>3 DEF Turn

-----------------------------------------------------------------------------
(* The whole invariant, and actions that change little.                      *)

(* Nothing is wrong with any entry.                                          *)
Sane(s) ==
  /\ s \in Supervisors /\ Good(s) /\ s.sending = NoJob
  /\ \A k \in Keys : ~Stranded(s, k) /\ ~Orphaned(s, k) /\ ~Unregistered(s, k) /\ ~Jobless(s, k)

(* What keeps the state in order keeps it sane.                              *)
LEMMA SaneIf ==
  ASSUME NEW s, Sane(s), NEW r, Keeps(s, r) PROVE Sane(r)
BY DEF Sane, Keeps, Guards, NoneStranded, NoneOrphaned, NoneUnregistered, NoneJobless, Unsent

(* Nothing adds up to nothing.                                               *)
LEMMA NoHandles ==
  ASSUME NEW f \in [Keys -> Nat], \A k \in Keys : f[k] = 0
  PROVE  Total(f) = 0
<1>1. PICK h : SumsUp(h, f, Keys) /\ Total(f) = h[Keys]
  BY TotalIsSum, KeysAssumption
<1>2. \A w \in SUBSET Keys : h[w] = IF w = {} THEN 0 ELSE f[Pick(w)] + h[w \ {Pick(w)}]
  BY <1>1 DEF SumsUp
<1> DEFINE Bad == {n \in Nat : \E w \in SUBSET Keys : Cardinality(w) = n /\ h[w] # 0}
<1>3. ASSUME Bad # {} PROVE FALSE
  <2>0. Bad \in SUBSET Nat
    OBVIOUS
  <2>1. PICK m \in Bad : \A n \in Bad : m <= n
    <3> HIDE DEF Bad
    <3> QED BY <1>3, <2>0, LeastExists
  <2>2. PICK w \in SUBSET Keys : Cardinality(w) = m /\ h[w] # 0
    BY <2>1
  <2>3. w # {}
    BY <1>2, <2>2
  <2> DEFINE v == w \ {Pick(w)}
  <2>4. Pick(w) \in Keys /\ v \in SUBSET Keys /\ Cardinality(v) = m - 1 /\ m \in 1..Cardinality(Keys)
    BY <2>2, <2>3, KeysAssumption, SmallerWithoutPick
  <2>5. Cardinality(Keys) \in Nat
    BY KeysAssumption, FS_CardinalityType
  <2>6. m - 1 \in Nat /\ ~(m <= m - 1)
    BY <2>4, <2>5
  <2>7. m - 1 \notin Bad
    <3> HIDE DEF Bad
    <3> QED BY <2>1, <2>6
  <2> HIDE DEF v
  <2>8. h[v] = 0
    BY <2>4, <2>6, <2>7
  <2>9. h[w] = f[Pick(w)] + h[v]
    BY <1>2, <2>2, <2>3 DEF v
  <2>10. h[w] = 0
    BY <2>4, <2>8, <2>9
  <2> QED BY <2>2, <2>10
<1>4. Cardinality(Keys) \in Nat
  BY KeysAssumption, FS_CardinalityType
<1>5. h[Keys] = 0
  BY <1>3, <1>4
<1> QED BY <1>1, <1>5

(* Without entries and jobs everything is in order.                          *)
LEMMA EmptySane ==
  ASSUME NEW s \in Supervisors, s.entry = [k \in Keys |-> Absent], s.demand = 0, s.handles = 0,
         s.order = <<>>, s.queue = <<>>, s.currentJob = NoJob, s.sendTimer = NoJob,
         s.sending = NoJob, s.rotationCurrent = NoPair, s.rotationQueue = <<>>
  PROVE  Sane(s)
<1>1. \A k \in Keys :
        /\ s.entry[k] = Absent /\ ~Has(s, k) /\ s.entry[k].refs = 0
        /\ ~s.entry[k].subscribed /\ s.entry[k].queuedAction = "none" /\ s.entry[k].retarget = None
        /\ s.entry[k].waitingTarget = None /\ ~s.entry[k].rotationIncoming
        /\ s.entry[k].rotationOutgoing = None /\ ~s.entry[k].removing /\ ~s.entry[k].present
  BY DEF Has, Absent
<1>2. DemandTrue(s)
  <2>1. {k \in Keys : Has(s, k)} = {}
    BY <1>1
  <2> QED BY <2>1, FS_EmptySet DEF DemandTrue
<1>3. HandlesTrue(s)
  <2> DEFINE f == [k \in Keys |-> s.entry[k].refs]
  <2>1. f \in [Keys -> Nat] /\ \A k \in Keys : f[k] = 0
    BY <1>1
  <2> HIDE DEF f
  <2>2. Total(f) = 0
    BY <2>1, NoHandles
  <2> QED BY <2>2 DEF HandlesTrue, f
<1>4. ToSet(s.order) = {} /\ ToSet(s.queue) = {}
  BY DEF ToSet
<1>5. Listed(s) /\ DestroyedEmpty(s) /\ EntriesSound(s)
  BY <1>1, <1>4 DEF Listed, DestroyedEmpty, EntriesSound, Blank
<1>6. JobsSound(s) /\ DeadUnsubscribed(s) /\ AcceptedIsRegistered(s)
  BY <1>1, <1>4, KeysAssumption
     DEF JobsSound, Points, NoJob, DeadUnsubscribed, AcceptedIsRegistered
<1>7. MarksNamePartner(s)
  BY <1>1 DEF MarksNamePartner
<1>8. \A k \in Keys : ~Stranded(s, k) /\ ~Orphaned(s, k) /\ ~Unregistered(s, k) /\ ~Jobless(s, k)
  BY <1>1 DEF Stranded, Orphaned, Unregistered, Jobless
<1> QED BY <1>2, <1>3, <1>5, <1>6, <1>7, <1>8 DEF Sane, Good

(* So it is at the start.                                                    *)
LEMMA InitSane == Init => Sane(sup)
<1> SUFFICES ASSUME Init PROVE Sane(sup)
  OBVIOUS
<1>1. Absent \in Entries
  BY ConstantsTyped DEF Absent, Entries
<1>2. sup \in Supervisors
  <2> DEFINE f == [k \in Keys |-> Absent]
  <2>1. f \in [Keys -> Entries]
    BY <1>1
  <2>2. NoJob \in Jobs /\ NoPair \in Pairs
    BY ConstantsTyped
  <2> HIDE DEF f
  <2>3. sup.entry = f /\ sup =
         [conn |-> "away", demand |-> 0, handles |-> 0, destroyed |-> FALSE,
            entry |-> f, order |-> <<>>,
            queue |-> <<>>, currentJob |-> NoJob, sendTimer |-> NoJob, sending |-> NoJob,
            retryTimer |-> FALSE, requiresFreshOpen |-> FALSE, paused |-> FALSE,
            rotationCurrent |-> NoPair, rotationQueue |-> <<>>, retired |-> {},
            socket |-> "open", registered |-> {}, seen |-> {}, answer |-> "none"]
    BY DEF Init, f
  <2> QED BY <2>1, <2>2, <2>3 DEF Supervisors, Sockets
<1> QED BY <1>2, EmptySane DEF Init

(* destroy leaves nothing that could be wrong.                               *)
LEMMA DestroySane == ASSUME Sane(sup), Destroy PROVE Sane(sup')
<1>1. Absent \in Entries
  BY ConstantsTyped DEF Absent, Entries
<1> DEFINE f == [k \in Keys |-> Absent]
           s == Dropped(sup)
           r == [s EXCEPT
               !.destroyed = TRUE, !.demand = 0, !.handles = 0,
               !.entry = f, !.order = <<>>, !.queue = <<>>,
               !.currentJob = NoJob, !.sendTimer = NoJob, !.retryTimer = FALSE,
               !.rotationCurrent = NoPair, !.rotationQueue = <<>>, !.retired = {}]
<1>2. f \in [Keys -> Entries]
  BY <1>1
<1>3. NoJob \in Jobs /\ NoPair \in Pairs
  BY ConstantsTyped
<1>4. s \in Supervisors /\ s.sending = NoJob
  BY DEF Sane, Dropped, Supervisors, Sockets
<1>5. sup' = r
  BY DEF Destroy
<1> HIDE DEF f, s
<1>6. r \in Supervisors
  <2> DEFINE t == [s EXCEPT !.destroyed = TRUE, !.demand = 0, !.handles = 0]
             u == [t EXCEPT !.entry = f, !.order = <<>>, !.queue = <<>>]
             v == [u EXCEPT !.currentJob = NoJob, !.sendTimer = NoJob, !.retryTimer = FALSE]
             w == [v EXCEPT !.rotationCurrent = NoPair, !.rotationQueue = <<>>, !.retired = {}]
  <2>1. t \in Supervisors
    BY <1>4 DEF Supervisors
  <2>2. r = w
    BY DEF r
  <2> HIDE DEF t
  <2>3. <<>> \in Seq(Keys) /\ <<>> \in Seq(QueuedJobs) /\ <<>> \in Seq(Pairs) /\ {} \in SUBSET Keys
    OBVIOUS
  <2>4. u \in Supervisors
    BY <1>2, <2>1, <2>3 DEF Supervisors
  <2> HIDE DEF u
  <2>5. v \in Supervisors
    BY <1>3, <2>4 DEF Supervisors
  <2> HIDE DEF v
  <2>6. w \in Supervisors
    BY <1>3, <2>3, <2>5 DEF Supervisors
  <2> QED BY <2>2, <2>6
<1>7. /\ r.entry = f /\ r.demand = 0 /\ r.handles = 0 /\ r.order = <<>> /\ r.queue = <<>>
      /\ r.currentJob = NoJob /\ r.sendTimer = NoJob /\ r.sending = NoJob
      /\ r.rotationCurrent = NoPair /\ r.rotationQueue = <<>>
  BY <1>4 DEF Supervisors
<1> HIDE DEF r
<1>8. Sane(r)
  BY <1>6, <1>7, EmptySane DEF f
<1> QED BY <1>5, <1>8

(* Actions made of calls that keep what there is.                            *)
LEMMA PumpSane == ASSUME NEW s, Sane(s) PROVE Sane(Pump(Turn, s))
BY PumpKeeps, TurnTurning, SaneIf DEF Sane

(* The retry and spacing timers, a breaking socket and a settled retain.     *)
LEMMA TimersSane ==
  ASSUME Sane(sup), SpacingElapses \/ SocketBreaks \/ SocketReady \/ RetryTimer \/ RetainResolves
  PROVE  Sane(sup')
<1>0. sup \in Supervisors /\ Good(sup)
  BY DEF Sane
<1>1. CASE SpacingElapses
  BY <1>0, <1>1, OpenAgainKeeps, SaneIf DEF SpacingElapses
<1>2. CASE SocketBreaks \/ SocketReady
  <2>1. PICK x \in Sockets : sup' = [sup EXCEPT !.socket = x]
    BY <1>2 DEF SocketBreaks, SocketReady, Sockets
  <2> QED BY <1>0, <2>1, OpenAgainKeeps, SaneIf
<1>3. CASE RetryTimer
  <2> DEFINE r == [sup EXCEPT !.retryTimer = FALSE]
  <2>1. Sane(r)
    BY <1>0, OpenAgainKeeps, SaneIf
  <2> HIDE DEF r
  <2> QED BY <1>3, <2>1, PumpSane DEF RetryTimer, r
<1>4. CASE RetainResolves
  BY <1>4, PumpSane DEF RetainResolves
<1> QED BY <1>1, <1>2, <1>3, <1>4

(* The spacing timer sends the job it holds.                                 *)
LEMMA SendTimerSane == ASSUME Sane(sup), SendTimer PROVE Sane(sup')
<1> DEFINE s == [sup EXCEPT !.sendTimer = NoJob]
           t == [s EXCEPT !.paused = FALSE]
<1>0. sup \in Supervisors /\ Good(sup) /\ sup.sendTimer \in Jobs /\ Points(sup, sup.sendTimer)
  BY DEF Sane, Good, JobsSound, Supervisors
<1>1. Keeps(sup, s)
  <2>1. NoJob \in Jobs /\ Points(sup, NoJob)
    BY ConstantsTyped, KeysAssumption DEF Points, NoJob
  <2> QED BY <1>0, <2>1, SendTimerKeeps
<1>2. s.entry = sup.entry
  BY <1>0 DEF Supervisors
<1>3. [sup EXCEPT !.sendTimer = NoJob, !.paused = FALSE] = t
  OBVIOUS
<1> HIDE DEF s
<1>4. s \in Supervisors /\ Good(s)
  BY <1>1 DEF Keeps, Guards
<1>5. Keeps(s, t) /\ t.entry = sup.entry
  BY <1>2, <1>4, OpenAgainKeeps DEF Supervisors
<1> HIDE DEF t
<1>6. t \in Supervisors /\ Good(t) /\ Points(t, sup.sendTimer)
  BY <1>0, <1>5 DEF Keeps, Guards, Points, Has
<1>7. Keeps(t, SendJob(Turn, t, sup.sendTimer))
  BY <1>0, <1>6, SendJobKeeps, TurnTurning
<1>8. Sane(SendJob(Turn, t, sup.sendTimer))
  BY <1>1, <1>5, <1>7, SaneIf
<1> QED BY <1>3, <1>8 DEF SendTimer

(* An entry becomes stale.                                                   *)
LEMMA MarkStaleSane ==
  ASSUME Sane(sup), NEW k \in Keys, MarkStale(k) PROVE Sane(sup')
<1>1. "stale" \in OnWire /\ "stale" \in States
  BY ConstantsTyped DEF OnWire
<1> QED BY <1>1, SetStateKeeps, SaneIf DEF Sane, MarkStale

(* The rotation interval starts a lease.                                     *)
LEMMA RotationTickSane == ASSUME Sane(sup), RotationTick PROVE Sane(sup')
<1>1. PICK outgoing \in SetToSeqs({k \in Keys : /\ Held(sup, k) /\ State(sup, k) = "live"
                                              /\ sup.entry[k].rotationOutgoing = None}) :
        sup' = StartRotationLease(Turn, sup, outgoing)
  BY DEF RotationTick
<1>2. /\ outgoing \in Seq(Keys)
      /\ \A i, j \in 1..Len(outgoing) : i # j => outgoing[i] # outgoing[j]
  <2> DEFINE S == {k \in Keys : /\ Held(sup, k) /\ State(sup, k) = "live"
                                              /\ sup.entry[k].rotationOutgoing = None}
  <2>1. /\ outgoing \in [1..Cardinality(S) -> S]
        /\ \A i, j \in 1..Cardinality(S) : i # j => outgoing[i] # outgoing[j]
    BY DEF SetToSeqs
  <2>2. S \subseteq Keys /\ Cardinality(S) \in Nat
    BY CountOfKeys
  <2> HIDE DEF S
  <2>3. outgoing \in Seq(Keys) /\ Len(outgoing) = Cardinality(S)
    BY <2>1, <2>2
  <2> QED BY <2>1, <2>3
<1> QED BY <1>1, <1>2, StartRotationLeaseKeeps, TurnTurning, SaneIf DEF RotationTick, Sane

-----------------------------------------------------------------------------
(* The connection, the server and its data.                                  *)

(* The connection.                                                           *)
LEMMA HandleOpenKeeps ==
  ASSUME NEW turn, Turning(turn), NEW s \in Supervisors, Good(s)
  PROVE  Keeps(s, HandleOpen(turn, s))
<1> DEFINE o == [s EXCEPT !.requiresFreshOpen = FALSE]
           step == [k \in Keys |-> [t \in Supervisors |-> EnqueueSubscribe(t, k)]]
           q == s.order
           r == Each(step, o, q)
           Ok == {t \in Supervisors : Keeps(o, t)}
           P == [n \in 0..Len(q) |-> Ok]
<1>0. Keeps(s, o)
  BY OpenAgainKeeps
<1>1. q \in Seq(Keys) /\ Len(q) \in Nat
  BY DEF Supervisors
<1> HIDE DEF q, o
<1>2. o \in P[0]
  BY <1>0, <1>1, KeepsReflexive DEF Keeps, Guards
<1>3. ASSUME NEW i \in 1..Len(q), NEW t \in P[i - 1] PROVE step[q[i]][t] \in P[i]
  <2>1. i \in 0..Len(q) /\ i - 1 \in 0..Len(q) /\ q[i] \in Keys
    BY <1>1
  <2>2. t \in Supervisors /\ Keeps(o, t) /\ Good(t)
    BY <2>1 DEF Keeps, Guards
  <2>3. step[q[i]][t] = EnqueueSubscribe(t, q[i])
    BY <2>1, <2>2
  <2>4. Keeps(o, EnqueueSubscribe(t, q[i]))
    BY <2>1, <2>2, EnqueueSubscribeKeeps, KeepsTransitive
  <2> HIDE DEF step
  <2> QED BY <2>1, <2>3, <2>4 DEF Keeps, Guards
<1>4. r \in P[Len(q)]
  <2> HIDE DEF P, step
  <2> QED BY <1>1, <1>2, <1>3, EachLeadsTo
<1>5. HandleOpen(turn, s) = Pump(turn, r)
  BY DEF HandleOpen, q, o
<1> HIDE DEF step, r
<1>6. Keeps(o, r)
  BY <1>1, <1>4
<1>7. Keeps(s, r)
  BY <1>0, <1>6, KeepsTransitive
<1>8. Keeps(r, Pump(turn, r))
  BY <1>6, PumpKeeps DEF Keeps, Guards
<1>9. Keeps(s, Pump(turn, r))
  BY <1>7, <1>8, KeepsTransitive
<1> QED BY <1>5, <1>9

(* The connection opens, connects or is lost.                                *)
LEMMA ConnectionSane ==
  ASSUME Sane(sup), ConnectionOpens \/ ConnectionConnects \/ ConnectionLost
  PROVE  Sane(sup')
<1>0. sup \in Supervisors /\ Good(sup)
  BY DEF Sane
<1>1. CASE ConnectionOpens
  <2>3. PICK x \in Sockets :
          sup' = HandleOpen(Turn, [sup EXCEPT !.conn = "open", !.socket = x])
    BY <1>1 DEF ConnectionOpens, Sockets
  <2> DEFINE o == [sup EXCEPT !.conn = "open"]
             t == [o EXCEPT !.socket = x]
  <2>4. Keeps(sup, o) /\ sup' = HandleOpen(Turn, t)
    BY <1>0, <2>3, OpenAgainKeeps
  <2> HIDE DEF o
  <2>5. Keeps(o, t)
    BY <2>4, OpenAgainKeeps DEF Keeps, Guards
  <2>1. Keeps(sup, t) /\ sup' = HandleOpen(Turn, t)
    BY <2>4, <2>5, KeepsTransitive
  <2> HIDE DEF t
  <2>2. Keeps(t, HandleOpen(Turn, t))
    BY <2>1, HandleOpenKeeps, TurnTurning DEF Keeps, Guards
  <2> QED BY <2>1, <2>2, SaneIf
<1>2. CASE ConnectionConnects
  <2> DEFINE d == Dropped(sup)
             t == [d EXCEPT !.conn = "connecting"]
             r == HandleDown(Turn, t)
  <2>1. sup' = r
    BY <1>2 DEF ConnectionConnects
  <2>2. Guards(sup, d) /\ NoneJobless(sup, d)
    BY <1>0, DroppedGuards
  <2> HIDE DEF d
  <2>3. Keeps(d, t)
    BY <2>2, OpenAgainKeeps DEF Guards
  <2> HIDE DEF t
  <2>4. Keeps(t, r) /\ \A k \in Keys : ~Astray(r, k)
    BY <2>3, HandleDownKeeps, TurnTurning DEF Keeps, Guards
  <2> HIDE DEF r
  <2>5. Guards(sup, r)
    BY <2>2, <2>3, <2>4, GuardsTransitive DEF Keeps
  <2>6. Keeps(sup, r)
    BY <2>4, <2>5 DEF Keeps, Guards, NoneUnregistered, NoneJobless, Astray
  <2> QED BY <2>1, <2>6, SaneIf
<1>3. CASE ConnectionLost
  BY <1>0, <1>3, DroppedDownKeeps, TurnTurning, SaneIf DEF ConnectionLost
<1> QED BY <1>1, <1>2, <1>3

(* The server carries a request out or refuses it.                           *)
LEMMA ServerActsSane == ASSUME Sane(sup), ServerActs PROVE Sane(sup')
<1> DEFINE k == sup.currentJob.key
           a == sup.currentJob.action
<1>0. /\ sup \in Supervisors /\ Good(sup) /\ sup.sending = NoJob
      /\ \A j \in Keys : ~Stranded(sup, j) /\ ~Orphaned(sup, j) /\ ~Unregistered(sup, j) /\ ~Jobless(sup, j)
  BY DEF Sane
<1>1. /\ k \in Keys <=> a # "none"
      /\ k \in Keys \cup {None} /\ a \in Actions
  BY <1>0 DEF Good, JobsSound, Points, Supervisors, Jobs
<1>2. ASSUME NEW r \in Supervisors, SameHeld(sup, r), SameCourse(sup, r), SameJobs(sup, r),
             r.queue = sup.queue, a = "subscribe" /\ r.answer = "accepted" => k \in r.registered,
             \A j \in Keys : j \in sup.registered =>
               j \in r.registered \/ (j = k /\ a = "unsubscribe")
      PROVE  Sane(r)
  <2>1. SameHolders(sup, r) /\ SameStates(sup, r) /\ SameRotation(sup, r) /\ SameQueue(sup, r)
    BY <1>2, HeldFrames DEF SameHeld, SameQueue
  <2>2. DeadUnsubscribed(r) /\ AcceptedIsRegistered(r) /\ NoneUnregistered(sup, r)
    BY <1>0, <1>2 DEF SameHeld, SameJobs, DeadUnsubscribed, AcceptedIsRegistered, Good,
                      NoneUnregistered, Unregistered
  <2>3. EntriesSound(r)
    BY <1>0, <1>2 DEF SameHeld, EntriesSound, Good
  <2>4. Keeps(sup, r)
    BY <1>0, <1>2, <2>1, <2>2, <2>3, HoldersKept, JobsKept, RotationKept, AllKept
  <2> QED BY <2>4, SaneIf
<1>3. CASE sup' = [sup EXCEPT !.answer = "refused"]
  <2> DEFINE r == [sup EXCEPT !.answer = "refused"]
  <2>1. /\ r \in Supervisors /\ SameHeld(sup, r) /\ SameCourse(sup, r) /\ SameJobs(sup, r)
        /\ r.queue = sup.queue /\ r.answer = "refused" /\ r.registered = sup.registered
    BY <1>0 DEF Supervisors, SameHeld, SameCourse, SameJobs
  <2> HIDE DEF r
  <2>2. Sane(r)
    BY <1>2, <2>1
  <2> QED BY <1>3, <2>2 DEF r
<1>4. CASE a = "subscribe" /\ sup' = [sup EXCEPT !.answer = "accepted", !.registered = @ \cup {k},
                                                 !.seen = @ \cup {k}]
  <2> DEFINE r == [sup EXCEPT !.answer = "accepted", !.registered = sup.registered \cup {k},
                              !.seen = sup.seen \cup {k}]
  <2>0. k \in Keys
    BY <1>1, <1>4
  <2> HIDE DEF k
  <2>1. /\ r \in Supervisors /\ SameHeld(sup, r) /\ SameCourse(sup, r) /\ SameJobs(sup, r)
        /\ r.queue = sup.queue /\ r.answer = "accepted" /\ r.registered = sup.registered \cup {k}
    BY <1>0, <2>0 DEF Supervisors, SameHeld, SameCourse, SameJobs
  <2> HIDE DEF r
  <2>2. Sane(r)
    BY <1>2, <2>1
  <2> QED BY <1>4, <2>2 DEF r
<1>5. CASE a # "subscribe" /\ sup' = [sup EXCEPT !.answer = "accepted", !.registered = @ \ {k}]
  <2> DEFINE r == [sup EXCEPT !.answer = "accepted", !.registered = sup.registered \ {k}]
  <2>0. \A j \in Keys : j = k => a = "unsubscribe"
    BY <1>1, <1>5 DEF Actions
  <2> HIDE DEF k
  <2>1. /\ r \in Supervisors /\ SameHeld(sup, r) /\ SameCourse(sup, r) /\ SameJobs(sup, r)
        /\ r.queue = sup.queue /\ r.answer = "accepted" /\ r.registered = sup.registered \ {k}
    BY <1>0 DEF Supervisors, SameHeld, SameCourse, SameJobs
  <2> HIDE DEF r
  <2>2. Sane(r)
    BY <1>2, <1>5, <2>0, <2>1
  <2> QED BY <1>5, <2>2 DEF r
<1> QED BY <1>3, <1>4, <1>5 DEF ServerActs

(* A frame of data arrives.                                                  *)
LEMMA DataSane == ASSUME Sane(sup), NEW k \in Keys, DataArrives(k) PROVE Sane(sup')
<1> DEFINE T == DataTargets(sup, k)
           f == [j \in Keys |-> IF j \in T THEN [sup.entry[j] EXCEPT !.state = "live"] ELSE sup.entry[j]]
           r == [sup EXCEPT !.entry = f]
<1>0. sup \in Supervisors /\ Good(sup)
  BY DEF Sane
<1>1. sup' = sup \/ sup' = r
  BY DEF DataArrives, HandleData
<1> HIDE DEF T
<1>2. "live" \in States /\ "live" \in OnWire
  BY ConstantsTyped DEF OnWire
<1>3. f \in [Keys -> Entries]
  BY <1>0, <1>2, EntryTyped, EntryUpdates
<1>4. ASSUME NEW j \in Keys
      PROVE /\ f[j].present = sup.entry[j].present /\ f[j].refs = sup.entry[j].refs
            /\ f[j].removing = sup.entry[j].removing /\ f[j].retarget = sup.entry[j].retarget
            /\ f[j].waitingTarget = sup.entry[j].waitingTarget
            /\ f[j].subscribed = sup.entry[j].subscribed
            /\ f[j].queuedAction = sup.entry[j].queuedAction
            /\ f[j].rotationOutgoing = sup.entry[j].rotationOutgoing
            /\ f[j].rotationIncoming = sup.entry[j].rotationIncoming
            /\ f[j].state \in {"live", sup.entry[j].state}
  <2>1. sup.entry[j] \in Entries
    BY <1>0, EntryTyped
  <2> QED BY <2>1 DEF Entries
<1> HIDE DEF f
<1>5. r \in Supervisors /\ r.entry = f
  BY <1>0, <1>3 DEF Supervisors
<1>6. /\ r.demand = sup.demand /\ r.handles = sup.handles /\ r.order = sup.order
      /\ r.destroyed = sup.destroyed /\ r.queue = sup.queue /\ SameJobs(sup, r)
      /\ r.registered = sup.registered /\ r.answer = sup.answer
      /\ r.rotationCurrent = sup.rotationCurrent /\ r.rotationQueue = sup.rotationQueue
  BY <1>0 DEF Supervisors, SameJobs
<1> HIDE DEF r
<1>7. SameHolders(sup, r) /\ SameQueue(sup, r) /\ SameSocket(sup, r) /\ SameRotation(sup, r)
  BY <1>4, <1>5, <1>6 DEF SameHolders, SameQueue, SameSocket, SameRotation
<1>8. EntriesSound(r)
  <2>1. \A j \in Keys : ~Has(sup, j) => Blank(sup.entry[j])
    BY <1>0, BlankWhenAbsent
  <2>2. \A j \in Keys : sup.entry[j].subscribed => sup.entry[j].state \in OnWire
    BY <1>0, SubscribedOnWire
  <2>3. \A j \in Keys : r.entry[j].subscribed => r.entry[j].state \in OnWire
    BY <1>2, <1>4, <1>5, <2>2
  <2> QED BY <1>0, <1>4, <1>5, <1>7, <2>1, <2>3, EntriesSoundIf DEF Blank
<1>9. Keeps(sup, r)
  BY <1>0, <1>5, <1>6, <1>7, <1>8, HoldersKept, JobsKept, SocketKept, RotationKept, AllKept
<1> QED BY <1>1, <1>9, SaneIf

-----------------------------------------------------------------------------
(* The end of an attempt.                                                    *)

(* Nothing is wrong but that k may be marked subscribed and is not.          *)
Apart(s, k) ==
  /\ s \in Supervisors /\ Good(s) /\ s.sending = NoJob
  /\ \A j \in Keys : /\ ~Stranded(s, j) /\ ~Orphaned(s, j) /\ ~Jobless(s, j)
                     /\ j # k => ~Unregistered(s, j)

(* The current job ends.                                                     *)
LEMMA JobCleared ==
  ASSUME NEW s, Sane(s), NEW t \in Supervisors, SameHeld(s, t), SameCourse(s, t),
         t.queue = s.queue, t.registered = s.registered, t.currentJob = NoJob,
         t.sendTimer = s.sendTimer, t.sending = s.sending
  PROVE  Apart(t, s.currentJob.key) /\ (Sane(t) \/ (s.currentJob.alive /\ s.currentJob.action = "unsubscribe"))
<1>0. s \in Supervisors /\ Good(s) /\ s.sending = NoJob
  BY DEF Sane
<1>1. SameHolders(s, t) /\ SameStates(s, t) /\ SameRotation(s, t) /\ SameQueue(s, t)
  BY HeldFrames DEF SameHeld, SameQueue
<1>2. JobsSound(t)
  BY <1>0, KeysAssumption DEF JobsSound, Points, SameHeld, Has, Good, NoJob
<1>3. DeadUnsubscribed(t) /\ AcceptedIsRegistered(t)
  BY KeysAssumption DEF DeadUnsubscribed, AcceptedIsRegistered, NoJob
<1>4. EntriesSound(t)
  BY <1>0 DEF SameHeld, EntriesSound, Good
<1>5. Good(t)
  BY <1>0, <1>1, <1>2, <1>3, <1>4, HoldersKept, RotationKept DEF Good
<1>6. \A j \in Keys : ~Stranded(t, j) /\ ~Orphaned(t, j) /\ ~Jobless(t, j)
  <2>1. NoneStranded(s, t) /\ NoneOrphaned(s, t)
    BY <1>0, <1>1, HoldersKept, RotationKept
  <2>2. NoneJobless(s, t)
    BY DEF NoneJobless, Unsent, Jobless, SameHeld
  <2> QED BY <2>1, <2>2 DEF Sane, NoneStranded, NoneOrphaned, NoneJobless
<1>7. \A j \in Keys : Unregistered(t, j) =>
        j = s.currentJob.key /\ s.currentJob.action = "unsubscribe" /\ s.currentJob.alive
  BY <1>0, KeysAssumption DEF Unregistered, SameHeld, Sane, Good, DeadUnsubscribed, NoJob
<1>8. Apart(t, s.currentJob.key)
  BY <1>0, <1>5, <1>6, <1>7 DEF Apart
<1>9. ASSUME ~(s.currentJob.alive /\ s.currentJob.action = "unsubscribe") PROVE Sane(t)
  BY <1>0, <1>5, <1>6, <1>7, <1>9 DEF Sane
<1> QED BY <1>8, <1>9

(* An entry that is no longer marked subscribed is not wrong about it.       *)
LEMMA NotSubscribed ==
  ASSUME NEW s, NEW k \in Keys, Apart(s, k), NEW e \in Entries,
         e.present = s.entry[k].present, e.refs = s.entry[k].refs,
         e.removing = s.entry[k].removing, e.retarget = s.entry[k].retarget,
         e.waitingTarget = s.entry[k].waitingTarget, ~e.subscribed,
         e.queuedAction = s.entry[k].queuedAction,
         e.rotationOutgoing = s.entry[k].rotationOutgoing,
         e.rotationIncoming = s.entry[k].rotationIncoming
  PROVE  LET r == [s EXCEPT !.entry[k] = e] IN
         Sane(r) /\ SameHolders(s, r) /\ r.entry[k] = e
<1> DEFINE r == [s EXCEPT !.entry[k] = e]
<1>0. s \in Supervisors /\ Good(s)
  BY DEF Apart
<1>1. Keeps(s, r) /\ SameHolders(s, r)
  BY <1>0, EntryKeeps
<1>2. r.entry[k] = e
  BY <1>0, EntryReplaced
<1> HIDE DEF r
<1>3. Sane(r)
  BY <1>1, <1>2 DEF Apart, Sane, Keeps, Guards, NoneStranded, NoneOrphaned, NoneUnregistered,
                    NoneJobless, Unsent, Unregistered
<1> QED BY <1>1, <1>2, <1>3 DEF r

(* An attempt whose result is unknown is given up, and the socket with it.   *)
LEMMA GiveUpSane ==
  ASSUME NEW s \in Supervisors, NEW job \in Jobs, Points(s, job), Apart(s, job.key),
         Sane(s) \/ job.alive
  PROVE  Sane(GiveUpSocket(Turn, s, job))
<1> DEFINE k == job.key
           e == [s.entry[k] EXCEPT !.subscribed = FALSE]
           t == [s EXCEPT !.entry[k] = e]
           u == IF ~job.alive THEN s
                ELSE IF s.entry[k].refs = 0 THEN DeleteEntry(Turn, t, k)
                ELSE SetState(t, k, "desired")
           v == [u EXCEPT !.requiresFreshOpen = TRUE]
<1>1. GiveUpSocket(Turn, s, job) = ForceReconnect(Turn, v)
  <2>1. CASE ~job.alive
    BY <2>1 DEF GiveUpSocket
  <2>2. CASE job.alive
    <3>1. k \in Keys
      BY <2>2 DEF Points
    <3>2. [s EXCEPT !.entry[k].subscribed = FALSE] = t
      BY <3>1 DEF Supervisors
    <3> QED BY <2>2, <3>2 DEF GiveUpSocket
  <2> QED BY <2>1, <2>2
<1>2. Sane(u)
  <2>1. CASE ~job.alive
    BY <2>1
  <2>2. CASE job.alive
    <3>1. k \in Keys
      BY <2>2 DEF Points
    <3> HIDE DEF k
    <3>2. s.entry[k] \in Entries
      BY <3>1, EntryTyped
    <3>3. /\ e \in Entries /\ e.present = s.entry[k].present /\ e.refs = s.entry[k].refs
          /\ e.removing = s.entry[k].removing /\ e.retarget = s.entry[k].retarget
          /\ e.waitingTarget = s.entry[k].waitingTarget /\ ~e.subscribed
          /\ e.queuedAction = s.entry[k].queuedAction
          /\ e.rotationOutgoing = s.entry[k].rotationOutgoing
          /\ e.rotationIncoming = s.entry[k].rotationIncoming
      BY <3>2 DEF Entries
    <3> HIDE DEF e
    <3>4. Sane(t) /\ t.entry[k] = e
      BY <3>1, <3>3, NotSubscribed DEF k
    <3> HIDE DEF t
    <3>5. t \in Supervisors /\ Good(t)
      BY <3>4 DEF Sane
    <3>6. s.entry[k].refs = 0 => Keeps(t, DeleteEntry(Turn, t, k))
      BY <3>1, <3>3, <3>4, <3>5, TurnTurning DEF Turning
    <3>7. Keeps(t, SetState(t, k, "desired"))
      BY <3>1, <3>3, <3>4, <3>5, ConstantsTyped, SetStateKeeps
    <3> QED BY <2>2, <3>4, <3>6, <3>7, SaneIf
  <2> QED BY <2>1, <2>2
<1> HIDE DEF u
<1>3. Sane(v)
  BY <1>2, OpenAgainKeeps, SaneIf DEF Sane
<1> HIDE DEF v
<1>4. Keeps(v, ForceReconnect(Turn, v))
  BY <1>3, ForceReconnectKeeps, TurnTurning DEF Sane
<1> QED BY <1>1, <1>3, <1>4, SaneIf

(* A reply does not come in time.                                            *)
LEMMA ControlTimeoutSane == ASSUME Sane(sup), ControlTimeout PROVE Sane(sup')
<1> DEFINE t == [sup EXCEPT !.currentJob = NoJob]
           job == sup.currentJob
<1>1. /\ sup \in Supervisors /\ job \in Jobs /\ Points(sup, job)
      /\ sup' = GiveUpSocket(Turn, t, job)
  BY DEF Sane, Good, JobsSound, Supervisors, ControlTimeout
<1>2. /\ t \in Supervisors /\ SameHeld(sup, t) /\ SameCourse(sup, t)
      /\ t.queue = sup.queue /\ t.registered = sup.registered /\ t.currentJob = NoJob
      /\ t.sendTimer = sup.sendTimer /\ t.sending = sup.sending
  BY <1>1, ConstantsTyped DEF Supervisors, SameHeld, SameCourse
<1> HIDE DEF t
<1>3. Apart(t, job.key) /\ (Sane(t) \/ job.alive)
  BY <1>2, JobCleared
<1>4. Points(t, job)
  BY <1>1, <1>2 DEF Points, Has, SameHeld
<1> QED BY <1>1, <1>2, <1>3, <1>4, GiveUpSane

-----------------------------------------------------------------------------
(* Replies.                                                                  *)

(* An answer arrives.                                                        *)
LEMMA AcceptedKeeps ==
  ASSUME NEW s \in Supervisors, Good(s), s.currentJob = NoJob, NEW k \in Keys, Has(s, k),
         k \in s.registered
  PROVE  LET r == [s EXCEPT !.entry[k].subscribed = TRUE, !.entry[k].state = "live"] IN
         Keeps(s, r)
<1> DEFINE e == [s.entry[k] EXCEPT !.subscribed = TRUE, !.state = "live"]
           r == [s EXCEPT !.entry[k] = e]
<1>1. r = [s EXCEPT !.entry[k].subscribed = TRUE, !.entry[k].state = "live"]
  BY DEF Supervisors
<1>2. s.entry[k] \in Entries /\ "live" \in States /\ "live" \in OnWire
  BY EntryTyped, ConstantsTyped DEF OnWire
<1>3. /\ e \in Entries /\ e.present = s.entry[k].present /\ e.refs = s.entry[k].refs
      /\ e.removing = s.entry[k].removing /\ e.retarget = s.entry[k].retarget
      /\ e.waitingTarget = s.entry[k].waitingTarget /\ e.subscribed /\ e.state = "live"
      /\ e.queuedAction = s.entry[k].queuedAction
      /\ e.rotationOutgoing = s.entry[k].rotationOutgoing
      /\ e.rotationIncoming = s.entry[k].rotationIncoming
  BY <1>2 DEF Entries
<1> HIDE DEF e
<1>4. /\ r \in Supervisors /\ SameOutside(s, r)
      /\ r.entry[k] = e /\ \A j \in Keys : j # k => r.entry[j] = s.entry[j]
  BY <1>3, EntryReplaced
<1> HIDE DEF r
<1>5. SameHolders(s, r) /\ SameQueue(s, r) /\ SameJobs(s, r) /\ SameRotation(s, r)
  BY <1>3, <1>4 DEF SameOutside, SameHolders, SameQueue, SameRotation
<1>6. EntriesSound(r)
  <2>1. \A j \in Keys : ~Has(s, j) => Blank(s.entry[j])
    BY BlankWhenAbsent
  <2>2. \A j \in Keys : s.entry[j].subscribed => s.entry[j].state \in OnWire
    BY SubscribedOnWire
  <2>3. \A j \in Keys : r.entry[j].subscribed => r.entry[j].state \in OnWire
    BY <1>2, <1>3, <1>4, <2>2
  <2>4. \A j \in Keys : ~Has(s, j) =>
          ~r.entry[j].subscribed /\ r.entry[j].queuedAction = "none" /\ ~r.entry[j].rotationIncoming
    BY <1>4, <2>1 DEF Blank
  <2> QED BY <1>4, <1>5, <2>3, <2>4, EntriesSoundIf
<1>7. DeadUnsubscribed(r) /\ AcceptedIsRegistered(r)
  BY <1>4, KeysAssumption DEF SameOutside, SameJobs, DeadUnsubscribed, AcceptedIsRegistered, NoJob
<1>8. NoneUnregistered(s, r)
  BY <1>4 DEF SameOutside, SameJobs, NoneUnregistered, Unregistered
<1>9. Keeps(s, r)
  BY <1>4, <1>5, <1>6, <1>7, <1>8, HoldersKept, JobsKept, RotationKept, AllKept
<1> QED BY <1>1, <1>9

(* A subscribe is answered.                                                  *)
LEMMA SubscribeAnsweredSane ==
  ASSUME NEW s, Sane(s), s.currentJob = NoJob, NEW k \in Keys, Has(s, k),
         NEW success \in BOOLEAN, success => k \in s.registered
  PROVE  Sane(SubscribeAnswered(Turn, s, k, success))
<1>0. s \in Supervisors /\ Good(s) /\ s.entry[k] \in Entries
  BY EntryTyped DEF Sane
<1>1. CASE success
  <2> DEFINE t == [s EXCEPT !.entry[k].subscribed = TRUE, !.entry[k].state = "live"]
             u == IF s.entry[k].refs = 0 \/ s.entry[k].removing \/ s.entry[k].retarget # None
                  THEN EnqueueUnsubscribe(t, k) ELSE t
             r == FinishRotationIncoming(Turn, u, k, s.entry[k].rotationIncoming)
  <2>1. SubscribeAnswered(Turn, s, k, success) = r
    BY <1>1 DEF SubscribeAnswered
  <2>2. Keeps(s, t)
    BY <1>0, <1>1, AcceptedKeeps
  <2> HIDE DEF t
  <2>3. t \in Supervisors /\ Good(t)
    BY <2>2 DEF Keeps, Guards
  <2>4. Keeps(t, u)
    BY <2>3, EnqueueUnsubscribeKeeps, KeepsReflexive
  <2> HIDE DEF u
  <2>5. s.entry[k].rotationIncoming \in BOOLEAN
    BY <1>0 DEF Entries
  <2>6. Keeps(u, r)
    BY <2>4, <2>5, FinishRotationIncomingKeeps, TurnTurning DEF Keeps, Guards
  <2> HIDE DEF r
  <2> QED BY <2>1, <2>2, <2>4, <2>6, SaneIf
<1>2. CASE ~success
  <2> DEFINE e == [s.entry[k] EXCEPT !.subscribed = FALSE, !.state = "rejected"]
             t == [s EXCEPT !.entry[k] = e]
             u == IF s.entry[k].retarget # None THEN CompleteRetarget(Turn, t, k)
                  ELSE IF s.entry[k].refs = 0 THEN DeleteEntry(Turn, t, k) ELSE t
             moved == s.entry[k].rotationIncoming /\ s.entry[k].retarget # None
             v == FinishRotationIncoming(Turn, u, k, moved)
  <2>0. [s EXCEPT !.entry[k].subscribed = FALSE, !.entry[k].state = "rejected"] = t
    BY <1>0 DEF Supervisors
  <2>1. SubscribeAnswered(Turn, s, k, success) = PromoteParked(Turn, v)
    BY <1>2, <2>0 DEF SubscribeAnswered
  <2>2. /\ e \in Entries /\ e.present = s.entry[k].present /\ e.refs = s.entry[k].refs
        /\ e.removing = s.entry[k].removing /\ e.retarget = s.entry[k].retarget
        /\ e.waitingTarget = s.entry[k].waitingTarget /\ ~e.subscribed
        /\ e.queuedAction = s.entry[k].queuedAction
        /\ e.rotationOutgoing = s.entry[k].rotationOutgoing
        /\ e.rotationIncoming = s.entry[k].rotationIncoming
    BY <1>0, ConstantsTyped DEF Entries
  <2> HIDE DEF e
  <2>3. Apart(s, k)
    BY DEF Sane, Apart
  <2>4. Sane(t) /\ t.entry[k] = e
    BY <2>2, <2>3, NotSubscribed
  <2> HIDE DEF t
  <2>5. t \in Supervisors /\ Good(t)
    BY <2>4 DEF Sane
  <2>6. Keeps(t, u)
    BY <2>2, <2>4, <2>5, TurnTurning, KeepsReflexive DEF Turning
  <2>7. moved \in BOOLEAN
    OBVIOUS
  <2> HIDE DEF u, moved
  <2>8. Keeps(u, v)
    BY <2>6, <2>7, FinishRotationIncomingKeeps, TurnTurning DEF Keeps, Guards
  <2> HIDE DEF v
  <2>9. Keeps(v, PromoteParked(Turn, v))
    BY <2>8, PromoteParkedKeeps, TurnTurning DEF Keeps, Guards
  <2> QED BY <2>1, <2>4, <2>6, <2>8, <2>9, SaneIf
<1> QED BY <1>1, <1>2

(* An unsubscribe is confirmed.                                              *)
LEMMA UnsubscribeConfirmedSane ==
  ASSUME NEW s, NEW k \in Keys, Apart(s, k)
  PROVE  Sane(UnsubscribeConfirmed(Turn, s, k))
<1> DEFINE e == [s.entry[k] EXCEPT !.subscribed = FALSE]
           m == [s EXCEPT !.entry[k] = e]
           t == [m EXCEPT !.retired = s.retired \cup {k}]
           w == SetState(t, k, "desired")
           r == IF s.entry[k].retarget # None THEN CompleteRetarget(Turn, t, k)
                ELSE IF s.entry[k].rotationOutgoing # None THEN CompleteRotationOutgoing(Turn, t, k)
                ELSE IF s.entry[k].refs = 0 \/ s.entry[k].removing THEN DeleteEntry(Turn, t, k)
                ELSE EnqueueSubscribe(w, k)
<1>0. s \in Supervisors /\ Good(s) /\ s.entry[k] \in Entries
  BY EntryTyped DEF Apart
<1>1. UnsubscribeConfirmed(Turn, s, k) = r
  <2>1. [s EXCEPT !.entry[k].subscribed = FALSE, !.retired = s.retired \cup {k}] = t
    BY <1>0 DEF Supervisors
  <2> HIDE DEF t
  <2> QED BY <2>1 DEF UnsubscribeConfirmed
<1>2. /\ e \in Entries /\ e.present = s.entry[k].present /\ e.refs = s.entry[k].refs
      /\ e.removing = s.entry[k].removing /\ e.retarget = s.entry[k].retarget
      /\ e.waitingTarget = s.entry[k].waitingTarget /\ ~e.subscribed
      /\ e.queuedAction = s.entry[k].queuedAction
      /\ e.rotationOutgoing = s.entry[k].rotationOutgoing
      /\ e.rotationIncoming = s.entry[k].rotationIncoming
  BY <1>0 DEF Entries
<1> HIDE DEF e
<1>3. Sane(m) /\ m.entry[k] = e
  BY <1>2, NotSubscribed
<1> HIDE DEF m
<1>4. Keeps(m, t) /\ t.entry[k] = e
  <2>1. s.retired \cup {k} \in SUBSET Keys
    BY <1>0 DEF Supervisors
  <2>2. m \in Supervisors /\ Good(m)
    BY <1>3 DEF Sane
  <2> QED BY <1>3, <2>1, <2>2, OpenAgainKeeps DEF Supervisors
<1> HIDE DEF t
<1>5. t \in Supervisors /\ Good(t)
  BY <1>4 DEF Keeps, Guards
<1>6. s.entry[k].removing => s.entry[k].refs = 0
  BY <1>0 DEF Good, EntriesSound
<1>7. Keeps(t, CompleteRetarget(Turn, t, k))
  BY <1>5, TurnTurning DEF Turning
<1>8. s.entry[k].rotationOutgoing # None => Keeps(t, CompleteRotationOutgoing(Turn, t, k))
  BY <1>2, <1>4, <1>5, TurnTurning, CompleteRotationOutgoingKeeps
<1>9. s.entry[k].refs = 0 => Keeps(t, DeleteEntry(Turn, t, k))
  BY <1>2, <1>4, <1>5, TurnTurning DEF Turning
<1>10. Keeps(t, EnqueueSubscribe(w, k))
  <2>1. Keeps(t, w)
    BY <1>2, <1>4, <1>5, ConstantsTyped, SetStateKeeps
  <2> HIDE DEF w
  <2>2. Keeps(w, EnqueueSubscribe(w, k))
    BY <2>1, EnqueueSubscribeKeeps DEF Keeps, Guards
  <2> QED BY <2>1, <2>2, KeepsTransitive
<1> HIDE DEF w
<1>11. Keeps(t, r)
  BY <1>6, <1>7, <1>8, <1>9, <1>10
<1> HIDE DEF r
<1> QED BY <1>1, <1>3, <1>4, <1>11, SaneIf

(* A reply of the server arrives.                                            *)
LEMMA AnswerSane == ASSUME Sane(sup), AnswerArrives PROVE Sane(sup')
<1> DEFINE job == sup.currentJob
           success == sup.answer = "accepted"
           t == [sup EXCEPT !.currentJob = NoJob, !.answer = "none"]
           r == IF ~job.alive THEN t
                ELSE IF job.action = "subscribe" THEN SubscribeAnswered(Turn, t, job.key, success)
                ELSE IF success THEN UnsubscribeConfirmed(Turn, t, job.key)
                ELSE GiveUpSocket(Turn, t, job)
<1>1. /\ sup \in Supervisors /\ Good(sup) /\ job \in Jobs /\ Points(sup, job)
      /\ sup' = Pump(Turn, r)
  BY DEF Sane, Good, JobsSound, Supervisors, AnswerArrives, HandleAnswer
<1>2. /\ t \in Supervisors /\ SameHeld(sup, t) /\ SameCourse(sup, t)
      /\ t.queue = sup.queue /\ t.registered = sup.registered /\ t.currentJob = NoJob
      /\ t.sendTimer = sup.sendTimer /\ t.sending = sup.sending
  BY <1>1, ConstantsTyped DEF Supervisors, SameHeld, SameCourse
<1> HIDE DEF t
<1>3. Apart(t, job.key) /\ (Sane(t) \/ (job.alive /\ job.action = "unsubscribe"))
  BY <1>2, JobCleared
<1>4. Points(t, job)
  BY <1>1, <1>2 DEF Points, Has, SameHeld
<1>5. job.action = "subscribe" /\ success => job.key \in t.registered
  BY <1>1, <1>2 DEF Good, AcceptedIsRegistered
<1>6. job.alive => job.key \in Keys /\ Has(t, job.key)
  BY <1>4 DEF Points
<1>7. success \in BOOLEAN
  OBVIOUS
<1> HIDE DEF job, success
<1>8. Sane(r)
  <2>1. CASE ~job.alive
    BY <1>3, <2>1
  <2>2. CASE job.alive /\ job.action = "subscribe"
    <3>1. Sane(SubscribeAnswered(Turn, t, job.key, success))
      BY <1>2, <1>3, <1>5, <1>6, <1>7, <2>2, SubscribeAnsweredSane
    <3> QED BY <2>2, <3>1
  <2>3. CASE job.alive /\ job.action # "subscribe" /\ success
    <3>1. Sane(UnsubscribeConfirmed(Turn, t, job.key))
      BY <1>3, <1>6, <2>3, UnsubscribeConfirmedSane
    <3> QED BY <2>3, <3>1
  <2>4. CASE job.alive /\ job.action # "subscribe" /\ ~success
    <3>1. Sane(GiveUpSocket(Turn, t, job))
      BY <1>1, <1>2, <1>3, <1>4, <2>4, GiveUpSane
    <3> QED BY <2>4, <3>1
  <2> QED BY <2>1, <2>2, <2>3, <2>4
<1> HIDE DEF r
<1> QED BY <1>1, <1>8, PumpSane

-----------------------------------------------------------------------------
(* Release and retarget.                                                     *)

(* The handles are counted when one entry's have changed by as much.         *)
LEMMA OneHolder ==
  ASSUME NEW s \in Supervisors, NEW r \in Supervisors, HandlesTrue(s), NEW k \in Keys,
         \A j \in Keys : j # k => r.entry[j].refs = s.entry[j].refs,
         r.handles + s.entry[k].refs = s.handles + r.entry[k].refs
  PROVE  HandlesTrue(r)
<1> DEFINE f == [j \in Keys |-> s.entry[j].refs]
           g == [j \in Keys |-> r.entry[j].refs]
<1>1. f \in [Keys -> Nat] /\ g \in [Keys -> Nat]
  BY RefsTyped
<1>2. f[k] = s.entry[k].refs /\ g[k] = r.entry[k].refs /\ \A j \in Keys : j # k => f[j] = g[j]
  OBVIOUS
<1>3. s.handles = Total(f) /\ (HandlesTrue(r) <=> r.handles = Total(g))
  BY DEF HandlesTrue
<1>4. f[k] \in Nat /\ g[k] \in Nat /\ r.handles \in Nat
  BY <1>1 DEF Supervisors
<1> HIDE DEF f, g
<1>5. IsFiniteSet(Keys)
  BY KeysAssumption
<1>6. Total(f) \in Nat /\ Total(g) \in Nat /\ Total(g) + f[k] = Total(f) + g[k]
  BY <1>1, <1>2, <1>5, TotalChanges
<1>7. r.handles + f[k] = Total(f) + g[k]
  BY <1>2, <1>3
<1>8. r.handles = Total(g)
  BY <1>4, <1>6, <1>7
<1> QED BY <1>3, <1>8

(* A controller changes what it holds: the entry of k is there, with other   *)
(* handles, another target or on its way out, and nothing else of it is      *)
(* changed.                                                                  *)
HeldOtherwise(s, r, k) ==
  /\ Has(s, k) \/ ~s.destroyed
  /\ LET c == s.entry[k]
         e == r.entry[k] IN
     /\ e.present /\ e.subscribed = c.subscribed /\ (e.subscribed => e.state \in OnWire)
     /\ e.queuedAction = c.queuedAction /\ e.waitingTarget = c.waitingTarget
     /\ e.rotationIncoming = c.rotationIncoming
     /\ e.rotationOutgoing \in {None, c.rotationOutgoing}
     /\ e.removing => e.refs = 0
     /\ e.retarget # None => <<k, e.retarget>> \in Successions
     /\ e.retarget = c.retarget \/ e.waitingTarget = None
     /\ r.handles + c.refs = s.handles + e.refs
  /\ \A j \in Keys : j # k => r.entry[j] = s.entry[j]
  /\ ToSet(r.order) = ToSet(s.order) \cup {k}
  /\ r.demand = IF Has(s, k) THEN s.demand ELSE s.demand + 1
  /\ r.destroyed = s.destroyed /\ r.queue = s.queue /\ SameJobs(s, r)
  /\ r.registered = s.registered /\ r.answer = s.answer
  /\ r.rotationCurrent = s.rotationCurrent /\ r.rotationQueue = s.rotationQueue

(* It leaves the rest in order, but for those that wait for k to leave, if   *)
(* it is taken back.                                                         *)
LEMMA HoldingChanged ==
  ASSUME NEW s, Sane(s), NEW k \in Keys, NEW r \in Supervisors, HeldOtherwise(s, r, k)
  PROVE  /\ Good(r) /\ r.sending = NoJob
         /\ \A j \in Keys : /\ ~Orphaned(r, j) /\ ~Unregistered(r, j) /\ ~Jobless(r, j)
                            /\ Stranded(r, j) => /\ s.entry[j].waitingTarget = k /\ j # k
                                                 /\ r.entry[j].waitingTarget = k
                                                 /\ s.entry[k].removing /\ ~r.entry[k].removing
<1> DEFINE e == r.entry[k]
           d == r.demand
<1>0. /\ s \in Supervisors /\ Good(s) /\ s.sending = NoJob
      /\ \A j \in Keys : ~Stranded(s, j) /\ ~Orphaned(s, j) /\ ~Unregistered(s, j) /\ ~Jobless(s, j)
  BY DEF Sane
<1>1. r \in Supervisors
  OBVIOUS
<1>2. /\ r.entry[k] = e /\ \A j \in Keys : j # k => r.entry[j] = s.entry[j]
      /\ r.handles + s.entry[k].refs = s.handles + e.refs
      /\ ToSet(r.order) = ToSet(s.order) \cup {k}
      /\ d = IF Has(s, k) THEN s.demand ELSE s.demand + 1
      /\ r.destroyed = s.destroyed /\ r.queue = s.queue /\ SameJobs(s, r)
      /\ r.registered = s.registered /\ r.answer = s.answer
      /\ r.rotationCurrent = s.rotationCurrent /\ r.rotationQueue = s.rotationQueue
      /\ Has(s, k) \/ ~s.destroyed
  BY DEF HeldOtherwise
<1>20. /\ e.present /\ e.subscribed = s.entry[k].subscribed
       /\ e.subscribed => e.state \in OnWire
       /\ e.queuedAction = s.entry[k].queuedAction /\ e.waitingTarget = s.entry[k].waitingTarget
       /\ e.rotationIncoming = s.entry[k].rotationIncoming
       /\ e.rotationOutgoing \in {None, s.entry[k].rotationOutgoing}
       /\ e.removing => e.refs = 0
       /\ e.retarget # None => <<k, e.retarget>> \in Successions
       /\ e.retarget = s.entry[k].retarget \/ e.waitingTarget = None
  BY DEF HeldOtherwise
<1> HIDE DEF e, d
<1>3. \A j \in Keys :
        /\ Has(r, j) <=> Has(s, j) \/ j = k
        /\ r.entry[j].subscribed = s.entry[j].subscribed
        /\ r.entry[j].queuedAction = s.entry[j].queuedAction
        /\ r.entry[j].waitingTarget = s.entry[j].waitingTarget
        /\ r.entry[j].rotationIncoming = s.entry[j].rotationIncoming
        /\ r.entry[j].rotationOutgoing \in {None, s.entry[j].rotationOutgoing}
  BY <1>2, <1>20 DEF Has
<1>4. DemandTrue(r)
  <2> DEFINE H == {j \in Keys : Has(s, j)}
  <2>1. {j \in Keys : Has(r, j)} = H \cup {k}
    BY <1>3
  <2>2. s.demand = Cardinality(H) /\ (k \in H <=> Has(s, k))
    BY <1>0 DEF Good, DemandTrue
  <2>3. IsFiniteSet(H)
    BY CountOfKeys
  <2> HIDE DEF H
  <2>4. Cardinality(H \cup {k}) = d
    <3>1. CASE k \in H
      <4>1. H \cup {k} = H
        BY <3>1
      <4> QED BY <1>2, <2>2, <3>1, <4>1
    <3>2. CASE k \notin H
      <4>1. Cardinality(H \cup {k}) = Cardinality(H) + 1
        BY <2>3, <3>2, FS_AddElement
      <4> QED BY <1>2, <2>2, <3>2, <4>1
    <3> QED BY <3>1, <3>2
  <2> QED BY <2>1, <2>4 DEF DemandTrue, d
<1>5. HandlesTrue(r)
  <2>1. HandlesTrue(s)
    BY <1>0 DEF Good
  <2>2. r.handles + s.entry[k].refs = s.handles + r.entry[k].refs
    BY <1>2
  <2>3. \A j \in Keys : j # k => r.entry[j].refs = s.entry[j].refs
    BY <1>2
  <2> QED BY <1>0, <1>1, <2>1, <2>2, <2>3, OneHolder
<1>6. Listed(r)
  BY <1>0, <1>2, <1>3 DEF Listed, Good
<1>7. DestroyedEmpty(r)
  BY <1>0, <1>2, <1>3 DEF DestroyedEmpty, Good
<1>8. EntriesSound(r)
  <2>1. EntriesSound(s)
    BY <1>0 DEF Good
  <2>2. ASSUME NEW j \in Keys, j # k
        PROVE  /\ ~r.entry[j].present => Blank(r.entry[j])
               /\ r.entry[j].subscribed => r.entry[j].state \in OnWire
               /\ r.entry[j].retarget # None => <<j, r.entry[j].retarget>> \in Successions
               /\ r.entry[j].removing => r.entry[j].refs = 0
    BY <1>2, <2>1, <2>2 DEF EntriesSound
  <2> QED BY <1>2, <1>20, <2>2 DEF EntriesSound
<1>9. JobsSound(r)
  <2>1. \A job \in ToSet(s.queue) : job.key \in Keys
    BY <1>0, QueueTyped DEF QueuedJobs
  <2>2. JobsSound(s)
    BY <1>0 DEF Good
  <2> QED BY <1>2, <1>3, <2>1, <2>2 DEF SameJobs, JobsSound, Points
<1>10. DeadUnsubscribed(r) /\ AcceptedIsRegistered(r)
  BY <1>0, <1>2, <1>3 DEF SameJobs, DeadUnsubscribed, AcceptedIsRegistered, Good
<1>11. MarksNamePartner(r)
  <2>1. Lease(r) = Lease(s)
    BY <1>2 DEF Lease
  <2> QED BY <1>0, <1>3, <2>1 DEF MarksNamePartner, Good
<1>12. Good(r)
  BY <1>4, <1>5, <1>6, <1>7, <1>8, <1>9, <1>10, <1>11 DEF Good
<1>13. ASSUME NEW j \in Keys PROVE ~Orphaned(r, j) /\ ~Unregistered(r, j) /\ ~Jobless(r, j)
  <2>1. Lease(r) = Lease(s)
    BY <1>2 DEF Lease
  <2> QED BY <1>0, <1>2, <1>3, <2>1 DEF Orphaned, Unregistered, Jobless, SameJobs
<1>14. ASSUME NEW j \in Keys, Stranded(r, j)
       PROVE  /\ s.entry[j].waitingTarget = k /\ j # k /\ r.entry[j].waitingTarget = k
              /\ s.entry[k].removing /\ ~e.removing
  <2> DEFINE x == s.entry[j].waitingTarget
  <2>1. r.entry[j].waitingTarget = x /\ x # None
    BY <1>3, <1>14 DEF Stranded
  <2>2. x \in Keys
    BY <1>0, <2>1 DEF Supervisors, Entries
  <2>3. WaitsFor(s, j, x)
    BY <1>0, <2>1 DEF Stranded
  <2>4. ~WaitsFor(r, j, x)
    BY <1>14, <2>1 DEF Stranded
  <2> HIDE DEF x
  <2>5. r.entry[j].retarget = s.entry[j].retarget
    BY <1>2, <1>20, <2>1 DEF x
  <2>6. ~r.entry[x].removing
    BY <1>3, <2>2, <2>3, <2>4, <2>5 DEF WaitsFor
  <2>7. x = k /\ s.entry[k].removing /\ ~e.removing
    BY <1>2, <2>2, <2>3, <2>6 DEF WaitsFor
  <2>8. <<j, x>> \in Successions
    BY <1>0, <2>1, <2>3 DEF WaitsFor, Good, EntriesSound
  <2>9. j # k
    BY <2>7, <2>8, SuccessionsAssumption
  <2> QED BY <2>1, <2>7, <2>9 DEF x
<1>15. r.sending = NoJob
  BY <1>0, <1>2 DEF SameJobs
<1> QED BY <1>1, <1>12, <1>13, <1>14, <1>15 DEF e

(* The same of an entry that is in the map already and stays on its way.     *)
LEMMA HoldingKept ==
  ASSUME NEW s, Sane(s), NEW k \in Keys, Has(s, k), NEW e \in Entries, NEW h \in Nat,
         e.present = s.entry[k].present, e.state = s.entry[k].state,
         e.subscribed = s.entry[k].subscribed,
         e.queuedAction = s.entry[k].queuedAction, e.waitingTarget = s.entry[k].waitingTarget,
         e.rotationIncoming = s.entry[k].rotationIncoming,
         e.rotationOutgoing = s.entry[k].rotationOutgoing,
         e.removing => e.refs = 0, e.retarget # None => <<k, e.retarget>> \in Successions,
         e.retarget = s.entry[k].retarget \/ e.waitingTarget = None,
         s.entry[k].removing => e.removing,
         h + s.entry[k].refs = s.handles + e.refs
  PROVE  Sane([s EXCEPT !.entry[k] = e, !.handles = h])
<1> DEFINE r == [s EXCEPT !.entry[k] = e, !.handles = h]
<1>0. s \in Supervisors /\ Good(s)
  BY DEF Sane
<1>1. r \in Supervisors
  BY <1>0 DEF Supervisors
<1>2. ToSet(s.order) = ToSet(s.order) \cup {k}
  BY <1>0 DEF Good, Listed
<1>3. e.present /\ (e.subscribed => e.state \in OnWire)
  BY <1>0, SubscribedOnWire DEF Has
<1>4. /\ r.entry[k] = e /\ \A j \in Keys : j # k => r.entry[j] = s.entry[j]
      /\ r.handles = h /\ r.order = s.order /\ r.demand = s.demand
      /\ r.destroyed = s.destroyed /\ r.queue = s.queue /\ SameJobs(s, r)
      /\ r.registered = s.registered /\ r.answer = s.answer
      /\ r.rotationCurrent = s.rotationCurrent /\ r.rotationQueue = s.rotationQueue
  BY <1>0 DEF Supervisors, SameJobs
<1> HIDE DEF r
<1>5. HeldOtherwise(s, r, k)
  BY <1>2, <1>3, <1>4 DEF HeldOtherwise
<1>6. Sane(r)
  BY <1>1, <1>4, <1>5, HoldingChanged DEF Sane
<1> QED BY <1>6 DEF r

(* A controller gives a handle back.                                         *)
LEMMA ReleaseSane == ASSUME Sane(sup), NEW k \in Keys, Release(k) PROVE Sane(sup')
<1> DEFINE x == sup.entry[k].refs - 1
           e == [sup.entry[k] EXCEPT !.refs = x]
           h == sup.handles - 1
           s1 == [sup EXCEPT !.entry[k] = e, !.handles = h]
           c == CancelRotationFor(s1, k)
           d == [c.entry[k] EXCEPT !.removing = TRUE]
           s2 == [c EXCEPT !.entry[k] = d]
           t == IF State(sup, k) = "pending" THEN s2
                ELSE IF State(sup, k) \in OnWire THEN EnqueueUnsubscribe(s2, k)
                ELSE DeleteEntry(Turn, s2, k)
<1>0. /\ sup \in Supervisors /\ Good(sup) /\ sup.entry[k] \in Entries
      /\ Has(sup, k) /\ sup.entry[k].refs > 0
  BY EntryTyped DEF Sane, Release, Held
<1>1. sup.handles \in Nat /\ sup.entry[k].refs \in Nat /\ sup.handles >= sup.entry[k].refs
  <2> DEFINE f == [j \in Keys |-> sup.entry[j].refs]
             g == [f EXCEPT ![k] = 0]
  <2>1. f \in [Keys -> Nat] /\ f[k] = sup.entry[k].refs /\ sup.handles = Total(f)
    BY <1>0, RefsTyped DEF Good, HandlesTrue
  <2> HIDE DEF f
  <2>2. g \in [Keys -> Nat] /\ g[k] = 0 /\ \A j \in Keys : j # k => f[j] = g[j]
    BY <2>1
  <2> HIDE DEF g
  <2>3. Total(f) \in Nat /\ Total(g) \in Nat /\ Total(g) + f[k] = Total(f) + g[k]
    BY <2>1, <2>2, KeysAssumption, TotalChanges
  <2>4. f[k] \in Nat
    BY <2>1
  <2> QED BY <2>1, <2>2, <2>3, <2>4
<1>2. x \in Nat /\ h \in Nat /\ h + sup.entry[k].refs = sup.handles + x
  BY <1>0, <1>1
<1>3. s1 = [sup EXCEPT !.handles = @ - 1, !.entry[k].refs = @ - 1]
  BY <1>0 DEF Supervisors
<1> HIDE DEF x, h
<1>4. /\ e \in Entries /\ e.present = sup.entry[k].present /\ e.state = sup.entry[k].state
      /\ e.subscribed = sup.entry[k].subscribed
      /\ e.queuedAction = sup.entry[k].queuedAction /\ e.waitingTarget = sup.entry[k].waitingTarget
      /\ e.rotationIncoming = sup.entry[k].rotationIncoming
      /\ e.rotationOutgoing = sup.entry[k].rotationOutgoing
      /\ e.removing = sup.entry[k].removing /\ e.retarget = sup.entry[k].retarget /\ e.refs = x
  BY <1>0, <1>2 DEF Entries
<1> HIDE DEF e
<1>5. ~sup.entry[k].removing
  <2>1. sup.entry[k].removing => sup.entry[k].refs = 0
    BY <1>0 DEF Good, EntriesSound
  <2> QED BY <1>0, <2>1
<1>6. e.retarget # None => <<k, e.retarget>> \in Successions
  BY <1>0, <1>4 DEF Good, EntriesSound
<1>7. Sane(s1)
  BY <1>0, <1>2, <1>4, <1>5, <1>6, HoldingKept
<1>8. s1.entry[k] = e
  BY <1>0 DEF Supervisors
<1>9. sup' = IF s1.entry[k].refs > 0 THEN s1 ELSE Pump(Turn, t)
  <2> DEFINE v == [c EXCEPT !.entry[k].removing = TRUE]
  <2>1. c \in Supervisors
    BY <1>7, CancelRotationForKeeps DEF Sane, Keeps, Guards
  <2>2. v = s2
    <3> HIDE DEF c
    <3> QED BY <2>1 DEF Supervisors
  <2>3. sup' = IF s1.entry[k].refs > 0 THEN s1
               ELSE Pump(Turn, IF State(sup, k) = "pending" THEN v
                          ELSE IF State(sup, k) \in OnWire THEN EnqueueUnsubscribe(v, k)
                          ELSE DeleteEntry(Turn, v, k))
    <3> HIDE DEF s1
    <3> QED BY <1>3 DEF Release
  <2> HIDE DEF v, s2, s1
  <2> QED BY <2>2, <2>3
<1> HIDE DEF s1
<1>10. CASE s1.entry[k].refs > 0
  BY <1>7, <1>9, <1>10
<1>11. CASE ~(s1.entry[k].refs > 0)
  <2>1. s1.entry[k].refs = 0
    BY <1>2, <1>4, <1>8, <1>11
  <2>2. Keeps(s1, c) /\ SameHolders(s1, c)
    BY <1>7, CancelRotationForKeeps DEF Sane
  <2>3. Sane(c) /\ c.entry[k].refs = 0 /\ Has(c, k)
    BY <1>0, <1>4, <1>7, <1>8, <2>1, <2>2, SaneIf DEF SameHolders, Has
  <2> HIDE DEF c
  <2>4. c \in Supervisors /\ Good(c) /\ c.entry[k] \in Entries /\ c.handles \in Nat
    BY <2>3, EntryTyped DEF Sane, Supervisors
  <2>5. /\ d \in Entries /\ d.present = c.entry[k].present /\ d.state = c.entry[k].state
        /\ d.subscribed = c.entry[k].subscribed
        /\ d.queuedAction = c.entry[k].queuedAction /\ d.waitingTarget = c.entry[k].waitingTarget
        /\ d.rotationIncoming = c.entry[k].rotationIncoming
        /\ d.rotationOutgoing = c.entry[k].rotationOutgoing
        /\ d.removing /\ d.retarget = c.entry[k].retarget /\ d.refs = c.entry[k].refs
    BY <2>4 DEF Entries
  <2> HIDE DEF d
  <2>6. d.retarget # None => <<k, d.retarget>> \in Successions
    BY <2>4, <2>5 DEF Good, EntriesSound
  <2>7. s2 = [c EXCEPT !.entry[k] = d, !.handles = c.handles]
    BY <2>4 DEF Supervisors
  <2>8. Sane([c EXCEPT !.entry[k] = d, !.handles = c.handles])
    BY <2>3, <2>4, <2>5, <2>6, HoldingKept
  <2>9. Sane(s2) /\ s2.entry[k].refs = 0
    <3>1. s2.entry[k] = d
      BY <2>4 DEF Supervisors
    <3> QED BY <2>3, <2>5, <2>7, <2>8, <3>1
  <2> HIDE DEF s2
  <2>10. Keeps(s2, EnqueueUnsubscribe(s2, k))
    BY <2>9, EnqueueUnsubscribeKeeps DEF Sane
  <2>11. Keeps(s2, DeleteEntry(Turn, s2, k))
    BY <2>9, TurnTurning DEF Turning, Sane
  <2>12. Sane(t)
    BY <2>9, <2>10, <2>11, SaneIf
  <2> HIDE DEF t
  <2> QED BY <1>9, <1>11, <2>12, PumpSane
<1> QED BY <1>10, <1>11

(* A controller retargets the handles of a key.                              *)
LEMMA RetargetAllSane ==
  ASSUME Sane(sup), NEW k \in Keys, NEW next \in Keys, RetargetAll(k, next) PROVE Sane(sup')
<1> DEFINE c == CancelRotationFor(sup, k)
           e == [c.entry[k] EXCEPT !.retarget = next]
           s == [c EXCEPT !.entry[k] = e]
           t == IF State(s, k) = "pending" THEN s
                ELSE IF s.entry[k].subscribed \/ State(s, k) \in {"live", "stale"}
                THEN EnqueueUnsubscribe(s, k)
                ELSE CompleteRetarget(Turn, s, k)
<1>0. sup \in Supervisors /\ Good(sup) /\ ~Stranded(sup, k)
  BY DEF Sane
<1>1. Held(sup, k) /\ <<k, next>> \in Successions /\ sup.entry[k].retarget = None
  BY DEF RetargetAll
<1>2. Keeps(sup, c) /\ SameHolders(sup, c)
  BY <1>0, CancelRotationForKeeps
<1> HIDE DEF c
<1>3. /\ Sane(c) /\ c \in Supervisors /\ Good(c) /\ c.entry[k] \in Entries /\ c.handles \in Nat
      /\ c.entry[k].refs \in Nat
  <2>1. Sane(c)
    BY <1>2, SaneIf
  <2>2. c \in Supervisors
    BY <2>1 DEF Sane
  <2>3. c.entry[k] \in Entries
    BY <2>2, EntryTyped
  <2> QED BY <2>1, <2>2, <2>3 DEF Sane, Supervisors, Entries
<1>4. Has(c, k) /\ c.entry[k].retarget = None /\ c.entry[k].waitingTarget = None
  <2>1. sup.entry[k].waitingTarget = None
    BY <1>0, <1>1, KeysAssumption DEF Stranded, WaitsFor
  <2> QED BY <1>1, <1>2, <2>1 DEF SameHolders, Has, Held
<1>5. /\ e \in Entries /\ e.present = c.entry[k].present /\ e.state = c.entry[k].state
      /\ e.subscribed = c.entry[k].subscribed
      /\ e.queuedAction = c.entry[k].queuedAction /\ e.waitingTarget = c.entry[k].waitingTarget
      /\ e.rotationIncoming = c.entry[k].rotationIncoming
      /\ e.rotationOutgoing = c.entry[k].rotationOutgoing
      /\ e.removing = c.entry[k].removing /\ e.retarget = next /\ e.refs = c.entry[k].refs
  BY <1>3 DEF Entries
<1> HIDE DEF e
<1>6. s = [c EXCEPT !.entry[k] = e, !.handles = c.handles]
  BY <1>3 DEF Supervisors
<1>7. e.removing => e.refs = 0
  BY <1>3, <1>5 DEF Good, EntriesSound
<1>8. Sane([c EXCEPT !.entry[k] = e, !.handles = c.handles])
  BY <1>1, <1>3, <1>4, <1>5, <1>7, HoldingKept
<1>9. sup' = Pump(Turn, t)
  <2>1. [c EXCEPT !.entry[k].retarget = next] = s
    BY <1>3 DEF Supervisors, e
  <2> HIDE DEF s
  <2> QED BY <2>1 DEF RetargetAll, c
<1>10. Sane(s)
  BY <1>6, <1>8
<1> HIDE DEF s
<1>11. Keeps(s, EnqueueUnsubscribe(s, k)) /\ Keeps(s, CompleteRetarget(Turn, s, k))
  BY <1>10, EnqueueUnsubscribeKeeps, TurnTurning DEF Sane, Turning
<1>12. Sane(t)
  BY <1>10, <1>11, SaneIf
<1> HIDE DEF t
<1> QED BY <1>9, <1>12, PumpSane

-----------------------------------------------------------------------------
(* Subscribe.                                                                *)

(* All is well but for those that wait for k, whom nobody has woken yet.     *)
Waking(s, k) ==
  /\ s \in Supervisors /\ Good(s) /\ s.sending = NoJob
  /\ \A j \in Keys : /\ ~Orphaned(s, j) /\ ~Unregistered(s, j) /\ ~Jobless(s, j)
                     /\ Stranded(s, j) => s.entry[j].waitingTarget = k

(* What keeps the state in order leaves nobody else waiting.                 *)
LEMMA WakingIf ==
  ASSUME NEW s, NEW k, Waking(s, k), NEW r, Keeps(s, r) PROVE Waking(r, k)
BY DEF Waking, Keeps, Guards, NoneStranded, NoneOrphaned, NoneUnregistered, NoneJobless, Unsent

(* Where nobody waits, nobody but those of k does.                           *)
LEMMA SaneWaking == ASSUME NEW s, Sane(s), NEW k PROVE Waking(s, k)
BY DEF Waking, Sane

(* Once they are woken, all is well.                                         *)
LEMMA WokenSane ==
  ASSUME NEW s, NEW k, Waking(s, k) PROVE Sane(WakeRetargetWaiters(Turn, s, k))
<1> DEFINE r == WakeRetargetWaiters(Turn, s, k)
<1>1. s \in Supervisors /\ Good(s)
  BY DEF Waking
<1>2. Keeps(s, r) /\ \A j \in Keys : Stranded(r, j) => s.entry[j].waitingTarget # k
  BY <1>1, TurnTurning, WakeKeeps
<1> HIDE DEF r
<1>3. Waking(r, k)
  BY <1>2, WakingIf
<1>4. \A j \in Keys : ~Stranded(r, j)
  BY <1>2 DEF Waking, Keeps, Guards, NoneStranded
<1>5. Sane(r)
  BY <1>3, <1>4 DEF Waking, Sane
<1> QED BY <1>5 DEF r

(* A controller subscribes to a key, perhaps one on its way out.             *)
LEMMA SubscribeSane == ASSUME Sane(sup), NEW k \in Keys, Subscribe(k) PROVE Sane(sup')
<1> DEFINE new == ~Has(sup, k)
           reappeared == Has(sup, k) /\ sup.entry[k].removing /\ sup.entry[k].refs = 0
           e == IF new THEN Fresh ELSE sup.entry[k]
           g == [e EXCEPT !.refs = e.refs + 1, !.removing = ~reappeared /\ e.removing]
           h == sup.handles + 1
           a == sup.retired \ {k}
           o == IF new THEN Append(sup.order, k) ELSE sup.order
           d == IF new THEN sup.demand + 1 ELSE sup.demand
           s1 == [sup EXCEPT !.handles = h, !.retired = a, !.entry[k] = g, !.order = o, !.demand = d]
           c1 == [s1 EXCEPT !.conn = "connecting"]
           S2(credentials) == IF new /\ sup.demand = 0 /\ credentials
                              THEN HandleDown(Turn, c1) ELSE s1
           S4(s3) == IF reappeared THEN WakeRetargetWaiters(Turn, s3, k) ELSE s3
<1>0. /\ sup \in Supervisors /\ Good(sup) /\ sup.entry[k] \in Entries
      /\ ~sup.destroyed
  BY EntryTyped DEF Sane, Subscribe
<1>1. PICK credentials \in BOOLEAN :
        sup' = Pump(Turn, EnqueueSubscribe(S4(EnforceCap(S2(credentials))), k))
  <2>1. s1 = [sup EXCEPT
                 !.handles = @ + 1, !.retired = @ \ {k},
                 !.entry[k] = [e EXCEPT !.refs = e.refs + 1,
                                        !.removing = ~reappeared /\ e.removing],
                 !.order = IF new THEN Append(@, k) ELSE @,
                 !.demand = IF new THEN @ + 1 ELSE @]
    BY <1>0 DEF Supervisors
  <2> QED BY <2>1 DEF Subscribe
<1>2. Absent \in Entries /\ Fresh \in Entries /\ None \notin Keys
  BY ConstantsTyped, KeysAssumption DEF Absent, Fresh, Entries, Refs, States, Actions
<1>3. e \in Entries
  BY <1>0, <1>2
<1>4. new => Blank(sup.entry[k])
  BY <1>0, BlankWhenAbsent DEF Has
<1>5. /\ e.present /\ e.subscribed = sup.entry[k].subscribed
      /\ e.queuedAction = sup.entry[k].queuedAction /\ e.waitingTarget = sup.entry[k].waitingTarget
      /\ e.rotationIncoming = sup.entry[k].rotationIncoming
      /\ e.rotationOutgoing \in {None, sup.entry[k].rotationOutgoing}
      /\ e.retarget = sup.entry[k].retarget /\ e.refs = sup.entry[k].refs
      /\ new => ~e.removing
  <2>1. CASE new
    <3>1. /\ Fresh.present /\ ~Fresh.subscribed /\ Fresh.queuedAction = "none"
          /\ Fresh.waitingTarget = None /\ ~Fresh.rotationIncoming
          /\ Fresh.rotationOutgoing = None /\ Fresh.retarget = None /\ Fresh.refs = 0
          /\ ~Fresh.removing
      BY DEF Fresh, Absent
    <3>2. Fresh.subscribed \in BOOLEAN /\ Fresh.rotationIncoming \in BOOLEAN
      BY <1>2 DEF Entries
    <3>3. sup.entry[k].subscribed \in BOOLEAN /\ sup.entry[k].rotationIncoming \in BOOLEAN
      BY <1>0 DEF Entries
    <3>4. e = Fresh
      BY <2>1
    <3> QED BY <1>4, <2>1, <3>1, <3>2, <3>3, <3>4 DEF Blank
  <2>2. CASE ~new
    BY <2>2 DEF Has
  <2> QED BY <2>1, <2>2
<1>6. /\ e.subscribed => e.state \in OnWire
      /\ e.retarget # None => <<k, e.retarget>> \in Successions
      /\ e.removing => e.refs = 0
  <2>1. CASE new
    BY <1>2, <1>4, <1>5, <2>1 DEF Blank
  <2>2. CASE ~new
    BY <1>0, <2>2 DEF Good, EntriesSound
  <2> QED BY <2>1, <2>2
<1>7. e.refs \in Nat
  BY <1>3 DEF Entries
<1>8. e.retarget = None \/ e.waitingTarget = e.retarget \/ e.waitingTarget = None
  BY <1>0, <1>5 DEF Sane, Stranded, WaitsFor
<1>9. e.removing => reappeared
  BY <1>5, <1>6
<1> HIDE DEF e
<1>10. /\ g \in Entries /\ g.present = e.present /\ g.subscribed = e.subscribed
       /\ g.state = e.state /\ g.queuedAction = e.queuedAction
       /\ g.waitingTarget = e.waitingTarget /\ g.rotationIncoming = e.rotationIncoming
       /\ g.rotationOutgoing = e.rotationOutgoing /\ g.retarget = e.retarget
       /\ g.refs = e.refs + 1 /\ ~g.removing
  <2> DEFINE n == e.refs + 1
             m == ~reappeared /\ e.removing
  <2>1. n \in Nat /\ m = FALSE
    BY <1>7, <1>9
  <2>2. g = [e EXCEPT !.refs = n, !.removing = m]
    OBVIOUS
  <2> HIDE DEF n, m, g
  <2>3. /\ g \in Entries /\ g.present = e.present /\ g.subscribed = e.subscribed
        /\ g.state = e.state /\ g.queuedAction = e.queuedAction
        /\ g.waitingTarget = e.waitingTarget /\ g.rotationIncoming = e.rotationIncoming
        /\ g.rotationOutgoing = e.rotationOutgoing /\ g.retarget = e.retarget
        /\ g.refs = n /\ g.removing = m
    BY <1>3, <2>1, <2>2 DEF Entries
  <2> QED BY <2>1, <2>3 DEF n
<1> HIDE DEF g
<1>11. /\ h \in Nat /\ a \in SUBSET Keys /\ d \in Nat
       /\ h + sup.entry[k].refs = sup.handles + g.refs
  <2>1. sup.handles \in Nat /\ sup.retired \in SUBSET Keys /\ sup.demand \in Nat
    BY <1>0 DEF Supervisors
  <2>2. a \in SUBSET Keys
    BY <2>1
  <2>3. h \in Nat /\ d \in Nat
    BY <2>1
  <2>4. e.refs = sup.entry[k].refs /\ g.refs = e.refs + 1
    BY <1>5, <1>10
  <2>5. h + e.refs = sup.handles + (e.refs + 1)
    BY <1>7, <2>1
  <2> QED BY <2>2, <2>3, <2>4, <2>5
<1>12. o \in Seq(Keys) /\ ToSet(o) = ToSet(sup.order) \cup {k}
  <2>1. sup.order \in Seq(Keys)
    BY <1>0 DEF Supervisors
  <2>2. CASE new
    BY <2>1, <2>2, AppendedSet
  <2>3. CASE ~new
    BY <1>0, <2>1, <2>3 DEF Good, Listed
  <2> QED BY <2>2, <2>3
<1>13. d = IF Has(sup, k) THEN sup.demand ELSE sup.demand + 1
  OBVIOUS
<1> HIDE DEF h, a, o, d
<1>14. s1 \in Supervisors
  BY <1>0, <1>10, <1>11, <1>12 DEF Supervisors
<1>15. /\ s1.entry[k] = g /\ \A j \in Keys : j # k => s1.entry[j] = sup.entry[j]
       /\ s1.handles = h /\ s1.order = o /\ s1.demand = d
  BY <1>0 DEF Supervisors
<1>16. /\ s1.destroyed = sup.destroyed /\ s1.queue = sup.queue /\ SameJobs(sup, s1)
       /\ s1.registered = sup.registered /\ s1.answer = sup.answer
       /\ s1.rotationCurrent = sup.rotationCurrent /\ s1.rotationQueue = sup.rotationQueue
  BY <1>0 DEF Supervisors, SameJobs
<1> HIDE DEF s1
<1>17. HeldOtherwise(sup, s1, k)
  <2>1. s1.handles + sup.entry[k].refs = sup.handles + s1.entry[k].refs
    BY <1>11, <1>15
  <2>2. g.retarget = sup.entry[k].retarget
    BY <1>5, <1>10
  <2>3. /\ g.present /\ g.subscribed = sup.entry[k].subscribed
        /\ g.subscribed => g.state \in OnWire
        /\ g.queuedAction = sup.entry[k].queuedAction
        /\ g.waitingTarget = sup.entry[k].waitingTarget
        /\ g.rotationIncoming = sup.entry[k].rotationIncoming
        /\ g.rotationOutgoing \in {None, sup.entry[k].rotationOutgoing}
        /\ g.removing => g.refs = 0
        /\ g.retarget # None => <<k, g.retarget>> \in Successions
    BY <1>5, <1>6, <1>10
  <2> QED BY <1>0, <1>12, <1>13, <1>15, <1>16, <2>1, <2>2, <2>3 DEF HeldOtherwise
<1>18. Waking(s1, k)
  BY <1>14, <1>17, HoldingChanged DEF Waking
<1>19. ~reappeared => Sane(s1)
  <2>1. ASSUME NEW j \in Keys, Stranded(s1, j) PROVE reappeared
    <3>1. sup.entry[j].waitingTarget = k /\ sup.entry[k].removing
      BY <1>14, <1>17, <2>1, HoldingChanged
    <3>2. WaitsFor(sup, j, k)
      BY <3>1, KeysAssumption DEF Sane, Stranded
    <3> QED BY <1>0, <3>1, <3>2 DEF WaitsFor, Good, EntriesSound
  <2> QED BY <1>18, <2>1 DEF Waking, Sane
<1>20. Keeps(s1, S2(credentials))
  <2>1. s1 \in Supervisors /\ Good(s1)
    BY <1>18 DEF Waking
  <2>2. Keeps(s1, c1)
    BY <2>1, OpenAgainKeeps
  <2> HIDE DEF c1
  <2>3. c1 \in Supervisors /\ Good(c1)
    BY <2>2 DEF Keeps, Guards
  <2>4. Keeps(c1, HandleDown(Turn, c1))
    BY <2>3, TurnTurning, HandleDownKeeps
  <2> QED BY <2>1, <2>2, <2>4, KeepsTransitive, KeepsReflexive
<1> DEFINE s2 == S2(credentials)
           s3 == EnforceCap(s2)
           s4 == S4(s3)
<1>21. Waking(s2, k) /\ (~reappeared => Sane(s2))
  BY <1>18, <1>19, <1>20, WakingIf, SaneIf
<1> HIDE DEF s2
<1>22. Keeps(s2, s3)
  BY <1>21, EnforceCapKeeps DEF Waking
<1>23. Waking(s3, k) /\ (~reappeared => Sane(s3))
  BY <1>21, <1>22, WakingIf, SaneIf
<1> HIDE DEF s3
<1>24. Sane(s4)
  BY <1>23, WokenSane
<1>25. sup' = Pump(Turn, EnqueueSubscribe(s4, k))
  BY <1>1 DEF s2, s3
<1> HIDE DEF s4
<1>26. Sane(EnqueueSubscribe(s4, k))
  BY <1>24, EnqueueSubscribeKeeps, SaneIf DEF Sane
<1> QED BY <1>25, <1>26, PumpSane

-----------------------------------------------------------------------------
(* Theorems.                                                                 *)

(* Every action leaves the supervisor sane.                                  *)
LEMMA NextSane == ASSUME Sane(sup), Next PROVE Sane(sup')
<1>1. ASSUME NEW k \in Keys, Subscribe(k) \/ Release(k) \/ MarkStale(k) \/ DataArrives(k)
      PROVE  Sane(sup')
  BY <1>1, SubscribeSane, ReleaseSane, MarkStaleSane, DataSane
<1>2. ASSUME NEW k \in Keys, NEW next \in Keys, RetargetAll(k, next) PROVE Sane(sup')
  BY <1>2, RetargetAllSane
<1>3. CASE RetainResolves \/ Destroy \/ SpacingElapses \/ SendTimer \/ RetryTimer
  BY <1>3, TimersSane, DestroySane, SendTimerSane
<1>4. CASE ControlTimeout \/ RotationTick \/ ConnectionOpens \/ ConnectionConnects
           \/ ConnectionLost \/ SocketBreaks \/ SocketReady \/ ServerActs \/ AnswerArrives
  BY <1>4, TimersSane, ControlTimeoutSane, RotationTickSane, ConnectionSane, ServerActsSane,
     AnswerSane
<1> QED BY <1>1, <1>2, <1>3, <1>4 DEF Next

(* So does a step that changes nothing.                                      *)
LEMMA StaysSane == ASSUME Sane(sup), [Next]_vars PROVE Sane(sup')
<1>1. CASE Next
  BY <1>1, NextSane
<1>2. CASE UNCHANGED vars
  BY <1>2 DEF vars
<1> QED BY <1>1, <1>2

(* The invariant in full: the supervisor is well-formed, what it counts is   *)
(* what there is, and nobody is left waiting, marked or taken to be          *)
(* subscribed with nothing behind it (all methods of SubscriptionSupervisor).*)
THEOREM AlwaysSane == Spec => []Sane(sup)
<1>1. Init => Sane(sup)
  BY InitSane
<1>2. Sane(sup) /\ [Next]_vars => Sane(sup)'
  BY StaysSane
<1> QED BY <1>1, <1>2, PTL DEF Spec

(* The supervisor keeps its types: the insertion order lists the entries of  *)
(* the map, and no job of an entry that has left it stays in the queue.      *)
THEOREM TypesKept == Spec => []TypeOK
<1>1. ASSUME Sane(sup) PROVE TypeOK
  <2>1. sup \in Supervisors /\ Good(sup) /\ sup.sending = NoJob
    BY <1>1 DEF Sane
  <2>2. \A k \in Keys : k \in ToSet(sup.order) <=> Has(sup, k)
    BY <2>1 DEF Good, Listed
  <2>3. ASSUME NEW i \in DOMAIN sup.queue PROVE Has(sup, sup.queue[i].key)
    <3>1. sup.queue[i] \in ToSet(sup.queue)
      BY DEF ToSet
    <3> QED BY <2>1, <3>1 DEF Good, JobsSound
  <2> QED BY <2>1, <2>2, <2>3 DEF TypeOK
<1> QED BY <1>1, AlwaysSane, PTL

(* The connection is wanted once for every entry, the references are the     *)
(* handles of the controllers, and an entry taken to be subscribed is one    *)
(* the server pushes, through every retarget, merge, release, loss and       *)
(* failed send, in any nesting (completeRetarget, deleteEntry,               *)
(* handleConnectionState, sendJob).                                          *)
THEOREM EntriesStayTrue == Spec => []EntriesTrue
<1>1. ASSUME Sane(sup) PROVE EntriesTrue
  <2>1. DemandTrue(sup) /\ HandlesTrue(sup)
    BY <1>1 DEF Sane, Good
  <2>2. SubscribedIsRegistered
    BY <1>1 DEF Sane, Unregistered, SubscribedIsRegistered
  <2> QED BY <2>1, <2>2 DEF DemandTrue, HandlesTrue, Total, EntriesTrue, DemandPerEntry,
                            HandlesAttached
<1> QED BY <1>1, AlwaysSane, PTL

(* queuedAction always names a queued job, and a retarget that waits always  *)
(* waits for an entry whose deletion will wake it (enqueueSubscribe,         *)
(* nextValidJob, completeRetarget, wakeRetargetWaiters).                     *)
THEOREM NobodyWaitsInVain == Spec => []NothingWaitsInVain
<1>1. ASSUME Sane(sup) PROVE NothingWaitsInVain
  <2>1. QueuedActionHasJob
    BY <1>1 DEF Sane, Jobless, QueuedActionHasJob
  <2>2. WaiterWakes
    BY <1>1 DEF Sane, Stranded, WaitsFor, WaiterWakes
  <2> QED BY <2>1, <2>2 DEF NothingWaitsInVain
<1> QED BY <1>1, AlwaysSane, PTL

(* An entry set aside for a rotation is the incoming one of a pair of the    *)
(* lease, so that the end of the lease frees it (startRotationLease,         *)
(* advanceRotation, cancelRotationFor).                                      *)
THEOREM MarksHavePairs == Spec => []RotationMarks
<1>1. ASSUME Sane(sup) PROVE RotationMarks
  BY <1>1 DEF Sane, Orphaned, Lease, PairsOfLease, RotationMarks
<1> QED BY <1>1, AlwaysSane, PTL

=============================================================================
