----------------------------- MODULE Induction -----------------------------
(***************************************************************************)
(* Induction over the naturals and repeated steps, stated of sets and      *)
(* functions instead of operators: a loop of the models is a recursive     *)
(* function on the number of its turns, and what a loop computes for every *)
(* input is proved with these lemmas.                                      *)
(***************************************************************************)
EXTENDS Integers, FiniteSetsExt, SequencesExt, FiniteSetTheorems, FunctionTheorems,
        SequenceTheorems, TLAPS

(* Every non-empty set of naturals has a least element. *)
LEMMA LeastElement ==
    ASSUME NEW S \in SUBSET Nat, S # {}
    PROVE  \E m \in S : \A k \in S : m <= k
<1> DEFINE Below == {0..m : m \in S}
<1>1. Below \subseteq FiniteSubsetsOf(Nat) /\ Below # {}
  <2>1. ASSUME NEW m \in S PROVE IsFiniteSet(0..m) /\ 0..m \in SUBSET Nat
    BY FS_Interval
  <2>2. ASSUME NEW B \in Below PROVE B \in FiniteSubsetsOf(Nat)
    BY <2>1 DEF FiniteSubsetsOf
  <2>3. QED
    BY <2>2
<1>2. PICK least \in Below : \A B \in Below : ~(<<B, least>> \in StrictSubsetOrdering(Nat))
  BY <1>1, WFMin, FS_StrictSubsetOrderingWellFounded
<1>3. PICK m \in S : least = 0..m
  BY <1>2
<1>4. ASSUME NEW k \in S, k < m PROVE FALSE
  <2>1. 0..k \subseteq 0..m /\ m \in 0..m /\ m \notin 0..k
    BY <1>4
  <2>2. <<0..k, 0..m>> \in StrictSubsetOrdering(Nat)
    BY <2>1 DEF StrictSubsetOrdering
  <2>3. QED
    BY <1>2, <1>3, <2>2
<1>5. QED
  BY <1>4

LEMMA MinIsLeast ==
    ASSUME NEW S \in SUBSET Nat, S # {}
    PROVE  Min(S) \in S /\ \A k \in S : Min(S) <= k
BY LeastElement DEF Min

(* A set of naturals closed under successor holds them all. *)
LEMMA NatSet ==
    ASSUME NEW S, 0 \in S, \A n \in Nat : n \in S => n + 1 \in S
    PROVE  Nat \subseteq S
<1>1. SUFFICES ASSUME Nat \ S # {} PROVE FALSE
  OBVIOUS
<1>2. PICK m \in Nat \ S : \A k \in Nat \ S : m <= k
  BY <1>1, LeastElement
<1>3. m # 0 /\ m - 1 \in Nat
  BY <1>2
<1>4. m - 1 \in S
  BY <1>2, <1>3
<1>5. QED
  BY <1>2, <1>3, <1>4

(* A step on a set can be repeated any number of times. *)
Repeats(S, start, step, turns) ==
    \E run \in [0..turns -> S] :
        run[0] = start /\ \A k \in 1..turns : run[k] = step[run[k - 1]]

LEMMA Iteration ==
    ASSUME NEW S, NEW start \in S, NEW step \in [S -> S], NEW turns \in Nat
    PROVE  Repeats(S, start, step, turns)
<1> DEFINE Runs(n) == {run \in [0..n -> S] :
                         run[0] = start /\ \A k \in 1..n : run[k] = step[run[k - 1]]}
           Good == {n \in Nat : Runs(n) # {}}
<1>1. 0 \in Good
  <2>1. [k \in 0..0 |-> start] \in Runs(0)
    OBVIOUS
  <2>2. QED
    BY <2>1
<1>2. ASSUME NEW n \in Nat, n \in Good PROVE n + 1 \in Good
  <2>1. PICK run \in Runs(n) : TRUE
    BY <1>2
  <2> DEFINE longer == [k \in 0..(n + 1) |-> IF k = n + 1 THEN step[run[n]] ELSE run[k]]
  <2>2. run[n] \in S
    BY <2>1
  <2>3. longer \in [0..(n + 1) -> S] /\ longer[0] = start
    BY <2>1, <2>2
  <2>4. ASSUME NEW k \in 1..(n + 1) PROVE longer[k] = step[longer[k - 1]]
    <3>1. /\ k \in 0..(n + 1) /\ k - 1 \in 0..(n + 1) /\ k - 1 # n + 1
          /\ k = n + 1 => k - 1 = n
          /\ k # n + 1 => k \in 1..n
      OBVIOUS
    <3>2. longer[k - 1] = run[k - 1]
      BY <3>1
    <3>3. longer[k] = IF k = n + 1 THEN step[run[n]] ELSE run[k]
      BY <3>1
    <3>4. \A j \in 1..n : run[j] = step[run[j - 1]]
      BY <2>1
    <3> HIDE DEF longer
    <3>5. QED
      BY <3>1, <3>2, <3>3, <3>4
  <2> HIDE DEF longer
  <2>5. longer \in Runs(n + 1)
    BY <2>3, <2>4
  <2> HIDE DEF Runs
  <2>6. Runs(n + 1) # {} /\ n + 1 \in Nat
    BY <2>5
  <2>7. QED
    BY <2>6
<1>3. turns \in Good
  <2> HIDE DEF Good
  <2>1. QED
    BY <1>1, <1>2, NatSet
<1>4. QED
  BY <1>3 DEF Repeats

(* A recursive definition over a ranked set, in which the value at x rests *)
(* on values of smaller rank only, has a solution: repeating the step once *)
(* more than there are ranks reaches it.                                   *)
Solvable(S, V, step) == \E f \in [S -> V] : f = step[f]

LEMMA RecursionOnRank ==
    ASSUME NEW S, NEW V, V # {}, NEW step \in [[S -> V] -> [S -> V]],
           NEW N \in Nat, NEW rank \in [S -> 0..N],
           \A f, g \in [S -> V] : \A x \in S :
               (\A y \in S : rank[y] < rank[x] => f[y] = g[y]) => step[f][x] = step[g][x]
    PROVE  Solvable(S, V, step)
<1> DEFINE F == [S -> V]
<1>1. PICK v \in V : TRUE
  OBVIOUS
<1>2. [x \in S |-> v] \in F
  OBVIOUS
<1>3. PICK run \in [0..(N + 2) -> F] : \A k \in 1..(N + 2) : run[k] = step[run[k - 1]]
  <2>1. step \in [F -> F] /\ N + 2 \in Nat
    OBVIOUS
  <2> HIDE DEF F
  <2>2. Repeats(F, [x \in S |-> v], step, N + 2)
    BY <1>2, <2>1, Iteration
  <2>3. QED
    BY <2>2 DEF Repeats
<1> DEFINE Settled == {k \in Nat : k <= N + 1 =>
                          \A x \in S : rank[x] < k => run[k][x] = run[k + 1][x]}
<1>4. 0 \in Settled
  <2>1. \A x \in S : ~(rank[x] < 0)
    OBVIOUS
  <2>2. QED
    BY <2>1
<1>5. ASSUME NEW k \in Nat, k \in Settled PROVE k + 1 \in Settled
  <2>1. SUFFICES ASSUME k + 1 <= N + 1, NEW x \in S, rank[x] < k + 1
                 PROVE  run[k + 1][x] = run[k + 2][x]
    OBVIOUS
  <2>2. \A y \in S : rank[y] < rank[x] => run[k][y] = run[k + 1][y]
    BY <1>5, <2>1
  <2>3. run[k + 1] = step[run[k]] /\ run[k + 2] = step[run[k + 1]]
    <3>1. k + 1 \in 1..(N + 2) /\ k + 2 \in 1..(N + 2) /\ k + 1 - 1 = k /\ k + 2 - 1 = k + 1
      BY <2>1
    <3> HIDE DEF F
    <3>2. QED
      BY <1>3, <3>1
  <2>4. run[k] \in F /\ run[k + 1] \in F
    BY <1>3, <2>1
  <2>5. step[run[k]][x] = step[run[k + 1]][x]
    <3>1. \A f, g \in F :
            (\A y \in S : rank[y] < rank[x] => f[y] = g[y]) => step[f][x] = step[g][x]
      OBVIOUS
    <3> HIDE DEF F
    <3>2. QED
      BY <2>2, <2>4, <3>1
  <2>6. QED
    BY <2>3, <2>5
<1>6. N + 1 \in Settled
  <2> HIDE DEF Settled
  <2>1. QED
    BY <1>4, <1>5, NatSet
<1>7. run[N + 1] \in F /\ run[N + 2] \in F /\ run[N + 2] = step[run[N + 1]]
  BY <1>3
<1>8. \A x \in S : run[N + 1][x] = run[N + 2][x]
  <2>1. \A x \in S : rank[x] < N + 1
    OBVIOUS
  <2>2. QED
    BY <1>6, <2>1
<1>9. run[N + 1] = run[N + 2]
  BY <1>7, <1>8
<1>10. QED
  BY <1>7, <1>9 DEF Solvable

(* Induction over a ranked set. *)
LEMMA InductionOnRank ==
    ASSUME NEW S, NEW rank \in [S -> Nat], NEW T,
           \A x \in S : (\A y \in S : rank[y] < rank[x] => y \in T) => x \in T
    PROVE  S \subseteq T
<1>1. SUFFICES ASSUME S \ T # {} PROVE FALSE
  OBVIOUS
<1> DEFINE ranks == {rank[x] : x \in S \ T}
<1>2. ranks \in SUBSET Nat /\ ranks # {}
  BY <1>1
<1>3. PICK least \in ranks : \A k \in ranks : least <= k
  <2> HIDE DEF ranks
  <2>1. QED
    BY <1>2, LeastElement
<1>4. PICK x \in S \ T : rank[x] = least
  BY <1>3
<1>5. ASSUME NEW y \in S, rank[y] < rank[x] PROVE y \in T
  <2>1. CASE y \notin T
    <3>1. rank[y] \in ranks /\ rank[y] \in Nat /\ rank[x] \in Nat
      BY <2>1
    <3> HIDE DEF ranks
    <3>2. least <= rank[y]
      BY <1>3, <3>1
    <3>3. QED
      BY <1>4, <1>5, <3>1, <3>2
  <2>2. QED
    BY <2>1
<1>6. QED
  BY <1>4, <1>5

-----------------------------------------------------------------------------
(* The sum of the weights of a finite set's elements, as the folds of the  *)
(* community modules compute it: element by element, in the order CHOOSE   *)
(* gives.  The order does not matter.                                      *)
Chosen(s) == CHOOSE x \in s : TRUE

AddsUp(weight, D, sum) ==
    sum = [s \in SUBSET D |-> IF s = {} THEN 0 ELSE weight[Chosen(s)] + sum[s \ {Chosen(s)}]]
SumsUp(weight, D, sum) == sum \in [SUBSET D -> Nat] /\ AddsUp(weight, D, sum)

LEMMA SumExists ==
    ASSUME NEW D, IsFiniteSet(D), NEW weight \in [D -> Nat]
    PROVE  \E sum : SumsUp(weight, D, sum)
<1> DEFINE S == SUBSET D
           N == Cardinality(D)
           rank == [s \in S |-> Cardinality(s)]
           step == [f \in [S -> Nat] |->
                      [s \in S |-> IF s = {} THEN 0 ELSE weight[Chosen(s)] + f[s \ {Chosen(s)}]]]
<1>1. ASSUME NEW s \in S, s # {}
      PROVE  /\ Chosen(s) \in s /\ Chosen(s) \in D /\ s \ {Chosen(s)} \in S
             /\ rank[s \ {Chosen(s)}] < rank[s]
  <2>1. Chosen(s) \in s
    BY <1>1 DEF Chosen
  <2>2. IsFiniteSet(s) /\ s \ {Chosen(s)} \in S
    BY FS_Subset
  <2>3. /\ Cardinality(s \ {Chosen(s)}) = Cardinality(s) - 1 /\ Cardinality(s) \in Nat
    BY <2>1, <2>2, FS_RemoveElement, FS_CardinalityType
  <2>4. QED
    BY <2>1, <2>2, <2>3
<1>2. step \in [[S -> Nat] -> [S -> Nat]]
  <2>1. ASSUME NEW f \in [S -> Nat], NEW s \in S, s # {}
        PROVE  weight[Chosen(s)] + f[s \ {Chosen(s)}] \in Nat
    <3>1. Chosen(s) \in D /\ s \ {Chosen(s)} \in S
      BY <1>1, <2>1
    <3> HIDE DEF S
    <3>2. weight[Chosen(s)] \in Nat /\ f[s \ {Chosen(s)}] \in Nat
      BY <3>1
    <3>3. QED
      BY <3>2
  <2> HIDE DEF S
  <2>2. QED
    BY <2>1
<1>3. rank \in [S -> 0..N] /\ N \in Nat
  <2>1. ASSUME NEW s \in S PROVE Cardinality(s) \in 0..N
    BY FS_Subset, FS_CardinalityType
  <2>2. QED
    BY <2>1, FS_CardinalityType
<1>4. ASSUME NEW f \in [S -> Nat], NEW g \in [S -> Nat], NEW s \in S,
             \A t \in S : rank[t] < rank[s] => f[t] = g[t]
      PROVE  step[f][s] = step[g][s]
  <2>1. CASE s = {}
    BY <2>1
  <2>2. CASE s # {}
    <3>1. f[s \ {Chosen(s)}] = g[s \ {Chosen(s)}]
      BY <1>1, <1>4, <2>2
    <3>2. QED
      BY <2>2, <3>1
  <2>3. QED
    BY <2>1, <2>2
<1>5. Solvable(S, Nat, step)
  <2> HIDE DEF S, rank, step, N
  <2>1. QED
    BY <1>2, <1>3, <1>4, RecursionOnRank
<1>6. PICK sum \in [S -> Nat] : sum = step[sum]
  BY <1>5 DEF Solvable
<1>7. QED
  BY <1>6 DEF SumsUp, AddsUp

LEMMA SumByOne ==
    ASSUME NEW D, IsFiniteSet(D), NEW weight \in [D -> Nat], NEW sum, SumsUp(weight, D, sum)
    PROVE  /\ sum[{}] = 0
           /\ \A s \in SUBSET D : \A x \in s : sum[s] = weight[x] + sum[s \ {x}]
<1> DEFINE Free(s) == \A x \in s : sum[s] = weight[x] + sum[s \ {x}]
           rank == [s \in SUBSET D |-> Cardinality(s)]
           free == {s \in SUBSET D : Free(s)}
<1>1. ASSUME NEW s \in SUBSET D
      PROVE  /\ sum[s] = IF s = {} THEN 0 ELSE weight[Chosen(s)] + sum[s \ {Chosen(s)}]
             /\ sum[s] \in Nat /\ \A x \in s : weight[x] \in Nat /\ s \ {x} \in SUBSET D
  BY DEF SumsUp, AddsUp
<1>2. ASSUME NEW s \in SUBSET D, NEW x \in s PROVE rank[s \ {x}] < rank[s]
  <2>1. IsFiniteSet(s)
    BY FS_Subset
  <2>2. Cardinality(s \ {x}) = Cardinality(s) - 1 /\ Cardinality(s) \in Nat
    BY <2>1, FS_RemoveElement, FS_CardinalityType
  <2>3. QED
    BY <2>2
<1>3. ASSUME NEW s \in SUBSET D, \A t \in SUBSET D : rank[t] < rank[s] => t \in free
      PROVE  s \in free
  <2>1. SUFFICES ASSUME NEW x \in s PROVE sum[s] = weight[x] + sum[s \ {x}]
    OBVIOUS
  <2> DEFINE y == Chosen(s)
  <2>2. y \in s
    BY DEF Chosen
  <2>3. sum[s] = weight[y] + sum[s \ {y}]
    BY <1>1
  <2>4. CASE x = y
    BY <2>3, <2>4
  <2>5. CASE x # y
    <3> HIDE DEF y
    <3>1. Free(s \ {y}) /\ Free(s \ {x})
      <4>1. s \ {y} \in SUBSET D /\ s \ {x} \in SUBSET D
        OBVIOUS
      <4>2. rank[s \ {y}] < rank[s] /\ rank[s \ {x}] < rank[s]
        BY <1>2, <2>2
      <4>3. s \ {y} \in free /\ s \ {x} \in free
        BY <1>3, <4>1, <4>2
      <4>4. QED
        BY <4>3
    <3>2. sum[s \ {y}] = weight[x] + sum[(s \ {y}) \ {x}]
      BY <2>5, <3>1
    <3>3. sum[s \ {x}] = weight[y] + sum[(s \ {x}) \ {y}]
      BY <2>2, <2>5, <3>1
    <3>4. (s \ {x}) \ {y} = (s \ {y}) \ {x} /\ (s \ {y}) \ {x} \in SUBSET D
      OBVIOUS
    <3>5. /\ weight[x] \in Nat /\ weight[y] \in Nat /\ sum[(s \ {y}) \ {x}] \in Nat
      BY <1>1, <2>2, <3>4
    <3>6. sum[s \ {x}] = weight[y] + sum[(s \ {y}) \ {x}]
      BY <3>3, <3>4
    <3> DEFINE a == weight[x]
               b == weight[y]
               rest == sum[(s \ {y}) \ {x}]
    <3>7. /\ a \in Nat /\ b \in Nat /\ rest \in Nat
          /\ sum[s \ {x}] = b + rest /\ sum[s] = b + (a + rest)
      BY <2>3, <3>2, <3>5, <3>6
    <3>8. weight[x] = a
      OBVIOUS
    <3> HIDE DEF a, b, rest
    <3>9. QED
      BY <3>7, <3>8
  <2>6. QED
    BY <2>4, <2>5
<1>4. rank \in [SUBSET D -> Nat]
  BY FS_Subset, FS_CardinalityType
<1>5. SUBSET D \subseteq free
  <2> HIDE DEF free, rank
  <2>1. QED
    BY <1>3, <1>4, InductionOnRank
<1>6. QED
  BY <1>1, <1>5

(* More elements weigh no less. *)
LEMMA SumGrows ==
    ASSUME NEW D, IsFiniteSet(D), NEW weight \in [D -> Nat], NEW sum, SumsUp(weight, D, sum),
           NEW s \in SUBSET D, NEW t \in SUBSET D, s \subseteq t
    PROVE  sum[s] <= sum[t]
<1> DEFINE above == {u \in SUBSET D : s \subseteq u => sum[s] <= sum[u]}
           rank == [u \in SUBSET D |-> Cardinality(u)]
<1>1. \A u \in SUBSET D : sum[u] \in Nat
  BY DEF SumsUp
<1>2. ASSUME NEW u \in SUBSET D, \A v \in SUBSET D : rank[v] < rank[u] => v \in above
      PROVE  u \in above
  <2>1. SUFFICES ASSUME s \subseteq u PROVE sum[s] <= sum[u]
    OBVIOUS
  <2>2. CASE s = u
    BY <1>1, <2>2
  <2>3. CASE s # u
    <3>1. PICK x \in u : x \notin s
      BY <2>1, <2>3
    <3>2. u \ {x} \in SUBSET D /\ s \subseteq u \ {x}
      BY <2>1, <3>1
    <3>3. rank[u \ {x}] < rank[u]
      <4>1. IsFiniteSet(u)
        BY FS_Subset
      <4>2. Cardinality(u \ {x}) = Cardinality(u) - 1 /\ Cardinality(u) \in Nat
        BY <4>1, FS_RemoveElement, FS_CardinalityType
      <4>3. QED
        BY <3>2, <4>2
    <3>4. sum[s] <= sum[u \ {x}]
      BY <1>2, <3>2, <3>3
    <3>5. sum[u] = weight[x] + sum[u \ {x}]
      BY SumByOne
    <3>6. weight[x] \in Nat /\ sum[u \ {x}] \in Nat /\ sum[s] \in Nat
      BY <1>1, <3>2
    <3>7. QED
      BY <3>4, <3>5, <3>6
  <2>4. QED
    BY <2>2, <2>3
<1>3. rank \in [SUBSET D -> Nat]
  BY FS_Subset, FS_CardinalityType
<1>4. SUBSET D \subseteq above
  <2> HIDE DEF above, rank
  <2>1. QED
    BY <1>2, <1>3, InductionOnRank
<1>5. QED
  BY <1>4

(* Sums within two sets agree on what is common to them. *)
LEMMA SumIsOne ==
    ASSUME NEW D, IsFiniteSet(D), NEW weight \in [D -> Nat], NEW sum, SumsUp(weight, D, sum),
           NEW E \in SUBSET D, NEW part, AddsUp(weight, E, part)
    PROVE  part[E] = sum[E]
<1> DEFINE same == {s \in SUBSET E : part[s] = sum[s]}
           rank == [s \in SUBSET E |-> Cardinality(s)]
<1>1. ASSUME NEW s \in SUBSET E, \A t \in SUBSET E : rank[t] < rank[s] => t \in same
      PROVE  s \in same
  <2>1. /\ part[s] = IF s = {} THEN 0 ELSE weight[Chosen(s)] + part[s \ {Chosen(s)}]
        /\ sum[s] = IF s = {} THEN 0 ELSE weight[Chosen(s)] + sum[s \ {Chosen(s)}]
    BY DEF SumsUp, AddsUp
  <2>2. CASE s # {}
    <3>1. Chosen(s) \in s /\ s \ {Chosen(s)} \in SUBSET E /\ IsFiniteSet(s)
      BY <2>2, FS_Subset DEF Chosen
    <3>2. Cardinality(s \ {Chosen(s)}) = Cardinality(s) - 1 /\ Cardinality(s) \in Nat
      BY <3>1, FS_RemoveElement, FS_CardinalityType
    <3>3. rank[s \ {Chosen(s)}] < rank[s]
      BY <3>1, <3>2
    <3>4. s \ {Chosen(s)} \in same
      BY <1>1, <3>1, <3>3
    <3>5. QED
      BY <2>1, <2>2, <3>4
  <2>3. QED
    BY <2>1, <2>2
<1>2. rank \in [SUBSET E -> Nat]
  BY FS_Subset, FS_CardinalityType
<1>3. SUBSET E \subseteq same
  <2> HIDE DEF same, rank
  <2>1. QED
    BY <1>1, <1>2, InductionOnRank
<1>4. QED
  BY <1>3

-----------------------------------------------------------------------------
(* FlattenSeq of the community modules joins a list of lists by recursion  *)
(* on their number.  What is needed of it: the empty list, and one list    *)
(* more.                                                                   *)
Joins(joined, lists) ==
    joined = [i \in 1..Len(lists) |-> IF i = 1 THEN lists[i] ELSE joined[i - 1] \o lists[i]]

LEMMA JoinedExists ==
    ASSUME NEW S, NEW lists \in Seq(Seq(S))
    PROVE  \E joined \in [1..Len(lists) -> Seq(S)] : Joins(joined, lists)
<1> DEFINE Joined(n) == {f \in [1..n -> Seq(S)] :
                           \A i \in 1..n : f[i] = IF i = 1 THEN lists[i] ELSE f[i - 1] \o lists[i]}
           Good == {n \in Nat : n <= Len(lists) => Joined(n) # {}}
<1>1. Len(lists) \in Nat /\ \A i \in 1..Len(lists) : lists[i] \in Seq(S)
  OBVIOUS
<1>2. 0 \in Good
  <2>1. [i \in 1..0 |-> <<>>] \in Joined(0)
    OBVIOUS
  <2>2. QED
    BY <2>1
<1>3. ASSUME NEW n \in Nat, n \in Good PROVE n + 1 \in Good
  <2>1. SUFFICES ASSUME n + 1 <= Len(lists) PROVE Joined(n + 1) # {}
    <3> HIDE DEF Joined
    <3>1. n + 1 \in Nat
      OBVIOUS
    <3>2. QED
      BY <3>1
  <2>2. PICK f \in Joined(n) : TRUE
    <3> HIDE DEF Joined
    <3>1. n <= Len(lists)
      BY <1>1, <2>1
    <3>2. QED
      BY <1>3, <3>1
  <2> DEFINE last == IF n + 1 = 1 THEN lists[n + 1] ELSE f[n] \o lists[n + 1]
             longer == [i \in 1..(n + 1) |-> IF i = n + 1 THEN last ELSE f[i]]
  <2>3. last \in Seq(S)
    <3>1. lists[n + 1] \in Seq(S)
      BY <1>1, <2>1
    <3>2. n # 0 => f[n] \in Seq(S)
      BY <2>2
    <3>3. QED
      BY <3>1, <3>2
  <2>4. longer \in [1..(n + 1) -> Seq(S)]
    <3> HIDE DEF last
    <3>1. \A i \in 1..(n + 1) : i # n + 1 => f[i] \in Seq(S)
      BY <2>2
    <3>2. QED
      BY <2>3, <3>1
  <2>5. ASSUME NEW i \in 1..(n + 1)
        PROVE  longer[i] = IF i = 1 THEN lists[i] ELSE longer[i - 1] \o lists[i]
    <3>1. /\ longer[i] = IF i = n + 1 THEN last ELSE f[i]
          /\ i # 1 => longer[i - 1] = f[i - 1]
      <4> HIDE DEF last
      <4>1. i # 1 => i - 1 \in 1..(n + 1) /\ i - 1 # n + 1
        OBVIOUS
      <4>2. QED
        BY <4>1
    <3>2. i # n + 1 => f[i] = IF i = 1 THEN lists[i] ELSE f[i - 1] \o lists[i]
      <4>1. i # n + 1 => i \in 1..n
        OBVIOUS
      <4>2. QED
        BY <2>2, <4>1
    <3> HIDE DEF longer
    <3>3. CASE i = n + 1
      <4>1. i - 1 = n /\ (n + 1 = 1) = (i = 1)
        BY <3>3
      <4>2. QED
        BY <3>1, <3>3, <4>1
    <3>4. QED
      BY <3>1, <3>2, <3>3
  <2> HIDE DEF longer
  <2>6. longer \in Joined(n + 1)
    BY <2>4, <2>5
  <2>7. QED
    BY <2>6
<1>4. Len(lists) \in Good
  <2> HIDE DEF Good
  <2>1. QED
    BY <1>1, <1>2, <1>3, NatSet
<1>5. PICK f \in Joined(Len(lists)) : TRUE
  BY <1>1, <1>4
<1>6. f \in [1..Len(lists) -> Seq(S)]
      /\ \A i \in 1..Len(lists) : f[i] = IF i = 1 THEN lists[i] ELSE f[i - 1] \o lists[i]
  BY <1>5
<1>7. Joins(f, lists)
  BY <1>6, Zenon DEF Joins
<1>8. QED
  BY <1>6, <1>7

LEMMA JoinTurn ==
    ASSUME NEW a, NEW s, Joins(a, s), NEW i \in 1..Len(s)
    PROVE  a[i] = IF i = 1 THEN s[i] ELSE a[i - 1] \o s[i]
BY Zenon DEF Joins

(* Lists that begin alike are joined alike.                                *)
LEMMA JoinsAlike ==
    ASSUME NEW a, NEW b, NEW s, NEW t, Joins(a, s), Joins(b, t), Len(s) \in Nat, Len(t) \in Nat,
           NEW m \in Nat, m <= Len(s), m <= Len(t), \A i \in 1..m : s[i] = t[i]
    PROVE  \A i \in 1..m : a[i] = b[i]
<1> DEFINE Good == {n \in Nat : n \in 1..m => a[n] = b[n]}
<1>1. 0 \in Good
  OBVIOUS
<1>2. ASSUME NEW n \in Nat, n \in Good PROVE n + 1 \in Good
  <2>1. SUFFICES ASSUME n + 1 \in 1..m PROVE a[n + 1] = b[n + 1]
    OBVIOUS
  <2>2. n + 1 \in 1..Len(s) /\ n + 1 \in 1..Len(t) /\ s[n + 1] = t[n + 1]
    BY <2>1
  <2>3. /\ a[n + 1] = IF n + 1 = 1 THEN s[n + 1] ELSE a[n + 1 - 1] \o s[n + 1]
        /\ b[n + 1] = IF n + 1 = 1 THEN t[n + 1] ELSE b[n + 1 - 1] \o t[n + 1]
    BY <2>2, JoinTurn
  <2>4. n + 1 # 1 => a[n] = b[n]
    BY <1>2, <2>1
  <2>5. n + 1 - 1 = n
    OBVIOUS
  <2>6. QED
    BY <2>2, <2>3, <2>4, <2>5, Zenon
<1>3. Nat \subseteq Good
  <2> HIDE DEF Good
  <2>1. QED
    BY <1>1, <1>2, NatSet
<1>4. QED
  BY <1>3

LEMMA LastJoined ==
    ASSUME NEW a, NEW s, Joins(a, s), NEW n \in Nat, Len(s) = n + 1
    PROVE  a[n + 1] = IF n = 0 THEN s[n + 1] ELSE a[n] \o s[n + 1]
<1>1. n + 1 \in 1..Len(s) /\ n + 1 - 1 = n /\ (n + 1 = 1) = (n = 0)
  OBVIOUS
<1>2. a[n + 1] = IF n + 1 = 1 THEN s[n + 1] ELSE a[n + 1 - 1] \o s[n + 1]
  BY <1>1, JoinTurn
<1>3. QED
  BY <1>1, <1>2, Zenon

LEMMA JoinedFront ==
    ASSUME NEW a, NEW b, NEW s, NEW t, Joins(a, s), Joins(b, t),
           Len(s) \in Nat, Len(s) # 0, Len(t) = Len(s) + 1, \A i \in 1..Len(s) : s[i] = t[i]
    PROVE  a[Len(s)] = b[Len(s)]
<1>1. Len(s) <= Len(s) /\ Len(s) <= Len(t) /\ Len(t) \in Nat /\ Len(s) \in 1..Len(s)
  OBVIOUS
<1>2. \A i \in 1..Len(s) : a[i] = b[i]
  BY <1>1, JoinsAlike
<1>3. QED
  BY <1>1, <1>2

LEMMA Flattened ==
    ASSUME NEW S, NEW lists \in Seq(Seq(S)), Len(lists) # 0
    PROVE  \E joined \in [1..Len(lists) -> Seq(S)] :
               Joins(joined, lists) /\ FlattenSeq(lists) = joined[Len(lists)]
<1> DEFINE n == Len(lists)
           chosen == CHOOSE f : f = [i \in 1..Len(lists) |->
                         IF i = 1 THEN lists[i] ELSE f[i - 1] \o lists[i]]
<1>1. PICK f \in [1..n -> Seq(S)] : Joins(f, lists)
  BY JoinedExists
<1>2. Joins(chosen, lists)
  BY <1>1, Zenon DEF Joins
<1>3. FlattenSeq(lists) = chosen[n]
  BY Zenon DEF FlattenSeq
<1> HIDE DEF chosen
<1>4. n \in Nat /\ n \in 1..n
  OBVIOUS
<1>5. \A i \in 1..n : f[i] = chosen[i]
  BY <1>1, <1>2, <1>4, JoinsAlike
<1>6. QED
  BY <1>1, <1>3, <1>4, <1>5

LEMMA FlattenEmpty == FlattenSeq(<<>>) = <<>>
BY DEF FlattenSeq

LEMMA FlattenIsSeq ==
    ASSUME NEW S, NEW lists \in Seq(Seq(S))
    PROVE  FlattenSeq(lists) \in Seq(S)
<1>1. CASE Len(lists) = 0
  <2>1. lists = <<>>
    BY <1>1
  <2>2. FlattenSeq(lists) = <<>>
    BY <2>1, FlattenEmpty, Zenon
  <2>3. QED
    BY <2>2
<1>2. CASE Len(lists) # 0
  <2>1. PICK joined \in [1..Len(lists) -> Seq(S)] : FlattenSeq(lists) = joined[Len(lists)]
    BY <1>2, Flattened
  <2>2. Len(lists) \in 1..Len(lists)
    BY <1>2
  <2>3. QED
    BY <2>1, <2>2
<1>3. QED
  BY <1>1, <1>2

LEMMA FlattenOneMore ==
    ASSUME NEW S, NEW lists \in Seq(Seq(S)), NEW last \in Seq(S)
    PROVE  FlattenSeq(Append(lists, last)) = FlattenSeq(lists) \o last
<1> DEFINE n == Len(lists)
           more == Append(lists, last)
<1>1. /\ more \in Seq(Seq(S)) /\ Len(more) = n + 1 /\ n \in Nat /\ n + 1 # 0
      /\ more[n + 1] = last /\ \A i \in 1..n : lists[i] = more[i]
  OBVIOUS
<1> HIDE DEF more
<1>2. PICK b : Joins(b, more) /\ FlattenSeq(more) = b[n + 1]
  <2>1. \E b : Joins(b, more) /\ FlattenSeq(more) = b[Len(more)]
    BY <1>1, Flattened
  <2>2. QED
    BY <1>1, <2>1
<1>3. b[n + 1] = IF n = 0 THEN last ELSE b[n] \o last
  <2>1. Joins(b, more) /\ n \in Nat /\ Len(more) = n + 1
    BY <1>1, <1>2
  <2>2. b[n + 1] = IF n = 0 THEN more[n + 1] ELSE b[n] \o more[n + 1]
    BY <2>1, LastJoined, Zenon
  <2>3. QED
    BY <1>1, <2>2, Zenon
<1>4. CASE n = 0
  <2>1. FlattenSeq(lists) = <<>>
    <3>1. lists = <<>>
      BY <1>4
    <3>2. QED
      BY <3>1, FlattenEmpty
  <2>2. <<>> \o last = last
    BY ConcatEmptySeq
  <2>3. QED
    BY <1>2, <1>3, <1>4, <2>1, <2>2 DEF more
<1>5. CASE n # 0
  <2>1. PICK a : Joins(a, lists) /\ FlattenSeq(lists) = a[n]
    BY <1>5, Flattened
  <2>2. Joins(a, lists) /\ Joins(b, more)
    BY <1>2, <2>1
  <2>3. a[n] = b[n]
    <3>1. Len(lists) \in Nat /\ Len(lists) # 0 /\ Len(more) = Len(lists) + 1
      BY <1>1, <1>5
    <3>2. \A i \in 1..Len(lists) : lists[i] = more[i]
      BY <1>1
    <3>3. QED
      BY <2>2, <3>1, <3>2, JoinedFront
  <2>4. QED
    BY <1>2, <1>3, <1>5, <2>1, <2>3, Zenon DEF more
<1>6. QED
  BY <1>4, <1>5

(* Nothing is joined to nothing.                                           *)
LEMMA FlattenNothing ==
    ASSUME NEW lists, Len(lists) \in Nat, lists = [i \in 1..Len(lists) |-> <<>>]
    PROVE  FlattenSeq(lists) = <<>>
<1>1. lists \in Seq(Seq({}))
  <2>1. <<>> \in Seq({})
    OBVIOUS
  <2> DEFINE n == Len(lists)
  <2>2. [i \in 1..n |-> <<>>] \in Seq(Seq({}))
    <3>1. n \in Nat /\ \A i \in 1..n : <<>> \in Seq({})
      OBVIOUS
    <3> HIDE DEF n
    <3>2. QED
      BY <3>1, IsASeq
  <2>3. QED
    BY <2>2
<1>2. FlattenSeq(lists) \in Seq({})
  BY <1>1, FlattenIsSeq
<1>3. QED
  BY <1>2
=============================================================================
