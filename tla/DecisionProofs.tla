--------------------------- MODULE DecisionProofs ---------------------------
(***************************************************************************)
(* Theorems of Decision, for every catalog of capability definitions.      *)
(*                                                                         *)
(* The order of the definitions and the resolution of a claim are results  *)
(* of loops: what they compute is proved by induction on their turns.      *)
(***************************************************************************)
EXTENDS Decision, Induction, SequenceTheorems

-----------------------------------------------------------------------------
(* topological.                                                            *)

Graph(edges) == /\ IsFiniteSet(DOMAIN edges) /\ DOMAIN edges \subseteq Nat
                /\ edges \in [DOMAIN edges -> Seq(Nat)]

(* The loop's variable order after any number of turns. *)
Partial(o, edges) ==
    /\ o \in Seq(DOMAIN edges)
    /\ IsInjective(o)
    /\ \A i \in DOMAIN o : ToSet(edges[o[i]]) \subseteq {o[j] : j \in 1..(i - 1)}

(* An order without repetition has as many elements as its length says, so *)
(* it is complete exactly when it is as long as the graph is large.        *)
LEMMA PartialSize ==
    ASSUME NEW edges, Graph(edges), NEW o, Partial(o, edges)
    PROVE  /\ Len(o) <= Cardinality(DOMAIN edges)
           /\ Len(o) = Cardinality(DOMAIN edges) <=> ToSet(o) = DOMAIN edges
<1>1. o \in [1..Len(o) -> DOMAIN edges] /\ Len(o) \in Nat
  BY DEF Partial
<1>2. o \in Bijection(1..Len(o), ToSet(o))
  BY <1>1, Fun_IsBij DEF Partial, ToSet, IsInjective
<1>3. IsFiniteSet(1..Len(o)) /\ Cardinality(1..Len(o)) = Len(o)
  <2>1. \A n \in Nat : n \in Int /\ (IF 1 > n THEN 0 ELSE n - 1 + 1) = n
    OBVIOUS
  <2>2. \A n \in Int : IsFiniteSet(1..n) /\ Cardinality(1..n) = IF 1 > n THEN 0 ELSE n - 1 + 1
    BY FS_Interval
  <2>3. QED
    BY <1>1, <2>1, <2>2
<1>4. IsFiniteSet(ToSet(o)) /\ Cardinality(ToSet(o)) = Len(o)
  BY <1>2, <1>3, FS_Bijection DEF ExistsBijection
<1>5. ToSet(o) \in SUBSET DOMAIN edges
  BY <1>1 DEF ToSet
<1>6. QED
  BY <1>4, <1>5, FS_Subset DEF Graph

Ready(o, edges) == {id \in DOMAIN edges \ ToSet(o) : ToSet(edges[id]) \subseteq ToSet(o)}

(* A turn keeps every dependency in front. *)
LEMMA StepKeepsOrder ==
    ASSUME NEW edges, Graph(edges), NEW o, Partial(o, edges)
    PROVE  /\ Partial(TopologicalStep(o, edges), edges)
           /\ Len(TopologicalStep(o, edges)) =
                IF Ready(o, edges) = {} THEN Len(o) ELSE Len(o) + 1
<1> DEFINE id == Min(Ready(o, edges))
<1>1. o \in Seq(DOMAIN edges) /\ Len(o) \in Nat
  BY DEF Partial
<1>2. CASE Ready(o, edges) = {}
  BY <1>2, <1>1, SMTT(30) DEF TopologicalStep, Ready
<1>3. CASE Ready(o, edges) # {}
  <2>1. id \in Ready(o, edges)
    BY <1>3, MinIsLeast DEF Ready, Graph
  <2> HIDE DEF id
  <2>2. id \in DOMAIN edges /\ id \notin ToSet(o) /\ ToSet(edges[id]) \subseteq ToSet(o)
    BY <2>1 DEF Ready
  <2>3. TopologicalStep(o, edges) = Append(o, id)
    BY <1>3 DEF TopologicalStep, Ready, id
  <2> DEFINE longer == Append(o, id)
  <2>4. /\ longer \in Seq(DOMAIN edges) /\ Len(longer) = Len(o) + 1
        /\ DOMAIN longer = 1..(Len(o) + 1) /\ DOMAIN o = 1..Len(o)
        /\ \A i \in 1..Len(o) : longer[i] = o[i]
        /\ longer[Len(o) + 1] = id
    BY <1>1, <2>2
  <2> HIDE DEF longer
  <2>5. ToSet(o) = {longer[j] : j \in 1..Len(o)}
    BY <2>4 DEF ToSet
  <2>6. IsInjective(longer)
    <3>1. SUFFICES ASSUME NEW i \in DOMAIN longer, NEW j \in DOMAIN longer, longer[i] = longer[j]
                   PROVE  i = j
      BY DEF IsInjective
    <3>2. CASE i \in 1..Len(o) /\ j \in 1..Len(o)
      BY <3>1, <3>2, <2>4 DEF Partial, IsInjective
    <3>3. CASE i = Len(o) + 1 /\ j = Len(o) + 1
      BY <3>3
    <3>4. CASE i \in 1..Len(o) /\ j = Len(o) + 1
      BY <3>1, <3>4, <2>2, <2>4, <2>5
    <3>5. CASE i = Len(o) + 1 /\ j \in 1..Len(o)
      BY <3>1, <3>5, <2>2, <2>4, <2>5
    <3>6. QED
      BY <1>1, <2>4, <3>1, <3>2, <3>3, <3>4, <3>5
  <2>7. ASSUME NEW i \in DOMAIN longer
        PROVE  ToSet(edges[longer[i]]) \subseteq {longer[j] : j \in 1..(i - 1)}
    <3>1. CASE i = Len(o) + 1
      BY <3>1, <1>1, <2>2, <2>4, <2>5
    <3>2. CASE i \in 1..Len(o)
      <4>1. ToSet(edges[o[i]]) \subseteq {o[j] : j \in 1..(i - 1)}
        BY <3>2, <2>4 DEF Partial
      <4>2. \A j \in 1..(i - 1) : j \in 1..Len(o)
        BY <3>2, <1>1
      <4>3. QED
        BY <3>2, <4>1, <4>2, <2>4
    <3>3. QED
      BY <1>1, <2>4, <2>7, <3>1, <3>2
  <2>8. Partial(longer, edges)
    BY <2>4, <2>6, <2>7 DEF Partial
  <2>9. TopologicalStep(o, edges) = longer
    BY <2>3 DEF longer
  <2>10. QED
    BY <1>3, <2>4, <2>8, <2>9
<1>4. QED
  BY <1>2, <1>3

(* The loop, turn by turn. *)
LEMMA OrderRuns ==
    ASSUME NEW edges, Graph(edges)
    PROVE  \E run : /\ run[0] = <<>>
                    /\ \A k \in 1..Cardinality(DOMAIN edges) :
                         run[k] = TopologicalStep(run[k - 1], edges)
                    /\ Order(edges) = run[Cardinality(DOMAIN edges)]
<1> DEFINE turns == Cardinality(DOMAIN edges)
           All == {o \in Seq(DOMAIN edges) : Partial(o, edges)}
           step == [o \in All |-> TopologicalStep(o, edges)]
           Body(run) == [turn \in 0..turns |->
                           IF turn = 0 THEN <<>> ELSE TopologicalStep(run[turn - 1], edges)]
           loop == CHOOSE run : run = Body(run)
<1>1. turns \in Nat
  BY FS_CardinalityType DEF Graph
<1>2. <<>> \in All
  BY DEF Partial, IsInjective
<1>3. step \in [All -> All]
  BY StepKeepsOrder DEF Partial
<1>4. PICK run \in [0..turns -> All] :
        run[0] = <<>> /\ \A k \in 1..turns : run[k] = step[run[k - 1]]
  <2> DEFINE start == <<>>
  <2>1. start \in All
    BY <1>2
  <2> HIDE DEF All, step, turns, start
  <2>2. Repeats(All, start, step, turns)
    BY <1>1, <2>1, <1>3, Iteration
  <2>3. QED
    BY <2>2 DEF Repeats, start
<1>5. run = Body(run)
  <2>1. ASSUME NEW turn \in 0..turns
        PROVE  run[turn] = IF turn = 0 THEN <<>> ELSE TopologicalStep(run[turn - 1], edges)
    <3>1. CASE turn = 0
      BY <3>1, <1>4
    <3>2. CASE turn # 0
      <4>1. turn \in 1..turns /\ turn - 1 \in 0..turns
        BY <3>2, <1>1
      <4>2. run[turn - 1] \in All
        BY <4>1, <1>4
      <4>3. QED
        BY <3>2, <4>1, <4>2, <1>4
    <3>3. QED
      BY <3>1, <3>2
  <2> HIDE DEF All, step, turns
  <2>2. QED
    BY <2>1, <1>4
<1>6. loop = Body(loop)
  BY <1>5
<1>7. Order(edges) = loop[turns]
  BY DEF Order
<1> HIDE DEF loop, turns
<1>8. loop[0] = <<>>
  BY <1>6, <1>1
<1>9. \A k \in 1..turns : loop[k] = TopologicalStep(loop[k - 1], edges)
  BY <1>6, <1>1
<1>10. QED
  BY <1>7, <1>8, <1>9 DEF turns

(* As long as nodes are left in a graph without a cycle, one of least rank *)
(* is ready.                                                               *)
LEMMA RankableProgress ==
    ASSUME NEW edges, Graph(edges), Declares(edges), Rankable(edges),
           NEW o, Partial(o, edges), ToSet(o) # DOMAIN edges
    PROVE  Ready(o, edges) # {}
<1> DEFINE left == DOMAIN edges \ ToSet(o)
<1>1. PICK rank \in [DOMAIN edges -> 1..Cardinality(DOMAIN edges)] :
        \A id \in DOMAIN edges : \A dep \in ToSet(edges[id]) : rank[dep] < rank[id]
  BY DEF Rankable
<1>2. left # {}
  <2>1. \A i \in DOMAIN o : o[i] \in DOMAIN edges
    BY DEF Partial
  <2>2. ToSet(o) \subseteq DOMAIN edges
    BY <2>1 DEF ToSet
  <2>3. QED
    BY <2>2
<1> DEFINE ranks == {rank[id] : id \in left}
<1>3. ranks \in SUBSET Nat /\ ranks # {}
  BY <1>1, <1>2
<1>4. PICK m \in ranks : \A k \in ranks : m <= k
  <2> HIDE DEF ranks
  <2>1. QED
    BY <1>3, LeastElement
<1>5. PICK id \in left : m = rank[id]
  BY <1>4
<1>6. ASSUME NEW dep \in ToSet(edges[id]) PROVE dep \in ToSet(o)
  <2>1. dep \in DOMAIN edges
    BY <1>5, <1>6 DEF Declares
  <2>2. rank[dep] < rank[id] /\ rank[dep] \in Nat /\ rank[id] \in Nat
    BY <1>1, <1>5, <1>6, <2>1
  <2>3. dep \in left => rank[id] <= rank[dep]
    BY <1>4, <1>5
  <2>4. QED
    BY <2>1, <2>2, <2>3
<1>7. QED
  BY <1>5, <1>6 DEF Ready

(* What the loop computes: an order in which every dependency is in front, *)
(* of all nodes if they can be ranked.                                     *)
LEMMA OrderIsExact ==
    ASSUME NEW edges, Graph(edges)
    PROVE  /\ Partial(Order(edges), edges)
           /\ Declares(edges) /\ Rankable(edges) =>
                Len(Order(edges)) = Cardinality(DOMAIN edges)
<1> DEFINE turns == Cardinality(DOMAIN edges)
           Whole == Declares(edges) /\ Rankable(edges)
<1>1. turns \in Nat
  BY FS_CardinalityType DEF Graph
<1>2. PICK run : /\ run[0] = <<>>
                 /\ \A k \in 1..turns : run[k] = TopologicalStep(run[k - 1], edges)
                 /\ Order(edges) = run[turns]
  BY OrderRuns
<1> HIDE DEF turns, Whole
<1> DEFINE Good == {k \in Nat : k <= turns => /\ Partial(run[k], edges)
                                              /\ Whole => Len(run[k]) = k}
<1>3. 0 \in Good
  <2>1. Partial(<<>>, edges)
    BY DEF Partial, IsInjective
  <2>2. run[0] = <<>> /\ Len(<<>>) = 0
    BY <1>2
  <2>3. Partial(run[0], edges) /\ Len(run[0]) = 0
    BY <2>1, <2>2
  <2>4. QED
    BY <2>3
<1>4. ASSUME NEW k \in Nat, k \in Good PROVE k + 1 \in Good
  <2>1. SUFFICES ASSUME k + 1 <= turns
                 PROVE  /\ Partial(run[k + 1], edges)
                        /\ Whole => Len(run[k + 1]) = k + 1
    OBVIOUS
  <2>2. Partial(run[k], edges) /\ (Whole => Len(run[k]) = k)
    BY <1>1, <1>4, <2>1
  <2>3. run[k + 1] = TopologicalStep(run[k], edges)
    <3>1. k + 1 \in 1..turns /\ k + 1 - 1 = k
      BY <1>1, <2>1
    <3>2. QED
      BY <1>2, <3>1
  <2>4. /\ Partial(run[k + 1], edges)
        /\ Len(run[k + 1]) = IF Ready(run[k], edges) = {} THEN Len(run[k]) ELSE Len(run[k]) + 1
    BY <2>2, <2>3, StepKeepsOrder
  <2>5. ASSUME Whole PROVE Len(run[k + 1]) = k + 1
    <3>1. Len(run[k]) # turns
      BY <1>1, <2>1, <2>2, <2>5
    <3>2. ToSet(run[k]) # DOMAIN edges
      BY <2>2, <3>1, PartialSize DEF turns
    <3>3. Ready(run[k], edges) # {}
      BY <2>2, <2>5, <3>2, RankableProgress DEF Whole
    <3>4. QED
      BY <2>2, <2>4, <2>5, <3>3
  <2>6. QED
    BY <2>4, <2>5
<1>5. turns \in Good
  <2> HIDE DEF Good
  <2>1. QED
    BY <1>1, <1>3, <1>4, NatSet
<1>6. QED
  BY <1>1, <1>2, <1>5 DEF turns, Whole

(* topological accepts exactly the graphs that can be ordered, and orders  *)
(* them.                                                                   *)
LEMMA TopologicalIsExact ==
    ASSUME NEW edges, Graph(edges)
    PROVE  /\ Topological(edges).err <=> ~(Declares(edges) /\ Rankable(edges))
           /\ ~Topological(edges).err =>
                /\ Partial(Topological(edges).order, edges)
                /\ ToSet(Topological(edges).order) = DOMAIN edges
<1> DEFINE o == Order(edges)
<1>1. Partial(o, edges)
  BY OrderIsExact
<1>2. Declares(edges) /\ Rankable(edges) => Len(o) = Cardinality(DOMAIN edges)
  BY OrderIsExact
<1>3. Len(o) = Cardinality(DOMAIN edges) <=> ToSet(o) = DOMAIN edges
  BY <1>1, PartialSize
<1> HIDE DEF o
<1>4. ASSUME ToSet(o) = DOMAIN edges PROVE Rankable(edges)
  <2> DEFINE at(id) == CHOOSE i \in DOMAIN o : o[i] = id
             rank == [id \in DOMAIN edges |-> at(id)]
  <2>1. o \in Seq(DOMAIN edges) /\ DOMAIN o = 1..Len(o) /\ Len(o) = Cardinality(DOMAIN edges)
    BY <1>1, <1>3, <1>4 DEF Partial
  <2>2. ASSUME NEW id \in DOMAIN edges PROVE at(id) \in DOMAIN o /\ o[at(id)] = id
    BY <1>4, <2>2 DEF ToSet
  <2> HIDE DEF at
  <2>3. rank \in [DOMAIN edges -> 1..Cardinality(DOMAIN edges)]
    BY <2>1, <2>2
  <2>4. ASSUME NEW id \in DOMAIN edges, NEW dep \in ToSet(edges[id])
        PROVE  rank[dep] < rank[id]
    <3>1. ToSet(edges[o[at(id)]]) \subseteq {o[j] : j \in 1..(at(id) - 1)}
      BY <1>1, <2>2 DEF Partial
    <3>2. PICK j \in 1..(at(id) - 1) : dep = o[j]
      BY <2>2, <2>4, <3>1
    <3>3. at(id) \in 1..Len(o) /\ Len(o) \in Nat
      BY <2>1, <2>2
    <3>4. j \in DOMAIN o /\ j < at(id)
      BY <2>1, <3>2, <3>3
    <3>5. dep \in DOMAIN edges
      BY <2>1, <3>2, <3>4
    <3>6. at(dep) = j
      BY <1>1, <2>2, <3>2, <3>4, <3>5 DEF Partial, IsInjective
    <3>7. QED
      BY <3>4, <3>5, <3>6
  <2>5. QED
    BY <2>3, <2>4 DEF Rankable
<1>5. QED
  BY <1>1, <1>2, <1>3, <1>4 DEF Topological, o

-----------------------------------------------------------------------------
(* Resolve.                                                                *)

ResolutionType ==
    [state : StatesOf, confidence : Unknown..Verified,
     evidence : Seq(Nat), superseded : Seq(Nat)]

LEMMA MinIs ==
    ASSUME NEW S \in SUBSET Nat, NEW m \in S, \A k \in S : m <= k
    PROVE  Min(S) = m
<1>1. /\ Min(S) \in S
      /\ \A y \in S : Min(S) <= y
  BY DEF Min
<1>2. Min(S) \in Nat /\ m \in Nat
  BY <1>1
<1>3. Min(S) <= m /\ m <= Min(S)
  BY <1>1
<1>4. QED
  BY <1>2, <1>3

LEMMA MinOfTwo ==
    ASSUME NEW a \in Nat, NEW b \in Nat
    PROVE  Min({a, b}) = IF a <= b THEN a ELSE b
<1>1. CASE a <= b
  BY <1>1, MinIs
<1>2. CASE b < a
  <2>1. b \in {a, b} /\ \A k \in {a, b} : b <= k
    BY <1>2
  <2>2. Min({a, b}) = b
    BY <2>1, MinIs
  <2>3. QED
    BY <1>2, <2>2
<1>3. QED
  BY <1>1, <1>2

LEMMA ConfidenceType ==
    ASSUME NEW ev \in EvidenceType
    PROVE  Confidence(ev) \in Unknown..Verified
<1> DEFINE ceiling == CASE ev.precedence \in {1, 2} -> Verified
                        [] ev.precedence = 3 -> Derived
                        [] OTHER -> HeuristicLevel
<1>1. ceiling \in Unknown..Verified
  <2>1. CASE ev.precedence \in {1, 2}
    BY <2>1 DEF Verified, Unknown
  <2>2. CASE ev.precedence = 3
    BY <2>2 DEF Verified, Unknown, Derived
  <2>3. CASE ev.precedence \notin {1, 2, 3}
    BY <2>3 DEF Verified, Unknown, HeuristicLevel
  <2>4. QED
    BY <2>1, <2>2, <2>3
<1>2. ev.confidence \in Unknown..Verified
  BY DEF EvidenceType
<1>3. Confidence(ev) = Min({ev.confidence, ceiling})
  BY DEF Confidence
<1> HIDE DEF ceiling
<1>4. \A x, y \in Unknown..Verified : x \in Nat /\ y \in Nat
  BY DEF Unknown, Verified
<1>5. QED
  BY <1>1, <1>2, <1>3, <1>4, MinOfTwo

LEMMA SetOfAppend ==
    ASSUME NEW S, NEW q \in Seq(S), NEW x \in S
    PROVE  /\ Append(q, x) \in Seq(S)
           /\ ToSet(Append(q, x)) = ToSet(q) \cup {x}
           /\ ToSet(q) = {} <=> q = <<>>
<1>1. /\ Append(q, x) \in Seq(S) /\ Len(q) \in Nat
      /\ DOMAIN Append(q, x) = 1..(Len(q) + 1) /\ DOMAIN q = 1..Len(q)
      /\ \A i \in 1..Len(q) : Append(q, x)[i] = q[i]
      /\ Append(q, x)[Len(q) + 1] = x
  OBVIOUS
<1>2. ToSet(Append(q, x)) = ToSet(q) \cup {x}
  <2>1. ASSUME NEW y \in ToSet(Append(q, x)) PROVE y \in ToSet(q) \cup {x}
    <3>1. PICK i \in 1..(Len(q) + 1) : y = Append(q, x)[i]
      BY <1>1, <2>1 DEF ToSet
    <3>2. i \in 1..Len(q) \/ i = Len(q) + 1
      BY <1>1
    <3>3. QED
      BY <1>1, <3>1, <3>2 DEF ToSet
  <2>2. ASSUME NEW y \in ToSet(q) PROVE y \in ToSet(Append(q, x))
    <3>1. PICK i \in 1..Len(q) : y = q[i]
      BY <1>1, <2>2 DEF ToSet
    <3>2. i \in 1..(Len(q) + 1) /\ y = Append(q, x)[i]
      BY <1>1, <3>1
    <3>3. QED
      BY <1>1, <3>2 DEF ToSet
  <2>3. x \in ToSet(Append(q, x))
    <3>1. Len(q) + 1 \in 1..(Len(q) + 1)
      BY <1>1
    <3>2. QED
      BY <1>1, <3>1 DEF ToSet
  <2>4. QED
    BY <2>1, <2>2, <2>3
<1>3. ToSet(q) = {} <=> q = <<>>
  <2>1. q # <<>> => q[1] \in ToSet(q)
    BY <1>1 DEF ToSet
  <2>2. ToSet(<<>>) = {}
    BY DEF ToSet
  <2>3. QED
    BY <2>1, <2>2
<1>4. QED
  BY <1>1, <1>2, <1>3

(* What r says of the evidence seen so far, with that of precedence best   *)
(* called strong.                                                          *)
Says(r, seen, strong) ==
    /\ r \in ResolutionType
    /\ ToSet(r.evidence) = {e.id : e \in strong}
    /\ ToSet(r.superseded) = {e.id : e \in seen \ strong}
    /\ strong = {} => r.state = "unknown"
    /\ \/ \A e \in strong : e.state = r.state
       \/ r.state = "unknown" /\ \E e, f \in strong : e.state # f.state
    /\ strong # {} => /\ \E e \in strong : r.confidence = Confidence(e)
                      /\ \A e \in strong : r.confidence <= Confidence(e)

Strong(seen, best) == {e \in seen : e.precedence = best}

LEMMA ConsiderSays ==
    ASSUME NEW r, NEW best, NEW seen \in SUBSET EvidenceType, NEW ev \in EvidenceType,
           ev \notin seen, Says(r, seen, Strong(seen, best))
    PROVE  Says(Consider(r, ev, best), seen \cup {ev}, Strong(seen \cup {ev}, best))
<1> DEFINE strong == Strong(seen, best)
           later == Strong(seen \cup {ev}, best)
           q == Consider(r, ev, best)
<1>1. /\ ev.id \in Nat /\ ev.state \in StatesOf
      /\ Confidence(ev) \in Unknown..Verified
  BY ConfidenceType DEF EvidenceType
<1>2. /\ r.state \in StatesOf /\ r.confidence \in Unknown..Verified
      /\ r.evidence \in Seq(Nat) /\ r.superseded \in Seq(Nat)
      /\ r = [state |-> r.state, confidence |-> r.confidence,
              evidence |-> r.evidence, superseded |-> r.superseded]
  BY DEF Says, ResolutionType
<1>3. /\ Append(r.evidence, ev.id) \in Seq(Nat)
      /\ ToSet(Append(r.evidence, ev.id)) = ToSet(r.evidence) \cup {ev.id}
      /\ ToSet(r.evidence) = {} <=> r.evidence = <<>>
      /\ Append(r.superseded, ev.id) \in Seq(Nat)
      /\ ToSet(Append(r.superseded, ev.id)) = ToSet(r.superseded) \cup {ev.id}
  <2>1. \A refs \in Seq(Nat), x \in Nat :
          /\ Append(refs, x) \in Seq(Nat)
          /\ ToSet(Append(refs, x)) = ToSet(refs) \cup {x}
          /\ ToSet(refs) = {} <=> refs = <<>>
    BY SetOfAppend
  <2>2. QED
    BY <1>1, <1>2, <2>1
<1>4. r.evidence = <<>> <=> strong = {}
  <2>1. ToSet(r.evidence) = {e.id : e \in strong}
    BY DEF Says
  <2> HIDE DEF strong
  <2>2. {e.id : e \in strong} = {} <=> strong = {}
    OBVIOUS
  <2>3. QED
    BY <1>3, <2>1, <2>2
<1>5. strong \in SUBSET EvidenceType
  BY DEF Strong
<1>6. \A x \in Unknown..Verified : x \in Nat
  BY DEF Unknown, Verified
<1>7. CASE ev.precedence # best
  <2>1. later = strong /\ (seen \cup {ev}) \ later = (seen \ strong) \cup {ev}
    BY <1>7 DEF Strong
  <2>2. /\ q = [state |-> r.state, confidence |-> r.confidence, evidence |-> r.evidence,
                superseded |-> Append(r.superseded, ev.id)]
    BY <1>2, <1>7 DEF Consider
  <2>3. q \in ResolutionType
    BY <1>2, <1>3, <2>2 DEF ResolutionType
  <2>4. ToSet(q.superseded) = {e.id : e \in (seen \cup {ev}) \ later}
    <3>1. ToSet(r.superseded) = {e.id : e \in seen \ strong}
      BY DEF Says
    <3>2. ToSet(q.superseded) = ToSet(r.superseded) \cup {ev.id}
      BY <1>3, <2>2
    <3> HIDE DEF q, later, strong
    <3>3. {e.id : e \in (seen \ strong) \cup {ev}} = {e.id : e \in seen \ strong} \cup {ev.id}
      OBVIOUS
    <3>4. QED
      BY <2>1, <3>1, <3>2, <3>3
  <2>5. /\ q.state = r.state /\ q.confidence = r.confidence /\ q.evidence = r.evidence
    BY <2>2
  <2> HIDE DEF q, later, strong
  <2>6. Says(r, seen, strong)
    BY DEF strong
  <2>7. QED
    BY <2>1, <2>3, <2>4, <2>5, <2>6 DEF Says, q, later
<1>8. CASE ev.precedence = best /\ r.evidence = <<>>
  <2>1. strong = {} /\ later = {ev} /\ (seen \cup {ev}) \ later = seen \ strong
    BY <1>4, <1>8 DEF Strong
  <2>2. q = [state |-> ev.state, confidence |-> Confidence(ev), evidence |-> <<ev.id>>,
             superseded |-> r.superseded]
    BY <1>2, <1>8 DEF Consider
  <2>3. q \in ResolutionType
    BY <1>1, <1>2, <2>2 DEF ResolutionType
  <2>4. ToSet(q.evidence) = {ev.id}
    <3>1. ToSet(<<ev.id>>) = {ev.id}
      BY DEF ToSet
    <3>2. QED
      BY <2>2, <3>1
  <2>5. q.state = ev.state /\ q.confidence = Confidence(ev) /\ q.superseded = r.superseded
    BY <2>2
  <2>6. Confidence(ev) <= Confidence(ev)
    BY <1>1, <1>6
  <2>7. ToSet(r.superseded) = {e.id : e \in seen \ strong}
    BY DEF Says
  <2> HIDE DEF q, later, strong
  <2>8. QED
    BY <2>1, <2>3, <2>4, <2>5, <2>6, <2>7 DEF Says, q, later
<1>9. CASE ev.precedence = best /\ r.evidence # <<>>
  <2> DEFINE state == IF ev.state = r.state THEN r.state ELSE "unknown"
             confidence == Min({r.confidence, Confidence(ev)})
  <2>1. strong # {} /\ later = strong \cup {ev} /\ (seen \cup {ev}) \ later = seen \ strong
    BY <1>4, <1>9 DEF Strong
  <2>2. q = [state |-> state, confidence |-> confidence,
             evidence |-> Append(r.evidence, ev.id), superseded |-> r.superseded]
    BY <1>2, <1>9 DEF Consider
  <2>3. confidence = IF r.confidence <= Confidence(ev) THEN r.confidence ELSE Confidence(ev)
    BY <1>1, <1>2, <1>6, MinOfTwo
  <2>4. state \in StatesOf
    BY <1>2 DEF StatesOf
  <2>5. confidence \in Unknown..Verified
    BY <1>1, <1>2, <2>3
  <2> HIDE DEF state, confidence
  <2>6. q \in ResolutionType
    BY <1>2, <1>3, <2>2, <2>4, <2>5 DEF ResolutionType
  <2>7. /\ q.state = state /\ q.confidence = confidence /\ q.superseded = r.superseded
        /\ q.evidence = Append(r.evidence, ev.id)
    BY <2>2
  <2>8. Says(r, seen, strong)
    OBVIOUS
  <2> HIDE DEF q, later, strong
  <2>9. ToSet(q.evidence) = {e.id : e \in later}
    <3>1. ToSet(r.evidence) = {e.id : e \in strong}
      BY <2>8 DEF Says
    <3>2. ToSet(q.evidence) = ToSet(r.evidence) \cup {ev.id}
      BY <1>3, <2>7
    <3>3. {e.id : e \in strong \cup {ev}} = {e.id : e \in strong} \cup {ev.id}
      OBVIOUS
    <3>4. QED
      BY <2>1, <3>1, <3>2, <3>3
  <2>10. \/ \A e \in later : e.state = state
         \/ state = "unknown" /\ \E e, f \in later : e.state # f.state
    <3>1. CASE \A e \in strong : e.state = r.state
      <4>1. CASE ev.state = r.state
        BY <2>1, <3>1, <4>1 DEF state
      <4>2. CASE ev.state # r.state
        <5>1. PICK e \in strong : TRUE
          BY <2>1
        <5>2. e.state # ev.state /\ e \in later /\ ev \in later
          BY <2>1, <3>1, <4>2, <5>1
        <5>3. QED
          BY <4>2, <5>2 DEF state
      <4>3. QED
        BY <4>1, <4>2
    <3>2. CASE r.state = "unknown" /\ \E e, f \in strong : e.state # f.state
      BY <2>1, <3>2 DEF state
    <3>3. QED
      BY <2>8, <3>1, <3>2 DEF Says
  <2>11. /\ \E e \in later : confidence = Confidence(e)
         /\ \A e \in later : confidence <= Confidence(e)
    <3>1. PICK e \in strong : r.confidence = Confidence(e)
      BY <2>1, <2>8 DEF Says
    <3>2. \A f \in strong : r.confidence <= Confidence(f) /\ Confidence(f) \in Nat
      BY <1>5, <1>6, <2>1, <2>8, ConfidenceType DEF Says
    <3>3. \E f \in later : confidence = Confidence(f)
      BY <2>1, <2>3, <3>1
    <3>4. \A f \in later : confidence <= Confidence(f)
      BY <1>1, <1>2, <1>6, <2>1, <2>3, <3>2
    <3>5. QED
      BY <3>3, <3>4
  <2>12. ToSet(q.superseded) = {e.id : e \in (seen \cup {ev}) \ later}
    BY <2>1, <2>7, <2>8 DEF Says
  <2>13. later # {}
    BY <2>1
  <2>14. QED
    BY <2>6, <2>7, <2>9, <2>10, <2>11, <2>12, <2>13 DEF Says, q, later
<1>10. QED
  BY <1>7, <1>8, <1>9

(* A turn takes one of the evidence that is left. *)
LEMMA TurnTakesOne ==
    ASSUME NEW s, NEW best, s.left \in SUBSET EvidenceType, s.left # {}
    PROVE  \E ev \in s.left :
             Turn(s, best) = [left |-> s.left \ {ev}, r |-> Consider(s.r, ev, best)]
<1> DEFINE ids == {e.id : e \in s.left}
           ev == CHOOSE e \in s.left : \A other \in s.left : e.id <= other.id
<1>1. ids \in SUBSET Nat /\ ids # {}
  BY DEF EvidenceType
<1>2. PICK m \in ids : \A k \in ids : m <= k
  <2> HIDE DEF ids
  <2>1. QED
    BY <1>1, LeastElement
<1>3. \E e \in s.left : \A other \in s.left : e.id <= other.id
  BY <1>2
<1>4. ev \in s.left
  BY <1>3
<1>5. Turn(s, best) = [left |-> s.left \ {ev}, r |-> Consider(s.r, ev, best)]
  BY DEF Turn
<1> HIDE DEF ev
<1>6. QED
  BY <1>4, <1>5

(* What Resolve returns rests on all usable evidence for the claim. *)
LEMMA ResolveSays ==
    ASSUME NEW id, NEW input \in Seq(EvidenceType), NEW selected, NEW best,
           selected = {ev \in ToSet(input) : ev.claim = id /\ Usable(ev)},
           best = Min({ev.precedence : ev \in selected} \cup {Heuristic + 1})
    PROVE  \E r : /\ Says(r, selected, Strong(selected, best))
                  /\ Resolve(id, input) = IF r.state = "unknown"
                                          THEN [r EXCEPT !.confidence = Unknown] ELSE r
<1> DEFINE turns == Cardinality(selected)
           start == [left |-> selected, r |-> NoResolution]
           Seen(s) == selected \ s.left
           All == {s \in [left : SUBSET selected, r : ResolutionType] :
                     Says(s.r, Seen(s), Strong(Seen(s), best))}
           step == [s \in All |-> IF s.left = {} THEN s ELSE Turn(s, best)]
           Body(run) == [turn \in 0..turns |->
                           IF turn = 0 THEN start ELSE Turn(run[turn - 1], best)]
           loop == CHOOSE run : run = Body(run)
<1>1. selected \in SUBSET EvidenceType /\ IsFiniteSet(selected) /\ turns \in Nat
  <2>1. input \in [1..Len(input) -> EvidenceType] /\ Len(input) \in Nat
    OBVIOUS
  <2>2. IsFiniteSet(1..Len(input))
    BY <2>1, FS_Interval
  <2>3. input \in Surjection(1..Len(input), ToSet(input))
    BY <2>1, Fun_IsSurj DEF ToSet
  <2>4. IsFiniteSet(ToSet(input)) /\ ToSet(input) \in SUBSET EvidenceType
    BY <2>1, <2>2, <2>3, FS_Surjection DEF ToSet
  <2>5. selected \in SUBSET ToSet(input)
    OBVIOUS
  <2>6. IsFiniteSet(selected)
    BY <2>4, <2>5, FS_Subset
  <2>7. QED
    BY <2>4, <2>5, <2>6, FS_CardinalityType
<1>2. start \in All
  <2>1. NoResolution \in ResolutionType
    BY DEF NoResolution, ResolutionType, StatesOf, Unknown, Verified
  <2>2. /\ ToSet(NoResolution.evidence) = {} /\ ToSet(NoResolution.superseded) = {}
        /\ NoResolution.state = "unknown"
    BY DEF NoResolution, ToSet
  <2>3. Seen(start) = {} /\ Strong(Seen(start), best) = {}
    BY DEF Strong
  <2>4. Says(NoResolution, {}, {})
    BY <2>1, <2>2 DEF Says
  <2>5. start \in [left : SUBSET selected, r : ResolutionType]
    BY <2>1
  <2>6. QED
    BY <2>3, <2>4, <2>5
<1>3. ASSUME NEW s \in All, s.left # {}
      PROVE  \E ev \in s.left : /\ Turn(s, best).left = s.left \ {ev}
                                /\ Turn(s, best) \in All
  <2>1. /\ s.left \in SUBSET EvidenceType
        /\ Says(s.r, Seen(s), Strong(Seen(s), best))
    BY <1>1, <1>3
  <2>2. PICK ev \in s.left :
          Turn(s, best) = [left |-> s.left \ {ev}, r |-> Consider(s.r, ev, best)]
    BY <2>1, <1>3, TurnTakesOne
  <2> DEFINE t == Turn(s, best)
  <2>3. t.left = s.left \ {ev} /\ t.r = Consider(s.r, ev, best)
    <3> HIDE DEF All
    <3>1. t = [left |-> s.left \ {ev}, r |-> Consider(s.r, ev, best)]
      BY <2>2
    <3> HIDE DEF t
    <3>2. QED
      BY <3>1
  <2>4. Seen(t) = Seen(s) \cup {ev} /\ ev \notin Seen(s) /\ Seen(s) \in SUBSET EvidenceType
    BY <1>1, <1>3, <2>2, <2>3
  <2>5. Says(t.r, Seen(t), Strong(Seen(t), best))
    <3> HIDE DEF t, Seen
    <3>1. ev \in EvidenceType
      BY <2>1
    <3>2. QED
      BY <2>1, <2>3, <2>4, <3>1, ConsiderSays
  <2>6. t.r \in ResolutionType
    BY <2>5 DEF Says
  <2>7. t \in [left : SUBSET selected, r : ResolutionType]
    BY <1>3, <2>2, <2>3, <2>6
  <2>8. QED
    BY <2>3, <2>5, <2>7
<1>4. step \in [All -> All]
  <2> HIDE DEF All
  <2>1. \A s \in All : s.left # {} => Turn(s, best) \in All
    BY <1>3
  <2>2. QED
    BY <2>1
<1>5. PICK run \in [0..turns -> All] :
        run[0] = start /\ \A k \in 1..turns : run[k] = step[run[k - 1]]
  <2> HIDE DEF All, step, turns, start
  <2>1. Repeats(All, start, step, turns)
    BY <1>1, <1>2, <1>4, Iteration
  <2>2. QED
    BY <2>1 DEF Repeats
<1>6. ASSUME NEW k \in 0..turns PROVE Cardinality(run[k].left) = turns - k
  <2> DEFINE Good == {i \in Nat : i <= turns => Cardinality(run[i].left) = turns - i}
  <2>1. 0 \in Good
    <3>1. start.left = selected
      OBVIOUS
    <3> HIDE DEF start, All, step
    <3>2. Cardinality(run[0].left) = turns - 0
      BY <1>1, <1>5, <3>1
    <3>3. QED
      BY <3>2
  <2>2. ASSUME NEW i \in Nat, i \in Good PROVE i + 1 \in Good
    <3>1. SUFFICES ASSUME i + 1 <= turns PROVE Cardinality(run[i + 1].left) = turns - (i + 1)
      OBVIOUS
    <3>2. /\ Cardinality(run[i].left) = turns - i /\ turns - i # 0
          /\ i \in 0..turns /\ i + 1 \in 1..turns /\ i + 1 - 1 = i
      BY <1>1, <2>2, <3>1
    <3>3. run[i] \in All /\ run[i + 1] = step[run[i]]
      <4> HIDE DEF All, step, start, turns
      <4>1. QED
        BY <1>5, <3>2
    <3>4. run[i].left \in SUBSET selected
      BY <3>3
    <3>5. IsFiniteSet(run[i].left)
      BY <1>1, <3>4, FS_Subset
    <3>6. run[i].left # {}
      BY <3>2, FS_EmptySet
    <3>7. run[i + 1] = Turn(run[i], best)
      BY <3>3, <3>6
    <3>8. PICK ev \in run[i].left : run[i + 1].left = run[i].left \ {ev}
      <4> HIDE DEF All, step, start, turns
      <4>1. run[i] \in All
        BY <3>3
      <4>2. \E ev \in run[i].left : /\ Turn(run[i], best).left = run[i].left \ {ev}
                                    /\ Turn(run[i], best) \in All
        BY <1>3, <4>1, <3>6
      <4>3. QED
        BY <3>7, <4>2
    <3>9. Cardinality(run[i].left \ {ev}) = Cardinality(run[i].left) - 1
      BY <3>5, <3>8, FS_RemoveElement
    <3>10. QED
      BY <1>1, <3>2, <3>8, <3>9
  <2>3. Nat \subseteq Good
    <3> HIDE DEF Good
    <3>1. QED
      BY <2>1, <2>2, NatSet
  <2>4. QED
    BY <1>1, <1>6, <2>3
<1>7. ASSUME NEW k \in 1..turns PROVE run[k] = Turn(run[k - 1], best)
  <2>1. k - 1 \in 0..turns /\ turns - (k - 1) # 0
    BY <1>1, <1>7
  <2>2. run[k - 1] \in All /\ run[k] = step[run[k - 1]]
    BY <1>5, <2>1
  <2>3. run[k - 1].left # {}
    BY <1>6, <2>1, FS_EmptySet
  <2>4. QED
    BY <2>2, <2>3
<1>8. run = Body(run)
  <2> HIDE DEF All, step, start, turns
  <2>1. \A k \in 0..turns : k = 0 \/ k \in 1..turns
    BY <1>1
  <2>2. \A k \in 0..turns : run[k] = IF k = 0 THEN start ELSE Turn(run[k - 1], best)
    BY <1>5, <1>7, <2>1
  <2>3. run = [k \in 0..turns |-> run[k]]
    BY <1>5
  <2>4. QED
    BY <2>2, <2>3
<1>9. loop = Body(loop)
  BY <1>8
<1>10. loop[turns] = run[turns]
  <2> HIDE DEF loop, All, step, start, turns
  <2> DEFINE Good == {i \in Nat : i <= turns => loop[i] = run[i]}
  <2>1. 0 \in Good
    BY <1>1, <1>5, <1>9
  <2>2. ASSUME NEW i \in Nat, i \in Good PROVE i + 1 \in Good
    <3>1. SUFFICES ASSUME i + 1 <= turns PROVE loop[i + 1] = run[i + 1]
      OBVIOUS
    <3>2. i <= turns /\ i + 1 \in 1..turns /\ i + 1 \in 0..turns /\ i + 1 - 1 = i /\ i + 1 # 0
      BY <1>1, <3>1
    <3>3. loop[i + 1] = Turn(loop[i], best)
      BY <1>9, <3>2
    <3>4. run[i + 1] = Turn(run[i], best)
      BY <1>7, <3>2
    <3>5. QED
      BY <2>2, <3>2, <3>3, <3>4
  <2>3. Nat \subseteq Good
    <3> HIDE DEF Good
    <3>1. QED
      BY <2>1, <2>2, NatSet
  <2>4. QED
    BY <1>1, <2>3
<1>11. Resolve(id, input) = IF loop[turns].r.state = "unknown"
                            THEN [loop[turns].r EXCEPT !.confidence = Unknown]
                            ELSE loop[turns].r
  BY DEF Resolve
<1>12. Says(run[turns].r, selected, Strong(selected, best))
  <2>1. turns \in 0..turns /\ turns - turns = 0
    BY <1>1
  <2>2. run[turns] \in All
    BY <1>5, <2>1
  <2>3. Cardinality(run[turns].left) = 0
    BY <1>6, <2>1
  <2>4. run[turns].left \in SUBSET selected
    BY <2>2
  <2>5. IsFiniteSet(run[turns].left)
    BY <1>1, <2>4, FS_Subset
  <2>6. run[turns].left = {}
    BY <2>3, <2>5, FS_EmptySet
  <2>7. QED
    BY <2>2, <2>6
<1> HIDE DEF loop, All, step, start, turns
<1>13. QED
  BY <1>10, <1>11, <1>12

LEMMA StatesAreFinite == \A states \in SUBSET StatesOf : IsFiniteSet(states)
<1>1. IsFiniteSet({"supported"}) /\ IsFiniteSet({"unsupported"}) /\ IsFiniteSet({"misconfigured"})
      /\ IsFiniteSet({"unavailable"}) /\ IsFiniteSet({"unknown"})
  BY FS_Singleton
<1>2. StatesOf = {"supported"} \cup {"unsupported"} \cup {"misconfigured"}
                   \cup {"unavailable"} \cup {"unknown"}
  BY DEF StatesOf
<1>3. IsFiniteSet(StatesOf)
  BY <1>1, <1>2, FS_Union
<1>4. QED
  BY <1>3, FS_Subset

(* Resolve is the consensus of the strongest evidence. *)
LEMMA ResolveFollows ==
    ASSUME NEW id, NEW input \in Seq(EvidenceType)
    PROVE  FollowsStrongest(Resolve(id, input), id, input)
<1> DEFINE selected == {ev \in ToSet(input) : ev.claim = id /\ Usable(ev)}
           precedences == {ev.precedence : ev \in selected} \cup {Heuristic + 1}
           least == Min(precedences)
           strong == Strong(selected, least)
           states == {ev.state : ev \in strong}
<1>1. selected \in SUBSET EvidenceType
  BY DEF ToSet
<1>2. selected = Selected(id, input)
  BY DEF Selected, Usable, Own
<1>3. strong = Best(id, input)
  <2>1. precedences \in SUBSET Nat /\ precedences # {}
    BY <1>1 DEF EvidenceType, Live, Heuristic
  <2>2. least \in precedences /\ \A k \in precedences : least <= k
    <3> HIDE DEF precedences
    <3>1. \E m \in precedences : \A k \in precedences : m <= k
      BY <2>1, LeastElement
    <3>2. QED
      BY <3>1 DEF Min
  <2> HIDE DEF least, selected
  <2>3. \A ev \in selected : /\ ev.precedence \in Nat /\ ev.precedence < Heuristic + 1
                              /\ ev.precedence \in precedences
    <3>1. \A ev \in EvidenceType : ev.precedence \in Nat /\ ev.precedence < Heuristic + 1
      BY DEF EvidenceType, Live, Heuristic
    <3>2. \A ev \in selected : ev.precedence \in precedences
      OBVIOUS
    <3>3. QED
      BY <1>1, <3>1, <3>2
  <2>4. least \in Nat
    BY <2>1, <2>2
  <2>5. ASSUME NEW ev \in selected, ev.precedence = least,
               NEW other \in selected
        PROVE  ev.precedence <= other.precedence
    BY <2>2, <2>3, <2>5
  <2>6. ASSUME NEW ev \in selected, \A other \in selected : ev.precedence <= other.precedence
        PROVE  ev.precedence = least
    <3>0. /\ ev.precedence \in Nat
          /\ ev.precedence < Heuristic + 1
          /\ ev.precedence \in precedences
      BY <2>3, <2>6
    <3> DEFINE mine == ev.precedence
    <3>a. least <= mine
      BY <2>2, <3>0
    <3> HIDE DEF mine
    <3>b. mine \in Nat /\ mine < Heuristic + 1
      BY <3>0 DEF mine
    <3>c. least # Heuristic + 1
      BY <2>4, <3>a, <3>b DEF Heuristic
    <3>1. least <= ev.precedence /\ least # Heuristic + 1
      BY <3>a, <3>c DEF mine
    <3>2. PICK other \in selected : least = other.precedence
      BY <2>2, <3>1
    <3>3. QED
      BY <2>3, <2>4, <2>6, <3>1, <3>2
  <2>7. QED
    BY <1>2, <2>5, <2>6 DEF Strong, Best
<1>4. PICK r : /\ Says(r, selected, strong)
               /\ Resolve(id, input) = IF r.state = "unknown"
                                       THEN [r EXCEPT !.confidence = Unknown] ELSE r
  <2> HIDE DEF selected, least
  <2>1. selected = {ev \in ToSet(input) : ev.claim = id /\ Usable(ev)}
    BY DEF selected
  <2>2. least = Min({ev.precedence : ev \in selected} \cup {Heuristic + 1})
    BY DEF least
  <2>3. \E r : /\ Says(r, selected, Strong(selected, least))
               /\ Resolve(id, input) = IF r.state = "unknown"
                                       THEN [r EXCEPT !.confidence = Unknown] ELSE r
    BY <2>1, <2>2, ResolveSays
  <2>4. QED
    BY <2>3
<1> DEFINE q == Resolve(id, input)
<1>5. /\ q.state = r.state /\ q.evidence = r.evidence /\ q.superseded = r.superseded
      /\ q.confidence = IF r.state = "unknown" THEN Unknown ELSE r.confidence
  <2> HIDE DEF selected, strong
  <2>1. r \in ResolutionType
    BY <1>4 DEF Says
  <2>2. r.state # "unknown" => q = r
    BY <1>4
  <2>3. r.state = "unknown" => q = [r EXCEPT !.confidence = Unknown]
    BY <1>4
  <2> HIDE DEF q
  <2>4. QED
    BY <2>1, <2>2, <2>3 DEF ResolutionType
<1>6. strong \in SUBSET EvidenceType
  BY <1>1 DEF Strong
<1> HIDE DEF q, selected, strong, least
<1>7. q.state = IF Cardinality(states) = 1 THEN CHOOSE s \in states : TRUE ELSE "unknown"
  <2>1. IsFiniteSet(states)
    <3>1. states \in SUBSET StatesOf
      BY <1>6 DEF EvidenceType
    <3> HIDE DEF states
    <3>2. QED
      BY <3>1, StatesAreFinite
  <2>2. Cardinality(states) = 1 <=> \E x : states = {x}
    <3> HIDE DEF states
    <3>1. QED
      BY <2>1, FS_Singleton
  <2>3. CASE strong = {}
    <3>1. states = {} /\ r.state = "unknown"
      BY <1>4, <2>3 DEF Says
    <3>2. QED
      BY <1>5, <2>2, <3>1
  <2>4. CASE strong # {} /\ \A e \in strong : e.state = r.state
    <3>1. states = {r.state}
      BY <2>4
    <3>2. QED
      BY <1>5, <2>2, <3>1
  <2>5. CASE r.state = "unknown" /\ \E e, f \in strong : e.state # f.state
    <3>1. ~\E x : states = {x}
      BY <2>5
    <3>2. QED
      BY <1>5, <2>2, <2>5, <3>1
  <2>6. QED
    BY <1>4, <2>3, <2>4, <2>5 DEF Says
<1>8. q.confidence = IF q.state = "unknown" THEN Unknown ELSE Min({Confidence(ev) : ev \in strong})
  <2>1. CASE r.state = "unknown"
    BY <1>5, <2>1
  <2>2. CASE r.state # "unknown"
    <3> DEFINE levels == {Confidence(ev) : ev \in strong}
    <3>1. levels \in SUBSET Nat
      BY <1>6, ConfidenceType DEF Unknown, Verified
    <3>2. strong # {}
      BY <1>4, <2>2 DEF Says
    <3>3. r.confidence \in levels /\ \A k \in levels : r.confidence <= k
      BY <1>4, <3>2 DEF Says
    <3> HIDE DEF levels
    <3>4. Min(levels) = r.confidence
      BY <3>1, <3>3, MinIs
    <3>5. QED
      BY <1>5, <2>2, <3>4 DEF levels
  <2>3. QED
    BY <2>1, <2>2
<1>9. /\ ToSet(q.evidence) = {ev.id : ev \in strong}
      /\ ToSet(q.superseded) = {ev.id : ev \in selected \ strong}
  BY <1>4, <1>5 DEF Says
<1>10. QED
  BY <1>2, <1>3, <1>7, <1>8, <1>9 DEF FollowsStrongest, q, states

(* Evidence for other claims does not count. *)
LEMMA OtherClaims ==
    ASSUME NEW input \in Seq(EvidenceType), NEW s \in Seq(EvidenceType), NEW id,
           \A i \in DOMAIN s : s[i].claim # id
    PROVE  Selected(id, input \o s) = Selected(id, input)
<1> DEFINE both == input \o s
<1>1. /\ Len(input) \in Nat /\ Len(s) \in Nat
      /\ DOMAIN input = 1..Len(input) /\ DOMAIN s = 1..Len(s)
      /\ DOMAIN both = 1..(Len(input) + Len(s))
      /\ \A i \in 1..(Len(input) + Len(s)) :
           both[i] = IF i <= Len(input) THEN input[i] ELSE s[i - Len(input)]
  OBVIOUS
<1> HIDE DEF both
<1>2. ASSUME NEW ev \in ToSet(both), ev.claim = id PROVE ev \in ToSet(input)
  <2>1. PICK i \in 1..(Len(input) + Len(s)) : ev = both[i]
    BY <1>1, <1>2 DEF ToSet
  <2>2. CASE i <= Len(input)
    <3>1. i \in 1..Len(input) /\ ev = input[i]
      BY <1>1, <2>1, <2>2
    <3>2. QED
      BY <1>1, <3>1 DEF ToSet
  <2>3. CASE i > Len(input)
    <3>1. i - Len(input) \in 1..Len(s) /\ ~(i <= Len(input))
      BY <1>1, <2>3
    <3>2. ev = s[i - Len(input)]
      BY <1>1, <2>1, <3>1
    <3>3. QED
      BY <1>1, <1>2, <3>1, <3>2
  <2>4. QED
    BY <1>1, <2>2, <2>3
<1>3. ASSUME NEW ev \in ToSet(input) PROVE ev \in ToSet(both)
  <2>1. PICK i \in 1..Len(input) : ev = input[i]
    BY <1>1, <1>3 DEF ToSet
  <2>2. i \in 1..(Len(input) + Len(s)) /\ i <= Len(input)
    BY <1>1, <2>1
  <2>3. ev = both[i]
    BY <1>1, <2>1, <2>2
  <2>4. QED
    BY <1>1, <2>2, <2>3 DEF ToSet
<1>4. QED
  BY <1>2, <1>3 DEF Selected, both

-----------------------------------------------------------------------------
(* The invariant.                                                          *)

DecisionInv == CatalogInv /\ OrderInv /\ VisitInv /\ EvidenceInv

LEMMA StartsInInvariant == Assessed \/ Called => DecisionInv
<1>1. ASSUME Assessed PROVE DecisionInv
  <2>1. CatalogInv
    BY <1>1, CatalogsAssumption DEF Assessed, Init, CatalogInv
  <2>3. EvidenceInv
    BY <1>1, EvidenceAssumption DEF Assessed, Init, EvidenceInv
  <2>2. OrderInv /\ VisitInv
    BY <1>1 DEF Assessed, Init, OrderInv, VisitInv
  <2>4. QED
    BY <2>1, <2>2, <2>3 DEF DecisionInv
<1>2. ASSUME Called PROVE DecisionInv
  <2>1. CatalogInv
    <3>1. DOMAIN catalog = {} /\ catalog = <<>>
      BY <1>2 DEF Called
    <3>2. IsFiniteSet(DOMAIN catalog)
      BY <3>1, FS_EmptySet
    <3>3. catalog \in [DOMAIN catalog -> Seq(Nat)]
      BY <3>1
    <3>4. QED
      BY <3>1, <3>2, <3>3 DEF CatalogInv
  <2>2. OrderInv /\ VisitInv /\ EvidenceInv
    BY <1>2 DEF Called, OrderInv, VisitInv, EvidenceInv
  <2>3. QED
    BY <2>1, <2>2 DEF DecisionInv
<1>3. QED
  BY <1>1, <1>2

(* Once the registry is accepted, order is a complete order of the         *)
(* catalog.                                                                *)
Accepted == phase \in {"begin", "evaluate", "aborted", "done"}

LEMMA AcceptedOrder ==
    ASSUME CatalogInv, OrderInv, Accepted
    PROVE  /\ order \in Seq(DOMAIN catalog) /\ Len(order) \in Nat
           /\ IsInjective(order)
           /\ ToSet(order) = DOMAIN catalog
           /\ \A i \in DOMAIN order :
                ToSet(catalog[order[i]]) \subseteq {order[j] : j \in 1..(i - 1)}
<1>1. Graph(catalog)
  BY DEF CatalogInv, Graph
<1>2. ~Topological(catalog).err /\ order = Topological(catalog).order
  BY DEF OrderInv, Accepted
<1>3. Partial(order, catalog) /\ ToSet(order) = DOMAIN catalog
  BY <1>1, <1>2, TopologicalIsExact
<1>4. QED
  BY <1>3 DEF Partial

LEMMA NextIsDefinition ==
    ASSUME DecisionInv, phase = "evaluate", next <= Len(order)
    PROVE  order[next] \in DOMAIN catalog /\ order[next] \notin DOMAIN resolved
<1>1. order \in Seq(DOMAIN catalog) /\ Len(order) \in Nat /\ IsInjective(order)
  BY AcceptedOrder DEF DecisionInv, Accepted
<1>2. next \in 1..Len(order) /\ DOMAIN order = 1..Len(order)
  BY <1>1 DEF DecisionInv, VisitInv
<1>3. DOMAIN resolved = {order[i] : i \in 1..(next - 1)}
  BY DEF DecisionInv, VisitInv
<1>4. QED
  BY <1>1, <1>2, <1>3 DEF IsInjective

(* A turn of Evaluate's loop that gives the next definition a resolution,  *)
(* gating it or not.                                                       *)
LEMMA TurnKeepsInvariant ==
    ASSUME DecisionInv, phase = "evaluate", next <= Len(order),
           NEW r, resolved' = WithResolution(order[next], r),
           next' = next + 1,
           \/ /\ MissingPrerequisite(order[next]) \/ ~observed
              /\ r.state = "unknown"
              /\ gated' = gated \cup {order[next]}
           \/ /\ ~MissingPrerequisite(order[next]) /\ observed
              /\ gated' = gated,
           UNCHANGED <<catalog, observed, phase, order>>
    PROVE  VisitInv'
<1> DEFINE id == order[next]
<1>1. /\ order \in Seq(DOMAIN catalog) /\ Len(order) \in Nat
      /\ IsInjective(order)
      /\ \A i \in DOMAIN order :
           ToSet(catalog[order[i]]) \subseteq {order[j] : j \in 1..(i - 1)}
  BY AcceptedOrder DEF DecisionInv, Accepted
<1>2. next \in 1..Len(order) /\ next \in Nat \ {0} /\ DOMAIN order = 1..Len(order)
  BY <1>1 DEF DecisionInv, VisitInv
<1>3. DOMAIN resolved = {order[i] : i \in 1..(next - 1)}
  BY DEF DecisionInv, VisitInv
<1>4. id \notin DOMAIN resolved
  BY <1>1, <1>2, <1>3 DEF IsInjective
<1>5. /\ DOMAIN resolved' = DOMAIN resolved \cup {id}
      /\ resolved'[id] = r
      /\ \A x \in DOMAIN resolved : resolved'[x] = resolved[x]
  BY <1>4 DEF WithResolution
<1> HIDE DEF id
<1>6. DOMAIN resolved' = {order[i] : i \in 1..next}
  <2>1. \A i \in 1..next : i \in 1..(next - 1) \/ i = next
    BY <1>2
  <2>2. \A i \in 1..(next - 1) : i \in 1..next
    BY <1>2
  <2>3. next \in 1..next
    BY <1>2
  <2>4. QED
    BY <1>3, <1>5, <2>1, <2>2, <2>3 DEF id
<1>7. ASSUME NEW x \in DOMAIN resolved' PROVE ToSet(catalog[x]) \subseteq DOMAIN resolved
  <2>1. PICK i \in 1..next : x = order[i]
    BY <1>6, <1>7
  <2>2. i \in DOMAIN order
    BY <1>2, <2>1
  <2>3. ToSet(catalog[x]) \subseteq {order[j] : j \in 1..(i - 1)}
    BY <1>1, <2>1, <2>2
  <2>4. \A j \in 1..(i - 1) : j \in 1..(next - 1)
    BY <1>2, <2>1
  <2>5. QED
    BY <1>3, <2>3, <2>4
<1>8. \A x \in DOMAIN resolved' : \A dep \in ToSet(catalog[x]) : resolved'[dep] = resolved[dep]
  BY <1>5, <1>7
<1>9. gated' \subseteq DOMAIN resolved'
  BY <1>5 DEF DecisionInv, VisitInv, id
<1>10. ASSUME NEW x \in gated'
       PROVE  /\ resolved'[x].state = "unknown"
              /\ ~observed \/ \E dep \in ToSet(catalog[x]) : resolved'[dep].state # "supported"
  <2>1. CASE x \in gated
    <3>1. /\ x \in DOMAIN resolved /\ resolved[x].state = "unknown"
          /\ ~observed \/ \E dep \in ToSet(catalog[x]) : resolved[dep].state # "supported"
      BY <2>1 DEF DecisionInv, VisitInv
    <3>2. QED
      BY <3>1, <1>5, <1>8
  <2>2. CASE x \notin gated
    <3>1. /\ x = id /\ r.state = "unknown"
          /\ MissingPrerequisite(id) \/ ~observed
      BY <1>10, <2>2 DEF id
    <3>2. QED
      BY <3>1, <1>5, <1>8 DEF MissingPrerequisite
  <2>3. QED
    BY <2>1, <2>2
<1>11. ASSUME NEW x \in DOMAIN resolved' \ gated'
       PROVE  observed /\ \A dep \in ToSet(catalog[x]) : resolved'[dep].state = "supported"
  <2>1. CASE x \in DOMAIN resolved
    <3>1. x \notin gated
      BY <1>11
    <3>2. observed /\ \A dep \in ToSet(catalog[x]) : resolved[dep].state = "supported"
      BY <2>1, <3>1 DEF DecisionInv, VisitInv
    <3>3. QED
      BY <3>2, <1>8
  <2>2. CASE x \notin DOMAIN resolved
    <3>1. x = id
      BY <1>5, <1>11, <2>2
    <3>2. ~MissingPrerequisite(id) /\ observed
      BY <3>1, <1>11 DEF id
    <3>3. QED
      BY <3>1, <3>2, <1>5, <1>8 DEF MissingPrerequisite
  <2>3. QED
    BY <2>1, <2>2
<1>12. /\ next' \in Nat \ {0} /\ next' <= Len(order') + 1 /\ phase' = "evaluate"
       /\ next' - 1 = next
  BY <1>1, <1>2
<1>13. DOMAIN resolved' = {order'[i] : i \in 1..(next' - 1)}
  BY <1>6, <1>12
<1>14. QED
  BY <1>9, <1>10, <1>11, <1>12, <1>13 DEF VisitInv

LEMMA EvaluationKeepsInvariant ==
    ASSUME DecisionInv, Next
    PROVE  DecisionInv'
<1>1. CatalogInv'
  <2>1. UNCHANGED catalog
    BY DEF Next, NewRegistry, Begin, Gate, Abort, ResolveClaim, Finish
  <2>2. QED
    BY <2>1 DEF DecisionInv, CatalogInv
<1>9. EvidenceInv'
  <2>1. CASE NewRegistry \/ Begin \/ Gate \/ Finish
    BY <2>1 DEF DecisionInv, EvidenceInv, NewRegistry, Begin, Gate, Finish
  <2>2. CASE Abort \/ ResolveClaim
    <3>1. PICK s \in Generated[order[next]] : evidence' \in {evidence, evidence \o s}
      BY <2>2 DEF Abort, ResolveClaim
    <3>2. order[next] \in DOMAIN catalog
      BY <2>2, NextIsDefinition DEF Abort, ResolveClaim
    <3>3. order[next] \in DOMAIN Generated
      BY <3>2 DEF DecisionInv, CatalogInv
    <3>4. s \in Seq(EvidenceType)
      BY <3>1, <3>3, EvidenceAssumption
    <3>5. evidence \in Seq(EvidenceType)
      BY DEF DecisionInv, EvidenceInv
    <3> HIDE DEF EvidenceType
    <3>6. evidence \o s \in Seq(EvidenceType)
      BY <3>4, <3>5
    <3>7. QED
      BY <3>1, <3>5, <3>6 DEF EvidenceInv
  <2>3. QED
    BY <2>1, <2>2 DEF Next
<1>2. CASE NewRegistry
  <2>1. OrderInv'
    BY <1>2 DEF DecisionInv, OrderInv, NewRegistry
  <2>2. next = 1 /\ DOMAIN resolved = {} /\ gated = {}
    BY <1>2 DEF DecisionInv, VisitInv, NewRegistry
  <2>3. Len(order') \in Nat
    <3>1. CASE Topological(catalog).err
      BY <1>2, <3>1 DEF NewRegistry, Topological
    <3>2. CASE ~Topological(catalog).err
      BY <1>2, <3>2, TopologicalIsExact
         DEF NewRegistry, DecisionInv, CatalogInv, Graph, Partial
    <3>3. QED
      BY <3>1, <3>2
  <2>4. VisitInv'
    BY <1>2, <2>2, <2>3 DEF VisitInv, NewRegistry
  <2>5. QED
    BY <1>1, <1>9, <2>1, <2>4 DEF DecisionInv
<1>3. CASE Begin
  BY <1>1, <1>9, <1>3 DEF DecisionInv, OrderInv, VisitInv, Begin
<1>4. CASE Gate
  <2>1. OrderInv'
    BY <1>4 DEF DecisionInv, OrderInv, Gate
  <2>2. VisitInv'
    BY <1>4, TurnKeepsInvariant DEF Gate, NoResolution
  <2>3. QED
    BY <1>1, <1>9, <2>1, <2>2 DEF DecisionInv
<1>5. CASE Abort
  BY <1>1, <1>9, <1>5 DEF DecisionInv, OrderInv, VisitInv, Abort
<1>6. CASE ResolveClaim
  <2>1. OrderInv'
    BY <1>6 DEF DecisionInv, OrderInv, ResolveClaim
  <2>2. VisitInv'
    BY <1>6, TurnKeepsInvariant DEF ResolveClaim
  <2>3. QED
    BY <1>1, <1>9, <2>1, <2>2 DEF DecisionInv
<1>7. CASE Finish
  BY <1>1, <1>9, <1>7 DEF DecisionInv, OrderInv, VisitInv, Finish
<1>8. QED
  BY <1>2, <1>3, <1>4, <1>5, <1>6, <1>7 DEF Next

LEMMA VarsKeepInvariant ==
    ASSUME DecisionInv, UNCHANGED vars
    PROVE  DecisionInv'
BY DEF DecisionInv, CatalogInv, OrderInv, VisitInv, EvidenceInv, vars

(* The catalog stays the one that was ordered, the visited definitions are *)
(* a prefix of that order, and each was gated for a reason that still      *)
(* holds: what Evaluate keeps from turn to turn.                           *)
THEOREM EvaluationInvariant == DecisionSpec => []DecisionInv
<1>1. Assessed \/ Called => DecisionInv
  BY StartsInInvariant
<1>2. DecisionInv /\ [Evaluation \/ Ask \/ Answer]_allVars => DecisionInv'
  <2> SUFFICES ASSUME DecisionInv, [Evaluation \/ Ask \/ Answer]_allVars
               PROVE  DecisionInv'
    OBVIOUS
  <2>1. CASE Evaluation
    BY <2>1, EvaluationKeepsInvariant DEF Evaluation
  <2>2. CASE Ask \/ Answer \/ UNCHANGED allVars
    BY <2>2, VarsKeepInvariant DEF Ask, Answer, allVars
  <2>3. QED
    BY <2>1, <2>2
<1>3. QED
  BY <1>1, <1>2, PTL DEF DecisionSpec

-----------------------------------------------------------------------------

(* NewRegistry rejects exactly the catalogs that cannot be ordered, and    *)
(* Evaluate visits every definition after those it depends on: Kahn's      *)
(* algorithm is right for every catalog.                                   *)
THEOREM TopologicalSortIsSound == DecisionSpec => []OrderIsSound
<1>1. DecisionInv => OrderIsSound
  <2> SUFFICES ASSUME DecisionInv PROVE OrderIsSound
    OBVIOUS
  <2>1. Graph(catalog)
    BY DEF DecisionInv, CatalogInv, Graph
  <2>2. phase = "rejected" <=> phase # "new" /\ ~(Declares(catalog) /\ Rankable(catalog))
    <3>1. CASE phase = "none"
      <4>1. catalog = <<>> /\ DOMAIN catalog = {}
        BY <3>1 DEF DecisionInv, OrderInv
      <4>2. Declares(catalog) /\ Rankable(catalog)
        <5>1. \E rank \in [DOMAIN catalog -> 1..Cardinality(DOMAIN catalog)] : TRUE
          <6>1. [x \in {} |-> 1] \in [DOMAIN catalog -> 1..Cardinality(DOMAIN catalog)]
            BY <4>1
          <6>2. QED
            BY <6>1
        <5>2. QED
          BY <4>1, <5>1 DEF Declares, Rankable
      <4>3. QED
        BY <3>1, <4>2
    <3>2. CASE phase = "new"
      BY <3>2
    <3>3. CASE phase \notin {"none", "new"}
      BY <3>3, <2>1, TopologicalIsExact DEF DecisionInv, OrderInv
    <3>4. QED
      BY <3>1, <3>2, <3>3
  <2>3. ASSUME phase \notin {"new", "rejected"}
        PROVE  /\ ToSet(order) = DOMAIN catalog /\ IsInjective(order)
               /\ \A i, j \in DOMAIN order : order[j] \in ToSet(catalog[order[i]]) => j < i
    <3>1. CASE phase = "none"
      <4>1. catalog = <<>> /\ order = <<>>
        BY <3>1 DEF DecisionInv, OrderInv
      <4>2. QED
        BY <4>1 DEF ToSet, IsInjective
    <3>2. CASE phase # "none"
      <4>1. Accepted
        BY <2>3, <3>2 DEF Accepted, DecisionInv, OrderInv
      <4>2. /\ ToSet(order) = DOMAIN catalog /\ IsInjective(order)
            /\ order \in Seq(DOMAIN catalog) /\ Len(order) \in Nat
            /\ \A i \in DOMAIN order :
                 ToSet(catalog[order[i]]) \subseteq {order[j] : j \in 1..(i - 1)}
        BY <4>1, AcceptedOrder DEF DecisionInv
      <4>3. ASSUME NEW i \in DOMAIN order, NEW j \in DOMAIN order,
                   order[j] \in ToSet(catalog[order[i]])
            PROVE  j < i
        <5>1. PICK k \in 1..(i - 1) : order[j] = order[k]
          BY <4>2, <4>3
        <5>2. i \in 1..Len(order)
          BY <4>2
        <5>3. k \in DOMAIN order /\ k < i
          BY <4>2, <5>1, <5>2
        <5>4. QED
          BY <4>2, <5>1, <5>3 DEF IsInjective
      <4>4. QED
        BY <4>2, <4>3
    <3>3. QED
      BY <3>1, <3>2
  <2>4. QED
    BY <2>2, <2>3 DEF OrderIsSound
<1>2. QED
  BY <1>1, EvaluationInvariant, PTL

(* A capability has a state of its own only if everything it rests on is   *)
(* supported, through any number of definitions, and Evaluate leaves it    *)
(* unresolved only if something is not.                                    *)
THEOREM PrerequisitesCount == DecisionSpec => []PrerequisitesGate
<1>1. DecisionInv => PrerequisitesGate
  <2> SUFFICES ASSUME DecisionInv PROVE PrerequisitesGate
    OBVIOUS
  <2> SUFFICES ASSUME NEW id \in DOMAIN resolved
               PROVE  /\ resolved[id].state # "unknown" =>
                           \A dep \in Prerequisites(id) : resolved[dep].state = "supported"
                      /\ id \in gated <=>
                           ~observed \/ \E dep \in Prerequisites(id) : resolved[dep].state # "supported"
    BY DEF PrerequisitesGate
  <2> DEFINE Sound == {c \in DOMAIN resolved : resolved[c].state = "supported"}
  <2>1. /\ order \in Seq(DOMAIN catalog) /\ Len(order) \in Nat
        /\ ToSet(order) = DOMAIN catalog
        /\ \A i \in DOMAIN order :
             ToSet(catalog[order[i]]) \subseteq {order[j] : j \in 1..(i - 1)}
    <3>1. next # 1
      BY DEF DecisionInv, VisitInv
    <3>2. Accepted
      BY <3>1 DEF DecisionInv, VisitInv, OrderInv, Accepted
    <3>3. QED
      BY <3>2, AcceptedOrder DEF DecisionInv
  <2>2. DOMAIN resolved \subseteq DOMAIN catalog
    BY <2>1 DEF DecisionInv, VisitInv
  <2>3. ASSUME NEW x \in DOMAIN resolved
        PROVE  ToSet(catalog[x]) \subseteq DOMAIN resolved
    <3>1. PICK i \in 1..(next - 1) : x = order[i]
      BY <2>3 DEF DecisionInv, VisitInv
    <3>2. next \in Nat /\ next <= Len(order) + 1 /\ DOMAIN order = 1..Len(order)
      BY <2>1 DEF DecisionInv, VisitInv
    <3>3. i \in DOMAIN order /\ \A j \in 1..(i - 1) : j \in 1..(next - 1)
      BY <2>1, <3>1, <3>2
    <3>4. ToSet(catalog[x]) \subseteq {order[j] : j \in 1..(i - 1)}
      BY <2>1, <3>1, <3>3
    <3>5. DOMAIN resolved = {order[j] : j \in 1..(next - 1)}
      BY DEF DecisionInv, VisitInv
    <3>6. QED
      BY <3>3, <3>4, <3>5
  <2>4. ASSUME NEW x \in DOMAIN resolved \ gated
        PROVE  observed /\ ToSet(catalog[x]) \subseteq Sound
    BY <2>3, <2>4 DEF DecisionInv, VisitInv
  <2>5. ASSUME NEW x \in Sound PROVE ToSet(catalog[x]) \subseteq Sound
    <3>1. x \notin gated
      BY <2>5 DEF DecisionInv, VisitInv
    <3>2. QED
      BY <2>4, <2>5, <3>1
  <2>6. ASSUME id \notin gated
        PROVE  observed /\ Prerequisites(id) \subseteq Sound
    <3>1. Sound \in SUBSET DOMAIN catalog
      BY <2>2
    <3>2. ToSet(catalog[id]) \subseteq Sound /\ observed
      BY <2>4, <2>6
    <3>3. QED
      BY <2>5, <3>1, <3>2 DEF Prerequisites
  <2>7. ToSet(catalog[id]) \subseteq Prerequisites(id)
    BY <2>2, <2>3 DEF Prerequisites
  <2>8. ASSUME id \in gated
        PROVE  /\ resolved[id].state = "unknown"
               /\ ~observed \/ \E dep \in Prerequisites(id) : resolved[dep].state # "supported"
    BY <2>7, <2>8 DEF DecisionInv, VisitInv
  <2>9. QED
    BY <2>6, <2>8
<1>2. QED
  BY <1>1, EvaluationInvariant, PTL

-----------------------------------------------------------------------------

(* An earlier resolution is not touched by what is generated for another   *)
(* capability.                                                             *)
LEMMA StepFollowsStrongest ==
    ASSUME DecisionInv, ResolutionFollowsStrongest, Next, EvidenceInv'
    PROVE  ResolutionFollowsStrongest'
<1>1. CASE NewRegistry \/ Begin \/ Finish
  BY <1>1 DEF ResolutionFollowsStrongest, NewRegistry, Begin, Finish
<1>2. CASE Gate
  <2>1. order[next] \notin DOMAIN resolved
    BY <1>2, NextIsDefinition DEF Gate
  <2>2. /\ DOMAIN resolved' = DOMAIN resolved \cup {order[next]}
        /\ \A id \in DOMAIN resolved : resolved'[id] = resolved[id]
        /\ gated' = gated \cup {order[next]} /\ evidence' = evidence
    BY <1>2, <2>1 DEF Gate, WithResolution
  <2>3. QED
    BY <2>2 DEF ResolutionFollowsStrongest
<1>3. CASE Abort \/ ResolveClaim
  <2> DEFINE claim == order[next]
  <2>1. claim \in DOMAIN catalog /\ claim \notin DOMAIN resolved
    BY <1>3, NextIsDefinition DEF Abort, ResolveClaim
  <2>2. PICK s \in Generated[claim] :
          \/ evidence' = evidence
          \/ evidence' = evidence \o s /\ ~Foreign(claim, s)
    BY <1>3 DEF Abort, ResolveClaim
  <2>3. s \in Seq(EvidenceType) /\ evidence \in Seq(EvidenceType)
    BY <2>1, <2>2, EvidenceAssumption DEF DecisionInv, CatalogInv, EvidenceInv
  <2>4. ASSUME NEW id, id # claim
        PROVE  Selected(id, evidence') = Selected(id, evidence)
    <3>1. CASE evidence' = evidence
      BY <3>1
    <3>2. CASE evidence' = evidence \o s /\ ~Foreign(claim, s)
      <4>1. \A i \in DOMAIN s : s[i].claim # id
        BY <2>4, <3>2 DEF Foreign
      <4>2. QED
        BY <2>3, <3>2, <4>1, OtherClaims
    <3>3. QED
      BY <2>2, <3>1, <3>2
  <2>5. ASSUME NEW id \in DOMAIN resolved \ gated
        PROVE  FollowsStrongest(resolved[id], id, evidence')
    <3>1. FollowsStrongest(resolved[id], id, evidence)
      BY <2>5 DEF ResolutionFollowsStrongest
    <3>2. Selected(id, evidence') = Selected(id, evidence)
      BY <2>1, <2>4, <2>5
    <3>3. Best(id, evidence') = Best(id, evidence)
      BY <3>2 DEF Best
    <3>4. QED
      BY <3>1, <3>2, <3>3 DEF FollowsStrongest
  <2>6. CASE Abort
    <3>1. resolved' = resolved /\ gated' = gated
      BY <2>6 DEF Abort
    <3>2. QED
      BY <2>5, <3>1 DEF ResolutionFollowsStrongest
  <2>7. CASE ResolveClaim
    <3>1. /\ DOMAIN resolved' = DOMAIN resolved \cup {claim}
          /\ \A id \in DOMAIN resolved : resolved'[id] = resolved[id]
          /\ resolved'[claim] = Resolve(claim, evidence')
          /\ gated' = gated
      BY <2>7, <2>1 DEF ResolveClaim, WithResolution
    <3>2. FollowsStrongest(Resolve(claim, evidence'), claim, evidence')
      BY ResolveFollows DEF EvidenceInv
    <3> HIDE DEF claim
    <3>3. QED
      BY <2>5, <3>1, <3>2 DEF ResolutionFollowsStrongest
  <2>8. QED
    BY <1>3, <2>6, <2>7
<1>4. QED
  BY <1>1, <1>2, <1>3 DEF Next

(* A resolved capability has the state on which the strongest usable       *)
(* evidence agrees, for every dataset and whatever is generated later.     *)
THEOREM ConsensusOfStrongest == DecisionSpec => []ResolutionFollowsStrongest
<1>1. Assessed \/ Called => ResolutionFollowsStrongest
  BY DEF Assessed, Called, Init, ResolutionFollowsStrongest
<1>2. DecisionInv /\ DecisionInv' /\ ResolutionFollowsStrongest
        /\ [Evaluation \/ Ask \/ Answer]_allVars => ResolutionFollowsStrongest'
  <2> SUFFICES ASSUME DecisionInv, DecisionInv', ResolutionFollowsStrongest,
                      [Evaluation \/ Ask \/ Answer]_allVars
               PROVE  ResolutionFollowsStrongest'
    OBVIOUS
  <2>1. CASE Evaluation
    BY <2>1, StepFollowsStrongest DEF Evaluation, DecisionInv
  <2>2. CASE Ask \/ Answer \/ UNCHANGED allVars
    BY <2>2 DEF Ask, Answer, allVars, vars, ResolutionFollowsStrongest
  <2>3. QED
    BY <2>1, <2>2
<1>3. QED
  BY <1>1, <1>2, EvaluationInvariant, PTL DEF DecisionSpec

-----------------------------------------------------------------------------
(* logic.go: All and Any.                                                  *)

LEMMA AndSays ==
    ASSUME NEW a \in States, NEW b \in States
    PROVE  /\ And(a, b) \in States
           /\ And(a, b) = SATISFIED <=> a = SATISFIED /\ b = SATISFIED
           /\ And(a, b) = UNSATISFIED <=> a = UNSATISFIED \/ b = UNSATISFIED
BY DEF And, States, SATISFIED, UNSATISFIED, INDETERMINATE

LEMMA OrSays ==
    ASSUME NEW a \in States, NEW b \in States
    PROVE  /\ Or(a, b) \in States
           /\ Or(a, b) = SATISFIED <=> a = SATISFIED \/ b = SATISFIED
           /\ Or(a, b) = UNSATISFIED <=> a = UNSATISFIED /\ b = UNSATISFIED
BY DEF Or, States, SATISFIED, UNSATISFIED, INDETERMINATE

(* A fold is a recursive function on the number of values folded. *)
Folds(V, n, start, op, s) ==
    \E fold \in [0..n -> V] :
        fold = [k \in 0..n |-> IF k = 0 THEN start ELSE op[fold[k - 1]][s[k]]]

LEMMA FoldExists ==
    ASSUME NEW V, NEW n \in Nat, NEW start \in V, NEW op \in [V -> [V -> V]], NEW s \in [1..n -> V]
    PROVE  Folds(V, n, start, op, s)
<1> DEFINE S == 0..n
           step == [f \in [S -> V] |->
                      [k \in S |-> IF k = 0 THEN start ELSE op[f[k - 1]][s[k]]]]
           rank == [k \in S |-> k]
<1>1. step \in [[S -> V] -> [S -> V]]
  <2>1. ASSUME NEW f \in [S -> V], NEW k \in S, k # 0 PROVE op[f[k - 1]][s[k]] \in V
    <3>1. k - 1 \in S /\ k \in 1..n
      BY <2>1
    <3>2. f[k - 1] \in V /\ s[k] \in V
      BY <3>1
    <3>3. QED
      BY <3>2
  <2>2. QED
    BY <2>1
<1>2. rank \in [S -> 0..n] /\ V # {}
  OBVIOUS
<1>3. ASSUME NEW f \in [S -> V], NEW g \in [S -> V], NEW k \in S,
             \A y \in S : rank[y] < rank[k] => f[y] = g[y]
      PROVE  step[f][k] = step[g][k]
  <2>1. CASE k = 0
    BY <2>1
  <2>2. CASE k # 0
    <3>1. k - 1 \in S /\ rank[k - 1] < rank[k]
      BY <2>2
    <3>2. f[k - 1] = g[k - 1]
      BY <1>3, <3>1
    <3>3. QED
      BY <2>2, <3>2
  <2>3. QED
    BY <2>1, <2>2
<1>4. Solvable(S, V, step)
  <2> HIDE DEF S, step, rank
  <2>1. QED
    BY <1>1, <1>2, <1>3, RecursionOnRank
<1>5. QED
  BY <1>4 DEF Solvable, Folds

LEMMA AllOfSays ==
    ASSUME NEW n \in Nat, NEW s \in [1..n -> States]
    PROVE  /\ AllOf(s) \in States
           /\ AllOf(s) = SATISFIED <=> \A i \in 1..n : s[i] = SATISFIED
           /\ AllOf(s) = UNSATISFIED <=> \E i \in 1..n : s[i] = UNSATISFIED
<1>1. Len(s) = n
  OBVIOUS
<1> DEFINE op == [a \in States |-> [b \in States |-> And(a, b)]]
           fold == CHOOSE f : f = [k \in 0..n |-> IF k = 0 THEN SATISFIED ELSE And(f[k - 1], s[k])]
<1>2. op \in [States -> [States -> States]] /\ SATISFIED \in States
  <2>1. \A a, b \in States : And(a, b) \in States
    BY AndSays
  <2>2. QED
    BY <2>1 DEF States
<1>3. PICK g \in [0..n -> States] :
        g = [k \in 0..n |-> IF k = 0 THEN SATISFIED ELSE op[g[k - 1]][s[k]]]
  <2> HIDE DEF op
  <2>1. Folds(States, n, SATISFIED, op, s)
    BY <1>2, FoldExists
  <2>2. QED
    BY <2>1 DEF Folds
<1>4. \A a, b \in States : op[a][b] = And(a, b)
  OBVIOUS
<1>5. g = [k \in 0..n |-> IF k = 0 THEN SATISFIED ELSE And(g[k - 1], s[k])]
  <2>1. ASSUME NEW k \in 0..n, k # 0 PROVE op[g[k - 1]][s[k]] = And(g[k - 1], s[k])
    <3>1. g[k - 1] \in States /\ s[k] \in States
      BY <2>1
    <3> HIDE DEF op
    <3>2. QED
      BY <1>4, <3>1
  <2> HIDE DEF op
  <2>2. QED
    BY <1>3, <2>1
<1>6. fold = [k \in 0..n |-> IF k = 0 THEN SATISFIED ELSE And(fold[k - 1], s[k])]
  BY <1>5
<1>7. AllOf(s) = fold[n]
  BY <1>1 DEF AllOf
<1> HIDE DEF fold
<1> DEFINE Right == {k \in Nat : k <= n =>
                       /\ fold[k] \in States
                       /\ fold[k] = SATISFIED <=> \A i \in 1..k : s[i] = SATISFIED
                       /\ fold[k] = UNSATISFIED <=> \E i \in 1..k : s[i] = UNSATISFIED}
<1>8. 0 \in Right
  <2>1. fold[0] = SATISFIED
    BY <1>6
  <2>2. QED
    BY <2>1 DEF States, SATISFIED, UNSATISFIED
<1>9. ASSUME NEW k \in Nat, k \in Right PROVE k + 1 \in Right
  <2>1. SUFFICES ASSUME k + 1 <= n
                 PROVE  /\ fold[k + 1] \in States
                        /\ fold[k + 1] = SATISFIED <=> \A i \in 1..(k + 1) : s[i] = SATISFIED
                        /\ fold[k + 1] = UNSATISFIED <=> \E i \in 1..(k + 1) : s[i] = UNSATISFIED
    OBVIOUS
  <2>2. fold[k + 1] = And(fold[k], s[k + 1])
    BY <1>6, <2>1
  <2>3. s[k + 1] \in States
    BY <2>1
  <2>4. /\ fold[k] \in States
        /\ fold[k] = SATISFIED <=> \A i \in 1..k : s[i] = SATISFIED
        /\ fold[k] = UNSATISFIED <=> \E i \in 1..k : s[i] = UNSATISFIED
    BY <1>9, <2>1
  <2>5. /\ And(fold[k], s[k + 1]) \in States
        /\ And(fold[k], s[k + 1]) = SATISFIED <=> fold[k] = SATISFIED /\ s[k + 1] = SATISFIED
        /\ And(fold[k], s[k + 1]) = UNSATISFIED <=> fold[k] = UNSATISFIED \/ s[k + 1] = UNSATISFIED
    BY <2>3, <2>4, AndSays
  <2>6. \A i : i \in 1..(k + 1) <=> i \in 1..k \/ i = k + 1
    OBVIOUS
  <2>7. QED
    BY <2>2, <2>4, <2>5, <2>6
<1>10. n \in Right
  <2> HIDE DEF Right
  <2>1. QED
    BY <1>8, <1>9, NatSet
<1>11. QED
  BY <1>7, <1>10

LEMMA AnyOfSays ==
    ASSUME NEW n \in Nat, NEW s \in [1..n -> States]
    PROVE  /\ AnyOf(s) \in States
           /\ AnyOf(s) = UNSATISFIED <=> \A i \in 1..n : s[i] = UNSATISFIED
           /\ AnyOf(s) = SATISFIED <=> \E i \in 1..n : s[i] = SATISFIED
<1>1. Len(s) = n
  OBVIOUS
<1> DEFINE op == [a \in States |-> [b \in States |-> Or(a, b)]]
           fold == CHOOSE f : f = [k \in 0..n |-> IF k = 0 THEN UNSATISFIED ELSE Or(f[k - 1], s[k])]
<1>2. op \in [States -> [States -> States]] /\ UNSATISFIED \in States
  <2>1. \A a, b \in States : Or(a, b) \in States
    BY OrSays
  <2>2. QED
    BY <2>1 DEF States
<1>3. PICK g \in [0..n -> States] :
        g = [k \in 0..n |-> IF k = 0 THEN UNSATISFIED ELSE op[g[k - 1]][s[k]]]
  <2> HIDE DEF op
  <2>1. Folds(States, n, UNSATISFIED, op, s)
    BY <1>2, FoldExists
  <2>2. QED
    BY <2>1 DEF Folds
<1>4. \A a, b \in States : op[a][b] = Or(a, b)
  OBVIOUS
<1>5. g = [k \in 0..n |-> IF k = 0 THEN UNSATISFIED ELSE Or(g[k - 1], s[k])]
  <2>1. ASSUME NEW k \in 0..n, k # 0 PROVE op[g[k - 1]][s[k]] = Or(g[k - 1], s[k])
    <3>1. g[k - 1] \in States /\ s[k] \in States
      BY <2>1
    <3> HIDE DEF op
    <3>2. QED
      BY <1>4, <3>1
  <2> HIDE DEF op
  <2>2. QED
    BY <1>3, <2>1
<1>6. fold = [k \in 0..n |-> IF k = 0 THEN UNSATISFIED ELSE Or(fold[k - 1], s[k])]
  BY <1>5
<1>7. AnyOf(s) = fold[n]
  BY <1>1 DEF AnyOf
<1> HIDE DEF fold
<1> DEFINE Right == {k \in Nat : k <= n =>
                       /\ fold[k] \in States
                       /\ fold[k] = UNSATISFIED <=> \A i \in 1..k : s[i] = UNSATISFIED
                       /\ fold[k] = SATISFIED <=> \E i \in 1..k : s[i] = SATISFIED}
<1>8. 0 \in Right
  <2>1. fold[0] = UNSATISFIED
    BY <1>6
  <2>2. QED
    BY <2>1 DEF States, UNSATISFIED, SATISFIED
<1>9. ASSUME NEW k \in Nat, k \in Right PROVE k + 1 \in Right
  <2>1. SUFFICES ASSUME k + 1 <= n
                 PROVE  /\ fold[k + 1] \in States
                        /\ fold[k + 1] = UNSATISFIED <=> \A i \in 1..(k + 1) : s[i] = UNSATISFIED
                        /\ fold[k + 1] = SATISFIED <=> \E i \in 1..(k + 1) : s[i] = SATISFIED
    OBVIOUS
  <2>2. fold[k + 1] = Or(fold[k], s[k + 1])
    BY <1>6, <2>1
  <2>3. s[k + 1] \in States
    BY <2>1
  <2>4. /\ fold[k] \in States
        /\ fold[k] = UNSATISFIED <=> \A i \in 1..k : s[i] = UNSATISFIED
        /\ fold[k] = SATISFIED <=> \E i \in 1..k : s[i] = SATISFIED
    BY <1>9, <2>1
  <2>5. /\ Or(fold[k], s[k + 1]) \in States
        /\ Or(fold[k], s[k + 1]) = UNSATISFIED <=> fold[k] = UNSATISFIED /\ s[k + 1] = UNSATISFIED
        /\ Or(fold[k], s[k + 1]) = SATISFIED <=> fold[k] = SATISFIED \/ s[k + 1] = SATISFIED
    BY <2>3, <2>4, OrSays
  <2>6. \A i : i \in 1..(k + 1) <=> i \in 1..k \/ i = k + 1
    OBVIOUS
  <2>7. QED
    BY <2>2, <2>4, <2>5, <2>6
<1>10. n \in Right
  <2> HIDE DEF Right
  <2>1. QED
    BY <1>8, <1>9, NatSet
<1>11. QED
  BY <1>7, <1>10

-----------------------------------------------------------------------------
(* Documents.                                                              *)

LEMMA NodeShape ==
    ASSUME NEW d, IsDocument(d), NEW n \in DOMAIN d
    PROVE  /\ d[n].op \in {"capability", "all", "any", "not", "malformed"}
           /\ d[n].op = "capability" => d[n].id \in Capabilities
           /\ d[n].op \in {"all", "any", "not"} => Children(d, n) = d[n].children
           /\ d[n].op = "not" => Len(Children(d, n)) = 1
           /\ Children(d, n) \in Seq(DOMAIN d \cup {0})
<1> DEFINE nodes == DOMAIN d
<1>1. d[n] \in Forms(nodes)
  BY DEF IsDocument
<1> HIDE DEF nodes
<1>2. CASE d[n] \in [op : {"capability"}, id : Capabilities]
  BY <1>2 DEF Children
<1>3. CASE d[n] \in [op : {"all", "any"}, children : Seq(nodes \cup {0})]
  BY <1>3 DEF Children, nodes
<1>4. CASE d[n] \in [op : {"not"}, children : [{1} -> nodes \cup {0}]]
  <2>1. d[n].op = "not" /\ Children(d, n) = d[n].children /\ d[n].children \in [{1} -> nodes \cup {0}]
    BY <1>4 DEF Children
  <2>2. {1} = 1..1 /\ 1 \in Nat
    OBVIOUS
  <2>3. \A c \in [1..1 -> nodes \cup {0}] : c \in Seq(nodes \cup {0}) /\ Len(c) = 1
    <3>1. ASSUME NEW c \in [1..1 -> nodes \cup {0}] PROVE c \in Seq(nodes \cup {0})
      BY SeqDef
    <3>2. ASSUME NEW c \in [1..1 -> nodes \cup {0}] PROVE Len(c) = 1
      OBVIOUS
    <3>3. QED
      BY <3>1, <3>2
  <2>4. QED
    BY <2>1, <2>2, <2>3 DEF nodes
<1>5. CASE d[n] \in [op : {"malformed"}]
  BY <1>5 DEF Children
<1>6. QED
  BY <1>1, <1>2, <1>3, <1>4, <1>5 DEF Forms

(* The walk of validateNode is defined at every node, for the nodes above  *)
(* it are finitely many.                                                   *)
WalkStep(d, f, active) ==
    [n \in DOMAIN d \cup {0} |->
        /\ n # 0
        /\ Cardinality(active) < MaxDepth
        /\ n \notin active
        /\ d[n].op # "malformed"
        /\ \A i \in DOMAIN Children(d, n) : f[active \cup {n}][Children(d, n)[i]]]

Walks(d, valid) ==
    /\ valid \in [SUBSET DOMAIN d -> [DOMAIN d \cup {0} -> BOOLEAN]]
    /\ valid = [active \in SUBSET DOMAIN d |-> WalkStep(d, valid, active)]

LEMMA WalkExists ==
    ASSUME NEW d, IsDocument(d)
    PROVE  \E valid : Walks(d, valid)
<1> DEFINE S == SUBSET DOMAIN d
           V == [DOMAIN d \cup {0} -> BOOLEAN]
           N == Cardinality(DOMAIN d)
           step == [f \in [S -> V] |-> [active \in S |-> WalkStep(d, f, active)]]
           rank == [active \in S |-> N - Cardinality(active)]
<1>1. step \in [[S -> V] -> [S -> V]]
  <2>1. ASSUME NEW f, NEW active PROVE WalkStep(d, f, active) \in V
    BY DEF WalkStep
  <2> HIDE DEF V, S
  <2>2. QED
    BY <2>1
<1>2. V # {}
  <2>1. [n \in DOMAIN d \cup {0} |-> TRUE] \in V
    OBVIOUS
  <2>2. QED
    BY <2>1
<1>3. N \in Nat
  BY FS_CardinalityType DEF IsDocument
<1>4. \A active \in S : IsFiniteSet(active) /\ Cardinality(active) \in 0..N
  <2>1. ASSUME NEW active \in S PROVE IsFiniteSet(active) /\ Cardinality(active) \in 0..N
    <3>1. IsFiniteSet(active) /\ Cardinality(active) <= N
      BY FS_Subset DEF IsDocument
    <3>2. Cardinality(active) \in Nat
      BY <3>1, FS_CardinalityType
    <3>3. QED
      BY <1>3, <3>1, <3>2
  <2>2. QED
    BY <2>1
<1>5. rank \in [S -> 0..N]
  <2> HIDE DEF N
  <2>1. QED
    BY <1>3, <1>4
<1>6. ASSUME NEW f \in [S -> V], NEW g \in [S -> V], NEW active \in S,
             \A y \in S : rank[y] < rank[active] => f[y] = g[y]
      PROVE  step[f][active] = step[g][active]
  <2>1. ASSUME NEW n \in DOMAIN d, n \notin active PROVE f[active \cup {n}] = g[active \cup {n}]
    <3>1. active \cup {n} \in S
      OBVIOUS
    <3>2. Cardinality(active \cup {n}) = Cardinality(active) + 1
      BY <1>4, <2>1, FS_AddElement
    <3>3. rank[active \cup {n}] < rank[active]
      <4> HIDE DEF N
      <4>1. QED
        BY <1>3, <1>4, <3>1, <3>2
    <3> HIDE DEF rank
    <3>4. QED
      BY <1>6, <3>1, <3>3
  <2>2. WalkStep(d, f, active) = WalkStep(d, g, active)
    BY <2>1 DEF WalkStep
  <2> HIDE DEF V, S
  <2>3. QED
    BY <2>2
<1>7. Solvable(S, V, step)
  <2> HIDE DEF S, V, N, step, rank
  <2>1. QED
    BY <1>1, <1>2, <1>3, <1>5, <1>6, RecursionOnRank
<1>8. PICK valid \in [S -> V] : valid = step[valid]
  BY <1>7 DEF Solvable
<1>9. step[valid] = [active \in S |-> WalkStep(d, valid, active)]
  <2> HIDE DEF S, V
  <2>1. QED
    OBVIOUS
<1>10. QED
  BY <1>8, <1>9 DEF Walks

(* A closed set that holds m's children holds everything below m. *)
Closed(d, S) == \A k \in S : ToSet(Children(d, k)) \ {0} \subseteq S

LEMMA DescendantsLeast ==
    ASSUME NEW d, NEW m, NEW S \in SUBSET DOMAIN d,
           ToSet(Children(d, m)) \ {0} \subseteq S, Closed(d, S)
    PROVE  Descendants(d, m) \subseteq S
BY DEF Descendants, Closed

LEMMA DescendantsClosed ==
    ASSUME NEW d, IsDocument(d), NEW m \in DOMAIN d
    PROVE  /\ ToSet(Children(d, m)) \ {0} \subseteq Descendants(d, m)
           /\ Closed(d, Descendants(d, m))
<1>1. \A n \in DOMAIN d : ToSet(Children(d, n)) \subseteq DOMAIN d \cup {0}
  <2>1. ASSUME NEW n \in DOMAIN d PROVE ToSet(Children(d, n)) \subseteq DOMAIN d \cup {0}
    <3>1. Children(d, n) \in Seq(DOMAIN d \cup {0})
      BY NodeShape
    <3>2. QED
      BY <3>1 DEF ToSet
  <2>2. QED
    BY <2>1
<1>2. QED
  BY <1>1 DEF Descendants, Closed

(* What the walk accepts has a well-formed tree. *)
LEMMA AcceptedIsWellFormed ==
    ASSUME NEW d, IsDocument(d), PathsAreValid(d)
    PROVE  WellFormed(d)
<1> DEFINE valid == CHOOSE f : f = [active \in SUBSET DOMAIN d |-> WalkStep(d, f, active)]
<1>1. PathsAreValid(d) <=> valid[{}][1]
  BY DEF PathsAreValid, WalkStep
<1>2. Walks(d, valid)
  <2>1. valid = [active \in SUBSET DOMAIN d |-> WalkStep(d, valid, active)]
    <3>1. PICK f : f = [active \in SUBSET DOMAIN d |-> WalkStep(d, f, active)]
      BY WalkExists DEF Walks
    <3>2. QED
      BY <3>1
  <2> HIDE DEF valid
  <2>2. \A active : WalkStep(d, valid, active) \in [DOMAIN d \cup {0} -> BOOLEAN]
    BY DEF WalkStep
  <2>3. QED
    BY <2>1, <2>2 DEF Walks
<1> HIDE DEF valid
(* Below a node that is accepted under active, its children are accepted   *)
(* under active and the node.                                              *)
<1>3. ASSUME NEW active \in SUBSET DOMAIN d, NEW n \in DOMAIN d \cup {0}, valid[active][n]
      PROVE  /\ n \in DOMAIN d /\ n \notin active /\ d[n].op # "malformed"
             /\ \A c \in ToSet(Children(d, n)) : c \in DOMAIN d \cup {0} /\ valid[active \cup {n}][c]
  <2>1. valid[active] = WalkStep(d, valid, active)
    BY <1>2 DEF Walks
  <2>2. /\ n # 0 /\ n \notin active /\ d[n].op # "malformed"
        /\ \A i \in DOMAIN Children(d, n) : valid[active \cup {n}][Children(d, n)[i]]
    BY <1>3, <2>1 DEF WalkStep
  <2>3. n \in DOMAIN d
    BY <2>2
  <2>4. Children(d, n) \in Seq(DOMAIN d \cup {0})
    BY <2>3, NodeShape
  <2>5. ASSUME NEW c \in ToSet(Children(d, n))
        PROVE  c \in DOMAIN d \cup {0} /\ valid[active \cup {n}][c]
    <3>1. PICK i \in DOMAIN Children(d, n) : c = Children(d, n)[i]
      BY DEF ToSet
    <3>2. Children(d, n)[i] \in DOMAIN d \cup {0}
      BY <2>4
    <3>3. valid[active \cup {n}][Children(d, n)[i]]
      BY <2>2
    <3>4. QED
      BY <3>1, <3>2, <3>3
  <2>6. QED
    BY <2>2, <2>3, <2>5
<1> DEFINE accepted == {n \in DOMAIN d : \E active \in SUBSET DOMAIN d : valid[active][n]}
<1>4. 1 \in accepted
  <2>1. 1 \in DOMAIN d /\ {} \in SUBSET DOMAIN d
    BY DEF IsDocument
  <2>2. QED
    BY <1>1, <2>1
<1>5. ASSUME NEW n \in accepted
      PROVE  d[n].op # "malformed" /\ ToSet(Children(d, n)) \subseteq accepted
  <2>1. PICK active \in SUBSET DOMAIN d : valid[active][n]
    OBVIOUS
  <2>2. /\ d[n].op # "malformed"
        /\ \A c \in ToSet(Children(d, n)) : c \in DOMAIN d \cup {0} /\ valid[active \cup {n}][c]
    BY <1>3, <2>1
  <2>3. active \cup {n} \in SUBSET DOMAIN d
    OBVIOUS
  <2>4. ASSUME NEW c \in ToSet(Children(d, n)) PROVE c \in accepted
    <3>1. c \in DOMAIN d \cup {0} /\ valid[active \cup {n}][c]
      BY <2>2
    <3>2. c \in DOMAIN d
      BY <1>3, <2>3, <3>1
    <3>3. QED
      BY <2>3, <3>1, <3>2
  <2>5. QED
    BY <2>2, <2>4
<1>6. Tree(d) \subseteq accepted
  <2>1. accepted \in SUBSET DOMAIN d
    OBVIOUS
  <2> HIDE DEF accepted
  <2>2. Closed(d, accepted)
    BY <1>5 DEF Closed
  <2>3. ToSet(Children(d, 1)) \ {0} \subseteq accepted
    BY <1>4, <1>5
  <2>4. Descendants(d, 1) \subseteq accepted
    BY <2>1, <2>2, <2>3, DescendantsLeast
  <2>5. QED
    BY <1>4, <2>4 DEF Tree
<1>7. ASSUME NEW n \in accepted PROVE n \notin Descendants(d, n)
  <2>1. PICK active \in SUBSET DOMAIN d : valid[active][n]
    OBVIOUS
  <2> DEFINE below == {m \in DOMAIN d :
                         \E above \in SUBSET DOMAIN d : n \in above /\ valid[above][m]}
  <2>2. ToSet(Children(d, n)) \ {0} \subseteq below
    <3>1. active \cup {n} \in SUBSET DOMAIN d
      OBVIOUS
    <3>2. \A c \in ToSet(Children(d, n)) : c \in DOMAIN d \cup {0} /\ valid[active \cup {n}][c]
      BY <1>3, <2>1
    <3>3. QED
      BY <3>1, <3>2
  <2>3. ASSUME NEW k \in below PROVE ToSet(Children(d, k)) \ {0} \subseteq below
    <3>1. PICK above \in SUBSET DOMAIN d : n \in above /\ valid[above][k]
      OBVIOUS
    <3>2. above \cup {k} \in SUBSET DOMAIN d /\ n \in above \cup {k}
      BY <3>1
    <3>3. \A c \in ToSet(Children(d, k)) : c \in DOMAIN d \cup {0} /\ valid[above \cup {k}][c]
      BY <1>3, <3>1
    <3>4. QED
      BY <3>2, <3>3
  <2>4. n \notin below
    <3>1. SUFFICES ASSUME NEW above \in SUBSET DOMAIN d, n \in above, valid[above][n]
                   PROVE  FALSE
      OBVIOUS
    <3>2. QED
      BY <1>3, <3>1
  <2>5. below \in SUBSET DOMAIN d
    OBVIOUS
  <2> HIDE DEF below
  <2>6. Closed(d, below)
    BY <2>3 DEF Closed
  <2>7. Descendants(d, n) \subseteq below
    BY <2>2, <2>5, <2>6, DescendantsLeast
  <2>8. QED
    BY <2>4, <2>7
<1>8. ASSUME NEW n \in accepted PROVE 0 \notin ToSet(Children(d, n))
  BY <1>5 DEF IsDocument
<1>9. QED
  <2> HIDE DEF accepted
  <2>1. QED
    BY <1>5, <1>6, <1>7, <1>8 DEF WellFormed

-----------------------------------------------------------------------------
(* evaluateNode and the meaning of a document.                             *)

(* In a well-formed document fewer nodes lie below a child than below its  *)
(* parent.                                                                 *)
Height(d) == [n \in Tree(d) |-> Cardinality(Descendants(d, n))]

LEMMA TreeShape ==
    ASSUME NEW d, IsDocument(d), WellFormed(d)
    PROVE  /\ Tree(d) \subseteq DOMAIN d /\ 1 \in Tree(d)
           /\ Height(d) \in [Tree(d) -> 0..Cardinality(DOMAIN d)]
           /\ \A n \in Tree(d) : \A i \in DOMAIN Children(d, n) :
                 /\ Children(d, n)[i] \in Tree(d)
                 /\ Height(d)[Children(d, n)[i]] < Height(d)[n]
<1>1. Tree(d) \subseteq DOMAIN d /\ 1 \in Tree(d)
  BY DEF Tree, Descendants, IsDocument
<1>2. \A n \in DOMAIN d : /\ Descendants(d, n) \in SUBSET DOMAIN d
                         /\ IsFiniteSet(Descendants(d, n))
                         /\ Cardinality(Descendants(d, n)) \in 0..Cardinality(DOMAIN d)
  <2>1. ASSUME NEW n \in DOMAIN d
        PROVE  /\ Descendants(d, n) \in SUBSET DOMAIN d
               /\ IsFiniteSet(Descendants(d, n))
               /\ Cardinality(Descendants(d, n)) \in 0..Cardinality(DOMAIN d)
    <3>1. Descendants(d, n) \in SUBSET DOMAIN d
      BY DEF Descendants
    <3>2. /\ IsFiniteSet(Descendants(d, n))
          /\ Cardinality(Descendants(d, n)) <= Cardinality(DOMAIN d)
      BY <3>1, FS_Subset DEF IsDocument
    <3>3. Cardinality(Descendants(d, n)) \in Nat /\ Cardinality(DOMAIN d) \in Nat
      BY <3>2, FS_CardinalityType DEF IsDocument
    <3>4. QED
      BY <3>1, <3>2, <3>3
  <2>2. QED
    BY <2>1
<1>3. Height(d) \in [Tree(d) -> 0..Cardinality(DOMAIN d)]
  BY <1>1, <1>2 DEF Height
<1>4. ASSUME NEW n \in Tree(d), NEW i \in DOMAIN Children(d, n)
      PROVE  /\ Children(d, n)[i] \in Tree(d)
             /\ Height(d)[Children(d, n)[i]] < Height(d)[n]
  <2> DEFINE c == Children(d, n)[i]
  <2>1. n \in DOMAIN d
    BY <1>1
  <2>2. c \in ToSet(Children(d, n)) \ {0}
    BY DEF WellFormed, ToSet
  <2>3. /\ ToSet(Children(d, n)) \ {0} \subseteq Descendants(d, n)
        /\ Closed(d, Descendants(d, n))
    BY <2>1, DescendantsClosed
  <2>4. 1 \in DOMAIN d
    BY DEF IsDocument
  <2>5. /\ ToSet(Children(d, 1)) \ {0} \subseteq Descendants(d, 1)
        /\ Closed(d, Descendants(d, 1))
    BY <2>4, DescendantsClosed
  <2> HIDE DEF c
  <2>6. c \in Tree(d)
    BY <2>2, <2>5 DEF Tree, Closed
  <2>7. Descendants(d, c) \subseteq Descendants(d, n)
    <3>1. ToSet(Children(d, c)) \ {0} \subseteq Descendants(d, n)
      BY <2>2, <2>3 DEF Closed
    <3>2. Descendants(d, n) \in SUBSET DOMAIN d
      BY <2>1, <1>2
    <3>3. QED
      BY <2>3, <3>1, <3>2, DescendantsLeast
  <2>8. c \in Descendants(d, n) /\ c \notin Descendants(d, c)
    BY <2>2, <2>3, <2>6 DEF WellFormed
  <2>9. Cardinality(Descendants(d, c)) < Cardinality(Descendants(d, n))
    <3>1. IsFiniteSet(Descendants(d, n))
      BY <1>2, <2>1
    <3>2. Cardinality(Descendants(d, c)) <= Cardinality(Descendants(d, n))
          /\ Cardinality(Descendants(d, c)) # Cardinality(Descendants(d, n))
      BY <2>7, <2>8, <3>1, FS_Subset
    <3>3. c \in DOMAIN d
      BY <1>1, <2>6
    <3>4. /\ Cardinality(Descendants(d, c)) \in 0..Cardinality(DOMAIN d)
          /\ Cardinality(Descendants(d, n)) \in 0..Cardinality(DOMAIN d)
      BY <1>2, <2>1, <3>3
    <3>5. Cardinality(DOMAIN d) \in Nat
      BY FS_CardinalityType DEF IsDocument
    <3>6. QED
      BY <3>2, <3>4, <3>5
  <2>10. Height(d)[c] < Height(d)[n]
    BY <2>6, <2>9 DEF Height
  <2>11. QED
    BY <2>6, <2>10 DEF c
<1>5. QED
  BY <1>1, <1>3, <1>4

LEMMA HeightIsNat ==
    ASSUME NEW d, IsDocument(d), WellFormed(d)
    PROVE  Height(d) \in [Tree(d) -> Nat]
<1>1. Height(d) \in [Tree(d) -> 0..Cardinality(DOMAIN d)] /\ Cardinality(DOMAIN d) \in Nat
  BY TreeShape, FS_CardinalityType DEF IsDocument
<1>2. QED
  BY <1>1

(* One turn of evaluateNode. *)
ValueStep(d, predicate, f, n) ==
    LET states == [i \in DOMAIN Children(d, n) |-> f[Children(d, n)[i]]]
    IN  IF d[n].op = "capability" THEN predicate[d[n].id]
        ELSE IF d[n].op = "not" THEN Not(states[1])
        ELSE IF d[n].op = "any" THEN AnyOf(states)
        ELSE AllOf(states)

Values(d, predicate, value) ==
    /\ value \in [Tree(d) -> States]
    /\ value = [n \in Tree(d) |-> ValueStep(d, predicate, value, n)]

(* It is a state if the children have states. *)
LEMMA ValueIsState ==
    ASSUME NEW d, IsDocument(d), WellFormed(d), NEW predicate \in [Capabilities -> States],
           NEW f, NEW n \in Tree(d),
           \A i \in DOMAIN Children(d, n) : f[Children(d, n)[i]] \in States
    PROVE  ValueStep(d, predicate, f, n) \in States
<1> DEFINE states == [i \in DOMAIN Children(d, n) |-> f[Children(d, n)[i]]]
           count == Len(Children(d, n))
<1>1. n \in DOMAIN d
  BY TreeShape
<1>2. /\ d[n].op = "capability" => d[n].id \in Capabilities
      /\ Children(d, n) \in Seq(DOMAIN d \cup {0})
  BY <1>1, NodeShape
<1>3. DOMAIN Children(d, n) = 1..count /\ count \in Nat
  BY <1>2
<1>4. states \in [1..count -> States]
  BY <1>3, TreeShape
<1> HIDE DEF states, count
<1>5. AllOf(states) \in States /\ AnyOf(states) \in States
  BY <1>3, <1>4, AllOfSays, AnyOfSays
<1>6. \A a : Not(a) \in States
  BY DEF Not, States
<1>7. QED
  BY <1>2, <1>5, <1>6 DEF ValueStep, states

LEMMA ValueExists ==
    ASSUME NEW d, IsDocument(d), WellFormed(d), NEW predicate \in [Capabilities -> States]
    PROVE  \E value : Values(d, predicate, value)
<1> DEFINE S == Tree(d)
           step == [f \in [S -> States] |-> [n \in S |-> ValueStep(d, predicate, f, n)]]
           rank == Height(d)
           N == Cardinality(DOMAIN d)
<1>1. step \in [[S -> States] -> [S -> States]]
  <2>1. ASSUME NEW f \in [S -> States], NEW n \in S
        PROVE  ValueStep(d, predicate, f, n) \in States
    <3>1. \A i \in DOMAIN Children(d, n) : f[Children(d, n)[i]] \in States
      BY TreeShape
    <3>2. QED
      BY <3>1, ValueIsState
  <2>2. QED
    BY <2>1
<1>2. N \in Nat /\ States # {}
  BY FS_CardinalityType DEF IsDocument, States
<1>3. rank \in [S -> 0..N]
  BY TreeShape
<1>4. ASSUME NEW f \in [S -> States], NEW g \in [S -> States], NEW n \in S,
             \A y \in S : rank[y] < rank[n] => f[y] = g[y]
      PROVE  step[f][n] = step[g][n]
  <2>1. \A i \in DOMAIN Children(d, n) : f[Children(d, n)[i]] = g[Children(d, n)[i]]
    BY <1>4, TreeShape
  <2>2. [i \in DOMAIN Children(d, n) |-> f[Children(d, n)[i]]]
          = [i \in DOMAIN Children(d, n) |-> g[Children(d, n)[i]]]
    BY <2>1
  <2>3. ValueStep(d, predicate, f, n) = ValueStep(d, predicate, g, n)
    BY <2>2 DEF ValueStep
  <2>4. QED
    BY <2>3
<1>5. Solvable(S, States, step)
  <2> HIDE DEF S, step, rank, N
  <2>1. QED
    BY <1>1, <1>2, <1>3, <1>4, RecursionOnRank
<1>6. PICK value \in [S -> States] : value = step[value]
  BY <1>5 DEF Solvable
<1>7. value = [n \in S |-> ValueStep(d, predicate, value, n)]
  BY <1>6
<1>8. QED
  BY <1>6, <1>7 DEF Values

(* What the value of a node says of its children's. *)
LEMMA ValueSays ==
    ASSUME NEW d, IsDocument(d), WellFormed(d), NEW predicate \in [Capabilities -> States],
           NEW value, Values(d, predicate, value), NEW n \in Tree(d)
    PROVE  /\ d[n].op = "capability" =>
                 d[n].id \in Capabilities /\ value[n] = predicate[d[n].id]
           /\ d[n].op = "not" =>
                 1 \in DOMAIN Children(d, n) /\ value[n] = Not(value[Children(d, n)[1]])
           /\ d[n].op = "all" =>
                 /\ value[n] = SATISFIED <=>
                      \A i \in DOMAIN Children(d, n) : value[Children(d, n)[i]] = SATISFIED
                 /\ value[n] = UNSATISFIED <=>
                      \E i \in DOMAIN Children(d, n) : value[Children(d, n)[i]] = UNSATISFIED
           /\ d[n].op = "any" =>
                 /\ value[n] = SATISFIED <=>
                      \E i \in DOMAIN Children(d, n) : value[Children(d, n)[i]] = SATISFIED
                 /\ value[n] = UNSATISFIED <=>
                      \A i \in DOMAIN Children(d, n) : value[Children(d, n)[i]] = UNSATISFIED
<1> DEFINE states == [i \in DOMAIN Children(d, n) |-> value[Children(d, n)[i]]]
           count == Len(Children(d, n))
<1>1. n \in DOMAIN d
  BY TreeShape
<1>2. /\ d[n].op = "capability" => d[n].id \in Capabilities
      /\ d[n].op = "not" => count = 1
      /\ Children(d, n) \in Seq(DOMAIN d \cup {0})
  BY <1>1, NodeShape
<1>3. DOMAIN Children(d, n) = 1..count /\ count \in Nat
  BY <1>2
<1>4. states \in [1..count -> States]
  BY <1>3, TreeShape DEF Values
<1>5. \A i \in 1..count : states[i] = value[Children(d, n)[i]]
  BY <1>3
<1>6. value[n] = IF d[n].op = "capability" THEN predicate[d[n].id]
                 ELSE IF d[n].op = "not" THEN Not(states[1])
                 ELSE IF d[n].op = "any" THEN AnyOf(states)
                 ELSE AllOf(states)
  BY DEF Values, ValueStep
<1> HIDE DEF states, count
<1>7. /\ AllOf(states) = SATISFIED <=> \A i \in 1..count : states[i] = SATISFIED
      /\ AllOf(states) = UNSATISFIED <=> \E i \in 1..count : states[i] = UNSATISFIED
      /\ AnyOf(states) = SATISFIED <=> \E i \in 1..count : states[i] = SATISFIED
      /\ AnyOf(states) = UNSATISFIED <=> \A i \in 1..count : states[i] = UNSATISFIED
  BY <1>3, <1>4, AllOfSays, AnyOfSays
<1>8. CASE d[n].op = "capability"
  BY <1>2, <1>6, <1>8
<1>9. CASE d[n].op = "not"
  <2>1. 1 \in 1..count
    BY <1>2, <1>9
  <2>2. QED
    BY <1>3, <1>5, <1>6, <1>9, <2>1
<1>10. CASE d[n].op = "all"
  BY <1>3, <1>5, <1>6, <1>7, <1>10
<1>11. CASE d[n].op = "any"
  BY <1>3, <1>5, <1>6, <1>7, <1>11
<1>12. QED
  BY <1>8, <1>9, <1>10, <1>11

LEMMA EvaluateNodeIs ==
    ASSUME NEW d, IsDocument(d), WellFormed(d), NEW predicate \in [Capabilities -> States]
    PROVE  \E value : Values(d, predicate, value) /\ EvaluateNode(d, predicate) = value[1]
<1> DEFINE value == CHOOSE f : f = [n \in Tree(d) |-> ValueStep(d, predicate, f, n)]
<1>1. EvaluateNode(d, predicate) = value[1]
  BY DEF EvaluateNode, ValueStep
<1>2. value = [n \in Tree(d) |-> ValueStep(d, predicate, value, n)]
  <2>1. PICK f : f = [n \in Tree(d) |-> ValueStep(d, predicate, f, n)]
    BY ValueExists DEF Values
  <2>2. QED
    BY <2>1
<1> HIDE DEF value
<1> DEFINE typed == {n \in Tree(d) : value[n] \in States}
<1>3. Tree(d) \subseteq typed
  <2>1. ASSUME NEW n \in Tree(d), \A m \in Tree(d) : Height(d)[m] < Height(d)[n] => m \in typed
        PROVE  n \in typed
    <3>1. \A i \in DOMAIN Children(d, n) : value[Children(d, n)[i]] \in States
      BY <2>1, TreeShape
    <3>2. ValueStep(d, predicate, value, n) \in States
      BY <3>1, ValueIsState
    <3>3. value[n] = ValueStep(d, predicate, value, n)
      BY <1>2
    <3>4. QED
      BY <3>2, <3>3
  <2>2. Height(d) \in [Tree(d) -> Nat]
    BY HeightIsNat
  <2> HIDE DEF typed
  <2>3. QED
    BY <2>1, <2>2, InductionOnRank
<1>4. Values(d, predicate, value)
  BY <1>2, <1>3 DEF Values
<1>5. QED
  BY <1>1, <1>4

(* One node of the two-valued meaning. *)
MeaningStep(d, f, holds, n) ==
    IF d[n].op = "capability" THEN f[d[n].id] = SATISFIED
    ELSE IF d[n].op = "not" THEN ~holds[d[n].children[1]]
    ELSE IF d[n].op = "any"
    THEN \E i \in DOMAIN d[n].children : holds[d[n].children[i]]
    ELSE \A i \in DOMAIN d[n].children : holds[d[n].children[i]]

Means(d, f, holds) ==
    /\ holds \in [Tree(d) -> BOOLEAN]
    /\ holds = [n \in Tree(d) |-> MeaningStep(d, f, holds, n)]

LEMMA HoldsIs ==
    ASSUME NEW d, IsDocument(d), WellFormed(d), NEW f
    PROVE  \E holds : Means(d, f, holds) /\ (Holds(d, f) <=> holds[1])
<1> DEFINE S == Tree(d)
           step == [h \in [S -> BOOLEAN] |-> [n \in S |-> MeaningStep(d, f, h, n)]]
           rank == Height(d)
           N == Cardinality(DOMAIN d)
<1>1. \A h, n : MeaningStep(d, f, h, n) \in BOOLEAN
  BY DEF MeaningStep
<1>2. step \in [[S -> BOOLEAN] -> [S -> BOOLEAN]]
  BY <1>1
<1>3. N \in Nat /\ BOOLEAN # {}
  BY FS_CardinalityType DEF IsDocument
<1>4. rank \in [S -> 0..N]
  BY TreeShape
<1>5. ASSUME NEW h \in [S -> BOOLEAN], NEW g \in [S -> BOOLEAN], NEW n \in S,
             \A y \in S : rank[y] < rank[n] => h[y] = g[y]
      PROVE  step[h][n] = step[g][n]
  <2>1. \A i \in DOMAIN Children(d, n) : h[Children(d, n)[i]] = g[Children(d, n)[i]]
    BY <1>5, TreeShape
  <2>2. n \in DOMAIN d
    BY TreeShape
  <2>3. /\ d[n].op \in {"capability", "all", "any", "not"}
        /\ d[n].op # "capability" => Children(d, n) = d[n].children
        /\ d[n].op = "not" => 1 \in DOMAIN Children(d, n)
    <3>1. d[n].op = "not" => Len(Children(d, n)) = 1 /\ Children(d, n) \in Seq(DOMAIN d \cup {0})
      BY <2>2, NodeShape
    <3>2. \A s \in Seq(DOMAIN d \cup {0}) : Len(s) = 1 => 1 \in DOMAIN s
      OBVIOUS
    <3>3. QED
      BY <2>2, <3>1, <3>2, NodeShape DEF WellFormed
  <2>4. MeaningStep(d, f, h, n) = MeaningStep(d, f, g, n)
    <3>1. CASE d[n].op = "capability"
      BY <3>1 DEF MeaningStep
    <3>2. CASE d[n].op # "capability"
      BY <2>1, <2>3, <3>2 DEF MeaningStep
    <3>3. QED
      BY <3>1, <3>2
  <2>5. QED
    BY <2>4
<1>6. Solvable(S, BOOLEAN, step)
  <2> HIDE DEF S, step, rank, N
  <2>1. QED
    BY <1>2, <1>3, <1>4, <1>5, RecursionOnRank
<1>7. PICK h \in [S -> BOOLEAN] : h = step[h]
  BY <1>6 DEF Solvable
<1>8. h = [n \in Tree(d) |-> MeaningStep(d, f, h, n)]
  BY <1>7
<1> DEFINE holds == CHOOSE g : g = [n \in Tree(d) |-> MeaningStep(d, f, g, n)]
<1>9. holds = [n \in Tree(d) |-> MeaningStep(d, f, holds, n)]
  BY <1>8
<1>10. Holds(d, f) <=> holds[1]
  BY DEF Holds, MeaningStep
<1> HIDE DEF holds
<1>11. holds \in [Tree(d) -> BOOLEAN]
  BY <1>1, <1>9
<1>12. QED
  BY <1>9, <1>10, <1>11 DEF Means

Agrees(value, holds, n) ==
    /\ value[n] = SATISFIED => holds[n]
    /\ value[n] = UNSATISFIED => ~holds[n]

(* Three-valued evaluation is sound for every completion of what is known: *)
(* a definite value is what the document means then, at every node.        *)
LEMMA ValueMeans ==
    ASSUME NEW d, IsDocument(d), WellFormed(d), NEW predicate \in [Capabilities -> States],
           NEW f, \A id \in Capabilities : predicate[id] \in Definite => f[id] = predicate[id],
           NEW value, Values(d, predicate, value), NEW holds, Means(d, f, holds)
    PROVE  \A n \in Tree(d) : Agrees(value, holds, n)
<1> DEFINE agree == {n \in Tree(d) : Agrees(value, holds, n)}
<1>1. ASSUME NEW n \in Tree(d), \A m \in Tree(d) : Height(d)[m] < Height(d)[n] => m \in agree
      PROVE  n \in agree
  <2>1. \A i \in DOMAIN Children(d, n) :
          /\ value[Children(d, n)[i]] = SATISFIED => holds[Children(d, n)[i]]
          /\ value[Children(d, n)[i]] = UNSATISFIED => ~holds[Children(d, n)[i]]
    <3>1. \A i \in DOMAIN Children(d, n) : Agrees(value, holds, Children(d, n)[i])
      BY <1>1, TreeShape
    <3>2. QED
      BY <3>1 DEF Agrees
  <2>2. n \in DOMAIN d /\ d[n].op # "malformed"
    BY TreeShape DEF WellFormed
  <2>3. /\ d[n].op \in {"capability", "all", "any", "not"}
        /\ d[n].op \in {"all", "any", "not"} => Children(d, n) = d[n].children
    BY <2>2, NodeShape
  <2>4. holds[n] <=> MeaningStep(d, f, holds, n)
    BY DEF Means
  <2>5. SATISFIED # UNSATISFIED
    BY DEF SATISFIED, UNSATISFIED
  <2>6. CASE d[n].op = "capability"
    <3>1. d[n].id \in Capabilities /\ value[n] = predicate[d[n].id]
      BY <2>6, ValueSays
    <3>2. holds[n] <=> f[d[n].id] = SATISFIED
      BY <2>4, <2>6 DEF MeaningStep
    <3>3. QED
      BY <2>5, <3>1, <3>2 DEF Definite, Agrees
  <2>7. CASE d[n].op = "not"
    <3>1. 1 \in DOMAIN Children(d, n) /\ value[n] = Not(value[Children(d, n)[1]])
      BY <2>7, ValueSays
    <3>2. holds[n] <=> ~holds[Children(d, n)[1]]
      BY <2>3, <2>4, <2>7 DEF MeaningStep
    <3>3. /\ value[n] = SATISFIED => value[Children(d, n)[1]] = UNSATISFIED
          /\ value[n] = UNSATISFIED => value[Children(d, n)[1]] = SATISFIED
      BY <3>1 DEF Not, SATISFIED, UNSATISFIED, INDETERMINATE
    <3>4. QED
      BY <2>1, <3>1, <3>2, <3>3 DEF Agrees
  <2>8. CASE d[n].op = "all"
    <3>1. holds[n] <=> \A i \in DOMAIN Children(d, n) : holds[Children(d, n)[i]]
      BY <2>3, <2>4, <2>8 DEF MeaningStep
    <3>2. /\ value[n] = SATISFIED <=>
               \A i \in DOMAIN Children(d, n) : value[Children(d, n)[i]] = SATISFIED
          /\ value[n] = UNSATISFIED <=>
               \E i \in DOMAIN Children(d, n) : value[Children(d, n)[i]] = UNSATISFIED
      BY <2>8, ValueSays
    <3>3. QED
      BY <2>1, <3>1, <3>2 DEF Agrees
  <2>9. CASE d[n].op = "any"
    <3>1. holds[n] <=> \E i \in DOMAIN Children(d, n) : holds[Children(d, n)[i]]
      BY <2>3, <2>4, <2>9 DEF MeaningStep
    <3>2. /\ value[n] = SATISFIED <=>
               \E i \in DOMAIN Children(d, n) : value[Children(d, n)[i]] = SATISFIED
          /\ value[n] = UNSATISFIED <=>
               \A i \in DOMAIN Children(d, n) : value[Children(d, n)[i]] = UNSATISFIED
      BY <2>9, ValueSays
    <3>3. QED
      BY <2>1, <3>1, <3>2 DEF Agrees
  <2>10. QED
    BY <2>3, <2>6, <2>7, <2>8, <2>9
<1>2. Height(d) \in [Tree(d) -> Nat]
  BY HeightIsNat
<1>3. Tree(d) \subseteq agree
  <2> HIDE DEF agree
  <2>1. QED
    BY <1>1, <1>2, InductionOnRank
<1>4. QED
  BY <1>3

(* Nothing is lost either: definite predicates give definite values.       *)
LEMMA ValueDecides ==
    ASSUME NEW d, IsDocument(d), WellFormed(d), NEW predicate \in [Capabilities -> Definite],
           NEW value, Values(d, predicate, value)
    PROVE  \A n \in Tree(d) : value[n] \in Definite
<1> DEFINE decided == {n \in Tree(d) : value[n] \in Definite}
<1>1. predicate \in [Capabilities -> States]
  BY DEF Definite, States
<1>2. ASSUME NEW n \in Tree(d), \A m \in Tree(d) : Height(d)[m] < Height(d)[n] => m \in decided
      PROVE  n \in decided
  <2>1. \A i \in DOMAIN Children(d, n) : value[Children(d, n)[i]] \in {SATISFIED, UNSATISFIED}
    BY <1>2, TreeShape DEF Definite
  <2>2. n \in DOMAIN d /\ d[n].op # "malformed"
    BY TreeShape DEF WellFormed
  <2>3. d[n].op \in {"capability", "all", "any", "not"}
    BY <2>2, NodeShape
  <2>4. CASE d[n].op = "capability"
    <3>1. d[n].id \in Capabilities /\ value[n] = predicate[d[n].id]
      BY <1>1, <2>4, ValueSays
    <3>2. QED
      BY <3>1
  <2>5. CASE d[n].op = "not"
    <3>1. 1 \in DOMAIN Children(d, n) /\ value[n] = Not(value[Children(d, n)[1]])
      BY <1>1, <2>5, ValueSays
    <3>2. QED
      BY <2>1, <3>1 DEF Not, Definite
  <2>6. CASE d[n].op = "all"
    <3>1. /\ value[n] = SATISFIED <=>
               \A i \in DOMAIN Children(d, n) : value[Children(d, n)[i]] = SATISFIED
          /\ value[n] = UNSATISFIED <=>
               \E i \in DOMAIN Children(d, n) : value[Children(d, n)[i]] = UNSATISFIED
      BY <1>1, <2>6, ValueSays
    <3>2. QED
      BY <2>1, <3>1 DEF Definite
  <2>7. CASE d[n].op = "any"
    <3>1. /\ value[n] = SATISFIED <=>
               \E i \in DOMAIN Children(d, n) : value[Children(d, n)[i]] = SATISFIED
          /\ value[n] = UNSATISFIED <=>
               \A i \in DOMAIN Children(d, n) : value[Children(d, n)[i]] = UNSATISFIED
      BY <1>1, <2>7, ValueSays
    <3>2. QED
      BY <2>1, <3>1 DEF Definite
  <2>8. QED
    BY <2>3, <2>4, <2>5, <2>6, <2>7
<1>3. Height(d) \in [Tree(d) -> Nat]
  BY HeightIsNat
<1>4. Tree(d) \subseteq decided
  <2> HIDE DEF decided
  <2>1. QED
    BY <1>2, <1>3, InductionOnRank
<1>5. QED
  BY <1>4

-----------------------------------------------------------------------------
(* Evaluate.                                                               *)

LEMMA CandidateSays ==
    ASSUME NEW d, IsDocument(d), WellFormed(d), NEW c \in CandidateType
    PROVE  /\ EvaluateCandidate(d, c) \in States
           /\ EvaluateCandidate(d, c) = SATISFIED => \A f \in Completions(c) : Holds(d, f)
           /\ EvaluateCandidate(d, c) = UNSATISFIED => \A f \in Completions(c) : ~Holds(d, f)
           /\ c.valid /\ (\A id \in Capabilities : c.predicate[id] \in Definite)
                => EvaluateCandidate(d, c) \in Definite
<1>1. INDETERMINATE \in States /\ INDETERMINATE \notin {SATISFIED, UNSATISFIED}
  BY DEF States, SATISFIED, UNSATISFIED, INDETERMINATE
<1>2. CASE ~c.valid
  BY <1>1, <1>2 DEF EvaluateCandidate
<1>3. CASE c.valid
  <2>1. c.predicate \in [Capabilities -> States]
    BY DEF CandidateType
  <2>2. EvaluateCandidate(d, c) = EvaluateNode(d, c.predicate)
    BY <1>3 DEF EvaluateCandidate
  <2>3. PICK value : /\ Values(d, c.predicate, value)
                     /\ EvaluateNode(d, c.predicate) = value[1]
    BY <2>1, EvaluateNodeIs
  <2>4. 1 \in Tree(d)
    BY DEF Tree
  <2>5. value[1] \in States
    BY <2>3, <2>4 DEF Values
  <2>6. ASSUME NEW f \in Completions(c)
        PROVE  /\ value[1] = SATISFIED => Holds(d, f)
               /\ value[1] = UNSATISFIED => ~Holds(d, f)
    <3>1. PICK holds : Means(d, f, holds) /\ (Holds(d, f) <=> holds[1])
      BY HoldsIs
    <3>2. \A id \in Capabilities : c.predicate[id] \in Definite => f[id] = c.predicate[id]
      BY <1>3 DEF Completions
    <3>3. \A n \in Tree(d) : Agrees(value, holds, n)
      BY <2>1, <2>3, <3>1, <3>2, ValueMeans
    <3>4. Agrees(value, holds, 1)
      BY <2>4, <3>3
    <3>5. QED
      BY <3>1, <3>4 DEF Agrees
  <2>7. ASSUME \A id \in Capabilities : c.predicate[id] \in Definite
        PROVE  value[1] \in Definite
    <3>1. c.predicate \in [Capabilities -> Definite]
      BY <2>1, <2>7
    <3>2. \A n \in Tree(d) : value[n] \in Definite
      BY <2>3, <3>1, ValueDecides
    <3>3. QED
      BY <2>4, <3>2
  <2>8. QED
    BY <2>2, <2>3, <2>5, <2>6, <2>7
<1>4. QED
  BY <1>2, <1>3

LEMMA EvaluateSays ==
    ASSUME NEW d, IsDocument(d), NEW list \in Seq(CandidateType)
    PROVE  /\ Evaluate(d, list) \in States
           /\ Evaluate(d, list) \in Definite => WellFormed(d)
           /\ Evaluate(d, list) = SATISFIED =>
                \E i \in DOMAIN list : \A f \in Completions(list[i]) : Holds(d, f)
           /\ Evaluate(d, list) = UNSATISFIED =>
                \A i \in DOMAIN list : \A f \in Completions(list[i]) : ~Holds(d, f)
           /\ /\ Validate(d) /\ Len(list) \in 1..MaxCandidates
              /\ \A i \in DOMAIN list :
                   list[i].valid /\ \A id \in Capabilities : list[i].predicate[id] \in Definite
              => Evaluate(d, list) \in Definite
<1>1. INDETERMINATE \in States /\ INDETERMINATE \notin {SATISFIED, UNSATISFIED}
  BY DEF States, SATISFIED, UNSATISFIED, INDETERMINATE
<1>2. Len(list) \in Nat /\ DOMAIN list = 1..Len(list)
  OBVIOUS
<1> DEFINE accepted == Validate(d) /\ Len(list) # 0 /\ ~(Len(list) > MaxCandidates)
<1>3. Len(list) \in 1..MaxCandidates => ~(Len(list) = 0) /\ ~(Len(list) > MaxCandidates)
  BY <1>2, LimitsAssumption
<1>4. CASE ~accepted
  <2>1. Evaluate(d, list) = INDETERMINATE
    BY <1>4 DEF Evaluate
  <2>2. QED
    BY <1>1, <1>3, <1>4, <2>1 DEF Definite
<1>5. CASE accepted
  <2> DEFINE states == [i \in DOMAIN list |-> EvaluateCandidate(d, list[i])]
             count == Len(list)
  <2>1. Evaluate(d, list) = AnyOf(states)
    BY <1>5 DEF Evaluate
  <2>2. WellFormed(d)
    BY <1>5, AcceptedIsWellFormed DEF Validate
  <2>3. ASSUME NEW i \in DOMAIN list
        PROVE  /\ states[i] \in States
               /\ states[i] = SATISFIED => \A f \in Completions(list[i]) : Holds(d, f)
               /\ states[i] = UNSATISFIED => \A f \in Completions(list[i]) : ~Holds(d, f)
               /\ list[i].valid /\ (\A id \in Capabilities : list[i].predicate[id] \in Definite)
                    => states[i] \in Definite
    <3>1. list[i] \in CandidateType
      OBVIOUS
    <3>2. states[i] = EvaluateCandidate(d, list[i])
      OBVIOUS
    <3> HIDE DEF states
    <3>3. QED
      BY <2>2, <3>1, <3>2, CandidateSays
  <2>4. states \in [1..count -> States]
    BY <1>2, <2>3
  <2> HIDE DEF states
  <2>5. /\ AnyOf(states) \in States
        /\ AnyOf(states) = SATISFIED <=> \E i \in 1..count : states[i] = SATISFIED
        /\ AnyOf(states) = UNSATISFIED <=> \A i \in 1..count : states[i] = UNSATISFIED
    <3> HIDE DEF count
    <3>1. count \in Nat
      BY <1>2 DEF count
    <3>2. QED
      BY <2>4, <3>1, AnyOfSays
  <2>6. ASSUME \A i \in DOMAIN list :
                 list[i].valid /\ \A id \in Capabilities : list[i].predicate[id] \in Definite
        PROVE  AnyOf(states) \in Definite
    <3>1. \A i \in 1..count : states[i] \in {SATISFIED, UNSATISFIED}
      BY <1>2, <2>3, <2>6 DEF Definite
    <3>2. QED
      BY <2>5, <3>1 DEF Definite
  <2>7. QED
    BY <1>2, <2>1, <2>2, <2>3, <2>5, <2>6
<1>6. QED
  BY <1>4, <1>5

-----------------------------------------------------------------------------
(* From evidence to verdict.                                               *)

LEMMA PredicateIsState == \A id : Predicate(id) \in States
BY DEF Predicate, States, SATISFIED, UNSATISFIED, INDETERMINATE

LEMMA VerdictStep ==
    ASSUME VerdictInv, [Evaluation \/ Ask \/ Answer]_allVars
    PROVE  VerdictInv'
<1>1. /\ "waiting" \notin States /\ "pending" \notin States /\ "waiting" # "pending"
  BY DEF States, SATISFIED, UNSATISFIED, INDETERMINATE
<1>2. CASE Ask
  <2>1. PICK candidate :
          /\ candidate = [valid |-> TRUE, predicate |-> [id \in Capabilities |-> Predicate(id)]]
          /\ candidates' = <<candidate>>
    BY <1>2 DEF Ask
  <2>2. candidate \in CandidateType
    BY <2>1, PredicateIsState DEF CandidateType
  <2> HIDE DEF CandidateType
  <2>3. candidates' \in Seq(CandidateType)
    BY <2>1, <2>2
  <2>4. IsDocument(document')
    BY <1>2, AskedAssumption DEF Ask
  <2>5. verdict' = "pending"
    BY <1>2 DEF Ask
  <2>6. QED
    BY <1>1, <2>3, <2>4, <2>5 DEF VerdictInv
<1>3. CASE Answer
  <2>1. /\ verdict = "pending" /\ verdict' = Evaluate(document, candidates)
        /\ document' = document /\ candidates' = candidates
    BY <1>3 DEF Answer, Decide
  <2>2. IsDocument(document) /\ candidates \in Seq(CandidateType)
    BY <1>1, <2>1 DEF VerdictInv
  <2>3. Evaluate(document, candidates) \in States
    BY <2>2, EvaluateSays
  <2>4. QED
    BY <2>1, <2>2, <2>3 DEF VerdictInv
<1>4. CASE Evaluation \/ UNCHANGED allVars
  <2>1. UNCHANGED <<document, candidates, verdict>>
    BY <1>4 DEF Evaluation, allVars
  <2>2. QED
    BY <2>1 DEF VerdictInv
<1>5. QED
  BY <1>2, <1>3, <1>4

(* A verdict is that of requirement.Evaluate for a document and candidates *)
(* it accepts, whether they come from an assessment or from a caller.      *)
THEOREM VerdictIsEvaluated == DecisionSpec => []VerdictInv
<1>1. Assessed \/ Called => VerdictInv
  BY DocumentsAssumption, CandidatesAssumption
     DEF Assessed, Called, Requested, VerdictInv, States, SATISFIED, UNSATISFIED, INDETERMINATE
<1>2. VerdictInv /\ [Evaluation \/ Ask \/ Answer]_allVars => VerdictInv'
  BY VerdictStep
<1>3. QED
  BY <1>1, <1>2, PTL DEF DecisionSpec

(* A definite verdict holds however the unknown predicates turn out, for   *)
(* every document of any size and every list of candidates; a document     *)
(* with a cycle, a nil node or a malformed one has none.                   *)
THEOREM DefiniteIsFinal == DecisionSpec => []DefiniteVerdictIsFinal
<1>1. VerdictInv => DefiniteVerdictIsFinal
  <2>1. SUFFICES ASSUME VerdictInv, verdict \in Definite PROVE DefiniteVerdictIsFinal
    BY DEF DefiniteVerdictIsFinal
  <2>2. verdict \in States /\ verdict # "waiting"
    BY <2>1 DEF Definite, States, SATISFIED, UNSATISFIED
  <2>3. /\ IsDocument(document) /\ candidates \in Seq(CandidateType)
        /\ verdict = Evaluate(document, candidates)
    BY <2>1, <2>2 DEF VerdictInv
  <2>4. /\ Evaluate(document, candidates) \in Definite => WellFormed(document)
        /\ Evaluate(document, candidates) = SATISFIED =>
             \E i \in DOMAIN candidates : \A f \in Completions(candidates[i]) : Holds(document, f)
        /\ Evaluate(document, candidates) = UNSATISFIED =>
             \A i \in DOMAIN candidates : \A f \in Completions(candidates[i]) : ~Holds(document, f)
    BY <2>3, EvaluateSays
  <2>5. QED
    BY <2>1, <2>3, <2>4 DEF DefiniteVerdictIsFinal
<1>2. QED
  BY <1>1, VerdictIsEvaluated, PTL

(* The evidence Resolve lists convinces the predicate. *)
LEMMA ResolvedConvinces ==
    ASSUME DecisionInv, ResolutionFollowsStrongest
    PROVE  ResolvedCapabilitiesDecide
<1>1. SUFFICES ASSUME phase = "done", NEW id \in DOMAIN catalog
               PROVE  Predicate(id) = CASE resolved[id].state = "supported" -> "SATISFIED"
                              [] resolved[id].state \in {"unsupported", "misconfigured"} ->
                                   "UNSATISFIED"
                              [] OTHER -> "INDETERMINATE"
  BY DEF ResolvedCapabilitiesDecide
<1>2. id \in DOMAIN resolved
  <2>1. ToSet(order) = DOMAIN catalog /\ Len(order) \in Nat /\ DOMAIN order = 1..Len(order)
    BY <1>1, AcceptedOrder DEF DecisionInv, Accepted
  <2>2. next - 1 = Len(order)
    BY <1>1, <2>1 DEF DecisionInv, VisitInv
  <2>3. DOMAIN resolved = {order[i] : i \in 1..Len(order)}
    BY <2>2 DEF DecisionInv, VisitInv
  <2>4. QED
    BY <2>1, <2>3 DEF ToSet
<1>3. CASE id \in gated
  <2>1. resolved[id].state = "unknown"
    BY <1>3 DEF DecisionInv, VisitInv
  <2>2. QED
    BY <1>2, <2>1 DEF Predicate
<1>4. CASE id \notin gated
  <2> DEFINE r == resolved[id]
             best == Best(id, evidence)
             states == {ev.state : ev \in best}
  <2>1. FollowsStrongest(r, id, evidence)
    BY <1>2, <1>4 DEF ResolutionFollowsStrongest
  <2>2. /\ ToSet(r.evidence) = {ev.id : ev \in best}
        /\ r.state = IF Cardinality(states) = 1 THEN CHOOSE s \in states : TRUE ELSE "unknown"
    BY <2>1 DEF FollowsStrongest
  <2>3. \A ev \in best : /\ ev \in CandidateEvidence /\ ev.complete /\ ev.claim = id
                         /\ ev.state \in StatesOf
    <3>1. ToSet(evidence) \subseteq EvidenceType
      BY DEF DecisionInv, EvidenceInv, ToSet
    <3>2. QED
      BY <3>1 DEF Best, Selected, CandidateEvidence, EvidenceType
  <2>4. IsFiniteSet(states)
    <3>1. states \in SUBSET StatesOf
      BY <2>3
    <3> HIDE DEF states
    <3>2. QED
      BY <3>1, StatesAreFinite
  <2> HIDE DEF best
  <2>5. CASE r.state \in {"unknown", "unavailable"}
    BY <1>2, <2>5 DEF Predicate
  <2>6. CASE r.state \notin {"unknown", "unavailable"}
    <3>1. Cardinality(states) = 1
      BY <2>2, <2>6
    <3>2. PICK s : states = {s}
      <4> HIDE DEF states
      <4>1. QED
        BY <2>4, <3>1, FS_Singleton
    <3>3. r.state = s
      <4> HIDE DEF states, r
      <4>1. (CHOOSE x \in states : TRUE) = s
        BY <3>2
      <4>2. QED
        BY <2>2, <3>1, <4>1
    <3>4. \A ev \in best : ev.state = s
      BY <3>2
    <3>5. PICK one \in best : TRUE
      BY <3>2
    <3>6. r.state \in StatesOf
      BY <2>3, <3>3, <3>4, <3>5
    <3>7. r.evidence # <<>>
      <4>1. one.id \in ToSet(r.evidence)
        BY <2>2, <3>5
      <4>2. ToSet(<<>>) = {}
        BY DEF ToSet
      <4>3. QED
        BY <4>1, <4>2
    <3>8. ASSUME NEW ref \in ToSet(r.evidence)
          PROVE  \E ev \in CandidateEvidence :
                   ev.id = ref /\ ev.complete /\ ev.state = r.state /\ ev.claim = id
      <4>1. PICK ev \in best : ev.id = ref
        BY <2>2, <3>8
      <4>2. QED
        BY <2>3, <3>3, <3>4, <4>1
    <3>9. Predicate(id) = IF r.state = "supported" THEN "SATISFIED" ELSE "UNSATISFIED"
      BY <1>2, <2>6, <3>7, <3>8 DEF Predicate
    <3>10. QED
      BY <2>6, <3>6, <3>9 DEF StatesOf
  <2>7. QED
    BY <2>5, <2>6
<1>5. QED
  BY <1>3, <1>4

(* Nothing is lost on the way from evidence to verdict: the predicate      *)
(* accepts every resolution, and complete evidence always decides.         *)
THEOREM CompleteEvidenceIsEnough == DecisionSpec => []EvidenceDecides
<1>1. VerdictInv => CompleteEvidenceDecides
  <2>1. SUFFICES ASSUME VerdictInv, verdict \in States PROVE CompleteEvidenceDecides
    BY DEF CompleteEvidenceDecides
  <2>2. verdict # "waiting"
    BY <2>1 DEF States, SATISFIED, UNSATISFIED, INDETERMINATE
  <2>3. /\ IsDocument(document) /\ candidates \in Seq(CandidateType)
        /\ verdict = Evaluate(document, candidates)
    BY <2>1, <2>2 DEF VerdictInv
  <2>4. /\ Validate(document) /\ Len(candidates) \in 1..MaxCandidates
        /\ \A i \in DOMAIN candidates :
             candidates[i].valid /\ \A id \in Capabilities : candidates[i].predicate[id] \in Definite
        => Evaluate(document, candidates) \in Definite
    BY <2>3, EvaluateSays
  <2>5. QED
    BY <2>3, <2>4 DEF CompleteEvidenceDecides
<1>2. DecisionInv /\ ResolutionFollowsStrongest => ResolvedCapabilitiesDecide
  BY ResolvedConvinces
<1>3. DecisionInv /\ ResolutionFollowsStrongest /\ VerdictInv => EvidenceDecides
  BY <1>1, <1>2 DEF EvidenceDecides
<1>4. QED
  BY <1>3, EvaluationInvariant, ConsensusOfStrongest, VerdictIsEvaluated, PTL

=============================================================================
