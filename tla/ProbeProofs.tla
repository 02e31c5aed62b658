----------------------------- MODULE ProbeProofs -----------------------------
(***************************************************************************)
(* Theorems of the probe package.                                          *)
(*                                                                         *)
(* Of ProbeRegistry, for every set of probes, whatever they declare, every *)
(* order of registration and any number of builders.                       *)
(*                                                                         *)
(* Of Orchestrator, for every number of probes, every worker count and     *)
(* every plan the registry accepts: its invariants, that a probe that is   *)
(* ready to run waits in exactly one place, and that every behaviour is    *)
(* one of ProbeRun, each step being one of its steps or none.              *)
(***************************************************************************)
EXTENDS Orchestrator, ProbeRegistry, Induction, SequenceTheorems

-----------------------------------------------------------------------------
(* What Resolve promises of a plan, for the registered IDs in their order  *)
(* and the dependencies it captured.                                       *)

Index(ids, id) == CHOOSE i \in DOMAIN ids : ids[i] = id

Before(order, i) == {order[j] : j \in 1..(i - 1)}

(* Each probe comes after its dependencies, and is the first registered of *)
(* those that could have come at its place.                                *)
Follows(order, ids, deps) ==
    /\ order \in Seq(ToSet(ids)) /\ IsInjective(order)
    /\ \A i \in DOMAIN order :
         /\ ToSet(deps[order[i]]) \subseteq Before(order, i)
         /\ \A y \in ToSet(ids) \ Before(order, i) :
              ToSet(deps[y]) \subseteq Before(order, i) => Index(ids, order[i]) <= Index(ids, y)

Known(ids, deps) == \A id \in ToSet(ids) : ToSet(deps[id]) \subseteq ToSet(ids)

Orders(ids, deps) ==
    {s \in SetToSeqs(ToSet(ids)) :
        \A i, j \in DOMAIN s :
            Cardinality({k \in DOMAIN deps[s[i]] : deps[s[i]][k] = s[j]}) > 0 => j < i}

(* Registered IDs and captured declarations. *)
Registry(ids, deps) ==
    /\ ids \in Seq(Ids) /\ IsInjective(ids)
    /\ deps \in [Ids -> Declarations]

LEMMA DeclarationType ==
    ASSUME NEW ids, NEW deps, Registry(ids, deps), NEW x \in ToSet(ids)
    PROVE  /\ x \in Ids
           /\ Len(deps[x]) \in Nat /\ DOMAIN deps[x] = 1..Len(deps[x])
           /\ IsFiniteSet(DOMAIN deps[x])
           /\ Cardinality(DOMAIN deps[x]) = Len(deps[x])
<1>1. x \in Ids
  BY DEF Registry, ToSet
<1>2. deps[x] \in Seq(ToSet(deps[x]))
  BY <1>1, DeclarationsAssumption DEF Registry
<1>3. Len(deps[x]) \in Nat /\ DOMAIN deps[x] = 1..Len(deps[x])
  <2> DEFINE S == ToSet(deps[x])
  <2>1. deps[x] \in Seq(S)
    BY <1>2
  <2> HIDE DEF S
  <2>2. QED
    BY <2>1
<1>4. IsFiniteSet(1..Len(deps[x])) /\ Cardinality(1..Len(deps[x])) = Len(deps[x])
  <2>1. \A n \in Nat : n \in Int /\ (IF 1 > n THEN 0 ELSE n - 1 + 1) = n
    OBVIOUS
  <2>2. \A n \in Int : IsFiniteSet(1..n) /\ Cardinality(1..n) = IF 1 > n THEN 0 ELSE n - 1 + 1
    BY FS_Interval
  <2>3. QED
    BY <1>3, <2>1, <2>2
<1>5. QED
  BY <1>1, <1>3, <1>4

LEMMA IndexIs ==
    ASSUME NEW ids \in Seq(Ids), IsInjective(ids)
    PROVE  /\ \A i \in DOMAIN ids : Index(ids, ids[i]) = i
           /\ \A id \in ToSet(ids) : /\ Index(ids, id) \in DOMAIN ids
                                     /\ Index(ids, id) \in Nat
                                     /\ ids[Index(ids, id)] = id
<1>1. DOMAIN ids \subseteq Nat
  OBVIOUS
<1>2. ASSUME NEW id \in ToSet(ids) PROVE Index(ids, id) \in DOMAIN ids /\ ids[Index(ids, id)] = id
  <2>1. \E i \in DOMAIN ids : ids[i] = id
    BY DEF ToSet
  <2>2. QED
    BY <2>1 DEF Index
<1>3. ASSUME NEW i \in DOMAIN ids PROVE Index(ids, ids[i]) = i
  <2>1. ids[i] \in ToSet(ids)
    BY DEF ToSet
  <2>2. QED
    BY <1>2, <2>1 DEF IsInjective
<1>4. QED
  BY <1>1, <1>2, <1>3

(* Some member of a set of registered probes was registered first. *)
LEMMA FirstRegistered ==
    ASSUME NEW ids \in Seq(Ids), IsInjective(ids), NEW R \in SUBSET ToSet(ids), R # {}
    PROVE  \E x \in R : \A y \in R : Index(ids, x) <= Index(ids, y)
<1> DEFINE indices == {Index(ids, x) : x \in R}
<1>1. indices \in SUBSET Nat /\ indices # {}
  BY IndexIs
<1>2. PICK least \in indices : \A k \in indices : least <= k
  <2> HIDE DEF indices
  <2>1. QED
    BY <1>1, LeastElement
<1>3. PICK x \in R : Index(ids, x) = least
  BY <1>2
<1>4. QED
  BY <1>2, <1>3

-----------------------------------------------------------------------------
(* kahnTopoSort.                                                           *)

(* The declared dependencies of x that are not in the plan. *)
Owed(x, order, deps) == {i \in DOMAIN deps[x] : deps[x][i] \notin ToSet(order)}

(* The loop's variables after any number of turns. *)
Kahn(s, ids, deps) ==
    /\ s = [degree |-> s.degree, ready |-> s.ready, plan |-> s.plan]
    /\ s.degree = [x \in ToSet(ids) |-> Cardinality(Owed(x, s.plan, deps))]
    /\ s.ready = {x \in ToSet(ids) \ ToSet(s.plan) : Owed(x, s.plan, deps) = {}}
    /\ Follows(s.plan, ids, deps)

LEMMA OwedIs ==
    ASSUME NEW ids, NEW deps, Registry(ids, deps), NEW x \in ToSet(ids), NEW order
    PROVE  /\ IsFiniteSet(Owed(x, order, deps))
           /\ Cardinality(Owed(x, order, deps)) \in Nat
           /\ Cardinality(Owed(x, order, deps)) = 0 <=> Owed(x, order, deps) = {}
           /\ Owed(x, order, deps) = {} <=> ToSet(deps[x]) \subseteq ToSet(order)
<1>1. IsFiniteSet(DOMAIN deps[x])
  BY DeclarationType
<1>2. Owed(x, order, deps) \subseteq DOMAIN deps[x]
  BY DEF Owed
<1>3. IsFiniteSet(Owed(x, order, deps))
  BY <1>1, <1>2, FS_Subset
<1>4. Owed(x, order, deps) = {} <=> ToSet(deps[x]) \subseteq ToSet(order)
  BY DEF Owed, ToSet
<1>5. QED
  BY <1>3, <1>4, FS_CardinalityType, FS_EmptySet

LEMMA AppendIs ==
    ASSUME NEW S, NEW q \in Seq(S), NEW x \in S
    PROVE  /\ Append(q, x) \in Seq(S) /\ Len(q) \in Nat /\ DOMAIN q = 1..Len(q)
           /\ Len(Append(q, x)) = Len(q) + 1 /\ DOMAIN Append(q, x) = 1..(Len(q) + 1)
           /\ \A i \in 1..Len(q) : Append(q, x)[i] = q[i]
           /\ Append(q, x)[Len(q) + 1] = x
           /\ ToSet(Append(q, x)) = ToSet(q) \cup {x}
           /\ \A i \in 1..Len(q) : Before(Append(q, x), i) = Before(q, i)
           /\ Before(Append(q, x), Len(q) + 1) = ToSet(q)
<1> DEFINE longer == Append(q, x)
<1>1. /\ longer \in Seq(S) /\ Len(q) \in Nat /\ DOMAIN q = 1..Len(q)
      /\ Len(longer) = Len(q) + 1 /\ DOMAIN longer = 1..(Len(q) + 1)
      /\ \A i \in 1..Len(q) : longer[i] = q[i]
      /\ longer[Len(q) + 1] = x
  OBVIOUS
<1> HIDE DEF longer
<1>2. ToSet(longer) = ToSet(q) \cup {x}
  <2>1. \A i \in 1..(Len(q) + 1) : i \in 1..Len(q) \/ i = Len(q) + 1
    BY <1>1
  <2>2. \A i \in 1..Len(q) : i \in 1..(Len(q) + 1)
    BY <1>1
  <2>3. Len(q) + 1 \in 1..(Len(q) + 1)
    BY <1>1
  <2>4. QED
    BY <1>1, <2>1, <2>2, <2>3 DEF ToSet
<1>3. ASSUME NEW i \in 1..Len(q) PROVE Before(longer, i) = Before(q, i)
  <2>1. \A j \in 1..(i - 1) : j \in 1..Len(q)
    BY <1>1
  <2>2. QED
    BY <1>1, <2>1 DEF Before
<1>4. Before(longer, Len(q) + 1) = ToSet(q)
  <2>1. 1..(Len(q) + 1 - 1) = 1..Len(q)
    BY <1>1
  <2>2. QED
    BY <1>1, <2>1 DEF Before, ToSet
<1>5. QED
  BY <1>1, <1>2, <1>3, <1>4 DEF longer

(* A turn of the loop emits the first registered probe that owes nothing.  *)
LEMMA KahnStepKeeps ==
    ASSUME NEW deps, Registry(orderedIDs, deps),
           NEW s, Kahn(s, orderedIDs, deps), s.ready # {}
    PROVE  /\ Kahn(KahnStep(s, deps), orderedIDs, deps)
           /\ Len(KahnStep(s, deps).plan) = Len(s.plan) + 1
<1> DEFINE ids == orderedIDs
           R == ToSet(ids)
           id == CHOOSE x \in s.ready : \A y \in s.ready : RegIndex(x) <= RegIndex(y)
           t == KahnStep(s, deps)
           E == ToSet(s.plan)
<1>1. ids \in Seq(Ids) /\ IsInjective(ids)
  BY DEF Registry
<1>2. /\ id \in s.ready /\ \A y \in s.ready : Index(ids, id) <= Index(ids, y)
  <2>1. s.ready \in SUBSET R
    BY DEF Kahn
  <2>2. \E x \in s.ready : \A y \in s.ready : Index(ids, x) <= Index(ids, y)
    <3> HIDE DEF ids
    <3>1. QED
      BY <1>1, <2>1, FirstRegistered
  <2>3. \A x : RegIndex(x) = Index(ids, x)
    BY DEF RegIndex, Index
  <2>4. \E x \in s.ready : \A y \in s.ready : RegIndex(x) <= RegIndex(y)
    BY <2>2, <2>3
  <2>5. id \in s.ready /\ \A y \in s.ready : RegIndex(id) <= RegIndex(y)
    BY <2>4
  <2> HIDE DEF id
  <2>6. QED
    BY <2>3, <2>5
<1>3. /\ t.plan = Append(s.plan, id)
      /\ t.degree = [x \in R |-> s.degree[x] - Occurrences(x, id, deps)]
      /\ t.ready = (s.ready \ {id}) \cup {x \in R : s.degree[x] > 0 /\ t.degree[x] = 0}
      /\ t = [degree |-> t.degree, ready |-> t.ready, plan |-> t.plan]
  BY DEF KahnStep, Registered
<1> HIDE DEF id, t
<1>4. /\ id \in R /\ id \notin E /\ Owed(id, s.plan, deps) = {}
      /\ s.plan \in Seq(R) /\ IsInjective(s.plan)
  BY <1>2 DEF Kahn, Follows
<1>5. /\ t.plan \in Seq(R) /\ Len(s.plan) \in Nat /\ DOMAIN s.plan = 1..Len(s.plan)
      /\ Len(t.plan) = Len(s.plan) + 1 /\ DOMAIN t.plan = 1..(Len(s.plan) + 1)
      /\ \A i \in 1..Len(s.plan) : t.plan[i] = s.plan[i]
      /\ t.plan[Len(s.plan) + 1] = id
      /\ ToSet(t.plan) = E \cup {id}
      /\ \A i \in 1..Len(s.plan) : Before(t.plan, i) = Before(s.plan, i)
      /\ Before(t.plan, Len(s.plan) + 1) = E
  <2> HIDE DEF R, E
  <2>1. QED
    BY <1>3, <1>4, AppendIs DEF E
<1>6. \A x \in R : /\ Cardinality(Owed(x, s.plan, deps)) \in Nat
                   /\ s.degree[x] = Cardinality(Owed(x, s.plan, deps))
                   /\ s.degree[x] = 0 <=> Owed(x, s.plan, deps) = {}
                   /\ Owed(x, s.plan, deps) = {} <=> ToSet(deps[x]) \subseteq E
                   /\ Cardinality(Owed(x, t.plan, deps)) \in Nat
                   /\ Cardinality(Owed(x, t.plan, deps)) = 0 <=> Owed(x, t.plan, deps) = {}
  BY OwedIs DEF Kahn
<1>7. ASSUME NEW x \in R
      PROVE  s.degree[x] - Occurrences(x, id, deps) = Cardinality(Owed(x, t.plan, deps))
  <2> DEFINE uses == {i \in DOMAIN deps[x] : deps[x][i] = id}
             owed == Owed(x, s.plan, deps)
  <2>1. IsFiniteSet(owed)
    BY OwedIs
  <2>2. Owed(x, t.plan, deps) = owed \ uses /\ owed \cap uses = uses
    BY <1>4, <1>5 DEF Owed
  <2>3. Cardinality(owed \ uses) = Cardinality(owed) - Cardinality(owed \cap uses)
    <3> HIDE DEF owed, uses
    <3>1. QED
      BY <2>1, FS_Difference
  <2>4. Occurrences(x, id, deps) = Cardinality(uses)
    BY DEF Occurrences
  <2>5. s.degree[x] = Cardinality(owed)
    BY <1>6
  <2> HIDE DEF owed, uses
  <2>6. QED
    BY <2>2, <2>3, <2>4, <2>5
<1>8. t.degree = [x \in R |-> Cardinality(Owed(x, t.plan, deps))]
  BY <1>3, <1>7
<1>9. \A x \in R : Owed(x, t.plan, deps) \subseteq Owed(x, s.plan, deps)
  BY <1>5 DEF Owed
<1>10. t.ready = {x \in R \ ToSet(t.plan) : Owed(x, t.plan, deps) = {}}
  <2>1. s.ready = {x \in R \ E : Owed(x, s.plan, deps) = {}}
    BY DEF Kahn
  <2>2. \A x \in R : /\ s.degree[x] > 0 <=> Owed(x, s.plan, deps) # {}
                     /\ t.degree[x] = 0 <=> Owed(x, t.plan, deps) = {}
    <3>1. \A x \in R : s.degree[x] \in Nat /\ (s.degree[x] = 0 <=> Owed(x, s.plan, deps) = {})
      BY <1>6
    <3>2. \A x \in R : t.degree[x] = 0 <=> Owed(x, t.plan, deps) = {}
      BY <1>6, <1>8
    <3>3. \A x \in R : s.degree[x] > 0 <=> s.degree[x] # 0
      BY <3>1
    <3>4. QED
      BY <3>1, <3>2, <3>3
  <2>3. \A x \in E : Owed(x, s.plan, deps) = {} /\ x \in R
    <3>1. ASSUME NEW x \in E PROVE x \in R /\ ToSet(deps[x]) \subseteq E
      <4>1. PICK i \in DOMAIN s.plan : x = s.plan[i]
        BY DEF ToSet
      <4>2. ToSet(deps[s.plan[i]]) \subseteq Before(s.plan, i)
        BY DEF Kahn, Follows
      <4>3. \A j \in 1..(i - 1) : j \in DOMAIN s.plan
        BY <1>5
      <4>4. Before(s.plan, i) \subseteq E
        BY <4>3 DEF Before, ToSet
      <4>5. s.plan[i] \in R
        BY <1>4
      <4>6. QED
        BY <4>1, <4>2, <4>4, <4>5
    <3>2. QED
      BY <1>6, <3>1
  <2> HIDE DEF R, E
  <2>4. \A x \in R : x \in t.ready <=> x \notin ToSet(t.plan) /\ Owed(x, t.plan, deps) = {}
    BY <1>3, <1>4, <1>5, <1>9, <2>1, <2>2, <2>3
  <2>5. t.ready \subseteq R
    BY <1>3, <2>1
  <2>6. QED
    BY <2>4, <2>5
<1>11. Follows(t.plan, ids, deps)
  <2>1. IsInjective(t.plan)
    <3>1. SUFFICES ASSUME NEW i \in DOMAIN t.plan, NEW j \in DOMAIN t.plan, t.plan[i] = t.plan[j]
                   PROVE  i = j
      BY DEF IsInjective
    <3>2. \A k \in DOMAIN t.plan : k \in 1..Len(s.plan) \/ k = Len(s.plan) + 1
      BY <1>5
    <3>3. \A k \in 1..Len(s.plan) : t.plan[k] # id
      BY <1>4, <1>5 DEF ToSet
    <3>4. CASE i \in 1..Len(s.plan) /\ j \in 1..Len(s.plan)
      BY <1>4, <1>5, <3>1, <3>4 DEF IsInjective
    <3>5. QED
      BY <1>5, <3>1, <3>2, <3>3, <3>4
  <2>2. ASSUME NEW i \in DOMAIN t.plan
        PROVE  /\ ToSet(deps[t.plan[i]]) \subseteq Before(t.plan, i)
               /\ \A y \in R \ Before(t.plan, i) :
                    ToSet(deps[y]) \subseteq Before(t.plan, i) =>
                        Index(ids, t.plan[i]) <= Index(ids, y)
    <3>1. CASE i \in 1..Len(s.plan)
      BY <1>5, <3>1 DEF Kahn, Follows
    <3>2. CASE i = Len(s.plan) + 1
      <4>1. t.plan[i] = id /\ Before(t.plan, i) = E
        BY <1>5, <3>2
      <4>2. ToSet(deps[id]) \subseteq E
        BY <1>4, <1>6
      <4>3. ASSUME NEW y \in R \ E, ToSet(deps[y]) \subseteq E
            PROVE  Index(ids, id) <= Index(ids, y)
        <5>1. y \in s.ready
          BY <1>6, <4>3 DEF Kahn
        <5>2. QED
          BY <1>2, <5>1
      <4>4. QED
        BY <4>1, <4>2, <4>3
    <3>3. i \in 1..Len(s.plan) \/ i = Len(s.plan) + 1
      BY <1>5
    <3>4. QED
      BY <3>1, <3>2, <3>3
  <2>3. QED
    BY <1>5, <2>1, <2>2 DEF Follows
<1>12. QED
  BY <1>3, <1>5, <1>8, <1>10, <1>11 DEF Kahn, t

LEMMA InjectiveSize ==
    ASSUME NEW S, NEW q \in Seq(S), IsInjective(q)
    PROVE  IsFiniteSet(ToSet(q)) /\ Cardinality(ToSet(q)) = Len(q) /\ Len(q) \in Nat
<1>1. q \in [1..Len(q) -> S] /\ Len(q) \in Nat
  OBVIOUS
<1>2. q \in Bijection(1..Len(q), ToSet(q))
  BY <1>1, Fun_IsBij DEF ToSet, IsInjective
<1>3. IsFiniteSet(1..Len(q)) /\ Cardinality(1..Len(q)) = Len(q)
  <2>1. \A n \in Nat : n \in Int /\ (IF 1 > n THEN 0 ELSE n - 1 + 1) = n
    OBVIOUS
  <2>2. \A n \in Int : IsFiniteSet(1..n) /\ Cardinality(1..n) = IF 1 > n THEN 0 ELSE n - 1 + 1
    BY FS_Interval
  <2>3. QED
    BY <1>1, <2>1, <2>2
<1>4. QED
  BY <1>1, <1>2, <1>3, FS_Bijection DEF ExistsBijection

LEMMA PlanSize ==
    ASSUME NEW ids, NEW deps, Registry(ids, deps), NEW order, Follows(order, ids, deps)
    PROVE  /\ Len(order) \in Nat /\ Len(ids) \in Nat
           /\ Len(order) <= Len(ids)
           /\ Len(order) = Len(ids) <=> ToSet(order) = ToSet(ids)
<1>1. /\ IsFiniteSet(ToSet(ids)) /\ Cardinality(ToSet(ids)) = Len(ids) /\ Len(ids) \in Nat
  BY InjectiveSize DEF Registry
<1>2. /\ IsFiniteSet(ToSet(order)) /\ Cardinality(ToSet(order)) = Len(order) /\ Len(order) \in Nat
  BY InjectiveSize DEF Follows
<1>3. ToSet(order) \in SUBSET ToSet(ids)
  BY DEF Follows, ToSet
<1>4. QED
  BY <1>1, <1>2, <1>3, FS_Subset

(* The loop ends with everything in the plan or with nothing ready: every  *)
(* probe left out depends on one left out.                                 *)
LEMMA KahnSays ==
    ASSUME NEW deps, Registry(orderedIDs, deps)
    PROVE  /\ Follows(KahnTopoSort(deps), orderedIDs, deps)
           /\ \/ Len(KahnTopoSort(deps)) = Len(orderedIDs)
              \/ \A y \in ToSet(orderedIDs) \ ToSet(KahnTopoSort(deps)) :
                    ~(ToSet(deps[y]) \subseteq ToSet(KahnTopoSort(deps)))
<1> DEFINE ids == orderedIDs
           R == ToSet(ids)
           turns == Len(ids)
           start == [degree |-> [x \in R |-> Len(deps[x])],
                     ready  |-> {x \in R : Len(deps[x]) = 0},
                     plan   |-> <<>>]
           All == {s \in [degree : [R -> Nat], ready : SUBSET R, plan : Seq(R)] :
                     Kahn(s, ids, deps)}
           step == [s \in All |-> IF s.ready = {} THEN s ELSE KahnStep(s, deps)]
           loop == CHOOSE f : f = [k \in 0..turns |->
                                     IF k = 0 THEN start
                                     ELSE IF f[k - 1].ready = {} THEN f[k - 1]
                                     ELSE KahnStep(f[k - 1], deps)]
<1>1. turns \in Nat /\ ids \in Seq(Ids)
  BY DEF Registry
<1>2. Kahn(start, ids, deps)
  <2>1. \A x \in R : /\ Len(deps[x]) \in Nat
                     /\ Owed(x, <<>>, deps) = DOMAIN deps[x]
                     /\ Cardinality(Owed(x, <<>>, deps)) = Len(deps[x])
                     /\ Len(deps[x]) = 0 <=> Owed(x, <<>>, deps) = {}
    <3>1. ASSUME NEW x \in R
          PROVE  /\ Len(deps[x]) \in Nat
                 /\ Owed(x, <<>>, deps) = DOMAIN deps[x]
                 /\ Cardinality(Owed(x, <<>>, deps)) = Len(deps[x])
      <4>1. ToSet(<<>>) = {}
        BY DEF ToSet
      <4>2. Owed(x, <<>>, deps) = DOMAIN deps[x]
        BY <4>1 DEF Owed
      <4>3. QED
        BY <4>2, DeclarationType
    <3>2. ASSUME NEW x \in R PROVE Len(deps[x]) = 0 <=> Owed(x, <<>>, deps) = {}
      BY <3>1, OwedIs
    <3>3. QED
      BY <3>1, <3>2
  <2>2. ToSet(<<>>) = {}
    BY DEF ToSet
  <2>3. Follows(<<>>, ids, deps)
    BY DEF Follows, IsInjective
  <2>4. /\ start.plan = <<>> /\ start.degree = [x \in R |-> Len(deps[x])]
        /\ start.ready = {x \in R : Len(deps[x]) = 0}
        /\ start = [degree |-> start.degree, ready |-> start.ready, plan |-> start.plan]
    OBVIOUS
  <2> HIDE DEF start, R, ids
  <2>5. start.degree = [x \in R |-> Cardinality(Owed(x, <<>>, deps))]
    BY <2>1, <2>4
  <2>6. start.ready = {x \in R \ ToSet(<<>>) : Owed(x, <<>>, deps) = {}}
    BY <2>1, <2>2, <2>4
  <2>7. QED
    BY <2>3, <2>4, <2>5, <2>6 DEF Kahn, R
<1>3. ASSUME NEW s, Kahn(s, ids, deps) PROVE s \in All
  <2>1. s.degree \in [R -> Nat]
    <3>1. \A x \in R : Cardinality(Owed(x, s.plan, deps)) \in Nat
      BY OwedIs
    <3>2. QED
      BY <1>3, <3>1 DEF Kahn
  <2>2. s.ready \in SUBSET R /\ s.plan \in Seq(R)
    BY <1>3 DEF Kahn, Follows
  <2>3. s = [degree |-> s.degree, ready |-> s.ready, plan |-> s.plan]
    BY <1>3 DEF Kahn
  <2>4. s \in [degree : [R -> Nat], ready : SUBSET R, plan : Seq(R)]
    <3> DEFINE D == [R -> Nat]
               Q == Seq(R)
    <3>1. s.degree \in D /\ s.plan \in Q
      BY <2>1, <2>2
    <3> HIDE DEF D, Q, R
    <3>2. s \in [degree : D, ready : SUBSET R, plan : Q]
      BY <2>2, <2>3, <3>1
    <3>3. QED
      BY <3>2 DEF D, Q
  <2>5. QED
    BY <1>3, <2>4
<1>4. \A s \in All : Kahn(s, ids, deps)
  OBVIOUS
<1>5. \A s \in All : s.ready # {} => KahnStep(s, deps) \in All
  <2>1. ASSUME NEW s \in All, s.ready # {} PROVE KahnStep(s, deps) \in All
    <3>1. Kahn(KahnStep(s, deps), ids, deps)
      BY <1>4, <2>1, KahnStepKeeps
    <3>2. QED
      BY <1>3, <3>1
  <2>2. QED
    BY <2>1
<1> HIDE DEF All, start, turns
<1>6. Repeats(All, start, step, turns)
  <2>1. step \in [All -> All] /\ start \in All
    BY <1>2, <1>3, <1>5
  <2> HIDE DEF step
  <2>2. QED
    BY <1>1, <2>1, Iteration DEF turns
<1>7. PICK run \in [0..turns -> All] :
        run[0] = start /\ \A k \in 1..turns : run[k] = step[run[k - 1]]
  BY <1>6 DEF Repeats
<1>8. run = [k \in 0..turns |-> IF k = 0 THEN start
                                ELSE IF run[k - 1].ready = {} THEN run[k - 1]
                                ELSE KahnStep(run[k - 1], deps)]
  <2>1. ASSUME NEW k \in 0..turns, k # 0
        PROVE  run[k] = IF run[k - 1].ready = {} THEN run[k - 1] ELSE KahnStep(run[k - 1], deps)
    <3>1. k \in 1..turns /\ k - 1 \in 0..turns
      BY <1>1, <2>1 DEF turns
    <3>2. run[k - 1] \in All /\ run[k] = step[run[k - 1]]
      BY <1>7, <3>1
    <3>3. QED
      BY <3>2
  <2> HIDE DEF step
  <2>2. QED
    BY <1>7, <2>1
<1>9. loop = [k \in 0..turns |-> IF k = 0 THEN start
                                 ELSE IF loop[k - 1].ready = {} THEN loop[k - 1]
                                 ELSE KahnStep(loop[k - 1], deps)]
  BY <1>8
<1>10. KahnTopoSort(deps) = loop[turns].plan
  BY DEF KahnTopoSort, Registered, start, turns
<1> HIDE DEF loop
<1> DEFINE Runs == {k \in Nat : k <= turns =>
                      /\ Kahn(loop[k], ids, deps)
                      /\ Len(loop[k].plan) = k \/ loop[k].ready = {}}
<1>11. 0 \in Runs
  <2>1. loop[0] = start
    BY <1>1, <1>9 DEF turns
  <2>2. start.plan = <<>>
    BY DEF start
  <2>3. QED
    BY <1>2, <2>1, <2>2
<1>12. ASSUME NEW k \in Nat, k \in Runs PROVE k + 1 \in Runs
  <2>1. SUFFICES ASSUME k + 1 <= turns
                 PROVE  /\ Kahn(loop[k + 1], ids, deps)
                        /\ Len(loop[k + 1].plan) = k + 1 \/ loop[k + 1].ready = {}
    OBVIOUS
  <2>2. Kahn(loop[k], ids, deps) /\ (Len(loop[k].plan) = k \/ loop[k].ready = {})
    BY <1>1, <1>12, <2>1 DEF turns
  <2>3. loop[k + 1] = IF loop[k].ready = {} THEN loop[k] ELSE KahnStep(loop[k], deps)
    <3>1. k + 1 \in 0..turns /\ k + 1 # 0 /\ k + 1 - 1 = k
      BY <1>1, <2>1 DEF turns
    <3>2. \A n \in 0..turns : n # 0 =>
            loop[n] = IF loop[n - 1].ready = {} THEN loop[n - 1]
                      ELSE KahnStep(loop[n - 1], deps)
      BY <1>9
    <3>3. loop[k + 1] = IF loop[k + 1 - 1].ready = {} THEN loop[k + 1 - 1]
                        ELSE KahnStep(loop[k + 1 - 1], deps)
      BY <3>1, <3>2
    <3>4. QED
      BY <3>1, <3>3
  <2>4. CASE loop[k].ready = {}
    BY <2>2, <2>3, <2>4
  <2>5. CASE loop[k].ready # {}
    BY <2>2, <2>3, <2>5, KahnStepKeeps
  <2>6. QED
    BY <2>4, <2>5
<1>13. turns \in Runs
  <2> HIDE DEF Runs
  <2>1. QED
    BY <1>1, <1>11, <1>12, NatSet DEF turns
<1>14. /\ Kahn(loop[turns], ids, deps)
       /\ Len(loop[turns].plan) = turns \/ loop[turns].ready = {}
  BY <1>1, <1>13 DEF turns
<1>15. Follows(KahnTopoSort(deps), ids, deps)
  BY <1>10, <1>14 DEF Kahn
<1>16. CASE loop[turns].ready = {}
  <2> DEFINE order == loop[turns].plan
  <2>1. {x \in R \ ToSet(order) : Owed(x, order, deps) = {}} = {}
    BY <1>14, <1>16 DEF Kahn
  <2>2. ASSUME NEW y \in R \ ToSet(order) PROVE ~(ToSet(deps[y]) \subseteq ToSet(order))
    <3>1. Owed(y, order, deps) # {}
      BY <2>1
    <3>2. QED
      BY <3>1, OwedIs
  <2> HIDE DEF order
  <2>3. order = KahnTopoSort(deps)
    BY <1>10 DEF order
  <2>4. QED
    BY <1>15, <2>2, <2>3
<1>17. CASE Len(loop[turns].plan) = turns
  BY <1>10, <1>15, <1>17 DEF turns
<1>18. QED
  BY <1>14, <1>16, <1>17
-----------------------------------------------------------------------------
(* The topological orders of the registered probes.                        *)

LEMMA OrdersAre ==
    ASSUME NEW ids, NEW deps, Registry(ids, deps), NEW s \in Orders(ids, deps)
    PROVE  /\ s \in [1..Len(ids) -> ToSet(ids)] /\ Len(ids) \in Nat
           /\ \A i, j \in 1..Len(ids) : s[i] = s[j] => i = j
           /\ \A i, j \in 1..Len(ids) : s[j] \in ToSet(deps[s[i]]) => j < i
           /\ \A x \in ToSet(ids) : \E i \in 1..Len(ids) : s[i] = x
<1> DEFINE R == ToSet(ids)
           n == Len(ids)
<1>1. IsFiniteSet(R) /\ Cardinality(R) = n /\ n \in Nat
  BY InjectiveSize DEF Registry
<1>2. s \in [1..n -> R] /\ \A i, j \in 1..n : i # j => s[i] # s[j]
  BY <1>1 DEF Orders, SetToSeqs
<1>3. DOMAIN s = 1..n
  BY <1>2
<1>4. ASSUME NEW i \in 1..n, NEW j \in 1..n, s[j] \in ToSet(deps[s[i]]) PROVE j < i
  <2> DEFINE uses == {k \in DOMAIN deps[s[i]] : deps[s[i]][k] = s[j]}
  <2>1. s[i] \in R
    BY <1>2
  <2>2. IsFiniteSet(DOMAIN deps[s[i]])
    BY <2>1, DeclarationType
  <2>3. uses # {}
    BY <1>4 DEF ToSet
  <2>4. IsFiniteSet(uses)
    BY <2>2, FS_Subset
  <2>5. Cardinality(uses) > 0
    <3> HIDE DEF uses
    <3>1. Cardinality(uses) \in Nat /\ Cardinality(uses) # 0
      BY <2>3, <2>4, FS_CardinalityType, FS_EmptySet
    <3>2. QED
      BY <3>1
  <2>6. QED
    BY <1>3, <2>5 DEF Orders
<1>5. \A x \in R : \E i \in 1..n : s[i] = x
  <2> HIDE DEF R, n
  <2>1. IsFiniteSet(1..n) /\ Cardinality(1..n) = n
    <3>1. \A m \in Nat : m \in Int /\ (IF 1 > m THEN 0 ELSE m - 1 + 1) = m
      OBVIOUS
    <3>2. \A m \in Int : IsFiniteSet(1..m) /\ Cardinality(1..m) = IF 1 > m THEN 0 ELSE m - 1 + 1
      BY FS_Interval
    <3>3. QED
      BY <1>1, <3>1, <3>2
  <2>2. s \in [1..n -> R] /\ \A i, j \in 1..n : s[i] = s[j] => i = j
    BY <1>2
  <2> DEFINE onto == {s[i] : i \in 1..n}
  <2>3. s \in Bijection(1..n, onto)
    BY <1>2, Fun_IsBij
  <2>4. Cardinality(onto) = n
    <3> HIDE DEF onto
    <3>1. ExistsBijection(1..n, onto)
      BY <2>3 DEF ExistsBijection
    <3>2. QED
      BY <2>1, <3>1, FS_Bijection
  <2>5. onto \in SUBSET R
    BY <1>2
  <2>6. onto = R
    <3> HIDE DEF onto
    <3>1. QED
      BY <1>1, <2>4, <2>5, FS_Subset
  <2>7. QED
    BY <2>6
<1>6. QED
  BY <1>1, <1>2, <1>4, <1>5

(* A full plan is an order, *)
LEMMA PlanIsAnOrder ==
    ASSUME NEW ids, NEW deps, Registry(ids, deps),
           NEW order, Follows(order, ids, deps), Len(order) = Len(ids)
    PROVE  order \in Orders(ids, deps) /\ Known(ids, deps)
<1> DEFINE R == ToSet(ids)
           n == Len(ids)
<1>1. IsFiniteSet(R) /\ Cardinality(R) = n /\ n \in Nat
  BY InjectiveSize DEF Registry
<1>2. ToSet(order) = R
  BY PlanSize
<1>3. order \in [1..n -> R]
  <2>1. order \in Seq(R)
    BY DEF Follows
  <2> HIDE DEF R
  <2>2. QED
    BY <2>1
<1>4. order \in SetToSeqs(R)
  BY <1>1, <1>3 DEF SetToSeqs, Follows, IsInjective
<1>5. ASSUME NEW i \in 1..n, NEW j \in 1..n, order[j] \in ToSet(deps[order[i]]) PROVE j < i
  <2>1. order[j] \in Before(order, i)
    BY <1>3, <1>5 DEF Follows
  <2>2. PICK l \in 1..(i - 1) : order[j] = order[l]
    BY <2>1 DEF Before
  <2>3. l \in 1..n /\ l < i
    BY <1>1
  <2>4. j = l
    BY <1>3, <2>2, <2>3 DEF Follows, IsInjective
  <2>5. QED
    BY <2>3, <2>4
<1>6. ASSUME NEW i \in 1..n, NEW j \in 1..n,
             Cardinality({k \in DOMAIN deps[order[i]] : deps[order[i]][k] = order[j]}) > 0
      PROVE  j < i
  <2> DEFINE uses == {k \in DOMAIN deps[order[i]] : deps[order[i]][k] = order[j]}
  <2>1. uses # {}
    <3>1. order[i] \in R
      BY <1>3
    <3>2. IsFiniteSet(DOMAIN deps[order[i]])
      BY <3>1, DeclarationType
    <3>3. IsFiniteSet(uses)
      BY <3>2, FS_Subset
    <3>4. Cardinality(uses) > 0
      BY <1>6
    <3> HIDE DEF uses
    <3>5. Cardinality(uses) \in Nat /\ (Cardinality(uses) = 0 <=> uses = {})
      BY <3>3, FS_CardinalityType, FS_EmptySet
    <3>6. QED
      BY <3>4, <3>5
  <2>2. order[j] \in ToSet(deps[order[i]])
    BY <2>1 DEF ToSet
  <2>3. QED
    BY <1>5, <2>2
<1>7. ASSUME NEW x \in R PROVE ToSet(deps[x]) \subseteq R
  <2>1. PICK i \in DOMAIN order : order[i] = x
    BY <1>2 DEF ToSet
  <2>2. ToSet(deps[x]) \subseteq Before(order, i)
    BY <2>1 DEF Follows
  <2>3. \A l \in 1..(i - 1) : l \in 1..n
    BY <1>1, <1>3
  <2>4. QED
    BY <1>3, <2>2, <2>3 DEF Before
<1>8. DOMAIN order = 1..n
  BY <1>3
<1>9. QED
  BY <1>4, <1>6, <1>7, <1>8 DEF Orders, Known

(* and before any other at the first place where they differ.              *)
LEMMA PlanIsFirst ==
    ASSUME NEW ids, NEW deps, Registry(ids, deps),
           NEW order, Follows(order, ids, deps), Len(order) = Len(ids),
           NEW s \in Orders(ids, deps), s # order
    PROVE  \E k \in DOMAIN order : /\ Index(ids, order[k]) < Index(ids, s[k])
                                  /\ \A j \in 1..(k - 1) : order[j] = s[j]
<1> DEFINE R == ToSet(ids)
           n == Len(ids)
           differ == {i \in 1..n : order[i] # s[i]}
<1>1. /\ s \in [1..n -> R] /\ n \in Nat
      /\ \A i, j \in 1..n : s[i] = s[j] => i = j
      /\ \A i, j \in 1..n : s[j] \in ToSet(deps[s[i]]) => j < i
      /\ \A x \in R : \E i \in 1..n : s[i] = x
  BY OrdersAre
<1>2. order \in [1..n -> R]
  <2>1. order \in Seq(R)
    BY DEF Follows
  <2> HIDE DEF R
  <2>2. QED
    BY <2>1
<1>3. differ # {} /\ differ \in SUBSET Nat
  BY <1>1, <1>2
<1>4. PICK k \in differ : \A i \in differ : k <= i
  <2> HIDE DEF differ
  <2>1. QED
    BY <1>3, LeastElement
<1>5. k \in 1..n /\ \A j \in 1..(k - 1) : j \in 1..n /\ order[j] = s[j]
  BY <1>1, <1>4
<1>6. Known(ids, deps)
  BY PlanIsAnOrder
<1>7. s[k] \in R \ Before(order, k)
  <2>1. s[k] \in R
    BY <1>1, <1>5
  <2>2. ASSUME NEW j \in 1..(k - 1) PROVE order[j] # s[k]
    BY <1>1, <1>5
  <2>3. QED
    BY <2>1, <2>2 DEF Before
<1>8. ToSet(deps[s[k]]) \subseteq Before(order, k)
  <2>1. SUFFICES ASSUME NEW y \in ToSet(deps[s[k]]) PROVE y \in Before(order, k)
    OBVIOUS
  <2>2. y \in R
    BY <1>6, <1>7 DEF Known
  <2>3. PICK j \in 1..n : s[j] = y
    BY <1>1, <2>2
  <2>4. j < k
    BY <1>1, <1>5, <2>3
  <2>5. j \in 1..(k - 1)
    BY <1>5, <2>4
  <2>6. QED
    BY <1>5, <2>3, <2>5 DEF Before
<1>9. Index(ids, order[k]) <= Index(ids, s[k])
  BY <1>2, <1>5, <1>7, <1>8 DEF Follows
<1>10. Index(ids, order[k]) # Index(ids, s[k])
  <2>1. order[k] \in R /\ s[k] \in R /\ order[k] # s[k]
    BY <1>1, <1>2, <1>4
  <2>2. QED
    BY <2>1, IndexIs DEF Registry
<1>11. Index(ids, order[k]) \in Nat /\ Index(ids, s[k]) \in Nat
  <2>1. order[k] \in R /\ s[k] \in R
    BY <1>1, <1>2, <1>5
  <2>2. QED
    BY <2>1, IndexIs DEF Registry
<1>12. QED
  BY <1>2, <1>5, <1>9, <1>10, <1>11

(* When the loop leaves probes out, there is no order: the first of one    *)
(* that is left out would have all its dependencies in the plan.           *)
LEMMA StuckMeansNoOrder ==
    ASSUME NEW ids, NEW deps, Registry(ids, deps), Known(ids, deps),
           NEW order, Follows(order, ids, deps), Len(order) # Len(ids),
           \A y \in ToSet(ids) \ ToSet(order) : ~(ToSet(deps[y]) \subseteq ToSet(order)),
           NEW s \in Orders(ids, deps)
    PROVE  FALSE
<1> DEFINE R == ToSet(ids)
           n == Len(ids)
           behind == {i \in 1..n : s[i] \notin ToSet(order)}
<1>1. /\ s \in [1..n -> R] /\ n \in Nat
      /\ \A i, j \in 1..n : s[j] \in ToSet(deps[s[i]]) => j < i
      /\ \A x \in R : \E i \in 1..n : s[i] = x
  BY OrdersAre
<1>2. ToSet(order) # R /\ ToSet(order) \subseteq R
  <2>1. ToSet(order) # R
    BY PlanSize
  <2>2. ToSet(order) \subseteq R
    BY DEF Follows, ToSet
  <2>3. QED
    BY <2>1, <2>2
<1>3. behind # {} /\ behind \in SUBSET Nat
  <2>1. PICK x \in R : x \notin ToSet(order)
    BY <1>2
  <2>2. PICK i \in 1..n : s[i] = x
    BY <1>1, <2>1
  <2>3. i \in behind
    BY <2>1, <2>2
  <2>4. \A i_1 \in 1..n : i_1 \in Nat
    BY <1>1
  <2>5. QED
    BY <2>3, <2>4
<1>4. PICK k \in behind : \A i \in behind : k <= i
  <2> HIDE DEF behind
  <2>1. QED
    BY <1>3, LeastElement
<1>5. ASSUME NEW y \in ToSet(deps[s[k]]) PROVE y \in ToSet(order)
  <2>1. y \in R
    BY <1>1, <1>4, <1>5 DEF Known
  <2>2. PICK j \in 1..n : s[j] = y
    BY <1>1, <2>1
  <2>3. j < k
    BY <1>1, <1>4, <1>5, <2>2
  <2>4. j \notin behind
    BY <1>4, <2>3
  <2>5. QED
    BY <2>2, <2>4
<1>6. QED
  BY <1>1, <1>4, <1>5
-----------------------------------------------------------------------------
(* Resolve's verdict.                                                      *)

LEMMA ComplaintSays ==
    ASSUME NEW deps, Registry(orderedIDs, deps), NEW id \in ToSet(orderedIDs)
    PROVE  /\ Complaint(id, deps) \in {"nil", "cycle", "unknown"}
           /\ Complaint(id, deps) = "nil" <=>
                id \notin ToSet(deps[id]) /\ ToSet(deps[id]) \subseteq ToSet(orderedIDs)
<1> DEFINE bad == {i \in DOMAIN deps[id] :
                     deps[id][i] = id \/ deps[id][i] \notin Registered}
<1>1. bad = {} <=> id \notin ToSet(deps[id]) /\ ToSet(deps[id]) \subseteq ToSet(orderedIDs)
  BY DEF ToSet, Registered
<1>2. Complaint(id, deps) = IF bad = {} THEN "nil"
                            ELSE IF deps[id][Min(bad)] = id THEN "cycle" ELSE "unknown"
  BY DEF Complaint
<1> HIDE DEF bad
<1>3. QED
  BY <1>1, <1>2

(* The validation loops pass what names registered probes only, and no     *)
(* probe itself.                                                           *)
LEMMA ValidateSays ==
    ASSUME NEW deps, Registry(orderedIDs, deps)
    PROVE  /\ Validate(deps) \in {"nil", "cycle", "unknown"}
           /\ Validate(deps) = "nil" <=>
                /\ Known(orderedIDs, deps)
                /\ \A id \in ToSet(orderedIDs) : id \notin ToSet(deps[id])
<1> DEFINE bad == {i \in DOMAIN orderedIDs : Complaint(orderedIDs[i], deps) # "nil"}
<1>1. DOMAIN orderedIDs \in SUBSET Nat
  BY DEF Registry
<1>2. \A i \in DOMAIN orderedIDs : orderedIDs[i] \in ToSet(orderedIDs)
  BY DEF ToSet
<1>3. Validate(deps) = IF bad = {} THEN "nil" ELSE Complaint(orderedIDs[Min(bad)], deps)
  BY DEF Validate
<1>4. CASE bad = {}
  <2>1. \A i \in DOMAIN orderedIDs : Complaint(orderedIDs[i], deps) = "nil"
    BY <1>4
  <2>2. \A id \in ToSet(orderedIDs) : Complaint(id, deps) = "nil"
    BY <2>1 DEF ToSet
  <2>3. \A id \in ToSet(orderedIDs) :
          id \notin ToSet(deps[id]) /\ ToSet(deps[id]) \subseteq ToSet(orderedIDs)
    BY <2>2, ComplaintSays
  <2>4. QED
    BY <1>3, <1>4, <2>3 DEF Known
<1>5. CASE bad # {}
  <2>1. Min(bad) \in bad
    <3>1. bad \in SUBSET Nat
      BY <1>1
    <3> HIDE DEF bad
    <3>2. QED
      BY <1>5, <3>1, MinIsLeast
  <2> DEFINE id == orderedIDs[Min(bad)]
  <2>2. id \in ToSet(orderedIDs) /\ Complaint(id, deps) # "nil"
    BY <1>2, <2>1
  <2>3. Validate(deps) = Complaint(id, deps)
    BY <1>3, <1>5
  <2> HIDE DEF id
  <2>4. Complaint(id, deps) \in {"nil", "cycle", "unknown"}
    BY <2>2, ComplaintSays
  <2>5. ~(id \notin ToSet(deps[id]) /\ ToSet(deps[id]) \subseteq ToSet(orderedIDs))
    BY <2>2, ComplaintSays
  <2>6. QED
    BY <2>2, <2>3, <2>4, <2>5 DEF Known
<1>6. QED
  BY <1>4, <1>5

(* The error Resolve seals the registry with. *)
Verdict(deps) ==
    IF Validate(deps) # "nil" THEN Validate(deps)
    ELSE IF Len(KahnTopoSort(deps)) # Len(orderedIDs) THEN "cycle" ELSE "nil"

LEMMA VerdictSays ==
    ASSUME NEW deps, Registry(orderedIDs, deps)
    PROVE  /\ Verdict(deps) \in {"nil", "cycle", "unknown"}
           /\ Verdict(deps) = "nil" <=>
                Known(orderedIDs, deps) /\ Orders(orderedIDs, deps) # {}
           /\ Verdict(deps) = "nil" =>
                /\ Follows(KahnTopoSort(deps), orderedIDs, deps)
                /\ Len(KahnTopoSort(deps)) = Len(orderedIDs)
<1> DEFINE order == KahnTopoSort(deps)
<1>1. Verdict(deps) \in {"nil", "cycle", "unknown"}
  BY ValidateSays DEF Verdict
<1>2. Verdict(deps) = "nil" => Len(order) = Len(orderedIDs)
  BY DEF Verdict
<1>3. Follows(order, orderedIDs, deps)
  BY KahnSays
<1>4. Verdict(deps) = "nil" => Known(orderedIDs, deps) /\ Orders(orderedIDs, deps) # {}
  <2> HIDE DEF order
  <2>1. QED
    BY <1>2, <1>3, PlanIsAnOrder
<1>5. ASSUME Known(orderedIDs, deps), NEW s \in Orders(orderedIDs, deps)
      PROVE  Verdict(deps) = "nil"
  <2>1. Len(order) = Len(orderedIDs)
    <3>1. Len(order) = Len(orderedIDs)
             \/ \A y \in ToSet(orderedIDs) \ ToSet(order) : ~(ToSet(deps[y]) \subseteq ToSet(order))
      BY KahnSays
    <3> HIDE DEF order
    <3>2. QED
      BY <1>3, <1>5, <3>1, StuckMeansNoOrder
  <2>2. ASSUME NEW id \in ToSet(orderedIDs) PROVE id \notin ToSet(deps[id])
    <3>1. Len(orderedIDs) \in Nat
      BY DEF Registry
    <3>2. \E i \in 1..Len(orderedIDs) : s[i] = id
      BY <1>5, OrdersAre
    <3>3. \A i, j \in 1..Len(orderedIDs) : s[j] \in ToSet(deps[s[i]]) => j < i
      BY <1>5, OrdersAre
    <3>4. \A i \in 1..Len(orderedIDs) : ~(i < i)
      BY <3>1
    <3>5. QED
      BY <3>2, <3>3, <3>4
  <2>3. Validate(deps) = "nil"
    BY <1>5, <2>2, ValidateSays
  <2>4. QED
    BY <2>1, <2>3 DEF Verdict
<1>6. QED
  BY <1>1, <1>2, <1>3, <1>4, <1>5
-----------------------------------------------------------------------------
(* compilePlan.                                                            *)

(* The first j nodes of a downstream row: each as often as it has edges,   *)
(* in registration order.                                                  *)
Row(q, j, edges) ==
    /\ q \in Seq(1..j)
    /\ \A m \in 1..j : Cardinality({k \in DOMAIN q : q[k] = m}) = edges[m]
    /\ \A k, l \in DOMAIN q : k < l => q[k] <= q[l]

(* One more node. *)
Grown(q, j, edges) == q \o [k \in 1..edges[j] |-> j]

LEMMA RowGrows ==
    ASSUME NEW n \in Nat, NEW edges \in [1..n -> Nat],
           NEW j \in 1..n, NEW q, Row(q, j - 1, edges)
    PROVE  Row(Grown(q, j, edges), j, edges)
<1> DEFINE c == [k \in 1..edges[j] |-> j]
           t == q \o c
           S == 1..j
           e == edges[j]
<1>1. e \in Nat /\ j \in Nat
  OBVIOUS
<1>2. q \in Seq(S) /\ Len(q) \in Nat /\ DOMAIN q = 1..Len(q) /\ \A k \in DOMAIN q : q[k] \in 1..(j - 1)
  <2>1. q \in [1..Len(q) -> 1..(j - 1)] /\ Len(q) \in Nat
    BY DEF Row
  <2>2. \A k \in 1..Len(q) : q[k] \in S
    BY <2>1
  <2>3. q \in [1..Len(q) -> S]
    BY <2>1, <2>2
  <2> HIDE DEF S
  <2>4. q \in Seq(S)
    BY <2>1, <2>3, SeqDef
  <2>5. QED
    BY <2>1, <2>4
<1>3. c \in Seq(S) /\ Len(c) = e /\ \A k \in 1..e : c[k] = j
  <2>1. j \in S
    BY <1>1
  <2> HIDE DEF S, e
  <2>2. c \in [1..e -> S]
    BY <2>1 DEF e
  <2> HIDE DEF c
  <2>3. c \in Seq(S)
    <3>1. Seq(S) = UNION {[1..m -> S] : m \in Nat}
      BY SeqDef
    <3>2. \A m \in Nat : [1..m -> S] \subseteq Seq(S)
      BY <3>1
    <3>3. e \in Nat
      BY <1>1 DEF e
    <3>4. [1..e -> S] \subseteq Seq(S)
      BY <3>2, <3>3
    <3>5. QED
      BY <2>2, <3>4
  <2>4. Len(c) = e
    BY <1>1, <2>2, <2>3
  <2>5. QED
    BY <2>3, <2>4 DEF c, e
<1> HIDE DEF c, S, e
<1>4. /\ t \in Seq(S) /\ Len(t) = Len(q) + e
      /\ \A k \in 1..(Len(q) + e) : t[k] = IF k <= Len(q) THEN q[k] ELSE c[k - Len(q)]
  BY <1>1, <1>2, <1>3, ConcatProperties
<1>5. DOMAIN t = 1..(Len(q) + e)
  BY <1>4
<1> HIDE DEF t
<1>6. ASSUME NEW k \in 1..(Len(q) + e)
      PROVE  \/ k \in 1..Len(q) /\ t[k] = q[k] /\ t[k] \in 1..(j - 1)
             \/ k \notin 1..Len(q) /\ t[k] = j
  <2>1. CASE k <= Len(q)
    <3>1. k \in 1..Len(q)
      BY <1>1, <1>2, <2>1
    <3>2. t[k] = q[k]
      BY <1>4, <2>1
    <3>3. q[k] \in 1..(j - 1)
      BY <1>2, <3>1
    <3>4. QED
      BY <3>1, <3>2, <3>3
  <2>2. CASE ~(k <= Len(q))
    <3>1. k - Len(q) \in 1..e
      BY <1>1, <1>2, <2>2
    <3>2. QED
      BY <1>2, <1>3, <1>4, <2>2, <3>1
  <2>3. QED
    BY <2>1, <2>2
<1>7. \A k \in 1..Len(q) : k \in 1..(Len(q) + e)
  BY <1>1, <1>2
<1>8. ASSUME NEW m \in 1..j PROVE Cardinality({k \in DOMAIN t : t[k] = m}) = edges[m]
  <2>1. CASE m = j
    <3>1. {k \in DOMAIN t : t[k] = m} = (Len(q) + 1)..(Len(q) + e)
      <4>1. \A k \in 1..(Len(q) + e) : t[k] = j <=> k \notin 1..Len(q)
        BY <1>1, <1>6
      <4>2. \A k : k \in (Len(q) + 1)..(Len(q) + e) <=>
                     k \in 1..(Len(q) + e) /\ k \notin 1..Len(q)
        BY <1>1, <1>2
      <4>3. QED
        BY <1>5, <2>1, <4>1, <4>2
    <3>2. \A a, b \in Int : Cardinality(a..b) = IF a > b THEN 0 ELSE b - a + 1
      BY FS_Interval
    <3>3. Len(q) + 1 \in Int /\ Len(q) + e \in Int
      BY <1>1, <1>2
    <3>4. Cardinality((Len(q) + 1)..(Len(q) + e)) = e
      BY <1>1, <1>2, <3>2, <3>3
    <3>5. QED
      BY <2>1, <3>1, <3>4 DEF e
  <2>2. CASE m # j
    <3>1. m \in 1..(j - 1)
      BY <1>1, <2>2
    <3>2. {k \in DOMAIN t : t[k] = m} = {k \in DOMAIN q : q[k] = m}
      BY <1>2, <1>5, <1>6, <1>7, <2>2
    <3>3. QED
      BY <3>1, <3>2 DEF Row
  <2>3. QED
    BY <2>1, <2>2
<1>9. ASSUME NEW k \in DOMAIN t, NEW l \in DOMAIN t, k < l PROVE t[k] <= t[l]
  <2>1. k \in 1..(Len(q) + e) /\ l \in 1..(Len(q) + e)
    BY <1>5
  <2>2. CASE l \in 1..Len(q)
    <3>1. k \in 1..Len(q)
      BY <1>2, <1>9, <2>1, <2>2
    <3>2. t[k] = q[k] /\ t[l] = q[l]
      BY <1>6, <2>1, <2>2, <3>1
    <3>3. q[k] <= q[l]
      BY <1>2, <1>9, <2>2, <3>1 DEF Row
    <3>4. QED
      BY <3>2, <3>3
  <2>3. CASE l \notin 1..Len(q)
    <3>1. t[l] = j
      BY <1>6, <2>1, <2>3
    <3>2. t[k] = j \/ t[k] \in 1..(j - 1)
      BY <1>6, <2>1
    <3>3. QED
      BY <1>1, <3>1, <3>2
  <2>4. QED
    BY <2>2, <2>3
<1>10. Row(t, j, edges)
  BY <1>4, <1>8, <1>9 DEF Row, S
<1>11. QED
  BY <1>10 DEF t, c, Grown

LEMMA DownstreamSays ==
    ASSUME NEW n \in Nat, NEW edges \in [1..n -> Nat]
    PROVE  Row(Downstream(edges), n, edges)
<1> DEFINE row == CHOOSE f : f = [j \in 0..n |->
                    IF j = 0 THEN <<>> ELSE f[j - 1] \o [k \in 1..edges[j] |-> j]]
           F == [0..n -> Seq(Nat)]
           step == [f \in F |-> [j \in 0..n |->
                      IF j = 0 THEN <<>> ELSE f[j - 1] \o [k \in 1..edges[j] |-> j]]]
           rank == [j \in 0..n |-> j]
<1>1. Len(edges) = n
  OBVIOUS
<1>2. step \in [F -> F]
  <2>1. ASSUME NEW f \in F, NEW j \in 0..n, j # 0
        PROVE  f[j - 1] \o [k \in 1..edges[j] |-> j] \in Seq(Nat)
    <3>1. j \in 1..n /\ j - 1 \in 0..n /\ j \in Nat
      BY <2>1
    <3>2. [k \in 1..edges[j] |-> j] \in Seq(Nat)
      <4>1. [k \in 1..edges[j] |-> j] \in [1..edges[j] -> Nat] /\ edges[j] \in Nat
        BY <3>1
      <4>2. QED
        BY <4>1, SeqDef
    <3>3. f[j - 1] \in Seq(Nat)
      BY <2>1, <3>1
    <3>4. QED
      BY <3>2, <3>3, ConcatProperties
  <2>2. <<>> \in Seq(Nat)
    OBVIOUS
  <2>3. QED
    BY <2>1, <2>2
<1>3. ASSUME NEW f \in F, NEW g \in F, NEW j \in 0..n,
             \A i \in 0..n : rank[i] < rank[j] => f[i] = g[i]
      PROVE  step[f][j] = step[g][j]
  <2>1. CASE j = 0
    BY <2>1
  <2>2. CASE j # 0
    <3>1. j - 1 \in 0..n /\ rank[j - 1] < rank[j]
      BY <2>2
    <3>2. f[j - 1] = g[j - 1]
      BY <1>3, <3>1
    <3>3. QED
      BY <2>2, <3>2
  <2>3. QED
    BY <2>1, <2>2
<1>4. Solvable(0..n, Seq(Nat), step)
  <2>1. rank \in [0..n -> 0..n] /\ Seq(Nat) # {}
    OBVIOUS
  <2> HIDE DEF step, rank
  <2>2. QED
    BY <1>2, <1>3, <2>1, RecursionOnRank
<1>5. PICK h \in F : h = step[h]
  BY <1>4 DEF Solvable
<1>6. row = [j \in 0..n |-> IF j = 0 THEN <<>> ELSE row[j - 1] \o [k \in 1..edges[j] |-> j]]
  <2>1. h = [j \in 0..n |-> IF j = 0 THEN <<>> ELSE h[j - 1] \o [k \in 1..edges[j] |-> j]]
    BY <1>5
  <2>2. QED
    BY <2>1
<1>7. Downstream(edges) = row[n]
  BY <1>1 DEF Downstream
<1> HIDE DEF row
<1> DEFINE Rows == {j \in Nat : j <= n => Row(row[j], j, edges)}
<1>8. 0 \in Rows
  <2>1. row[0] = <<>>
    BY <1>6
  <2>2. Row(<<>>, 0, edges)
    BY DEF Row
  <2>3. QED
    BY <2>1, <2>2
<1>9. ASSUME NEW j \in Nat, j \in Rows PROVE j + 1 \in Rows
  <2>1. SUFFICES ASSUME j + 1 <= n PROVE Row(row[j + 1], j + 1, edges)
    OBVIOUS
  <2>2. j + 1 \in 1..n /\ j + 1 \in 0..n /\ j + 1 # 0 /\ j + 1 - 1 = j /\ j <= n
    BY <2>1
  <2>3. Row(row[j], j, edges)
    BY <1>9, <2>2
  <2>4. \A i \in 0..n : i # 0 => row[i] = Grown(row[i - 1], i, edges)
    BY <1>6 DEF Grown
  <2>5. row[j + 1] = Grown(row[j + 1 - 1], j + 1, edges)
    BY <2>2, <2>4
  <2>6. \A i \in 1..n : \A q : Row(q, i - 1, edges) => Row(Grown(q, i, edges), i, edges)
    BY RowGrows
  <2>7. Row(row[j + 1 - 1], j + 1 - 1, edges)
    BY <2>2, <2>3
  <2>8. QED
    BY <2>2, <2>5, <2>6, <2>7
<1>10. n \in Rows
  <2> HIDE DEF Rows
  <2>1. QED
    BY <1>8, <1>9, NatSet
<1>11. QED
  BY <1>7, <1>10
PlanEdges(i, j, ids, deps) == Cardinality({k \in DOMAIN deps[ids[j]] : deps[ids[j]][k] = ids[i]})

(* A compiled plan relates both directions of every declared edge, and     *)
(* lists dependents in registration order.                                 *)
PlanAgrees(p, ids, deps) ==
    \A i, j \in DOMAIN ids :
        /\ Cardinality({k \in DOMAIN p.dependencies[j] : p.dependencies[j][k] = i})
             = PlanEdges(i, j, ids, deps)
        /\ Cardinality({k \in DOMAIN p.downstream[i] : p.downstream[i][k] = j})
             = PlanEdges(i, j, ids, deps)
        /\ \A k, l \in DOMAIN p.downstream[i] :
             k < l => p.downstream[i][k] <= p.downstream[i][l]

LEMMA CompilePlanAgrees ==
    ASSUME NEW deps, Registry(orderedIDs, deps), Known(orderedIDs, deps)
    PROVE  PlanAgrees(CompilePlan(deps), orderedIDs, deps)
<1> DEFINE ids == orderedIDs
           n == Len(ids)
           p == CompilePlan(deps)
<1>1. /\ ids \in Seq(Ids) /\ IsInjective(ids) /\ n \in Nat /\ DOMAIN ids = 1..n
      /\ \A i \in 1..n : ids[i] \in ToSet(ids)
  BY DEF Registry, ToSet
<1>2. ASSUME NEW i \in 1..n, NEW j \in 1..n PROVE PlanEdges(i, j, ids, deps) \in Nat
  <2> DEFINE uses == {k \in DOMAIN deps[ids[j]] : deps[ids[j]][k] = ids[i]}
  <2>1. IsFiniteSet(DOMAIN deps[ids[j]])
    BY <1>1, DeclarationType
  <2>2. IsFiniteSet(uses)
    BY <2>1, FS_Subset
  <2>3. Cardinality(uses) \in Nat
    <3> HIDE DEF uses
    <3>1. QED
      BY <2>2, FS_CardinalityType
  <2>4. QED
    BY <2>3 DEF PlanEdges
<1>3. ASSUME NEW i \in 1..n, NEW j \in 1..n
      PROVE  Cardinality({k \in DOMAIN p.dependencies[j] : p.dependencies[j][k] = i})
               = PlanEdges(i, j, ids, deps)
  <2> DEFINE d == deps[ids[j]]
  <2>1. p.dependencies[j] = [k \in DOMAIN d |-> RegIndex(d[k])]
    BY DEF CompilePlan
  <2>2. \A k \in DOMAIN d : d[k] \in ToSet(ids)
    BY <1>1 DEF Known, ToSet
  <2>3. \A y : RegIndex(y) = Index(ids, y)
    BY DEF RegIndex, Index
  <2>4. \A k \in DOMAIN d : RegIndex(d[k]) = i <=> d[k] = ids[i]
    <3>1. \A y \in ToSet(ids) : ids[Index(ids, y)] = y
      BY <1>1, IndexIs
    <3>2. Index(ids, ids[i]) = i
      BY <1>1, IndexIs
    <3> HIDE DEF ids, d
    <3>3. QED
      BY <2>2, <2>3, <3>1, <3>2
  <2>5. {k \in DOMAIN p.dependencies[j] : p.dependencies[j][k] = i}
          = {k \in DOMAIN d : d[k] = ids[i]}
    <3> HIDE DEF p
    <3>1. QED
      BY <2>1, <2>4
  <2>6. QED
    BY <2>5 DEF PlanEdges
<1>4. ASSUME NEW i \in 1..n
      PROVE  /\ \A j \in 1..n : Cardinality({k \in DOMAIN p.downstream[i] : p.downstream[i][k] = j})
                                  = PlanEdges(i, j, ids, deps)
             /\ \A k, l \in DOMAIN p.downstream[i] :
                  k < l => p.downstream[i][k] <= p.downstream[i][l]
  <2> DEFINE edges == [j \in 1..n |-> PlanEdges(i, j, ids, deps)]
             down == p.downstream[i]
  <2>1. down = Downstream(edges)
    BY DEF CompilePlan, Occurrences, PlanEdges
  <2>2. edges \in [1..n -> Nat] /\ \A j \in 1..n : edges[j] = PlanEdges(i, j, ids, deps)
    BY <1>2
  <2> HIDE DEF edges, down
  <2>3. Row(down, n, edges)
    BY <1>1, <2>1, <2>2, DownstreamSays
  <2>4. QED
    BY <2>2, <2>3 DEF Row, down
<1>5. QED
  BY <1>1, <1>3, <1>4 DEF PlanAgrees

-----------------------------------------------------------------------------
(* The registry and its builders.                                          *)

(* What a sealed registry holds, and what the verdict said of it. *)
SealedState(ids, deps, error, order, p) ==
    /\ Registry(ids, deps)
    /\ error \in {"nil", "cycle", "unknown"}
    /\ error = "nil" <=> Known(ids, deps) /\ Orders(ids, deps) # {}
    /\ error = "nil" => /\ Follows(order, ids, deps) /\ Len(order) = Len(ids)
                      /\ PlanAgrees(p, ids, deps)

(* A builder past its options has a worker; one past Resolve found the     *)
(* registry sealed with a plan, which is what it got.                      *)
BuilderState(b) ==
    /\ position[b] \in {"options", "resolve", "fetch", "built", "failed"}
    /\ position[b] \in {"resolve", "fetch", "built"} => pool[b] \in Int /\ pool[b] >= 1
    /\ position[b] \in {"fetch", "built"} => Sealed
    /\ position[b] = "built" => built[b] = compiled

RegistryInv ==
    /\ declared \in [Ids -> Declarations]
    /\ changes \in 0..Redeclarations
    /\ orderedIDs \in Seq(Ids) /\ IsInjective(orderedIDs)
    /\ resolved \in BOOLEAN
    /\ resolveErr \in {"nil", "cycle", "unknown"}
    /\ resolved => SealedState(orderedIDs, captured, resolveErr, resolvedPlan, compiled)
    /\ position \in [Builders -> {"options", "resolve", "fetch", "built", "failed"}]
    /\ DOMAIN pool = Builders /\ DOMAIN built = Builders
    /\ \A b \in Builders : BuilderState(b)

LEMMA DefaultConcurrency == defaultConcurrency \in Int /\ defaultConcurrency >= 1
<1>1. Min({CPUs, 8}) \in {CPUs, 8}
  <2>1. {CPUs, 8} \in SUBSET Nat /\ {CPUs, 8} # {}
    BY RegistryAssumption
  <2>2. QED
    BY <2>1, MinIsLeast
<1>2. Min({CPUs, 8}) \in Int
  BY <1>1, RegistryAssumption
<1> DEFINE m == Min({CPUs, 8})
<1>3. \E x \in {1, m} : \A y \in {1, m} : x >= y
  <2> HIDE DEF m
  <2>1. CASE m >= 1
    BY <1>2, <2>1 DEF m
  <2>2. CASE ~(m >= 1)
    BY <1>2, <2>2 DEF m
  <2>3. QED
    BY <2>1, <2>2
<1>4. Max({1, m}) \in {1, m} /\ \A y \in {1, m} : Max({1, m}) >= y
  <2> HIDE DEF m
  <2>1. QED
    BY <1>3 DEF Max
<1>5. QED
  BY <1>2, <1>4 DEF defaultConcurrency
(* The part of Resolve that runs once seals the registry with what the     *)
(* loops computed.                                                         *)
LEMMA SealSays ==
    ASSUME RegistryInv, ~resolved, Seal
    PROVE  /\ resolved' = TRUE /\ orderedIDs' = orderedIDs
           /\ resolveErr' \in {"nil", "cycle", "unknown"}
           /\ SealedState(orderedIDs', captured', resolveErr', resolvedPlan', compiled')
<1> DEFINE deps == declared
           error == Verdict(deps)
<1>1. Registry(orderedIDs, deps)
  BY DEF RegistryInv, Registry
<1>2. /\ resolved' = TRUE /\ orderedIDs' = orderedIDs /\ captured' = deps
      /\ resolveErr' = error
      /\ resolvedPlan' = IF error = "nil" THEN KahnTopoSort(deps) ELSE <<>>
      /\ compiled' = IF error = "nil" THEN CompilePlan(deps) ELSE NoPlan
  BY DEF Seal, Verdict
<1> HIDE DEF deps
<1>3. /\ error \in {"nil", "cycle", "unknown"}
      /\ error = "nil" <=> Known(orderedIDs, deps) /\ Orders(orderedIDs, deps) # {}
      /\ error = "nil" => /\ Follows(KahnTopoSort(deps), orderedIDs, deps)
                        /\ Len(KahnTopoSort(deps)) = Len(orderedIDs)
  BY <1>1, VerdictSays
<1>4. error = "nil" => PlanAgrees(CompilePlan(deps), orderedIDs, deps)
  BY <1>1, <1>3, CompilePlanAgrees
<1> HIDE DEF error
<1>5. SealedState(orderedIDs, deps, error, resolvedPlan', compiled')
  BY <1>1, <1>2, <1>3, <1>4 DEF SealedState
<1>6. QED
  BY <1>2, <1>3, <1>5

(* Resolve leaves the registry sealed, and a sealed one as it was. *)
LEMMA ResolveSays ==
    ASSUME RegistryInv, Resolve
    PROVE  /\ resolved' = TRUE /\ orderedIDs' = orderedIDs
           /\ resolveErr' \in {"nil", "cycle", "unknown"}
           /\ SealedState(orderedIDs', captured', resolveErr', resolvedPlan', compiled')
           /\ resolved => UNCHANGED registry
<1>1. CASE resolved
  <2>1. UNCHANGED registry
    BY <1>1 DEF Resolve
  <2>2. QED
    BY <1>1, <2>1 DEF RegistryInv, registry
<1>2. CASE ~resolved
  <2>1. Seal
    BY <1>2 DEF Resolve
  <2>2. QED
    BY <1>2, <2>1, SealSays
<1>3. QED
  BY <1>1, <1>2

LEMMA RegistryStart == RegistryInit => RegistryInv
<1> SUFFICES ASSUME RegistryInit PROVE RegistryInv
  OBVIOUS
<1>1. orderedIDs \in Seq(Ids) /\ IsInjective(orderedIDs)
  BY DEF RegistryInit, IsInjective
<1>2. 0 \in 0..Redeclarations
  BY RegistryAssumption
<1>3. QED
  BY <1>1, <1>2 DEF RegistryInit, RegistryInv, BuilderState

(* A step that leaves the sealed registry and a builder alone keeps what   *)
(* the builder relies on.                                                  *)
LEMMA OthersKeep ==
    ASSUME RegistryInv, NEW b \in Builders,
           position'[b] = position[b], pool'[b] = pool[b], built'[b] = built[b],
           resolved => resolved' /\ UNCHANGED <<resolveErr, compiled>>
    PROVE  BuilderState(b)'
BY DEF RegistryInv, BuilderState, Sealed

LEMMA RegistryStep == RegistryInv /\ [RegistryNext]_registryVars => RegistryInv'
<1> SUFFICES ASSUME RegistryInv, [RegistryNext]_registryVars PROVE RegistryInv'
  OBVIOUS
<1>1. CASE ResolveCall
  <2>1. Resolve /\ UNCHANGED <<declared, changes, position, pool, built>>
    BY <1>1 DEF ResolveCall, builders
  <2>2. /\ resolved' = TRUE /\ orderedIDs' = orderedIDs
        /\ resolveErr' \in {"nil", "cycle", "unknown"}
        /\ SealedState(orderedIDs', captured', resolveErr', resolvedPlan', compiled')
        /\ resolved => UNCHANGED registry
    BY <2>1, ResolveSays
  <2>3. ASSUME NEW b \in Builders PROVE BuilderState(b)'
    BY <2>1, <2>2, OthersKeep DEF registry
  <2>4. QED
    BY <2>1, <2>2, <2>3 DEF RegistryInv
<1>2. ASSUME NEW id \in Ids, Register(id) PROVE RegistryInv'
  <2>1. /\ ~resolved /\ id \notin Registered /\ orderedIDs' = Append(orderedIDs, id)
        /\ UNCHANGED <<declared, changes, resolved, resolveErr, position, pool, built>>
    BY <1>2 DEF Register, builders
  <2>2. orderedIDs' \in Seq(Ids) /\ IsInjective(orderedIDs')
    <3>1. orderedIDs \in Seq(Ids) /\ IsInjective(orderedIDs)
      BY DEF RegistryInv
    <3>2. /\ orderedIDs' \in Seq(Ids) /\ DOMAIN orderedIDs = 1..Len(orderedIDs)
          /\ Len(orderedIDs) \in Nat
          /\ DOMAIN orderedIDs' = 1..(Len(orderedIDs) + 1)
          /\ \A i \in 1..Len(orderedIDs) : orderedIDs'[i] = orderedIDs[i]
          /\ orderedIDs'[Len(orderedIDs) + 1] = id
      BY <1>2, <2>1, <3>1, AppendIs
    <3>3. \A i \in DOMAIN orderedIDs' : i \in 1..Len(orderedIDs) \/ i = Len(orderedIDs) + 1
      BY <3>2
    <3>4. \A i \in 1..Len(orderedIDs) : orderedIDs'[i] # id
      BY <2>1, <3>2 DEF Registered, ToSet
    <3>5. QED
      BY <3>1, <3>2, <3>3, <3>4 DEF IsInjective
  <2>3. ASSUME NEW b \in Builders PROVE BuilderState(b)'
    BY <2>1, OthersKeep
  <2>4. QED
    BY <2>1, <2>2, <2>3 DEF RegistryInv
<1>3. ASSUME NEW id \in Ids, RejectRegister(id) PROVE RegistryInv'
  <2>1. UNCHANGED registryVars
    BY <1>3 DEF RejectRegister
  <2>2. QED
    BY <2>1 DEF registryVars, registry, builders, RegistryInv, BuilderState, Sealed
<1>4. ASSUME NEW id \in Ids, Redeclare(id) PROVE RegistryInv'
  <2>1. changes < Redeclarations /\ changes' = changes + 1 /\ UNCHANGED <<registry, builders>>
    BY <1>4 DEF Redeclare
  <2>2. declared' \in [Ids -> Declarations]
    BY <1>4 DEF Redeclare, RegistryInv
  <2>3. changes' \in 0..Redeclarations
    BY <2>1, RegistryAssumption DEF RegistryInv
  <2>4. ASSUME NEW b \in Builders PROVE BuilderState(b)'
    BY <2>1, OthersKeep DEF registry, builders
  <2>5. QED
    BY <2>1, <2>2, <2>3, <2>4 DEF RegistryInv, registry, builders
<1>5. ASSUME NEW b \in Builders, ApplyOptions(b) PROVE RegistryInv'
  <2>1. position[b] = "options" /\ UNCHANGED <<declared, changes, registry, built>>
    BY <1>5 DEF ApplyOptions
  <2>2. \/ position' = [position EXCEPT ![b] = "failed"] /\ pool' = pool
        \/ /\ position' = [position EXCEPT ![b] = "resolve"]
           /\ \E n \in Int : n >= 1 /\ pool' = [pool EXCEPT ![b] = n]
    <3>1. PICK n \in Options :
            IF n # NoOption /\ n < 1
            THEN position' = [position EXCEPT ![b] = "failed"] /\ UNCHANGED pool
            ELSE /\ pool' = [pool EXCEPT ![b] = IF n = NoOption THEN defaultConcurrency ELSE n]
                 /\ position' = [position EXCEPT ![b] = "resolve"]
      BY <1>5 DEF ApplyOptions
    <3>2. CASE n # NoOption /\ n < 1
      BY <3>1, <3>2
    <3>3. CASE n = NoOption
      BY <3>1, <3>3, DefaultConcurrency
    <3>4. CASE n # NoOption /\ ~(n < 1)
      <4>1. n \in Int
        BY <3>4, RegistryAssumption
      <4>2. n >= 1
        BY <3>4, <4>1
      <4>3. QED
        BY <3>1, <3>4, <4>1, <4>2
    <3>5. QED
      BY <3>2, <3>3, <3>4
  <2>3. /\ position' \in [Builders -> {"options", "resolve", "fetch", "built", "failed"}]
        /\ DOMAIN pool' = Builders /\ DOMAIN built' = Builders
    BY <2>1, <2>2 DEF RegistryInv
  <2>4. BuilderState(b)'
    BY <2>1, <2>2 DEF RegistryInv, BuilderState
  <2>5. ASSUME NEW c \in Builders, c # b PROVE BuilderState(c)'
    <3>1. position'[c] = position[c] /\ pool'[c] = pool[c] /\ built'[c] = built[c]
      BY <2>1, <2>2, <2>5 DEF RegistryInv
    <3>2. QED
      BY <2>1, <3>1, OthersKeep DEF registry
  <2>6. QED
    BY <2>1, <2>3, <2>4, <2>5 DEF RegistryInv, registry
<1>6. ASSUME NEW b \in Builders, BuilderResolve(b) PROVE RegistryInv'
  <2>1. /\ position[b] = "resolve" /\ Resolve /\ UNCHANGED <<declared, changes, pool, built>>
        /\ position' = [position EXCEPT ![b] = IF resolveErr' = "nil" THEN "fetch" ELSE "failed"]
    BY <1>6 DEF BuilderResolve
  <2>2. /\ resolved' = TRUE /\ orderedIDs' = orderedIDs
        /\ resolveErr' \in {"nil", "cycle", "unknown"}
        /\ SealedState(orderedIDs', captured', resolveErr', resolvedPlan', compiled')
        /\ resolved => UNCHANGED registry
    BY <2>1, ResolveSays
  <2>3. position' \in [Builders -> {"options", "resolve", "fetch", "built", "failed"}]
    BY <2>1 DEF RegistryInv
  <2>4. BuilderState(b)'
    BY <2>1, <2>2 DEF RegistryInv, BuilderState, Sealed
  <2>5. ASSUME NEW c \in Builders, c # b PROVE BuilderState(c)'
    <3>1. position'[c] = position[c] /\ pool'[c] = pool[c] /\ built'[c] = built[c]
      BY <2>1, <2>5 DEF RegistryInv
    <3>2. QED
      BY <2>2, <3>1, OthersKeep DEF registry
  <2>6. QED
    BY <2>1, <2>2, <2>3, <2>4, <2>5 DEF RegistryInv
<1>7. ASSUME NEW b \in Builders, FetchExecution(b) PROVE RegistryInv'
  <2>1. position[b] = "fetch" /\ UNCHANGED <<declared, changes, registry, pool>>
    BY <1>7 DEF FetchExecution
  <2>2. position' = [position EXCEPT ![b] = "built"] /\ built' = [built EXCEPT ![b] = compiled]
    <3>1. resolved /\ resolveErr = "nil"
      BY <2>1 DEF RegistryInv, BuilderState, Sealed
    <3>2. QED
      BY <1>7, <3>1 DEF FetchExecution
  <2>3. /\ position' \in [Builders -> {"options", "resolve", "fetch", "built", "failed"}]
        /\ DOMAIN pool' = Builders /\ DOMAIN built' = Builders
    BY <2>1, <2>2 DEF RegistryInv
  <2>4. BuilderState(b)'
    BY <2>1, <2>2 DEF RegistryInv, BuilderState, Sealed, registry
  <2>5. ASSUME NEW c \in Builders, c # b PROVE BuilderState(c)'
    <3>1. position'[c] = position[c] /\ pool'[c] = pool[c] /\ built'[c] = built[c]
      BY <2>1, <2>2, <2>5 DEF RegistryInv
    <3>2. QED
      BY <2>1, <3>1, OthersKeep DEF registry
  <2>6. QED
    BY <2>1, <2>3, <2>4, <2>5 DEF RegistryInv, registry
<1>8. CASE UNCHANGED registryVars
  BY <1>8 DEF registryVars, registry, builders, RegistryInv, BuilderState, Sealed
<1>9. QED
  BY <1>1, <1>2, <1>3, <1>4, <1>5, <1>6, <1>7, <1>8 DEF RegistryNext
(* A sealed registry holds what Resolve computed of the declarations it    *)
(* captured, and each builder past Resolve relies on it.                   *)
THEOREM RegistryInvariant == RegistrySpec => []RegistryInv
<1>1. RegistryInit => RegistryInv
  BY RegistryStart
<1>2. RegistryInv /\ [RegistryNext]_registryVars => RegistryInv'
  BY RegistryStep
<1>3. QED
  BY <1>1, <1>2, PTL DEF RegistrySpec

LEMMA ResolveIsExactFromInv == RegistryInv => ResolveIsExact
<1> SUFFICES ASSUME RegistryInv PROVE ResolveIsExact
  OBVIOUS
<1> DEFINE ids == orderedIDs
           deps == captured
<1>1. RegistryTypeOK
  BY DEF RegistryInv, RegistryTypeOK
<1>2. TopologicalOrders = Orders(ids, deps)
  BY DEF TopologicalOrders, Orders, Registered, Occurrences
<1>3. Known(ids, deps) <=> \A id \in Registered : ToSet(captured[id]) \subseteq Registered
  BY DEF Known, Registered
<1>4. RejectsExactlyBadGraphs
  <2>1. SUFFICES ASSUME resolved
                 PROVE  resolveErr = "nil" <=> Known(ids, deps) /\ TopologicalOrders # {}
    BY <1>3 DEF RejectsExactlyBadGraphs
  <2>2. resolveErr = "nil" <=> Known(ids, deps) /\ Orders(ids, deps) # {}
    BY <2>1 DEF RegistryInv, SealedState
  <2>3. QED
    BY <1>2, <2>2
<1>5. PlanIsCanonical
  <2>1. SUFFICES ASSUME Sealed
                 PROVE  /\ resolvedPlan \in TopologicalOrders
                        /\ \A s \in TopologicalOrders \ {resolvedPlan} :
                             Precedes(resolvedPlan, s)
    BY DEF PlanIsCanonical
  <2>2. /\ Registry(ids, deps) /\ Follows(resolvedPlan, ids, deps)
        /\ Len(resolvedPlan) = Len(ids)
    BY <2>1 DEF RegistryInv, SealedState, Sealed
  <2>3. resolvedPlan \in TopologicalOrders
    BY <1>2, <2>2, PlanIsAnOrder
  <2>4. ASSUME NEW s \in TopologicalOrders \ {resolvedPlan} PROVE Precedes(resolvedPlan, s)
    <3>1. s \in Orders(ids, deps) /\ s # resolvedPlan
      BY <1>2, <2>4
    <3>2. \E k \in DOMAIN resolvedPlan :
            /\ Index(ids, resolvedPlan[k]) < Index(ids, s[k])
            /\ \A j \in 1..(k - 1) : resolvedPlan[j] = s[j]
      BY <2>2, <3>1, PlanIsFirst
    <3>3. \A y : RegIndex(y) = Index(ids, y)
      BY DEF RegIndex, Index
    <3> HIDE DEF ids
    <3>4. QED
      BY <3>2, <3>3 DEF Precedes
  <2>5. QED
    BY <2>3, <2>4
<1>6. QED
  BY <1>1, <1>4, <1>5 DEF ResolveIsExact

(* Resolve publishes the one topological order that prefers, place by      *)
(* place, the probe registered first, and fails exactly when the captured  *)
(* declarations name an unknown probe or cannot be ordered.                *)
THEOREM ResolvePublishesTheCanonicalPlan == RegistrySpec => []ResolveIsExact
BY RegistryInvariant, ResolveIsExactFromInv, PTL

LEMMA BuiltPlansAgreeFromInv == RegistryInv => BuiltPlansAgree
<1> SUFFICES ASSUME RegistryInv, NEW b \in Builders, position[b] = "built"
             PROVE  /\ built[b] = compiled
                    /\ pool[b] >= 1
                    /\ PlanAgrees(built[b], orderedIDs, captured)
  BY DEF BuiltPlansAgree, PlanAgrees, PlanEdges, Occurrences
<1>1. built[b] = compiled /\ pool[b] >= 1 /\ resolved /\ resolveErr = "nil"
  BY DEF RegistryInv, BuilderState, Sealed
<1>2. PlanAgrees(compiled, orderedIDs, captured)
  BY <1>1 DEF RegistryInv, SealedState
<1>3. QED
  BY <1>1, <1>2

(* Whatever is registered, resolved or constructed between a builder's     *)
(* Resolve and its fetch of the compiled plan, every orchestrator gets the *)
(* same plan, whose two directions agree edge for edge.                    *)
THEOREM OrchestratorsRunTheSamePlan == RegistrySpec => []BuiltPlansAgree
BY RegistryInvariant, BuiltPlansAgreeFromInv, PTL

(* No step changes a sealed registry. *)
THEOREM SealedRegistryIsFinal == RegistrySpec => SealedForever
<1>1. ASSUME [RegistryNext]_registryVars PROVE [resolved => UNCHANGED registry]_registryVars
  <2>1. SUFFICES ASSUME resolved, RegistryNext PROVE UNCHANGED registry
    BY <1>1
  <2>2. CASE ResolveCall
    BY <2>1, <2>2 DEF ResolveCall, Resolve
  <2>3. ASSUME NEW id \in Ids, Register(id) \/ RejectRegister(id) \/ Redeclare(id)
        PROVE  UNCHANGED registry
    BY <2>1, <2>3 DEF Register, RejectRegister, Redeclare, registryVars
  <2>4. ASSUME NEW b \in Builders,
               ApplyOptions(b) \/ BuilderResolve(b) \/ FetchExecution(b)
        PROVE  UNCHANGED registry
    BY <2>1, <2>4 DEF ApplyOptions, BuilderResolve, Resolve, FetchExecution
  <2>5. QED
    BY <2>1, <2>2, <2>3, <2>4 DEF RegistryNext
<1>2. QED
  BY <1>1, PTL DEF RegistrySpec, SealedForever
-----------------------------------------------------------------------------
(* The orchestrator.                                                       *)

USE SizeAssumption, PlansAssumption, ErrorsAssumption

(* Dependencies named by a plan are probes. *)
LEMMA PlanType ==
    ASSUME plan \in Plans, NEW p \in Node
    PROVE  /\ plan[p] \in Seq(Node)
           /\ Len(plan[p]) \in Nat
           /\ DOMAIN plan[p] = 1..Len(plan[p])
           /\ \A i \in DOMAIN plan[p] : plan[p][i] \in Node
<1>1. plan[p] \in Seq(Node)
  OBVIOUS
<1>2. QED
  BY <1>1, ElementOfSeq, LenProperties

(* The variables of the scheduler keep their types. *)
THEOREM TypeCorrect == Spec => []TypeOK
<1>1. Init => TypeOK
  <2>1. SUFFICES ASSUME Init PROVE TypeOK
    OBVIOUS
  <2>2. remaining \in [Node -> Int]
    <3>1. \A p \in Node : Len(plan[p]) \in Int
      BY <2>1, PlanType DEF Init
    <3>2. QED
      BY <2>1, <3>1 DEF Init
  <2>3. queue \in Seq(Node)
    BY <2>1, EmptySeq DEF Init
  <2>4. main \in {"enqueue", "wait", "join", "returned"} /\ scan \in 1..(N + 1)
        /\ (main = "enqueue" => scan \in Node)
    BY <2>1 DEF Init, Node
  <2>5. QED
    BY <2>1, <2>2, <2>3, <2>4 DEF Init, TypeOK, ContextErrors, Final
<1>2. TypeOK /\ [Next]_vars => TypeOK'
  <2> SUFFICES ASSUME TypeOK, [Next]_vars PROVE TypeOK'
    OBVIOUS
  <2> USE DEF TypeOK, ContextErrors, Final
  <2>1. CASE Cancel
    BY <2>1 DEF Cancel, caller, local
  <2>2. CASE Enqueue
    <3>1. queue' \in Seq(Node)
      <4>1. scan \in Node
        BY <2>2 DEF Enqueue
      <4>2. QED
        BY <2>2, <4>1, AppendProperties DEF Enqueue
    <3>2. scan' \in 1..(N + 1) /\ (main' = "enqueue" => scan' \in Node)
      <4>1. scan \in 1..N /\ scan' = scan + 1
        BY <2>2 DEF Enqueue, Node
      <4>2. main' = "enqueue" => scan # N
        BY <2>2 DEF Enqueue
      <4>3. QED
        BY <4>1, <4>2 DEF Node
    <3>3. QED
      BY <2>2, <3>1, <3>2 DEF Enqueue, local
  <2>3. CASE CloseQueue
    BY <2>3 DEF CloseQueue, Broadcast
  <2>4. CASE Join
    BY <2>4 DEF Join, shared, local
  <2>5. CASE Returned \/ UNCHANGED vars
    BY <2>5 DEF Returned, vars, shared, caller, local
  <2>6. ASSUME NEW w \in Workers, Worker(w) PROVE TypeOK'
    <3>1. CASE Pop(w)
      <4>1. Head(queue) \in Node /\ Tail(queue) \in Seq(Node)
        BY <3>1, HeadTailProperties DEF Pop
      <4>2. QED
        BY <3>1, <4>1 DEF Pop, caller
    <3>2. CASE Park(w) \/ Exit(w) \/ Check(w) \/ Start(w) \/ CancelBeforeRun(w)
      <4>1. CASE Park(w)
        BY <4>1 DEF Park, shared, caller
      <4>2. CASE Exit(w)
        BY <4>2 DEF Exit, shared, caller
      <4>3. CASE Check(w)
        BY <4>3 DEF Check, shared, caller
      <4>4. CASE Start(w)
        BY <4>4 DEF Start, shared, caller
      <4>5. CASE CancelBeforeRun(w)
        BY <4>5 DEF CancelBeforeRun, shared, caller
      <4>6. QED
        BY <3>2, <4>1, <4>2, <4>3, <4>4, <4>5
    <3>3. CASE Return(w)
      BY <3>3 DEF Return, shared, caller
    <3>4. CASE Classify(w)
      BY <3>4 DEF Classify, Classification, shared, caller
    <3>5. CASE RecordSuccess(w)
      <4>1. \A q \in Node : Edges(q, cur[w]) \in Nat
        <5>1. SUFFICES ASSUME NEW q \in Node PROVE Edges(q, cur[w]) \in Nat
          OBVIOUS
        <5>2. IsFiniteSet(DOMAIN plan[q])
          BY PlanType, FS_Interval
        <5>3. QED
          BY <5>2, FS_Subset, FS_CardinalityType DEF Edges
      <4>2. remaining' \in [Node -> Int]
        BY <3>5, <4>1 DEF RecordSuccess, Release
      <4>3. CASE status[cur[w]] # "none"
        BY <3>5, <4>3 DEF RecordSuccess, caller
      <4>4. CASE status[cur[w]] = "none"
        <5>1. runnable' \in [Workers -> SUBSET Node]
          <6>1. PICK S \in SUBSET Node : runnable' = [runnable EXCEPT ![w] = S]
            BY <3>5, <4>4 DEF RecordSuccess
          <6>2. QED
            BY <6>1
        <5>2. status' \in [Node -> Final \cup {"none"}]
          <6>1. status' = [status EXCEPT ![cur[w]] = "Succeeded"]
            BY <3>5, <4>4 DEF RecordSuccess
          <6>2. QED
            BY <6>1
        <5>3. QED
          BY <3>5, <4>2, <4>4, <5>1, <5>2, ZenonT(60) DEF RecordSuccess, caller
      <4>5. QED
        BY <4>3, <4>4
    <3>6. CASE RecordOther(w)
      <4>1. CASE status[cur[w]] # "none"
        BY <3>6, <4>1 DEF RecordOther, caller
      <4>2. CASE status[cur[w]] = "none"
        <5>1. CascadeSkip(cur[w]) \subseteq Node
          BY DEF CascadeSkip, Open
        <5>2. cascade' \in [Workers -> SUBSET Node]
          <6>1. cascade' = [cascade EXCEPT ![w] = CascadeSkip(cur[w])]
            BY <3>6, <4>2 DEF RecordOther
          <6>2. QED
            BY <5>1, <6>1
        <5>3. status' \in [Node -> Final \cup {"none"}]
          <6>1. status' = [q \in Node |->
                            IF q = cur[w] THEN outcome[w]
                            ELSE IF q \in CascadeSkip(cur[w]) THEN "Skipped"
                            ELSE status[q]]
            BY <3>6, <4>2 DEF RecordOther
          <6>2. QED
            BY <6>1
        <5>4. QED
          BY <3>6, <4>2, <5>2, <5>3, ZenonT(60) DEF RecordOther, caller
      <4>3. QED
        BY <4>1, <4>2
    <3>7. CASE CountSkipped(w)
      <4>1. CASE cascade[w] = {}
        BY <3>7, <4>1, ZenonT(60) DEF CountSkipped, caller
      <4>2. CASE cascade[w] # {}
        <5>1. PICK p \in cascade[w] : cascade' = [cascade EXCEPT ![w] = @ \ {p}]
          BY <3>7, <4>2 DEF CountSkipped
        <5>2. cascade' \in [Workers -> SUBSET Node]
          BY <5>1
        <5>3. count' \in Nat /\ pc' = pc
          BY <3>7, <4>2 DEF CountSkipped
        <5>4. QED
          BY <3>7, <5>2, <5>3 DEF CountSkipped, caller
      <4>3. QED
        BY <4>1, <4>2
    <3>8. CASE Push(w)
      <4>1. CASE runnable[w] = {}
        BY <3>8, <4>1, ZenonT(60) DEF Push, caller
      <4>2. CASE runnable[w] # {}
        <5>1. PICK p \in runnable[w] :
                /\ runnable' = [runnable EXCEPT ![w] = @ \ {p}]
                /\ queue' = IF closed THEN queue ELSE Append(queue, p)
          BY <3>8, <4>2 DEF Push
        <5>2. runnable' \in [Workers -> SUBSET Node]
          BY <5>1
        <5>3. queue' \in Seq(Node)
          BY <5>1, AppendProperties
        <5>4. pc' \in [Workers -> {"pop", "parked", "exited", "check", "ctx", "run",
                                   "classify", "record", "count", "push", "signal"}]
          <6>1. pc' = pc \/ pc' = Broadcast(pc)
            BY <3>8, <4>2 DEF Push
          <6>2. QED
            BY <6>1 DEF Broadcast
        <5>5. /\ UNCHANGED <<plan, ctx, status, remaining, closed, count, allDone>>
              /\ UNCHANGED <<main, scan, cur, err, outcome, cascade>>
          BY <3>8 DEF Push, caller
        <5>6. QED
          BY <5>2, <5>3, <5>4, <5>5
      <4>3. QED
        BY <4>1, <4>2
    <3>9. CASE SignalCompletion(w)
      BY <3>9 DEF SignalCompletion, caller
    <3>10. QED
      BY <2>6, <3>1, <3>2, <3>3, <3>4, <3>5, <3>6, <3>7, <3>8, <3>9 DEF Worker
  <2>7. QED
    BY <2>1, <2>2, <2>3, <2>4, <2>5, <2>6 DEF Next, Main
<1>3. QED
  BY <1>1, <1>2, PTL DEF Spec

-----------------------------------------------------------------------------
(* Facts about the operators of the model.                                 *)

LEMMA NodeFinite == IsFiniteSet(Node) /\ Cardinality(Node) = N
BY FS_Interval DEF Node

LEMMA NodeSubset ==
    ASSUME NEW S \in SUBSET Node
    PROVE  /\ IsFiniteSet(S)
           /\ Cardinality(S) \in Nat
           /\ Cardinality(S) = N => S = Node
BY NodeFinite, FS_Subset, FS_CardinalityType

(* The index sets that the counters are about are finite. *)
LEMMA EdgeSets ==
    ASSUME plan \in Plans, NEW p \in Node, NEW S \in SUBSET DOMAIN plan[p]
    PROVE  /\ IsFiniteSet(S)
           /\ Cardinality(S) \in Nat
           /\ Cardinality(S) = 0 <=> S = {}
<1>1. IsFiniteSet(DOMAIN plan[p])
  BY PlanType, FS_Interval
<1>2. QED
  BY <1>1, FS_Subset, FS_CardinalityType, FS_EmptySet

LEMMA CardinalityDifference ==
    ASSUME NEW A, IsFiniteSet(A), NEW B \in SUBSET A
    PROVE  Cardinality(A \ B) = Cardinality(A) - Cardinality(B)
<1>1. IsFiniteSet(B) /\ IsFiniteSet(A \ B)
  BY FS_Subset
<1>2. A = (A \ B) \cup B /\ (A \ B) \cap B = {}
  OBVIOUS
<1>3. Cardinality(A) = Cardinality(A \ B) + Cardinality(B) - Cardinality({})
  BY <1>1, <1>2, FS_Union
<1>4. Cardinality(B) \in Nat /\ Cardinality(A \ B) \in Nat /\ Cardinality({}) = 0
  BY <1>1, FS_CardinalityType, FS_EmptySet
<1>5. QED
  BY <1>3, <1>4

(* The skipped set is closed: it leaves no open dependent behind. *)
LEMMA CascadeIsClosed ==
    ASSUME NEW id \in Node, NEW q \in Open(id), NEW p \in CascadeSkip(id) \cup {id},
           DependsOn(q, p)
    PROVE  q \in CascadeSkip(id)
<1>1. SUFFICES ASSUME NEW S \in SUBSET Node, CascadeClosed(S, id) PROVE q \in S
  BY DEF CascadeSkip
<1>2. p \in S \cup {id}
  BY <1>1 DEF CascadeSkip
<1>3. QED
  BY <1>1, <1>2 DEF CascadeClosed

(* The skipped set is the least such set: every member depends on the      *)
(* probe that ended or on another member.                                  *)
LEMMA CascadeIsCaused ==
    ASSUME NEW id \in Node, NEW q \in CascadeSkip(id)
    PROVE  \E p \in CascadeSkip(id) \cup {id} : DependsOn(q, p)
<1>1. SUFFICES ASSUME \A p \in CascadeSkip(id) \cup {id} : ~DependsOn(q, p)
               PROVE  FALSE
  OBVIOUS
<1> DEFINE S == CascadeSkip(id) \ {q}
<1>2. CascadeClosed(S, id)
  <2>1. SUFFICES ASSUME NEW r \in Open(id), NEW p \in S \cup {id}, DependsOn(r, p)
                 PROVE  r \in S
    BY DEF CascadeClosed
  <2>2. r \in CascadeSkip(id)
    BY <2>1, CascadeIsClosed
  <2>3. r # q
    BY <1>1, <2>1
  <2>4. QED
    BY <2>2, <2>3
<1>3. S \in SUBSET Node
  BY DEF CascadeSkip, Open
<1>4. q \in S
  BY <1>2, <1>3 DEF CascadeSkip
<1>5. QED
  BY <1>4

(* Success is final, so a probe that is ready stays ready. *)
LEMMA ReadyStable ==
    ASSUME plan \in Plans, plan' = plan, NEW p \in Node, Ready(p),
           \A q \in Node : status[q] = "Succeeded" => status'[q] = "Succeeded"
    PROVE  Ready(p)'
<1>1. \A i \in DOMAIN plan[p] : plan[p][i] \in Node
  BY PlanType
<1>2. QED
  BY <1>1 DEF Ready

(* A step that leaves the probes, the queue and the counters alone, and    *)
(* moves workers only between positions of the same kind.                  *)
LEMMA Frame ==
    ASSUME TypeOK, InductiveInv,
           UNCHANGED <<plan, status, remaining, queue, count, allDone, cur,
                       cascade, runnable>>,
           \A w \in Workers : Holds(w)' = Holds(w) /\ Owes(w)' = Owes(w),
           LocalInv', EnqueueInv'
    PROVE  InductiveInv'
<1>1. RemainingInv' /\ SkippedIffDependencyDidNotSucceed'
  BY DEF InductiveInv, SchedulerInv, RemainingInv, SkippedIffDependencyDidNotSucceed
<1>2. \A p : Ready(p)' = Ready(p) /\ Pending(p)' = Pending(p)
  BY DEF Ready, Pending
<1>3. PendingInv'
  BY <1>2 DEF InductiveInv, SchedulerInv, PendingInv
<1>4. DistinctInv'
  BY DEF InductiveInv, SchedulerInv, DistinctInv
<1>5. RunsAfterDependencies'
  BY <1>2 DEF InductiveInv, RunsAfterDependencies
<1>6. CountInv'
  <2>1. Uncounted' = Uncounted /\ Finalized' = Finalized
    BY DEF Uncounted, Finalized
  <2>2. QED
    BY <2>1 DEF InductiveInv, CountInv
<1>7. QED
  BY <1>1, <1>3, <1>4, <1>5, <1>6 DEF InductiveInv, SchedulerInv

-----------------------------------------------------------------------------
(* Each action preserves the invariant.                                    *)

LEMMA InitInductive == Init => InductiveInv
<1> SUFFICES ASSUME Init PROVE InductiveInv
  OBVIOUS
<1>1. RemainingInv
  <2>1. SUFFICES ASSUME NEW p \in Node
                 PROVE  remaining[p] = Cardinality({i \in DOMAIN plan[p] :
                                           status[plan[p][i]] # "Succeeded"})
    BY DEF RemainingInv
  <2>2. {i \in DOMAIN plan[p] : status[plan[p][i]] # "Succeeded"} = 1..Len(plan[p])
    BY PlanType DEF Init
  <2>3. Cardinality(1..Len(plan[p])) = Len(plan[p])
    BY PlanType, FS_Interval DEF Init
  <2>4. QED
    BY <2>2, <2>3 DEF Init
<1>2. PendingInv /\ DistinctInv /\ LocalInv /\ EnqueueInv
  BY DEF Init, PendingInv, DistinctInv, LocalInv, EnqueueInv, Holds
<1>3. RunsAfterDependencies /\ SkippedIffDependencyDidNotSucceed
  <2>1. \A p \in Node : \A i \in DOMAIN plan[p] : plan[p][i] \in Node
    BY PlanType DEF Init
  <2>2. QED
    BY <2>1 DEF Init, RunsAfterDependencies, SkippedIffDependencyDidNotSucceed, Holds
<1>4. CountInv
  <2>1. Finalized = {}
    BY DEF Init, Finalized
  <2>2. Cardinality(Finalized \ Uncounted) = 0
    BY <2>1, FS_EmptySet
  <2>3. QED
    BY <2>2 DEF Init, CountInv, Owes
<1>5. QED
  BY <1>1, <1>2, <1>3, <1>4 DEF InductiveInv, SchedulerInv

LEMMA QuietSteps ==
    ASSUME TypeOK, InductiveInv,
           \/ Cancel \/ CloseQueue \/ Join \/ Returned
           \/ \E w \in Workers :
                \/ Park(w) \/ Exit(w) \/ Check(w) \/ CancelBeforeRun(w)
                \/ Start(w) \/ Return(w) \/ Classify(w)
    PROVE  InductiveInv'
<1> USE DEF InductiveInv, SchedulerInv
<1>1. CASE Cancel
  BY <1>1, Frame DEF Cancel, caller, local, Holds, Owes, LocalInv, EnqueueInv
<1>2. CASE Returned
  BY <1>2, Frame DEF Returned, vars, shared, caller, local, Holds, Owes, LocalInv,
                     EnqueueInv
<1>3. CASE CloseQueue
  BY <1>3, Frame DEF CloseQueue, Broadcast, Holds, Owes, LocalInv, EnqueueInv, TypeOK
<1>4. CASE Join
  BY <1>4, Frame DEF Join, shared, local, Holds, Owes, LocalInv, EnqueueInv
<1>5. ASSUME NEW w \in Workers, Park(w) \/ Exit(w) \/ Start(w) \/ Return(w)
      PROVE  InductiveInv'
  <2>1. /\ UNCHANGED <<plan, status, remaining, queue, count, allDone, cur, cascade,
                       runnable, outcome, main, scan, closed>>
        /\ main # "enqueue"
    BY <1>5 DEF Park, Exit, Start, Return, shared, caller, EnqueueInv
  <2>2. \E l \in {"parked", "exited", "run", "classify"} : pc' = [pc EXCEPT ![w] = l]
    BY <1>5 DEF Park, Exit, Start, Return
  <2>3. pc[w] \in {"pop", "ctx", "run"}
    BY <1>5 DEF Park, Exit, Start, Return
  <2>4. LocalInv' /\ EnqueueInv'
    BY <2>1, <2>2, <2>3 DEF LocalInv, EnqueueInv, TypeOK
  <2>5. CASE Park(w) \/ Exit(w)
    BY <2>5, <2>1, <2>4, Frame DEF Park, Exit, Holds, Owes, TypeOK
  <2>6. CASE Start(w) \/ Return(w)
    BY <2>6, <2>1, <2>4, Frame DEF Start, Return, Holds, Owes, TypeOK
  <2>7. QED
    BY <1>5, <2>5, <2>6
<1>6. ASSUME NEW w \in Workers, Check(w) PROVE InductiveInv'
  <2>1. status[cur[w]] = "none"
    BY <1>6 DEF Check, PendingInv, Pending, Holds
  <2>2. QED
    BY <1>6, <2>1, Frame DEF Check, shared, caller, Holds, Owes, LocalInv, EnqueueInv,
                             TypeOK
<1>7. ASSUME NEW w \in Workers, CancelBeforeRun(w) PROVE InductiveInv'
  BY <1>7, Frame DEF CancelBeforeRun, shared, caller, Holds, Owes, LocalInv,
                     EnqueueInv, TypeOK
<1>8. ASSUME NEW w \in Workers, Classify(w) PROVE InductiveInv'
  BY <1>8, Frame DEF Classify, Classification, shared, caller, Holds, Owes, LocalInv,
                     EnqueueInv, TypeOK
<1>9. QED
  BY <1>1, <1>2, <1>3, <1>4, <1>5, <1>6, <1>7, <1>8

LEMMA EnqueueStep ==
    ASSUME TypeOK, InductiveInv, Enqueue
    PROVE  InductiveInv'
<1> USE DEF InductiveInv, SchedulerInv
<1>1. /\ scan \in Node /\ queue \in Seq(Node)
      /\ UNCHANGED <<plan, status, remaining, count, allDone, pc, cur, cascade, runnable,
                     outcome, closed>>
  BY DEF TypeOK, Enqueue, local
<1>2. \A w \in Workers : pc[w] = "pop" /\ runnable[w] = {} /\ cascade[w] = {}
  BY DEF EnqueueInv, Enqueue, LocalInv
<1>3. \A p : /\ Ready(p)' = Ready(p)
             /\ Pending(p)' = Pending(p)
  BY <1>1 DEF Ready, Pending
<1>4. \A w \in Workers : ~Holds(w) /\ ~Holds(w)' /\ ~Owes(w) /\ ~Owes(w)'
  BY <1>1, <1>2 DEF Holds, Owes
<1>5. RemainingInv' /\ RunsAfterDependencies' /\ SkippedIffDependencyDidNotSucceed'
  BY <1>1, <1>3, <1>4 DEF RemainingInv, RunsAfterDependencies,
                          SkippedIffDependencyDidNotSucceed
<1>6. CountInv'
  <2>1. Uncounted' = Uncounted /\ Finalized' = Finalized
    BY <1>1, <1>4 DEF Uncounted, Finalized
  <2>2. QED
    BY <1>1, <1>4, <2>1 DEF CountInv
<1>7. LocalInv'
  BY <1>1, <1>2 DEF LocalInv
<1>8. CASE remaining[scan] = 0
  <2>1. queue' = Append(queue, scan)
    BY <1>8 DEF Enqueue
  <2>2. /\ DOMAIN queue = 1..Len(queue) /\ DOMAIN queue' = 1..(Len(queue) + 1)
        /\ \A i \in 1..Len(queue) : queue'[i] = queue[i]
        /\ queue'[Len(queue) + 1] = scan
        /\ Len(queue) \in Nat
    BY <1>1, <2>1, AppendProperties, LenProperties
  <2>3. \A i \in DOMAIN queue : queue[i] < scan /\ queue[i] \in Node
    BY <1>1 DEF EnqueueInv, Enqueue
  <2>4. Pending(scan)
    <3>1. {i \in DOMAIN plan[scan] : status[plan[scan][i]] # "Succeeded"} = {}
      BY <1>1, <1>8, EdgeSets DEF RemainingInv, TypeOK
    <3>2. Ready(scan)
      BY <3>1 DEF Ready
    <3>3. status[scan] = "none"
      BY <1>1 DEF EnqueueInv, Enqueue
    <3>4. QED
      BY <3>2, <3>3 DEF Pending
  <2>5. PendingInv'
    BY <1>1, <1>2, <1>3, <1>4, <2>2, <2>4 DEF PendingInv
  <2>6. DistinctInv'
    BY <1>1, <1>2, <1>4, <2>2, <2>3, SMTT(30) DEF DistinctInv, Node
  <2>7. EnqueueInv'
    BY <1>1, <1>2, <2>2, <2>3 DEF EnqueueInv, Enqueue, Node
  <2>8. QED
    BY <1>5, <1>6, <1>7, <2>5, <2>6, <2>7
<1>9. CASE remaining[scan] # 0
  <2>1. queue' = queue
    BY <1>9 DEF Enqueue
  <2>2. \A i \in DOMAIN queue : queue[i] < scan /\ queue[i] \in Node
    BY <1>1 DEF EnqueueInv, Enqueue
  <2>3. PendingInv' /\ DistinctInv'
    BY <1>1, <1>2, <1>3, <1>4, <2>1 DEF PendingInv, DistinctInv
  <2>4. EnqueueInv'
    BY <1>1, <1>2, <2>1, <2>2 DEF EnqueueInv, Enqueue, Node
  <2>5. QED
    BY <1>5, <1>6, <1>7, <2>3, <2>4
<1>10. QED
  BY <1>8, <1>9

LEMMA PopStep ==
    ASSUME TypeOK, InductiveInv, NEW w \in Workers, Pop(w)
    PROVE  InductiveInv'
<1> USE DEF InductiveInv, SchedulerInv
<1>1. UNCHANGED <<plan, status, remaining, count, allDone, cascade, runnable, outcome,
                  main, scan, closed>>
  BY DEF Pop, caller
<1>2. /\ pc[w] = "pop" /\ pc' = [pc EXCEPT ![w] = "check"]
      /\ cur' = [cur EXCEPT ![w] = queue[1]] /\ main # "enqueue"
  BY DEF Pop
<1>3. /\ Len(queue) \in Nat \ {0}
      /\ DOMAIN queue = 1..Len(queue)
      /\ DOMAIN queue' = 1..(Len(queue) - 1)
      /\ \A i \in DOMAIN queue' : queue'[i] = queue[i + 1]
      /\ \A i \in DOMAIN queue : queue[i] \in Node
  BY HeadTailProperties, LenProperties, EmptySeq DEF Pop, TypeOK
<1>4. /\ \A v \in Workers : v # w => /\ cur'[v] = cur[v]
                                     /\ Holds(v)' = Holds(v)
                                     /\ Owes(v)' = Owes(v)
      /\ Holds(w)' /\ ~Holds(w) /\ ~Owes(w) /\ ~Owes(w)' /\ cur'[w] = queue[1]
  BY <1>2 DEF Holds, Owes, TypeOK
<1>5. \A p : Ready(p)' = Ready(p) /\ Pending(p)' = Pending(p)
  BY <1>1 DEF Ready, Pending
<1>6. RemainingInv' /\ SkippedIffDependencyDidNotSucceed'
  BY <1>1 DEF RemainingInv, SkippedIffDependencyDidNotSucceed
<1>7. PendingInv'
  <2>1. \A i \in DOMAIN queue' : Pending(queue[i])'
    BY <1>1, <1>3 DEF PendingInv, Pending, Ready
  <2>2. \A v \in Workers : (Holds(v) => cur[v] \in Node /\ Pending(cur[v]))'
    <3>1. queue[1] \in Node /\ Pending(queue[1])
      BY <1>3 DEF PendingInv
    <3>2. (cur[w] \in Node /\ Pending(cur[w]))'
      BY <1>1, <1>4, <3>1 DEF Pending, Ready
    <3>3. \A v \in Workers : v # w => (Holds(v) => cur[v] \in Node /\ Pending(cur[v]))'
      <4>1. SUFFICES ASSUME NEW v \in Workers, v # w, Holds(v)
                     PROVE  (cur[v] \in Node /\ Pending(cur[v]))'
        BY <1>4
      <4>2. cur[v] \in Node /\ Pending(cur[v]) /\ cur'[v] = cur[v]
        BY <1>4, <4>1 DEF PendingInv
      <4>3. QED
        BY <1>1, <4>2 DEF Pending, Ready
    <3>4. QED
      BY <3>2, <3>3
  <2>3. \A v \in Workers : \A q \in runnable'[v] : Pending(q)'
    BY <1>1, <1>5 DEF PendingInv
  <2>4. QED
    BY <2>1, <2>2, <2>3 DEF PendingInv
<1>8. DistinctInv'
  <2>1. \A i, j \in DOMAIN queue' : queue'[i] = queue'[j] => i = j
    BY <1>3 DEF DistinctInv
  <2>2. \A i \in DOMAIN queue', v \in Workers :
          /\ Holds(v)' => queue'[i] # cur'[v]
          /\ queue'[i] \notin runnable'[v]
    BY <1>1, <1>3, <1>4 DEF DistinctInv
  <2>3. \A u, v \in Workers :
          /\ u # v /\ Holds(u)' /\ Holds(v)' => cur'[u] # cur'[v]
          /\ Holds(u)' => cur'[u] \notin runnable'[v]
          /\ u # v => runnable'[u] \cap runnable'[v] = {}
    BY <1>1, <1>3, <1>4 DEF DistinctInv
  <2>4. QED
    BY <2>1, <2>2, <2>3 DEF DistinctInv
<1>9. LocalInv' /\ EnqueueInv'
  BY <1>1, <1>2 DEF LocalInv, EnqueueInv, TypeOK
<1>10. RunsAfterDependencies'
  BY <1>1, <1>5, <1>7 DEF RunsAfterDependencies, PendingInv, Pending
<1>11. CountInv'
  <2>1. Uncounted' = Uncounted /\ Finalized' = Finalized
    BY <1>1, <1>4 DEF Uncounted, Finalized
  <2>2. QED
    BY <1>1, <1>4, <2>1 DEF CountInv
<1>12. QED
  BY <1>6, <1>7, <1>8, <1>9, <1>10, <1>11

LEMMA CountSkippedStep ==
    ASSUME TypeOK, InductiveInv, NEW w \in Workers, CountSkipped(w)
    PROVE  InductiveInv'
<1> USE DEF InductiveInv, SchedulerInv
<1>1. /\ UNCHANGED <<plan, status, remaining, queue, allDone, cur, runnable, outcome,
                     main, scan, closed>>
      /\ pc[w] = "count"
  BY DEF CountSkipped, caller
<1>2. main # "enqueue"
  BY <1>1 DEF EnqueueInv
<1>3. CASE cascade[w] = {}
  <2>1. pc' = [pc EXCEPT ![w] = "push"] /\ UNCHANGED <<count, cascade>>
    BY <1>3 DEF CountSkipped
  <2>2. \A v \in Workers : Holds(v)' = Holds(v) /\ Owes(v)' = Owes(v)
    BY <1>1, <2>1 DEF Holds, Owes, TypeOK
  <2>3. LocalInv' /\ EnqueueInv'
    BY <1>1, <1>2, <1>3, <2>1 DEF LocalInv, EnqueueInv, TypeOK
  <2>4. QED
    BY <1>1, <2>1, <2>2, <2>3, Frame
<1>4. CASE cascade[w] # {}
  <2>1. PICK p \in cascade[w] : cascade' = [cascade EXCEPT ![w] = @ \ {p}]
    BY <1>4 DEF CountSkipped
  <2>2. count' = count + 1 /\ pc' = pc
    BY <1>4 DEF CountSkipped
  <2>3. \A v \in Workers : /\ Holds(v)' = Holds(v) /\ Owes(v)' = Owes(v)
                           /\ cascade'[v] = IF v = w THEN cascade[v] \ {p} ELSE cascade[v]
    BY <2>1, <2>2 DEF Holds, Owes, TypeOK
  <2>4. \A q : Ready(q)' = Ready(q) /\ Pending(q)' = Pending(q)
    BY <1>1 DEF Ready, Pending
  <2>5. RemainingInv' /\ SkippedIffDependencyDidNotSucceed'
    BY <1>1 DEF RemainingInv, SkippedIffDependencyDidNotSucceed
  <2>6. PendingInv' /\ DistinctInv' /\ RunsAfterDependencies'
    BY <1>1, <2>3, <2>4 DEF PendingInv, DistinctInv, RunsAfterDependencies
  <2>7. LocalInv' /\ EnqueueInv'
    BY <1>1, <1>2, <2>2, <2>3 DEF LocalInv, EnqueueInv
  <2>8. CountInv'
    <3>1. p \in Node /\ p \in Finalized
      BY DEF CountInv, TypeOK
    <3>2. \A v \in Workers : /\ v # w => p \notin cascade[v]
                             /\ Owes(v) => p # cur[v]
      BY DEF CountInv
    <3>3. Finalized' = Finalized
      BY <1>1 DEF Finalized
    <3>4. Uncounted' = Uncounted \ {p} /\ p \in Uncounted
      <4>1. p \in Uncounted /\ p \notin Uncounted'
        BY <1>1, <2>3, <3>1, <3>2 DEF Uncounted
      <4>2. \A q \in Node : q # p => (q \in Uncounted' <=> q \in Uncounted)
        BY <1>1, <2>3 DEF Uncounted
      <4>3. QED
        BY <4>1, <4>2 DEF Uncounted
    <3>5. /\ Finalized \ Uncounted' = (Finalized \ Uncounted) \cup {p}
          /\ p \notin Finalized \ Uncounted
          /\ Finalized \ Uncounted \in SUBSET Node
      BY <3>1, <3>4 DEF Finalized
    <3>6. Cardinality(Finalized' \ Uncounted') = count + 1
      BY <3>3, <3>5, NodeSubset, FS_AddElement DEF CountInv
    <3>7. count + 1 <= N
      <4>1. (Finalized \ Uncounted) \cup {p} \in SUBSET Node
        BY <3>1, <3>5
      <4>2. QED
        BY <3>3, <3>5, <3>6, <4>1, NodeFinite, FS_Subset
    <3>8. ~allDone
      BY <3>7 DEF CountInv, TypeOK
    <3>9. QED
      BY <1>1, <2>2, <2>3, <3>3, <3>6, <3>8 DEF CountInv
  <2>9. QED
    BY <2>5, <2>6, <2>7, <2>8
<1>5. QED
  BY <1>3, <1>4

LEMMA PushStep ==
    ASSUME TypeOK, InductiveInv, NEW w \in Workers, Push(w)
    PROVE  InductiveInv'
<1> USE DEF InductiveInv, SchedulerInv
<1>1. /\ UNCHANGED <<plan, status, remaining, count, allDone, cur, cascade, outcome,
                     main, scan, closed>>
      /\ pc[w] = "push"
  BY DEF Push, caller
<1>2. main # "enqueue"
  BY <1>1 DEF EnqueueInv
<1>3. CASE runnable[w] = {}
  <2>1. pc' = [pc EXCEPT ![w] = "signal"] /\ UNCHANGED <<queue, runnable>>
    BY <1>3 DEF Push
  <2>2. \A v \in Workers : Holds(v)' = Holds(v) /\ Owes(v)' = Owes(v)
    BY <1>1, <2>1 DEF Holds, Owes, TypeOK
  <2>3. LocalInv' /\ EnqueueInv'
    BY <1>1, <1>2, <1>3, <2>1 DEF LocalInv, EnqueueInv, TypeOK
  <2>4. QED
    BY <1>1, <2>1, <2>2, <2>3, Frame
<1>4. CASE runnable[w] # {}
  <2>1. PICK p \in runnable[w] :
          /\ runnable' = [runnable EXCEPT ![w] = @ \ {p}]
          /\ queue' = IF closed THEN queue ELSE Append(queue, p)
    BY <1>4 DEF Push
  <2>2. pc' = pc \/ pc' = Broadcast(pc)
    BY <1>4 DEF Push
  <2>3. \A v \in Workers :
          /\ Holds(v)' = Holds(v) /\ Owes(v)' = Owes(v)
          /\ pc'[v] = pc[v] \/ (pc[v] = "parked" /\ pc'[v] = "pop")
          /\ runnable'[v] = IF v = w THEN runnable[v] \ {p} ELSE runnable[v]
    <3>1. \A v \in Workers : pc'[v] = pc[v] \/ (pc[v] = "parked" /\ pc'[v] = "pop")
      BY <2>2 DEF Broadcast, TypeOK
    <3>2. \A v \in Workers :
             runnable'[v] = IF v = w THEN runnable[v] \ {p} ELSE runnable[v]
      BY <2>1 DEF TypeOK
    <3>3. \A v \in Workers : Holds(v)' = Holds(v) /\ Owes(v)' = Owes(v)
      BY <3>1 DEF Holds, Owes
    <3>4. QED
      BY <3>1, <3>2, <3>3
  <2>4. \A q : Ready(q)' = Ready(q) /\ Pending(q)' = Pending(q)
    BY <1>1 DEF Ready, Pending
  <2>5. p \in Node /\ Pending(p)
    BY <2>1 DEF PendingInv, TypeOK
  <2>6. \A i \in DOMAIN queue' : queue'[i] = p \/ \E j \in DOMAIN queue : queue'[i] = queue[j]
    BY <2>1, <2>5, AppendProperties, LenProperties DEF TypeOK
  <2>7. \A i, j \in DOMAIN queue' : queue'[i] = queue'[j] => i = j
    <3>1. \A i \in DOMAIN queue : queue[i] # p
      BY <2>1 DEF DistinctInv
    <3>2. CASE closed
      BY <2>1, <3>2 DEF DistinctInv
    <3>3. CASE ~closed
      <4>1. /\ DOMAIN queue = 1..Len(queue) /\ DOMAIN queue' = 1..(Len(queue) + 1)
            /\ \A i \in 1..Len(queue) : queue'[i] = queue[i]
            /\ queue'[Len(queue) + 1] = p
            /\ Len(queue) \in Nat
        BY <2>1, <2>5, <3>3, AppendProperties, LenProperties DEF TypeOK
      <4>2. QED
        BY <3>1, <4>1 DEF DistinctInv
    <3>4. QED
      BY <3>2, <3>3
  <2>8. RemainingInv' /\ SkippedIffDependencyDidNotSucceed'
    BY <1>1 DEF RemainingInv, SkippedIffDependencyDidNotSucceed
  <2>9. PendingInv'
    <3>1. \A i \in DOMAIN queue' : Pending(queue[i])'
      <4>1. SUFFICES ASSUME NEW i \in DOMAIN queue' PROVE Pending(queue[i])'
        OBVIOUS
      <4>2. Pending(queue'[i])
        BY <2>5, <2>6 DEF PendingInv
      <4>3. QED
        BY <1>1, <4>2 DEF Pending, Ready
    <3>2. \A v \in Workers : (Holds(v) => cur[v] \in Node /\ Pending(cur[v]))'
      BY <1>1, <2>3, <2>4 DEF PendingInv
    <3>3. \A v \in Workers : \A q \in runnable'[v] : Pending(q)'
      BY <2>3, <2>4 DEF PendingInv
    <3>4. QED
      BY <3>1, <3>2, <3>3 DEF PendingInv
  <2>10. DistinctInv'
    <3>1. \A i \in DOMAIN queue', v \in Workers :
            /\ Holds(v)' => queue'[i] # cur'[v]
            /\ queue'[i] \notin runnable'[v]
      <4>1. \A v \in Workers : /\ Holds(v) => cur[v] # p
                               /\ v # w => p \notin runnable[v]
        BY <2>1 DEF DistinctInv
      <4>2. \A j \in DOMAIN queue, v \in Workers :
               /\ Holds(v) => queue[j] # cur[v]
               /\ queue[j] \notin runnable[v]
        BY DEF DistinctInv
      <4>3. SUFFICES ASSUME NEW i \in DOMAIN queue', NEW v \in Workers
                     PROVE  /\ Holds(v)' => queue'[i] # cur'[v]
                            /\ queue'[i] \notin runnable'[v]
        OBVIOUS
      <4>4. CASE queue'[i] = p
        BY <1>1, <2>3, <4>1, <4>4
      <4>5. CASE \E j \in DOMAIN queue : queue'[i] = queue[j]
        <5>1. PICK j \in DOMAIN queue : queue'[i] = queue[j]
          BY <4>5
        <5>2. (Holds(v) => queue[j] # cur[v]) /\ queue[j] \notin runnable[v]
          BY <4>2
        <5>3. QED
          BY <1>1, <2>3, <5>1, <5>2
      <4>6. QED
        BY <2>6, <4>4, <4>5
    <3>2. \A u, v \in Workers :
            /\ u # v /\ Holds(u)' /\ Holds(v)' => cur'[u] # cur'[v]
            /\ Holds(u)' => cur'[u] \notin runnable'[v]
            /\ u # v => runnable'[u] \cap runnable'[v] = {}
      BY <1>1, <2>3 DEF DistinctInv
    <3>3. QED
      BY <2>7, <3>1, <3>2 DEF DistinctInv
  <2>11. LocalInv' /\ EnqueueInv'
    BY <1>1, <1>2, <2>3 DEF LocalInv, EnqueueInv
  <2>12. RunsAfterDependencies'
    BY <1>1, <2>3, <2>4 DEF RunsAfterDependencies
  <2>13. CountInv'
    <3>1. Uncounted' = Uncounted /\ Finalized' = Finalized
      BY <1>1, <2>3 DEF Uncounted, Finalized
    <3>2. QED
      BY <1>1, <2>3, <3>1 DEF CountInv
  <2>14. QED
    BY <2>8, <2>9, <2>10, <2>11, <2>12, <2>13
<1>5. QED
  BY <1>3, <1>4

LEMMA SignalStep ==
    ASSUME TypeOK, InductiveInv, NEW w \in Workers, SignalCompletion(w)
    PROVE  InductiveInv'
<1> USE DEF InductiveInv, SchedulerInv
<1>1. /\ UNCHANGED <<plan, status, remaining, queue, cascade, runnable, outcome,
                     main, scan, closed>>
      /\ pc[w] = "signal" /\ pc' = [pc EXCEPT ![w] = "pop"]
      /\ cur' = [cur EXCEPT ![w] = 0]
      /\ count' = count + 1 /\ allDone' = (allDone \/ count' = N)
  BY DEF SignalCompletion, caller
<1>2. main # "enqueue"
  BY <1>1 DEF EnqueueInv
<1>3. /\ \A v \in Workers : v # w => /\ cur'[v] = cur[v]
                                     /\ Holds(v)' = Holds(v)
                                     /\ Owes(v)' = Owes(v)
      /\ Owes(w) /\ ~Owes(w)' /\ ~Holds(w) /\ ~Holds(w)'
      /\ cascade[w] = {}
  BY <1>1 DEF Holds, Owes, LocalInv, TypeOK
<1>4. \A q : Ready(q)' = Ready(q) /\ Pending(q)' = Pending(q)
  BY <1>1 DEF Ready, Pending
<1>5. RemainingInv' /\ SkippedIffDependencyDidNotSucceed'
  BY <1>1 DEF RemainingInv, SkippedIffDependencyDidNotSucceed
<1>6. PendingInv'
  <2>1. \A v \in Workers : (Holds(v) => cur[v] \in Node /\ Pending(cur[v]))'
    <3>1. SUFFICES ASSUME NEW v \in Workers, Holds(v)'
                   PROVE  (cur[v] \in Node /\ Pending(cur[v]))'
      OBVIOUS
    <3>2. cur'[v] = cur[v] /\ cur[v] \in Node /\ Pending(cur[v])
      BY <1>3, <3>1 DEF PendingInv
    <3>3. QED
      BY <1>1, <3>2 DEF Pending, Ready
  <2>2. QED
    BY <1>1, <1>4, <2>1 DEF PendingInv
<1>7. DistinctInv'
  BY <1>1, <1>3 DEF DistinctInv
<1>8. LocalInv' /\ EnqueueInv'
  BY <1>1, <1>2 DEF LocalInv, EnqueueInv, TypeOK
<1>9. RunsAfterDependencies'
  BY <1>1, <1>4, <1>6 DEF RunsAfterDependencies, PendingInv, Pending
<1>10. CountInv'
  <2> DEFINE p == cur[w]
  <2>1. p \in Node /\ p \in Finalized
    BY <1>3 DEF CountInv, Finalized
  <2>2. \A v \in Workers : /\ v # w => ~(Owes(v) /\ p = cur[v])
                           /\ p \notin cascade[v]
    BY <1>3 DEF CountInv
  <2>3. Finalized' = Finalized
    BY <1>1 DEF Finalized
  <2>4. Uncounted' = Uncounted \ {p} /\ p \in Uncounted
    <3>1. p \in Uncounted /\ p \notin Uncounted'
      BY <1>1, <1>3, <2>1, <2>2 DEF Uncounted
    <3>2. \A q \in Node : q # p => (q \in Uncounted' <=> q \in Uncounted)
      BY <1>1, <1>3 DEF Uncounted
    <3>3. QED
      BY <3>1, <3>2 DEF Uncounted
  <2>5. /\ Finalized \ Uncounted' = (Finalized \ Uncounted) \cup {p}
        /\ p \notin Finalized \ Uncounted
        /\ Finalized \ Uncounted \in SUBSET Node
    BY <2>1, <2>4 DEF Finalized
  <2>6. Cardinality(Finalized' \ Uncounted') = count + 1
    BY <2>3, <2>5, NodeSubset, FS_AddElement DEF CountInv
  <2>7. count + 1 <= N
    <3>1. (Finalized \ Uncounted) \cup {p} \in SUBSET Node
      BY <2>1, <2>5
    <3>2. QED
      BY <2>3, <2>5, <2>6, <3>1, NodeFinite, FS_Subset
  <2>8. ~allDone
    BY <2>7 DEF CountInv, TypeOK
  <2>9. \A u, v \in Workers :
          /\ u # v /\ Owes(u)' /\ Owes(v)' => cur'[u] # cur'[v]
          /\ u # v => cascade'[u] \cap cascade'[v] = {}
          /\ Owes(u)' => cur'[u] \notin cascade'[v]
    BY <1>1, <1>3 DEF CountInv
  <2>10. /\ \A v \in Workers : Owes(v)' => cur'[v] \in Finalized'
         /\ \A v \in Workers : cascade'[v] \subseteq Finalized'
    BY <1>1, <1>3, <2>3 DEF CountInv
  <2>11. QED
    BY <1>1, <2>6, <2>8, <2>9, <2>10 DEF CountInv
<1>11. QED
  BY <1>5, <1>6, <1>7, <1>8, <1>9, <1>10

LEMMA RecordSuccessStep ==
    ASSUME TypeOK, InductiveInv, NEW w \in Workers, RecordSuccess(w)
    PROVE  InductiveInv'
<1> USE DEF InductiveInv, SchedulerInv
<1> DEFINE id == cur[w]
           Unmet(p) == {i \in DOMAIN plan[p] : status[plan[p][i]] # "Succeeded"}
<1>1. pc[w] = "record" /\ Holds(w) /\ id \in Node /\ status[id] = "none" /\ Ready(id)
  BY DEF RecordSuccess, Holds, PendingInv, Pending
<1>2. /\ UNCHANGED <<plan, queue, count, allDone, cur, cascade, main, scan, closed>>
      /\ status' = [status EXCEPT ![id] = "Succeeded"]
      /\ pc' = [pc EXCEPT ![w] = "push"]
      /\ outcome' = [outcome EXCEPT ![w] = "none"]
  BY <1>1 DEF RecordSuccess, caller
<1>3. remaining' = [q \in Node |-> remaining[q] - Edges(q, id)]
  BY <1>1 DEF RecordSuccess, Release
<1>4. runnable' = [runnable EXCEPT ![w] =
                     {q \in Node : DependsOn(q, id) /\ remaining'[q] = 0}]
  BY <1>1 DEF RecordSuccess
<1>5. main # "enqueue" /\ runnable[w] = {} /\ cascade[w] = {}
  BY <1>1 DEF EnqueueInv, LocalInv
<1>6. /\ \A v \in Workers : v # w => Holds(v)' = Holds(v) /\ Owes(v)' = Owes(v)
      /\ ~Holds(w)' /\ Owes(w)' /\ ~Owes(w)
  BY <1>1, <1>2 DEF Holds, Owes, TypeOK
<1>7. /\ status'[id] = "Succeeded"
      /\ \A q \in Node : q # id => status'[q] = status[q]
  BY <1>1, <1>2 DEF TypeOK
<1>8. \A p \in Node : Ready(p) => Ready(p)'
  BY <1>2, <1>7, ReadyStable DEF TypeOK
<1>9. \A p \in Node : \A i \in DOMAIN plan[p] : plan[p][i] \in Node
  BY PlanType DEF TypeOK
<1>10. \A p \in Node : DependsOn(p, id) => ~Ready(p)
  BY <1>1 DEF DependsOn, Ready
<1>11. RemainingInv'
  <2>1. SUFFICES ASSUME NEW p \in Node
                 PROVE  remaining'[p] = Cardinality(Unmet(p)')
    BY DEF RemainingInv
  <2> DEFINE B == {i \in DOMAIN plan[p] : plan[p][i] = id}
  <2>2. B \subseteq Unmet(p) /\ Unmet(p)' = Unmet(p) \ B
    BY <1>1, <1>2, <1>7, <1>9
  <2>3. IsFiniteSet(Unmet(p))
    BY EdgeSets DEF TypeOK
  <2>4. Cardinality(Unmet(p) \ B) = Cardinality(Unmet(p)) - Cardinality(B)
    BY <2>2, <2>3, CardinalityDifference
  <2>5. remaining[p] = Cardinality(Unmet(p)) /\ Edges(p, id) = Cardinality(B)
    BY DEF RemainingInv, Edges
  <2>6. QED
    BY <1>3, <2>2, <2>4, <2>5
<1>12. \A q \in runnable'[w] : q \in Node /\ DependsOn(q, id) /\ Pending(q)'
  <2>1. SUFFICES ASSUME NEW q \in Node, DependsOn(q, id), remaining'[q] = 0
                 PROVE  Pending(q)'
    BY <1>4 DEF TypeOK
  <2>2. Unmet(q)' = {}
    <3>1. Cardinality(Unmet(q)') = 0
      BY <1>11, <2>1 DEF RemainingInv
    <3>2. Unmet(q)' \in SUBSET DOMAIN plan[q]
      BY <1>2
    <3>3. QED
      BY <3>1, <3>2, EdgeSets DEF TypeOK
  <2>3. Ready(q)'
    BY <2>2 DEF Ready
  <2>4. status[q] = "none" /\ q # id
    <3>1. q # id
      BY <1>1, <1>10, <2>1
    <3>2. status[q] \notin {"Succeeded", "Failed", "Cancelled"}
      BY <1>10, <2>1 DEF RunsAfterDependencies
    <3>3. status[q] # "Skipped"
      <4>1. SUFFICES ASSUME NEW i \in DOMAIN plan[q],
                            status[plan[q][i]] \in {"Failed", "Cancelled", "Skipped"}
                     PROVE  FALSE
        BY DEF SkippedIffDependencyDidNotSucceed
      <4>2. plan[q][i] \in Node /\ plan[q][i] # id
        BY <1>1, <1>9, <4>1
      <4>3. status'[plan[q][i]] # "Succeeded"
        BY <1>7, <4>1, <4>2
      <4>4. QED
        BY <1>2, <2>2, <4>3
    <3>4. QED
      BY <3>1, <3>2, <3>3 DEF TypeOK, Final
  <2>5. QED
    BY <1>7, <2>3, <2>4 DEF Pending
<1>13. \A v \in Workers : v # w => runnable'[v] = runnable[v]
  BY <1>4 DEF TypeOK
<1>14. PendingInv'
  <2>1. \A q \in Node : q # id /\ Pending(q) => Pending(q)'
    BY <1>7, <1>8 DEF Pending
  <2>2. \A i \in DOMAIN queue' : Pending(queue[i])'
    <3>1. SUFFICES ASSUME NEW i \in DOMAIN queue PROVE Pending(queue[i])'
      BY <1>2
    <3>2. queue[i] \in Node /\ queue[i] # id /\ Pending(queue[i])
      BY <1>1 DEF PendingInv, DistinctInv, TypeOK
    <3>3. PICK q \in Node : q = queue[i]
      BY <3>2
    <3>4. Pending(q)'
      BY <2>1, <3>2, <3>3
    <3>5. QED
      BY <1>2, <3>3, <3>4 DEF Pending, Ready
  <2>3. \A v \in Workers : (Holds(v) => cur[v] \in Node /\ Pending(cur[v]))'
    <3>1. SUFFICES ASSUME NEW v \in Workers, Holds(v)'
                   PROVE  (cur[v] \in Node /\ Pending(cur[v]))'
      OBVIOUS
    <3>2. cur[v] \in Node /\ cur[v] # id /\ Pending(cur[v])
      BY <1>1, <1>6, <3>1 DEF PendingInv, DistinctInv
    <3>3. PICK q \in Node : q = cur[v]
      BY <3>2
    <3>4. Pending(q)'
      BY <2>1, <3>2, <3>3
    <3>5. QED
      BY <1>2, <3>3, <3>4 DEF Pending, Ready
  <2>4. \A v \in Workers : \A q \in runnable'[v] : Pending(q)'
    <3>1. SUFFICES ASSUME NEW v \in Workers, v # w, NEW q \in runnable[v] PROVE Pending(q)'
      BY <1>12, <1>13
    <3>2. q \in Node /\ q # id /\ Pending(q)
      BY <1>1 DEF PendingInv, DistinctInv, TypeOK
    <3>3. QED
      BY <2>1, <3>2
  <2>5. QED
    BY <2>2, <2>3, <2>4 DEF PendingInv
<1>15. DistinctInv'
  <2>1. \A q \in runnable'[w] : ~Ready(q)
    BY <1>10, <1>12
  <2>2. /\ \A i \in DOMAIN queue : queue[i] \notin runnable'[w]
        /\ \A v \in Workers : /\ Holds(v) => cur[v] \notin runnable'[w]
                              /\ runnable[v] \cap runnable'[w] = {}
    BY <2>1 DEF PendingInv, Pending
  <2>3. \A i \in DOMAIN queue', v \in Workers :
          /\ Holds(v)' => queue'[i] # cur'[v]
          /\ queue'[i] \notin runnable'[v]
    BY <1>2, <1>6, <1>13, <2>2 DEF DistinctInv
  <2>4. \A u, v \in Workers :
          /\ u # v /\ Holds(u)' /\ Holds(v)' => cur'[u] # cur'[v]
          /\ Holds(u)' => cur'[u] \notin runnable'[v]
          /\ u # v => runnable'[u] \cap runnable'[v] = {}
    BY <1>2, <1>6, <1>13, <2>2 DEF DistinctInv
  <2>5. QED
    BY <1>2, <2>3, <2>4 DEF DistinctInv
<1>16. LocalInv' /\ EnqueueInv'
  BY <1>1, <1>2, <1>5, <1>13 DEF LocalInv, EnqueueInv, TypeOK
<1>17. RunsAfterDependencies'
  <2>1. \A p \in Node : status'[p] \in {"Succeeded", "Failed", "Cancelled"} => Ready(p)'
    BY <1>1, <1>7, <1>8 DEF RunsAfterDependencies
  <2>2. QED
    BY <1>14, <2>1 DEF RunsAfterDependencies, PendingInv, Pending
<1>18. SkippedIffDependencyDidNotSucceed'
  BY <1>1, <1>2, <1>7, <1>9 DEF SkippedIffDependencyDidNotSucceed
<1>19. CountInv'
  <2>1. Finalized' = Finalized \cup {id} /\ id \notin Finalized
    BY <1>1, <1>7 DEF Finalized
  <2>2. Uncounted' = Uncounted \cup {id}
    BY <1>1, <1>2, <1>6 DEF Uncounted
  <2>3. Finalized' \ Uncounted' = Finalized \ Uncounted
    BY <2>1, <2>2
  <2>4. \A v \in Workers : /\ Owes(v)' => cur'[v] \in Finalized'
                           /\ cascade'[v] \subseteq Finalized'
    BY <1>2, <1>6, <2>1 DEF CountInv
  <2>5. \A u, v \in Workers :
          /\ u # v /\ Owes(u)' /\ Owes(v)' => cur'[u] # cur'[v]
          /\ u # v => cascade'[u] \cap cascade'[v] = {}
          /\ Owes(u)' => cur'[u] \notin cascade'[v]
    BY <1>2, <1>6, <2>1 DEF CountInv
  <2>6. QED
    BY <1>2, <2>3, <2>4, <2>5 DEF CountInv
<1>20. QED
  BY <1>11, <1>14, <1>15, <1>16, <1>17, <1>18, <1>19

LEMMA RecordOtherStep ==
    ASSUME TypeOK, InductiveInv, NEW w \in Workers, RecordOther(w)
    PROVE  InductiveInv'
<1> USE DEF InductiveInv, SchedulerInv
<1> DEFINE id == cur[w]
           R == CascadeSkip(id)
<1>1. /\ pc[w] = "record" /\ Holds(w) /\ id \in Node /\ status[id] = "none" /\ Ready(id)
      /\ outcome[w] \in {"Failed", "Cancelled"}
  BY DEF RecordOther, Holds, PendingInv, Pending, LocalInv, TypeOK
<1>2. /\ UNCHANGED <<plan, remaining, queue, count, allDone, cur, runnable, main, scan,
                     closed>>
      /\ pc' = [pc EXCEPT ![w] = "count"]
      /\ outcome' = [outcome EXCEPT ![w] = "none"]
      /\ cascade' = [cascade EXCEPT ![w] = R]
  BY <1>1 DEF RecordOther, caller
<1>3. status' = [q \in Node |-> IF q = id THEN outcome[w]
                                ELSE IF q \in R THEN "Skipped" ELSE status[q]]
  BY <1>1 DEF RecordOther
<1>4. main # "enqueue" /\ runnable[w] = {} /\ cascade[w] = {}
  BY <1>1 DEF EnqueueInv, LocalInv
<1>5. /\ \A v \in Workers : v # w => Holds(v)' = Holds(v) /\ Owes(v)' = Owes(v)
      /\ ~Holds(w)' /\ Owes(w)' /\ ~Owes(w)
  BY <1>1, <1>2 DEF Holds, Owes, TypeOK
<1>6. R \subseteq Node /\ id \notin R /\ \A q \in R : status[q] = "none"
  BY DEF CascadeSkip, Open
<1>7. /\ status'[id] = outcome[w]
      /\ \A q \in R : status'[q] = "Skipped"
      /\ \A q \in Node : q # id /\ q \notin R => status'[q] = status[q]
  BY <1>1, <1>3, <1>6
<1>8. \A q \in Node : status'[q] = "Succeeded" <=> status[q] = "Succeeded"
  BY <1>1, <1>6, <1>7
<1>9. \A p \in Node : \A i \in DOMAIN plan[p] : plan[p][i] \in Node
  BY PlanType DEF TypeOK
<1>10. \A p \in Node : Ready(p)' <=> Ready(p)
  BY <1>2, <1>8, <1>9 DEF Ready
<1>11. \A q \in R : ~Ready(q)
  <2>1. SUFFICES ASSUME NEW q \in R PROVE ~Ready(q)
    OBVIOUS
  <2>2. PICK p \in R \cup {id} : DependsOn(q, p)
    BY <1>1, CascadeIsCaused
  <2>3. status[p] = "none"
    BY <1>1, <1>6
  <2>4. QED
    BY <2>2, <2>3 DEF DependsOn, Ready
<1>12. RemainingInv'
  <2>1. SUFFICES ASSUME NEW p \in Node
                 PROVE  {i \in DOMAIN plan'[p] : status'[plan'[p][i]] # "Succeeded"}
                        = {i \in DOMAIN plan[p] : status[plan[p][i]] # "Succeeded"}
    BY <1>2 DEF RemainingInv
  <2>2. QED
    BY <1>2, <1>8, <1>9
<1>13. PendingInv'
  <2>1. \A q \in Node : q # id /\ Pending(q) => Pending(q)'
    BY <1>7, <1>10, <1>11 DEF Pending
  <2>2. \A i \in DOMAIN queue' : Pending(queue[i])'
    <3>1. SUFFICES ASSUME NEW i \in DOMAIN queue PROVE Pending(queue[i])'
      BY <1>2
    <3>2. queue[i] \in Node /\ queue[i] # id /\ Pending(queue[i])
      BY <1>1 DEF PendingInv, DistinctInv, TypeOK
    <3>3. PICK q \in Node : q = queue[i]
      BY <3>2
    <3>4. Pending(q)'
      BY <2>1, <3>2, <3>3
    <3>5. QED
      BY <1>2, <3>3, <3>4 DEF Pending, Ready
  <2>3. \A v \in Workers : (Holds(v) => cur[v] \in Node /\ Pending(cur[v]))'
    <3>1. SUFFICES ASSUME NEW v \in Workers, Holds(v)'
                   PROVE  (cur[v] \in Node /\ Pending(cur[v]))'
      OBVIOUS
    <3>2. cur[v] \in Node /\ cur[v] # id /\ Pending(cur[v])
      BY <1>1, <1>5, <3>1 DEF PendingInv, DistinctInv
    <3>3. PICK q \in Node : q = cur[v]
      BY <3>2
    <3>4. Pending(q)'
      BY <2>1, <3>2, <3>3
    <3>5. QED
      BY <1>2, <3>3, <3>4 DEF Pending, Ready
  <2>4. \A v \in Workers : \A q \in runnable'[v] : Pending(q)'
    <3>1. SUFFICES ASSUME NEW v \in Workers, NEW q \in runnable[v] PROVE Pending(q)'
      BY <1>2
    <3>2. q \in Node /\ q # id /\ Pending(q)
      BY <1>1 DEF PendingInv, DistinctInv, TypeOK
    <3>3. QED
      BY <2>1, <3>2
  <2>5. QED
    BY <2>2, <2>3, <2>4 DEF PendingInv
<1>14. DistinctInv'
  BY <1>2, <1>5 DEF DistinctInv
<1>15. LocalInv' /\ EnqueueInv'
  BY <1>1, <1>2, <1>4 DEF LocalInv, EnqueueInv, TypeOK
<1>16. RunsAfterDependencies'
  <2>1. \A p \in Node : status'[p] \in {"Succeeded", "Failed", "Cancelled"} => Ready(p)'
    BY <1>1, <1>7, <1>10 DEF RunsAfterDependencies
  <2>2. QED
    BY <1>13, <2>1 DEF RunsAfterDependencies, PendingInv, Pending
<1>17. SkippedIffDependencyDidNotSucceed'
  <2> DEFINE Bad == {"Failed", "Cancelled", "Skipped"}
  <2>1. SUFFICES ASSUME NEW p \in Node
                 PROVE  status'[p] = "Skipped" <=>
                          \E i \in DOMAIN plan[p] : status'[plan[p][i]] \in Bad
    BY <1>2 DEF SkippedIffDependencyDidNotSucceed
  <2>2. ASSUME status'[p] = "Skipped"
        PROVE  \E i \in DOMAIN plan[p] : status'[plan[p][i]] \in Bad
    <3>1. CASE p \in R
      <4>1. PICK q \in R \cup {id} : DependsOn(p, q)
        BY <1>1, <3>1, CascadeIsCaused
      <4>2. status'[q] \in Bad
        BY <1>1, <1>7
      <4>3. QED
        BY <4>1, <4>2 DEF DependsOn
    <3>2. CASE p \notin R
      <4>1. status[p] = "Skipped"
        BY <1>1, <1>7, <2>2, <3>2
      <4>2. PICK i \in DOMAIN plan[p] : status[plan[p][i]] \in Bad
        BY <4>1 DEF SkippedIffDependencyDidNotSucceed
      <4>3. plan[p][i] \in Node /\ plan[p][i] # id /\ plan[p][i] \notin R
        BY <1>1, <1>6, <1>9, <4>2
      <4>4. QED
        BY <1>7, <4>2, <4>3
    <3>3. QED
      BY <3>1, <3>2
  <2>3. ASSUME NEW i \in DOMAIN plan[p], status'[plan[p][i]] \in Bad
        PROVE  status'[p] = "Skipped"
    <3>1. plan[p][i] \in Node /\ status[plan[p][i]] # "Succeeded"
      BY <1>8, <1>9, <2>3
    <3>2. ~Ready(p) /\ p # id /\ DependsOn(p, plan[p][i])
      BY <1>1, <3>1 DEF Ready, DependsOn
    <3>3. CASE status[p] = "none"
      <4>1. CASE plan[p][i] \in R \cup {id}
        <5>1. p \in Open(id)
          BY <3>2, <3>3 DEF Open
        <5>2. p \in R
          BY <1>1, <3>2, <4>1, <5>1, CascadeIsClosed
        <5>3. QED
          BY <1>7, <5>2
      <4>2. CASE plan[p][i] \notin R \cup {id}
        <5>1. status[plan[p][i]] \in Bad
          BY <1>7, <2>3, <3>1, <4>2
        <5>2. status[p] = "Skipped"
          BY <5>1 DEF SkippedIffDependencyDidNotSucceed
        <5>3. QED
          BY <3>3, <5>2
      <4>3. QED
        BY <4>1, <4>2
    <3>4. CASE status[p] # "none"
      <4>1. status[p] = "Skipped"
        BY <3>2, <3>4 DEF RunsAfterDependencies, TypeOK, Final
      <4>2. QED
        BY <1>6, <1>7, <3>2, <4>1
    <3>5. QED
      BY <3>3, <3>4
  <2>4. QED
    BY <2>2, <2>3
<1>18. CountInv'
  <2>1. Finalized' = Finalized \cup R \cup {id} /\ Finalized \cap (R \cup {id}) = {}
    BY <1>1, <1>6, <1>7 DEF Finalized
  <2>2. \A v \in Workers : cascade'[v] = IF v = w THEN R ELSE cascade[v]
    BY <1>2 DEF TypeOK
  <2>3. Uncounted' = Uncounted \cup R \cup {id}
    BY <1>1, <1>2, <1>4, <1>5, <1>6, <2>2 DEF Uncounted
  <2>4. Finalized' \ Uncounted' = Finalized \ Uncounted
    BY <2>1, <2>3
  <2>5. \A v \in Workers : /\ Owes(v)' => cur'[v] \in Finalized'
                           /\ cascade'[v] \subseteq Finalized'
    BY <1>2, <1>5, <2>1, <2>2 DEF CountInv
  <2>6. \A u, v \in Workers :
          /\ u # v /\ Owes(u)' /\ Owes(v)' => cur'[u] # cur'[v]
          /\ u # v => cascade'[u] \cap cascade'[v] = {}
          /\ Owes(u)' => cur'[u] \notin cascade'[v]
    BY <1>2, <1>5, <1>6, <2>1, <2>2 DEF CountInv
  <2>7. QED
    BY <1>2, <2>4, <2>5, <2>6 DEF CountInv
<1>19. QED
  BY <1>12, <1>13, <1>14, <1>15, <1>16, <1>17, <1>18

-----------------------------------------------------------------------------
(* The theorems.                                                           *)

LEMMA InductiveInvariant == Spec => [](TypeOK /\ InductiveInv)
<1>1. TypeOK /\ InductiveInv /\ [Next]_vars => InductiveInv'
  <2> SUFFICES ASSUME TypeOK, InductiveInv, [Next]_vars PROVE InductiveInv'
    OBVIOUS
  <2>1. CASE UNCHANGED vars
    BY <2>1, Frame DEF vars, shared, caller, local, Holds, Owes, InductiveInv,
                       SchedulerInv, LocalInv, EnqueueInv
  <2>2. CASE Cancel \/ CloseQueue \/ Join \/ Returned
    BY <2>2, QuietSteps
  <2>3. CASE Enqueue
    BY <2>3, EnqueueStep
  <2>4. ASSUME NEW w \in Workers, Worker(w) PROVE InductiveInv'
    BY <2>4, QuietSteps, PopStep, RecordSuccessStep, RecordOtherStep,
       CountSkippedStep, PushStep, SignalStep DEF Worker
  <2>5. QED
    BY <2>1, <2>2, <2>3, <2>4 DEF Next, Main
<1>2. QED
  BY <1>1, InitInductive, TypeCorrect, PTL DEF Spec

(* For every plan, pool size and schedule: a probe runs or gets an outcome *)
(* of its own only after all its dependencies succeeded.                   *)
THEOREM DependenciesFirst == Spec => []RunsAfterDependencies
BY InductiveInvariant, PTL DEF InductiveInv

(* For every plan, pool size and schedule: the probes skipped are exactly  *)
(* those with a dependency that did not succeed.                           *)
THEOREM SkipsAreExact == Spec => []SkippedIffDependencyDidNotSucceed
BY InductiveInvariant, PTL DEF InductiveInv

(* For every plan, pool size and schedule: allDone is closed only when all *)
(* is done, so Run neither drops queued work nor reports a result it does  *)
(* not have.                                                               *)
THEOREM CompletionIsSound == Spec => []AllDoneMeansFinal
<1>1. TypeOK /\ InductiveInv => AllDoneMeansFinal
  <2> SUFFICES ASSUME TypeOK, InductiveInv, allDone
               PROVE  /\ \A p \in Node : status[p] # "none"
                      /\ queue = <<>>
                      /\ \A w \in Workers : ~Holds(w) /\ ~Owes(w)
    BY DEF AllDoneMeansFinal
  <2>1. Finalized \ Uncounted = Node
    BY NodeSubset DEF InductiveInv, CountInv, Finalized
  <2>2. \A p \in Node : status[p] # "none" /\ p \notin Uncounted
    BY <2>1 DEF Finalized
  <2>3. queue = <<>>
    <3>1. \A i \in DOMAIN queue : queue[i] \in Node /\ status[queue[i]] = "none"
      BY DEF InductiveInv, SchedulerInv, PendingInv, Pending, TypeOK
    <3>2. DOMAIN queue = {}
      BY <2>2, <3>1
    <3>3. QED
      BY <3>2, EmptySeq, LenProperties DEF TypeOK
  <2>4. \A w \in Workers : ~Holds(w)
    BY <2>2 DEF InductiveInv, SchedulerInv, PendingInv, Pending
  <2>5. \A w \in Workers : ~Owes(w)
    BY <2>2 DEF InductiveInv, CountInv, Uncounted, Finalized
  <2>6. QED
    BY <2>2, <2>3, <2>4, <2>5
<1>2. QED
  BY <1>1, InductiveInvariant, PTL

-----------------------------------------------------------------------------
(* A ready probe waits somewhere.                                          *)

(* A step that keeps the queue, the released probes and what the workers   *)
(* hold keeps every waiting probe where it is.                             *)
LEMMA PresenceFrame ==
    ASSUME PresenceInv,
           UNCHANGED <<plan, status, queue, runnable, cur>>,
           main = "enqueue" => main' = "enqueue" /\ scan' = scan,
           \A w \in Workers : Holds(w) => Holds(w)'
    PROVE  PresenceInv'
<1>1. \A p : Pending(p)' = Pending(p)
  BY DEF Pending, Ready
<1>2. QED
  BY <1>1 DEF PresenceInv

LEMMA PresenceQuiet ==
    ASSUME TypeOK, InductiveInv, PresenceInv,
           \/ Cancel \/ CloseQueue \/ Join \/ Returned \/ UNCHANGED vars
           \/ \E w \in Workers :
                \/ Park(w) \/ Exit(w) \/ Check(w) \/ CancelBeforeRun(w)
                \/ Start(w) \/ Return(w) \/ Classify(w) \/ CountSkipped(w)
    PROVE  PresenceInv'
<1>1. CASE Cancel \/ CloseQueue \/ Join \/ Returned \/ UNCHANGED vars
  BY <1>1, PresenceFrame
     DEF Cancel, CloseQueue, Broadcast, Join, Returned, vars, shared, caller, local,
         Holds, TypeOK
<1>2. ASSUME NEW w \in Workers,
             \/ Park(w) \/ Exit(w) \/ Check(w) \/ CancelBeforeRun(w)
             \/ Start(w) \/ Return(w) \/ Classify(w) \/ CountSkipped(w)
      PROVE  PresenceInv'
  <2>1. /\ UNCHANGED <<plan, status, queue, runnable, cur, main, scan>>
    BY <1>2 DEF Park, Exit, Check, CancelBeforeRun, Start, Return, Classify, CountSkipped,
                shared, caller
  <2>2. Holds(w) => Holds(w)'
    <3>1. Holds(w) => status[cur[w]] = "none"
      BY DEF InductiveInv, SchedulerInv, PendingInv, Pending
    <3>2. QED
      BY <1>2, <3>1 DEF Park, Exit, Check, CancelBeforeRun, Start, Return, Classify,
                        CountSkipped, Holds, TypeOK
  <2>3. \A v \in Workers : v # w => Holds(v)' = Holds(v)
    BY <1>2 DEF Park, Exit, Check, CancelBeforeRun, Start, Return, Classify, CountSkipped,
                Holds, TypeOK
  <2>4. QED
    BY <2>1, <2>2, <2>3, PresenceFrame
<1>3. QED
  BY <1>1, <1>2

(* The loop of Run queues a probe as soon as it comes to it.               *)
LEMMA PresenceEnqueue ==
    ASSUME TypeOK, InductiveInv, PresenceInv, Enqueue
    PROVE  PresenceInv'
<1>1. /\ scan \in Node /\ queue \in Seq(Node)
      /\ UNCHANGED <<plan, status, pc, cur, runnable>>
      /\ main = "enqueue" /\ scan' = scan + 1
  BY DEF TypeOK, Enqueue, local
<1>2. SUFFICES ASSUME NEW p \in Node, Pending(p)
               PROVE  \/ main' = "enqueue" /\ scan' <= p
                      \/ \E i \in DOMAIN queue' : queue'[i] = p
                      \/ \E w \in Workers : Holds(w)' /\ cur'[w] = p
                      \/ \E w \in Workers : p \in runnable'[w]
  BY <1>1 DEF PresenceInv, Pending, Ready
<1>3. /\ \A i \in DOMAIN queue : i \in DOMAIN queue' /\ queue'[i] = queue[i]
      /\ remaining[scan] = 0 => /\ Len(queue) + 1 \in DOMAIN queue'
                                /\ queue'[Len(queue) + 1] = scan
  <2>1. CASE remaining[scan] = 0
    BY <1>1, <2>1, AppendProperties DEF Enqueue
  <2>2. CASE remaining[scan] # 0
    BY <2>2 DEF Enqueue
  <2>3. QED
    BY <2>1, <2>2
<1>4. CASE scan = p
  <2>1. {i \in DOMAIN plan[p] : status[plan[p][i]] # "Succeeded"} = {}
    BY <1>2 DEF Pending, Ready
  <2>2. remaining[p] = 0
    BY <2>1, FS_EmptySet DEF InductiveInv, SchedulerInv, RemainingInv
  <2>3. QED
    BY <1>3, <1>4, <2>2
<1>5. CASE scan < p
  BY <1>1, <1>5 DEF Enqueue, Node, TypeOK
<1>6. CASE ~(scan <= p)
  <2>1. \/ \E i \in DOMAIN queue : queue[i] = p
        \/ \E w \in Workers : Holds(w) /\ cur[w] = p
        \/ \E w \in Workers : p \in runnable[w]
    BY <1>2, <1>6 DEF PresenceInv
  <2>2. QED
    BY <1>1, <1>3, <2>1 DEF Holds
<1>7. QED
  BY <1>1, <1>4, <1>5, <1>6, SizeAssumption DEF Node

(* The head of the queue is held, the rest moves up.                       *)
LEMMA PresencePop ==
    ASSUME TypeOK, InductiveInv, PresenceInv, NEW w \in Workers, Pop(w)
    PROVE  PresenceInv'
<1>1. /\ UNCHANGED <<plan, status, runnable, main, scan>>
      /\ pc[w] = "pop" /\ pc' = [pc EXCEPT ![w] = "check"]
      /\ cur' = [cur EXCEPT ![w] = queue[1]] /\ main # "enqueue"
  BY DEF Pop, caller
<1>2. /\ Len(queue) \in Nat \ {0}
      /\ DOMAIN queue = 1..Len(queue)
      /\ DOMAIN queue' = 1..(Len(queue) - 1)
      /\ \A i \in 1..(Len(queue) - 1) : queue'[i] = queue[i + 1]
  BY HeadTailProperties, EmptySeq, LenProperties DEF Pop, TypeOK
<1>3. \A v \in Workers : v # w => Holds(v)' = Holds(v) /\ cur'[v] = cur[v]
  BY <1>1 DEF Holds, TypeOK
<1>4. ~Holds(w) /\ Holds(w)' /\ cur'[w] = queue[1]
  BY <1>1 DEF Holds, TypeOK
<1>5. SUFFICES ASSUME NEW p \in Node, Pending(p)
               PROVE  \/ \E i \in DOMAIN queue' : queue'[i] = p
                      \/ \E v \in Workers : Holds(v)' /\ cur'[v] = p
                      \/ \E v \in Workers : p \in runnable'[v]
  BY <1>1 DEF PresenceInv, Pending, Ready
<1>6. CASE \E i \in DOMAIN queue : queue[i] = p
  <2>1. PICK i \in DOMAIN queue : queue[i] = p
    BY <1>6
  <2>2. CASE i = 1
    BY <1>4, <2>1, <2>2
  <2>3. CASE i # 1
    <3>1. i - 1 \in DOMAIN queue' /\ queue'[i - 1] = p
      BY <1>2, <2>1, <2>3
    <3>2. QED
      BY <3>1
  <2>4. QED
    BY <2>2, <2>3
<1>7. CASE ~\E i \in DOMAIN queue : queue[i] = p
  BY <1>1, <1>3, <1>4, <1>5, <1>7 DEF PresenceInv
<1>8. QED
  BY <1>6, <1>7

(* What a success makes ready is released by the same step.                *)
LEMMA PresenceRecordSuccess ==
    ASSUME TypeOK, InductiveInv, InductiveInv', PresenceInv,
           NEW w \in Workers, RecordSuccess(w)
    PROVE  PresenceInv'
<1> USE DEF InductiveInv, SchedulerInv
<1> DEFINE id == cur[w]
<1>1. pc[w] = "record" /\ Holds(w) /\ id \in Node /\ status[id] = "none"
  BY DEF RecordSuccess, Holds, PendingInv, Pending
<1>2. /\ UNCHANGED <<plan, queue, cur, main, scan>>
      /\ status' = [status EXCEPT ![id] = "Succeeded"]
      /\ pc' = [pc EXCEPT ![w] = "push"]
      /\ runnable' = [runnable EXCEPT ![w] =
                        {q \in Node : DependsOn(q, id) /\ remaining'[q] = 0}]
  BY <1>1 DEF RecordSuccess, caller
<1>3. main # "enqueue" /\ runnable[w] = {}
  BY <1>1 DEF EnqueueInv, LocalInv
<1>4. SUFFICES ASSUME NEW p \in Node, Pending(p)'
               PROVE  \/ \E i \in DOMAIN queue' : queue'[i] = p
                      \/ \E v \in Workers : Holds(v)' /\ cur'[v] = p
                      \/ \E v \in Workers : p \in runnable'[v]
  BY DEF PresenceInv
<1>5. p # id /\ status[p] = "none"
  BY <1>1, <1>2, <1>4 DEF Pending, TypeOK
<1>6. CASE DependsOn(p, id)
  <2>1. {i \in DOMAIN plan'[p] : status'[plan'[p][i]] # "Succeeded"} = {}
    BY <1>4 DEF Pending, Ready
  <2>2. remaining'[p] = 0
    BY <2>1, FS_EmptySet DEF RemainingInv
  <2>3. p \in runnable'[w]
    BY <1>2, <1>6, <2>2 DEF TypeOK
  <2>4. QED
    BY <2>3
<1>7. CASE ~DependsOn(p, id)
  <2>1. Ready(p)
    <3>1. \A i \in DOMAIN plan[p] : plan[p][i] \in Node /\ plan[p][i] # id
      BY <1>7, PlanType DEF DependsOn, TypeOK
    <3>2. QED
      BY <1>2, <1>4, <3>1 DEF Pending, Ready, TypeOK
  <2>2. \/ \E i \in DOMAIN queue : queue[i] = p
        \/ \E v \in Workers : Holds(v) /\ cur[v] = p
        \/ \E v \in Workers : p \in runnable[v]
    BY <1>3, <1>5, <2>1 DEF PresenceInv, Pending
  <2>3. \A v \in Workers : Holds(v) /\ cur[v] = p => Holds(v)'
    BY <1>2, <1>5 DEF Holds, TypeOK
  <2>4. \A v \in Workers : runnable[v] \subseteq runnable'[v]
    BY <1>2, <1>3 DEF TypeOK
  <2>5. QED
    BY <1>2, <2>2, <2>3, <2>4
<1>8. QED
  BY <1>6, <1>7

(* A failure makes nothing ready.                                          *)
LEMMA PresenceRecordOther ==
    ASSUME TypeOK, InductiveInv, PresenceInv, NEW w \in Workers, RecordOther(w)
    PROVE  PresenceInv'
<1> USE DEF InductiveInv, SchedulerInv
<1> DEFINE id == cur[w]
<1>1. /\ pc[w] = "record" /\ Holds(w) /\ id \in Node /\ status[id] = "none"
      /\ outcome[w] \in {"Failed", "Cancelled"}
  BY DEF RecordOther, Holds, PendingInv, Pending, LocalInv, TypeOK
<1>2. /\ UNCHANGED <<plan, queue, cur, runnable, main, scan>>
      /\ pc' = [pc EXCEPT ![w] = "count"]
      /\ status' = [q \in Node |-> IF q = id THEN outcome[w]
                                   ELSE IF q \in CascadeSkip(id) THEN "Skipped"
                                   ELSE status[q]]
  BY <1>1 DEF RecordOther, caller
<1>3. SUFFICES ASSUME NEW p \in Node, Pending(p)'
               PROVE  \/ \E i \in DOMAIN queue' : queue'[i] = p
                      \/ \E v \in Workers : Holds(v)' /\ cur'[v] = p
                      \/ \E v \in Workers : p \in runnable'[v]
  BY DEF PresenceInv
<1>4. p # id /\ status[p] = "none"
  BY <1>1, <1>2, <1>3 DEF Pending
<1>5. \A q \in Node : status'[q] = "Succeeded" => status[q] = "Succeeded"
  BY <1>1, <1>2
<1>6. Ready(p)
  BY <1>2, <1>3, <1>5, PlanType DEF Pending, Ready, TypeOK
<1>7. main # "enqueue"
  BY <1>1 DEF EnqueueInv
<1>8. \A v \in Workers : Holds(v) /\ cur[v] = p => Holds(v)'
  BY <1>2, <1>4 DEF Holds, TypeOK
<1>9. QED
  BY <1>2, <1>4, <1>6, <1>7, <1>8 DEF PresenceInv, Pending

(* A released probe goes from its worker to the queue, which is open.      *)
LEMMA PresencePush ==
    ASSUME TypeOK, InductiveInv, PresenceInv, ClosingInv, AllDoneMeansFinal,
           NEW w \in Workers, Push(w)
    PROVE  PresenceInv'
<1> USE DEF InductiveInv, SchedulerInv
<1>1. /\ UNCHANGED <<plan, status, cur, main, scan>>
      /\ pc[w] = "push" /\ queue \in Seq(Node)
  BY DEF Push, caller, TypeOK
<1>2. main # "enqueue"
  BY <1>1 DEF EnqueueInv
<1>3. ~closed
  BY <1>1 DEF ClosingInv, AllDoneMeansFinal, Owes
<1>4. \A v \in Workers : Holds(v) => Holds(v)'
  BY <1>1 DEF Push, Broadcast, Holds, TypeOK
<1>5. \A i \in DOMAIN queue : i \in DOMAIN queue' /\ queue'[i] = queue[i]
  <2>1. \/ queue' = queue
        \/ \E p \in Node : queue' = Append(queue, p)
    BY DEF Push, TypeOK
  <2>2. QED
    BY <1>1, <2>1, AppendProperties
<1>6. \A v \in Workers : \A p \in runnable[v] :
        \/ p \in runnable'[v]
        \/ \E i \in DOMAIN queue' : queue'[i] = p
  <2>1. CASE runnable[w] = {}
    BY <2>1 DEF Push
  <2>2. ASSUME NEW p \in runnable[w],
               runnable' = [runnable EXCEPT ![w] = @ \ {p}],
               queue' = Append(queue, p)
        PROVE  \A v \in Workers : \A q \in runnable[v] :
                 q \in runnable'[v] \/ \E i \in DOMAIN queue' : queue'[i] = q
    <3>1. /\ Len(queue) + 1 \in DOMAIN queue'
          /\ queue'[Len(queue) + 1] = p
      BY <1>1, <2>2, AppendProperties DEF TypeOK
    <3>2. QED
      BY <2>2, <3>1 DEF TypeOK
  <2>3. QED
    BY <1>3, <2>1, <2>2 DEF Push
<1>7. SUFFICES ASSUME NEW p \in Node, Pending(p)
               PROVE  \/ \E i \in DOMAIN queue' : queue'[i] = p
                      \/ \E v \in Workers : Holds(v)' /\ cur'[v] = p
                      \/ \E v \in Workers : p \in runnable'[v]
  BY <1>1 DEF PresenceInv, Pending, Ready
<1>8. \/ \E i \in DOMAIN queue : queue[i] = p
      \/ \E v \in Workers : Holds(v) /\ cur[v] = p
      \/ \E v \in Workers : p \in runnable[v]
  BY <1>2, <1>7 DEF PresenceInv
<1>9. QED
  BY <1>1, <1>4, <1>5, <1>6, <1>8

LEMMA PresenceSignal ==
    ASSUME TypeOK, InductiveInv, PresenceInv, NEW w \in Workers, SignalCompletion(w)
    PROVE  PresenceInv'
<1>1. /\ UNCHANGED <<plan, status, queue, runnable, main, scan>>
      /\ pc[w] = "signal" /\ pc' = [pc EXCEPT ![w] = "pop"]
      /\ cur' = [cur EXCEPT ![w] = 0]
  BY DEF SignalCompletion, caller
<1>2. \A v \in Workers : Holds(v) => Holds(v)' /\ cur'[v] = cur[v]
  BY <1>1 DEF Holds, TypeOK
<1>3. \A p : Pending(p)' = Pending(p)
  BY <1>1 DEF Pending, Ready
<1>4. QED
  BY <1>1, <1>2, <1>3 DEF PresenceInv

(* The closed queue and the errors of the workers.                         *)
LEMMA ClosingStep ==
    ASSUME TypeOK, ClosingInv, [Next]_vars
    PROVE  ClosingInv'
<1>1. CASE UNCHANGED vars
  BY <1>1 DEF vars, shared, caller, ClosingInv
<1>2. CASE Cancel \/ Main \/ Returned
  BY <1>2 DEF Cancel, Main, Enqueue, CloseQueue, Join, Returned, vars, shared, caller,
              ClosingInv
<1>3. ASSUME NEW w \in Workers, Worker(w)
      PROVE  ClosingInv'
  BY <1>3 DEF Worker, Pop, Park, Exit, Check, CancelBeforeRun, Start, Return, Classify,
              RecordSuccess, RecordOther, CountSkipped, Push, SignalCompletion, shared,
              caller, ClosingInv
<1>4. QED
  BY <1>1, <1>2, <1>3 DEF Next

LEMMA OutcomeStep ==
    ASSUME TypeOK, LocalInv, OutcomeInv, [Next]_vars
    PROVE  OutcomeInv'
<1>1. CASE UNCHANGED vars
  BY <1>1 DEF vars, shared, caller, local, OutcomeInv
<1>2. CASE Cancel \/ Main \/ Returned
  BY <1>2 DEF Cancel, Main, Enqueue, CloseQueue, Broadcast, Join, Returned, vars, shared,
              caller, local, OutcomeInv, TypeOK
<1>3. ASSUME NEW w \in Workers, Worker(w)
      PROVE  OutcomeInv'
  <2>1. CASE Pop(w) \/ Park(w) \/ Exit(w) \/ Check(w) \/ CancelBeforeRun(w) \/ Start(w)
    BY <2>1 DEF Pop, Park, Exit, Check, CancelBeforeRun, Start, shared, caller, OutcomeInv,
                TypeOK
  <2>2. CASE Return(w)
    BY <2>2 DEF Return, shared, caller, OutcomeInv, TypeOK
  <2>3. CASE Classify(w)
    BY <2>3, ZenonT(60) DEF Classify, Classification, shared, caller, OutcomeInv, TypeOK, ContextErrors
  <2>4. CASE RecordSuccess(w)
    BY <2>4 DEF RecordSuccess, caller, OutcomeInv, TypeOK
  <2>5. CASE RecordOther(w)
    BY <2>5 DEF RecordOther, caller, OutcomeInv, TypeOK
  <2>6. CASE CountSkipped(w) \/ SignalCompletion(w)
    BY <2>6 DEF CountSkipped, SignalCompletion, caller, OutcomeInv, TypeOK
  <2>7. CASE Push(w)
    BY <2>7 DEF Push, Broadcast, caller, OutcomeInv, TypeOK
  <2>8. QED
    BY <1>3, <2>1, <2>2, <2>3, <2>4, <2>5, <2>6, <2>7 DEF Worker
<1>4. QED
  BY <1>1, <1>2, <1>3 DEF Next

LEMMA RefinementInvariant ==
    Spec => [](TypeOK /\ InductiveInv /\ AllDoneMeansFinal /\ RefinementInv)
<1>1. Init => RefinementInv
  BY SizeAssumption
     DEF Init, RefinementInv, PresenceInv, ClosingInv, OutcomeInv, Node
<1>2. TypeOK /\ InductiveInv /\ InductiveInv' /\ AllDoneMeansFinal /\ RefinementInv
      /\ [Next]_vars => RefinementInv'
  <2> SUFFICES ASSUME TypeOK, InductiveInv, InductiveInv', AllDoneMeansFinal,
                      PresenceInv, ClosingInv, OutcomeInv, [Next]_vars
               PROVE  RefinementInv'
    BY DEF RefinementInv
  <2>1. ClosingInv' /\ OutcomeInv'
    BY ClosingStep, OutcomeStep DEF InductiveInv, SchedulerInv
  <2>2. PresenceInv'
    <3>1. CASE Cancel \/ CloseQueue \/ Join \/ Returned \/ UNCHANGED vars
      BY <3>1, PresenceQuiet
    <3>2. CASE Enqueue
      BY <3>2, PresenceEnqueue
    <3>3. ASSUME NEW w \in Workers, Worker(w) PROVE PresenceInv'
      BY <3>3, PresenceQuiet, PresencePop, PresenceRecordSuccess, PresenceRecordOther,
         PresencePush, PresenceSignal DEF Worker
    <3>4. QED
      BY <3>1, <3>2, <3>3 DEF Next, Main
  <2>3. QED
    BY <2>1, <2>2 DEF RefinementInv
<1>3. QED
  BY <1>1, <1>2, InductiveInvariant, CompletionIsSound, PTL DEF Spec

(* A place is named by its kind and its index.                             *)
LEMMA PlacesAre ==
    ASSUME NEW p, NEW x
    PROVE  x \in Places(p) <=>
             \/ \E i \in DOMAIN queue : queue[i] = p /\ x = <<"queue", i>>
             \/ \E w \in Workers : Holds(w) /\ cur[w] = p /\ x = <<"held", w>>
             \/ \E w \in Workers : p \in runnable[w] /\ x = <<"released", w>>
BY DEF Places

(* For every plan, pool size and schedule: a probe that is ready and not   *)
(* finalized is queued, held or released exactly once, any other never.    *)
THEOREM NothingLostOrRunTwice == Spec => []ReadyProbeIsInOnePlace
<1>1. TypeOK /\ InductiveInv /\ RefinementInv => ReadyProbeIsInOnePlace
  <2> SUFFICES ASSUME TypeOK, InductiveInv, RefinementInv, main # "enqueue", NEW p \in Node
               PROVE  Cardinality(Places(p)) = IF Ready(p) /\ status[p] = "none" THEN 1 ELSE 0
    BY DEF ReadyProbeIsInOnePlace
  <2> USE DEF InductiveInv, SchedulerInv
  <2>1. CASE ~Pending(p)
    <3>1. \A x : x \notin Places(p)
      BY <2>1, PlacesAre DEF PendingInv
    <3>2. Places(p) = {}
      BY <3>1
    <3>3. QED
      BY <2>1, <3>2, FS_EmptySet DEF Pending
  <2>2. CASE Pending(p)
    <3>1. \E x : x \in Places(p)
      <4>1. \/ \E i \in DOMAIN queue : queue[i] = p
            \/ \E w \in Workers : Holds(w) /\ cur[w] = p
            \/ \E w \in Workers : p \in runnable[w]
        BY <2>2 DEF RefinementInv, PresenceInv
      <4>2. QED
        BY <4>1, ZenonT(60) DEF Places
    <3>2. \A x, y : x \in Places(p) /\ y \in Places(p) => x = y
      BY PlacesAre DEF DistinctInv
    <3>3. PICK x : Places(p) = {x}
      <4>1. PICK x : x \in Places(p)
        BY <3>1
      <4>2. Places(p) = {x}
        BY <3>2, <4>1
      <4>3. QED
        BY <4>2
    <3>4. QED
      BY <2>2, <3>3, FS_Singleton DEF Pending
  <2>3. QED
    BY <2>1, <2>2
<1>2. QED
  BY <1>1, RefinementInvariant, PTL

-----------------------------------------------------------------------------
(* The refinement.                                                         *)

(* The life cycle of a probe is its status, except while a worker runs it. *)
LEMMA LifeCycle ==
    ASSUME TypeOK, InductiveInv, NEW p \in Node
    PROVE  /\ lifeCycle[p] = IF \E w \in Workers : Running(w) /\ cur[w] = p
                             THEN "running" ELSE status[p]
           /\ \A w \in Workers : Running(w) => Holds(w)
           /\ status[p] # "none" => lifeCycle[p] = status[p]
           /\ lifeCycle[p] = "none" => status[p] = "none"
           /\ lifeCycle[p] = "running" => Pending(p)
           /\ lifeCycle[p] = "Succeeded" <=> status[p] = "Succeeded"
<1>1. lifeCycle[p] = IF \E w \in Workers : Running(w) /\ cur[w] = p
                     THEN "running" ELSE status[p]
  BY DEF lifeCycle
<1>2. \A w \in Workers : Running(w) => Holds(w)
  BY DEF Running, Holds
<1>3. (\E w \in Workers : Running(w) /\ cur[w] = p) => Pending(p)
  BY <1>2 DEF InductiveInv, SchedulerInv, PendingInv
<1>4. status[p] \in Final \cup {"none"}
  BY DEF TypeOK
<1>5. QED
  BY <1>1, <1>2, <1>3, <1>4 DEF Pending, Final

(* The dependencies of ProbeRun are those of the plan, and a ready probe   *)
(* may start there.                                                        *)
LEMMA DependenciesMap ==
    ASSUME TypeOK, InductiveInv, NEW p \in Node
    PROVE  /\ \A q : q \in Abstract!DependenciesOf(p) <=> DependsOn(p, q)
           /\ Abstract!DependenciesOf(p) \subseteq Node
           /\ Ready(p) => \A q \in Abstract!DependenciesOf(p) : lifeCycle[q] = "Succeeded"
<1>1. \A q : q \in Abstract!DependenciesOf(p) <=> DependsOn(p, q)
  BY DEF Abstract!DependenciesOf, DependsOn
<1>2. Abstract!DependenciesOf(p) \subseteq Node
  BY PlanType DEF Abstract!DependenciesOf, TypeOK
<1>3. Ready(p) => \A q \in Abstract!DependenciesOf(p) : status[q] = "Succeeded"
  BY <1>1 DEF Ready, DependsOn
<1>4. QED
  BY <1>1, <1>2, <1>3, LifeCycle

(* A step that changes neither statuses nor which probes run.              *)
LEMMA LifeCycleFrame ==
    ASSUME UNCHANGED <<status, cur>>, \A w \in Workers : Running(w)' = Running(w)
    PROVE  lifeCycle' = lifeCycle
BY DEF lifeCycle

(* A worker that runs nothing before and after a step of its own leaves    *)
(* the life cycles alone.                                                  *)
LEMMA LifeCycleIdle ==
    ASSUME NEW w \in Workers, UNCHANGED status, ~Running(w), ~Running(w)',
           \A v \in Workers : v # w => Running(v)' = Running(v) /\ cur'[v] = cur[v]
    PROVE  lifeCycle' = lifeCycle
<1>1. \A p : (\E v \in Workers : Running(v)' /\ cur'[v] = p)
             <=> (\E v \in Workers : Running(v) /\ cur[v] = p)
  OBVIOUS
<1>2. QED
  BY <1>1 DEF lifeCycle

(* cascadeSkipLocked's set is the set of dependents of ProbeRun: running   *)
(* probes are ready, so the search never meets one.                        *)
LEMMA CascadeMaps ==
    ASSUME TypeOK, InductiveInv, NEW id \in Node, status[id] = "none", Ready(id)
    PROVE  Abstract!Dependents(id) = CascadeSkip(id)
<1> DEFINE R == CascadeSkip(id)
<1>1. R \subseteq Node /\ \A q \in R : status[q] = "none" /\ q # id
  BY DEF CascadeSkip, Open
<1>2. \A q \in Node : \A p \in R \cup {id} : DependsOn(q, p) => ~Ready(q)
  BY <1>1 DEF DependsOn, Ready
<1>3. \A q \in R : ~Ready(q)
  BY <1>1, <1>2, CascadeIsCaused
<1>4. \A q \in R : lifeCycle[q] = "none"
  <2>1. SUFFICES ASSUME NEW q \in R PROVE lifeCycle[q] = "none"
    OBVIOUS
  <2>2. lifeCycle[q] # "running"
    BY <1>1, <1>3, LifeCycle DEF Pending
  <2>3. QED
    BY <1>1, <2>2, LifeCycle
<1>5. ASSUME NEW q \in R
      PROVE  q \in Abstract!Dependents(id)
  <2>1. SUFFICES ASSUME NEW S \in SUBSET Node, Abstract!Closed(S, id) PROVE q \in S
    BY <1>1, <1>4 DEF Abstract!Dependents, Abstract!Node, Node
  <2> DEFINE T == R \cap S
  <2>2. CascadeClosed(T, id)
    <3>1. SUFFICES ASSUME NEW r \in Open(id), NEW p \in T \cup {id}, DependsOn(r, p)
                   PROVE  r \in T
      BY DEF CascadeClosed
    <3>2. r \in R
      BY <3>1, CascadeIsClosed
    <3>3. r \in Node /\ lifeCycle[r] = "none"
      BY <1>1, <1>4, <3>2
    <3>4. p \in Abstract!DependenciesOf(r) \cap (S \cup {id})
      BY <3>1, <3>3, DependenciesMap
    <3>5. r \in S
      BY <2>1, <3>3, <3>4 DEF Abstract!Closed, Abstract!Node, Node
    <3>6. QED
      BY <3>2, <3>5
  <2>3. T \in SUBSET Node
    BY <1>1
  <2>4. QED
    BY <2>2, <2>3 DEF CascadeSkip
<1>6. ASSUME NEW q \in Abstract!Dependents(id)
      PROVE  q \in R
  <2>1. Abstract!Closed(R, id)
    <3>1. SUFFICES ASSUME NEW r \in Node, lifeCycle[r] = "none",
                          NEW p \in Abstract!DependenciesOf(r) \cap (R \cup {id})
                   PROVE  r \in R
      BY DEF Abstract!Closed, Abstract!Node, Node
    <3>2. DependsOn(r, p) /\ status[r] = "none"
      BY <3>1, DependenciesMap, LifeCycle
    <3>3. r # id
      BY <1>2, <3>1, <3>2
    <3>4. r \in Open(id)
      BY <3>1, <3>2, <3>3 DEF Open
    <3>5. QED
      BY <3>1, <3>2, <3>4, CascadeIsClosed
  <2>2. R \in SUBSET Abstract!Node
    BY <1>1 DEF Abstract!Node, Node
  <2>3. QED
    BY <2>1, <2>2 DEF Abstract!Dependents
<1>7. QED
  BY <1>5, <1>6

(* Steps that ProbeRun does not see.                                       *)
LEMMA StutterSteps ==
    ASSUME TypeOK, InductiveInv, OutcomeInv,
           \/ Enqueue \/ CloseQueue \/ Returned \/ UNCHANGED vars
           \/ \E w \in Workers :
                \/ Pop(w) \/ Park(w) \/ Exit(w) \/ Check(w) \/ CancelBeforeRun(w)
                \/ Return(w) \/ Classify(w)
                \/ CountSkipped(w) \/ Push(w) \/ SignalCompletion(w)
    PROVE  UNCHANGED Abstract!vars
<1>1. SUFFICES lifeCycle' = lifeCycle /\ UNCHANGED <<plan, ctx>>
               /\ (main = "returned")' = (main = "returned")
  BY DEF Abstract!vars
<1>2. CASE Enqueue \/ CloseQueue \/ Returned \/ UNCHANGED vars
  <2>1. /\ UNCHANGED <<plan, ctx, status, cur>>
        /\ (main = "returned")' = (main = "returned")
    BY <1>2 DEF Enqueue, CloseQueue, Returned, vars, shared, caller, local
  <2>2. \A w \in Workers : Running(w)' = Running(w)
    BY <1>2 DEF Enqueue, CloseQueue, Broadcast, Returned, vars, shared, caller, local,
                Running, TypeOK
  <2>3. QED
    BY <2>1, <2>2, LifeCycleFrame
<1>3. ASSUME NEW w \in Workers, Return(w) \/ Classify(w)
      PROVE  lifeCycle' = lifeCycle /\ UNCHANGED <<plan, ctx, main>>
  <2>1. UNCHANGED <<plan, ctx, status, cur, main>>
    BY <1>3 DEF Return, Classify, shared, caller
  <2>2. Running(w) /\ Running(w)'
    BY <1>3 DEF Return, Classify, Classification, Running, TypeOK
  <2>3. \A v \in Workers : v # w => Running(v)' = Running(v)
    BY <1>3 DEF Return, Classify, Running, TypeOK
  <2>4. \A v \in Workers : Running(v)' = Running(v)
    BY <2>2, <2>3 DEF Running
  <2>5. QED
    BY <2>1, <2>4, LifeCycleFrame
<1>4. ASSUME NEW w \in Workers,
             \/ Pop(w) \/ Park(w) \/ Exit(w) \/ Check(w) \/ CancelBeforeRun(w)
             \/ CountSkipped(w) \/ Push(w) \/ SignalCompletion(w)
      PROVE  lifeCycle' = lifeCycle /\ UNCHANGED <<plan, ctx, main>>
  <2>1. UNCHANGED <<plan, ctx, status, main>>
    BY <1>4 DEF Pop, Park, Exit, Check, CancelBeforeRun, CountSkipped, Push,
                SignalCompletion, shared, caller
  <2>2. ~Running(w)
    BY <1>4 DEF Pop, Park, Exit, Check, CancelBeforeRun, CountSkipped, Push,
                SignalCompletion, Running
  <2>3. ~Running(w)'
    <3>1. CASE CancelBeforeRun(w)
      BY <3>1 DEF CancelBeforeRun, OutcomeInv, Running, TypeOK
    <3>2. CASE Pop(w) \/ Park(w) \/ Exit(w) \/ Check(w)
      BY <3>2 DEF Pop, Park, Exit, Check, Running, TypeOK
    <3>3. CASE CountSkipped(w) \/ Push(w) \/ SignalCompletion(w)
      BY <3>3 DEF CountSkipped, Push, Broadcast, SignalCompletion, Running, TypeOK
    <3>4. QED
      BY <1>4, <3>1, <3>2, <3>3
  <2>4. \A v \in Workers : v # w => Running(v)' = Running(v) /\ cur'[v] = cur[v]
    <3>1. CASE Pop(w) \/ Park(w) \/ Exit(w) \/ Check(w) \/ CancelBeforeRun(w)
      BY <3>1 DEF Pop, Park, Exit, Check, CancelBeforeRun, Running, TypeOK
    <3>2. CASE CountSkipped(w) \/ Push(w) \/ SignalCompletion(w)
      BY <3>2 DEF CountSkipped, Push, Broadcast, SignalCompletion, Running, TypeOK
    <3>3. QED
      BY <1>4, <3>1, <3>2
  <2>5. QED
    BY <2>1, <2>2, <2>3, <2>4, LifeCycleIdle
<1>5. QED
  BY <1>2, <1>3, <1>4

LEMMA CancelMaps ==
    ASSUME Cancel
    PROVE  Abstract!Cancel
<1>1. lifeCycle' = lifeCycle
  BY LifeCycleFrame DEF Cancel, local, Running
<1>2. QED
  BY <1>1 DEF Cancel, caller, Abstract!Cancel, ContextErrors

LEMMA StartMaps ==
    ASSUME TypeOK, InductiveInv, NEW w \in Workers, Start(w)
    PROVE  Abstract!Start(cur[w]) /\ cur[w] \in Node
<1> USE DEF InductiveInv, SchedulerInv
<1> DEFINE id == cur[w]
<1>1. /\ UNCHANGED <<plan, ctx, status, cur, main>> /\ ctx = "live"
      /\ pc' = [pc EXCEPT ![w] = "run"] /\ UNCHANGED <<err, outcome>>
      /\ Holds(w) /\ ~Running(w)
  BY DEF Start, shared, caller, Holds, Running
<1>2. id \in Node /\ Pending(id)
  BY <1>1 DEF PendingInv
<1>3. \A v \in Workers : v # w => ~(Running(v) /\ cur[v] = id)
  BY <1>1, <1>2, LifeCycle DEF DistinctInv
<1>4. lifeCycle[id] = "none"
  BY <1>1, <1>2, <1>3, LifeCycle DEF Pending
<1>5. /\ Running(w)'
      /\ \A v \in Workers : v # w => Running(v)' = Running(v)
  BY <1>1 DEF Running, TypeOK
<1>6. lifeCycle' = [lifeCycle EXCEPT ![id] = "running"]
  BY <1>1, <1>2, <1>5 DEF lifeCycle
<1>7. \A d \in Abstract!DependenciesOf(id) : lifeCycle[d] = "Succeeded"
  BY <1>2, DependenciesMap DEF Pending
<1>8. QED
  BY <1>1, <1>2, <1>4, <1>6, <1>7 DEF Abstract!Start

LEMMA SucceedMaps ==
    ASSUME TypeOK, InductiveInv, NEW w \in Workers, RecordSuccess(w)
    PROVE  Abstract!Succeed(cur[w]) /\ cur[w] \in Node
<1> USE DEF InductiveInv, SchedulerInv
<1> DEFINE id == cur[w]
<1>1. pc[w] = "record" /\ Holds(w) /\ id \in Node /\ status[id] = "none" /\ Running(w)
  BY DEF RecordSuccess, Holds, Running, PendingInv, Pending
<1>2. /\ UNCHANGED <<plan, ctx, cur, err, main>>
      /\ status' = [status EXCEPT ![id] = "Succeeded"]
      /\ pc' = [pc EXCEPT ![w] = "push"]
      /\ outcome' = [outcome EXCEPT ![w] = "none"]
  BY <1>1 DEF RecordSuccess, caller
<1>3. \A v \in Workers : v # w => ~(Running(v) /\ cur[v] = id)
  BY <1>1, LifeCycle DEF DistinctInv
<1>4. /\ ~Running(w)'
      /\ \A v \in Workers : v # w => Running(v)' = Running(v)
  BY <1>1, <1>2 DEF Running, TypeOK
<1>5. lifeCycle[id] = "running"
  BY <1>1, LifeCycle
<1>6. lifeCycle' = [lifeCycle EXCEPT ![id] = "Succeeded"]
  <2>1. \A p \in Node : p # id => ((\E v \in Workers : Running(v)' /\ cur'[v] = p)
                                   <=> (\E v \in Workers : Running(v) /\ cur[v] = p))
    BY <1>2, <1>4
  <2>2. ~\E v \in Workers : Running(v)' /\ cur'[v] = id
    BY <1>2, <1>3, <1>4
  <2>3. /\ lifeCycle'[id] = "Succeeded"
        /\ \A p \in Node : p # id => lifeCycle'[p] = lifeCycle[p]
    <3>1. lifeCycle'[id] = "Succeeded"
      BY <1>1, <1>2, <2>2 DEF lifeCycle, TypeOK
    <3>2. ASSUME NEW p \in Node, p # id PROVE lifeCycle'[p] = lifeCycle[p]
      <4>1. /\ lifeCycle[p] = IF \E v \in Workers : Running(v) /\ cur[v] = p
                              THEN "running" ELSE status[p]
            /\ lifeCycle'[p] = IF \E v \in Workers : Running(v)' /\ cur'[v] = p
                               THEN "running" ELSE status'[p]
        BY DEF lifeCycle
      <4>2. status'[p] = status[p]
        BY <1>1, <1>2, <3>2 DEF TypeOK
      <4>3. (\E v \in Workers : Running(v)' /\ cur'[v] = p)
               <=> (\E v \in Workers : Running(v) /\ cur[v] = p)
        BY <2>1, <3>2
      <4> HIDE DEF InductiveInv, SchedulerInv
      <4>4. QED
        BY <4>1, <4>2, <4>3
    <3>3. QED
      BY <3>1, <3>2
  <2>4. /\ lifeCycle = [p \in Node |-> lifeCycle[p]]
        /\ lifeCycle' = [p \in Node |-> lifeCycle'[p]]
    BY DEF lifeCycle
  <2>5. QED
    BY <1>1, <2>3, <2>4
<1>7. QED
  BY <1>1, <1>2, <1>5, <1>6 DEF Abstract!Succeed

LEMMA EndMaps ==
    ASSUME TypeOK, InductiveInv, OutcomeInv, NEW w \in Workers, RecordOther(w)
    PROVE  (Abstract!Fail(cur[w]) \/ Abstract!CancelProbe(cur[w])) /\ cur[w] \in Node
<1> USE DEF InductiveInv, SchedulerInv
<1> DEFINE id == cur[w]
           R == CascadeSkip(id)
<1>1. /\ pc[w] = "record" /\ Holds(w) /\ id \in Node /\ Pending(id)
      /\ outcome[w] \in {"Failed", "Cancelled"}
  BY DEF RecordOther, Holds, PendingInv, LocalInv, TypeOK
<1>2. /\ UNCHANGED <<plan, ctx, cur, main>>
      /\ pc' = [pc EXCEPT ![w] = "count"]
      /\ outcome' = [outcome EXCEPT ![w] = "none"]
      /\ err' = [err EXCEPT ![w] = {}]
      /\ status' = [q \in Node |-> IF q = id THEN outcome[w]
                                   ELSE IF q \in R THEN "Skipped" ELSE status[q]]
  BY <1>1 DEF RecordOther, caller, Pending
<1>3. \A v \in Workers : v # w => ~(Running(v) /\ cur[v] = id)
  BY <1>1, LifeCycle DEF DistinctInv
<1>4. /\ ~Running(w)'
      /\ \A v \in Workers : v # w => Running(v)' = Running(v)
  BY <1>1, <1>2 DEF Running, TypeOK
<1>5. Abstract!Dependents(id) = R
  BY <1>1, CascadeMaps DEF Pending
<1>6. \A q \in R : q \in Node /\ ~\E v \in Workers : Running(v) /\ cur[v] = q
  BY <1>5, LifeCycle DEF Abstract!Dependents, Abstract!Node, Node
<1>7. Abstract!End(id, outcome[w])
  <2>1. \A p \in Node : p # id => ((\E v \in Workers : Running(v)' /\ cur'[v] = p)
                                   <=> (\E v \in Workers : Running(v) /\ cur[v] = p))
    BY <1>2, <1>4
  <2>2. ~\E v \in Workers : Running(v)' /\ cur'[v] = id
    BY <1>2, <1>3, <1>4
  <2>3. lifeCycle' = [q \in Node |-> IF q = id THEN outcome[w]
                                     ELSE IF q \in R THEN "Skipped" ELSE lifeCycle[q]]
    BY <1>1, <1>2, <1>6, <2>1, <2>2 DEF lifeCycle
  <2>4. QED
    BY <1>2, <1>5, <2>3 DEF Abstract!End, Abstract!Node, Node
<1>8. CASE outcome[w] = "Failed"
  <2>1. lifeCycle[id] = "running"
    BY <1>1, <1>8, LifeCycle DEF Running
  <2>2. QED
    BY <1>1, <1>7, <1>8, <2>1 DEF Abstract!Fail
<1>9. CASE outcome[w] = "Cancelled"
  <2>1. ctx # "live"
    BY <1>1, <1>9 DEF OutcomeInv
  <2>2. \/ lifeCycle[id] = "running"
        \/ /\ lifeCycle[id] = "none"
           /\ \A d \in Abstract!DependenciesOf(id) : lifeCycle[d] = "Succeeded"
    BY <1>1, LifeCycle, DependenciesMap DEF Pending
  <2>3. QED
    BY <1>1, <1>7, <1>9, <2>1, <2>2 DEF Abstract!CancelProbe
<1>10. QED
  BY <1>1, <1>8, <1>9

LEMMA ReturnMaps ==
    ASSUME TypeOK, InductiveInv, AllDoneMeansFinal, ClosingInv, Join
    PROVE  Abstract!Return
<1>1. /\ UNCHANGED <<plan, ctx, status, pc, cur, err, outcome>>
      /\ main = "join" /\ main' = "returned"
  BY DEF Join, shared, local
<1>2. lifeCycle' = lifeCycle
  BY <1>1, LifeCycleFrame DEF Running
<1>3. \A p \in Node : status[p] # "none"
  BY <1>1 DEF ClosingInv, AllDoneMeansFinal
<1>4. \A p \in Node : lifeCycle[p] \notin {"none", "running"}
  BY <1>3, LifeCycle DEF TypeOK, Final
<1>5. QED
  BY <1>1, <1>2, <1>4 DEF Abstract!Return, Abstract!Node, Node

(* For every plan, pool size and schedule the scheduler does what ProbeRun *)
(* allows: no probe starts twice, before its dependencies succeeded or     *)
(* after the context ended; an outcome other than success and the skips it *)
(* causes are one step; and Run returns when every probe has an outcome.   *)
(* (That it does return, ProbeRun's fairness, is left to the runs.)        *)
THEOREM ImplementsProbeRunSafely == Spec => Abstract!Safety
<1>1. Init => Abstract!Init
  <2> SUFFICES ASSUME Init PROVE Abstract!Init
    OBVIOUS
  <2>1. \A w \in Workers : ~Running(w)
    BY DEF Init, Running
  <2>2. lifeCycle = [p \in Node |-> "none"]
    BY <2>1 DEF Init, lifeCycle
  <2>3. QED
    BY <2>2 DEF Init, Abstract!Init, Abstract!Node, Node
<1>2. TypeOK /\ InductiveInv /\ AllDoneMeansFinal /\ RefinementInv /\ [Next]_vars
      => [Abstract!Next]_(Abstract!vars)
  <2> SUFFICES ASSUME TypeOK, InductiveInv, AllDoneMeansFinal, ClosingInv, OutcomeInv,
                      [Next]_vars
               PROVE  [Abstract!Next]_(Abstract!vars)
    BY DEF RefinementInv
  <2> USE DEF Abstract!Next, Abstract!Step, Abstract!Node, Node
  <2>1. CASE Enqueue \/ CloseQueue \/ Returned \/ UNCHANGED vars
    BY <2>1, StutterSteps
  <2>2. CASE Cancel
    BY <2>2, CancelMaps
  <2>3. CASE Join
    BY <2>3, ReturnMaps
  <2>4. ASSUME NEW w \in Workers, Worker(w)
        PROVE  [Abstract!Next]_(Abstract!vars)
    <3>1. CASE Start(w)
      BY <3>1, StartMaps
    <3>2. CASE RecordSuccess(w)
      BY <3>2, SucceedMaps
    <3>3. CASE RecordOther(w)
      BY <3>3, EndMaps
    <3>4. CASE ~(Start(w) \/ RecordSuccess(w) \/ RecordOther(w))
      BY <2>4, <3>4, StutterSteps DEF Worker
    <3>5. QED
      BY <3>1, <3>2, <3>3, <3>4
  <2>5. QED
    BY <2>1, <2>2, <2>3, <2>4 DEF Next, Main
<1>3. QED
  BY <1>1, <1>2, RefinementInvariant, PTL DEF Spec, Abstract!Safety
=============================================================================
