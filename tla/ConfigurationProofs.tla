------------------------ MODULE ConfigurationProofs ------------------------
(***************************************************************************)
(* Theorems of Configuration, for every set of hosts, users and changes.   *)
(***************************************************************************)
EXTENDS Configuration, Induction, SequenceTheorems

-----------------------------------------------------------------------------
(* The parts of EffectiveList.                                             *)
ListSetters(layers, f) == Setters(layers, "lists", f)

Anew(layers, f) == {i \in ListSetters(layers, f) : ~Appends(layers, f, i)}

Kept(layers, f) == {i \in ListSetters(layers, f) : \A j \in Anew(layers, f) : j <= i}

Parts(layers, f) ==
    [i \in DOMAIN layers |-> IF i \in Kept(layers, f) THEN layers[i].lists[f].values ELSE <<>>]

PartOrigins(parts) == [i \in DOMAIN parts |-> [j \in DOMAIN parts[i] |-> i]]

Offset(parts, i) == Len(FlattenSeq(SubSeq(parts, 1, i - 1)))

Shifted(marks, offset) == {offset + j : j \in marks}

Marks(layers, f, m) ==
    UNION {Shifted(layers[i].lists[f][m], Offset(Parts(layers, f), i)) : i \in Kept(layers, f)}

LEMMA EffectiveListIs ==
    ASSUME NEW layers, NEW f
    PROVE  LET list == EffectiveList(layers, f)
               parts == Parts(layers, f)
           IN  /\ list.values = FlattenSeq(parts) /\ list.origins = FlattenSeq(PartOrigins(parts))
               /\ list.invalid = Marks(layers, f, "invalid")
               /\ list.unmodeled = Marks(layers, f, "unmodeled")
               /\ list.anew = (Anew(layers, f) # {})
<1> DEFINE parts == [i \in DOMAIN layers |-> IF i \in Kept(layers, f) THEN layers[i].lists[f].values ELSE <<>>]
           Marked2(m) == UNION {{Len(FlattenSeq(SubSeq(parts, 1, i - 1))) + j : j \in layers[i].lists[f][m]} :
                                 i \in Kept(layers, f)}
<1>1. EffectiveList(layers, f) =
        [values |-> FlattenSeq(parts),
         origins |-> FlattenSeq([i \in DOMAIN layers |-> [j \in DOMAIN parts[i] |-> i]]),
         invalid |-> Marked2("invalid"), unmodeled |-> Marked2("unmodeled"), anew |-> Anew(layers, f) # {}]
  BY Zenon DEF EffectiveList, ListSetters, Anew, Kept
<1>2. parts = Parts(layers, f) /\ DOMAIN parts = DOMAIN layers
  BY Zenon DEF Parts
<1>3. \A m : Marked2(m) = Marks(layers, f, m)
  BY Zenon DEF Marks, Shifted, Offset, Parts
<1>4. [i \in DOMAIN layers |-> [j \in DOMAIN parts[i] |-> i]] = PartOrigins(Parts(layers, f))
  BY <1>2, Zenon DEF PartOrigins
<1> HIDE DEF parts, Marked2
<1>5. QED
  BY <1>1, <1>2, <1>3, <1>4

-----------------------------------------------------------------------------
(* One layer more.                                                         *)
LEMMA MaxIsGreatest ==
    ASSUME NEW n \in Nat, NEW S \in SUBSET (0..n), S # {}
    PROVE  Max(S) \in S /\ \A k \in S : k <= Max(S)
<1> DEFINE T == {n - k : k \in S}
<1>1. T \in SUBSET Nat /\ T # {}
  <2>1. \A k \in S : k \in 0..n
    OBVIOUS
  <2>2. \A k \in S : n - k \in Nat
    BY <2>1
  <2>3. QED
    BY <2>2
<1>2. PICK m \in T : \A k \in T : m <= k
  <2> HIDE DEF T
  <2>1. QED
    BY <1>1, LeastElement
<1>3. PICK g \in S : m = n - g
  BY <1>2
<1>4. \A k \in S : g >= k
  <2>1. ASSUME NEW k \in S PROVE g >= k
    <3>1. n - k \in T /\ k \in 0..n /\ g \in 0..n
      OBVIOUS
    <3> HIDE DEF T
    <3>2. n - g <= n - k
      BY <1>2, <1>3, <3>1
    <3>3. QED
      BY <3>1, <3>2
  <2>2. QED
    BY <2>1
<1>5. Max(S) \in S /\ \A k \in S : Max(S) >= k
  BY <1>4, Zenon DEF Max
<1>6. QED
  BY <1>5

OneMore(old, new, layer) ==
    /\ Len(old) \in Nat /\ DOMAIN old = 1..Len(old)
    /\ DOMAIN new = 1..(Len(old) + 1)
    /\ new[Len(old) + 1] = layer /\ \A i \in 1..Len(old) : new[i] = old[i]

LEMMA SettersOneMore ==
    ASSUME NEW old, NEW new, NEW layer, OneMore(old, new, layer), NEW family, NEW f
    PROVE  /\ Setters(old, family, f) \subseteq 1..Len(old)
           /\ Setters(new, family, f) = Setters(old, family, f)
                \cup (IF f \in DOMAIN layer[family] THEN {Len(old) + 1} ELSE {})
BY DEF OneMore, Setters

(* What the layers so far say of appending.                                *)
Said(layers, f) ==
    LET said == {j \in ListSetters(layers, f) : layers[j].lists[f].append # "unset"}
    IN  IF said = {} THEN "unset" ELSE layers[Max(said)].lists[f].append

LEMMA ListSettersOneMore ==
    ASSUME NEW old, NEW new, NEW layer, OneMore(old, new, layer), NEW f
    PROVE  /\ ListSetters(old, f) \subseteq 1..Len(old)
           /\ ListSetters(new, f) = ListSetters(old, f)
                \cup (IF f \in DOMAIN layer.lists THEN {Len(old) + 1} ELSE {})
           /\ \A i \in ListSetters(old, f) : new[i] = old[i]
<1>1. layer["lists"] = layer.lists
  OBVIOUS
<1>2. QED
  BY <1>1, SettersOneMore DEF ListSetters, OneMore

LEMMA AppendsOneMore ==
    ASSUME NEW old, NEW new, NEW layer, OneMore(old, new, layer), NEW f
    PROVE  /\ \A i \in ListSetters(old, f) : Appends(new, f, i) = Appends(old, f, i)
           /\ Said(new, f) = IF f \in DOMAIN layer.lists /\ layer.lists[f].append # "unset"
                             THEN layer.lists[f].append ELSE Said(old, f)
           /\ f \in DOMAIN layer.lists => Appends(new, f, Len(old) + 1) = (Said(new, f) = "yes")
<1> DEFINE n == Len(old)
           Upto(layers, i) == {j \in ListSetters(layers, f) : j <= i /\ layers[j].lists[f].append # "unset"}
           Saying(layers) == {j \in ListSetters(layers, f) : layers[j].lists[f].append # "unset"}
<1>1. /\ ListSetters(old, f) \subseteq 1..n /\ n \in Nat
      /\ ListSetters(new, f) = ListSetters(old, f) \cup (IF f \in DOMAIN layer.lists THEN {n + 1} ELSE {})
      /\ \A i \in 1..n : new[i] = old[i]
      /\ new[n + 1] = layer
  BY ListSettersOneMore DEF OneMore
<1>2. \A layers, i : Appends(layers, f, i) =
         (Upto(layers, i) # {} /\ layers[Max(Upto(layers, i))].lists[f].append = "yes")
  BY Zenon DEF Appends, ListSetters
<1>3. \A layers : Said(layers, f) =
         IF Saying(layers) = {} THEN "unset" ELSE layers[Max(Saying(layers))].lists[f].append
  BY Zenon DEF Said
<1>4. ASSUME NEW i \in ListSetters(old, f) PROVE Appends(new, f, i) = Appends(old, f, i)
  <2>1. Upto(new, i) = Upto(old, i)
    BY <1>1
  <2>2. Upto(old, i) \in SUBSET (0..n)
    BY <1>1
  <2>3. ASSUME Upto(old, i) # {} PROVE new[Max(Upto(old, i))] = old[Max(Upto(old, i))]
    <3> DEFINE U == Upto(old, i)
    <3>1. Max(U) \in U
      <4>1. U \in SUBSET (0..n) /\ U # {} /\ n \in Nat
        BY <1>1, <2>2, <2>3
      <4> HIDE DEF U
      <4>2. QED
        BY <4>1, MaxIsGreatest
    <3>2. \A k \in U : new[k] = old[k]
      BY <1>1
    <3> HIDE DEF U
    <3>3. new[Max(U)] = old[Max(U)]
      BY <3>1, <3>2
    <3>4. QED
      BY <3>3 DEF U
  <2> HIDE DEF Upto
  <2>4. QED
    BY <1>2, <2>1, <2>3, Zenon
<1>5. Saying(old) \in SUBSET (0..n)
  BY <1>1
<1>6. ASSUME Saying(old) # {} PROVE new[Max(Saying(old))] = old[Max(Saying(old))]
  <2> DEFINE U == Saying(old)
  <2>1. Max(U) \in U
    <3>1. U \in SUBSET (0..n) /\ U # {} /\ n \in Nat
      BY <1>1, <1>5, <1>6
    <3> HIDE DEF U
    <3>2. QED
      BY <3>1, MaxIsGreatest
  <2>2. \A k \in U : new[k] = old[k]
    BY <1>1
  <2> HIDE DEF U
  <2>3. new[Max(U)] = old[Max(U)]
    BY <2>1, <2>2
  <2>4. QED
    BY <2>3 DEF U
<1>7. Said(new, f) = IF f \in DOMAIN layer.lists /\ layer.lists[f].append # "unset"
                     THEN layer.lists[f].append ELSE Said(old, f)
  <2>1. CASE f \in DOMAIN layer.lists /\ layer.lists[f].append # "unset"
    <3> DEFINE U == Saying(new)
    <3>1. n + 1 \in U /\ U \in SUBSET (0..(n + 1)) /\ n + 1 \in Nat
      BY <1>1, <2>1
    <3>2. Max(U) = n + 1
      <4> HIDE DEF U
      <4>1. Max(U) \in U /\ n + 1 <= Max(U)
        BY <3>1, MaxIsGreatest
      <4>2. Max(U) \in 0..(n + 1)
        BY <3>1, <4>1
      <4>3. QED
        BY <1>1, <4>1, <4>2
    <3>3. U # {}
      <4> HIDE DEF U
      <4>1. QED
        BY <3>1
    <3>4. Said(new, f) = new[Max(U)].lists[f].append
      BY <1>3, <3>3, Zenon
    <3>5. QED
      BY <1>1, <2>1, <3>2, <3>4, Zenon
  <2>2. CASE ~(f \in DOMAIN layer.lists /\ layer.lists[f].append # "unset")
    <3>1. Saying(new) = Saying(old)
      BY <1>1, <2>2
    <3> HIDE DEF Saying
    <3>2. QED
      BY <1>3, <1>6, <2>2, <3>1, Zenon
  <2>3. QED
    BY <2>1, <2>2
<1>8. ASSUME f \in DOMAIN layer.lists PROVE Appends(new, f, n + 1) = (Said(new, f) = "yes")
  <2>1. Upto(new, n + 1) = Saying(new)
    BY <1>1
  <2>2. "unset" # "yes"
    OBVIOUS
  <2> HIDE DEF Upto, Saying
  <2>3. CASE Saying(new) = {}
    BY <1>2, <1>3, <2>1, <2>2, <2>3, Zenon
  <2>4. CASE Saying(new) # {}
    <3>1. Said(new, f) = new[Max(Saying(new))].lists[f].append
      BY <1>3, <2>4, Zenon
    <3>2. Appends(new, f, n + 1) =
            (Saying(new) # {} /\ new[Max(Saying(new))].lists[f].append = "yes")
      BY <1>2, <2>1, Zenon
    <3>3. QED
      BY <2>4, <3>1, <3>2, Zenon
  <2>5. QED
    BY <2>3, <2>4
<1>9. QED
  BY <1>4, <1>7, <1>8

LEMMA KeptOneMore ==
    ASSUME NEW old, NEW new, NEW layer, OneMore(old, new, layer), NEW f
    PROVE  LET n == Len(old) IN
           /\ Kept(old, f) \subseteq 1..n
           /\ Anew(new, f) = Anew(old, f)
                \cup (IF f \in DOMAIN layer.lists /\ Said(new, f) # "yes" THEN {n + 1} ELSE {})
           /\ Kept(new, f) = IF f \notin DOMAIN layer.lists THEN Kept(old, f)
                             ELSE IF Said(new, f) = "yes" THEN Kept(old, f) \cup {n + 1}
                             ELSE {n + 1}
<1> DEFINE n == Len(old)
           set == ListSetters(old, f)
           added == f \in DOMAIN layer.lists
           fresh == added /\ Said(new, f) # "yes"
<1>1. /\ set \subseteq 1..n /\ n \in Nat
      /\ ListSetters(new, f) = set \cup (IF added THEN {n + 1} ELSE {})
  BY ListSettersOneMore DEF OneMore
<1>2. /\ \A i \in set : Appends(new, f, i) = Appends(old, f, i)
      /\ added => Appends(new, f, n + 1) = (Said(new, f) = "yes")
  <2>1. /\ \A i \in ListSetters(old, f) : Appends(new, f, i) = Appends(old, f, i)
        /\ f \in DOMAIN layer.lists => Appends(new, f, Len(old) + 1) = (Said(new, f) = "yes")
    BY AppendsOneMore
  <2>2. QED
    BY <2>1, Zenon
<1> HIDE DEF n, set, added
<1>3. /\ \A i : i \in Anew(old, f) <=> i \in set /\ ~Appends(old, f, i)
      /\ \A i : i \in Anew(new, f) <=> i \in ListSetters(new, f) /\ ~Appends(new, f, i)
  BY DEF Anew, set
<1>4. Anew(new, f) = Anew(old, f) \cup (IF fresh THEN {n + 1} ELSE {})
  <2>1. n + 1 \notin set
    BY <1>1
  <2> HIDE DEF fresh
  <2>2. ASSUME NEW i PROVE i \in Anew(new, f) <=> i \in Anew(old, f) \/ (fresh /\ i = n + 1)
    <3>1. CASE i \in set
      <4>1. i \in ListSetters(new, f) /\ i # n + 1
        BY <1>1, <2>1, <3>1, Zenon
      <4>2. QED
        BY <1>2, <1>3, <3>1, <4>1, Zenon
    <3>2. CASE i \notin set /\ i = n + 1
      BY <1>1, <1>2, <1>3, <3>2, Zenon DEF fresh
    <3>3. CASE i \notin set /\ i # n + 1
      <4>1. i \notin ListSetters(new, f)
        BY <1>1, <3>3
      <4>2. QED
        BY <1>3, <3>3, <4>1, Zenon
    <3>4. QED
      BY <3>1, <3>2, <3>3, Zenon
  <2>3. QED
    BY <2>2
<1>5. Anew(old, f) \subseteq 1..n
  BY <1>1, <1>3
<1>6. /\ \A i : i \in Kept(old, f) <=> i \in set /\ \A j \in Anew(old, f) : j <= i
      /\ \A i : i \in Kept(new, f) <=> i \in ListSetters(new, f) /\ \A j \in Anew(new, f) : j <= i
  BY DEF Kept, set
<1>7. Kept(old, f) \subseteq 1..n
  BY <1>1, <1>6
<1>8. Kept(new, f) = IF ~added THEN Kept(old, f)
                     ELSE IF ~fresh THEN Kept(old, f) \cup {n + 1} ELSE {n + 1}
  <2>1. CASE ~added
    <3>1. ListSetters(new, f) = set /\ Anew(new, f) = Anew(old, f)
      BY <1>1, <1>4, <2>1
    <3>2. QED
      BY <1>6, <2>1, <3>1
  <2>2. CASE added /\ ~fresh
    <3>1. ListSetters(new, f) = set \cup {n + 1} /\ Anew(new, f) = Anew(old, f)
      BY <1>1, <1>4, <2>2
    <3>2. \A j \in Anew(old, f) : j <= n + 1
      BY <1>1, <1>5
    <3> HIDE DEF fresh
    <3>3. Kept(new, f) = Kept(old, f) \cup {n + 1}
      BY <1>6, <3>1, <3>2
    <3>4. QED
      BY <2>2, <3>3
  <2>3. CASE fresh
    <3>1. added
      BY <2>3
    <3> HIDE DEF fresh
    <3>2. ListSetters(new, f) = set \cup {n + 1} /\ Anew(new, f) = Anew(old, f) \cup {n + 1}
      BY <1>1, <1>4, <2>3, <3>1
    <3>3. \A j \in Anew(new, f) : j <= n + 1
      BY <1>1, <1>5, <3>2
    <3>4. \A i \in set : ~(n + 1 <= i)
      BY <1>1
    <3>5. Kept(new, f) = {n + 1}
      BY <1>6, <3>2, <3>3, <3>4
    <3>6. QED
      BY <2>3, <3>1, <3>5
  <2>4. QED
    BY <2>1, <2>2, <2>3, Zenon
<1>9. QED
  BY <1>4, <1>7, <1>8, Zenon DEF n, added

LEMMA FrontAlike ==
    ASSUME NEW S, NEW s \in Seq(S), NEW t \in Seq(S), NEW k \in Nat,
           k <= Len(s), k <= Len(t), \A i \in 1..k : s[i] = t[i]
    PROVE  SubSeq(s, 1, k) = SubSeq(t, 1, k) /\ SubSeq(s, 1, k) \in Seq(S)
<1>1. /\ SubSeq(s, 1, k) \in Seq(S) /\ Len(SubSeq(s, 1, k)) = k
      /\ \A i \in 1..k : SubSeq(s, 1, k)[i] = s[i]
  OBVIOUS
<1>2. /\ SubSeq(t, 1, k) \in Seq(S) /\ Len(SubSeq(t, 1, k)) = k
      /\ \A i \in 1..k : SubSeq(t, 1, k)[i] = t[i]
  OBVIOUS
<1>3. QED
  <2> DEFINE a == SubSeq(s, 1, k)
             b == SubSeq(t, 1, k)
  <2>1. a \in Seq(S) /\ b \in Seq(S) /\ Len(a) = Len(b) /\ \A i \in 1..Len(a) : a[i] = b[i]
    BY <1>1, <1>2
  <2> HIDE DEF a, b
  <2>2. a = b
    BY <2>1, SeqEqual
  <2>3. QED
    BY <2>1, <2>2 DEF a, b

-----------------------------------------------------------------------------
(* The joined lists of one layer more.                                     *)
IsStack(S, layers) ==
    /\ Len(layers) \in Nat /\ DOMAIN layers = 1..Len(layers)
    /\ \A i \in DOMAIN layers : \A f \in DOMAIN layers[i].lists : layers[i].lists[f].values \in Seq(S)

LEMMA KeptAreSetters ==
    ASSUME NEW layers, NEW f, NEW i \in Kept(layers, f)
    PROVE  i \in DOMAIN layers /\ f \in DOMAIN layers[i].lists
<1>1. i \in Setters(layers, "lists", f)
  BY Zenon DEF Kept, ListSetters
<1>2. i \in DOMAIN layers /\ f \in DOMAIN layers[i]["lists"]
  BY <1>1 DEF Setters
<1>3. layers[i]["lists"] = layers[i].lists
  OBVIOUS
<1>4. QED
  BY <1>2, <1>3

LEMMA PartsAreLists ==
    ASSUME NEW S, NEW layers, IsStack(S, layers), NEW f
    PROVE  /\ Parts(layers, f) \in Seq(Seq(S)) /\ Len(Parts(layers, f)) = Len(layers)
           /\ DOMAIN Parts(layers, f) = 1..Len(layers)
           /\ \A i \in 1..Len(layers) :
                Parts(layers, f)[i] = IF i \in Kept(layers, f) THEN layers[i].lists[f].values ELSE <<>>
<1> DEFINE part(i) == IF i \in Kept(layers, f) THEN layers[i].lists[f].values ELSE <<>>
           n == Len(layers)
<1>1. n \in Nat /\ DOMAIN layers = 1..n
  BY DEF IsStack
<1>2. \A i \in 1..n : part(i) \in Seq(S)
  <2>1. \A i \in 1..n : i \in Kept(layers, f) => layers[i].lists[f].values \in Seq(S)
    BY <1>1, KeptAreSetters DEF IsStack
  <2>2. <<>> \in Seq(S)
    OBVIOUS
  <2>3. QED
    BY <2>1, <2>2
<1>3. Parts(layers, f) = [i \in 1..n |-> part(i)]
  BY <1>1, Zenon DEF Parts
<1> HIDE DEF part, n
<1>4. [i \in 1..n |-> part(i)] \in Seq(Seq(S)) /\ Len([i \in 1..n |-> part(i)]) = n
  BY <1>1, <1>2, IsASeq
<1>5. /\ Parts(layers, f) \in Seq(Seq(S)) /\ Len(Parts(layers, f)) = n
      /\ DOMAIN Parts(layers, f) = 1..n /\ \A i \in 1..n : Parts(layers, f)[i] = part(i)
  BY <1>3, <1>4
<1>6. QED
  BY <1>5, Zenon DEF part, n

(* What a layer leaves of the lists below it, and what it adds.            *)
Restarts(new, layer, f) == f \in DOMAIN layer.lists /\ Said(new, f) # "yes"

Remaining(old, restarts, f) ==
    [i \in 1..Len(old) |-> IF restarts THEN <<>> ELSE Parts(old, f)[i]]

Blank(n) == [i \in 1..n |-> <<>>]

Added(layer, f) == IF f \in DOMAIN layer.lists THEN layer.lists[f].values ELSE <<>>

LEMMA RemainingAreLists ==
    ASSUME NEW S, NEW old, IsStack(S, old), NEW restarts, NEW f
    PROVE  /\ Remaining(old, restarts, f) \in Seq(Seq(S)) /\ Len(Remaining(old, restarts, f)) = Len(old)
           /\ DOMAIN Remaining(old, restarts, f) = 1..Len(old)
           /\ ~restarts => Remaining(old, restarts, f) = Parts(old, f)
           /\ restarts => Remaining(old, restarts, f) = Blank(Len(old))
<1> DEFINE n == Len(old)
           parts == Parts(old, f)
           part(i) == IF restarts THEN <<>> ELSE parts[i]
<1>1. n \in Nat /\ parts \in Seq(Seq(S)) /\ Len(parts) = n
  BY PartsAreLists DEF IsStack
<1>2. Remaining(old, restarts, f) = [i \in 1..n |-> part(i)]
  BY Zenon DEF Remaining
<1> HIDE DEF n, parts
<1>3. \A i \in 1..n : part(i) \in Seq(S)
  BY <1>1
<1>4. ~restarts => [i \in 1..n |-> part(i)] = parts
  BY <1>1
<1>5. restarts => [i \in 1..n |-> part(i)] = Blank(n)
  BY DEF Blank
<1> HIDE DEF part
<1>6. [i \in 1..n |-> part(i)] \in Seq(Seq(S)) /\ Len([i \in 1..n |-> part(i)]) = n
  BY <1>1, <1>3, IsASeq
<1>7. QED
  <2>1. DOMAIN [i \in 1..n |-> part(i)] = 1..n
    OBVIOUS
  <2>2. QED
    BY <1>2, <1>4, <1>5, <1>6, <2>1, Zenon DEF n, parts

LEMMA PartsOneMore ==
    ASSUME NEW S, NEW old, NEW new, NEW layer, OneMore(old, new, layer),
           IsStack(S, old), IsStack(S, new), NEW f
    PROVE  /\ Added(layer, f) \in Seq(S)
           /\ Parts(new, f) = Append(Remaining(old, Restarts(new, layer, f), f), Added(layer, f))
<1> DEFINE n == Len(old)
           restarts == Restarts(new, layer, f)
           front == Remaining(old, restarts, f)
           last == Added(layer, f)
<1>1. n \in Nat /\ DOMAIN new = 1..(n + 1) /\ new[n + 1] = layer /\ \A i \in 1..n : new[i] = old[i]
  BY DEF OneMore
<1>2. last \in Seq(S)
  <2>1. n + 1 \in DOMAIN new
    BY <1>1
  <2>2. f \in DOMAIN layer.lists => layer.lists[f].values \in Seq(S)
    BY <1>1, <2>1 DEF IsStack
  <2>3. <<>> \in Seq(S)
    OBVIOUS
  <2>4. QED
    BY <2>2, <2>3 DEF Added
<1>3. /\ front \in Seq(Seq(S)) /\ Len(front) = n
      /\ \A i \in 1..n : front[i] = IF restarts THEN <<>> ELSE Parts(old, f)[i]
  <2>1. \A i \in 1..n : front[i] = IF restarts THEN <<>> ELSE Parts(old, f)[i]
    BY DEF Remaining
  <2>2. QED
    BY <2>1, RemainingAreLists
<1>4. /\ Parts(new, f) \in Seq(Seq(S)) /\ Len(Parts(new, f)) = n + 1
      /\ \A i \in 1..(n + 1) :
           Parts(new, f)[i] = IF i \in Kept(new, f) THEN new[i].lists[f].values ELSE <<>>
  <2>1. Len(new) \in Nat /\ 1..Len(new) = 1..(n + 1)
    BY <1>1, Zenon DEF IsStack
  <2>2. n + 1 \in 1..Len(new)
    BY <1>1, <2>1
  <2>3. Len(new) \in 1..(n + 1)
    BY <2>1, <2>2
  <2>4. Len(new) = n + 1
    BY <1>1, <2>2, <2>3
  <2>5. /\ Parts(new, f) \in Seq(Seq(S)) /\ Len(Parts(new, f)) = Len(new)
        /\ \A i \in 1..Len(new) :
             Parts(new, f)[i] = IF i \in Kept(new, f) THEN new[i].lists[f].values ELSE <<>>
    BY PartsAreLists
  <2>6. QED
    BY <2>4, <2>5, Zenon
<1>5. \A i \in 1..n :
        Parts(old, f)[i] = IF i \in Kept(old, f) THEN old[i].lists[f].values ELSE <<>>
  BY PartsAreLists
<1>6. /\ Kept(old, f) \subseteq 1..n
      /\ Kept(new, f) = IF f \notin DOMAIN layer.lists THEN Kept(old, f)
                        ELSE IF Said(new, f) = "yes" THEN Kept(old, f) \cup {n + 1} ELSE {n + 1}
  BY KeptOneMore
<1>7. \A i \in 1..n : i \in Kept(new, f) <=> ~restarts /\ i \in Kept(old, f)
  BY <1>1, <1>6 DEF Restarts
<1>8. n + 1 \in Kept(new, f) <=> f \in DOMAIN layer.lists
  BY <1>1, <1>6
<1>9. \A i \in 1..n : Parts(new, f)[i] = front[i]
  <2> HIDE DEF front, restarts
  <2>1. SUFFICES ASSUME NEW i \in 1..n PROVE Parts(new, f)[i] = front[i]
    OBVIOUS
  <2>2. i \in 1..(n + 1)
    BY <1>1
  <2>3. Parts(new, f)[i] = IF i \in Kept(new, f) THEN new[i].lists[f].values ELSE <<>>
    BY <1>4, <2>2
  <2>4. new[i] = old[i] /\ (i \in Kept(new, f) <=> ~restarts /\ i \in Kept(old, f))
    BY <1>1, <1>7
  <2>5. Parts(old, f)[i] = IF i \in Kept(old, f) THEN old[i].lists[f].values ELSE <<>>
    BY <1>5
  <2>6. front[i] = IF restarts THEN <<>> ELSE Parts(old, f)[i]
    BY <1>3
  <2>7. QED
    BY <2>3, <2>4, <2>5, <2>6, Zenon
<1>10. Parts(new, f)[n + 1] = last
  <2>1. n + 1 \in 1..(n + 1)
    BY <1>1
  <2>2. Parts(new, f)[n + 1] = IF n + 1 \in Kept(new, f) THEN new[n + 1].lists[f].values ELSE <<>>
    BY <1>4, <2>1
  <2>3. QED
    BY <1>1, <1>8, <2>2, Zenon DEF Added
<1> DEFINE parts == Parts(new, f)
<1> HIDE DEF front, last, n, parts
<1>11. parts = Append(front, last)
  <2> DEFINE more == Append(front, last)
  <2>1. /\ more \in Seq(Seq(S)) /\ Len(more) = n + 1 /\ more[n + 1] = last
        /\ \A i \in 1..n : more[i] = front[i]
    BY <1>1, <1>2, <1>3
  <2> HIDE DEF more
  <2>2. parts \in Seq(Seq(S)) /\ Len(parts) = n + 1 /\ parts[n + 1] = last
        /\ \A i \in 1..n : parts[i] = front[i]
    BY <1>4, <1>9, <1>10, Zenon DEF parts, front, n, last
  <2>3. ASSUME NEW i \in 1..Len(parts) PROVE parts[i] = more[i]
    <3>1. n \in Nat
      BY <1>1
    <3>2. i = n + 1 \/ i \in 1..n
      BY <2>2, <3>1
    <3>3. CASE i = n + 1
      BY <2>1, <2>2, <3>3, Zenon
    <3>4. CASE i \in 1..n
      BY <2>1, <2>2, <3>4, Zenon
    <3>5. QED
      BY <3>2, <3>3, <3>4
  <2>4. parts = more
    BY <2>1, <2>2, <2>3, SeqEqual
  <2>5. QED
    BY <2>4 DEF more
<1>12. QED
  BY <1>2, <1>11 DEF parts, front, last, restarts

LEMMA RemainingJoined ==
    ASSUME NEW S, NEW old, IsStack(S, old), NEW restarts, NEW f
    PROVE  /\ FlattenSeq(Remaining(old, restarts, f)) =
                IF restarts THEN <<>> ELSE FlattenSeq(Parts(old, f))
           /\ FlattenSeq(Parts(old, f)) \in Seq(S)
           /\ FlattenSeq(Remaining(old, restarts, f)) \in Seq(S)
<1>1. /\ Remaining(old, restarts, f) \in Seq(Seq(S))
      /\ Len(Remaining(old, restarts, f)) = Len(old) /\ Len(old) \in Nat
      /\ ~restarts => Remaining(old, restarts, f) = Parts(old, f)
      /\ restarts => Remaining(old, restarts, f) = Blank(Len(old))
  <2>1. Len(old) \in Nat
    BY DEF IsStack
  <2>2. QED
    BY <2>1, RemainingAreLists
<1>2. Parts(old, f) \in Seq(Seq(S))
  BY PartsAreLists
<1>3. FlattenSeq(Parts(old, f)) \in Seq(S) /\ FlattenSeq(Remaining(old, restarts, f)) \in Seq(S)
  BY <1>1, <1>2, FlattenIsSeq
<1>4. ASSUME restarts PROVE FlattenSeq(Remaining(old, restarts, f)) = <<>>
  <2> DEFINE r == Remaining(old, restarts, f)
  <2>1. Len(r) \in Nat /\ Len(r) = Len(old) /\ r = Blank(Len(old))
    BY <1>1, <1>4
  <2> HIDE DEF r
  <2>2. r = [i \in 1..Len(r) |-> <<>>]
    BY <2>1, Zenon DEF Blank
  <2>3. FlattenSeq(r) = <<>>
    BY <2>1, <2>2, FlattenNothing
  <2>4. QED
    BY <2>3 DEF r
<1>5. QED
  BY <1>1, <1>3, <1>4, Zenon

LEMMA ValuesOneMore ==
    ASSUME NEW S, NEW old, NEW new, NEW layer, OneMore(old, new, layer),
           IsStack(S, old), IsStack(S, new), NEW f
    PROVE  FlattenSeq(Parts(new, f)) =
             FlattenSeq(Remaining(old, Restarts(new, layer, f), f)) \o Added(layer, f)
<1> DEFINE front == Remaining(old, Restarts(new, layer, f), f)
           last == Added(layer, f)
<1>1. Parts(new, f) = Append(front, last) /\ last \in Seq(S)
  BY PartsOneMore
<1>2. front \in Seq(Seq(S))
  BY RemainingAreLists
<1> HIDE DEF front, last
<1>3. FlattenSeq(Append(front, last)) = FlattenSeq(front) \o last
  BY <1>1, <1>2, FlattenOneMore
<1>4. QED
  BY <1>1, <1>3 DEF front, last

LEMMA OriginsAreLists ==
    ASSUME NEW S, NEW parts \in Seq(Seq(S))
    PROVE  /\ PartOrigins(parts) \in Seq(Seq(Nat)) /\ Len(PartOrigins(parts)) = Len(parts)
           /\ \A i \in 1..Len(parts) : PartOrigins(parts)[i] = [j \in DOMAIN parts[i] |-> i]
<1> DEFINE n == Len(parts)
           origins(i) == [j \in DOMAIN parts[i] |-> i]
<1>1. n \in Nat /\ DOMAIN parts = 1..n /\ \A i \in 1..n : parts[i] \in Seq(S)
  OBVIOUS
<1>2. \A i \in 1..n : origins(i) \in Seq(Nat)
  <2>1. SUFFICES ASSUME NEW i \in 1..n PROVE origins(i) \in Seq(Nat)
    OBVIOUS
  <2>2. DOMAIN parts[i] = 1..Len(parts[i]) /\ Len(parts[i]) \in Nat
    BY <1>1
  <2> DEFINE l == Len(parts[i])
  <2>3. origins(i) = [j \in 1..l |-> i] /\ i \in Nat
    BY <2>2
  <2> HIDE DEF l, origins
  <2>4. [j \in 1..l |-> i] \in Seq(Nat)
    BY <2>2, <2>3, IsASeq DEF l
  <2>5. QED
    BY <2>3, <2>4
<1>3. PartOrigins(parts) = [i \in 1..n |-> origins(i)]
  BY <1>1, Zenon DEF PartOrigins
<1> HIDE DEF n, origins
<1>4. [i \in 1..n |-> origins(i)] \in Seq(Seq(Nat)) /\ Len([i \in 1..n |-> origins(i)]) = n
  BY <1>1, <1>2, IsASeq
<1>5. \A i \in 1..n : PartOrigins(parts)[i] = origins(i)
  BY <1>3
<1>6. QED
  BY <1>3, <1>4, <1>5, Zenon DEF n, origins

LEMMA OriginsAppend ==
    ASSUME NEW S, NEW front \in Seq(Seq(S)), NEW last \in Seq(S)
    PROVE  PartOrigins(Append(front, last)) =
             Append(PartOrigins(front), [j \in DOMAIN last |-> Len(front) + 1])
<1> DEFINE more == Append(front, last)
           n == Len(front)
           added == [j \in DOMAIN last |-> n + 1]
           a == PartOrigins(more)
           fronts == PartOrigins(front)
           b == Append(fronts, added)
<1>1. /\ more \in Seq(Seq(S)) /\ Len(more) = n + 1 /\ n \in Nat /\ more[n + 1] = last
      /\ \A i \in 1..n : more[i] = front[i]
  OBVIOUS
<1>2. added \in Seq(Nat)
  <2> DEFINE l == Len(last)
  <2>1. l \in Nat /\ added = [j \in 1..l |-> n + 1] /\ n + 1 \in Nat
    OBVIOUS
  <2> HIDE DEF added, n, l
  <2>2. QED
    BY <2>1, IsASeq
<1> HIDE DEF more
<1>3. /\ a \in Seq(Seq(Nat)) /\ Len(a) = n + 1
      /\ \A i \in 1..(n + 1) : a[i] = [j \in DOMAIN more[i] |-> i]
  <2>1. /\ a \in Seq(Seq(Nat)) /\ Len(a) = Len(more)
        /\ \A i \in 1..Len(more) : a[i] = [j \in DOMAIN more[i] |-> i]
    BY <1>1, OriginsAreLists
  <2>2. QED
    BY <1>1, <2>1, Zenon
<1>4. /\ fronts \in Seq(Seq(Nat)) /\ Len(fronts) = n
      /\ \A i \in 1..n : fronts[i] = [j \in DOMAIN front[i] |-> i]
  BY OriginsAreLists
<1>5. a[n + 1] = added
  <2>1. n + 1 \in 1..(n + 1)
    BY <1>1
  <2>2. a[n + 1] = [j \in DOMAIN more[n + 1] |-> n + 1]
    BY <1>3, <2>1
  <2>3. QED
    BY <1>1, <2>2, Zenon
<1>6. \A i \in 1..n : a[i] = fronts[i]
  <2>1. SUFFICES ASSUME NEW i \in 1..n PROVE a[i] = fronts[i]
    OBVIOUS
  <2>2. i \in 1..(n + 1) /\ more[i] = front[i]
    BY <1>1
  <2> HIDE DEF n, a, fronts
  <2>3. a[i] = [j \in DOMAIN more[i] |-> i] /\ fronts[i] = [j \in DOMAIN front[i] |-> i]
    BY <1>3, <1>4, <2>2, Zenon
  <2>4. QED
    BY <2>2, <2>3, Zenon
<1> HIDE DEF a, fronts, added, n
<1>7. /\ b \in Seq(Seq(Nat)) /\ Len(b) = n + 1 /\ b[n + 1] = added
      /\ \A i \in 1..n : b[i] = fronts[i]
  BY <1>1, <1>2, <1>4
<1> HIDE DEF b
<1>8. \A i \in 1..Len(a) : a[i] = b[i]
  <2>1. SUFFICES ASSUME NEW i \in 1..(n + 1) PROVE a[i] = b[i]
    BY <1>3
  <2>2. CASE i = n + 1
    BY <1>5, <1>7, <2>2, Zenon
  <2>3. CASE i # n + 1
    <3>1. i \in 1..n
      BY <1>1, <2>3
    <3>2. QED
      BY <1>6, <1>7, <3>1, Zenon
  <2>4. QED
    BY <2>2, <2>3
<1>9. a = b
  BY <1>3, <1>7, <1>8, SeqEqual
<1>10. QED
  BY <1>9 DEF a, b, more, fronts, added, n

LEMMA OriginsOneMore ==
    ASSUME NEW S, NEW old, NEW new, NEW layer, OneMore(old, new, layer),
           IsStack(S, old), IsStack(S, new), NEW f
    PROVE  FlattenSeq(PartOrigins(Parts(new, f))) =
             (IF Restarts(new, layer, f) THEN <<>> ELSE FlattenSeq(PartOrigins(Parts(old, f))))
             \o [j \in DOMAIN Added(layer, f) |-> Len(old) + 1]
<1> DEFINE restarts == Restarts(new, layer, f)
           front == Remaining(old, restarts, f)
           last == Added(layer, f)
           origins == PartOrigins(front)
           added == [j \in DOMAIN last |-> Len(front) + 1]
<1>1. Parts(new, f) = Append(front, last) /\ last \in Seq(S)
  BY PartsOneMore
<1>2. /\ front \in Seq(Seq(S)) /\ Len(front) = Len(old) /\ Len(old) \in Nat
      /\ ~restarts => front = Parts(old, f)
      /\ restarts => front = Blank(Len(old))
  <2>1. Len(old) \in Nat
    BY DEF IsStack
  <2>2. QED
    BY <2>1, RemainingAreLists
<1> HIDE DEF front, last, restarts
<1>3. PartOrigins(Parts(new, f)) = Append(origins, added)
  BY <1>1, <1>2, OriginsAppend
<1>4. /\ origins \in Seq(Seq(Nat)) /\ Len(origins) = Len(front)
      /\ \A i \in 1..Len(front) : origins[i] = [j \in DOMAIN front[i] |-> i]
  <2>1. front \in Seq(Seq(S))
    BY <1>2
  <2>2. QED
    BY <2>1, OriginsAreLists
<1>5. added \in Seq(Nat)
  <2> DEFINE l == Len(last)
             k == Len(front) + 1
  <2>1. l \in Nat /\ DOMAIN last = 1..l /\ k \in Nat
    BY <1>1, <1>2
  <2>2. added = [j \in 1..l |-> k]
    BY <2>1
  <2> HIDE DEF added, l, k
  <2>3. QED
    BY <2>1, <2>2, IsASeq
<1>6. ASSUME restarts PROVE FlattenSeq(origins) = <<>>
  <2>1. Len(origins) \in Nat /\ DOMAIN origins = 1..Len(origins)
    BY <1>4
  <2>2. \A i \in 1..Len(origins) : origins[i] = <<>>
    <3>1. SUFFICES ASSUME NEW i \in 1..Len(origins) PROVE origins[i] = <<>>
      OBVIOUS
    <3>2. origins[i] = [j \in DOMAIN front[i] |-> i]
      BY <1>4
    <3>3. front[i] = <<>>
      BY <1>2, <1>4, <1>6 DEF Blank
    <3>4. [j \in DOMAIN <<>> |-> i] = <<>>
      OBVIOUS
    <3>5. QED
      BY <3>2, <3>3, <3>4, Zenon
  <2>3. origins = [i \in 1..Len(origins) |-> <<>>]
    <3>1. origins = [i \in DOMAIN origins |-> origins[i]]
      BY <1>4
    <3> HIDE DEF origins
    <3>2. QED
      BY <2>1, <2>2, <3>1
  <2> HIDE DEF origins
  <2>4. QED
    BY <2>1, <2>3, FlattenNothing
<1> HIDE DEF origins, added
<1>7. FlattenSeq(Append(origins, added)) = FlattenSeq(origins) \o added
  BY <1>4, <1>5, FlattenOneMore
<1>8. FlattenSeq(origins) = IF restarts THEN <<>> ELSE FlattenSeq(PartOrigins(Parts(old, f)))
  BY <1>2, <1>6, Zenon DEF origins
<1>9. added = [j \in DOMAIN Added(layer, f) |-> Len(old) + 1]
  BY <1>2, Zenon DEF added, last
<1>10. QED
  BY <1>3, <1>7, <1>8, <1>9, Zenon DEF restarts

LEMMA OffsetAt ==
    ASSUME NEW parts, NEW i, NEW k, i - 1 = k
    PROVE  Offset(parts, i) = Len(FlattenSeq(SubSeq(parts, 1, k)))
BY Zenon DEF Offset

LEMMA MarksOneMore ==
    ASSUME NEW S, NEW old, NEW new, NEW layer, OneMore(old, new, layer),
           IsStack(S, old), IsStack(S, new), NEW f, NEW m
    PROVE  Marks(new, f, m) =
             (IF Restarts(new, layer, f) THEN {} ELSE Marks(old, f, m))
             \cup (IF f \in DOMAIN layer.lists
                   THEN Shifted(layer.lists[f][m],
                          Len(FlattenSeq(Remaining(old, Restarts(new, layer, f), f))))
                   ELSE {})
<1> DEFINE n == Len(old)
           restarts == Restarts(new, layer, f)
           front == Remaining(old, restarts, f)
           last == Added(layer, f)
           parts == Parts(new, f)
<1>1. n \in Nat /\ new[n + 1] = layer /\ \A i \in 1..n : new[i] = old[i]
  BY DEF OneMore
<1>2. parts = Append(front, last) /\ last \in Seq(S)
  BY PartsOneMore
<1>3. /\ front \in Seq(Seq(S)) /\ Len(front) = n
      /\ ~restarts => front = Parts(old, f)
  BY RemainingAreLists
<1>4. /\ Kept(old, f) \subseteq 1..n
      /\ Kept(new, f) = IF f \notin DOMAIN layer.lists THEN Kept(old, f)
                        ELSE IF restarts THEN {n + 1} ELSE Kept(old, f) \cup {n + 1}
  <2>1. /\ Kept(old, f) \subseteq 1..n
        /\ Kept(new, f) = IF f \notin DOMAIN layer.lists THEN Kept(old, f)
                          ELSE IF Said(new, f) = "yes" THEN Kept(old, f) \cup {n + 1} ELSE {n + 1}
    BY KeptOneMore
  <2>2. f \in DOMAIN layer.lists => (restarts <=> Said(new, f) # "yes")
    BY DEF Restarts
  <2> HIDE DEF restarts, n
  <2>3. QED
    BY <2>1, <2>2, Zenon
<1>5. restarts => f \in DOMAIN layer.lists
  BY DEF Restarts
<1> HIDE DEF front, last, parts, restarts, n
<1>6. /\ parts \in Seq(Seq(S)) /\ Len(parts) = n + 1
      /\ \A i \in 1..n : parts[i] = front[i]
  BY <1>1, <1>2, <1>3
<1>7. ASSUME NEW i \in 1..(n + 1) PROVE Offset(parts, i) = Offset(front, i)
  <2> DEFINE k == i - 1
  <2>1. k \in Nat /\ k <= Len(parts) /\ k <= Len(front) /\ 1..k \subseteq 1..n
    BY <1>1, <1>3, <1>6
  <2>2. \A j \in 1..k : parts[j] = front[j]
    BY <1>6, <2>1
  <2> HIDE DEF k
  <2>3. SubSeq(parts, 1, k) = SubSeq(front, 1, k)
    BY <1>3, <1>6, <2>1, <2>2, FrontAlike
  <2>4. QED
    BY <2>3, Zenon DEF Offset, k
<1>8. Offset(front, n + 1) = Len(FlattenSeq(front))
  <2> DEFINE s == SubSeq(front, 1, n)
  <2>1. s \in Seq(Seq(S)) /\ Len(s) = n /\ \A i \in 1..n : s[i] = front[i]
    BY <1>1, <1>3
  <2> HIDE DEF s
  <2>2. s = front
    BY <1>3, <2>1, SeqEqual
  <2>3. (n + 1) - 1 = n
    BY <1>1
  <2>4. QED
    <3> DEFINE next == n + 1
    <3>1. Offset(front, next) = Len(FlattenSeq(SubSeq(front, 1, n)))
      <4>1. next - 1 = n
        BY <2>3
      <4> HIDE DEF next
      <4>2. QED
        BY <4>1, OffsetAt, Zenon
    <3>2. SubSeq(front, 1, n) = s
      BY DEF s
    <3>3. QED
      BY <2>2, <3>1, <3>2, Zenon
<1> DEFINE mark(i) == Shifted(new[i].lists[f][m], Offset(parts, i))
           oldMark(i) == Shifted(old[i].lists[f][m], Offset(Parts(old, f), i))
<1>9. ASSUME ~restarts, NEW i \in Kept(old, f) PROVE mark(i) = oldMark(i)
  <2>1. i \in 1..n /\ i \in 1..(n + 1)
    BY <1>1, <1>4
  <2>2. new[i] = old[i] /\ Offset(parts, i) = Offset(Parts(old, f), i)
    BY <1>1, <1>3, <1>7, <1>9, <2>1
  <2>3. QED
    BY <2>2, Zenon
<1>10. mark(n + 1) = Shifted(layer.lists[f][m], Len(FlattenSeq(front)))
  <2>1. n + 1 \in 1..(n + 1)
    BY <1>1
  <2>2. QED
    BY <1>1, <1>7, <1>8, <2>1, Zenon
<1>11. /\ Marks(new, f, m) = UNION {mark(i) : i \in Kept(new, f)}
       /\ Marks(old, f, m) = UNION {oldMark(i) : i \in Kept(old, f)}
  BY Zenon DEF Marks, parts
<1> HIDE DEF mark, oldMark
<1> DEFINE marked(K) == UNION {mark(i) : i \in K}
           below == Marks(old, f, m)
           above == Shifted(layer.lists[f][m], Len(FlattenSeq(front)))
<1>12. ~restarts => marked(Kept(old, f)) = below
  BY <1>9, <1>11
<1>13. marked({n + 1}) = above
  <2>1. marked({n + 1}) = mark(n + 1)
    OBVIOUS
  <2>2. QED
    BY <1>10, <2>1, Zenon
<1>14. marked(Kept(old, f) \cup {n + 1}) = marked(Kept(old, f)) \cup marked({n + 1})
  OBVIOUS
<1> HIDE DEF marked, below, above
<1>15. CASE f \notin DOMAIN layer.lists
  <2>1. Kept(new, f) = Kept(old, f) /\ ~restarts
    BY <1>4, <1>5, <1>15
  <2>2. Marks(new, f, m) = below
    BY <1>11, <1>12, <2>1, Zenon DEF marked
  <2>3. QED
    BY <1>15, <2>1, <2>2 DEF below, restarts
<1>16. CASE f \in DOMAIN layer.lists /\ restarts
  <2>1. Kept(new, f) = {n + 1}
    BY <1>4, <1>16
  <2>2. Marks(new, f, m) = above
    BY <1>11, <1>13, <2>1, Zenon DEF marked
  <2>3. {} \cup above = above
    OBVIOUS
  <2>4. QED
    BY <1>16, <2>2, <2>3, Zenon DEF above, front, restarts
<1>17. CASE f \in DOMAIN layer.lists /\ ~restarts
  <2>1. Kept(new, f) = Kept(old, f) \cup {n + 1}
    BY <1>4, <1>17
  <2>2. Marks(new, f, m) = below \cup above
    <3>1. Marks(new, f, m) = marked(Kept(old, f) \cup {n + 1})
      BY <1>11, <2>1, Zenon DEF marked
    <3>2. QED
      BY <1>12, <1>13, <1>14, <1>17, <3>1
  <2>3. QED
    BY <1>17, <2>2, Zenon DEF above, below, front, restarts
<1>18. QED
  BY <1>15, <1>16, <1>17, Zenon

-----------------------------------------------------------------------------
(* A list of the configuration says what a stack of layers means.          *)
Says(list, layers, f, defaulted) ==
    /\ list.values = FlattenSeq(Parts(layers, f))
    /\ list.origins = FlattenSeq(PartOrigins(Parts(layers, f)))
    /\ list.invalid = Marks(layers, f, "invalid")
    /\ list.unmodeled = Marks(layers, f, "unmodeled")
    /\ list.append = Said(layers, f)
    /\ list.inherited = (Anew(layers, f) = {} /\ ~defaulted)

LEMMA UntouchedListSays ==
    ASSUME NEW S, NEW old, NEW new, NEW layer, OneMore(old, new, layer),
           IsStack(S, old), IsStack(S, new), NEW f, f \notin DOMAIN layer.lists,
           NEW list, NEW defaulted, Says(list, old, f, defaulted)
    PROVE  Says(list, new, f, defaulted)
<1>1. ~Restarts(new, layer, f) /\ Added(layer, f) = <<>>
  BY DEF Restarts, Added
<1> DEFINE was == FlattenSeq(Parts(old, f))
           origins == FlattenSeq(PartOrigins(Parts(old, f)))
<1>2. FlattenSeq(Parts(new, f)) = was
  <2>1. /\ FlattenSeq(Remaining(old, Restarts(new, layer, f), f)) =
               IF Restarts(new, layer, f) THEN <<>> ELSE FlattenSeq(Parts(old, f))
        /\ FlattenSeq(Parts(old, f)) \in Seq(S)
    BY RemainingJoined
  <2>2. FlattenSeq(Parts(new, f)) =
          FlattenSeq(Remaining(old, Restarts(new, layer, f), f)) \o Added(layer, f)
    BY ValuesOneMore
  <2>3. FlattenSeq(Parts(new, f)) = was \o <<>>
    BY <1>1, <2>1, <2>2, Zenon
  <2>4. was \in Seq(S)
    BY <2>1
  <2> HIDE DEF was
  <2>5. was \o <<>> = was
    BY <2>4, ConcatEmptySeq
  <2>6. QED
    BY <2>3, <2>5
<1>3. FlattenSeq(PartOrigins(Parts(new, f))) = origins
  <2>1. FlattenSeq(PartOrigins(Parts(new, f))) =
             (IF Restarts(new, layer, f) THEN <<>> ELSE FlattenSeq(PartOrigins(Parts(old, f))))
             \o [j \in DOMAIN Added(layer, f) |-> Len(old) + 1]
    BY OriginsOneMore
  <2>2. [j \in DOMAIN <<>> |-> Len(old) + 1] = <<>>
    OBVIOUS
  <2>3. FlattenSeq(PartOrigins(Parts(new, f))) = origins \o <<>>
    BY <1>1, <2>1, <2>2, Zenon
  <2>4. origins \in Seq(Nat)
    <3>1. Parts(old, f) \in Seq(Seq(S))
      BY PartsAreLists
    <3>2. PartOrigins(Parts(old, f)) \in Seq(Seq(Nat))
      BY <3>1, OriginsAreLists
    <3>3. QED
      BY <3>2, FlattenIsSeq
  <2> HIDE DEF origins
  <2>5. origins \o <<>> = origins
    BY <2>4, ConcatEmptySeq
  <2>6. QED
    BY <2>3, <2>5
<1>4. ASSUME NEW m PROVE Marks(new, f, m) = Marks(old, f, m)
  <2>1. Marks(new, f, m) =
             (IF Restarts(new, layer, f) THEN {} ELSE Marks(old, f, m))
             \cup (IF f \in DOMAIN layer.lists
                   THEN Shifted(layer.lists[f][m],
                          Len(FlattenSeq(Remaining(old, Restarts(new, layer, f), f))))
                   ELSE {})
    BY MarksOneMore
  <2>2. QED
    BY <1>1, <2>1
<1>5. Said(new, f) = Said(old, f)
  BY AppendsOneMore
<1>6. Anew(new, f) = Anew(old, f)
  <2>1. Anew(new, f) = Anew(old, f)
           \cup (IF f \in DOMAIN layer.lists /\ Said(new, f) # "yes" THEN {Len(old) + 1} ELSE {})
    BY KeptOneMore
  <2>2. QED
    BY <2>1
<1>7. QED
  BY <1>2, <1>3, <1>4, <1>5, <1>6, Zenon DEF Says

LEMMA mergeListSays ==
    ASSUME NEW S, NEW old, NEW new, NEW layer, OneMore(old, new, layer),
           IsStack(S, old), IsStack(S, new), NEW f, f \in DOMAIN layer.lists,
           NEW list, NEW defaulted, Says(list, old, f, defaulted)
    PROVE  Says(mergeList(list, layer.lists[f], Len(old) + 1), new, f, defaulted)
<1> DEFINE added == layer.lists[f]
           append == IF added.append = "unset" THEN list.append ELSE added.append
           kept == IF append = "yes" THEN list ELSE EmptyList(FALSE)
           merged == mergeList(list, added, Len(old) + 1)
           restarts == Restarts(new, layer, f)
           offset == Len(FlattenSeq(Remaining(old, restarts, f)))
           origins == [i \in DOMAIN added.values |-> Len(old) + 1]
<1>1. merged = MergedList(kept, append, added, Len(old) + 1)
  BY Zenon DEF mergeList
<1>2. append = Said(new, f)
  <2>1. Said(new, f) = IF f \in DOMAIN layer.lists /\ layer.lists[f].append # "unset"
                       THEN layer.lists[f].append ELSE Said(old, f)
    BY AppendsOneMore
  <2>2. list.append = Said(old, f)
    BY Zenon DEF Says
  <2>3. QED
    BY <2>1, <2>2, Zenon
<1>3. restarts <=> append # "yes"
  BY <1>2, Zenon DEF Restarts
<1>4. added.values = Added(layer, f)
  BY Zenon DEF Added
<1> HIDE DEF added, append, kept, restarts
<1>5. /\ merged.values = kept.values \o added.values
      /\ merged.origins = kept.origins \o origins
      /\ merged.invalid = kept.invalid \cup Shifted(added.invalid, Len(kept.values))
      /\ merged.unmodeled = kept.unmodeled \cup Shifted(added.unmodeled, Len(kept.values))
      /\ merged.append = append /\ merged.inherited = kept.inherited
  <2> DEFINE v == kept.values \o added.values
             o == kept.origins \o origins
             i1 == kept.invalid \cup Shifted(added.invalid, Len(kept.values))
             u1 == kept.unmodeled \cup Shifted(added.unmodeled, Len(kept.values))
             h == kept.inherited
             n == Len(old) + 1
  <2>1. merged = [values |-> v, origins |-> o, invalid |-> i1, unmodeled |-> u1,
                  append |-> append, inherited |-> h, source |-> n]
    BY <1>1, Zenon DEF MergedList, Shifted
  <2> HIDE DEF v, o, i1, u1, h, n, merged
  <2>2. /\ merged.values = v /\ merged.origins = o /\ merged.invalid = i1 /\ merged.unmodeled = u1
        /\ merged.append = append /\ merged.inherited = h
    BY <2>1
  <2>3. QED
    BY <2>2, Zenon DEF v, o, i1, u1, h
<1> HIDE DEF merged
<1>6. /\ kept.values = FlattenSeq(Remaining(old, restarts, f))
      /\ kept.origins = IF restarts THEN <<>> ELSE FlattenSeq(PartOrigins(Parts(old, f)))
      /\ kept.invalid = IF restarts THEN {} ELSE Marks(old, f, "invalid")
      /\ kept.unmodeled = IF restarts THEN {} ELSE Marks(old, f, "unmodeled")
      /\ kept.inherited = (~restarts /\ Anew(old, f) = {} /\ ~defaulted)
  <2>1. FlattenSeq(Remaining(old, restarts, f)) = IF restarts THEN <<>> ELSE FlattenSeq(Parts(old, f))
    BY RemainingJoined
  <2>2. CASE restarts
    <3>1. kept = EmptyList(FALSE)
      BY <1>3, <2>2, Zenon DEF kept
    <3> DEFINE empty == <<>>
               none == {}
               word == "unset"
               no == FALSE
    <3>2. kept = [values |-> empty, origins |-> empty, invalid |-> none,
            unmodeled |-> none, append |-> word, inherited |-> no, source |-> 0]
      BY <3>1, Zenon DEF EmptyList
    <3> HIDE DEF empty, none, word, no
    <3>3. kept.values = empty /\ kept.origins = empty /\ kept.invalid = none
          /\ kept.unmodeled = none /\ kept.inherited = no
      BY <3>2
    <3>4. QED
      BY <2>1, <2>2, <3>3, Zenon DEF empty, none, no
  <2>3. CASE ~restarts
    <3>1. kept = list
      BY <1>3, <2>3, Zenon DEF kept
    <3>2. QED
      BY <2>1, <2>3, <3>1, Zenon DEF Says
  <2>4. QED
    BY <2>2, <2>3
<1>7. merged.values = FlattenSeq(Parts(new, f))
  <2>1. FlattenSeq(Parts(new, f)) = FlattenSeq(Remaining(old, Restarts(new, layer, f), f)) \o Added(layer, f)
    BY ValuesOneMore
  <2>2. QED
    BY <1>4, <1>5, <1>6, <2>1, Zenon DEF restarts
<1>8. merged.origins = FlattenSeq(PartOrigins(Parts(new, f)))
  <2>1. FlattenSeq(PartOrigins(Parts(new, f))) =
             (IF Restarts(new, layer, f) THEN <<>> ELSE FlattenSeq(PartOrigins(Parts(old, f))))
             \o [j \in DOMAIN Added(layer, f) |-> Len(old) + 1]
    BY OriginsOneMore
  <2>2. QED
    BY <1>4, <1>5, <1>6, <2>1, Zenon DEF restarts
<1>9. ASSUME NEW m
      PROVE  Marks(new, f, m) = (IF restarts THEN {} ELSE Marks(old, f, m)) \cup Shifted(added[m], offset)
  <2>1. Marks(new, f, m) =
             (IF Restarts(new, layer, f) THEN {} ELSE Marks(old, f, m))
             \cup (IF f \in DOMAIN layer.lists
                   THEN Shifted(layer.lists[f][m],
                          Len(FlattenSeq(Remaining(old, Restarts(new, layer, f), f))))
                   ELSE {})
    BY MarksOneMore
  <2>2. QED
    BY <2>1, Zenon DEF restarts, added
<1>10. merged.invalid = Marks(new, f, "invalid")
  <2>1. Marks(new, f, "invalid") =
          (IF restarts THEN {} ELSE Marks(old, f, "invalid")) \cup Shifted(added["invalid"], offset)
    BY <1>9
  <2>2. added["invalid"] = added.invalid
    OBVIOUS
  <2>3. QED
    BY <1>5, <1>6, <2>1, <2>2, Zenon
<1>11. merged.unmodeled = Marks(new, f, "unmodeled")
  <2>1. Marks(new, f, "unmodeled") =
          (IF restarts THEN {} ELSE Marks(old, f, "unmodeled")) \cup Shifted(added["unmodeled"], offset)
    BY <1>9
  <2>2. added["unmodeled"] = added.unmodeled
    OBVIOUS
  <2>3. QED
    BY <1>5, <1>6, <2>1, <2>2, Zenon
<1>12. merged.inherited = (Anew(new, f) = {} /\ ~defaulted)
  <2>1. Anew(new, f) = Anew(old, f)
           \cup (IF f \in DOMAIN layer.lists /\ Said(new, f) # "yes" THEN {Len(old) + 1} ELSE {})
    BY KeptOneMore
  <2>2. Anew(new, f) = {} <=> ~restarts /\ Anew(old, f) = {}
    BY <2>1 DEF restarts, Restarts
  <2>3. QED
    BY <1>5, <1>6, <2>2, Zenon
<1>13. Says(merged, new, f, defaulted)
  BY <1>2, <1>5, <1>7, <1>8, <1>10, <1>11, <1>12, Zenon DEF Says
<1>14. QED
  BY <1>13 DEF merged, added

-----------------------------------------------------------------------------
(* The merge of a layer (config.MergeEngine, MergeNetwork).                *)
TextFields(layers) == UNION {DOMAIN layers[i].strings : i \in DOMAIN layers}

ListFields(layers) == UNION {DOMAIN layers[i].lists : i \in DOMAIN layers}

ListOf(lists, f) == IF f \in DOMAIN lists THEN lists[f] ELSE Unset

TextSays(text, layers, f) ==
    /\ text.value = EffectiveText(layers, f).value /\ text.invalid = EffectiveText(layers, f).invalid
    /\ text.source = Max(Setters(layers, "strings", f))

Means(config, defaults, layers) ==
    /\ DOMAIN config.strings = TextFields(layers) \cup DOMAIN defaults.strings
    /\ DOMAIN config.lists = ListFields(layers) \cup DOMAIN defaults.lists
    /\ \A f \in TextFields(layers) : TextSays(config.strings[f], layers, f)
    /\ \A f : Says(ListOf(config.lists, f), layers, f, f \in DOMAIN defaults.lists)

LEMMA FieldsOneMore ==
    ASSUME NEW old, NEW new, NEW layer, OneMore(old, new, layer)
    PROVE  /\ TextFields(new) = TextFields(old) \cup DOMAIN layer.strings
           /\ ListFields(new) = ListFields(old) \cup DOMAIN layer.lists
<1> DEFINE n == Len(old)
<1>1. /\ n \in Nat /\ DOMAIN old = 1..n /\ DOMAIN new = 1..(n + 1)
      /\ new[n + 1] = layer /\ \A i \in 1..n : new[i] = old[i]
  BY DEF OneMore
<1> HIDE DEF n
<1>2. ASSUME NEW f
      PROVE  /\ f \in TextFields(new) <=> f \in TextFields(old) \/ f \in DOMAIN layer.strings
             /\ f \in ListFields(new) <=> f \in ListFields(old) \/ f \in DOMAIN layer.lists
  <2>1. /\ f \in TextFields(new) <=> \E i \in 1..(n + 1) : f \in DOMAIN new[i].strings
        /\ f \in TextFields(old) <=> \E i \in 1..n : f \in DOMAIN old[i].strings
        /\ f \in ListFields(new) <=> \E i \in 1..(n + 1) : f \in DOMAIN new[i].lists
        /\ f \in ListFields(old) <=> \E i \in 1..n : f \in DOMAIN old[i].lists
    BY <1>1 DEF TextFields, ListFields
  <2>2. n + 1 \in 1..(n + 1) /\ \A i \in 1..n : i \in 1..(n + 1)
    BY <1>1
  <2>3. \A i \in 1..(n + 1) : i \in 1..n \/ i = n + 1
    BY <1>1
  <2>4. QED
    BY <1>1, <2>1, <2>2, <2>3
<1>3. QED
  BY <1>2

LEMMA TextOneMore ==
    ASSUME NEW old, NEW new, NEW layer, OneMore(old, new, layer), NEW f
    PROVE  /\ f \in DOMAIN layer.strings =>
                /\ EffectiveText(new, f) = layer.strings[f]
                /\ Max(Setters(new, "strings", f)) = Len(old) + 1
           /\ f \in TextFields(old) /\ f \notin DOMAIN layer.strings =>
                /\ EffectiveText(new, f) = EffectiveText(old, f)
                /\ Max(Setters(new, "strings", f)) = Max(Setters(old, "strings", f))
<1> DEFINE n == Len(old)
           before1 == Setters(old, "strings", f)
           after == Setters(new, "strings", f)
<1>1. /\ n \in Nat /\ DOMAIN old = 1..n
      /\ new[n + 1] = layer /\ \A i \in 1..n : new[i] = old[i]
  BY DEF OneMore
<1>2. layer["strings"] = layer.strings
  OBVIOUS
<1>3. /\ before1 \subseteq 1..n
      /\ after = before1 \cup (IF f \in DOMAIN layer.strings THEN {n + 1} ELSE {})
  BY <1>2, SettersOneMore
<1>4. ASSUME f \in DOMAIN layer.strings
      PROVE  EffectiveText(new, f) = layer.strings[f] /\ Max(after) = n + 1
  <2> HIDE DEF n, before1, after
  <2>1. n + 1 \in after /\ after \in SUBSET (0..(n + 1)) /\ after # {} /\ n + 1 \in Nat
    BY <1>1, <1>3, <1>4
  <2>2. Max(after) \in after /\ n + 1 <= Max(after)
    BY <2>1, MaxIsGreatest
  <2>3. Max(after) \in 0..(n + 1)
    BY <2>1, <2>2
  <2>4. Max(after) = n + 1
    BY <1>1, <2>2, <2>3
  <2>5. new[Max(after)].strings[f] = layer.strings[f]
    BY <1>1, <2>4, Zenon
  <2>6. QED
    BY <2>4, <2>5, Zenon DEF EffectiveText, after
<1>5. ASSUME f \in TextFields(old), f \notin DOMAIN layer.strings
      PROVE  EffectiveText(new, f) = EffectiveText(old, f) /\ Max(after) = Max(before1)
  <2>1. after = before1
    BY <1>3, <1>5
  <2>2. before1 # {}
    <3>1. PICK i \in DOMAIN old : f \in DOMAIN old[i].strings
      BY <1>5 DEF TextFields
    <3>2. old[i]["strings"] = old[i].strings
      OBVIOUS
    <3>3. QED
      BY <3>1, <3>2 DEF Setters
  <2> HIDE DEF n, before1, after
  <2>3. before1 \in SUBSET (0..n)
    BY <1>1, <1>3
  <2>4. Max(before1) \in before1
    BY <1>1, <2>2, <2>3, MaxIsGreatest
  <2>5. new[Max(before1)] = old[Max(before1)]
    BY <1>1, <1>3, <2>4
  <2>6. QED
    BY <2>1, <2>5, Zenon DEF EffectiveText, before1, after
<1>6. QED
  BY <1>4, <1>5, Zenon

LEMMA MergedFields ==
    ASSUME NEW previous, NEW layer, NEW source
    PROVE  /\ DOMAIN mergeString(previous, layer, source) = DOMAIN previous \cup DOMAIN layer
           /\ DOMAIN MergeLists(previous, layer, source) = DOMAIN previous \cup DOMAIN layer
BY DEF mergeString, MergeLists

LEMMA MergedText ==
    ASSUME NEW previous, NEW layer, NEW source, NEW f
    PROVE  /\ f \in DOMAIN layer =>
                /\ mergeString(previous, layer, source)[f].value = layer[f].value
                /\ mergeString(previous, layer, source)[f].invalid = layer[f].invalid
                /\ mergeString(previous, layer, source)[f].source = source
           /\ f \in DOMAIN previous /\ f \notin DOMAIN layer =>
                mergeString(previous, layer, source)[f] = previous[f]
BY DEF mergeString

LEMMA MergedListOf ==
    ASSUME NEW previous, NEW layer, NEW source, NEW f
    PROVE  ListOf(MergeLists(previous, layer, source), f) =
             IF f \in DOMAIN layer THEN mergeList(ListOf(previous, f), layer[f], source)
             ELSE ListOf(previous, f)
<1> DEFINE lists == MergeLists(previous, layer, source)
           one(g) == IF g \notin DOMAIN layer THEN previous[g]
                     ELSE mergeList(ListOf(previous, g), layer[g], source)
           fields == DOMAIN previous \cup DOMAIN layer
<1>1. lists = [g \in fields |-> one(g)]
  BY Zenon DEF MergeLists, ListOf
<1> HIDE DEF lists
<1>2. DOMAIN lists = fields /\ (f \in fields => lists[f] = one(f))
  <2> HIDE DEF one, fields
  <2>1. QED
    BY <1>1
<1>3. f \in fields <=> f \in DOMAIN previous \/ f \in DOMAIN layer
  OBVIOUS
<1> HIDE DEF fields
<1>4. ListOf(lists, f) = IF f \in DOMAIN layer THEN mergeList(ListOf(previous, f), layer[f], source)
                         ELSE ListOf(previous, f)
  <2>1. CASE f \in DOMAIN layer
    BY <1>2, <1>3, <2>1, Zenon DEF ListOf
  <2>2. CASE f \notin DOMAIN layer /\ f \in DOMAIN previous
    BY <1>2, <1>3, <2>2, Zenon DEF ListOf
  <2>3. CASE f \notin DOMAIN layer /\ f \notin DOMAIN previous
    BY <1>2, <1>3, <2>3, Zenon DEF ListOf
  <2>4. QED
    BY <2>1, <2>2, <2>3, Zenon
<1>5. QED
  BY <1>4, Zenon DEF lists

LEMMA MergeMeans ==
    ASSUME NEW S, NEW old, NEW new, NEW layer, OneMore(old, new, layer),
           IsStack(S, old), IsStack(S, new), NEW config, NEW defaults, Means(config, defaults, old),
           NEW merged,
           merged.strings = mergeString(config.strings, layer.strings, Len(old) + 1),
           merged.lists = MergeLists(config.lists, layer.lists, Len(old) + 1)
    PROVE  Means(merged, defaults, new)
<1> DEFINE n == Len(old) + 1
           texts == merged.strings
           lists == merged.lists
<1>1. /\ TextFields(new) = TextFields(old) \cup DOMAIN layer.strings
      /\ ListFields(new) = ListFields(old) \cup DOMAIN layer.lists
  BY FieldsOneMore
<1>2. /\ DOMAIN texts = DOMAIN config.strings \cup DOMAIN layer.strings
      /\ \A f \in DOMAIN layer.strings : /\ texts[f].value = layer.strings[f].value
                                         /\ texts[f].invalid = layer.strings[f].invalid
                                         /\ texts[f].source = n
      /\ \A f \in DOMAIN config.strings : f \notin DOMAIN layer.strings => texts[f] = config.strings[f]
  <2> DEFINE was == config.strings
             given == layer.strings
  <2>1. texts = mergeString(was, given, n)
    OBVIOUS
  <2> HIDE DEF texts, n, was, given
  <2>2. /\ DOMAIN texts = DOMAIN was \cup DOMAIN given
        /\ \A f \in DOMAIN given : /\ texts[f].value = given[f].value
                                   /\ texts[f].invalid = given[f].invalid
                                   /\ texts[f].source = n
        /\ \A f \in DOMAIN was : f \notin DOMAIN given => texts[f] = was[f]
    <3>1. DOMAIN texts = DOMAIN was \cup DOMAIN given
      BY <2>1, MergedFields
    <3>2. ASSUME NEW f \in DOMAIN given
          PROVE  /\ texts[f].value = given[f].value /\ texts[f].invalid = given[f].invalid
                 /\ texts[f].source = n
      BY <2>1, MergedText
    <3>3. ASSUME NEW f \in DOMAIN was, f \notin DOMAIN given PROVE texts[f] = was[f]
      <4>1. mergeString(was, given, n)[f] = was[f]
        BY <3>3, MergedText
      <4>2. QED
        BY <2>1, <4>1, Zenon
    <3>4. QED
      BY <3>1, <3>2, <3>3
  <2>3. QED
    BY <2>2 DEF was, given
<1>3. /\ DOMAIN lists = DOMAIN config.lists \cup DOMAIN layer.lists
      /\ \A f \in DOMAIN layer.lists :
           ListOf(lists, f) = mergeList(ListOf(config.lists, f), layer.lists[f], n)
      /\ \A f : f \notin DOMAIN layer.lists => ListOf(lists, f) = ListOf(config.lists, f)
  <2> DEFINE was == config.lists
             given == layer.lists
  <2>1. lists = MergeLists(was, given, n)
    OBVIOUS
  <2> HIDE DEF lists, n, was, given
  <2>2. /\ DOMAIN lists = DOMAIN was \cup DOMAIN given
        /\ \A f \in DOMAIN given : ListOf(lists, f) = mergeList(ListOf(was, f), given[f], n)
        /\ \A f : f \notin DOMAIN given => ListOf(lists, f) = ListOf(was, f)
    <3>1. DOMAIN lists = DOMAIN was \cup DOMAIN given
      BY <2>1, MergedFields
    <3>2. ASSUME NEW f \in DOMAIN given
          PROVE  ListOf(lists, f) = mergeList(ListOf(was, f), given[f], n)
      BY <2>1, MergedListOf
    <3>3. ASSUME NEW f, f \notin DOMAIN given PROVE ListOf(lists, f) = ListOf(was, f)
      <4>1. ListOf(MergeLists(was, given, n), f) =
              IF f \in DOMAIN given THEN mergeList(ListOf(was, f), given[f], n) ELSE ListOf(was, f)
        BY MergedListOf
      <4>2. QED
        BY <2>1, <3>3, <4>1, Zenon
    <3>4. QED
      BY <3>1, <3>2, <3>3
  <2>3. QED
    BY <2>2 DEF was, given
<1>4. /\ DOMAIN config.strings = TextFields(old) \cup DOMAIN defaults.strings
      /\ DOMAIN config.lists = ListFields(old) \cup DOMAIN defaults.lists
      /\ \A f \in TextFields(old) : TextSays(config.strings[f], old, f)
      /\ \A f : Says(ListOf(config.lists, f), old, f, f \in DOMAIN defaults.lists)
  BY Zenon DEF Means
<1> HIDE DEF texts, lists
<1>5. /\ DOMAIN texts = TextFields(new) \cup DOMAIN defaults.strings
      /\ DOMAIN lists = ListFields(new) \cup DOMAIN defaults.lists
  BY <1>1, <1>2, <1>3, <1>4
<1>6. ASSUME NEW f \in TextFields(new) PROVE TextSays(texts[f], new, f)
  <2>1. CASE f \in DOMAIN layer.strings
    <3>1. EffectiveText(new, f) = layer.strings[f] /\ Max(Setters(new, "strings", f)) = n
      BY <2>1, TextOneMore
    <3> HIDE DEF n
    <3>2. QED
      BY <1>2, <2>1, <3>1, Zenon DEF TextSays
  <2>2. CASE f \notin DOMAIN layer.strings
    <3>1. f \in TextFields(old) /\ f \in DOMAIN config.strings
      BY <1>1, <1>4, <2>2
    <3>2. /\ EffectiveText(new, f) = EffectiveText(old, f)
          /\ Max(Setters(new, "strings", f)) = Max(Setters(old, "strings", f))
      BY <2>2, <3>1, TextOneMore
    <3>3. texts[f] = config.strings[f] /\ TextSays(config.strings[f], old, f)
      BY <1>2, <1>4, <2>2, <3>1
    <3>4. QED
      BY <3>2, <3>3, Zenon DEF TextSays
  <2>3. QED
    BY <2>1, <2>2
<1>7. ASSUME NEW f PROVE Says(ListOf(lists, f), new, f, f \in DOMAIN defaults.lists)
  <2>1. Says(ListOf(config.lists, f), old, f, f \in DOMAIN defaults.lists)
    BY <1>4, Zenon
  <2>2. CASE f \in DOMAIN layer.lists
    <3> DEFINE list == ListOf(config.lists, f)
               defaulted == f \in DOMAIN defaults.lists
               result == mergeList(list, layer.lists[f], n)
    <3>1. Says(list, old, f, defaulted)
      BY <2>1
    <3> HIDE DEF list, defaulted
    <3>2. Says(result, new, f, defaulted)
      BY <2>2, <3>1, mergeListSays
    <3>3. ListOf(lists, f) = result
      BY <1>3, <2>2, Zenon DEF list
    <3>4. QED
      BY <3>2, <3>3, Zenon DEF defaulted
  <2>3. CASE f \notin DOMAIN layer.lists
    <3> DEFINE list == ListOf(config.lists, f)
               defaulted == f \in DOMAIN defaults.lists
    <3>1. Says(list, old, f, defaulted)
      BY <2>1
    <3> HIDE DEF list, defaulted
    <3>2. Says(list, new, f, defaulted)
      BY <2>3, <3>1, UntouchedListSays
    <3>3. ListOf(lists, f) = list
      BY <1>3, <2>3, Zenon DEF list
    <3>4. QED
      BY <3>2, <3>3, Zenon DEF defaulted
  <2>4. QED
    BY <2>2, <2>3
<1>8. QED
  BY <1>5, <1>6, <1>7, Zenon DEF Means, texts, lists

-----------------------------------------------------------------------------
(* What the parsers project of a document (EngineLayer, NetworkLayer).     *)
LEMMA ParsedFields ==
    ASSUME NEW doc, NEW fields, DOMAIN fields \subseteq Nat, NEW modern,
           Parse(doc, fields, modern) = "ok",
           NEW f \in Present(doc, fields, modern)
    PROVE  FieldProblem(f, doc.fields[f]) = "ok"
<1> DEFINE present == Present(doc, fields, modern)
           bad == {i \in DOMAIN fields : /\ fields[i] \in present
                                         /\ FieldProblem(fields[i], doc.fields[fields[i]]) # "ok"}
           first == fields[Min(bad)]
<1>1. Parse(doc, fields, modern) =
        IF doc.syntax # "ok" THEN doc.syntax
        ELSE IF bad = {} THEN "ok" ELSE FieldProblem(first, doc.fields[first])
  BY Zenon DEF Parse
<1>2. bad # {} => Min(bad) \in bad
  <2>1. bad \in SUBSET Nat
    OBVIOUS
  <2> HIDE DEF bad
  <2>2. QED
    BY <2>1, MinIsLeast
<1>3. ASSUME bad # {} PROVE FALSE
  <2>1. FieldProblem(first, doc.fields[first]) # "ok"
    <3>1. Min(bad) \in bad
      BY <1>2, <1>3
    <3> DEFINE m == Min(bad)
    <3>2. m \in bad
      BY <3>1
    <3> HIDE DEF m
    <3>3. FieldProblem(fields[m], doc.fields[fields[m]]) # "ok"
      BY <3>2
    <3>4. QED
      BY <3>3 DEF m
  <2> HIDE DEF bad, first
  <2>2. QED
    BY <1>1, <1>3, <2>1
<1>4. PICK i \in DOMAIN fields : f = fields[i]
  <2>1. f \in ToSet(fields)
    BY DEF Present
  <2>2. QED
    BY <2>1 DEF ToSet
<1>5. QED
  BY <1>3, <1>4

LEMMA ParsedLists ==
    ASSUME NEW f, NEW value, FieldProblem(f, value) = "ok",
           f # "engine.platform_to_oci_runtime", ~IsText(f)
    PROVE  value.is = "list"
<1>1. "invalid" # "ok"
  OBVIOUS
<1> HIDE DEF IsText
<1>2. QED
  BY <1>1, Zenon DEF FieldProblem

ItemTexts(items) == {items[i].text : i \in {j \in DOMAIN items : items[j].is = "text"}}

LEMMA ListLayerValues ==
    ASSUME NEW f, NEW value, NEW S, <<>> \in S, ItemTexts(value.items) \subseteq S,
           value.items \in Seq(ToSet(value.items))
    PROVE  ListLayer(f, value).values \in Seq(S)
<1> DEFINE items == value.items
           text(i) == IF items[i].is = "text" THEN <<items[i].text>> ELSE <<>>
           texts == FlattenSeq([i \in DOMAIN items |-> text(i)])
           one(i) == IF f \in Redacted \/ Mark(f, texts[i]) # "ok" THEN <<>> ELSE texts[i]
           values == [i \in DOMAIN texts |-> one(i)]
           n == Len(items)
<1>1. n \in Nat /\ DOMAIN items = 1..n
  OBVIOUS
<1>2. \A i \in 1..n : text(i) \in Seq(S)
  <2>1. \A i \in 1..n : items[i].is = "text" => items[i].text \in S
    BY <1>1 DEF ItemTexts
  <2>2. \A t \in S : <<t>> \in Seq(S)
    OBVIOUS
  <2>3. <<>> \in Seq(S)
    OBVIOUS
  <2> HIDE DEF items, n
  <2>4. QED
    BY <2>1, <2>2, <2>3
<1>3. [i \in DOMAIN items |-> text(i)] \in Seq(Seq(S))
  <2> HIDE DEF n, text, items
  <2>1. [i \in 1..n |-> text(i)] \in Seq(Seq(S))
    BY <1>1, <1>2, IsASeq
  <2>2. QED
    BY <1>1, <2>1
<1>4. texts \in Seq(S)
  BY <1>3, FlattenIsSeq, Zenon
<1> HIDE DEF texts
<1>5. values \in Seq(S)
  <2> DEFINE k == Len(texts)
  <2>1. k \in Nat /\ DOMAIN texts = 1..k /\ \A i \in 1..k : texts[i] \in S
    BY <1>4
  <2>2. \A i \in 1..k : one(i) \in S
    BY <2>1
  <2> HIDE DEF one, k
  <2>3. [i \in 1..k |-> one(i)] \in Seq(S)
    BY <2>1, <2>2, IsASeq
  <2>4. QED
    BY <2>1, <2>3
<1>6. ListLayer(f, value).values = values
  <2> DEFINE flags == SelectSeq(value.items, LAMBDA item : item.is = "append")
             appends == IF flags = <<>> THEN "unset" ELSE Last(flags).flag
             invalid == {i \in DOMAIN texts : Mark(f, texts[i]) = "invalid"}
             unmodeled == {i \in DOMAIN texts : Mark(f, texts[i]) = "unmodeled"}
  <2>1. ListLayer(f, value) =
          [values |-> values, append |-> appends, invalid |-> invalid, unmodeled |-> unmodeled]
    BY Zenon DEF ListLayer, texts
  <2> HIDE DEF flags, appends, invalid, unmodeled, values
  <2>2. QED
    BY <2>1
<1>7. QED
  BY <1>5, <1>6

(* The files there may be, their arrays and the texts in them.             *)
Nodes == UNION {Range(s.host) \cup {s.event.node} : s \in Situations}

Documents == {node.doc : node \in {x \in Nodes : x.is = "file"}}

ArraysOf(doc) == {doc.fields[f] : f \in {g \in DOMAIN doc.fields : doc.fields[g].is = "list"}}

Arrays == UNION {ArraysOf(doc) : doc \in Documents}

Texts == {<<>>} \cup UNION {ItemTexts(value.items) : value \in Arrays}

IsLayer(layer) == \A f \in DOMAIN layer.lists : layer.lists[f].values \in Seq(Texts)

LEMMA ArrayItems ==
    ASSUME NEW doc \in Documents, NEW f \in DOMAIN doc.fields, doc.fields[f].is = "list"
    PROVE  /\ doc.fields[f].items \in Seq(ToSet(doc.fields[f].items))
           /\ <<>> \in Texts /\ ItemTexts(doc.fields[f].items) \subseteq Texts
<1> DEFINE value == doc.fields[f]
<1>1. PICK node \in Nodes : node.is = "file" /\ doc = node.doc
  BY DEF Documents
<1>2. PICK s \in Situations : node \in Range(s.host) \cup {s.event.node}
  BY <1>1 DEF Nodes
<1>3. value.items \in Seq(ToSet(value.items))
  BY <1>1, <1>2, DocumentsAssumption, Zenon
<1>4. value \in ArraysOf(doc)
  BY DEF ArraysOf
<1> HIDE DEF value
<1>5. value \in Arrays
  BY <1>4 DEF Arrays
<1>6. <<>> \in Texts /\ ItemTexts(value.items) \subseteq Texts
  BY <1>5 DEF Texts
<1>7. QED
  BY <1>3, <1>6 DEF value

LEMMA LayerIsLayer ==
    ASSUME NEW doc \in Documents, NEW fields, DOMAIN fields \subseteq Nat, NEW modern,
           Parse(doc, fields, modern) = "ok"
    PROVE  IsLayer(Layer(doc, fields, modern))
<1> DEFINE present == Present(doc, fields, modern) \ {"engine.platform_to_oci_runtime"}
           strings == {f \in present : IsText(f)}
           layered == present \ strings
           lists == [f \in layered |-> ListLayer(f, doc.fields[f])]
           layer == Layer(doc, fields, modern)
<1>1. layer.lists = lists
  <2> DEFINE Valid(f) == Acceptable(f, doc.fields[f].text)
                         /\ (f \in DOMAIN ChoiceTexts => doc.fields[f].text \in ChoiceTexts[f] \cup {<<>>})
             texts == [f \in strings |-> [value |-> IF Valid(f) THEN doc.fields[f].text ELSE <<>>,
                                          invalid |-> ~Valid(f)]]
             overrides == "engine.platform_to_oci_runtime" \in Present(doc, fields, modern)
  <2>1. layer = [strings |-> texts, lists |-> lists, overrides |-> overrides]
    BY Zenon DEF Layer
  <2> HIDE DEF layer, texts, lists, overrides
  <2>2. QED
    BY <2>1
<1>2. ASSUME NEW f \in layered PROVE ListLayer(f, doc.fields[f]).values \in Seq(Texts)
  <2>1. f \in Present(doc, fields, modern) /\ f # "engine.platform_to_oci_runtime" /\ ~IsText(f)
    OBVIOUS
  <2>2. f \in DOMAIN doc.fields
    BY <2>1 DEF Present
  <2> DEFINE value == doc.fields[f]
  <2>3. FieldProblem(f, value) = "ok"
    BY <2>1, ParsedFields
  <2>4. value.is = "list"
    BY <2>1, <2>3, ParsedLists
  <2>5. value.items \in Seq(ToSet(value.items))
    BY <2>2, <2>4, ArrayItems
  <2>6. <<>> \in Texts /\ ItemTexts(value.items) \subseteq Texts
    BY <2>2, <2>4, ArrayItems
  <2> HIDE DEF value, layered
  <2>7. ListLayer(f, value).values \in Seq(Texts)
    BY <2>5, <2>6, ListLayerValues
  <2>8. QED
    BY <2>7 DEF value
<1> HIDE DEF layered
<1>3. DOMAIN lists = layered /\ \A f \in layered : lists[f] = ListLayer(f, doc.fields[f])
  OBVIOUS
<1> HIDE DEF lists, layer
<1>4. IsLayer(layer)
  BY <1>1, <1>2, <1>3, Zenon DEF IsLayer
<1>5. QED
  BY <1>4 DEF layer

-----------------------------------------------------------------------------
(* A family (engine or network): its sources, read as layers, and what it  *)
(* made of them.                                                           *)
LayersOf(sources) == [i \in DOMAIN sources |->
                        IF sources[i].applied THEN sources[i].layer ELSE NoLayer]

IsSequence(s) == \E S : s \in Seq(S)

HasParts(c) == {"sources", "config", "applicable"} \subseteq DOMAIN c

Sound(c, defaults) ==
    /\ HasParts(c) /\ IsSequence(c.sources)
    /\ IsStack(Texts, LayersOf(c.sources))
    /\ Means(c.config, defaults, LayersOf(c.sources))
    /\ c.applicable => \A i \in DOMAIN c.sources : c.sources[i].status \in Settled
    /\ \A i \in DOMAIN c.sources : c.sources[i].applied =>
         \A j \in 1..i : c.sources[j].status \in Settled

(* The steps of a family: nothing new, a source that is only recorded, or  *)
(* one that is applied.                                                    *)
Same(c, d) ==
    /\ HasParts(d) /\ d.sources = c.sources /\ d.config = c.config
    /\ d.applicable => c.applicable

Records(c, d, s) ==
    /\ HasParts(d) /\ d.sources = Append(c.sources, s) /\ d.config = c.config
    /\ ~s.applied /\ (d.applicable => c.applicable /\ s.status \in Settled)

Applies(c, d, s) ==
    /\ HasParts(d) /\ d.sources = Append(c.sources, s)
    /\ c.applicable /\ s.applied /\ s.status \in Settled /\ IsLayer(s.layer)
    /\ d.config.strings = mergeString(c.config.strings, s.layer.strings, Len(d.sources))
    /\ d.config.lists = MergeLists(c.config.lists, s.layer.lists, Len(d.sources))

LEMMA NoLayerIs == NoLayer.strings = <<>> /\ NoLayer.lists = <<>> /\ IsLayer(NoLayer)
BY DEF NoLayer, IsLayer

LEMMA OneSourceMore ==
    ASSUME NEW sources, IsSequence(sources), NEW s
    PROVE  LET more == Append(sources, s) IN
           /\ IsSequence(more) /\ Len(sources) \in Nat /\ Len(more) = Len(sources) + 1
           /\ DOMAIN sources = 1..Len(sources) /\ DOMAIN more = 1..(Len(sources) + 1)
           /\ more[Len(sources) + 1] = s /\ \A i \in 1..Len(sources) : more[i] = sources[i]
<1>1. PICK S : sources \in Seq(S)
  BY DEF IsSequence
<1> DEFINE T == S \cup {s}
           more == Append(sources, s)
<1>2. sources \in Seq(T) /\ s \in T
  BY <1>1
<1> HIDE DEF T
<1>3. /\ more \in Seq(T) /\ Len(sources) \in Nat /\ Len(more) = Len(sources) + 1
      /\ DOMAIN sources = 1..Len(sources) /\ DOMAIN more = 1..(Len(sources) + 1)
      /\ more[Len(sources) + 1] = s /\ \A i \in 1..Len(sources) : more[i] = sources[i]
  BY <1>2
<1>4. IsSequence(more)
  BY <1>3, Zenon DEF IsSequence
<1>5. QED
  BY <1>3, <1>4

LEMMA OneLayerMore ==
    ASSUME NEW sources, IsSequence(sources), IsStack(Texts, LayersOf(sources)), NEW s,
           NEW layer, IsLayer(layer), layer = IF s.applied THEN s.layer ELSE NoLayer
    PROVE  /\ OneMore(LayersOf(sources), LayersOf(Append(sources, s)), layer)
           /\ IsStack(Texts, LayersOf(Append(sources, s)))
           /\ Len(LayersOf(sources)) = Len(sources)
<1> DEFINE more == Append(sources, s)
           n == Len(sources)
           of(x) == IF x.applied THEN x.layer ELSE NoLayer
           old == LayersOf(sources)
           new == LayersOf(more)
<1>1. /\ n \in Nat /\ DOMAIN sources = 1..n /\ DOMAIN more = 1..(n + 1)
      /\ more[n + 1] = s /\ \A i \in 1..n : more[i] = sources[i]
  BY OneSourceMore
<1> HIDE DEF n, more
<1>2. old = [i \in 1..n |-> of(sources[i])] /\ new = [i \in 1..(n + 1) |-> of(more[i])]
  BY <1>1, Zenon DEF LayersOf
<1>3. layer = of(s)
  OBVIOUS
<1> HIDE DEF of, old, new
<1>4. Len(old) = n /\ DOMAIN old = 1..n /\ Len(new) = n + 1 /\ DOMAIN new = 1..(n + 1)
  <2>1. n + 1 \in Nat /\ \A i \in 1..n : of(sources[i]) \in {of(sources[j]) : j \in 1..n}
    BY <1>1
  <2> DEFINE earlier(i) == of(sources[i])
             all == {of(sources[j]) : j \in 1..n}
  <2>2. Len([i \in 1..n |-> earlier(i)]) = n
    <3>1. \A i \in 1..n : earlier(i) \in all
      BY <2>1
    <3> HIDE DEF earlier, all
    <3>2. QED
      BY <1>1, <3>1, IsASeq
  <2>3. \A i \in 1..(n + 1) : of(more[i]) \in {of(more[j]) : j \in 1..(n + 1)}
    OBVIOUS
  <2> DEFINE k == n + 1
  <2>4. k \in Nat /\ \A i \in 1..k : of(more[i]) \in {of(more[j]) : j \in 1..k}
    BY <2>1, <2>3
  <2> HIDE DEF k
  <2>5. Len([i \in 1..k |-> of(more[i])]) = k
    BY <2>4, IsASeq
  <2>6. Len(old) = n /\ Len(new) = n + 1
    BY <1>2, <2>2, <2>5 DEF k
  <2>7. DOMAIN old = 1..n /\ DOMAIN new = 1..(n + 1)
    BY <1>2
  <2>8. QED
    BY <2>6, <2>7
<1>5. new[n + 1] = layer /\ \A i \in 1..n : new[i] = old[i]
  <2>1. n + 1 \in 1..(n + 1) /\ \A i \in 1..n : i \in 1..(n + 1)
    BY <1>1
  <2>2. \A i \in 1..(n + 1) : new[i] = of(more[i])
    BY <1>2
  <2>3. \A i \in 1..n : old[i] = of(sources[i])
    BY <1>2
  <2>4. QED
    BY <1>1, <1>3, <2>1, <2>2, <2>3
<1>6. OneMore(old, new, layer)
  BY <1>1, <1>4, <1>5, Zenon DEF OneMore
<1>7. IsStack(Texts, new)
  <2>1. Len(new) \in Nat /\ DOMAIN new = 1..Len(new)
    BY <1>1, <1>4
  <2>2. ASSUME NEW i \in DOMAIN new, NEW f \in DOMAIN new[i].lists
        PROVE  new[i].lists[f].values \in Seq(Texts)
    <3>1. CASE i = n + 1
      BY <1>5, <2>2, <3>1, Zenon DEF IsLayer
    <3>2. CASE i \in 1..n
      <4>1. new[i] = old[i] /\ i \in DOMAIN old
        BY <1>4, <1>5, <3>2
      <4>2. \A g \in DOMAIN old[i].lists : old[i].lists[g].values \in Seq(Texts)
        BY <4>1 DEF IsStack, old
      <4>3. QED
        BY <2>2, <4>1, <4>2, Zenon
    <3>3. QED
      BY <1>1, <1>4, <3>1, <3>2
  <2>3. QED
    BY <2>1, <2>2, Zenon DEF IsStack
<1>8. QED
  BY <1>4, <1>6, <1>7 DEF old, new, more, n

LEMMA SameSound ==
    ASSUME NEW c, NEW d, NEW defaults, Sound(c, defaults), Same(c, d)
    PROVE  Sound(d, defaults)
BY Zenon DEF Sound, Same

LEMMA StatusesSound ==
    ASSUME NEW c, NEW d, NEW defaults, NEW s, Sound(c, defaults), d.sources = Append(c.sources, s),
           s.applied => c.applicable /\ s.status \in Settled,
           d.applicable => c.applicable /\ s.status \in Settled
    PROVE  /\ d.applicable => \A i \in DOMAIN d.sources : d.sources[i].status \in Settled
           /\ \A i \in DOMAIN d.sources : d.sources[i].applied =>
                \A j \in 1..i : d.sources[j].status \in Settled
<1> DEFINE n == Len(c.sources)
           old == c.sources
           new == d.sources
           ok(x) == x.status \in Settled
<1>1. /\ n \in Nat /\ DOMAIN old = 1..n /\ DOMAIN new = 1..(n + 1)
      /\ new[n + 1] = s /\ \A i \in 1..n : new[i] = old[i]
  <2>1. IsSequence(old)
    BY Zenon DEF Sound
  <2> DEFINE more == Append(c.sources, s)
  <2>2. /\ n \in Nat /\ DOMAIN old = 1..n /\ DOMAIN more = 1..(n + 1)
        /\ more[n + 1] = s /\ \A i \in 1..n : more[i] = old[i]
    BY <2>1, OneSourceMore
  <2>3. new = more
    OBVIOUS
  <2> HIDE DEF more, n, old, new
  <2>4. QED
    BY <2>2, <2>3
<1>2. /\ c.applicable => \A i \in DOMAIN old : ok(old[i])
      /\ \A i \in DOMAIN old : old[i].applied => \A j \in 1..i : ok(old[j])
  BY Zenon DEF Sound
<1>3. /\ s.applied => c.applicable /\ ok(s)
      /\ d.applicable => c.applicable /\ ok(s)
  OBVIOUS
<1> HIDE DEF n, old, new, ok
<1>4. ASSUME c.applicable, ok(s), NEW i \in 1..(n + 1) PROVE ok(new[i])
  <2>1. CASE i = n + 1
    BY <1>1, <1>4, <2>1, Zenon
  <2>2. CASE i # n + 1
    <3>1. i \in 1..n
      BY <1>1, <2>2
    <3>2. ok(old[i]) /\ new[i] = old[i]
      BY <1>1, <1>2, <1>4, <3>1
    <3>3. QED
      BY <3>2, Zenon
  <2>3. QED
    BY <2>1, <2>2
<1>5. d.applicable => \A i \in DOMAIN new : ok(new[i])
  BY <1>1, <1>3, <1>4
<1>6. ASSUME NEW i \in DOMAIN new, new[i].applied, NEW j \in 1..i PROVE ok(new[j])
  <2>1. i \in 1..(n + 1) /\ j \in 1..(n + 1)
    BY <1>1
  <2>2. CASE i = n + 1
    <3>1. s.applied
      BY <1>1, <1>6, <2>2, Zenon
    <3>2. QED
      BY <1>3, <1>4, <2>1, <3>1
  <2>3. CASE i # n + 1
    <3>1. i \in 1..n /\ j \in 1..n
      BY <1>1, <2>1, <2>3
    <3>2. new[i] = old[i] /\ new[j] = old[j] /\ i \in DOMAIN old
      BY <1>1, <3>1
    <3>3. old[i].applied
      BY <1>6, <3>2, Zenon
    <3>4. ok(old[j])
      BY <1>2, <3>2, <3>3
    <3>5. QED
      BY <3>2, <3>4, Zenon
  <2>4. QED
    BY <2>2, <2>3
<1>7. QED
  BY <1>5, <1>6 DEF ok, new

LEMMA RecordsSound ==
    ASSUME NEW c, NEW d, NEW defaults, NEW s, Sound(c, defaults), Records(c, d, s)
    PROVE  Sound(d, defaults)
<1> DEFINE old == LayersOf(c.sources)
           new == LayersOf(Append(c.sources, s))
<1>1. /\ IsSequence(c.sources) /\ IsStack(Texts, LayersOf(c.sources))
      /\ Means(c.config, defaults, LayersOf(c.sources))
  BY Zenon DEF Sound
<1>2. /\ HasParts(d) /\ d.sources = Append(c.sources, s) /\ d.config = c.config
      /\ ~s.applied /\ (d.applicable => c.applicable /\ s.status \in Settled)
  BY Zenon DEF Records
<1>3. IsLayer(NoLayer)
  BY NoLayerIs
<1>4. NoLayer = IF s.applied THEN s.layer ELSE NoLayer
  BY <1>2
<1>5. OneMore(old, new, NoLayer) /\ IsStack(Texts, new)
  BY <1>1, <1>3, <1>4, OneLayerMore
<1>6. IsSequence(d.sources)
  BY <1>1, <1>2, OneSourceMore
<1>7. Means(c.config, defaults, new)
  <2> DEFINE config == c.config
  <2> HIDE DEF old, new, config
  <2>1. DOMAIN NoLayer.strings = {} /\ DOMAIN NoLayer.lists = {}
    BY NoLayerIs
  <2>2. TextFields(new) = TextFields(old) /\ ListFields(new) = ListFields(old)
    BY <1>5, <2>1, FieldsOneMore
  <2>3. /\ DOMAIN config.strings = TextFields(old) \cup DOMAIN defaults.strings
        /\ DOMAIN config.lists = ListFields(old) \cup DOMAIN defaults.lists
        /\ \A f \in TextFields(old) : TextSays(config.strings[f], old, f)
        /\ \A f : Says(ListOf(config.lists, f), old, f, f \in DOMAIN defaults.lists)
    BY <1>1, Zenon DEF Means, old, config
  <2>4. ASSUME NEW f \in TextFields(old) PROVE TextSays(config.strings[f], new, f)
    <3>1. f \notin DOMAIN NoLayer.strings
      BY <2>1
    <3>2. /\ EffectiveText(new, f) = EffectiveText(old, f)
          /\ Max(Setters(new, "strings", f)) = Max(Setters(old, "strings", f))
      BY <1>5, <3>1, TextOneMore
    <3>3. QED
      BY <2>3, <3>2, Zenon DEF TextSays
  <2>5. ASSUME NEW f PROVE Says(ListOf(config.lists, f), new, f, f \in DOMAIN defaults.lists)
    <3> DEFINE list == ListOf(config.lists, f)
               defaulted == f \in DOMAIN defaults.lists
    <3>1. f \notin DOMAIN NoLayer.lists /\ IsStack(Texts, old)
      BY <1>1, <2>1 DEF old
    <3>2. Says(list, old, f, defaulted)
      BY <2>3
    <3> HIDE DEF list, defaulted
    <3>3. Says(list, new, f, defaulted)
      BY <1>5, <3>1, <3>2, UntouchedListSays
    <3>4. QED
      BY <3>3 DEF list, defaulted
  <2>6. Means(config, defaults, new)
    BY <2>2, <2>3, <2>4, <2>5, Zenon DEF Means
  <2>7. QED
    BY <2>6 DEF config
<1>8. /\ d.applicable => \A i \in DOMAIN d.sources : d.sources[i].status \in Settled
      /\ \A i \in DOMAIN d.sources : d.sources[i].applied =>
           \A j \in 1..i : d.sources[j].status \in Settled
  BY <1>2, StatusesSound
<1>9. QED
  BY <1>2, <1>5, <1>6, <1>7, <1>8, Zenon DEF Sound

LEMMA AppliesSound ==
    ASSUME NEW c, NEW d, NEW defaults, NEW s, Sound(c, defaults), Applies(c, d, s)
    PROVE  Sound(d, defaults)
<1> DEFINE old == LayersOf(c.sources)
           new == LayersOf(Append(c.sources, s))
           layer == s.layer
           config == c.config
           merged == d.config
<1>1. /\ IsSequence(c.sources) /\ IsStack(Texts, LayersOf(c.sources))
      /\ Means(c.config, defaults, LayersOf(c.sources))
  BY Zenon DEF Sound
<1>2. /\ HasParts(d) /\ d.sources = Append(c.sources, s)
      /\ c.applicable /\ s.applied /\ s.status \in Settled /\ IsLayer(s.layer)
      /\ d.config.strings = mergeString(c.config.strings, s.layer.strings, Len(d.sources))
      /\ d.config.lists = MergeLists(c.config.lists, s.layer.lists, Len(d.sources))
  BY Zenon DEF Applies
<1>3. layer = IF s.applied THEN s.layer ELSE NoLayer
  BY <1>2
<1>4. OneMore(old, new, layer) /\ IsStack(Texts, new) /\ Len(old) = Len(c.sources)
  <2>1. IsLayer(layer)
    BY <1>2
  <2> HIDE DEF layer
  <2>2. QED
    BY <1>1, <1>3, <2>1, OneLayerMore
<1>5. IsSequence(d.sources) /\ Len(d.sources) = Len(old) + 1
  BY <1>1, <1>2, <1>4, OneSourceMore
<1>6. Means(merged, defaults, new)
  <2>1. /\ merged.strings = mergeString(config.strings, layer.strings, Len(old) + 1)
        /\ merged.lists = MergeLists(config.lists, layer.lists, Len(old) + 1)
    BY <1>2, <1>5, Zenon
  <2>2. IsStack(Texts, old) /\ Means(config, defaults, old)
    BY <1>1
  <2> HIDE DEF old, new, layer, config, merged
  <2>3. QED
    BY <1>4, <2>1, <2>2, MergeMeans
<1>7. /\ d.applicable => \A i \in DOMAIN d.sources : d.sources[i].status \in Settled
      /\ \A i \in DOMAIN d.sources : d.sources[i].applied =>
           \A j \in 1..i : d.sources[j].status \in Settled
  BY <1>2, StatusesSound
<1>8. QED
  BY <1>2, <1>4, <1>5, <1>6, <1>7, Zenon DEF Sound, merged

-----------------------------------------------------------------------------
(* The collector's steps are steps of its families.                        *)
FamilyStep(c, d) == Same(c, d) \/ (\E s : Records(c, d, s)) \/ (\E s : Applies(c, d, s))

LEMMA FamilyStepSound ==
    ASSUME NEW c, NEW d, NEW defaults, Sound(c, defaults), FamilyStep(c, d)
    PROVE  Sound(d, defaults)
<1>1. CASE Same(c, d)
  BY <1>1, SameSound
<1>2. ASSUME NEW s, Records(c, d, s) PROVE Sound(d, defaults)
  BY <1>2, RecordsSound
<1>3. ASSUME NEW s, Applies(c, d, s) PROVE Sound(d, defaults)
  BY <1>3, AppliesSound
<1>4. QED
  BY <1>1, <1>2, <1>3, Zenon DEF FamilyStep

Alike(c, e) == e.sources = c.sources /\ e.config = c.config /\ (e.applicable <=> c.applicable)

LEMMA StepOfAlike ==
    ASSUME NEW c, NEW e, NEW d, Alike(c, e), FamilyStep(e, d)
    PROVE  FamilyStep(c, d)
<1>1. CASE Same(e, d)
  BY <1>1, Zenon DEF Same, Alike, FamilyStep
<1>2. ASSUME NEW s, Records(e, d, s) PROVE Records(c, d, s)
  BY <1>2, Zenon DEF Records, Alike
<1>3. ASSUME NEW s, Applies(e, d, s) PROVE Applies(c, d, s)
  BY <1>3, Zenon DEF Applies, Alike
<1>4. QED
  BY <1>1, <1>2, <1>3, Zenon DEF FamilyStep

LEMMA SourceIs ==
    ASSUME NEW p, NEW status, NEW selected
    PROVE  /\ Source(p, status).status = status /\ ~Source(p, status).applied
           /\ [Source(p, status) EXCEPT !.selected = selected].status = status
           /\ ~[Source(p, status) EXCEPT !.selected = selected].applied
BY DEF Source

LEMMA ReadFailureIs ==
    ASSUME NEW c, HasParts(c)
    PROVE  /\ HasParts(readFailure(c)) /\ ~readFailure(c).applicable
           /\ readFailure(c).sources = c.sources /\ readFailure(c).config = c.config
BY DEF HasParts, readFailure

(* What retain makes of a source that is only recorded. *)
Retained(c, source) == [c EXCEPT !.sources = Append(@, source)]

LEMMA RetainedRecords ==
    ASSUME NEW c, HasParts(c), NEW e, HasParts(e), e.sources = c.sources, e.config = c.config,
           NEW s, ~s.applied, e.applicable => c.applicable /\ s.status \in Settled
    PROVE  Records(c, Retained(e, s), s)
<1> DEFINE d == [e EXCEPT !.sources = Append(@, s)]
           more == Append(e.sources, s)
<1>1. d = [e EXCEPT !.sources = more]
  OBVIOUS
<1> HIDE DEF d, more
<1>2. HasParts(d) /\ d.sources = more /\ d.config = e.config /\ (d.applicable <=> e.applicable)
  BY <1>1 DEF HasParts
<1>3. Records(c, d, s)
  BY <1>2, Zenon DEF Records, more
<1>4. QED
  BY <1>3, Zenon DEF d, Retained

LEMMA NetworkRetainRecords ==
    ASSUME HasParts(network), NEW s, ~s.applied
    PROVE  Records(network, NetworkRetain(s), s)
<1> DEFINE n == Retained(network, s)
           incomplete == [n EXCEPT !.complete = FALSE]
<1>1. /\ HasParts(n) /\ n.sources = Append(network.sources, s) /\ n.config = network.config
      /\ n.applicable <=> network.applicable
  <2> DEFINE more == Append(network.sources, s)
  <2>1. n = [network EXCEPT !.sources = more]
    BY DEF Retained
  <2> HIDE DEF n, more
  <2>2. HasParts(n) /\ n.sources = more /\ n.config = network.config
        /\ (n.applicable <=> network.applicable)
    BY <2>1 DEF HasParts
  <2>3. QED
    BY <2>2 DEF more
<1>2. NetworkRetain(s) =
        CASE s.status \in {"listed", "absent", "symlink_skipped"} -> n
          [] s.status \in {"stat_denied", "stat_incomplete"} -> incomplete
          [] OTHER -> readFailure(n)
  BY Zenon DEF NetworkRetain, Retained
<1> HIDE DEF n
<1>3. CASE s.status \in {"listed", "absent", "symlink_skipped"}
  <2>1. NetworkRetain(s) = n
    BY <1>2, <1>3
  <2>2. s.status \in Settled
    BY <1>3 DEF Settled
  <2>3. QED
    BY <1>1, <2>1, <2>2, Zenon DEF Records
<1>4. CASE s.status \in {"stat_denied", "stat_incomplete"}
  <2>1. NetworkRetain(s) = incomplete
    BY <1>2, <1>4
  <2>2. s.status \in Settled
    BY <1>4 DEF Settled
  <2>3. /\ HasParts(incomplete) /\ incomplete.sources = n.sources /\ incomplete.config = n.config
        /\ incomplete.applicable <=> n.applicable
    BY <1>1 DEF HasParts
  <2> HIDE DEF incomplete
  <2>4. QED
    BY <1>1, <2>1, <2>2, <2>3, Zenon DEF Records
<1>5. CASE s.status \notin {"listed", "absent", "symlink_skipped", "stat_denied", "stat_incomplete"}
  <2>1. NetworkRetain(s) = readFailure(n)
    BY <1>2, <1>5
  <2>2. /\ HasParts(readFailure(n)) /\ ~readFailure(n).applicable
        /\ readFailure(n).sources = n.sources /\ readFailure(n).config = n.config
    BY <1>1, ReadFailureIs
  <2>3. QED
    BY <1>1, <2>1, <2>2, Zenon DEF Records
<1>6. QED
  BY <1>3, <1>4, <1>5

LEMMA RetainSteps ==
    ASSUME HasParts(engine), HasParts(network), NEW e, NEW s, Retain(e, s), ~s.applied,
           HasParts(e), e.sources = engine.sources, e.config = engine.config,
           e.applicable => engine.applicable /\ s.status \in Settled
    PROVE  FamilyStep(engine, engine') /\ FamilyStep(network, network')
<1>1. engine' = Retained(e, s) /\ network' = NetworkRetain(s)
  BY Zenon DEF Retain, Retained
<1>2. Records(engine, Retained(e, s), s)
  BY RetainedRecords
<1>3. Records(network, NetworkRetain(s), s)
  BY NetworkRetainRecords
<1>4. QED
  BY <1>1, <1>2, <1>3, Zenon DEF FamilyStep

(* The projection of the bytes by a family, in terms of its parser and its *)
(* merge.                                                                  *)
LEMMA ProjectionSteps ==
    ASSUME NEW c, HasParts(c), NEW p, NEW problem, NEW layer,
           problem = "ok" => IsLayer(layer), NEW merged,
           merged.strings = mergeString(c.config.strings, layer.strings, Len(c.sources) + 1),
           merged.lists = MergeLists(c.config.lists, layer.lists, Len(c.sources) + 1),
           IsSequence(c.sources)
    PROVE  LET n == Retained(c, ParsedSource(p, problem, layer, c.applicable))
           IN  FamilyStep(c, CASE problem = "ok" -> IF ~c.applicable THEN n
                                                    ELSE [n EXCEPT !.config = merged]
                               [] problem \in {"malformed", "invalid"} ->
                                    [n EXCEPT !.parse = FALSE, !.applicable = FALSE]
                               [] OTHER -> readFailure(n))
<1> DEFINE s == ParsedSource(p, problem, layer, c.applicable)
           n == Retained(c, s)
           more == Append(c.sources, s)
           applied == [n EXCEPT !.config = merged]
           refused == [n EXCEPT !.parse = FALSE, !.applicable = FALSE]
<1>1. /\ HasParts(n) /\ n.sources = more /\ n.config = c.config
      /\ n.applicable <=> c.applicable
  <2>1. n = [c EXCEPT !.sources = more]
    BY DEF Retained
  <2> HIDE DEF n, more
  <2>2. QED
    BY <2>1 DEF HasParts
<1>2. problem # "ok" => ~s.applied
  BY SourceIs DEF ParsedSource
<1>3. problem = "ok" => s.layer = layer /\ (s.applied <=> c.applicable) /\ s.status = "parsed"
  <2> DEFINE applicable == c.applicable
  <2>1. s = IF problem # "ok" THEN Source(p, problem)
            ELSE [Source(p, "parsed") EXCEPT !.layer = layer, !.applied = applicable]
    BY Zenon DEF ParsedSource
  <2> HIDE DEF s, applicable
  <2>2. problem = "ok" => s.layer = layer /\ s.applied = applicable /\ s.status = "parsed"
    BY <2>1 DEF Source
  <2>3. QED
    BY <2>2 DEF applicable
<1>4. CASE problem = "ok" /\ ~c.applicable
  <2>1. Records(c, n, s)
    BY <1>1, <1>3, <1>4, Zenon DEF Records
  <2> HIDE DEF n, s
  <2>2. FamilyStep(c, n)
    BY <2>1, Zenon DEF FamilyStep
  <2>3. QED
    BY <1>4, <2>2 DEF n, s
<1>5. CASE problem = "ok" /\ c.applicable
  <2>1. HasParts(applied) /\ applied.sources = n.sources /\ applied.config = merged
    <3> HIDE DEF n
    <3>1. QED
      BY <1>1 DEF HasParts
  <2>2. Len(more) = Len(c.sources) + 1
    BY OneSourceMore
  <2>3. "parsed" \in Settled
    BY DEF Settled
  <2> HIDE DEF applied, n, s, more
  <2>4. Applies(c, applied, s)
    BY <1>1, <1>3, <1>5, <2>1, <2>2, <2>3, Zenon DEF Applies, more
  <2>5. FamilyStep(c, applied)
    BY <2>4, Zenon DEF FamilyStep
  <2>6. QED
    BY <1>5, <2>5 DEF applied, n, s
<1>6. CASE problem \in {"malformed", "invalid"}
  <2>1. HasParts(refused) /\ refused.sources = n.sources /\ refused.config = n.config
        /\ ~refused.applicable
    <3> HIDE DEF n
    <3>1. QED
      BY <1>1 DEF HasParts
  <2>2. problem # "ok"
    BY <1>6
  <2> HIDE DEF refused, n, s
  <2>3. Records(c, refused, s)
    BY <1>1, <1>2, <2>1, <2>2, Zenon DEF Records, more
  <2>4. FamilyStep(c, refused)
    BY <2>3, Zenon DEF FamilyStep
  <2>5. QED
    BY <1>6, <2>2, <2>4 DEF refused, n, s
<1>7. CASE problem \notin {"ok", "malformed", "invalid"}
  <2>1. HasParts(readFailure(n)) /\ ~readFailure(n).applicable
        /\ readFailure(n).sources = n.sources /\ readFailure(n).config = n.config
    BY <1>1, ReadFailureIs
  <2>2. problem # "ok"
    BY <1>7
  <2> HIDE DEF n, s
  <2>3. Records(c, readFailure(n), s)
    BY <1>1, <1>2, <2>1, <2>2, Zenon DEF Records, more
  <2>4. FamilyStep(c, readFailure(n))
    BY <2>3, Zenon DEF FamilyStep
  <2>5. QED
    BY <1>7, <2>4 DEF n, s
<1>8. QED
  BY <1>4, <1>5, <1>6, <1>7

LEMMA EngineFieldsAreList == DOMAIN EngineFields \subseteq Nat
BY DEF EngineFields

LEMMA NetworkFieldsAreList == DOMAIN NetworkFields \subseteq Nat
BY DEF NetworkFields

LEMMA RetainedIs ==
    ASSUME NEW c, HasParts(c), IsSequence(c.sources), NEW s
    PROVE  /\ Retained(c, s).config = c.config
           /\ Len(Retained(c, s).sources) = Len(c.sources) + 1
<1> DEFINE more == Append(c.sources, s)
           n == Retained(c, s)
<1>1. n = [c EXCEPT !.sources = more]
  BY DEF Retained
<1>2. Len(more) = Len(c.sources) + 1
  BY OneSourceMore
<1> HIDE DEF more, n
<1>3. n.config = c.config /\ n.sources = more
  BY <1>1 DEF HasParts
<1>4. QED
  BY <1>2, <1>3 DEF n

LEMMA EngineFileSteps ==
    ASSUME NEW e, HasParts(e), IsSequence(e.sources), NEW doc \in Documents, NEW p
    PROVE  FamilyStep(e, EngineFile(e, doc, p))
<1> DEFINE problem == Parse(doc, EngineFields, TRUE)
           layer == Layer(doc, EngineFields, TRUE)
           n == Retained(e, ParsedSource(p, problem, layer, e.applicable))
           merged == MergeEngine(n.config, layer, Len(n.sources))
           config == n.config
           place == Len(n.sources)
           done == [n EXCEPT !.config = merged]
           file == CASE problem = "ok" -> IF ~e.applicable THEN n ELSE done
                     [] problem \in {"malformed", "invalid"} ->
                          [n EXCEPT !.parse = FALSE, !.applicable = FALSE]
                     [] OTHER -> readFailure(n)
<1>1. EngineFile(e, doc, p) = file
  <2>1. EngineFile(e, doc, p) =
          CASE problem = "ok" -> IF ~e.applicable THEN n
                                 ELSE [n EXCEPT !.config = MergeEngine(@, layer, Len(n.sources))]
            [] problem \in {"malformed", "invalid"} ->
                 [n EXCEPT !.parse = FALSE, !.applicable = FALSE]
            [] OTHER -> readFailure(n)
    BY Zenon DEF EngineFile, Retained
  <2> HIDE DEF n, layer, problem
  <2>2. [n EXCEPT !.config = MergeEngine(@, layer, Len(n.sources))] = done
    OBVIOUS
  <2>3. QED
    BY <2>1, <2>2, Zenon
<1>2. problem = "ok" => IsLayer(layer)
  BY EngineFieldsAreList, LayerIsLayer
<1>3. n.config = e.config /\ Len(n.sources) = Len(e.sources) + 1
  BY RetainedIs
<1>4. /\ merged.strings = mergeString(e.config.strings, layer.strings, Len(e.sources) + 1)
      /\ merged.lists = MergeLists(e.config.lists, layer.lists, Len(e.sources) + 1)
  <2> DEFINE texts == mergeString(config.strings, layer.strings, place)
             lists == MergeLists(config.lists, layer.lists, place)
             overrides == config.overrides \/ layer.overrides
  <2>1. merged = [strings |-> texts, lists |-> lists, overrides |-> overrides]
    BY Zenon DEF MergeEngine
  <2> HIDE DEF merged, texts, lists, overrides, n, layer, config, place
  <2>2. merged.strings = texts /\ merged.lists = lists
    BY <2>1
  <2>3. QED
    BY <1>3, <2>2, Zenon DEF texts, lists, config, place
<1> HIDE DEF problem, layer, merged
<1>5. FamilyStep(e, file)
  BY <1>2, <1>4, ProjectionSteps, Zenon
<1>6. QED
  BY <1>1, <1>5, Zenon

LEMMA NetworkFileSteps ==
    ASSUME HasParts(network), IsSequence(network.sources), NEW doc \in Documents, NEW p
    PROVE  FamilyStep(network, NetworkFile(doc, p))
<1> DEFINE modern == ~legacy
           problem == Parse(doc, NetworkFields, ~legacy)
           layer == Layer(doc, NetworkFields, ~legacy)
           n == Retained(network, ParsedSource(p, problem, layer, network.applicable))
           merged == MergeNetwork(n.config, layer, Len(n.sources))
           config == n.config
           place == Len(n.sources)
           done == [n EXCEPT !.config = merged]
           file == CASE problem = "ok" -> IF ~network.applicable THEN n ELSE done
                     [] problem \in {"malformed", "invalid"} ->
                          [n EXCEPT !.parse = FALSE, !.applicable = FALSE]
                     [] OTHER -> readFailure(n)
<1>1. NetworkFile(doc, p) = file
  <2>1. NetworkFile(doc, p) =
          CASE problem = "ok" -> IF ~network.applicable THEN n
                                 ELSE [n EXCEPT !.config = MergeNetwork(@, layer, Len(n.sources))]
            [] problem \in {"malformed", "invalid"} ->
                 [n EXCEPT !.parse = FALSE, !.applicable = FALSE]
            [] OTHER -> readFailure(n)
    BY Zenon DEF NetworkFile, Retained
  <2> HIDE DEF n, layer, problem
  <2>2. [n EXCEPT !.config = MergeNetwork(@, layer, Len(n.sources))] = done
    OBVIOUS
  <2>3. QED
    BY <2>1, <2>2, Zenon
<1>2. problem = "ok" => IsLayer(layer)
  BY NetworkFieldsAreList, LayerIsLayer
<1>3. n.config = network.config /\ Len(n.sources) = Len(network.sources) + 1
  BY RetainedIs
<1>4. /\ merged.strings = mergeString(network.config.strings, layer.strings, Len(network.sources) + 1)
      /\ merged.lists = MergeLists(network.config.lists, layer.lists, Len(network.sources) + 1)
  <2> DEFINE texts == mergeString(config.strings, layer.strings, place)
             lists == MergeLists(config.lists, layer.lists, place)
             overrides == config.overrides
  <2>1. merged = [strings |-> texts, lists |-> lists, overrides |-> overrides]
    BY Zenon DEF MergeNetwork
  <2> HIDE DEF merged, texts, lists, overrides, n, layer, config, place
  <2>2. merged.strings = texts /\ merged.lists = lists
    BY <2>1
  <2>3. QED
    BY <1>3, <2>2, Zenon DEF texts, lists, config, place
<1> HIDE DEF problem, layer, merged
<1>5. FamilyStep(network, file)
  BY <1>2, <1>4, ProjectionSteps, Zenon
<1>6. QED
  BY <1>1, <1>5, Zenon

-----------------------------------------------------------------------------
(* The steps of EngineNext are steps of the two families.                  *)
Kept2(c, e) == HasParts(e) /\ e.sources = c.sources /\ e.config = c.config

FamiliesStep == FamilyStep(engine, engine') /\ FamilyStep(network, network')

Families ==
    /\ HasParts(engine) /\ HasParts(network)
    /\ IsSequence(engine.sources) /\ IsSequence(network.sources)

HostsKnown ==
    /\ \A p \in DOMAIN host : host[p] \in Nodes
    /\ event = [is |-> event.is, path |-> event.path, node |-> event.node, fired |-> event.fired]
    /\ event.node \in Nodes

LEMMA FieldsTouched ==
    ASSUME NEW c, HasParts(c), NEW v
    PROVE  /\ Kept2(c, [c EXCEPT !.bytes = v]) /\ ([c EXCEPT !.bytes = v].applicable <=> c.applicable)
           /\ Kept2(c, [c EXCEPT !.files = v]) /\ ([c EXCEPT !.files = v].applicable <=> c.applicable)
           /\ Kept2(c, [c EXCEPT !.complete = v])
           /\ [c EXCEPT !.complete = v].applicable <=> c.applicable
BY DEF HasParts, Kept2

LEMMA FailuresTouched ==
    ASSUME NEW c, HasParts(c)
    PROVE  /\ Kept2(c, readFailure(c)) /\ ~readFailure(c).applicable
           /\ Kept2(c, [readFailure(c) EXCEPT !.selection = FALSE])
           /\ ~[readFailure(c) EXCEPT !.selection = FALSE].applicable
           /\ Kept2(c, [readFailure(c) EXCEPT !.selection = FALSE, !.limit = TRUE])
           /\ ~[readFailure(c) EXCEPT !.selection = FALSE, !.limit = TRUE].applicable
<1> DEFINE d == readFailure(c)
<1>1. HasParts(d) /\ ~d.applicable /\ d.sources = c.sources /\ d.config = c.config
  BY ReadFailureIs
<1> HIDE DEF d
<1>2. /\ Kept2(c, d) /\ ~d.applicable
      /\ Kept2(c, [d EXCEPT !.selection = FALSE])
      /\ ~[d EXCEPT !.selection = FALSE].applicable
  BY <1>1 DEF HasParts, Kept2
<1>3. /\ Kept2(c, [d EXCEPT !.selection = FALSE, !.limit = TRUE])
      /\ ~[d EXCEPT !.selection = FALSE, !.limit = TRUE].applicable
  BY <1>1 DEF HasParts, Kept2
<1>4. QED
  BY <1>2, <1>3 DEF d

LEMMA SameSteps ==
    ASSUME NEW c, HasParts(c), NEW e, Kept2(c, e), e.applicable => c.applicable
    PROVE  FamilyStep(c, e)
BY Zenon DEF Kept2, Same, FamilyStep

LEMMA SameSelf ==
    ASSUME NEW c, HasParts(c)
    PROVE  FamilyStep(c, c)
BY Zenon DEF Same, FamilyStep

LEMMA UnchangedSteps ==
    ASSUME Families, UNCHANGED <<engine, network>>
    PROVE  FamiliesStep
<1>1. engine' = engine /\ network' = network /\ HasParts(engine) /\ HasParts(network)
  BY DEF Families
<1>2. FamilyStep(engine, engine) /\ FamilyStep(network, network)
  BY <1>1, SameSelf
<1>3. QED
  BY <1>1, <1>2, Zenon DEF FamiliesStep

LEMMA RetainedSteps ==
    ASSUME Families, NEW e, Kept2(engine, e), NEW s, Retain(e, s), ~s.applied,
           e.applicable => engine.applicable /\ s.status \in Settled
    PROVE  FamiliesStep
<1>1. HasParts(e) /\ e.sources = engine.sources /\ e.config = engine.config
  BY Zenon DEF Kept2
<1>2. HasParts(engine) /\ HasParts(network)
  BY Zenon DEF Families
<1>3. QED
  BY <1>1, <1>2, RetainSteps DEF FamiliesStep

LEMMA OverLimitSteps ==
    ASSUME Families, NEW e, Kept2(engine, e), NEW p, OverLimit(e, p)
    PROVE  FamiliesStep
<1> DEFINE d == [readFailure(e) EXCEPT !.selection = FALSE, !.limit = TRUE]
           s == Source(p, "limit")
<1>1. Kept2(e, d) /\ ~d.applicable
  BY FailuresTouched, Zenon DEF Kept2
<1>2. Kept2(engine, d)
  BY <1>1, Zenon DEF Kept2
<1>3. ~s.applied
  BY SourceIs
<1>4. Retain(d, s)
  BY Zenon DEF OverLimit
<1> HIDE DEF d, s
<1>5. QED
  BY <1>1, <1>2, <1>3, <1>4, RetainedSteps

LEMMA AbandonSteps ==
    ASSUME Families, Abandon
    PROVE  FamiliesStep
<1> DEFINE e == [engine EXCEPT !.selection = FALSE, !.parse = FALSE, !.complete = FALSE]
<1>1. engine' = e /\ network' = network
  BY DEF Abandon
<1>2. HasParts(engine) /\ HasParts(network)
  BY Zenon DEF Families
<1>3. Kept2(engine, e) /\ (e.applicable <=> engine.applicable)
  BY <1>2 DEF HasParts, Kept2
<1> HIDE DEF e
<1>4. FamilyStep(engine, e) /\ FamilyStep(network, network)
  BY <1>2, <1>3, SameSteps, SameSelf
<1>5. QED
  BY <1>1, <1>4, Zenon DEF FamiliesStep

LEMMA BeginFileSteps ==
    ASSUME Families, BeginFile
    PROVE  FamiliesStep
<1> DEFINE item == Head(agenda)
           v == engine.files + 1
           e == [engine EXCEPT !.files = v]
<1>1. OverLimit(e, item.path) \/ (engine' = e /\ network' = network)
  BY DEF BeginFile
<1>2. HasParts(engine) /\ HasParts(network)
  BY Zenon DEF Families
<1>3. Kept2(engine, e) /\ (e.applicable <=> engine.applicable)
  BY <1>2, FieldsTouched
<1> HIDE DEF e, item
<1>4. CASE OverLimit(e, item.path)
  BY <1>3, <1>4, OverLimitSteps
<1>5. CASE engine' = e /\ network' = network
  <2>1. FamilyStep(engine, e) /\ FamilyStep(network, network)
    BY <1>2, <1>3, SameSteps, SameSelf
  <2>2. QED
    BY <1>5, <2>1, Zenon DEF FamiliesStep
<1>6. QED
  BY <1>1, <1>4, <1>5

LEMMA StatFileSteps ==
    ASSUME Families, StatFile
    PROVE  FamiliesStep
<1> DEFINE p == Head(agenda).path
           error == StatError(host, p)
           status == CASE error = "ENOENT" -> "absent" [] error = "EACCES" -> "stat_denied"
                       [] OTHER -> "stat_incomplete"
           v == engine.complete /\ error = "ENOENT"
           e == [engine EXCEPT !.complete = v]
           s == [Source(p, status) EXCEPT !.selected = FALSE]
<1>1. UNCHANGED <<engine, network>> \/ Retain(e, s)
  BY DEF StatFile
<1>2. HasParts(engine)
  BY Zenon DEF Families
<1>3. Kept2(engine, e) /\ (e.applicable <=> engine.applicable)
  <2> HIDE DEF v
  <2>1. QED
    BY <1>2, FieldsTouched
<1>4. ~s.applied /\ s.status = status
  <2> HIDE DEF status
  <2>1. QED
    BY SourceIs
<1>5. status \in Settled
  BY DEF Settled
<1> HIDE DEF e, s, status
<1>6. CASE UNCHANGED <<engine, network>>
  BY <1>6, UnchangedSteps
<1>7. CASE Retain(e, s)
  BY <1>3, <1>4, <1>5, <1>7, RetainedSteps
<1>8. QED
  BY <1>1, <1>6, <1>7

LEMMA DocumentRead ==
    ASSUME HostsKnown, NEW p, Ended(ReadError(host, p)) = "ok"
    PROVE  NodeOf(host, p).doc \in Documents /\ NodeOf(host, p) = host[p]
<1> DEFINE node == NodeOf(host, p)
<1>1. ReadError(host, p) = "ok"
  BY DEF Ended
<1>2. StatError(host, p) = "ok" /\ node.is = "file"
  <2>1. CASE StatError(host, p) # "ok"
    BY <1>1, <2>1, Zenon DEF ReadError
  <2>2. CASE node.is # "file"
    <3>1. ReadError(host, p) = IF StatError(host, p) # "ok" THEN StatError(host, p) ELSE "EIO"
      BY <2>2, Zenon DEF ReadError
    <3>2. QED
      BY <1>1, <3>1
  <2>3. QED
    BY <2>1, <2>2
<1>3. p \in DOMAIN host
  <2>1. CASE p \notin DOMAIN host
    <3>1. node.is = "absent"
      BY <2>1 DEF NodeOf
    <3>2. QED
      BY <1>2, <3>1
  <2>2. QED
    BY <2>1
<1>4. node = host[p]
  BY <1>3, Zenon DEF NodeOf
<1>5. node \in Nodes
  BY <1>3, <1>4, Zenon DEF HostsKnown
<1> HIDE DEF node
<1>6. node.doc \in Documents
  BY <1>2, <1>5, Zenon DEF Documents
<1>7. QED
  BY <1>4, <1>6 DEF node

LEMMA ReadFileSteps ==
    ASSUME Families, HostsKnown, ReadFile
    PROVE  FamiliesStep
<1> DEFINE p == Head(agenda).path
           error == Ended(ReadError(host, p))
           node == NodeOf(host, p)
           v == engine.bytes + node.size
           e == [engine EXCEPT !.bytes = v]
           absent == Source(p, "absent")
           failed == Source(p, FailureStatus(error))
<1>1. \/ Retain(engine, absent)
      \/ Retain(readFailure(engine), failed)
      \/ OverLimit(e, p)
      \/ error = "ok" /\ engine' = EngineFile(e, node.doc, p) /\ network' = NetworkFile(node.doc, p)
  BY Zenon DEF ReadFile
<1>2. /\ HasParts(engine) /\ HasParts(network)
      /\ IsSequence(engine.sources) /\ IsSequence(network.sources)
  BY Zenon DEF Families
<1>3. Kept2(engine, e) /\ (e.applicable <=> engine.applicable)
  BY <1>2, FieldsTouched
<1>4. Kept2(engine, engine) /\ Kept2(engine, readFailure(engine)) /\ ~readFailure(engine).applicable
  BY <1>2, FailuresTouched DEF Kept2
<1>5. ~absent.applied /\ ~failed.applied /\ absent.status \in Settled
  <2>1. absent.status = "absent"
    BY SourceIs
  <2>2. QED
    BY <2>1, SourceIs DEF Settled
<1>6. error = "ok" => node.doc \in Documents
  BY DocumentRead
<1> HIDE DEF e, absent, failed, error, node
<1>7. CASE Retain(engine, absent)
  BY <1>4, <1>5, <1>7, RetainedSteps
<1>8. CASE Retain(readFailure(engine), failed)
  BY <1>4, <1>5, <1>8, RetainedSteps
<1>9. CASE OverLimit(e, p)
  BY <1>3, <1>9, OverLimitSteps
<1>10. CASE error = "ok" /\ engine' = EngineFile(e, node.doc, p) /\ network' = NetworkFile(node.doc, p)
  <2>1. node.doc \in Documents
    BY <1>6, <1>10
  <2>2. HasParts(e) /\ IsSequence(e.sources) /\ Alike(engine, e)
    BY <1>2, <1>3, Zenon DEF Kept2, Alike
  <2>3. FamilyStep(e, EngineFile(e, node.doc, p))
    BY <2>1, <2>2, EngineFileSteps
  <2>4. FamilyStep(engine, EngineFile(e, node.doc, p))
    BY <2>2, <2>3, StepOfAlike
  <2>5. FamilyStep(network, NetworkFile(node.doc, p))
    BY <1>2, <2>1, NetworkFileSteps
  <2>6. QED
    BY <1>10, <2>4, <2>5, Zenon DEF FamiliesStep
<1>11. QED
  BY <1>1, <1>7, <1>8, <1>9, <1>10

LEMMA ReadLinkSteps ==
    ASSUME Families, ReadLink
    PROVE  FamiliesStep
<1> DEFINE p == Head(agenda).path
           error == LinkError(host, p)
           skipped == Source(p, "symlink_skipped")
           failed == Source(p, FailureStatus(error))
           e == [readFailure(engine) EXCEPT !.selection = FALSE]
<1>1. Retain(engine, skipped) \/ UNCHANGED <<engine, network>> \/ Retain(e, failed)
  BY Zenon DEF ReadLink
<1>2. HasParts(engine)
  BY Zenon DEF Families
<1>3. Kept2(engine, engine) /\ Kept2(engine, e) /\ ~e.applicable
  BY <1>2, FailuresTouched DEF Kept2
<1>4. ~skipped.applied /\ ~failed.applied /\ skipped.status \in Settled
  <2>1. skipped.status = "symlink_skipped"
    BY SourceIs
  <2>2. QED
    BY <2>1, SourceIs DEF Settled
<1> HIDE DEF e, skipped, failed
<1>5. CASE Retain(engine, skipped)
  BY <1>3, <1>4, <1>5, RetainedSteps
<1>6. CASE UNCHANGED <<engine, network>>
  BY <1>6, UnchangedSteps
<1>7. CASE Retain(e, failed)
  BY <1>3, <1>4, <1>7, RetainedSteps
<1>8. QED
  BY <1>1, <1>5, <1>6, <1>7

LEMMA ReadDirSteps ==
    ASSUME Families, ReadDir
    PROVE  FamiliesStep
<1> DEFINE p == Head(agenda).path
           error == Ended(ListError(host, p))
           absent == Source(p, "absent")
           listed == Source(p, "listed")
           failed == Source(p, FailureStatus(error))
           e == [readFailure(engine) EXCEPT !.selection = FALSE]
<1>1. Retain(engine, absent) \/ Retain(e, failed) \/ Retain(engine, listed)
  BY Zenon DEF ReadDir
<1>2. HasParts(engine)
  BY Zenon DEF Families
<1>3. Kept2(engine, engine) /\ Kept2(engine, e) /\ ~e.applicable
  BY <1>2, FailuresTouched DEF Kept2
<1>4. /\ ~absent.applied /\ ~failed.applied /\ ~listed.applied
      /\ absent.status \in Settled /\ listed.status \in Settled
  <2>1. absent.status = "absent" /\ listed.status = "listed"
    BY SourceIs
  <2>2. QED
    BY <2>1, SourceIs DEF Settled
<1> HIDE DEF e, absent, listed, failed
<1>5. CASE Retain(engine, absent)
  BY <1>3, <1>4, <1>5, RetainedSteps
<1>6. CASE Retain(e, failed)
  BY <1>3, <1>4, <1>6, RetainedSteps
<1>7. CASE Retain(engine, listed)
  BY <1>3, <1>4, <1>7, RetainedSteps
<1>8. QED
  BY <1>1, <1>5, <1>6, <1>7

LEMMA UnsafeNameSteps ==
    ASSUME Families, UnsafeName
    PROVE  FamiliesStep
<1> DEFINE e == [readFailure(engine) EXCEPT !.selection = FALSE]
<1>1. engine' = e /\ network' = network
  BY DEF UnsafeName
<1>2. HasParts(engine) /\ HasParts(network)
  BY Zenon DEF Families
<1>3. Kept2(engine, e) /\ ~e.applicable
  BY <1>2, FailuresTouched
<1> HIDE DEF e
<1>4. FamilyStep(engine, e) /\ FamilyStep(network, network)
  BY <1>2, <1>3, SameSteps, SameSelf
<1>5. QED
  BY <1>1, <1>4, Zenon DEF FamiliesStep

LEMMA FinishEngineSteps ==
    ASSUME Families, FinishEngine
    PROVE  FamiliesStep
<1> DEFINE complete == engine.complete /\ qualified
           e == [engine EXCEPT !.complete = complete, !.done = TRUE]
           selection == network.selection /\ engine.selection
           whole == network.complete /\ selection
           parse == network.parse /\ (selection \/ network.sources # <<>>)
           plans == networkHelperPaths(engine', network.config.strings)
           n == [network EXCEPT !.selection = selection, !.complete = whole, !.parse = parse,
                                !.plans = plans]
<1>1. engine' = e /\ network' = n
  BY Zenon DEF FinishEngine
<1>2. HasParts(engine) /\ HasParts(network)
  BY Zenon DEF Families
<1>3. Kept2(engine, e) /\ (e.applicable <=> engine.applicable)
  <2> HIDE DEF complete
  <2>1. QED
    BY <1>2 DEF HasParts, Kept2
<1>4. Kept2(network, n) /\ (n.applicable <=> network.applicable)
  <2> HIDE DEF selection, whole, parse, plans
  <2>1. QED
    BY <1>2 DEF HasParts, Kept2
<1> HIDE DEF e, n
<1>5. FamilyStep(engine, e) /\ FamilyStep(network, n)
  BY <1>2, <1>3, <1>4, SameSteps
<1>6. QED
  BY <1>1, <1>5, Zenon DEF FamiliesStep

LEMMA EngineNextSteps ==
    ASSUME Families, HostsKnown, EngineNext
    PROVE  FamiliesStep
<1>1. ASSUME BeginDirectory PROVE FamiliesStep
  BY <1>1, UnchangedSteps DEF BeginDirectory
<1>2. ASSUME More PROVE FamiliesStep
  BY <1>2, UnchangedSteps DEF More
<1>3. QED
  BY <1>1, <1>2, AbandonSteps, BeginFileSteps, StatFileSteps, ReadFileSteps, ReadLinkSteps,
     ReadDirSteps, UnsafeNameSteps, FinishEngineSteps, Zenon DEF EngineNext

-----------------------------------------------------------------------------
(* Before the first source.                                                *)
LEMMA EmptyStackSays ==
    ASSUME NEW layers, IsStack(Texts, layers), Len(layers) = 0, NEW f, NEW inherited \in BOOLEAN
    PROVE  Says(EmptyList(inherited), layers, f, ~inherited)
<1>1. DOMAIN layers = {}
  BY DEF IsStack
<1>2. ListSetters(layers, f) = {}
  BY <1>1 DEF ListSetters, Setters
<1>3. Anew(layers, f) = {} /\ Kept(layers, f) = {}
  BY <1>2 DEF Anew, Kept
<1>4. Parts(layers, f) = <<>>
  <2>1. Parts(layers, f) \in Seq(Seq(Texts)) /\ Len(Parts(layers, f)) = 0
    BY PartsAreLists
  <2> DEFINE parts == Parts(layers, f)
  <2> HIDE DEF parts
  <2>2. parts = <<>>
    BY <2>1 DEF parts
  <2>3. QED
    BY <2>2 DEF parts
<1>5. PartOrigins(<<>>) = <<>>
  BY DEF PartOrigins
<1>6. Marks(layers, f, "invalid") = {} /\ Marks(layers, f, "unmodeled") = {}
  BY <1>3 DEF Marks
<1>7. Said(layers, f) = "unset"
  BY <1>2, Zenon DEF Said
<1>8. /\ EmptyList(inherited).values = <<>> /\ EmptyList(inherited).origins = <<>>
      /\ EmptyList(inherited).invalid = {} /\ EmptyList(inherited).unmodeled = {}
      /\ EmptyList(inherited).append = "unset" /\ EmptyList(inherited).inherited = inherited
  BY DEF EmptyList
<1>9. EmptyList(inherited).inherited = (Anew(layers, f) = {} /\ ~(~inherited))
  <2>1. (Anew(layers, f) = {} /\ ~(~inherited)) = inherited
    BY <1>3
  <2>2. QED
    BY <1>8, <2>1, Zenon
<1>10. QED
  BY <1>4, <1>5, <1>6, <1>7, <1>8, <1>9, FlattenEmpty, Zenon DEF Says

LEMMA EmptySources ==
    /\ IsSequence(<<>>) /\ IsStack(Texts, LayersOf(<<>>)) /\ Len(LayersOf(<<>>)) = 0
    /\ DOMAIN LayersOf(<<>>) = {}
<1> DEFINE of(x) == IF x.applied THEN x.layer ELSE NoLayer
           layers == LayersOf(<<>>)
<1>1. IsSequence(<<>>)
  <2>1. <<>> \in Seq({})
    OBVIOUS
  <2>2. QED
    BY <2>1, Zenon DEF IsSequence
<1>2. layers = [i \in DOMAIN <<>> |-> of(<<>>[i])]
  BY Zenon DEF LayersOf
<1>3. layers = <<>>
  <2> HIDE DEF layers, of
  <2>1. DOMAIN layers = {}
    BY <1>2
  <2>2. layers = [i \in 1..0 |-> of(<<>>[i])]
    <3>1. DOMAIN <<>> = 1..0
      OBVIOUS
    <3>2. QED
      BY <1>2, <3>1, Zenon
  <2>3. layers \in Seq({}) /\ Len(layers) = 0
    <3>1. 0 \in Nat /\ \A i \in 1..0 : of(<<>>[i]) \in {}
      OBVIOUS
    <3>2. [i \in 1..0 |-> of(<<>>[i])] \in Seq({}) /\ Len([i \in 1..0 |-> of(<<>>[i])]) = 0
      BY <3>1, IsASeq
    <3>3. QED
      BY <2>2, <3>2, Zenon
  <2>4. QED
    BY <2>3
<1>4. Len(layers) = 0 /\ DOMAIN layers = {} /\ IsStack(Texts, layers)
  <2> HIDE DEF layers
  <2>1. Len(layers) = 0 /\ DOMAIN layers = {} /\ 1..0 = {}
    BY <1>3
  <2>2. QED
    BY <2>1 DEF IsStack
<1>5. QED
  BY <1>1, <1>4 DEF layers

LEMMA DefaultsMean ==
    ASSUME NEW defaults,
           \A f \in DOMAIN defaults.lists : defaults.lists[f] = EmptyList(FALSE)
    PROVE  Means(defaults, defaults, LayersOf(<<>>))
<1> DEFINE layers == LayersOf(<<>>)
<1>1. IsStack(Texts, layers) /\ Len(layers) = 0 /\ DOMAIN layers = {}
  BY EmptySources
<1> HIDE DEF layers
<1>2. TextFields(layers) = {} /\ ListFields(layers) = {}
  BY <1>1 DEF TextFields, ListFields
<1>3. ASSUME NEW f
      PROVE  Says(ListOf(defaults.lists, f), layers, f, f \in DOMAIN defaults.lists)
  <2>1. CASE f \in DOMAIN defaults.lists
    <3>1. ListOf(defaults.lists, f) = EmptyList(FALSE)
      BY <2>1, Zenon DEF ListOf
    <3>2. Says(EmptyList(FALSE), layers, f, ~FALSE)
      BY <1>1, EmptyStackSays
    <3>3. (f \in DOMAIN defaults.lists) = (~FALSE)
      BY <2>1
    <3>4. QED
      BY <3>1, <3>2, <3>3, Zenon
  <2>2. CASE f \notin DOMAIN defaults.lists
    <3>1. ListOf(defaults.lists, f) = EmptyList(TRUE)
      BY <2>2, Zenon DEF ListOf, Unset
    <3>2. Says(EmptyList(TRUE), layers, f, ~TRUE)
      BY <1>1, EmptyStackSays
    <3>3. (f \in DOMAIN defaults.lists) = (~TRUE)
      BY <2>2
    <3>4. QED
      BY <3>1, <3>2, <3>3, Zenon
  <2>3. QED
    BY <2>1, <2>2
<1>4. Means(defaults, defaults, layers)
  BY <1>2, <1>3, Zenon DEF Means
<1>5. QED
  BY <1>4 DEF layers

LEMMA StartSound ==
    ASSUME NEW c, HasParts(c), c.sources = <<>>, NEW defaults, c.config = defaults,
           \A f \in DOMAIN defaults.lists : defaults.lists[f] = EmptyList(FALSE)
    PROVE  Sound(c, defaults)
<1>1. IsSequence(c.sources) /\ IsStack(Texts, LayersOf(c.sources))
  BY EmptySources, Zenon
<1>2. Means(c.config, defaults, LayersOf(c.sources))
  BY DefaultsMean, Zenon
<1>3. DOMAIN c.sources = {}
  OBVIOUS
<1>4. QED
  BY <1>1, <1>2, <1>3, Zenon DEF Sound

(* The two families mean what their sources say, and the host holds known  *)
(* files.                                                                  *)
ConfigInv ==
    /\ Sound(engine, Nothing) /\ Sound(network, networkDefaults)
    /\ HostsKnown

LEMMA SituationKnown ==
    ASSUME NEW s \in Situations
    PROVE  s.event.node \in Nodes /\ \A p \in DOMAIN s.host : s.host[p] \in Nodes
<1>1. s.event.node \in Nodes
  BY DEF Nodes
<1>2. ASSUME NEW p \in DOMAIN s.host PROVE s.host[p] \in Nodes
  <2>1. s.host[p] \in Range(s.host)
    BY DEF Range
  <2>2. QED
    BY <2>1 DEF Nodes
<1>3. QED
  BY <1>1, <1>2

LEMMA ConfigInit == Init => ConfigInv
<1> SUFFICES ASSUME Init PROVE ConfigInv
  OBVIOUS
<1>1. PICK s \in Situations :
        /\ host = s.host
        /\ event = [is |-> s.event.is, path |-> s.event.path, node |-> s.event.node, fired |-> FALSE]
  BY Zenon DEF Init
<1>2. HostsKnown
  <2> DEFINE is == s.event.is
             path == s.event.path
             node == s.event.node
  <2>1. event = [is |-> is, path |-> path, node |-> node, fired |-> FALSE]
    BY <1>1
  <2>2. node \in Nodes /\ \A p \in DOMAIN host : host[p] \in Nodes
    BY <1>1, SituationKnown, Zenon
  <2> HIDE DEF is, path, node
  <2>3. /\ event = [is |-> event.is, path |-> event.path, node |-> event.node, fired |-> event.fired]
        /\ event.node = node
    BY <2>1
  <2>4. QED
    BY <2>2, <2>3, Zenon DEF HostsKnown
<1>3. EngineInit
  BY Zenon DEF Init
<1>4. Sound(engine, Nothing)
  <2>1. HasParts(engine) /\ engine.sources = <<>> /\ engine.config = Nothing
    BY <1>3 DEF EngineInit, HasParts
  <2>2. \A f \in DOMAIN Nothing.lists : Nothing.lists[f] = EmptyList(FALSE)
    BY NoLayerIs DEF Nothing
  <2>3. QED
    BY <2>1, <2>2, StartSound
<1>5. Sound(network, networkDefaults)
  <2> DEFINE defaults == networkDefaults
  <2>1. \A f \in DOMAIN defaults.lists : defaults.lists[f] = EmptyList(FALSE)
    BY DEF networkDefaults
  <2> HIDE DEF defaults
  <2>2. HasParts(network) /\ network.sources = <<>> /\ network.config = defaults
    BY <1>3 DEF EngineInit, HasParts, defaults
  <2>3. Sound(network, defaults)
    BY <2>1, <2>2, StartSound
  <2>4. QED
    BY <2>3 DEF defaults
<1>6. QED
  BY <1>2, <1>4, <1>5 DEF ConfigInv

LEMMA HostChanges ==
    ASSUME HostsKnown, Happens
    PROVE  HostsKnown'
<1> DEFINE path == event.path
           node == event.node
           is == event.is
           fired == event.fired
<1>1. /\ event' = [event EXCEPT !.fired = TRUE]
      /\ host' = IF is # "replace" THEN host
                 ELSE [p \in DOMAIN host \cup {path} |-> IF p = path THEN node ELSE host[p]]
  BY Zenon DEF Happens
<1>2. /\ \A p \in DOMAIN host : host[p] \in Nodes
      /\ event = [is |-> is, path |-> path, node |-> node, fired |-> fired]
      /\ node \in Nodes
  BY Zenon DEF HostsKnown
<1> HIDE DEF path, node, is, fired
<1>3. event' = [is |-> is, path |-> path, node |-> node, fired |-> TRUE]
  BY <1>1, <1>2
<1>4. /\ event' = [is |-> event'.is, path |-> event'.path, node |-> event'.node,
                   fired |-> event'.fired]
      /\ event'.node = node
  BY <1>3
<1>5. \A p \in DOMAIN host' : host'[p] \in Nodes
  BY <1>1, <1>2
<1>6. Nodes' = Nodes
  BY DEF Nodes
<1>7. QED
  BY <1>2, <1>4, <1>5, <1>6, Zenon DEF HostsKnown

LEMMA UntouchedInv ==
    ASSUME ConfigInv, UNCHANGED <<host, event, target, engine, network>>
    PROVE  ConfigInv'
<1>1. HostsKnown'
  BY DEF ConfigInv, HostsKnown, Nodes
<1>2. networkDefaults' = networkDefaults
  BY Zenon DEF networkDefaults, legacy
<1>3. Sound(engine, Nothing) /\ Sound(network, networkDefaults)
  BY Zenon DEF ConfigInv
<1>4. Sound(engine', Nothing) /\ Sound(network', networkDefaults')
  BY <1>2, <1>3, Zenon
<1>5. QED
  BY <1>1, <1>4, Zenon DEF ConfigInv

LEMMA HappensInv ==
    ASSUME ConfigInv, Happens
    PROVE  ConfigInv'
<1>1. HostsKnown'
  BY HostChanges DEF ConfigInv
<1>2. target' = target /\ engine' = engine /\ network' = network
  BY DEF Happens
<1>3. networkDefaults' = networkDefaults
  BY <1>2, Zenon DEF networkDefaults, legacy
<1>4. Sound(engine, Nothing) /\ Sound(network, networkDefaults)
  BY Zenon DEF ConfigInv
<1>5. Sound(engine', Nothing) /\ Sound(network', networkDefaults')
  BY <1>2, <1>3, <1>4, Zenon
<1>6. QED
  BY <1>1, <1>5, Zenon DEF ConfigInv

LEMMA CollectEngineInv ==
    ASSUME ConfigInv, CollectEngine
    PROVE  ConfigInv'
<1>1. EngineNext /\ host' = host /\ event' = event /\ target' = target
  BY Zenon DEF CollectEngine
<1>2. Sound(engine, Nothing) /\ Sound(network, networkDefaults) /\ HostsKnown
  BY Zenon DEF ConfigInv
<1>3. Families
  BY <1>2, Zenon DEF Sound, Families
<1>4. FamilyStep(engine, engine') /\ FamilyStep(network, network')
  BY <1>1, <1>2, <1>3, EngineNextSteps DEF FamiliesStep
<1>5. Sound(engine', Nothing) /\ Sound(network', networkDefaults)
  BY <1>2, <1>4, FamilyStepSound
<1>6. networkDefaults' = networkDefaults
  BY <1>1, Zenon DEF networkDefaults, legacy
<1>7. HostsKnown'
  BY <1>1, <1>2 DEF HostsKnown, Nodes
<1>8. QED
  BY <1>5, <1>6, <1>7, Zenon DEF ConfigInv

LEMMA ConfigNext ==
    ASSUME ConfigInv, [Next]_vars
    PROVE  ConfigInv'
<1>1. CASE Happens
  BY <1>1, HappensInv
<1>2. CASE CollectEngine
  BY <1>2, CollectEngineInv
<1>3. CASE CollectStorage
  <2>1. UNCHANGED <<host, event, target, engine, network>>
    BY <1>3 DEF CollectStorage
  <2>2. QED
    BY <2>1, UntouchedInv
<1>4. CASE RunProbe
  <2>1. UNCHANGED <<host, event, target, engine, network>>
    BY <1>4 DEF RunProbe
  <2>2. QED
    BY <2>1, UntouchedInv
<1>5. CASE UNCHANGED vars
  <2>1. UNCHANGED <<host, event, target, engine, network>>
    BY <1>5 DEF vars
  <2>2. QED
    BY <2>1, UntouchedInv
<1>6. QED
  BY <1>1, <1>2, <1>3, <1>4, <1>5, Zenon DEF Next

(* At every moment of the collection, not only in the report, the          *)
(* configuration of either family is what its applied sources mean when    *)
(* they are read as layers, and no source is applied past one that could   *)
(* not be (MergeEngine, MergeNetwork and the collectors that call them).   *)
THEOREM ConfigurationIsSound == Spec => []ConfigInv
<1>1. Init => ConfigInv
  BY ConfigInit
<1>2. ConfigInv /\ [Next]_vars => ConfigInv'
  BY ConfigNext
<1>3. QED
  BY <1>1, <1>2, PTL DEF Spec

-----------------------------------------------------------------------------
LEMMA SoundIsLayered ==
    ASSUME NEW c, NEW defaults, Sound(c, defaults)
    PROVE  Layered(c, defaults)
<1> DEFINE config == c.config
           sources == c.sources
           layers == [i \in DOMAIN sources |-> IF sources[i].applied THEN sources[i].layer ELSE NoLayer]
           strings == UNION {DOMAIN layers[i].strings : i \in DOMAIN layers}
           lists == UNION {DOMAIN layers[i].lists : i \in DOMAIN layers}
           Exact(f) ==
               LET list == config.lists[f]
                   meant == EffectiveList(layers, f)
               IN  /\ list.values = meant.values /\ list.origins = meant.origins
                   /\ list.invalid = meant.invalid /\ list.unmodeled = meant.unmodeled
                   /\ list.inherited = (~meant.anew /\ f \notin DOMAIN defaults.lists)
<1>1. layers = LayersOf(sources)
  BY Zenon DEF LayersOf
<1>2. /\ Means(config, defaults, LayersOf(sources))
      /\ \A i \in DOMAIN sources : sources[i].applied => \A j \in 1..i : sources[j].status \in Settled
  BY Zenon DEF Sound
<1>3. strings = TextFields(layers) /\ lists = ListFields(layers)
  <2> HIDE DEF layers
  <2>1. QED
    BY Zenon DEF TextFields, ListFields
<1>4. /\ DOMAIN config.strings = strings \cup DOMAIN defaults.strings
      /\ DOMAIN config.lists = lists \cup DOMAIN defaults.lists
      /\ \A f \in strings : TextSays(config.strings[f], layers, f)
      /\ \A f : Says(ListOf(config.lists, f), layers, f, f \in DOMAIN defaults.lists)
  <2> HIDE DEF layers, strings, lists, config, sources
  <2>1. Means(config, defaults, layers)
    BY <1>1, <1>2, Zenon
  <2>2. QED
    BY <1>3, <2>1, Zenon DEF Means
<1>5. ASSUME NEW f \in strings
      PROVE  /\ config.strings[f].value = EffectiveText(layers, f).value
             /\ config.strings[f].invalid = EffectiveText(layers, f).invalid
             /\ config.strings[f].source = Max(Setters(layers, "strings", f))
  <2> HIDE DEF layers, strings, lists, config, sources
  <2>1. QED
    BY <1>4, Zenon DEF TextSays
<1>6. ASSUME NEW f \in lists PROVE Exact(f)
  <2> DEFINE list == config.lists[f]
             meant == EffectiveList(layers, f)
             defaulted == f \in DOMAIN defaults.lists
             anew == Anew(layers, f)
  <2> HIDE DEF layers, strings, lists, sources, config
  <2>1. f \in DOMAIN config.lists
    BY <1>4, <1>6
  <2>2. ListOf(config.lists, f) = list
    BY <2>1, Zenon DEF ListOf
  <2>3. Says(list, layers, f, defaulted)
    BY <1>4, <2>2, Zenon
  <2>4. /\ meant.values = FlattenSeq(Parts(layers, f))
        /\ meant.origins = FlattenSeq(PartOrigins(Parts(layers, f)))
        /\ meant.invalid = Marks(layers, f, "invalid")
        /\ meant.unmodeled = Marks(layers, f, "unmodeled")
        /\ meant.anew = (anew # {})
    BY EffectiveListIs, Zenon
  <2>5. list.inherited = (~meant.anew /\ ~defaulted)
    <3>1. list.inherited = (anew = {} /\ ~defaulted)
      BY <2>3, Zenon DEF Says
    <3> HIDE DEF defaulted, anew, list, meant
    <3>2. (anew = {}) = (~(anew # {}))
      OBVIOUS
    <3>3. QED
      BY <2>4, <3>1, <3>2, Zenon
  <2>6. /\ list.values = meant.values /\ list.origins = meant.origins
        /\ list.invalid = meant.invalid /\ list.unmodeled = meant.unmodeled
    <3> HIDE DEF list, meant
    <3>1. QED
      BY <2>3, <2>4, Zenon DEF Says
  <2>7. QED
    BY <2>5, <2>6, Zenon
<1>7. /\ DOMAIN config.strings = strings \cup DOMAIN defaults.strings
      /\ DOMAIN config.lists = lists \cup DOMAIN defaults.lists
      /\ \A f \in strings :
           /\ config.strings[f].value = EffectiveText(layers, f).value
           /\ config.strings[f].invalid = EffectiveText(layers, f).invalid
           /\ config.strings[f].source = Max(Setters(layers, "strings", f))
      /\ \A f \in lists : Exact(f)
      /\ \A i \in DOMAIN sources : sources[i].applied => \A j \in 1..i : sources[j].status \in Settled
  <2> HIDE DEF layers, strings, lists, config, sources, Exact
  <2>1. QED
    BY <1>2, <1>4, <1>5, <1>6
<1>8. QED
  BY <1>7, Zenon DEF Layered

(* The effective engine and network configuration of every report is the   *)
(* one that its applied sources mean as layers (LayeringIsExact).          *)
THEOREM LayersAreExact == Spec => []LayeringIsExact
<1>1. ConfigInv => LayeringIsExact
  <2> SUFFICES ASSUME ConfigInv PROVE LayeringIsExact
    OBVIOUS
  <2>1. Sound(engine, Nothing) /\ Sound(network, networkDefaults)
    BY Zenon DEF ConfigInv
  <2>2. Layered(engine, Nothing) /\ Layered(network, networkDefaults)
    BY <2>1, SoundIsLayered
  <2>3. QED
    BY <2>2, Zenon DEF LayeringIsExact
<1>2. Spec => []ConfigInv
  BY ConfigurationIsSound
<1>3. QED
  BY <1>1, <1>2, PTL

-----------------------------------------------------------------------------
(* The storage configuration: what one file says of it.                    *)
LEMMA ParsedTexts ==
    ASSUME NEW f, NEW value, FieldProblem(f, value) = "ok",
           f # "engine.platform_to_oci_runtime", IsText(f)
    PROVE  value.is = "text"
<1>1. "invalid" # "ok"
  OBVIOUS
<1> HIDE DEF IsText
<1>2. QED
  BY <1>1, Zenon DEF FieldProblem

LEMMA TextItems ==
    ASSUME NEW doc \in Documents, NEW f \in DOMAIN doc.fields, doc.fields[f].is = "text"
    PROVE  IsSequence(doc.fields[f].text)
<1> DEFINE value == doc.fields[f]
<1>1. PICK node \in Nodes : node.is = "file" /\ doc = node.doc
  BY DEF Documents
<1>2. PICK s \in Situations : node \in Range(s.host) \cup {s.event.node}
  BY <1>1 DEF Nodes
<1>3. value.text \in Seq(ToSet(value.text))
  BY <1>1, <1>2, DocumentsAssumption, Zenon
<1> HIDE DEF value
<1>4. IsSequence(value.text)
  BY <1>3, Zenon DEF IsSequence
<1>5. QED
  BY <1>4 DEF value

AreTexts(layer) == \A f \in DOMAIN layer.strings : IsSequence(layer.strings[f].value)

LEMMA LayerAreTexts ==
    ASSUME NEW doc \in Documents, NEW fields, DOMAIN fields \subseteq Nat, NEW modern,
           Parse(doc, fields, modern) = "ok"
    PROVE  AreTexts(Layer(doc, fields, modern))
<1> DEFINE present == Present(doc, fields, modern) \ {"engine.platform_to_oci_runtime"}
           strings == {f \in present : IsText(f)}
           Valid(f) == Acceptable(f, doc.fields[f].text)
                       /\ (f \in DOMAIN ChoiceTexts => doc.fields[f].text \in ChoiceTexts[f] \cup {<<>>})
           one(f) == IF Valid(f) THEN doc.fields[f].text ELSE <<>>
           texts == [f \in strings |-> [value |-> one(f), invalid |-> ~Valid(f)]]
           lists == [f \in present \ strings |-> ListLayer(f, doc.fields[f])]
           overrides == "engine.platform_to_oci_runtime" \in Present(doc, fields, modern)
           layer == Layer(doc, fields, modern)
<1>1. layer.strings = texts
  <2>1. layer = [strings |-> texts, lists |-> lists, overrides |-> overrides]
    BY Zenon DEF Layer
  <2> HIDE DEF layer, texts, lists, overrides
  <2>2. QED
    BY <2>1
<1>2. ASSUME NEW f \in strings PROVE IsSequence(one(f))
  <2>1. f \in Present(doc, fields, modern) /\ f # "engine.platform_to_oci_runtime" /\ IsText(f)
    OBVIOUS
  <2>2. f \in DOMAIN doc.fields
    BY <2>1 DEF Present
  <2> DEFINE value == doc.fields[f]
  <2>3. FieldProblem(f, value) = "ok"
    BY <2>1, ParsedFields
  <2>4. value.is = "text"
    BY <2>1, <2>3, ParsedTexts
  <2>5. IsSequence(value.text)
    BY <2>2, <2>4, TextItems
  <2>6. IsSequence(<<>>)
    BY EmptySources
  <2>7. one(f) = value.text \/ one(f) = <<>>
    <3> HIDE DEF Valid
    <3>1. QED
      OBVIOUS
  <2>8. QED
    BY <2>5, <2>6, <2>7, Zenon
<1> HIDE DEF strings, one
<1>3. DOMAIN texts = strings /\ \A f \in strings : texts[f].value = one(f)
  <2> HIDE DEF Valid
  <2>1. QED
    OBVIOUS
<1> HIDE DEF texts, layer
<1>4. AreTexts(layer)
  BY <1>1, <1>2, <1>3, Zenon DEF AreTexts
<1>5. QED
  BY <1>4 DEF layer

(* A configuration of which every setting but the roots is the one that a  *)
(* file's record says, or that rootlessStorage moved to another option.    *)
Moves(g, f) == g = f \/ (f = "overlay.ignore_chown_errors" /\ g = "ignore_chown_errors")

SaidBy(entry, layer, f) ==
    \E g \in DOMAIN layer.strings :
        /\ Moves(g, f)
        /\ entry.value = layer.strings[g].value /\ entry.invalid = layer.strings[g].invalid

IsEntry(entry) == {"value", "invalid", "source"} \subseteq DOMAIN entry

HasTexts(c) ==
    /\ {"strings", "lists"} \subseteq DOMAIN c
    /\ \A f \in DOMAIN c.strings : IsEntry(c.strings[f])

Settings(c, layer, place) ==
    /\ \A f \in DOMAIN c.strings \ Roots :
         c.strings[f].source = place /\ SaidBy(c.strings[f], layer, f)
    /\ \A f \in DOMAIN c.lists : c.lists[f].values = layer.lists[f].values

RootsFrom(c, places) ==
    \A f \in DOMAIN c.strings \cap Roots :
        c.strings[f].source \in places /\ IsSequence(c.strings[f].value)

(* ProjectStorage of a record. *)
(* A projection holds just what its layer says.                            *)
Projects(c, layer, place) ==
    /\ HasTexts(c) /\ Settings(c, layer, place) /\ RootsFrom(c, {place})
    /\ DOMAIN c.strings = DOMAIN layer.strings
    /\ \A f \in DOMAIN layer.strings :
         c.strings[f].value = layer.strings[f].value /\ c.strings[f].source = place

LEMMA ProjectionSays ==
    ASSUME NEW layer, IsLayer(layer), AreTexts(layer), NEW place
    PROVE  Projects(ProjectStorage(layer, place), layer, place)
<1> DEFINE c == ProjectStorage(layer, place)
           texts == mergeString(<<>>, layer.strings, place)
           lists == MergeLists(<<>>, layer.lists, place)
           overrides == Nothing.overrides
<1>1. Nothing.strings = <<>> /\ Nothing.lists = <<>>
  BY NoLayerIs DEF Nothing
<1>2. c = [strings |-> texts, lists |-> lists, overrides |-> overrides]
  BY <1>1, Zenon DEF ProjectStorage, MergeNetwork
<1>3. {"strings", "lists"} \subseteq DOMAIN c /\ c.strings = texts /\ c.lists = lists
  <2> HIDE DEF c, texts, lists, overrides
  <2>1. QED
    BY <1>2
<1>4. /\ DOMAIN texts = DOMAIN layer.strings
      /\ \A f \in DOMAIN layer.strings :
           /\ texts[f].value = layer.strings[f].value /\ texts[f].invalid = layer.strings[f].invalid
           /\ texts[f].source = place /\ IsEntry(texts[f])
  <2>1. DOMAIN <<>> = {}
    OBVIOUS
  <2>2. DOMAIN texts = DOMAIN layer.strings
    <3> DEFINE none == <<>>
               added == layer.strings
    <3> HIDE DEF none, added
    <3>1. DOMAIN mergeString(none, added, place) = DOMAIN none \cup DOMAIN added
      BY MergedFields
    <3>2. DOMAIN none = {}
      BY <2>1 DEF none
    <3>3. DOMAIN mergeString(none, added, place) = DOMAIN added
      BY <3>1, <3>2
    <3>4. QED
      BY <3>3 DEF none, added
  <2>3. ASSUME NEW f \in DOMAIN layer.strings PROVE IsEntry(texts[f])
    <3> DEFINE value == layer.strings[f].value
               invalid == layer.strings[f].invalid
               entry == texts[f]
    <3>1. entry = [value |-> value, invalid |-> invalid, source |-> place]
      <4> DEFINE added == layer.strings
                 none == <<>>
      <4>1. f \in DOMAIN added /\ value = added[f].value /\ invalid = added[f].invalid
        OBVIOUS
      <4> HIDE DEF added, none, value, invalid
      <4>2. mergeString(none, added, place)[f] =
              [value |-> added[f].value, invalid |-> added[f].invalid, source |-> place]
        BY <4>1 DEF mergeString
      <4>3. QED
        BY <4>1, <4>2, Zenon DEF added, none
    <3> HIDE DEF value, invalid, entry
    <3>2. IsEntry(entry)
      BY <3>1 DEF IsEntry
    <3>3. QED
      BY <3>2 DEF entry
  <2>4. QED
    BY <2>2, <2>3, MergedText
<1>5. ASSUME NEW f \in DOMAIN lists PROVE lists[f].values = layer.lists[f].values
  <2>1. f \in DOMAIN layer.lists
    <3> DEFINE none == <<>>
               added == layer.lists
    <3>1. DOMAIN none = {}
      OBVIOUS
    <3>2. f \in DOMAIN MergeLists(none, added, place)
      BY <1>5
    <3> HIDE DEF none, added
    <3>3. DOMAIN MergeLists(none, added, place) = DOMAIN none \cup DOMAIN added
      BY MergedFields
    <3>4. QED
      BY <3>1, <3>2, <3>3 DEF added
  <2> DEFINE added == layer.lists[f]
             append == IF added.append = "unset" THEN Unset.append ELSE added.append
             kept == IF append = "yes" THEN Unset ELSE EmptyList(FALSE)
             merged == mergeList(Unset, added, place)
  <2>2. lists[f] = merged
    <3>1. ListOf(<<>>, f) = Unset
      BY DEF ListOf
    <3>2. ListOf(lists, f) = mergeList(ListOf(<<>>, f), layer.lists[f], place)
      BY <2>1, MergedListOf
    <3>3. ListOf(lists, f) = lists[f]
      BY <1>5, Zenon DEF ListOf
    <3>4. QED
      BY <3>1, <3>2, <3>3, Zenon
  <2>3. merged = MergedList(kept, append, added, place)
    BY Zenon DEF mergeList
  <2>4. kept.values = <<>>
    <3>1. Unset.values = <<>> /\ EmptyList(FALSE).values = <<>>
      BY DEF Unset, EmptyList
    <3> HIDE DEF append
    <3>2. QED
      BY <3>1
  <2>5. MergedList(kept, append, added, place).values = kept.values \o added.values
    <3> HIDE DEF kept, append, added
    <3> DEFINE values == kept.values \o added.values
               origins == kept.origins \o [i \in DOMAIN added.values |-> place]
               invalid == kept.invalid \cup {Len(kept.values) + i : i \in added.invalid}
               unmodeled == kept.unmodeled \cup {Len(kept.values) + i : i \in added.unmodeled}
               inherited == kept.inherited
               list == MergedList(kept, append, added, place)
    <3>1. list = [values |-> values, origins |-> origins, invalid |-> invalid,
                  unmodeled |-> unmodeled, append |-> append, inherited |-> inherited,
                  source |-> place]
      BY Zenon DEF MergedList
    <3> HIDE DEF values, origins, invalid, unmodeled, inherited, list
    <3>2. list.values = values
      BY <3>1
    <3>3. QED
      BY <3>2 DEF list, values
  <2>6. added.values \in Seq(Texts)
    BY <2>1 DEF IsLayer
  <2> DEFINE v == added.values
  <2>7. v \in Seq(Texts)
    BY <2>6
  <2> HIDE DEF v
  <2>8. <<>> \o v = v
    BY <2>7, ConcatEmptySeq
  <2>9. merged.values = v
    BY <2>3, <2>4, <2>5, <2>8, Zenon DEF v
  <2>10. QED
    BY <2>2, <2>9, Zenon DEF v
<1> HIDE DEF texts, lists, c
<1>10. HasTexts(c)
  BY <1>3, <1>4, Zenon DEF HasTexts
<1>6. ASSUME NEW f \in DOMAIN c.strings PROVE SaidBy(c.strings[f], layer, f)
  BY <1>3, <1>4, <1>6, Zenon DEF SaidBy, Moves
<1>7. Settings(c, layer, place)
  BY <1>3, <1>4, <1>5, <1>6, Zenon DEF Settings
<1>8. RootsFrom(c, {place})
  <2>1. ASSUME NEW f \in DOMAIN c.strings \cap Roots
        PROVE  c.strings[f].source \in {place} /\ IsSequence(c.strings[f].value)
    <3>1. f \in DOMAIN layer.strings
      BY <1>3, <1>4, <2>1
    <3>2. c.strings[f].source = place /\ c.strings[f].value = layer.strings[f].value
      BY <1>3, <1>4, <3>1
    <3>3. IsSequence(layer.strings[f].value)
      BY <3>1, Zenon DEF AreTexts
    <3>4. QED
      BY <3>2, <3>3, Zenon
  <2>2. QED
    BY <2>1, Zenon DEF RootsFrom
<1>9. Projects(c, layer, place)
  BY <1>3, <1>4, <1>7, <1>8, <1>10, Zenon DEF Projects
<1>11. QED
  BY <1>9 DEF c

(* The operations on it. *)
Selects(c, layer, place, places) ==
    HasTexts(c) /\ Settings(c, layer, place) /\ RootsFrom(c, places)

Keeps(c, d) == \A g : Has(c.strings, g) => g \in DOMAIN d.strings /\ d.strings[g] = c.strings[g]

LEMMA PutIs ==
    ASSUME NEW c, HasTexts(c), NEW f, NEW entry, IsEntry(entry)
    PROVE  /\ HasTexts(Put(c, f, entry)) /\ Put(c, f, entry).lists = c.lists
           /\ DOMAIN Put(c, f, entry).strings = DOMAIN c.strings \cup {f}
           /\ Put(c, f, entry).strings[f] = entry
           /\ \A g \in DOMAIN c.strings : g # f => Put(c, f, entry).strings[g] = c.strings[g]
<1> DEFINE old == c.strings
           more == [g \in DOMAIN old \cup {f} |-> IF g = f THEN entry ELSE old[g]]
           d == Put(c, f, entry)
<1>1. d = [c EXCEPT !.strings = more]
  BY DEF Put
<1>2. /\ DOMAIN more = DOMAIN old \cup {f} /\ more[f] = entry
      /\ \A g \in DOMAIN old : g # f => more[g] = old[g]
  OBVIOUS
<1>3. {"strings", "lists"} \subseteq DOMAIN c /\ \A g \in DOMAIN old : IsEntry(old[g])
  BY DEF HasTexts
<1> HIDE DEF more, d
<1>4. d.strings = more /\ d.lists = c.lists /\ {"strings", "lists"} \subseteq DOMAIN d
  BY <1>1, <1>3
<1> HIDE DEF old
<1>5. \A g \in DOMAIN more : IsEntry(more[g])
  BY <1>2, <1>3
<1>6. HasTexts(d)
  BY <1>4, <1>5, Zenon DEF HasTexts
<1>7. QED
  BY <1>2, <1>4, <1>6, Zenon DEF d, old

LEMMA RootPut ==
    ASSUME NEW c, NEW layer, NEW place, NEW places, Selects(c, layer, place, places),
           NEW f \in Roots, NEW entry, IsEntry(entry), entry.source \in places,
           IsSequence(entry.value)
    PROVE  Selects(Put(c, f, entry), layer, place, places)
<1> DEFINE d == Put(c, f, entry)
<1>1. HasTexts(c) /\ Settings(c, layer, place) /\ RootsFrom(c, places)
  BY Zenon DEF Selects
<1>2. /\ HasTexts(d) /\ d.lists = c.lists
      /\ DOMAIN d.strings = DOMAIN c.strings \cup {f} /\ d.strings[f] = entry
      /\ \A g \in DOMAIN c.strings : g # f => d.strings[g] = c.strings[g]
  BY <1>1, PutIs
<1> HIDE DEF d
<1>3. Settings(d, layer, place)
  <2>1. ASSUME NEW g \in DOMAIN d.strings \ Roots
        PROVE  d.strings[g].source = place /\ SaidBy(d.strings[g], layer, g)
    <3>1. g \in DOMAIN c.strings \ Roots /\ d.strings[g] = c.strings[g]
      BY <1>2, <2>1
    <3>2. c.strings[g].source = place /\ SaidBy(c.strings[g], layer, g)
      BY <1>1, <3>1, Zenon DEF Settings
    <3>3. QED
      BY <3>1, <3>2, Zenon
  <2>2. \A g \in DOMAIN d.lists : d.lists[g].values = layer.lists[g].values
    BY <1>1, <1>2, Zenon DEF Settings
  <2>3. QED
    BY <2>1, <2>2, Zenon DEF Settings
<1>4. RootsFrom(d, places)
  <2>1. ASSUME NEW g \in DOMAIN d.strings \cap Roots
        PROVE  d.strings[g].source \in places /\ IsSequence(d.strings[g].value)
    <3>1. CASE g = f
      BY <1>2, <3>1, Zenon
    <3>2. CASE g # f
      <4>1. g \in DOMAIN c.strings \cap Roots /\ d.strings[g] = c.strings[g]
        BY <1>2, <2>1, <3>2
      <4>2. c.strings[g].source \in places /\ IsSequence(c.strings[g].value)
        BY <1>1, <4>1, Zenon DEF RootsFrom
      <4>3. QED
        BY <4>1, <4>2, Zenon
    <3>3. QED
      BY <3>1, <3>2
  <2>2. QED
    BY <2>1, Zenon DEF RootsFrom
<1>5. QED
  BY <1>2, <1>3, <1>4, Zenon DEF Selects, d

LEMMA SetRootSelects ==
    ASSUME NEW c, NEW layer, NEW place, NEW places, Selects(c, layer, place, places), 0 \in places,
           NEW f \in Roots, NEW text, IsSequence(text)
    PROVE  Selects(SetRoot(c, f, text), layer, place, places)
<1> DEFINE entry == [value |-> text, invalid |-> FALSE, source |-> 0]
<1>1. IsEntry(entry) /\ entry.source = 0 /\ entry.value = text
  BY DEF IsEntry
<1>2. SetRoot(c, f, text) = Put(c, f, entry)
  BY Zenon DEF SetRoot
<1> HIDE DEF entry
<1>3. entry.source \in places /\ IsSequence(entry.value)
  BY <1>1, Zenon
<1>4. Selects(Put(c, f, entry), layer, place, places)
  BY <1>1, <1>3, RootPut
<1>5. QED
  BY <1>2, <1>4, Zenon

LEMMA FallbackSelects ==
    ASSUME NEW c, NEW layer, NEW place, NEW places, Selects(c, layer, place, places), 0 \in places,
           NEW f \in Roots, NEW text, IsSequence(text)
    PROVE  Selects(storageFallback(c, f, text), layer, place, places)
BY SetRootSelects, Zenon DEF storageFallback

LEMMA FallbackValueSelects ==
    ASSUME NEW c, NEW layer, NEW place, NEW places, Selects(c, layer, place, places),
           NEW f \in Roots, NEW from, HasTexts(from), RootsFrom(from, places), NEW g \in Roots
    PROVE  /\ Selects(storageFallbackValue(c, f, from, g), layer, place, places)
           /\ Keeps(c, storageFallbackValue(c, f, from, g))
<1> DEFINE d == storageFallbackValue(c, f, from, g)
           entry == from.strings[g]
<1>1. d = IF Has(c.strings, f) \/ g \notin DOMAIN from.strings THEN c ELSE Put(c, f, entry)
  BY Zenon DEF storageFallbackValue
<1> HIDE DEF d
<1>2. CASE d = c
  BY <1>2, Zenon DEF Keeps, Has, d
<1>3. CASE d = Put(c, f, entry) /\ ~Has(c.strings, f) /\ g \in DOMAIN from.strings
  <2>1. entry.source \in places /\ IsSequence(entry.value)
    BY <1>3, Zenon DEF RootsFrom
  <2>2. IsEntry(entry) /\ HasTexts(c)
    BY <1>3, Zenon DEF HasTexts, Selects
  <2> HIDE DEF entry
  <2>3. Selects(d, layer, place, places)
    BY <1>3, <2>1, <2>2, RootPut
  <2>4. /\ DOMAIN d.strings = DOMAIN c.strings \cup {f}
        /\ \A x \in DOMAIN c.strings : x # f => d.strings[x] = c.strings[x]
    BY <1>3, <2>2, PutIs
  <2>5. ASSUME NEW x, Has(c.strings, x)
        PROVE  x \in DOMAIN d.strings /\ d.strings[x] = c.strings[x]
    <3>1. x \in DOMAIN c.strings
      BY <2>5, Zenon DEF Has
    <3>2. x # f
      BY <1>3, <2>5, Zenon
    <3>3. QED
      BY <2>4, <3>1, <3>2
  <2>6. Keeps(c, d)
    BY <2>5, Zenon DEF Keeps
  <2>7. QED
    BY <2>3, <2>6 DEF d
<1>4. QED
  BY <1>1, <1>2, <1>3

LEMMA KeepsTransitive ==
    ASSUME NEW c, NEW d, NEW e, Keeps(c, d), Keeps(d, e)
    PROVE  Keeps(c, e)
<1>1. ASSUME NEW g, Has(c.strings, g) PROVE g \in DOMAIN e.strings /\ e.strings[g] = c.strings[g]
  <2>1. g \in DOMAIN d.strings /\ d.strings[g] = c.strings[g]
    BY <1>1, Zenon DEF Keeps
  <2>2. Has(d.strings, g)
    BY <1>1, <2>1, Zenon DEF Has
  <2>3. g \in DOMAIN e.strings /\ e.strings[g] = d.strings[g]
    BY <2>2, Zenon DEF Keeps
  <2>4. QED
    BY <2>1, <2>3, Zenon
<1>2. QED
  BY <1>1, Zenon DEF Keeps

LEMMA WithDefaultsSelects ==
    ASSUME NEW c, NEW layer, NEW place, NEW places, Selects(c, layer, place, places), 0 \in places
    PROVE  Selects(WithDefaults(c), layer, place, places)
<1> DEFINE run == <<"/", "run", "storage">>
           graph == <<"/", "var", "storage">>
           d == storageFallback(c, "runroot", run)
<1>1. IsSequence(run) /\ IsSequence(graph)
  <2>1. run \in Seq({"/", "run", "storage"}) /\ graph \in Seq({"/", "var", "storage"})
    OBVIOUS
  <2> HIDE DEF run, graph
  <2>2. QED
    BY <2>1, Zenon DEF IsSequence
<1>2. "runroot" \in Roots /\ "graphroot" \in Roots
  BY DEF Roots
<1>3. WithDefaults(c) = storageFallback(d, "graphroot", graph)
  BY Zenon DEF WithDefaults
<1> HIDE DEF run, graph
<1>4. Selects(d, layer, place, places)
  BY <1>1, <1>2, FallbackSelects
<1> HIDE DEF d
<1>5. Selects(storageFallback(d, "graphroot", graph), layer, place, places)
  BY <1>1, <1>2, <1>4, FallbackSelects
<1>6. QED
  BY <1>3, <1>5, Zenon

LEMMA RootlessSelects ==
    ASSUME NEW system, NEW layer, NEW place, NEW places, Selects(system, layer, place, places),
           0 \in places
    PROVE  Selects(rootlessStorage(system), layer, place, places)
<1> DEFINE texts == system.strings
           driver == IF Text(system, "driver") \in Overlay \cup {<<"vfs">>, <<"btrfs">>}
                     THEN {"driver"} ELSE {}
           Told(f) == Has(texts, f) \/ IsInvalid(texts, f)
           chown == IF Told("ignore_chown_errors") THEN "ignore_chown_errors"
                    ELSE "overlay.ignore_chown_errors"
           few == [f \in (DOMAIN texts \cap {"rootless_storage_path"}) \cup driver |-> texts[f]]
           kept == [Nothing EXCEPT !.strings = few]
           optioned == IF ~Told(chown) \/ Text(kept, "driver") \notin Overlay THEN kept
                       ELSE Put(kept, "overlay.ignore_chown_errors", texts[chown])
           graphed == storageFallbackValue(optioned, "graphroot", system, "rootless_storage_path")
           graph == Append(dataHome, "storage")
           run == Append(runtimeDir, "containers")
           rooted == storageFallback(graphed, "graphroot", graph)
<1>1. rootlessStorage(system) = IF target.runtime THEN SetRoot(rooted, "runroot", run) ELSE rooted
  BY Zenon DEF rootlessStorage
<1>2. HasTexts(system) /\ Settings(system, layer, place) /\ RootsFrom(system, places)
  BY Zenon DEF Selects
<1>3. driver \subseteq DOMAIN texts
  <2>1. <<>> \notin Overlay \cup {<<"vfs">>, <<"btrfs">>}
    BY DEF Overlay
  <2>2. "driver" \notin DOMAIN texts => Text(system, "driver") = <<>>
    BY Zenon DEF Text
  <2>3. QED
    BY <2>1, <2>2
<1>4. driver \subseteq {"driver"}
  OBVIOUS
<1>5. Told(chown) => chown \in DOMAIN texts
  BY Zenon DEF Has, IsInvalid
<1>6. Moves("ignore_chown_errors", "overlay.ignore_chown_errors")
      /\ \A g : Moves(g, "ignore_chown_errors") => Moves(g, "overlay.ignore_chown_errors")
  BY DEF Moves
<1>7. chown \in {"ignore_chown_errors", "overlay.ignore_chown_errors"}
  OBVIOUS
<1>8. /\ "driver" \notin Roots /\ "ignore_chown_errors" \notin Roots
      /\ "overlay.ignore_chown_errors" \notin Roots
      /\ "graphroot" \in Roots /\ "runroot" \in Roots /\ "rootless_storage_path" \in Roots
  BY DEF Roots
<1>9. IsSequence(graph) /\ IsSequence(run)
  <2>1. graph \in Seq({"/", "home", ".local", "storage"})
    BY DEF dataHome
  <2>2. run \in Seq({"/", "run", "user", "containers"})
    BY DEF runtimeDir
  <2> HIDE DEF graph, run
  <2>3. QED
    BY <2>1, <2>2, Zenon DEF IsSequence
<1> HIDE DEF driver, Told, chown, texts, graph, run
<1>10. /\ DOMAIN few \subseteq DOMAIN texts /\ DOMAIN few \subseteq {"rootless_storage_path", "driver"}
       /\ \A f \in DOMAIN few : few[f] = texts[f]
  BY <1>3, <1>4
<1> HIDE DEF few
<1>11. /\ {"strings", "lists"} \subseteq DOMAIN kept /\ kept.strings = few
       /\ DOMAIN kept.lists = {}
  BY DEF Nothing, NoLayer
<1> HIDE DEF kept
<1>12. Selects(kept, layer, place, places)
  <2>1. HasTexts(kept)
    <3>1. \A f \in DOMAIN texts : IsEntry(texts[f])
      BY <1>2, Zenon DEF HasTexts, texts
    <3>2. QED
      BY <1>10, <1>11, <3>1 DEF HasTexts
  <2>2. Settings(kept, layer, place)
    <3>1. ASSUME NEW f \in DOMAIN kept.strings \ Roots
          PROVE  kept.strings[f].source = place /\ SaidBy(kept.strings[f], layer, f)
      <4>1. f \in DOMAIN texts \ Roots /\ kept.strings[f] = texts[f]
        BY <1>10, <1>11, <3>1
      <4>2. texts[f].source = place /\ SaidBy(texts[f], layer, f)
        BY <1>2, <4>1, Zenon DEF Settings, texts
      <4>3. QED
        BY <4>1, <4>2, Zenon
    <3>2. QED
      BY <1>11, <3>1, Zenon DEF Settings
  <2>3. RootsFrom(kept, places)
    <3>1. ASSUME NEW f \in DOMAIN kept.strings \cap Roots
          PROVE  kept.strings[f].source \in places /\ IsSequence(kept.strings[f].value)
      <4>1. f \in DOMAIN texts \cap Roots /\ kept.strings[f] = texts[f]
        BY <1>10, <1>11, <3>1
      <4>2. texts[f].source \in places /\ IsSequence(texts[f].value)
        BY <1>2, <4>1, Zenon DEF RootsFrom, texts
      <4>3. QED
        BY <4>1, <4>2, Zenon
    <3>2. QED
      BY <3>1, Zenon DEF RootsFrom
  <2>4. QED
    BY <2>1, <2>2, <2>3, Zenon DEF Selects
<1>13. Selects(optioned, layer, place, places)
  <2> DEFINE f == "overlay.ignore_chown_errors"
             entry == texts[chown]
             d == Put(kept, f, entry)
  <2>1. CASE optioned = kept
    BY <1>12, <2>1, Zenon
  <2>2. CASE optioned = d /\ Told(chown)
    <3>1. chown \in DOMAIN texts \ Roots
      BY <1>5, <1>7, <1>8, <2>2
    <3>2. entry.source = place /\ SaidBy(entry, layer, chown) /\ IsEntry(entry)
      BY <1>2, <3>1, Zenon DEF Settings, texts, HasTexts
    <3>3. SaidBy(entry, layer, f)
      <4>1. PICK g \in DOMAIN layer.strings :
              /\ Moves(g, chown)
              /\ entry.value = layer.strings[g].value /\ entry.invalid = layer.strings[g].invalid
        BY <3>2, Zenon DEF SaidBy
      <4>2. Moves(g, f)
        BY <1>6, <1>7, <4>1
      <4> HIDE DEF entry, f
      <4>3. QED
        BY <4>1, <4>2, Zenon DEF SaidBy
    <3>4. f \notin Roots
      BY <1>8
    <3>5. HasTexts(kept) /\ Settings(kept, layer, place) /\ RootsFrom(kept, places)
      BY <1>12, Zenon DEF Selects
    <3> HIDE DEF entry, f
    <3>6. /\ HasTexts(d) /\ d.lists = kept.lists
          /\ DOMAIN d.strings = DOMAIN kept.strings \cup {f} /\ d.strings[f] = entry
          /\ \A g \in DOMAIN kept.strings : g # f => d.strings[g] = kept.strings[g]
      BY <3>2, <3>5, PutIs
    <3> HIDE DEF d
    <3>7. Settings(d, layer, place)
      <4>1. ASSUME NEW g \in DOMAIN d.strings \ Roots
            PROVE  d.strings[g].source = place /\ SaidBy(d.strings[g], layer, g)
        <5>1. CASE g = f
          BY <3>2, <3>3, <3>6, <5>1, Zenon
        <5>2. CASE g # f
          <6>1. g \in DOMAIN kept.strings \ Roots /\ d.strings[g] = kept.strings[g]
            BY <3>6, <4>1, <5>2
          <6>2. kept.strings[g].source = place /\ SaidBy(kept.strings[g], layer, g)
            BY <3>5, <6>1, Zenon DEF Settings
          <6>3. QED
            BY <6>1, <6>2, Zenon
        <5>3. QED
          BY <5>1, <5>2
      <4>2. \A g \in DOMAIN d.lists : d.lists[g].values = layer.lists[g].values
        BY <3>5, <3>6, Zenon DEF Settings
      <4>3. QED
        BY <4>1, <4>2, Zenon DEF Settings
    <3>8. RootsFrom(d, places)
      <4>1. ASSUME NEW g \in DOMAIN d.strings \cap Roots
            PROVE  g \in DOMAIN kept.strings \cap Roots /\ d.strings[g] = kept.strings[g]
        BY <3>4, <3>6, <4>1
      <4>2. QED
        BY <3>5, <4>1, Zenon DEF RootsFrom
    <3>9. Selects(d, layer, place, places)
      BY <3>6, <3>7, <3>8, Zenon DEF Selects
    <3>10. QED
      BY <2>2, <3>9, Zenon
  <2>3. QED
    BY <2>1, <2>2
<1> HIDE DEF optioned
<1>14. Selects(graphed, layer, place, places)
  BY <1>2, <1>8, <1>13, FallbackValueSelects
<1> HIDE DEF graphed
<1>15. Selects(rooted, layer, place, places)
  BY <1>8, <1>9, <1>14, FallbackSelects
<1> HIDE DEF rooted
<1>16. Selects(SetRoot(rooted, "runroot", run), layer, place, places)
  BY <1>8, <1>9, <1>15, SetRootSelects
<1>17. QED
  BY <1>1, <1>15, <1>16, Zenon

LEMMA BaselineSelects ==
    ASSUME NEW c, NEW layer, NEW place, NEW places, Selects(c, layer, place, places), 0 \in places
    PROVE  Selects(Baseline(c), layer, place, places)
<1>1. Selects(WithDefaults(c), layer, place, places)
  BY WithDefaultsSelects
<1>2. Selects(rootlessStorage(WithDefaults(c)), layer, place, places)
  BY <1>1, RootlessSelects
<1>3. QED
  BY <1>1, <1>2, Zenon DEF Baseline

LEMMA ReplacementSelects ==
    ASSUME NEW c, NEW layer, NEW place, NEW places, Selects(c, layer, place, places),
           NEW old, HasTexts(old), RootsFrom(old, places)
    PROVE  Selects(Replacement(c, old), layer, place, places) /\ Keeps(c, Replacement(c, old))
<1> DEFINE rooted == storageFallbackValue(c, "runroot", old, "runroot")
           own == storageFallbackValue(rooted, "graphroot", c, "rootless_storage_path")
           other == storageFallbackValue(rooted, "graphroot", old, "graphroot")
<1>1. Replacement(c, old) =
        IF target.root /\ legacy THEN c
        ELSE IF Has(c.strings, "rootless_storage_path") THEN own ELSE other
  BY Zenon DEF Replacement
<1>2. "graphroot" \in Roots /\ "runroot" \in Roots /\ "rootless_storage_path" \in Roots
  BY DEF Roots
<1>3. HasTexts(c) /\ RootsFrom(c, places)
  BY Zenon DEF Selects
<1>4. Selects(rooted, layer, place, places) /\ Keeps(c, rooted)
  BY <1>2, FallbackValueSelects
<1> HIDE DEF rooted
<1>5. Selects(own, layer, place, places) /\ Keeps(rooted, own)
  BY <1>2, <1>3, <1>4, FallbackValueSelects
<1>6. Selects(other, layer, place, places) /\ Keeps(rooted, other)
  BY <1>2, <1>4, FallbackValueSelects
<1> HIDE DEF own, other
<1>7. Keeps(c, own) /\ Keeps(c, other)
  BY <1>4, <1>5, <1>6, KeepsTransitive
<1>8. Keeps(c, c)
  BY Zenon DEF Keeps, Has
<1>9. QED
  BY <1>1, <1>5, <1>6, <1>7, <1>8, Zenon

-----------------------------------------------------------------------------
(* The storage configuration through the collection.                       *)
ReadOf(sources) == {i \in DOMAIN sources : sources[i].phase \in {"baseline", "override"}}

RootsNamed(c, layer, place) ==
    \A f \in DOMAIN c.strings \cap Roots : Has(layer.strings, f) => c.strings[f].source = place

(* What was chosen from the file read last.                                *)
ChosenFrom(c, sources) ==
    LET last == Max(ReadOf(sources))
    IN  /\ ReadOf(sources) # {}
        /\ Selects(c, sources[last].layer, last, ReadOf(sources) \cup {0})
        /\ sources[last].phase = "override" => RootsNamed(c, sources[last].layer, last)

(* What the report may claim of it once its roots are expanded.            *)
OneSelection(c, sources, problems, root) ==
    LET last == Max(ReadOf(sources))
        layer == sources[last].layer
    IN  /\ \A f \in DOMAIN c.strings \ Roots :
             /\ c.strings[f].source = last
             /\ \E g \in DOMAIN layer.strings :
                  /\ Moves(g, f) /\ c.strings[f].invalid = layer.strings[g].invalid
                  /\ \/ c.strings[f].value = layer.strings[g].value
                     \/ f = "driver" /\ {c.strings[f].value, layer.strings[g].value} = Overlay
        /\ \A f \in DOMAIN c.lists : c.lists[f].values = layer.lists[f].values
        /\ \A f \in DOMAIN c.strings \cap Roots : c.strings[f].source \in ReadOf(sources) \cup {0}
        /\ sources[last].phase = "override" => RootsNamed(c, layer, last)
        /\ ~root => problems \cap {"runroot", "graphroot"} = {}

StorageParts == {"at", "selection", "parse", "complete", "sources", "baseline", "final", "config",
                 "found", "problems"}

HasStorage(s) == StorageParts \subseteq DOMAIN s /\ IsSequence(s.sources)

(* Before a file is read for its settings, once one was, and at the end.   *)
StorageSound(s, root) ==
    /\ HasStorage(s)
    /\ s.at \in {"start", "candidates", "system", "user", "baseline"} =>
         ~s.found /\ ReadOf(s.sources) = {}
    /\ s.at \in {"final", "override"} => ~s.found /\ ChosenFrom(s.config, s.sources)
    /\ s.at = "expand" =>
         ~s.found /\ (s.parse /\ s.selection => ChosenFrom(s.config, s.sources))
    /\ s.found => OneSelection(s.config, s.sources, s.problems, root)

StorageInv == ConfigInv /\ StorageSound(storage, target.root)

LEMMA SelectsMore ==
    ASSUME NEW c, NEW layer, NEW place, NEW few, NEW many, Selects(c, layer, place, few),
           few \subseteq many
    PROVE  Selects(c, layer, place, many)
<1>1. HasTexts(c) /\ Settings(c, layer, place) /\ RootsFrom(c, few)
  BY Zenon DEF Selects
<1>2. RootsFrom(c, many)
  BY <1>1, Zenon DEF RootsFrom
<1>3. QED
  BY <1>1, <1>2, Zenon DEF Selects

LEMMA ReadOfMore ==
    ASSUME NEW sources, IsSequence(sources), NEW s
    PROVE  /\ ReadOf(sources) \subseteq 1..Len(sources) /\ Len(sources) \in Nat
           /\ ReadOf(Append(sources, s)) = ReadOf(sources)
                \cup (IF s.phase \in {"baseline", "override"} THEN {Len(sources) + 1} ELSE {})
<1> DEFINE more == Append(sources, s)
           n == Len(sources)
           phases == {"baseline", "override"}
<1>1. /\ n \in Nat /\ DOMAIN sources = 1..n /\ DOMAIN more = 1..(n + 1)
      /\ more[n + 1] = s /\ \A i \in 1..n : more[i] = sources[i]
  BY OneSourceMore
<1>2. /\ ReadOf(sources) = {i \in DOMAIN sources : sources[i].phase \in phases}
      /\ ReadOf(more) = {i \in DOMAIN more : more[i].phase \in phases}
  BY Zenon DEF ReadOf
<1> HIDE DEF more, n, phases
<1>3. ReadOf(sources) \subseteq 1..n
  BY <1>1, <1>2
<1>4. ReadOf(more) = ReadOf(sources) \cup (IF s.phase \in phases THEN {n + 1} ELSE {})
  BY <1>1, <1>2
<1>5. QED
  BY <1>1, <1>3, <1>4 DEF more, n, phases

LEMMA LastRead ==
    ASSUME NEW sources, IsSequence(sources), NEW s
    PROVE  /\ s.phase \in {"baseline", "override"} =>
                /\ Max(ReadOf(Append(sources, s))) = Len(sources) + 1
                /\ ReadOf(Append(sources, s)) # {}
           /\ s.phase \notin {"baseline", "override"} /\ ReadOf(sources) # {} =>
                /\ ReadOf(Append(sources, s)) = ReadOf(sources)
                /\ Max(ReadOf(sources)) \in 1..Len(sources)
<1> DEFINE more == Append(sources, s)
           n == Len(sources)
           old == ReadOf(sources)
           new == ReadOf(more)
           phases == {"baseline", "override"}
<1>1. /\ old \subseteq 1..n /\ n \in Nat
      /\ new = old \cup (IF s.phase \in phases THEN {n + 1} ELSE {})
  BY ReadOfMore
<1> HIDE DEF more, n, old, new, phases
<1>2. CASE s.phase \in phases
  <2>1. new = old \cup {n + 1}
    BY <1>1, <1>2
  <2>2. new \in SUBSET (0..(n + 1)) /\ new # {} /\ n + 1 \in Nat /\ n + 1 \in new
    BY <1>1, <2>1
  <2>3. Max(new) \in new /\ \A k \in new : k <= Max(new)
    BY <2>2, MaxIsGreatest
  <2>4. Max(new) \in 0..(n + 1) /\ n + 1 <= Max(new)
    BY <2>2, <2>3
  <2>5. Max(new) = n + 1
    BY <1>1, <2>4
  <2>6. QED
    BY <1>2, <2>2, <2>5 DEF new, more, n, phases
<1>3. CASE s.phase \notin phases
  <2>1. new = old
    BY <1>1, <1>3
  <2>2. ASSUME old # {} PROVE Max(old) \in 1..n
    <3>1. old \in SUBSET (0..n)
      BY <1>1
    <3>2. Max(old) \in old
      BY <1>1, <2>2, <3>1, MaxIsGreatest
    <3>3. QED
      BY <1>1, <3>2
  <2>3. QED
    BY <1>3, <2>1, <2>2 DEF new, old, more, n, phases
<1>4. QED
  BY <1>2, <1>3

(* Looking for a file, or reading one that is not taken, leaves the choice. *)
LEMMA ChosenLater ==
    ASSUME NEW sources, IsSequence(sources), NEW s, s.phase \notin {"baseline", "override"},
           NEW c, ChosenFrom(c, sources)
    PROVE  ChosenFrom(c, Append(sources, s))
<1> DEFINE more == Append(sources, s)
           last == Max(ReadOf(sources))
<1>1. /\ ReadOf(sources) # {}
      /\ Selects(c, sources[last].layer, last, ReadOf(sources) \cup {0})
      /\ sources[last].phase = "override" => RootsNamed(c, sources[last].layer, last)
  BY Zenon DEF ChosenFrom
<1>2. ReadOf(more) = ReadOf(sources) /\ last \in 1..Len(sources)
  BY <1>1, LastRead
<1>3. \A i \in 1..Len(sources) : more[i] = sources[i]
  BY OneSourceMore
<1> HIDE DEF more, last
<1>4. more[last] = sources[last]
  BY <1>2, <1>3
<1>5. Max(ReadOf(more)) = last
  BY <1>2, Zenon DEF last
<1>6. ChosenFrom(c, more)
  BY <1>1, <1>2, <1>4, <1>5, Zenon DEF ChosenFrom
<1>7. QED
  BY <1>6 DEF more

(* A source that is taken.                                                  *)
Picks(c, sources, s, place, places) ==
    /\ s.phase \in {"baseline", "override"} /\ place = Len(sources) + 1
    /\ places \subseteq ReadOf(sources) \cup {place, 0}
    /\ Selects(c, s.layer, place, places)
    /\ s.phase = "override" => RootsNamed(c, s.layer, place)

LEMMA ChosenNow ==
    ASSUME NEW sources, IsSequence(sources), NEW s, NEW place, NEW c, NEW places,
           Picks(c, sources, s, place, places)
    PROVE  ChosenFrom(c, Append(sources, s))
<1> DEFINE more == Append(sources, s)
           read == ReadOf(more)
<1>0. /\ s.phase \in {"baseline", "override"} /\ place = Len(sources) + 1
      /\ places \subseteq ReadOf(sources) \cup {place, 0}
      /\ Selects(c, s.layer, place, places)
      /\ s.phase = "override" => RootsNamed(c, s.layer, place)
  BY Zenon DEF Picks
<1>1. Max(read) = place /\ read # {}
  BY <1>0, LastRead
<1>2. read = ReadOf(sources) \cup {place}
  BY <1>0, ReadOfMore
<1>3. more[place] = s
  BY <1>0, OneSourceMore
<1> HIDE DEF more, read
<1>4. places \subseteq read \cup {0}
  BY <1>0, <1>2
<1>5. Selects(c, s.layer, place, read \cup {0})
  BY <1>0, <1>4, SelectsMore
<1>6. ChosenFrom(c, more)
  BY <1>0, <1>1, <1>3, <1>5, Zenon DEF ChosenFrom, read
<1>7. QED
  BY <1>6 DEF more

(* ExpandRoots. *)
LEMMA ExpandedText ==
    ASSUME NEW text, IsSequence(text), text # <<>>
    PROVE  Expanded(text) # <<>>
<1>1. PICK S : text \in Seq(S)
  BY DEF IsSequence
<1> DEFINE T == S \cup {"/", "home"}
           home == <<"/", "home">>
<1>2. text \in Seq(T) /\ home \in Seq(T) /\ Len(home) = 2
  BY <1>1
<1> HIDE DEF T, home
<1>3. Tail(text) \in Seq(T)
  BY <1>2
<1>4. Len(home \o Tail(text)) = 2 + Len(Tail(text)) /\ Len(Tail(text)) \in Nat
  <2> DEFINE rest == Tail(text)
  <2> HIDE DEF rest
  <2>1. rest \in Seq(T)
    BY <1>3 DEF rest
  <2>2. Len(home \o rest) = Len(home) + Len(rest)
    BY <1>2, <2>1, ConcatProperties
  <2>4. Len(rest) \in Nat
    BY <2>1
  <2>3. QED
    BY <1>2, <2>2, <2>4 DEF rest
<1>5. Len(home \o Tail(text)) # 0
  BY <1>4
<1>6. Len(<<>>) = 0
  OBVIOUS
<1>7. home \o Tail(text) # <<>>
  BY <1>5, <1>6
<1>8. Expanded(text) = IF text # <<>> /\ text[1] = "$HOME" THEN home \o Tail(text) ELSE text
  BY Zenon DEF Expanded, home
<1>9. QED
  BY <1>7, <1>8

LEMMA ExpandIs ==
    ASSUME NEW c, HasTexts(c)
    PROVE  LET d == ExpandRoots(c) IN
           /\ d.lists = c.lists /\ DOMAIN d.strings = DOMAIN c.strings
           /\ \A f \in DOMAIN c.strings :
                /\ d.strings[f].source = c.strings[f].source
                /\ d.strings[f].invalid = c.strings[f].invalid
                /\ f \in Roots => d.strings[f].value = Expanded(c.strings[f].value)
                /\ f \notin Roots =>
                     \/ d.strings[f].value = c.strings[f].value
                     \/ /\ f = "driver" /\ c.strings[f].value = <<"overlay2">>
                        /\ d.strings[f].value = <<"overlay">>
<1> DEFINE old == c.strings
           root(f) == [old[f] EXCEPT !.value = Expanded(@)]
           other(f) == [old[f] EXCEPT !.value = <<"overlay">>]
           one(f) == CASE f \in Roots -> root(f)
                       [] f = "driver" /\ old[f].value = <<"overlay2">> -> other(f)
                       [] OTHER -> old[f]
           new == [f \in DOMAIN old |-> one(f)]
           d == ExpandRoots(c)
<1>1. d = [c EXCEPT !.strings = new]
  BY Zenon DEF ExpandRoots
<1>2. {"strings", "lists"} \subseteq DOMAIN c /\ \A f \in DOMAIN old : IsEntry(old[f])
  BY DEF HasTexts
<1>3. d.strings = new /\ d.lists = c.lists
  <2> HIDE DEF new, d
  <2>1. QED
    BY <1>1, <1>2
<1>4. ASSUME NEW f \in DOMAIN old
      PROVE  /\ one(f).source = old[f].source /\ one(f).invalid = old[f].invalid
             /\ f \in Roots => one(f).value = Expanded(old[f].value)
             /\ f \notin Roots =>
                  \/ one(f).value = old[f].value
                  \/ /\ f = "driver" /\ old[f].value = <<"overlay2">>
                     /\ one(f).value = <<"overlay">>
  <2> DEFINE entry == old[f]
             value == Expanded(entry.value)
             driver == <<"overlay">>
             second == <<"overlay2">>
             a == root(f)
             b == other(f)
  <2>1. a = [entry EXCEPT !.value = value] /\ b = [entry EXCEPT !.value = driver]
    OBVIOUS
  <2>2. {"value", "invalid", "source"} \subseteq DOMAIN entry
    BY <1>2 DEF IsEntry
  <2>3. one(f) = CASE f \in Roots -> a [] f = "driver" /\ entry.value = second -> b
                   [] OTHER -> entry
    OBVIOUS
  <2> HIDE DEF value, driver, second, a, b, one
  <2>4. /\ a.value = value /\ a.source = entry.source /\ a.invalid = entry.invalid
        /\ b.value = driver /\ b.source = entry.source /\ b.invalid = entry.invalid
    <3> HIDE DEF entry
    <3>1. QED
      BY <2>1, <2>2
  <2>5. CASE f \in Roots
    <3>1. one(f) = a
      <4>1. "driver" \notin Roots
        BY DEF Roots
      <4>2. QED
        BY <2>3, <2>5, <4>1
    <3>2. QED
      BY <2>4, <2>5, <3>1, Zenon DEF entry, value
  <2>6. CASE f \notin Roots /\ f = "driver" /\ entry.value = second
    <3>1. one(f) = b
      BY <2>3, <2>6
    <3>2. QED
      BY <2>4, <2>6, <3>1, Zenon DEF entry, driver, second
  <2>7. CASE f \notin Roots /\ ~(f = "driver" /\ entry.value = second)
    <3>1. one(f) = entry
      BY <2>3, <2>7
    <3>2. QED
      BY <2>7, <3>1, Zenon DEF entry
  <2>8. QED
    BY <2>5, <2>6, <2>7, Zenon
<1> HIDE DEF one
<1>5. DOMAIN new = DOMAIN old /\ \A f \in DOMAIN old : new[f] = one(f)
  OBVIOUS
<1> HIDE DEF new, d
<1>6. /\ d.lists = c.lists /\ DOMAIN d.strings = DOMAIN old
      /\ \A f \in DOMAIN old :
                /\ d.strings[f].source = old[f].source
                /\ d.strings[f].invalid = old[f].invalid
                /\ f \in Roots => d.strings[f].value = Expanded(old[f].value)
                /\ f \notin Roots =>
                     \/ d.strings[f].value = old[f].value
                     \/ /\ f = "driver" /\ old[f].value = <<"overlay2">>
                        /\ d.strings[f].value = <<"overlay">>
  BY <1>3, <1>4, <1>5, Zenon
<1>7. QED
  BY <1>6 DEF d

LEMMA ExpandSettings ==
    ASSUME NEW c, NEW layer, NEW place, NEW places, Selects(c, layer, place, places)
    PROVE  LET d == ExpandRoots(c) IN
           /\ \A f \in DOMAIN d.strings \ Roots :
                /\ d.strings[f].source = place
                /\ \E g \in DOMAIN layer.strings :
                     /\ Moves(g, f) /\ d.strings[f].invalid = layer.strings[g].invalid
                     /\ \/ d.strings[f].value = layer.strings[g].value
                        \/ f = "driver" /\ {d.strings[f].value, layer.strings[g].value} = Overlay
           /\ \A f \in DOMAIN d.lists : d.lists[f].values = layer.lists[f].values
           /\ \A f \in DOMAIN d.strings \cap Roots : d.strings[f].source \in places
<1> DEFINE d == ExpandRoots(c)
           old == c.strings
           new == d.strings
           Tells(f, g) == \/ new[f].value = layer.strings[g].value
                          \/ f = "driver" /\ {new[f].value, layer.strings[g].value} = Overlay
           Said2(f, g) == Moves(g, f) /\ new[f].invalid = layer.strings[g].invalid /\ Tells(f, g)
<1>1. HasTexts(c) /\ Settings(c, layer, place) /\ RootsFrom(c, places)
  BY Zenon DEF Selects
<1>2. /\ d.lists = c.lists /\ DOMAIN new = DOMAIN old
      /\ \A f \in DOMAIN old :
                /\ new[f].source = old[f].source /\ new[f].invalid = old[f].invalid
                /\ f \notin Roots =>
                     \/ new[f].value = old[f].value
                     \/ /\ f = "driver" /\ old[f].value = <<"overlay2">>
                        /\ new[f].value = <<"overlay">>
  BY <1>1, ExpandIs
<1> HIDE DEF d, new, old
<1>3. ASSUME NEW f \in DOMAIN new \ Roots
      PROVE  new[f].source = place /\ \E g \in DOMAIN layer.strings : Said2(f, g)
  <2>1. f \in DOMAIN old \ Roots
    BY <1>2
  <2>2. old[f].source = place /\ SaidBy(old[f], layer, f)
    BY <1>1, <2>1, Zenon DEF Settings, old
  <2>3. PICK g \in DOMAIN layer.strings :
          /\ Moves(g, f)
          /\ old[f].value = layer.strings[g].value /\ old[f].invalid = layer.strings[g].invalid
    BY <2>2, Zenon DEF SaidBy
  <2>4. Tells(f, g)
    <3>1. CASE new[f].value = old[f].value
      BY <2>3, <3>1, Zenon
    <3>2. CASE /\ f = "driver" /\ old[f].value = <<"overlay2">>
               /\ new[f].value = <<"overlay">>
      <4>1. {<<"overlay">>, <<"overlay2">>} = Overlay
        BY DEF Overlay
      <4>2. QED
        BY <2>3, <3>2, <4>1, Zenon
    <3>3. QED
      BY <1>2, <2>1, <3>1, <3>2
  <2>5. new[f].source = place /\ new[f].invalid = layer.strings[g].invalid
    BY <1>2, <2>1, <2>2, <2>3
  <2> HIDE DEF Tells
  <2>6. QED
    BY <2>3, <2>4, <2>5, Zenon
<1>4. \A f \in DOMAIN d.lists : d.lists[f].values = layer.lists[f].values
  BY <1>1, <1>2, Zenon DEF Settings
<1>5. ASSUME NEW f \in DOMAIN new \cap Roots PROVE new[f].source \in places
  <2>1. f \in DOMAIN old \cap Roots /\ new[f].source = old[f].source
    BY <1>2
  <2>2. old[f].source \in places
    BY <1>1, <2>1, Zenon DEF RootsFrom, old
  <2>3. QED
    BY <2>1, <2>2, Zenon
<1>6. QED
  BY <1>3, <1>4, <1>5, Zenon DEF d, new

LEMMA ExpandProblems ==
    ASSUME NEW c, HasTexts(c), NEW places, RootsFrom(c, places), ~RootsFail(c), ~target.root
    PROVE  Problems(ExpandRoots(c)) \cap {"runroot", "graphroot"} = {}
<1> DEFINE d == ExpandRoots(c)
           lacking == {f \in {"runroot", "graphroot"} : ~Has(d.strings, f)}
           stores == {f \in {"imagestore"} : Has(d.strings, f) /\ Text(d, f) = Text(d, "graphroot")}
           options == {p \in {"storage_option_invalid"} : storageOptionsInvalid(d)}
<1>1. Problems(d) = lacking \cup stores \cup options
  BY Zenon DEF Problems
<1>2. stores \subseteq {"imagestore"} /\ options \subseteq {"storage_option_invalid"}
  OBVIOUS
<1>3. ASSUME NEW f \in {"runroot", "graphroot"} PROVE Has(d.strings, f)
  <2>1. Has(c.strings, f)
    BY Zenon DEF RootsFail
  <2>2. f \in DOMAIN c.strings /\ c.strings[f].value # <<>>
    BY <2>1, Zenon DEF Has
  <2>3. f \in Roots
    BY DEF Roots
  <2>4. DOMAIN d.strings = DOMAIN c.strings /\ d.strings[f].value = Expanded(c.strings[f].value)
    BY <2>2, <2>3, ExpandIs
  <2>5. f \in DOMAIN c.strings \cap Roots
    BY <2>2, <2>3
  <2>6. IsSequence(c.strings[f].value)
    BY <2>5, Zenon DEF RootsFrom
  <2>7. Expanded(c.strings[f].value) # <<>>
    BY <2>2, <2>6, ExpandedText
  <2> HIDE DEF d
  <2>8. QED
    BY <2>2, <2>4, <2>7, Zenon DEF Has
<1>4. lacking = {}
  <2> HIDE DEF d
  <2>1. QED
    BY <1>3
<1> HIDE DEF lacking, stores, options
<1>5. QED
  BY <1>1, <1>2, <1>4 DEF d

LEMMA ChosenExpands ==
    ASSUME NEW c, NEW sources, ChosenFrom(c, sources), ~RootsFail(c)
    PROVE  OneSelection(ExpandRoots(c), sources, Problems(ExpandRoots(c)), target.root)
<1> DEFINE d == ExpandRoots(c)
           last == Max(ReadOf(sources))
           layer == sources[last].layer
           places == ReadOf(sources) \cup {0}
           problems == Problems(d)
<1>1. Selects(c, layer, last, places)
      /\ (sources[last].phase = "override" => RootsNamed(c, layer, last))
  BY Zenon DEF ChosenFrom
<1>2. HasTexts(c) /\ RootsFrom(c, places)
  BY <1>1, Zenon DEF Selects
<1>3. ~target.root => problems \cap {"runroot", "graphroot"} = {}
  BY <1>2, ExpandProblems
<1>4. /\ \A f \in DOMAIN d.strings \ Roots :
           /\ d.strings[f].source = last
           /\ \E g \in DOMAIN layer.strings :
                /\ Moves(g, f) /\ d.strings[f].invalid = layer.strings[g].invalid
                /\ \/ d.strings[f].value = layer.strings[g].value
                   \/ f = "driver" /\ {d.strings[f].value, layer.strings[g].value} = Overlay
      /\ \A f \in DOMAIN d.lists : d.lists[f].values = layer.lists[f].values
      /\ \A f \in DOMAIN d.strings \cap Roots : d.strings[f].source \in places
  <2> HIDE DEF last, layer, places
  <2>1. QED
    BY <1>1, ExpandSettings
<1>5. sources[last].phase = "override" => RootsNamed(d, layer, last)
  <2>1. ASSUME RootsNamed(c, layer, last), NEW f \in DOMAIN d.strings \cap Roots, Has(layer.strings, f)
        PROVE  d.strings[f].source = last
    <3>1. DOMAIN d.strings = DOMAIN c.strings
          /\ \A g \in DOMAIN c.strings : d.strings[g].source = c.strings[g].source
      BY <1>2, ExpandIs
    <3> HIDE DEF d, last, layer
    <3>2. f \in DOMAIN c.strings \cap Roots
      BY <3>1
    <3>3. c.strings[f].source = last
      BY <2>1, <3>2, Zenon DEF RootsNamed
    <3>4. QED
      BY <3>1, <3>2, <3>3
  <2> HIDE DEF d, last, layer
  <2>2. QED
    BY <1>1, <2>1, Zenon DEF RootsNamed
<1> HIDE DEF d, problems
<1>6. OneSelection(d, sources, problems, target.root)
  BY <1>3, <1>4, <1>5, Zenon DEF OneSelection
<1>7. QED
  BY <1>6, Zenon DEF d, problems

(* What a look for a file and a reading of it leave behind. *)
AddsSource(s, t, source) ==
    /\ HasStorage(t) /\ t.sources = Append(s.sources, source)
    /\ t.at = s.at /\ t.config = s.config /\ (t.found <=> s.found)

Looked(s, t) == \E source : source.phase = "selection" /\ AddsSource(s, t, source)

Read(s, t, phase, layer) ==
    \E source : source.phase = phase /\ source.layer = layer /\ AddsSource(s, t, source)

ReadLayer(p) ==
    IF FileStatus(p) = "parsed" THEN Layer(host[p].doc, StorageFields, ~legacy) ELSE NoLayer

LEMMA SourceRecorded ==
    ASSUME NEW s, HasStorage(s), NEW source
    PROVE  AddsSource(s, [s EXCEPT !.sources = Append(@, source)], source)
<1> DEFINE more == Append(s.sources, source)
           t == [s EXCEPT !.sources = more]
<1>1. [s EXCEPT !.sources = Append(@, source)] = t
  OBVIOUS
<1>2. StorageParts \subseteq DOMAIN s /\ IsSequence(s.sources)
  BY Zenon DEF HasStorage
<1>3. IsSequence(more)
  BY <1>2, OneSourceMore
<1>4. /\ StorageParts \subseteq DOMAIN t /\ t.sources = more
      /\ t.at = s.at /\ t.config = s.config /\ (t.found <=> s.found)
  <2> HIDE DEF more
  <2>1. QED
    BY <1>2 DEF StorageParts
<1> HIDE DEF t, more
<1>5. HasStorage(t)
  BY <1>3, <1>4, Zenon DEF HasStorage
<1>6. AddsSource(s, t, source)
  BY <1>4, <1>5, Zenon DEF AddsSource, more
<1>7. QED
  BY <1>1, <1>6, Zenon

LEMMA RecordedFlags ==
    ASSUME NEW s, NEW t, NEW source, AddsSource(s, t, source), NEW v, NEW w
    PROVE  AddsSource(s, [t EXCEPT !.parse = v, !.complete = w], source)
<1> DEFINE b == [t EXCEPT !.parse = v, !.complete = w]
<1>1. HasStorage(t) /\ t.sources = Append(s.sources, source) /\ t.config = s.config
      /\ t.at = s.at /\ (t.found <=> s.found)
  BY Zenon DEF AddsSource
<1>2. StorageParts \subseteq DOMAIN t /\ IsSequence(t.sources)
  BY <1>1, Zenon DEF HasStorage
<1>3. /\ StorageParts \subseteq DOMAIN b /\ b.sources = t.sources /\ b.config = t.config
      /\ b.at = t.at /\ (b.found <=> t.found)
  BY <1>2 DEF StorageParts
<1> HIDE DEF b
<1>4. HasStorage(b)
  BY <1>2, <1>3, Zenon DEF HasStorage
<1>5. AddsSource(s, b, source)
  BY <1>1, <1>3, <1>4, Zenon DEF AddsSource
<1>6. QED
  BY <1>5 DEF b

LEMMA RecordedFailure ==
    ASSUME NEW s, NEW t, NEW source, AddsSource(s, t, source), NEW complete, NEW parse, NEW selection
    PROVE  AddsSource(s, [t EXCEPT !.complete = complete, !.parse = parse, !.selection = selection],
                    source)
<1> DEFINE a == [t EXCEPT !.complete = complete, !.parse = parse, !.selection = selection]
<1>1. HasStorage(t) /\ t.sources = Append(s.sources, source) /\ t.config = s.config
      /\ t.at = s.at /\ (t.found <=> s.found)
  BY Zenon DEF AddsSource
<1>2. StorageParts \subseteq DOMAIN t /\ IsSequence(t.sources)
  BY <1>1, Zenon DEF HasStorage
<1>3. /\ StorageParts \subseteq DOMAIN a /\ a.sources = t.sources /\ a.config = t.config
      /\ a.at = t.at /\ (a.found <=> t.found)
  BY <1>2 DEF StorageParts
<1> HIDE DEF a
<1>4. HasStorage(a)
  BY <1>2, <1>3, Zenon DEF HasStorage
<1>5. AddsSource(s, a, source)
  BY <1>1, <1>3, <1>4, Zenon DEF AddsSource
<1>6. QED
  BY <1>5 DEF a

LEMMA ExistsLooks ==
    ASSUME HasStorage(storage), NEW p
    PROVE  Looked(storage, AfterExists(p))
<1> DEFINE error == Ended(StatError(host, p))
           status == CASE error = "ok" -> "available" [] error = "ENOENT" -> "absent"
                       [] OTHER -> FailureStatus(error)
           source == [path |-> p, phase |-> "selection", status |-> status, selected |-> FALSE,
                      applied |-> FALSE, layer |-> NoLayer]
           s == [storage EXCEPT !.sources = Append(@, source)]
           ended == error = "ECANCELED"
           selection == s.selection /\ ended
           t == [s EXCEPT !.complete = FALSE, !.parse = FALSE, !.selection = selection]
<1>1. AfterExists(p) = IF error \in {"ok", "ENOENT"} THEN s ELSE t
  BY Zenon DEF AfterExists
<1>2. source.phase = "selection"
  <2> HIDE DEF status
  <2>1. QED
    OBVIOUS
<1> HIDE DEF source
<1>3. AddsSource(storage, s, source)
  BY SourceRecorded
<1> HIDE DEF s, selection
<1>4. AddsSource(storage, t, source)
  BY <1>3, RecordedFailure
<1> HIDE DEF t
<1>5. Looked(storage, s) /\ Looked(storage, t)
  BY <1>2, <1>3, <1>4, Zenon DEF Looked
<1>6. QED
  BY <1>1, <1>5, Zenon

LEMMA ReadReads ==
    ASSUME HasStorage(storage), NEW p, NEW phase
    PROVE  /\ Read(storage, AfterRead(p, phase), phase, ReadLayer(p))
           /\ AfterRead(p, phase).parse => FileStatus(p) \in {"absent", "parsed"}
<1> DEFINE status == FileStatus(p)
           intact == status \in {"absent", "parsed"}
           taken == phase # "candidate"
           applied == status = "parsed" /\ phase # "candidate" /\ storage.parse /\ storage.selection
           layer == ReadLayer(p)
           source == [path |-> p, phase |-> phase, status |-> status, selected |-> taken,
                      applied |-> applied, layer |-> layer]
           s == [storage EXCEPT !.sources = Append(@, source)]
           parse == storage.parse /\ intact
           complete == storage.complete /\ (intact \/ status \in {"malformed", "invalid"})
           t == [s EXCEPT !.parse = parse, !.complete = complete]
<1>1. AfterRead(p, phase) = [storage EXCEPT !.sources = Append(@, source), !.parse = @ /\ intact,
                 !.complete = @ /\ (intact \/ status \in {"malformed", "invalid"})]
  BY Zenon DEF AfterRead, ReadLayer
<1>2. AfterRead(p, phase) = t
  <2> DEFINE full == intact \/ status \in {"malformed", "invalid"}
             more == Append(storage.sources, source)
  <2>1. AfterRead(p, phase) = [storage EXCEPT !.sources = more, !.parse = parse, !.complete = complete]
    BY <1>1, Zenon
  <2>2. s = [storage EXCEPT !.sources = more]
    OBVIOUS
  <2> HIDE DEF more, parse, complete, s
  <2>3. [storage EXCEPT !.sources = more, !.parse = parse, !.complete = complete]
          = [[storage EXCEPT !.sources = more] EXCEPT !.parse = parse, !.complete = complete]
    OBVIOUS
  <2>4. QED
    BY <2>1, <2>2, <2>3, Zenon
<1>3. source.phase = phase /\ source.layer = layer
  <2> HIDE DEF status, taken, applied, layer
  <2>1. QED
    OBVIOUS
<1>4. parse => intact
  BY Zenon
<1> HIDE DEF source, layer
<1>5. AddsSource(storage, s, source)
  BY SourceRecorded
<1> HIDE DEF s, parse, complete
<1>6. AddsSource(storage, t, source) /\ t.parse = parse
  <2>1. AddsSource(storage, t, source)
    BY <1>5, RecordedFlags
  <2>2. "parse" \in DOMAIN s
    <3>1. StorageParts \subseteq DOMAIN s
      BY <1>5, Zenon DEF AddsSource, HasStorage
    <3>2. QED
      BY <3>1 DEF StorageParts
  <2>3. t.parse = parse
    BY <2>2
  <2>4. QED
    BY <2>1, <2>3
<1> HIDE DEF t
<1>7. Read(storage, t, phase, layer)
  BY <1>3, <1>6, Zenon DEF Read
<1>8. QED
  BY <1>2, <1>4, <1>6, <1>7, Zenon DEF layer

(* What a file that was read says of the storage. *)
LEMMA ProblemsAre ==
    ASSUME NEW f, NEW value
    PROVE  FieldProblem(f, value) \in {"ok", "invalid", "unsupported", "limit"}
<1> DEFINE known == {"ok", "invalid", "unsupported", "limit"}
<1>1. ASSUME NEW item PROVE ItemProblem(f, item) \in known
  <2> DEFINE accepted == item.is = "append" /\ f \in Attributed
             fine == f \in Redacted \cup Marked \/ configListPath(item.text, f)
  <2>1. ItemProblem(f, item) =
          CASE item.is = "other" -> "invalid"
            [] item.is = "append" -> IF f \in Attributed THEN "ok" ELSE "invalid"
            [] OTHER -> IF fine THEN "ok" ELSE "unsupported"
    BY Zenon DEF ItemProblem
  <2> HIDE DEF fine
  <2>2. QED
    BY <2>1
<1>2. ListProblem(f, value) \in known
  <2> DEFINE bad == SelectSeq(value.items, LAMBDA item : ItemProblem(f, item) # "ok")
             many == Len(value.items) > MaxConfigList
  <2>1. ListProblem(f, value) =
          IF many THEN "limit" ELSE IF bad = <<>> THEN "ok" ELSE ItemProblem(f, Head(bad))
    BY Zenon DEF ListProblem
  <2>2. ItemProblem(f, Head(bad)) \in known
    BY <1>1
  <2> DEFINE problem == ItemProblem(f, Head(bad))
  <2>3. problem \in known
    BY <2>2
  <2>4. ListProblem(f, value) = IF many THEN "limit" ELSE IF bad = <<>> THEN "ok" ELSE problem
    BY <2>1
  <2> HIDE DEF bad, many, problem
  <2>5. QED
    BY <2>3, <2>4
<1> DEFINE texts == IsText(f)
           fine == Acceptable(f, value.text)
           listed == ListProblem(f, value)
<1>3. FieldProblem(f, value) =
        IF f = "engine.platform_to_oci_runtime" THEN "ok"
        ELSE IF f \in {"engine", "network", "containers", "storage"} THEN "invalid"
        ELSE IF texts THEN IF value.is # "text" THEN "invalid" ELSE IF fine THEN "ok" ELSE "unsupported"
        ELSE IF value.is # "list" THEN "invalid" ELSE listed
  BY Zenon DEF FieldProblem
<1>4. listed \in known
  BY <1>2
<1> HIDE DEF texts, fine, listed
<1>5. QED
  BY <1>3, <1>4

LEMMA NeverParsed ==
    ASSUME NEW doc \in Documents, NEW fields, NEW modern
    PROVE  Parse(doc, fields, modern) # "parsed"
<1> DEFINE present == Present(doc, fields, modern)
           bad == {i \in DOMAIN fields : /\ fields[i] \in present
                                         /\ FieldProblem(fields[i], doc.fields[fields[i]]) # "ok"}
           first == fields[Min(bad)]
           problem == FieldProblem(first, doc.fields[first])
           syntax == doc.syntax
<1>1. Parse(doc, fields, modern) =
        IF syntax # "ok" THEN syntax ELSE IF bad = {} THEN "ok" ELSE problem
  BY Zenon DEF Parse
<1>2. problem \in {"ok", "invalid", "unsupported", "limit"}
  BY ProblemsAre
<1>3. syntax \in {"ok", "malformed", "limit", "unsupported"}
  <2>1. PICK node \in Nodes : node.is = "file" /\ doc = node.doc
    BY DEF Documents
  <2>2. PICK s \in Situations : node \in Range(s.host) \cup {s.event.node}
    BY <2>1 DEF Nodes
  <2>3. QED
    BY <2>1, <2>2, DocumentsAssumption, Zenon
<1> HIDE DEF bad, problem, syntax
<1>4. QED
  BY <1>1, <1>2, <1>3

LEMMA StorageFieldsAreList == DOMAIN StorageFields \subseteq Nat
BY DEF StorageFields

LEMMA ParsedFile ==
    ASSUME HostsKnown, NEW p, FileStatus(p) = "parsed"
    PROVE  /\ IsLayer(Layer(host[p].doc, StorageFields, ~legacy))
           /\ AreTexts(Layer(host[p].doc, StorageFields, ~legacy))
<1> DEFINE error == Ended(ReadError(host, p))
           doc == host[p].doc
           problem == Parse(host[p].doc, StorageFields, ~legacy)
           modern == ~legacy
<1>1. FileStatus(p) = CASE error = "ENOENT" -> "absent"
          [] error = "ok" -> IF problem = "ok" THEN "parsed" ELSE problem
          [] OTHER -> FailureStatus(error)
  BY Zenon DEF FileStatus
<1>2. FailureStatus(error) # "parsed"
  <2> HIDE DEF error
  <2>1. QED
    BY DEF FailureStatus
<1> HIDE DEF problem, error
<1>3. error = "ok" /\ problem \in {"ok", "parsed"}
  BY <1>1, <1>2
<1>4. NodeOf(host, p).doc \in Documents /\ NodeOf(host, p) = host[p]
  BY <1>3, DocumentRead DEF error
<1>5. doc \in Documents
  BY <1>4, Zenon
<1>6. problem = Parse(doc, StorageFields, modern)
  BY DEF problem
<1> HIDE DEF doc, modern
<1>7. Parse(doc, StorageFields, modern) = "ok"
  BY <1>3, <1>5, <1>6, NeverParsed
<1>8. IsLayer(Layer(doc, StorageFields, modern)) /\ AreTexts(Layer(doc, StorageFields, modern))
  BY <1>5, <1>7, StorageFieldsAreList, LayerIsLayer, LayerAreTexts
<1>9. QED
  BY <1>8, Zenon DEF doc, modern

LEMMA ProjectionSelects ==
    ASSUME NEW said, IsLayer(said), AreTexts(said), NEW place
    PROVE  /\ Selects(ProjectStorage(said, place), said, place, {place})
           /\ \A f : Has(said.strings, f) =>
                /\ Has(ProjectStorage(said, place).strings, f)
                /\ ProjectStorage(said, place).strings[f].source = place
<1> DEFINE d == ProjectStorage(said, place)
<1>1. Projects(d, said, place)
  BY ProjectionSays
<1> HIDE DEF d
<1>2. Selects(d, said, place, {place})
  BY <1>1, Zenon DEF Selects, Projects
<1>3. \A f : Has(said.strings, f) => Has(d.strings, f) /\ d.strings[f].source = place
  BY <1>1, Zenon DEF Has, Projects
<1>4. QED
  BY <1>2, <1>3 DEF d

NextPlace == Len(storage.sources) + 1

LEMMA ProjectionChosen ==
    ASSUME HostsKnown, NEW p, FileStatus(p) \in {"absent", "parsed"}
    PROVE  /\ Selects(Projection(p), ReadLayer(p), NextPlace, {NextPlace})
           /\ \A f : Has(ReadLayer(p).strings, f) =>
                Has(Projection(p).strings, f) /\ Projection(p).strings[f].source = NextPlace
<1> DEFINE layer == ReadLayer(p)
           c == Projection(p)
<1>1. CASE FileStatus(p) = "parsed"
  <2> DEFINE said == Layer(host[p].doc, StorageFields, ~legacy)
             d == ProjectStorage(said, NextPlace)
  <2>1. layer = said
    BY <1>1, Zenon DEF ReadLayer
  <2>2. c = d
    <3>1. FileStatus(p) # "absent"
      BY <1>1
    <3>2. QED
      BY <3>1, Zenon DEF Projection, NextPlace
  <2>3. IsLayer(said) /\ AreTexts(said)
    BY <1>1, ParsedFile
  <2> HIDE DEF c, layer, said
  <2>5. Selects(d, said, NextPlace, {NextPlace})
        /\ \A f : Has(said.strings, f) => Has(d.strings, f) /\ d.strings[f].source = NextPlace
    BY <2>3, ProjectionSelects, Zenon
  <2> HIDE DEF d
  <2>7. QED
    BY <2>1, <2>2, <2>5, Zenon DEF c, layer
<1>2. CASE FileStatus(p) = "absent"
  <2>1. layer = NoLayer
    <3>1. FileStatus(p) # "parsed"
      BY <1>2
    <3>2. QED
      BY <3>1, Zenon DEF ReadLayer
  <2>2. c = Nothing
    BY <1>2, Zenon DEF Projection
  <2> HIDE DEF c, layer
  <2> DEFINE d == Nothing
             none == NoLayer
  <2>3. {"strings", "lists"} \subseteq DOMAIN d /\ DOMAIN d.strings = {} /\ DOMAIN d.lists = {}
        /\ DOMAIN none.strings = {}
    BY DEF Nothing, NoLayer
  <2> HIDE DEF d, none
  <2>4. HasTexts(d) /\ Settings(d, none, NextPlace) /\ RootsFrom(d, {NextPlace})
    BY <2>3 DEF HasTexts, Settings, RootsFrom
  <2>5. Selects(d, none, NextPlace, {NextPlace})
    BY <2>4, Zenon DEF Selects
  <2>6. \A f : ~Has(none.strings, f)
    BY <2>3 DEF Has
  <2>7. c = d /\ layer = none
    BY <2>1, <2>2 DEF d, none
  <2>8. QED
    BY <2>5, <2>6, <2>7, Zenon DEF c, layer
<1>3. QED
  BY <1>1, <1>2

(* The steps of StorageNext. *)
LEMMA NothingChosenSound ==
    ASSUME NEW s, HasStorage(s), ~s.found, ReadOf(s.sources) = {},
           s.at \in {"done", "candidates", "system", "user", "baseline"}, NEW root
    PROVE  StorageSound(s, root)
<1>1. s.at \notin {"final", "override", "expand"}
  OBVIOUS
<1>2. QED
  BY <1>1 DEF StorageSound

LEMMA NotFoundSound ==
    ASSUME NEW s, HasStorage(s), ~s.found, s.at \in {"finish", "done"}, NEW root
    PROVE  StorageSound(s, root)
<1>1. s.at \notin {"start", "candidates", "system", "user", "baseline", "final", "override", "expand"}
  OBVIOUS
<1>2. QED
  BY <1>1 DEF StorageSound

LEMMA FoundSound ==
    ASSUME NEW s, HasStorage(s), s.at \in {"finish", "done"}, NEW root,
           s.found => OneSelection(s.config, s.sources, s.problems, root)
    PROVE  StorageSound(s, root)
<1>1. s.at \notin {"start", "candidates", "system", "user", "baseline", "final", "override", "expand"}
  OBVIOUS
<1>2. QED
  BY <1>1 DEF StorageSound

LEMMA ChosenSound ==
    ASSUME NEW s, HasStorage(s), ~s.found, s.at \in {"final", "override", "expand"}, NEW root,
           \/ ChosenFrom(s.config, s.sources)
           \/ s.at = "expand" /\ ~s.parse
    PROVE  StorageSound(s, root)
<1>1. s.at \notin {"start", "candidates", "system", "user", "baseline"}
  OBVIOUS
<1>2. s.at = "expand" => s.at \notin {"final", "override"}
  OBVIOUS
<1>3. QED
  BY <1>1, <1>2 DEF StorageSound

LEMMA StartStorageSound ==
    ASSUME StorageSound(storage, target.root), StartStorage
    PROVE  StorageSound(storage', target.root)
<1> DEFINE selection == storage.selection /\ engineBound
           at == IF ~target.environment THEN "done"
                 ELSE IF qualified /\ engineBound THEN "system" ELSE "candidates"
           s == [storage EXCEPT !.selection = selection, !.at = at]
<1>1. storage' = s /\ storage.at = "start"
  BY Zenon DEF StartStorage, At
<1>2. at \in {"done", "system", "candidates"}
  <2> HIDE DEF engineBound, qualified
  <2>1. QED
    OBVIOUS
<1>3. HasStorage(storage) /\ ~storage.found /\ ReadOf(storage.sources) = {}
  BY <1>1 DEF StorageSound
<1>4. StorageParts \subseteq DOMAIN storage /\ IsSequence(storage.sources)
  BY <1>3, Zenon DEF HasStorage
<1> HIDE DEF selection, at
<1>5. /\ StorageParts \subseteq DOMAIN s /\ s.sources = storage.sources
      /\ (s.found <=> storage.found) /\ s.at = at
  BY <1>4 DEF StorageParts
<1> HIDE DEF s
<1>6. HasStorage(s) /\ ~s.found /\ ReadOf(s.sources) = {}
  BY <1>3, <1>4, <1>5, Zenon DEF HasStorage
<1>7. StorageSound(s, target.root)
  BY <1>2, <1>5, <1>6, NothingChosenSound
<1>8. QED
  BY <1>1, <1>7, Zenon

LEMMA NothingReadLater ==
    ASSUME NEW s, HasStorage(s), NEW t, NEW source, AddsSource(s, t, source),
           source.phase \notin {"baseline", "override"}, ReadOf(s.sources) = {}
    PROVE  ReadOf(t.sources) = {}
<1>1. IsSequence(s.sources) /\ t.sources = Append(s.sources, source)
  BY Zenon DEF HasStorage, AddsSource
<1>2. QED
  BY <1>1, ReadOfMore

LEMMA ReadCandidatesSound ==
    ASSUME StorageSound(storage, target.root), ReadCandidates
    PROVE  StorageSound(storage', target.root)
<1> DEFINE paths == <<vendorStorage, systemStorage, userStorage>>
           next == Len(storage.sources) + 1
           t == AfterRead(paths[next], "candidate")
           at == IF next = Len(paths) THEN "done" ELSE t.at
           s == [t EXCEPT !.at = at, !.complete = FALSE]
<1>1. storage' = s /\ storage.at = "candidates"
  BY Zenon DEF ReadCandidates, At
<1>2. HasStorage(storage) /\ ~storage.found /\ ReadOf(storage.sources) = {}
  BY <1>1 DEF StorageSound
<1>3. Read(storage, t, "candidate", ReadLayer(paths[next]))
  BY <1>2, ReadReads
<1> HIDE DEF t
<1>4. PICK source : source.phase = "candidate" /\ AddsSource(storage, t, source)
  BY <1>3, Zenon DEF Read
<1>5. ReadOf(t.sources) = {}
  <2>1. source.phase \notin {"baseline", "override"}
    BY <1>4
  <2>2. QED
    BY <1>2, <1>4, <2>1, NothingReadLater
<1>6. StorageParts \subseteq DOMAIN t /\ IsSequence(t.sources) /\ ~t.found /\ t.at = "candidates"
  BY <1>1, <1>2, <1>4, Zenon DEF AddsSource, HasStorage
<1>7. at \in {"done", "candidates"}
  <2> HIDE DEF next, paths
  <2>1. QED
    BY <1>6
<1> HIDE DEF at
<1>8. StorageParts \subseteq DOMAIN s /\ s.sources = t.sources /\ (s.found <=> t.found) /\ s.at = at
  BY <1>6 DEF StorageParts
<1> HIDE DEF s
<1>9. HasStorage(s) /\ ~s.found /\ ReadOf(s.sources) = {}
  BY <1>5, <1>6, <1>8, Zenon DEF HasStorage
<1>10. s.at \in {"done", "candidates", "system", "user", "baseline"}
  BY <1>7, <1>8
<1>11. StorageSound(s, target.root)
  BY <1>9, <1>10, NothingChosenSound
<1>12. QED
  BY <1>1, <1>11, Zenon

LEMMA LooksSound ==
    ASSUME StorageSound(storage, target.root), storage.at \in {"system", "user"}, NEW p
    PROVE  /\ StorageParts \subseteq DOMAIN AfterExists(p) /\ IsSequence(AfterExists(p).sources)
           /\ ~AfterExists(p).found /\ ReadOf(AfterExists(p).sources) = {}
<1> DEFINE t == AfterExists(p)
<1>1. HasStorage(storage) /\ ~storage.found /\ ReadOf(storage.sources) = {}
  BY DEF StorageSound
<1>2. Looked(storage, t)
  BY <1>1, ExistsLooks
<1> HIDE DEF t
<1>3. PICK source : source.phase = "selection" /\ AddsSource(storage, t, source)
  BY <1>2, Zenon DEF Looked
<1>4. ReadOf(t.sources) = {}
  <2>1. source.phase \notin {"baseline", "override"}
    BY <1>3
  <2>2. QED
    BY <1>1, <1>3, <2>1, NothingReadLater
<1>5. StorageParts \subseteq DOMAIN t /\ IsSequence(t.sources) /\ ~t.found
  BY <1>1, <1>3, Zenon DEF AddsSource, HasStorage
<1>6. QED
  BY <1>4, <1>5 DEF t

LEMMA LookForSystemSound ==
    ASSUME StorageSound(storage, target.root), LookForSystem
    PROVE  StorageSound(storage', target.root)
<1> DEFINE there == IF Exists(systemStorage) THEN systemStorage ELSE vendorStorage
           t == AfterExists(systemStorage)
           final == IF target.root THEN there ELSE userStorage
           at == IF target.xdg THEN "user" ELSE "baseline"
           s == [t EXCEPT !.final = final, !.baseline = there, !.at = at]
<1>1. storage' = s /\ storage.at = "system"
  BY Zenon DEF LookForSystem, At
<1>2. storage.at \in {"system", "user"}
  BY <1>1
<1>3. /\ StorageParts \subseteq DOMAIN t /\ IsSequence(t.sources) /\ ~t.found /\ ReadOf(t.sources) = {}
  BY <1>2, LooksSound
<1>4. at \in {"done", "candidates", "system", "user", "baseline"}
  OBVIOUS
<1> HIDE DEF t, there, final, at
<1>5. StorageParts \subseteq DOMAIN s /\ s.sources = t.sources /\ (s.found <=> t.found) /\ s.at = at
  BY <1>3 DEF StorageParts
<1> HIDE DEF s
<1>6. HasStorage(s) /\ ~s.found /\ ReadOf(s.sources) = {}
  BY <1>3, <1>5, Zenon DEF HasStorage
<1>7. StorageSound(s, target.root)
  BY <1>4, <1>5, <1>6, NothingChosenSound
<1>8. QED
  BY <1>1, <1>7, Zenon

LEMMA LookForUserSound ==
    ASSUME StorageSound(storage, target.root), LookForUser
    PROVE  StorageSound(storage', target.root)
<1> DEFINE t == AfterExists(userStorage)
           baseline == IF Exists(userStorage) THEN userStorage ELSE t.baseline
           s == [t EXCEPT !.baseline = baseline, !.at = "baseline"]
<1>1. storage' = s /\ storage.at = "user"
  BY Zenon DEF LookForUser, At
<1>2. storage.at \in {"system", "user"}
  BY <1>1
<1>3. /\ StorageParts \subseteq DOMAIN t /\ IsSequence(t.sources) /\ ~t.found /\ ReadOf(t.sources) = {}
  BY <1>2, LooksSound
<1> HIDE DEF t, baseline
<1>4. /\ StorageParts \subseteq DOMAIN s /\ s.sources = t.sources /\ (s.found <=> t.found)
      /\ s.at = "baseline"
  BY <1>3 DEF StorageParts
<1> HIDE DEF s
<1>5. HasStorage(s) /\ ~s.found /\ ReadOf(s.sources) = {}
  BY <1>3, <1>4, Zenon DEF HasStorage
<1>6. s.at \in {"done", "candidates", "system", "user", "baseline"}
  BY <1>4
<1>7. StorageSound(s, target.root)
  BY <1>5, <1>6, NothingChosenSound
<1>8. QED
  BY <1>1, <1>7, Zenon

LEMMA ReadBaselineSound ==
    ASSUME HostsKnown, StorageSound(storage, target.root), ReadBaseline
    PROVE  StorageSound(storage', target.root)
<1> DEFINE p == storage.baseline
           t == AfterRead(p, "baseline")
           config == Baseline(Projection(p))
           chosen == [t EXCEPT !.config = config, !.at = "final"]
           refused == [t EXCEPT !.at = "finish"]
           place == NextPlace
           layer == ReadLayer(p)
           c == Projection(p)
<1>1. storage' = (IF t.parse /\ t.selection THEN chosen ELSE refused) /\ storage.at = "baseline"
  BY Zenon DEF ReadBaseline, At
<1>2. HasStorage(storage) /\ ~storage.found /\ ReadOf(storage.sources) = {}
  BY <1>1 DEF StorageSound
<1>3. Read(storage, t, "baseline", layer) /\ (t.parse => FileStatus(p) \in {"absent", "parsed"})
  BY <1>2, ReadReads
<1>4. t.parse => Selects(c, layer, place, {place})
  <2>1. FileStatus(p) \in {"absent", "parsed"} => Selects(c, layer, place, {place})
    BY ProjectionChosen
  <2>2. QED
    BY <1>3, <2>1, Zenon
<1> HIDE DEF t, config, place, layer, c
<1>5. PICK source : source.phase = "baseline" /\ source.layer = layer /\ AddsSource(storage, t, source)
  BY <1>3, Zenon DEF Read
<1>6. /\ StorageParts \subseteq DOMAIN t /\ IsSequence(t.sources) /\ ~t.found
      /\ t.sources = Append(storage.sources, source) /\ IsSequence(storage.sources)
  BY <1>2, <1>5, Zenon DEF AddsSource, HasStorage
<1>7. CASE t.parse /\ t.selection
  <2>1. /\ StorageParts \subseteq DOMAIN chosen /\ chosen.sources = t.sources
        /\ (chosen.found <=> t.found) /\ chosen.config = config /\ chosen.at = "final"
    BY <1>6 DEF StorageParts
  <2>2. Selects(c, layer, place, {place, 0})
    <3>1. {place} \subseteq {place, 0}
      OBVIOUS
    <3>2. QED
      BY <1>4, <1>7, <3>1, SelectsMore
  <2>3. Selects(config, layer, place, {place, 0})
    <3>1. 0 \in {place, 0}
      OBVIOUS
    <3>2. Selects(Baseline(c), layer, place, {place, 0})
      BY <2>2, <3>1, BaselineSelects
    <3>3. QED
      BY <3>2 DEF c, config
  <2>4. ChosenFrom(config, Append(storage.sources, source))
    <3> DEFINE places == {place, 0}
    <3>1. /\ places \subseteq ReadOf(storage.sources) \cup {place, 0}
          /\ source.phase \in {"baseline", "override"} /\ source.phase # "override"
      BY <1>5
    <3>2. place = Len(storage.sources) + 1
      BY DEF place, NextPlace
    <3>3. Selects(config, source.layer, place, places)
      BY <1>5, <2>3, Zenon
    <3> HIDE DEF places
    <3>4. source.phase = "override" => RootsNamed(config, source.layer, place)
      BY <3>1
    <3>5. Picks(config, storage.sources, source, place, places)
      BY <3>1, <3>2, <3>3, <3>4, Zenon DEF Picks
    <3>6. QED
      BY <1>6, <3>5, ChosenNow, Zenon
  <2> HIDE DEF chosen
  <2>5. HasStorage(chosen) /\ ~chosen.found /\ chosen.at \in {"final", "override", "expand"}
    <3>1. HasStorage(chosen) /\ ~chosen.found
      BY <1>6, <2>1, Zenon DEF HasStorage
    <3>2. chosen.at \in {"final", "override", "expand"}
      BY <2>1
    <3>3. QED
      BY <3>1, <3>2
  <2>6. ChosenFrom(chosen.config, chosen.sources)
    BY <1>6, <2>1, <2>4, Zenon
  <2>7. StorageSound(chosen, target.root)
    BY <2>5, <2>6, ChosenSound
  <2>8. QED
    BY <1>1, <1>7, <2>7, Zenon
<1>8. CASE ~(t.parse /\ t.selection)
  <2>1. /\ StorageParts \subseteq DOMAIN refused /\ refused.sources = t.sources
        /\ (refused.found <=> t.found) /\ refused.at = "finish"
    BY <1>6 DEF StorageParts
  <2> HIDE DEF refused
  <2>2. HasStorage(refused) /\ ~refused.found
    BY <1>6, <2>1, Zenon DEF HasStorage
  <2>3. refused.at \in {"finish", "done"}
    BY <2>1
  <2>4. StorageSound(refused, target.root)
    BY <2>2, <2>3, NotFoundSound
  <2>5. QED
    BY <1>1, <1>8, <2>4, Zenon
<1>9. QED
  BY <1>7, <1>8

LEMMA LookForOverrideSound ==
    ASSUME StorageSound(storage, target.root), LookForOverride
    PROVE  StorageSound(storage', target.root)
<1> DEFINE t == AfterExists(storage.final)
           at == IF Exists(storage.final) THEN "override" ELSE "expand"
           s == [t EXCEPT !.at = at]
<1>1. storage' = s /\ storage.at = "final"
  BY Zenon DEF LookForOverride, At
<1>2. HasStorage(storage) /\ ~storage.found /\ ChosenFrom(storage.config, storage.sources)
  BY <1>1 DEF StorageSound
<1>3. Looked(storage, t)
  BY <1>2, ExistsLooks
<1>4. at \in {"final", "override", "expand"}
  OBVIOUS
<1> HIDE DEF t, at
<1>5. PICK source : source.phase = "selection" /\ AddsSource(storage, t, source)
  BY <1>3, Zenon DEF Looked
<1>6. /\ StorageParts \subseteq DOMAIN t /\ IsSequence(t.sources) /\ ~t.found
      /\ t.sources = Append(storage.sources, source) /\ t.config = storage.config
      /\ IsSequence(storage.sources)
  BY <1>2, <1>5, Zenon DEF AddsSource, HasStorage
<1>7. ChosenFrom(t.config, t.sources)
  <2>1. source.phase \notin {"baseline", "override"}
    BY <1>5
  <2>2. ChosenFrom(storage.config, Append(storage.sources, source))
    BY <1>2, <1>6, <2>1, ChosenLater
  <2>3. QED
    BY <1>6, <2>2, Zenon
<1>8. /\ StorageParts \subseteq DOMAIN s /\ s.sources = t.sources /\ s.config = t.config
      /\ (s.found <=> t.found) /\ s.at = at
  BY <1>6 DEF StorageParts
<1> HIDE DEF s
<1>9. HasStorage(s) /\ ~s.found /\ ChosenFrom(s.config, s.sources)
  BY <1>6, <1>7, <1>8, Zenon DEF HasStorage
<1>10. StorageSound(s, target.root)
  BY <1>4, <1>8, <1>9, ChosenSound
<1>11. QED
  BY <1>1, <1>10, Zenon

LEMMA ReadOverrideSound ==
    ASSUME HostsKnown, StorageSound(storage, target.root), ReadOverride
    PROVE  StorageSound(storage', target.root)
<1> DEFINE p == storage.final
           t == AfterRead(p, "override")
           old == t.config
           c == Projection(p)
           d == Replacement(c, old)
           intact == FileStatus(p) \in {"absent", "parsed"}
           config == IF intact THEN d ELSE old
           s == [t EXCEPT !.at = "expand", !.config = config]
           read == ReadOf(storage.sources)
           place == NextPlace
           layer == ReadLayer(p)
           places == read \cup {place, 0}
<1>1. storage' = s /\ storage.at = "override"
  BY Zenon DEF ReadOverride, At
<1>2. HasStorage(storage) /\ ~storage.found /\ ChosenFrom(storage.config, storage.sources)
  BY <1>1 DEF StorageSound
<1>3. Read(storage, t, "override", layer) /\ (t.parse => intact)
  BY <1>2, ReadReads
<1>4. intact => /\ Selects(c, layer, place, {place})
                /\ \A f : Has(layer.strings, f) => Has(c.strings, f) /\ c.strings[f].source = place
  BY ProjectionChosen
<1> HIDE DEF t, c, place, layer, intact, read
<1>5. PICK source : source.phase = "override" /\ source.layer = layer /\ AddsSource(storage, t, source)
  BY <1>3, Zenon DEF Read
<1>6. /\ StorageParts \subseteq DOMAIN t /\ IsSequence(t.sources) /\ ~t.found
      /\ t.sources = Append(storage.sources, source) /\ old = storage.config
      /\ IsSequence(storage.sources)
  BY <1>2, <1>5, Zenon DEF AddsSource, HasStorage
<1> HIDE DEF config, old
<1>7. /\ StorageParts \subseteq DOMAIN s /\ s.sources = t.sources /\ (s.found <=> t.found)
      /\ s.config = config /\ s.at = "expand" /\ (s.parse <=> t.parse)
  BY <1>6 DEF StorageParts
<1> HIDE DEF s
<1>8. ASSUME intact PROVE ChosenFrom(config, t.sources)
  <2>1. HasTexts(old) /\ RootsFrom(old, places)
    <3> DEFINE last == Max(ReadOf(storage.sources))
               former == storage.sources[last].layer
    <3>1. Selects(old, former, last, read \cup {0})
      BY <1>2, <1>6, Zenon DEF ChosenFrom, read
    <3> HIDE DEF last, former
    <3>2. read \cup {0} \subseteq places
      OBVIOUS
    <3> HIDE DEF places
    <3>3. Selects(old, former, last, places)
      BY <3>1, <3>2, SelectsMore
    <3>4. QED
      BY <3>3, Zenon DEF Selects
  <2>2. Selects(c, layer, place, places)
    <3>1. {place} \subseteq places
      OBVIOUS
    <3> HIDE DEF places
    <3>2. QED
      BY <1>4, <1>8, <3>1, SelectsMore
  <2>3. Selects(d, layer, place, places) /\ Keeps(c, d)
    <3> HIDE DEF places
    <3>1. QED
      BY <2>1, <2>2, ReplacementSelects
  <2>4. RootsNamed(d, layer, place)
    <3> HIDE DEF d
    <3>1. ASSUME NEW f \in DOMAIN d.strings \cap Roots, Has(layer.strings, f)
          PROVE  d.strings[f].source = place
      <4>1. Has(c.strings, f) /\ c.strings[f].source = place
        BY <1>4, <1>8, <3>1
      <4>2. d.strings[f] = c.strings[f]
        BY <2>3, <4>1, Zenon DEF Keeps
      <4>3. QED
        BY <4>1, <4>2, Zenon
    <3>2. QED
      BY <3>1, Zenon DEF RootsNamed
  <2>5. config = d
    BY <1>8, Zenon DEF config
  <2> HIDE DEF d
  <2>6. places \subseteq ReadOf(storage.sources) \cup {place, 0} /\ place = Len(storage.sources) + 1
    BY DEF read, place, NextPlace
  <2>7. source.phase \in {"baseline", "override"}
    BY <1>5
  <2> HIDE DEF places
  <2>8. Selects(d, source.layer, place, places) /\ RootsNamed(d, source.layer, place)
    BY <1>5, <2>3, <2>4, Zenon
  <2>9. ChosenFrom(d, Append(storage.sources, source))
    <3>1. Picks(d, storage.sources, source, place, places)
      BY <2>6, <2>7, <2>8, Zenon DEF Picks
    <3>2. QED
      BY <1>6, <3>1, ChosenNow, Zenon
  <2>10. QED
    BY <1>6, <2>5, <2>9, Zenon
<1>9. HasStorage(s) /\ ~s.found
  BY <1>6, <1>7, Zenon DEF HasStorage
<1>10. ChosenFrom(s.config, s.sources) \/ (s.at = "expand" /\ ~s.parse)
  BY <1>3, <1>7, <1>8, Zenon
<1>11. s.at \in {"final", "override", "expand"}
  BY <1>7
<1>12. StorageSound(s, target.root)
  BY <1>9, <1>10, <1>11, ChosenSound
<1>13. QED
  BY <1>1, <1>12, Zenon

LEMMA ExpandSelectedSound ==
    ASSUME StorageSound(storage, target.root), ExpandSelected
    PROVE  StorageSound(storage', target.root)
<1> DEFINE config == ExpandRoots(storage.config)
           problems == Problems(config)
           refused == [storage EXCEPT !.at = "finish"]
           failed == [storage EXCEPT !.at = "finish", !.parse = FALSE, !.complete = FALSE]
           expanded == [storage EXCEPT !.at = "finish", !.config = config, !.found = TRUE,
                                       !.problems = problems]
<1>1. /\ storage' = IF ~storage.parse \/ ~storage.selection THEN refused
                    ELSE IF RootsFail(storage.config) THEN failed ELSE expanded
      /\ storage.at = "expand"
  BY Zenon DEF ExpandSelected, At
<1>2. /\ HasStorage(storage) /\ ~storage.found
      /\ storage.parse /\ storage.selection => ChosenFrom(storage.config, storage.sources)
  BY <1>1 DEF StorageSound
<1>3. StorageParts \subseteq DOMAIN storage /\ IsSequence(storage.sources)
  BY <1>2, Zenon DEF HasStorage
<1>4. CASE ~storage.parse \/ ~storage.selection \/ RootsFail(storage.config)
  <2>1. /\ StorageParts \subseteq DOMAIN refused /\ refused.sources = storage.sources
        /\ (refused.found <=> storage.found) /\ refused.at = "finish"
    BY <1>3 DEF StorageParts
  <2>2. /\ StorageParts \subseteq DOMAIN failed /\ failed.sources = storage.sources
        /\ (failed.found <=> storage.found) /\ failed.at = "finish"
    BY <1>3 DEF StorageParts
  <2> HIDE DEF refused, failed
  <2>3. HasStorage(refused) /\ ~refused.found /\ HasStorage(failed) /\ ~failed.found
    BY <1>2, <1>3, <2>1, <2>2, Zenon DEF HasStorage
  <2>4. refused.at \in {"finish", "done"} /\ failed.at \in {"finish", "done"}
    BY <2>1, <2>2
  <2>5. StorageSound(refused, target.root) /\ StorageSound(failed, target.root)
    BY <2>3, <2>4, NotFoundSound
  <2>6. QED
    BY <1>1, <1>4, <2>5, Zenon
<1>5. CASE storage.parse /\ storage.selection /\ ~RootsFail(storage.config)
  <2>1. OneSelection(config, storage.sources, problems, target.root)
    BY <1>2, <1>5, ChosenExpands, Zenon
  <2> HIDE DEF config, problems
  <2>2. /\ StorageParts \subseteq DOMAIN expanded /\ expanded.sources = storage.sources
        /\ expanded.config = config /\ expanded.problems = problems /\ expanded.at = "finish"
    BY <1>3 DEF StorageParts
  <2> HIDE DEF expanded
  <2>3. HasStorage(expanded)
        /\ OneSelection(expanded.config, expanded.sources, expanded.problems, target.root)
    BY <1>3, <2>1, <2>2, Zenon DEF HasStorage
  <2>4. expanded.at \in {"finish", "done"}
    BY <2>2
  <2>5. StorageSound(expanded, target.root)
    BY <2>3, <2>4, FoundSound
  <2>6. QED
    BY <1>1, <1>5, <2>5, Zenon
<1>6. QED
  BY <1>4, <1>5

LEMMA FinishStorageSound ==
    ASSUME StorageSound(storage, target.root), FinishStorage
    PROVE  StorageSound(storage', target.root)
<1> DEFINE complete == storage.complete /\ ~cancelled
           s == [storage EXCEPT !.at = "done", !.complete = complete]
<1>1. storage' = s
  BY Zenon DEF FinishStorage
<1>2. /\ HasStorage(storage)
      /\ storage.found => OneSelection(storage.config, storage.sources, storage.problems, target.root)
  BY DEF StorageSound
<1>3. StorageParts \subseteq DOMAIN storage /\ IsSequence(storage.sources)
  BY <1>2, Zenon DEF HasStorage
<1> HIDE DEF complete
<1>4. /\ StorageParts \subseteq DOMAIN s /\ s.sources = storage.sources
      /\ s.config = storage.config /\ s.problems = storage.problems
      /\ (s.found <=> storage.found) /\ s.at = "done"
  BY <1>3 DEF StorageParts
<1> HIDE DEF s
<1>5. /\ HasStorage(s)
      /\ s.found => OneSelection(s.config, s.sources, s.problems, target.root)
  BY <1>2, <1>3, <1>4, Zenon DEF HasStorage
<1>6. s.at \in {"finish", "done"}
  BY <1>4
<1>7. StorageSound(s, target.root)
  BY <1>5, <1>6, FoundSound
<1>8. QED
  BY <1>1, <1>7, Zenon

LEMMA StorageStarts == Init => StorageSound(storage, target.root)
<1> SUFFICES ASSUME Init PROVE StorageSound(storage, target.root)
  OBVIOUS
<1> DEFINE selection == qualified /\ target.environment
           environment == target.environment
           config == Nothing
           baseline == vendorStorage
           final == userStorage
<1>1. storage = [at |-> "start", selection |-> selection,
               parse |-> environment, complete |-> environment,
               sources |-> <<>>, baseline |-> baseline, final |-> final,
               config |-> config, found |-> FALSE, problems |-> {}]
  BY Zenon DEF Init, StorageInit
<1> HIDE DEF selection, environment, config, baseline, final
<1>2. /\ StorageParts \subseteq DOMAIN storage /\ storage.sources = <<>> /\ ~storage.found
      /\ storage.at = "start"
  BY <1>1 DEF StorageParts
<1>3. IsSequence(<<>>)
  BY EmptySources
<1>4. HasStorage(storage)
  BY <1>2, <1>3, Zenon DEF HasStorage
<1>5. ReadOf(storage.sources) = {}
  BY <1>2 DEF ReadOf
<1>6. storage.at \notin {"final", "override", "expand"}
  BY <1>2
<1>7. QED
  BY <1>2, <1>4, <1>5, <1>6 DEF StorageSound

LEMMA StorageStep ==
    ASSUME HostsKnown, StorageSound(storage, target.root), StorageNext
    PROVE  StorageSound(storage', target.root)
BY StartStorageSound, ReadCandidatesSound, LookForSystemSound, LookForUserSound, ReadBaselineSound,
   LookForOverrideSound, ReadOverrideSound, ExpandSelectedSound, FinishStorageSound,
   Zenon DEF StorageNext

LEMMA StorageInvNext ==
    ASSUME StorageInv, [Next]_vars
    PROVE  StorageInv'
<1>1. ConfigInv /\ StorageSound(storage, target.root)
  BY Zenon DEF StorageInv
<1>2. ConfigInv'
  BY <1>1, ConfigNext
<1>3. target' = target
  BY Zenon DEF Next, Happens, CollectEngine, CollectStorage, RunProbe, vars
<1>4. StorageSound(storage', target.root)
  <2>1. CASE CollectStorage
    <3>1. StorageNext /\ HostsKnown
      BY <1>1, <2>1, Zenon DEF CollectStorage, ConfigInv
    <3>2. QED
      BY <1>1, <3>1, StorageStep
  <2>2. CASE storage' = storage
    BY <1>1, <2>2, Zenon
  <2>3. CollectStorage \/ storage' = storage
    BY Zenon DEF Next, Happens, CollectEngine, RunProbe, vars
  <2>4. QED
    BY <2>1, <2>2, <2>3
<1>5. StorageSound(storage', target'.root)
  BY <1>3, <1>4, Zenon
<1>6. QED
  BY <1>2, <1>5, Zenon DEF StorageInv

LEMMA OneSelectionIs ==
    ASSUME StorageSound(storage, target.root)
    PROVE  StorageIsOneSelection
<1> DEFINE read == ReadOf(storage.sources)
           strings == storage.config.strings
           last == Max(read)
           layer == storage.sources[last].layer
           SourcesOf(f) == {g \in DOMAIN layer.strings :
                              g = f \/ (f = "overlay.ignore_chown_errors" /\ g = "ignore_chown_errors")}
           Tells(f, g) == \/ strings[f].value = layer.strings[g].value
                          \/ f = "driver" /\ {strings[f].value, layer.strings[g].value} = Overlay
<1> SUFFICES ASSUME storage.found
             PROVE  /\ \A f \in DOMAIN strings \ Roots :
                         /\ strings[f].source = last
                         /\ \E g \in SourcesOf(f) :
                              strings[f].invalid = layer.strings[g].invalid /\ Tells(f, g)
                    /\ \A f \in DOMAIN storage.config.lists :
                         storage.config.lists[f].values = layer.lists[f].values
                    /\ \A f \in DOMAIN strings \cap Roots :
                         /\ strings[f].source \in read \cup {0}
                         /\ (storage.sources[last].phase = "override" /\ Has(layer.strings, f))
                              => strings[f].source = last
                    /\ ~target.root => storage.problems \cap {"runroot", "graphroot"} = {}
  BY Zenon DEF StorageIsOneSelection, ReadOf
<1>1. OneSelection(storage.config, storage.sources, storage.problems, target.root)
  BY DEF StorageSound
<1>2. /\ \A f \in DOMAIN strings \ Roots :
           /\ strings[f].source = last
           /\ \E g \in DOMAIN layer.strings :
                Moves(g, f) /\ strings[f].invalid = layer.strings[g].invalid /\ Tells(f, g)
      /\ \A f \in DOMAIN storage.config.lists : storage.config.lists[f].values = layer.lists[f].values
      /\ \A f \in DOMAIN strings \cap Roots : strings[f].source \in read \cup {0}
      /\ storage.sources[last].phase = "override" => RootsNamed(storage.config, layer, last)
      /\ ~target.root => storage.problems \cap {"runroot", "graphroot"} = {}
  BY <1>1, Zenon DEF OneSelection
<1> HIDE DEF read, strings, last, layer, Tells
<1>3. ASSUME NEW f \in DOMAIN strings \ Roots
      PROVE  \E g \in SourcesOf(f) : strings[f].invalid = layer.strings[g].invalid /\ Tells(f, g)
  <2>1. PICK g \in DOMAIN layer.strings :
          Moves(g, f) /\ strings[f].invalid = layer.strings[g].invalid /\ Tells(f, g)
    BY <1>2, <1>3, Zenon
  <2>2. g \in SourcesOf(f)
    BY <2>1 DEF Moves
  <2> HIDE DEF SourcesOf
  <2>3. QED
    BY <2>1, <2>2, Zenon
<1>4. ASSUME NEW f \in DOMAIN strings \cap Roots, storage.sources[last].phase = "override",
             Has(layer.strings, f)
      PROVE  strings[f].source = last
  <2>1. RootsNamed(storage.config, layer, last)
    BY <1>2, <1>4, Zenon
  <2>2. QED
    BY <1>4, <2>1, Zenon DEF RootsNamed, strings
<1> HIDE DEF SourcesOf
<1>5. QED
  BY <1>2, <1>3, <1>4, Zenon

(* The storage projection of every report is one selection: its settings   *)
(* come from the file read last, with the roots that storageFallback and   *)
(* rootlessStorage supply, and are never a merge of two files              *)
(* (ParseStorageForFields, Podman's own replacement of storage.conf).      *)
THEOREM StorageIsSelected == Spec => []StorageIsOneSelection
<1>1. Init => StorageInv
  BY ConfigInit, StorageStarts, Zenon DEF StorageInv
<1>2. StorageInv /\ [Next]_vars => StorageInv'
  BY StorageInvNext
<1>3. StorageInv => StorageIsOneSelection
  BY OneSelectionIs, Zenon DEF StorageInv
<1>4. QED
  BY <1>1, <1>2, <1>3, PTL DEF Spec
=============================================================================
