--------------------------- MODULE ProbeRegistry ---------------------------
(***************************************************************************)
(* The probe registry (src/internal/probe/registry.go) and the constructor *)
(* of an orchestrator over it (NewOrchestrator in orchestrator.go).        *)
(*                                                                         *)
(* Probes are registered until the first Resolve, which captures what they *)
(* declare, validates it, orders it with Kahn's algorithm and seals the    *)
(* registry with the plan or with the error.  NewOrchestrator resolves and *)
(* then, in a second critical section, fetches the compiled plan; other    *)
(* goroutines may register, resolve or construct in between.  Every method *)
(* is one critical section of Registry.mu, so it is one action.            *)
(***************************************************************************)
EXTENDS Integers, Sequences, FiniteSets, FiniteSetsExt, SequencesExt

CONSTANTS Ids,          \* probe IDs that some probe carries
          Declarations, \* what Probe.Dependencies may return
          Builders,     \* goroutines that call NewOrchestrator once
          Options,      \* WithMaxConcurrency values, NoOption for none
          NoOption,
          CPUs,         \* runtime.NumCPU()
          Redeclarations \* how often a probe's declarations may change

ASSUME DeclarationsAssumption == \A d \in Declarations : d \in Seq(ToSet(d))

ASSUME RegistryAssumption ==
    /\ NoOption \notin Int
    /\ Options \subseteq Int \cup {NoOption}
    /\ CPUs \in Nat
    /\ Redeclarations \in Nat

VARIABLES
    declared,     \* what each probe's Dependencies() returns now
    changes,      \* how often that has changed
    orderedIDs,   \* registration order; the domain of r.probes
    resolved, resolveErr, resolvedPlan,
    compiled,     \* the executionPlan, or NoPlan
    captured,     \* history: the declarations Resolve captured
    position,           \* each builder's position in NewOrchestrator
    pool,         \* o.maxConcurrency of each builder
    built         \* what NewOrchestrator returned: its plan or an error

registry == <<orderedIDs, resolved, resolveErr, resolvedPlan, compiled, captured>>
builders == <<position, pool, built>>
registryVars == <<declared, changes, registry, builders>>

NoPlan == [dependencies |-> <<>>, downstream |-> <<>>]
Registered == ToSet(orderedIDs)
RegIndex(id) == CHOOSE i \in DOMAIN orderedIDs : orderedIDs[i] = id

-----------------------------------------------------------------------------
(* Resolve's algorithms, as functions of the captured declarations.        *)

(* How many of x's declared dependencies are id. *)
Occurrences(x, id, deps) == Cardinality({i \in DOMAIN deps[x] : deps[x][i] = id})

(* The ready node registered last. *)
KahnStepLast(s, deps) ==
    LET id == CHOOSE x \in s.ready : \A y \in s.ready : RegIndex(x) >= RegIndex(y)
        degree == [x \in Registered |-> s.degree[x] - Occurrences(x, id, deps)]
    IN  [degree |-> degree,
         ready  |-> (s.ready \ {id}) \cup
                    {x \in Registered : s.degree[x] > 0 /\ degree[x] = 0},
         plan   |-> Append(s.plan, id)]

(* One turn of the loop of kahnTopoSort: the ready node registered first   *)
(* is emitted, and each of its dependents loses its edges to it.           *)
KahnStep(s, deps) ==
    LET id == CHOOSE x \in s.ready : \A y \in s.ready : RegIndex(x) <= RegIndex(y)
        degree == [x \in Registered |-> s.degree[x] - Occurrences(x, id, deps)]
    IN  [degree |-> degree,
         ready  |-> (s.ready \ {id}) \cup
                    {x \in Registered : s.degree[x] > 0 /\ degree[x] = 0},
         plan   |-> Append(s.plan, id)]

(* In-degrees that count a dependency declared twice once. *)
KahnTopoSortDistinct(deps) ==
    LET start == [degree |-> [x \in Registered |-> Cardinality(ToSet(deps[x]))],
                  ready  |-> {x \in Registered : Len(deps[x]) = 0},
                  plan   |-> <<>>]
        run[k \in 0..Len(orderedIDs)] ==
            IF k = 0 THEN start
            ELSE IF run[k - 1].ready = {} THEN run[k - 1]
            ELSE KahnStep(run[k - 1], deps)
    IN  run[Len(orderedIDs)].plan

(* kahnTopoSort's plan; it is short when nodes remain in a cycle.  A node  *)
(* enters the heap once, so the loop turns at most once per node.          *)
KahnTopoSort(deps) ==
    LET start == [degree |-> [x \in Registered |-> Len(deps[x])],
                  ready  |-> {x \in Registered : Len(deps[x]) = 0},
                  plan   |-> <<>>]
        run[k \in 0..Len(orderedIDs)] ==
            IF k = 0 THEN start
            ELSE IF run[k - 1].ready = {} THEN run[k - 1]
            ELSE KahnStep(run[k - 1], deps)
    IN  run[Len(orderedIDs)].plan

(* The first complaint of the validation loops, in registration order and  *)
(* then in declaration order: a self-dependency is reported as a cycle.    *)
Complaint(id, deps) ==
    LET bad == {i \in DOMAIN deps[id] : deps[id][i] = id \/ deps[id][i] \notin Registered}
    IN  IF bad = {} THEN "nil"
        ELSE IF deps[id][Min(bad)] = id THEN "cycle" ELSE "unknown"

Validate(deps) ==
    LET bad == {i \in DOMAIN orderedIDs : Complaint(orderedIDs[i], deps) # "nil"}
    IN  IF bad = {} THEN "nil" ELSE Complaint(orderedIDs[Min(bad)], deps)

(* A node's dependents, each as often as it has edges to the node, in      *)
(* registration order.                                                     *)
Downstream(edges) ==
    LET row[j \in 0..Len(edges)] ==
            IF j = 0 THEN <<>> ELSE row[j - 1] \o [k \in 1..edges[j] |-> j]
    IN  row[Len(edges)]

(* One downstream entry for each dependent. *)
CompilePlanDistinct(deps) ==
    LET Index == 1..Len(orderedIDs)
    IN  [dependencies |-> [i \in Index |->
            [k \in DOMAIN deps[orderedIDs[i]] |-> RegIndex(deps[orderedIDs[i]][k])]],
         downstream |-> [i \in Index |->
            Downstream([j \in Index |->
                Min({1, Occurrences(orderedIDs[j], orderedIDs[i], deps)})])]]

(* compilePlan: nodes in registration order, dependencies as registration  *)
(* indices; a node's downstream list has one entry for each declared edge. *)
CompilePlan(deps) ==
    LET Index == 1..Len(orderedIDs)
    IN  [dependencies |-> [i \in Index |->
            [k \in DOMAIN deps[orderedIDs[i]] |-> RegIndex(deps[orderedIDs[i]][k])]],
         downstream |-> [i \in Index |->
            Downstream([j \in Index |->
                Occurrences(orderedIDs[j], orderedIDs[i], deps)])]]

-----------------------------------------------------------------------------

RegistryInit ==
    /\ declared \in [Ids -> Declarations]
    /\ changes = 0
    /\ orderedIDs = <<>>
    /\ resolved = FALSE
    /\ resolveErr = "nil"
    /\ resolvedPlan = <<>>
    /\ compiled = NoPlan
    /\ captured = NoPlan
    /\ position = [b \in Builders |-> "options"]
    /\ pool = [b \in Builders |-> 0]
    /\ built = [b \in Builders |-> NoPlan]

(* Without the test for a sealed registry. *)
RegisterAfterSeal(id) ==
    /\ id \notin Registered
    /\ orderedIDs' = Append(orderedIDs, id)
    /\ UNCHANGED <<declared, changes, resolved, resolveErr, resolvedPlan, compiled,
                   captured, builders>>

(* Register: rejected once the registry is sealed, and for an ID it has. *)
Register(id) ==
    /\ ~resolved
    /\ id \notin Registered
    /\ orderedIDs' = Append(orderedIDs, id)
    /\ UNCHANGED <<declared, changes, resolved, resolveErr, resolvedPlan, compiled,
                   captured, builders>>

RejectRegister(id) ==
    /\ resolved \/ id \in Registered
    /\ UNCHANGED registryVars

(* The probe's owner changes what Dependencies() will return.  The copy    *)
(* Resolve takes is not affected (probe.go asks only that the change is    *)
(* not concurrent with the capture).                                       *)
Redeclare(id) ==
    /\ changes < Redeclarations
    /\ changes' = changes + 1
    /\ \E d \in Declarations : declared' = [declared EXCEPT ![id] = d]
    /\ UNCHANGED <<registry, builders>>

(* The part of Resolve that runs once. *)
Seal ==
    LET deps == declared
        verdict == Validate(deps)
        plan == KahnTopoSort(deps)
        err == IF verdict # "nil" THEN verdict
               ELSE IF Len(plan) # Len(orderedIDs) THEN "cycle" ELSE "nil"
    IN  /\ resolved' = TRUE
        /\ resolveErr' = err
        /\ resolvedPlan' = IF err = "nil" THEN plan ELSE <<>>
        /\ compiled' = IF err = "nil" THEN CompilePlan(deps) ELSE NoPlan
        /\ captured' = deps
        /\ UNCHANGED orderedIDs

Resolve ==
    IF resolved THEN UNCHANGED registry ELSE Seal

(* Resolve called by anyone but a builder. *)
ResolveCall == Resolve /\ UNCHANGED <<declared, changes, builders>>

defaultConcurrency == Max({1, Min({CPUs, 8})})

(* NewOrchestrator applies its options before it looks at the registry: a  *)
(* rejected option leaves the registry open.                               *)
ApplyOptions(b) ==
    /\ position[b] = "options"
    /\ \E n \in Options :
         IF n # NoOption /\ n < 1
         THEN /\ position' = [position EXCEPT ![b] = "failed"]
              /\ UNCHANGED pool
         ELSE /\ pool' = [pool EXCEPT ![b] = IF n = NoOption THEN defaultConcurrency ELSE n]
              /\ position' = [position EXCEPT ![b] = "resolve"]
    /\ UNCHANGED <<declared, changes, registry, built>>

BuilderResolve(b) ==
    /\ position[b] = "resolve"
    /\ Resolve
    /\ position' = [position EXCEPT ![b] = IF resolveErr' = "nil" THEN "fetch" ELSE "failed"]
    /\ UNCHANGED <<declared, changes, pool, built>>

(* registry.execution(), in a critical section of its own. *)
FetchExecution(b) ==
    /\ position[b] = "fetch"
    /\ IF ~resolved \/ resolveErr # "nil"
       THEN /\ position' = [position EXCEPT ![b] = "failed"]
            /\ UNCHANGED built
       ELSE /\ position' = [position EXCEPT ![b] = "built"]
            /\ built' = [built EXCEPT ![b] = compiled]
    /\ UNCHANGED <<declared, changes, registry, pool>>

RegistryNext ==
    \/ ResolveCall
    \/ \E id \in Ids : Register(id) \/ RejectRegister(id) \/ Redeclare(id)
    \/ \E b \in Builders : ApplyOptions(b) \/ BuilderResolve(b) \/ FetchExecution(b)

RegistrySpec == RegistryInit /\ [][RegistryNext]_registryVars

-----------------------------------------------------------------------------
(* Properties.                                                             *)

Sealed == resolved /\ resolveErr = "nil"

RegistryTypeOK ==
    /\ declared \in [Ids -> Declarations]
    /\ changes \in 0..Redeclarations
    /\ orderedIDs \in Seq(Ids) /\ IsInjective(orderedIDs)
    /\ resolved \in BOOLEAN
    /\ resolveErr \in {"nil", "cycle", "unknown"}
    /\ position \in [Builders -> {"options", "resolve", "fetch", "built", "failed"}]

(* A sequence of all registered probes in which no probe precedes one it   *)
(* depends on.                                                             *)
TopologicalOrders ==
    {s \in SetToSeqs(Registered) :
        \A i, j \in DOMAIN s : Occurrences(s[i], s[j], captured) > 0 => j < i}

(* At the first position where they differ, s has the probe registered     *)
(* first.                                                                  *)
Precedes(s, t) ==
    \E k \in DOMAIN s : /\ RegIndex(s[k]) < RegIndex(t[k])
                        /\ \A j \in 1..(k - 1) : s[j] = t[j]

(* The published plan is the topological order that prefers, position by   *)
(* position, the probe registered first: it depends on the registration    *)
(* order and the declarations alone, as Registry's comment promises.       *)
PlanIsCanonical ==
    Sealed => /\ resolvedPlan \in TopologicalOrders
              /\ \A s \in TopologicalOrders \ {resolvedPlan} : Precedes(resolvedPlan, s)

(* Resolve fails exactly when the captured declarations name an unknown    *)
(* probe or cannot be ordered, whatever order the probes came in.          *)
RejectsExactlyBadGraphs ==
    resolved =>
        (resolveErr = "nil" <=>
            /\ \A id \in Registered : ToSet(captured[id]) \subseteq Registered
            /\ TopologicalOrders # {})

(* Resolve's two outcomes, on a well-formed registry: the one canonical    *)
(* plan, or an error exactly where no plan exists.                         *)
ResolveIsExact == RegistryTypeOK /\ PlanIsCanonical /\ RejectsExactlyBadGraphs

(* A sealed registry never changes again: not its probes, its plan, its    *)
(* error nor the compiled copy, though probes go on changing what they     *)
(* declare and goroutines go on registering, resolving and constructing.   *)
SealedForever == [][resolved => UNCHANGED registry]_registryVars

(* Every orchestrator ever built over the registry runs the same compiled  *)
(* plan, with at least one worker; it relates both directions of every     *)
(* captured edge and lists dependents in registration order, which is what *)
(* module Orchestrator assumes of a plan.                                  *)
BuiltPlansAgree ==
    \A b \in Builders : position[b] = "built" =>
        /\ built[b] = compiled
        /\ pool[b] >= 1
        /\ \A i, j \in DOMAIN orderedIDs :
             LET edges == Occurrences(orderedIDs[j], orderedIDs[i], captured)
                 down == built[b].downstream[i]
                 deps == built[b].dependencies[j]
             IN  /\ Cardinality({k \in DOMAIN deps : deps[k] = i}) = edges
                 /\ Cardinality({k \in DOMAIN down : down[k] = j}) = edges
                 /\ \A k, l \in DOMAIN down : k < l => down[k] <= down[l]
=============================================================================
