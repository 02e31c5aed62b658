----------------------------- MODULE Capability -----------------------------
(***************************************************************************)
(* The capability registry and the evidence resolver                       *)
(* (src/internal/capability/registry.go, graph.go and resolver.go) for one *)
(* deployment candidate, and the predicate by which a requirement reads    *)
(* the result (src/internal/requirement/evaluate.go).                      *)
(*                                                                         *)
(* NewRegistry orders the definitions by their dependencies.  Evaluate     *)
(* visits them in that order: a definition whose prerequisites are not all *)
(* supported is unknown; any other contributes evidence of its own, after  *)
(* which the whole dataset is validated again and the claim is resolved.   *)
(* One turn of that loop is one action.                                    *)
(*                                                                         *)
(* Capability and evidence IDs are numbers: only their order matters.      *)
(* Observations and contexts are not modelled; what ValidateDataset checks *)
(* of them is assumed to hold.                                             *)
(***************************************************************************)
EXTENDS Integers, Sequences, FiniteSets, FiniteSetsExt, SequencesExt

CONSTANTS Catalogs,  \* definitions: functions from IDs to dependency lists
          Given,     \* evidence of the dataset before the evaluation
          Generated  \* what the evaluator of each capability may return

Own == "own"              \* the candidate's scope
At == 1                   \* Dataset.At
Live == 1
Heuristic == 5            \* EvidencePrecedence runs from Live to Heuristic
StatesOf == {"supported", "unsupported", "misconfigured", "unavailable", "unknown"}

(* Confidence levels in the order of weaker's table. *)
Unknown == 0
HeuristicLevel == 1
Derived == 2
Verified == 3

EvidenceType ==
    [id : Nat, claim : Nat, scope : {Own, "otherCandidate", "otherRun"}, time : 0..2,
     precedence : Live..Heuristic, state : StatesOf, confidence : Unknown..Verified,
     complete : BOOLEAN, dependsOn : Seq(Nat)]

ASSUME CatalogsAssumption ==
    \A c \in Catalogs : /\ IsFiniteSet(DOMAIN c) /\ DOMAIN c \subseteq Nat
                        /\ DOMAIN c \subseteq DOMAIN Generated
                        /\ c \in [DOMAIN c -> Seq(Nat)]

ASSUME EvidenceAssumption ==
    /\ Given \subseteq Seq(EvidenceType)
    /\ \A c \in DOMAIN Generated : Generated[c] \subseteq Seq(EvidenceType)

-----------------------------------------------------------------------------
(* graph.go                                                                *)

(* The declaration test of topological, before anything is ordered. *)
Declares(edges) ==
    \A id \in DOMAIN edges :
        IsInjective(edges[id]) /\ ToSet(edges[id]) \subseteq DOMAIN edges

(* The least node, ready or not. *)
TopologicalStepAnyway(order, edges) ==
    LET left == DOMAIN edges \ ToSet(order)
    IN  IF left = {} THEN order ELSE Append(order, Min(left))

(* One turn of the loop: the least of the ready nodes is emitted. *)
TopologicalStep(order, edges) ==
    LET ready == {id \in DOMAIN edges \ ToSet(order) :
                    ToSet(edges[id]) \subseteq ToSet(order)}
    IN  IF ready = {} THEN order ELSE Append(order, Min(ready))

(* A node becomes ready once, so the loop turns at most once per node. *)
Order(edges) ==
    LET turns == Cardinality(DOMAIN edges)
        run[turn \in 0..turns] ==
            IF turn = 0 THEN <<>> ELSE TopologicalStep(run[turn - 1], edges)
    IN  run[turns]

Topological(edges) ==
    IF Declares(edges) /\ Len(Order(edges)) = Cardinality(DOMAIN edges)
    THEN [err |-> FALSE, order |-> Order(edges)]
    ELSE [err |-> TRUE, order |-> <<>>]

(* ValidateDataset, for the evidence: unique IDs, and dependencies that    *)
(* are declared, acyclic, of the same scope, no later, and complete where  *)
(* the claim is.  An undeclared dependency has the zero scope.             *)
ValidateDataset(evidence) ==
    LET ids == {evidence[i].id : i \in DOMAIN evidence}
        By(id) == evidence[CHOOSE i \in DOMAIN evidence : evidence[i].id = id]
        edges == [id \in ids |-> By(id).dependsOn]
    IN  /\ Cardinality(ids) = Len(evidence)
        /\ \A id \in ids : \A dep \in ToSet(edges[id]) :
             /\ dep \in ids
             /\ By(dep).scope = By(id).scope
             /\ By(dep).time <= By(id).time
             /\ By(id).complete => By(dep).complete
        /\ ~Topological(edges).err

-----------------------------------------------------------------------------
(* resolver.go                                                             *)

(* Evidence from the future accepted. *)
UsableIfComplete(ev) == ev.scope = Own /\ ev.complete

(* unusable: stale, of another candidate, or incomplete. *)
Usable(ev) ==
    /\ ev.scope # "otherRun"
    /\ ev.time <= At
    /\ ev.scope = Own
    /\ ev.complete

(* confidence: the evidence's own level under the ceiling of its source.   *)
Confidence(ev) ==
    Min({ev.confidence,
         CASE ev.precedence \in {1, 2} -> Verified
           [] ev.precedence = 3 -> Derived
           [] OTHER -> HeuristicLevel})

(* The last word wins a conflict. *)
ConsiderLast(r, ev, best) ==
    IF ev.precedence # best THEN [r EXCEPT !.superseded = Append(@, ev.id)]
    ELSE [r EXCEPT !.evidence = Append(@, ev.id),
                   !.state = ev.state,
                   !.confidence = IF r.evidence = <<>> THEN Confidence(ev)
                                  ELSE Min({@, Confidence(ev)})]

(* One turn of the second loop, over the selected evidence in ID order. *)
Consider(r, ev, best) ==
    IF ev.precedence # best THEN [r EXCEPT !.superseded = Append(@, ev.id)]
    ELSE IF r.evidence = <<>>
    THEN [r EXCEPT !.evidence = <<ev.id>>,
                   !.state = ev.state,
                   !.confidence = Confidence(ev)]
    ELSE [r EXCEPT !.evidence = Append(@, ev.id),
                   !.state = IF ev.state = @ THEN @ ELSE "unknown",
                   !.confidence = Min({@, Confidence(ev)})]

NoResolution == [state |-> "unknown", confidence |-> Unknown, evidence |-> <<>>,
                 superseded |-> <<>>]

(* The evidence is sorted by its ID, which is unique in a valid dataset:   *)
(* each turn takes the one of least ID that is left.                       *)
Turn(s, best) ==
    LET ev == CHOOSE e \in s.left : \A other \in s.left : e.id <= other.id
    IN  [left |-> s.left \ {ev}, r |-> Consider(s.r, ev, best)]

Resolve(id, input) ==
    LET selected == {ev \in ToSet(input) : ev.claim = id /\ Usable(ev)}
        best == Min({ev.precedence : ev \in selected} \cup {Heuristic + 1})
        turns == Cardinality(selected)
        run[turn \in 0..turns] ==
            IF turn = 0 THEN [left |-> selected, r |-> NoResolution]
            ELSE Turn(run[turn - 1], best)
        r == run[turns].r
    IN  IF r.state = "unknown" THEN [r EXCEPT !.confidence = Unknown] ELSE r

-----------------------------------------------------------------------------
(* registry.go                                                             *)

VARIABLES
    catalog,    \* the definitions passed to NewRegistry
    observed,   \* both identities of the candidate's context are observed
    phase,      \* "new", "rejected", "begin", "evaluate", "aborted", "done"
    order,      \* registry.definitions
    next,       \* index of the definition Evaluate visits next
    evidence,   \* data.Evidence
    resolved,   \* the resolutions so far, by capability ID
    gated       \* history: the capabilities Evaluate did not resolve

vars == <<catalog, observed, phase, order, next, evidence, resolved, gated>>

Init ==
    /\ catalog \in Catalogs
    /\ observed \in BOOLEAN
    /\ phase = "new"
    /\ order = <<>>
    /\ next = 1
    /\ evidence \in Given
    /\ resolved = [id \in {} |-> NoResolution]
    /\ gated = {}

(* NewRegistry *)
NewRegistry ==
    /\ phase = "new"
    /\ LET topological == Topological(catalog)
       IN  /\ phase' = IF topological.err THEN "rejected" ELSE "begin"
           /\ order' = topological.order
    /\ UNCHANGED <<catalog, observed, next, evidence, resolved, gated>>

(* Evaluate up to its loop. *)
Begin ==
    /\ phase = "begin"
    /\ phase' = IF ValidateDataset(evidence) THEN "evaluate" ELSE "aborted"
    /\ UNCHANGED <<catalog, observed, order, next, evidence, resolved, gated>>

(* Only the first dependency looked at. *)
MissingPrerequisiteFirst(id) ==
    catalog[id] # <<>> /\ resolved[catalog[id][1]].state # "supported"

MissingPrerequisite(id) ==
    \E dep \in ToSet(catalog[id]) : resolved[dep].state # "supported"

WithResolution(id, r) ==
    [c \in DOMAIN resolved \cup {id} |-> IF c = id THEN r ELSE resolved[c]]

(* A definition that is not evaluated: its evidence is not even generated. *)
Gate ==
    /\ phase = "evaluate"
    /\ next <= Len(order)
    /\ MissingPrerequisite(order[next]) \/ ~observed
    /\ resolved' = WithResolution(order[next], NoResolution)
    /\ gated' = gated \cup {order[next]}
    /\ next' = next + 1
    /\ UNCHANGED <<catalog, observed, phase, order, evidence>>

(* The evaluator's evidence is refused: another claim or scope, or the     *)
(* dataset with it is not valid any more.                                  *)
Foreign(id, s) == \E i \in DOMAIN s : s[i].claim # id \/ s[i].scope # Own

Abort ==
    /\ phase = "evaluate"
    /\ next <= Len(order)
    /\ ~MissingPrerequisite(order[next]) /\ observed
    /\ \E s \in Generated[order[next]] :
         \/ Foreign(order[next], s) /\ UNCHANGED evidence
         \/ /\ ~Foreign(order[next], s)
            /\ ~ValidateDataset(evidence \o s)
            /\ evidence' = evidence \o s
    /\ phase' = "aborted"
    /\ UNCHANGED <<catalog, observed, order, next, resolved, gated>>

ResolveClaim ==
    /\ phase = "evaluate"
    /\ next <= Len(order)
    /\ ~MissingPrerequisite(order[next]) /\ observed
    /\ \E s \in Generated[order[next]] :
         /\ ~Foreign(order[next], s)
         /\ evidence' = evidence \o s
    /\ ValidateDataset(evidence')
    /\ resolved' = WithResolution(order[next], Resolve(order[next], evidence'))
    /\ next' = next + 1
    /\ UNCHANGED <<catalog, observed, phase, order, gated>>

(* The loop ends; the candidate gets the evidence of its own scope. *)
Finish ==
    /\ phase = "evaluate"
    /\ next > Len(order)
    /\ phase' = "done"
    /\ UNCHANGED <<catalog, observed, order, next, evidence, resolved, gated>>

CandidateEvidence == {ev \in ToSet(evidence) : ev.scope = Own}

(* requirement.predicate, for the finished candidate. *)
Predicate(id) ==
    LET c == resolved[id]
        Supports(ref) ==
            \E ev \in CandidateEvidence :
                /\ ev.id = ref
                /\ ev.complete
                /\ ev.state = c.state
                /\ ev.claim = id
    IN  IF id \notin DOMAIN resolved THEN "INDETERMINATE"
        ELSE IF c.state \in {"unknown", "unavailable"} THEN "INDETERMINATE"
        ELSE IF c.evidence = <<>> \/ ~\A ref \in ToSet(c.evidence) : Supports(ref)
        THEN "INDETERMINATE"
        ELSE IF c.state = "supported" THEN "SATISFIED" ELSE "UNSATISFIED"

Next == NewRegistry \/ Begin \/ Gate \/ Abort \/ ResolveClaim \/ Finish

Spec == Init /\ [][Next]_vars

-----------------------------------------------------------------------------
(* Properties.                                                             *)

(* Every node can stand above all its dependencies: there is no cycle.     *)
Rankable(edges) ==
    \E rank \in [DOMAIN edges -> 1..Cardinality(DOMAIN edges)] :
        \A id \in DOMAIN edges : \A dep \in ToSet(edges[id]) : rank[dep] < rank[id]

(* The registry is rejected exactly when a definition names a missing      *)
(* dependency, names one twice, or cannot be ordered; otherwise Evaluate   *)
(* visits every definition after those it depends on, so that it never     *)
(* reads a prerequisite that has no resolution yet.                        *)
OrderIsSound ==
    /\ phase = "rejected" <=> phase # "new" /\ ~(Declares(catalog) /\ Rankable(catalog))
    /\ phase \notin {"new", "rejected"} =>
         /\ ToSet(order) = DOMAIN catalog /\ IsInjective(order)
         /\ \A i, j \in DOMAIN order : order[j] \in ToSet(catalog[order[i]]) => j < i

(* Everything the capability rests on, through any number of definitions:  *)
(* what is in every set that holds its dependencies and those of each of   *)
(* its members.                                                            *)
Prerequisites(id) ==
    {dep \in DOMAIN catalog :
        \A S \in SUBSET DOMAIN catalog :
            /\ ToSet(catalog[id]) \subseteq S
            /\ \A member \in S : ToSet(catalog[member]) \subseteq S
            => dep \in S}

(* A capability has a state of its own only if everything it rests on,     *)
(* directly or not, is supported, and is left unresolved only if something *)
(* is not: the given evidence for it is never used past a failed           *)
(* prerequisite and never ignored otherwise.                               *)
PrerequisitesGate ==
    \A id \in DOMAIN resolved :
        /\ resolved[id].state # "unknown" =>
             \A dep \in Prerequisites(id) : resolved[dep].state = "supported"
        /\ id \in gated <=>
             ~observed \/ \E dep \in Prerequisites(id) : resolved[dep].state # "supported"

(* What Evaluate keeps from turn to turn: the definitions before the next  *)
(* one have a resolution, and each was gated for a prerequisite, or for an *)
(* unobserved context, that still counts.                                  *)
CatalogInv ==
    /\ IsFiniteSet(DOMAIN catalog) /\ DOMAIN catalog \subseteq Nat
    /\ DOMAIN catalog \subseteq DOMAIN Generated
    /\ catalog \in [DOMAIN catalog -> Seq(Nat)]

OrderInv ==
    /\ phase \in {"none", "new", "rejected", "begin", "evaluate", "aborted", "done"}
    /\ phase = "none" => catalog = <<>> /\ order = <<>>
    /\ phase \notin {"none", "new"} =>
         /\ order = Topological(catalog).order
         /\ phase = "rejected" <=> Topological(catalog).err

VisitInv ==
    /\ next \in Nat \ {0}
    /\ phase \in {"none", "new", "rejected", "begin"} => next = 1
    /\ next <= Len(order) + 1
    /\ phase = "done" => next > Len(order)
    /\ DOMAIN resolved = {order[i] : i \in 1..(next - 1)}
    /\ gated \subseteq DOMAIN resolved
    /\ \A id \in gated :
         /\ resolved[id].state = "unknown"
         /\ ~observed \/ \E dep \in ToSet(catalog[id]) : resolved[dep].state # "supported"
    /\ \A id \in DOMAIN resolved \ gated :
         observed /\ \A dep \in ToSet(catalog[id]) : resolved[dep].state = "supported"

EvidenceInv == evidence \in Seq(EvidenceType)

(* The reference: by sets, without an order of the evidence. *)
Selected(id, input) ==
    {ev \in ToSet(input) : ev.claim = id /\ ev.scope = Own /\ ev.time <= At /\ ev.complete}

Best(id, input) ==
    {ev \in Selected(id, input) :
        \A other \in Selected(id, input) : ev.precedence <= other.precedence}

FollowsStrongest(r, id, input) ==
    LET best == Best(id, input)
        states == {ev.state : ev \in best}
    IN  /\ ToSet(r.evidence) = {ev.id : ev \in best}
        /\ ToSet(r.superseded) = {ev.id : ev \in Selected(id, input) \ best}
        /\ r.state = IF Cardinality(states) = 1 THEN CHOOSE s \in states : TRUE
                     ELSE "unknown"
        /\ r.confidence = IF r.state = "unknown" THEN Unknown
                          ELSE Min({Confidence(ev) : ev \in best})

(* A resolved capability has the state on which all usable evidence of the *)
(* strongest kind agrees and is unknown if there is none or it disagrees,  *)
(* whatever the order of the evidence and however weaker evidence votes;   *)
(* its confidence is that of its weakest support.  Evidence generated      *)
(* later for other capabilities never undermines an earlier resolution.    *)
ResolutionFollowsStrongest ==
    \A id \in DOMAIN resolved \ gated : FollowsStrongest(resolved[id], id, evidence)

(* What the registry hands to a requirement always convinces its           *)
(* predicate: the evidence checks there refuse nothing that Evaluate       *)
(* resolved, so only an unknown or unavailable capability leaves a         *)
(* requirement undecided.                                                  *)
ResolvedCapabilitiesDecide ==
    phase = "done" =>
        \A id \in DOMAIN catalog :
            Predicate(id) = CASE resolved[id].state = "supported" -> "SATISFIED"
                              [] resolved[id].state \in {"unsupported", "misconfigured"} ->
                                   "UNSATISFIED"
                              [] OTHER -> "INDETERMINATE"
=============================================================================
