---------------------------- MODULE Requirement ----------------------------
(***************************************************************************)
(* The requirement evaluator (src/internal/requirement/logic.go and        *)
(* evaluate.go): a three-valued logic, documents made of capability        *)
(* predicates and the operators all, any and not, and the verdict over the *)
(* deployment candidates.                                                  *)
(*                                                                         *)
(* A document is a table of nodes with node 1 as its root: in the code     *)
(* nodes are pointers, so a node may be shared, may be its own descendant  *)
(* or may be missing.  A candidate is what its predicates say of each      *)
(* capability (module Capability shows where that comes from) and whether  *)
(* indexCandidate accepts it.                                              *)
(***************************************************************************)
EXTENDS Integers, Sequences, FiniteSets, SequencesExt

CONSTANTS Capabilities,  \* capability IDs
          Documents,     \* node tables, see Forms
          Candidates,    \* sequences of records, see EvaluateCandidate
          MaxDepth, MaxNodes, MaxCandidates

SATISFIED == "SATISFIED"
UNSATISFIED == "UNSATISFIED"
INDETERMINATE == "INDETERMINATE"
States == {SATISFIED, UNSATISFIED, INDETERMINATE}
Definite == {SATISFIED, UNSATISFIED}

(* A child of 0 is a nil pointer; "malformed" is a node without operator.  *)
Forms(nodes) ==
    [op : {"capability"}, id : Capabilities] \cup
    [op : {"all", "any"}, children : Seq(nodes \cup {0})] \cup
    [op : {"not"}, children : [{1} -> nodes \cup {0}]] \cup
    [op : {"malformed"}]

IsDocument(d) ==
    /\ IsFiniteSet(DOMAIN d) /\ 1 \in DOMAIN d /\ 0 \notin DOMAIN d
    /\ \A n \in DOMAIN d : d[n] \in Forms(DOMAIN d)

CandidateType == [valid : BOOLEAN, predicate : [Capabilities -> States]]

ASSUME DocumentsAssumption == \A d \in Documents : IsDocument(d)

ASSUME CandidatesAssumption == Candidates \subseteq Seq(CandidateType)

ASSUME LimitsAssumption == MaxDepth \in Nat /\ MaxNodes \in Nat /\ MaxCandidates \in Nat

-----------------------------------------------------------------------------
(* logic.go                                                                *)

(* A failed conjunct hidden by an unknown one. *)
AndUnknownFirst(a, b) ==
    IF {a, b} \subseteq {SATISFIED} THEN SATISFIED ELSE INDETERMINATE

And(a, b) ==
    IF a = UNSATISFIED \/ b = UNSATISFIED THEN UNSATISFIED
    ELSE IF {a, b} \subseteq {SATISFIED} THEN SATISFIED
    ELSE INDETERMINATE

(* An unknown alternative taken for a failed one. *)
OrPessimistic(a, b) ==
    IF a = SATISFIED \/ b = SATISFIED THEN SATISFIED ELSE UNSATISFIED

Or(a, b) ==
    IF a = SATISFIED \/ b = SATISFIED THEN SATISFIED
    ELSE IF {a, b} \subseteq {UNSATISFIED} THEN UNSATISFIED
    ELSE INDETERMINATE

Not(s) ==
    IF s = SATISFIED THEN UNSATISFIED
    ELSE IF s = UNSATISFIED THEN SATISFIED ELSE INDETERMINATE

(* The left folds of And and Or, from their identity elements. *)
AllOf(states) ==
    LET fold[k \in 0..Len(states)] ==
          IF k = 0 THEN SATISFIED ELSE And(fold[k - 1], states[k])
    IN  fold[Len(states)]

AnyOf(states) ==
    LET fold[k \in 0..Len(states)] ==
          IF k = 0 THEN UNSATISFIED ELSE Or(fold[k - 1], states[k])
    IN  fold[Len(states)]

-----------------------------------------------------------------------------
(* evaluate.go                                                             *)

Children(d, n) == IF d[n].op \in {"all", "any", "not"} THEN d[n].children ELSE <<>>

(* The walk without its test for exactly one operator. *)
PathsIgnoringOperators(d) ==
    LET valid[active \in SUBSET DOMAIN d] ==
          [n \in DOMAIN d \cup {0} |->
              /\ n # 0
              /\ Cardinality(active) < MaxDepth
              /\ n \notin active
              /\ \A i \in DOMAIN Children(d, n) : valid[active \cup {n}][Children(d, n)[i]]]
    IN  valid[{}][1]

(* validateNode: every path from the root is free of cycles, nil nodes and *)
(* malformed nodes and no longer than MaxDepth.  Below the nodes of active *)
(* a node is valid or not.                                                 *)
PathsAreValid(d) ==
    LET valid[active \in SUBSET DOMAIN d] ==
          [n \in DOMAIN d \cup {0} |->
              /\ n # 0
              /\ Cardinality(active) < MaxDepth
              /\ n \notin active
              /\ d[n].op # "malformed"
              /\ \A i \in DOMAIN Children(d, n) : valid[active \cup {n}][Children(d, n)[i]]]
    IN  valid[{}][1]

(* The nodes below m: those in every set that holds m's children and the   *)
(* children of each of its members.                                        *)
Descendants(d, m) ==
    {n \in DOMAIN d :
        \A S \in SUBSET DOMAIN d :
            /\ ToSet(Children(d, m)) \ {0} \subseteq S
            /\ \A k \in S : ToSet(Children(d, k)) \ {0} \subseteq S
            => n \in S}

Tree(d) == {1} \cup Descendants(d, 1)

(* How many nodes the walk visits: a shared node counts every time. *)
Visits(d) ==
    LET size[n \in Tree(d)] ==
          1 + FoldLeft(LAMBDA sum, child : sum + size[child], 0, Children(d, n))
    IN  size[1]

Validate(d) == PathsAreValid(d) /\ Visits(d) <= MaxNodes

(* evaluateNode for the node table d and the predicates of one candidate.  *)
(* A node without operator would count as an empty all.                    *)
EvaluateNode(d, predicate) ==
    LET value[n \in Tree(d)] ==
          LET states == [i \in DOMAIN Children(d, n) |-> value[Children(d, n)[i]]]
          IN  IF d[n].op = "capability" THEN predicate[d[n].id]
              ELSE IF d[n].op = "not" THEN Not(states[1])
              ELSE IF d[n].op = "any" THEN AnyOf(states)
              ELSE AllOf(states)
    IN  value[1]

EvaluateCandidate(d, c) ==
    IF c.valid THEN EvaluateNode(d, c.predicate) ELSE INDETERMINATE

(* Evaluate: the whole document for each candidate, any of them. *)
Evaluate(d, list) ==
    IF ~Validate(d) THEN INDETERMINATE
    ELSE IF Len(list) = 0 \/ Len(list) > MaxCandidates THEN INDETERMINATE
    ELSE AnyOf([i \in DOMAIN list |-> EvaluateCandidate(d, list[i])])

-----------------------------------------------------------------------------

VARIABLES document, candidates, verdict

(* A call of Evaluate by itself.                                           *)
Requested ==
    /\ document \in Documents
    /\ candidates \in Candidates
    /\ verdict = "pending"

Decide ==
    /\ verdict = "pending"
    /\ verdict' = Evaluate(document, candidates)
    /\ UNCHANGED <<document, candidates>>

-----------------------------------------------------------------------------
(* Properties.                                                             *)

(* What may still be learnt of a candidate: each indeterminate predicate   *)
(* becomes definite, an invalid candidate may turn out to be any.          *)
Completions(c) ==
    {f \in [Capabilities -> Definite] :
        c.valid => \A id \in Capabilities :
                     c.predicate[id] \in Definite => f[id] = c.predicate[id]}

(* The two-valued meaning of a document, by sets instead of folds. *)
Holds(d, f) ==
    LET holds[n \in Tree(d)] ==
          IF d[n].op = "capability" THEN f[d[n].id] = SATISFIED
          ELSE IF d[n].op = "not" THEN ~holds[d[n].children[1]]
          ELSE IF d[n].op = "any"
          THEN \E i \in DOMAIN d[n].children : holds[d[n].children[i]]
          ELSE \A i \in DOMAIN d[n].children : holds[d[n].children[i]]
    IN  holds[1]

(* Nothing in the document is a cycle, a nil node or a node without        *)
(* operator.                                                               *)
WellFormed(d) ==
    \A n \in Tree(d) :
        /\ d[n].op # "malformed"
        /\ 0 \notin ToSet(Children(d, n))
        /\ n \notin Descendants(d, n)

(* A definite verdict is never one that better evidence would overturn:    *)
(* SATISFIED means that some candidate meets the requirement however its   *)
(* unknown predicates turn out, UNSATISFIED that none does, in two-valued  *)
(* logic.  Missing evidence can only make the verdict INDETERMINATE, and   *)
(* so does a malformed branch anywhere below the root, although the logic  *)
(* could have decided without it.                                          *)
DefiniteVerdictIsFinal ==
    verdict \in Definite =>
        /\ WellFormed(document)
        /\ verdict = SATISFIED =>
             \E i \in DOMAIN candidates : \A f \in Completions(candidates[i]) : Holds(document, f)
        /\ verdict = UNSATISFIED =>
             \A i \in DOMAIN candidates : \A f \in Completions(candidates[i]) : ~Holds(document, f)

(* When every predicate of every candidate is definite, so is the verdict, *)
(* unless the document or the candidate list is not acceptable.            *)
CompleteEvidenceDecides ==
    verdict \in States /\ Validate(document) /\ Len(candidates) \in 1..MaxCandidates
      /\ (\A i \in DOMAIN candidates :
            candidates[i].valid /\ \A id \in Capabilities : candidates[i].predicate[id] \in Definite)
        => verdict \in Definite
=============================================================================
