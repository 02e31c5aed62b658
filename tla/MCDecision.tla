----------------------------- MODULE MCDecision -----------------------------
(* An instance of Decision for TLC: catalogs of three definitions over     *)
(* evidence that differs in every respect the resolver tells apart, and    *)
(* all tables of three nodes over the forms below, cyclic and malformed    *)
(* ones included.                                                          *)
EXTENDS Decision

Lists == {<<>>} \cup {<<d>> : d \in 1..4} \cup {<<1, 2>>, <<2, 3>>, <<2, 2>>}

(* All graphs over three definitions, 4 being undeclared. *)
SomeCatalogs == [1..3 -> Lists]

Supported(id, claim) ==
    [id |-> id, claim |-> claim, scope |-> Own, time |-> 1, precedence |-> Live,
     state |-> "supported", confidence |-> Verified, complete |-> TRUE,
     dependsOn |-> <<>>]

(* Evidence 9 of the dataset, for capability 2, and 8 that it may rest on. *)
Variants ==
    LET base == Supported(9, 2)
    IN  {<<base>>,
         <<[base EXCEPT !.precedence = 4]>>,
         <<[base EXCEPT !.state = "unsupported", !.precedence = 3]>>,
         <<[base EXCEPT !.state = "unavailable"]>>,
         <<[base EXCEPT !.state = "misconfigured", !.confidence = HeuristicLevel]>>,
         <<[base EXCEPT !.complete = FALSE]>>,
         <<[base EXCEPT !.time = 2]>>,
         <<[base EXCEPT !.scope = "otherCandidate"]>>,
         <<[base EXCEPT !.scope = "otherRun"]>>,
         <<[base EXCEPT !.dependsOn = <<7>>]>>,
         <<[base EXCEPT !.dependsOn = <<8>>], [Supported(8, 2) EXCEPT !.dependsOn = <<9>>]>>,
         <<[base EXCEPT !.dependsOn = <<8>>], [Supported(8, 2) EXCEPT !.complete = FALSE]>>,
         <<[base EXCEPT !.dependsOn = <<8>>, !.state = "unsupported"], Supported(8, 2)>>}

SomeGiven == {<<>>} \cup Variants

(* Each evaluator returns nothing, one claim, or claims in conflict; that  *)
(* of capability 2 may also break its contract.                            *)
SomeGenerated ==
    [c \in 1..3 |->
       LET one == Supported(c, c)
           two == [Supported(10 + c, c) EXCEPT !.state = "unsupported"]
       IN  {<<>>, <<one>>, <<[one EXCEPT !.state = "unsupported"]>>, <<two, one>>,
            <<one, [two EXCEPT !.precedence = 2]>>}
           \cup IF c # 2 THEN {}
                ELSE {<<[one EXCEPT !.claim = 1]>>, <<[one EXCEPT !.scope = "otherRun"]>>,
                      <<[one EXCEPT !.id = 9]>>, <<one, two, [one EXCEPT !.id = 20]>>}]

NodeForms ==
    {[op |-> "capability", id |-> c] : c \in {1, 2}} \cup
    {[op |-> o, children |-> s] : o \in {"all", "any"}, s \in {<<>>, <<2, 3>>, <<3, 3>>}} \cup
    {[op |-> "not", children |-> <<n>>] : n \in {1, 2, 3}} \cup
    {[op |-> "any", children |-> <<3, 0>>], [op |-> "malformed"]}

ThreeNodeDocuments == [1..3 -> NodeForms]

(* What is known of 3 does not matter: no document asks for it. *)
Over(states) == {[c \in Capabilities |-> IF c = 3 THEN "INDETERMINATE" ELSE p[c]] : p \in [{1, 2} -> states]}

Sees(predicates) == [valid : {TRUE}, predicate : predicates]

Invalid == [valid |-> FALSE, predicate |-> [c \in Capabilities |-> "SATISFIED"]]

OneCandidate == Sees(Over(States)) \cup {Invalid}

UpToTwoCandidates ==
    {<<>>} \cup {<<c>> : c \in OneCandidate}
           \cup {<<c, d>> : c \in OneCandidate,
                             d \in Sees(Over({INDETERMINATE})
                                         \cup Over({UNSATISFIED}))}
           \cup {<<c, c, c>> : c \in Sees(Over({SATISFIED}))}

(* Requirements on the evaluated candidate. *)
SomeAsked ==
    {<<[op |-> "capability", id |-> 2]>>,
     <<[op |-> "all", children |-> <<2, 3>>], [op |-> "capability", id |-> 1], [op |-> "not", children |-> <<4>>],
       [op |-> "capability", id |-> 3]>>,
     <<[op |-> "any", children |-> <<2, 3>>], [op |-> "capability", id |-> 1], [op |-> "capability", id |-> 2]>>}
=============================================================================
