------------------------------ MODULE Decision ------------------------------
(***************************************************************************)
(* What app.Evaluate does last (src/internal/app/app.go): the registry     *)
(* evaluates the capabilities of one candidate (module Capability), and    *)
(* the requirement is evaluated over that candidate (module Requirement).  *)
(*                                                                         *)
(* requirement.Evaluate takes any list of candidates; the application      *)
(* gives it one.  The behaviours that start with a document and several    *)
(* candidates are calls of it by themselves.                               *)
(***************************************************************************)
EXTENDS Capability, Requirement

CONSTANT Asked  \* the documents a live assessment is asked

ASSUME AskedAssumption == \A d \in Asked : IsDocument(d)

allVars == <<vars, document, candidates, verdict>>

(* Evaluate with its capabilities still to be evaluated. *)
Assessed ==
    /\ Init
    /\ document = <<>> /\ candidates = <<>> /\ verdict = "waiting"

(* requirement.Evaluate called by itself. *)
Called ==
    /\ Requested
    /\ catalog = <<>> /\ observed = TRUE /\ phase = "none" /\ order = <<>> /\ next = 1
    /\ evidence = <<>> /\ resolved = [id \in {} |-> NoResolution] /\ gated = {}

Evaluation == Next /\ UNCHANGED <<document, candidates, verdict>>

(* The evaluated candidate is the only one of the requirement. *)
Ask ==
    /\ phase = "done" /\ verdict = "waiting"
    /\ document' \in Asked
    /\ candidates' = <<[valid |-> TRUE, predicate |-> [id \in Capabilities |-> Predicate(id)]]>>
    /\ verdict' = "pending"
    /\ UNCHANGED vars

Answer == Decide /\ UNCHANGED vars

DecisionSpec == (Assessed \/ Called) /\ [][Evaluation \/ Ask \/ Answer]_allVars

-----------------------------------------------------------------------------
(* Beside the properties of modules Capability and Requirement:            *)

(* What a verdict rests on: it is that of requirement.Evaluate for a       *)
(* document and candidates of the kinds it accepts.                        *)
VerdictInv ==
    /\ verdict \in {"waiting", "pending"} \cup States
    /\ verdict # "waiting" => IsDocument(document) /\ candidates \in Seq(CandidateType)
    /\ verdict \in States => verdict = Evaluate(document, candidates)

(* Between evidence and verdict nothing is lost: what the registry         *)
(* resolved always convinces its predicate (module Capability), and        *)
(* complete evidence for an acceptable document and list of candidates     *)
(* always decides (module Requirement).                                    *)
EvidenceDecides == ResolvedCapabilitiesDecide /\ CompleteEvidenceDecides
=============================================================================
