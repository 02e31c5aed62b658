------------------------------ MODULE ProbeRun ------------------------------
(***************************************************************************)
(* What one Orchestrator.Run promises its caller, without workers, queue,  *)
(* counters or locks (src/internal/probe/doc.go, probe.go and the comment  *)
(* on Orchestrator.Run).                                                   *)
(*                                                                         *)
(* Every probe is in one place of a small life cycle:                      *)
(*                                                                         *)
(*    none --> running --> Succeeded | Failed | Cancelled                  *)
(*    none --> Cancelled              (the context ended before it ran)    *)
(*    none --> Skipped                (a dependency did not succeed)       *)
(*                                                                         *)
(* A probe starts only when all its dependencies succeeded; an outcome     *)
(* other than success skips, in the same step, everything that depends on  *)
(* the probe, directly or not.  Module Orchestrator implements this one.   *)
(***************************************************************************)
EXTENDS Naturals, Sequences

CONSTANTS N,       \* number of registered probes
          Plans    \* the dependency lists an Orchestrator may hold

VARIABLES plan,    \* plan[p]: the dependencies of probe p, as declared
          ctx,     \* what ctx.Err() reports: "live" stands for nil
          state,   \* the place of each probe in its life cycle
          returned \* Run has returned the final states

vars == <<plan, ctx, state, returned>>

Node == 1..N
DependenciesOf(p) == {plan[p][i] : i \in DOMAIN plan[p]}

(* The set closed under "depends on": a probe not yet decided that depends *)
(* on p or on a member of the set is itself a member.                      *)
Closed(S, p) ==
    \A q \in {r \in Node : state[r] = "none"} :
        DependenciesOf(q) \cap (S \cup {p}) # {} => q \in S

Dependents(p) ==
    {q \in Node : /\ state[q] = "none"
                  /\ \A S \in SUBSET Node : Closed(S, p) => q \in S}

Init ==
    /\ plan \in Plans
    /\ ctx = "live"
    /\ state = [p \in Node |-> "none"]
    /\ returned = (N = 0)

(* The caller cancels the context, or its deadline passes. *)
Cancel ==
    /\ ctx = "live"
    /\ ~returned
    /\ ctx' \in {"canceled", "deadline"}
    /\ UNCHANGED <<plan, state, returned>>

Start(p) ==
    /\ state[p] = "none"
    /\ ctx = "live"
    /\ \A d \in DependenciesOf(p) : state[d] = "Succeeded"
    /\ state' = [state EXCEPT ![p] = "running"]
    /\ UNCHANGED <<plan, ctx, returned>>

Succeed(p) ==
    /\ state[p] = "running"
    /\ state' = [state EXCEPT ![p] = "Succeeded"]
    /\ UNCHANGED <<plan, ctx, returned>>

(* p ends without success, and its dependents with it. *)
End(p, outcome) ==
    /\ state' = [q \in Node |-> IF q = p THEN outcome
                                ELSE IF q \in Dependents(p) THEN "Skipped"
                                ELSE state[q]]
    /\ UNCHANGED <<plan, ctx, returned>>

Fail(p) == state[p] = "running" /\ End(p, "Failed")

(* Only a probe that was otherwise ready to run, or is running, is         *)
(* cancelled; dependents of a cancelled probe are skipped.                 *)
CancelProbe(p) ==
    /\ ctx # "live"
    /\ \/ state[p] = "running"
       \/ state[p] = "none" /\ \A d \in DependenciesOf(p) : state[d] = "Succeeded"
    /\ End(p, "Cancelled")

Return ==
    /\ ~returned
    /\ \A p \in Node : state[p] \notin {"none", "running"}
    /\ returned' = TRUE
    /\ UNCHANGED <<plan, ctx, state>>

Step(p) == Start(p) \/ Succeed(p) \/ Fail(p) \/ CancelProbe(p)

Next == Cancel \/ Return \/ \E p \in Node : Step(p)

Safety == Init /\ [][Next]_vars

Spec == /\ Safety
        /\ WF_vars(Return)
        /\ \A p \in Node : WF_vars(Step(p))
=============================================================================
