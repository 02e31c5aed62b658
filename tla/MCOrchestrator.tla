--------------------------- MODULE MCOrchestrator ---------------------------
(* Instances of Orchestrator for TLC. *)
EXTENDS Orchestrator

(* Four probes: a diamond, the same diamond registered bottom up, two      *)
(* roots with a shared and a private dependent, a chain with a side        *)
(* branch, the same dependency declared twice (by a dependent with         *)
(* dependents, and by one of two siblings), a chain registered in reverse, *)
(* a dependent of everything, and a chain beside an independent probe.     *)
PlansOfFour == {
    << <<>>, <<1>>, <<1>>, <<2, 3>> >>,
    << <<2, 3>>, <<4>>, <<4>>, <<>> >>,
    << <<>>, <<>>, <<1, 2>>, <<2>> >>,
    << <<>>, <<1>>, <<2, 1>>, <<>> >>,
    << <<>>, <<1, 1>>, <<2>>, <<1, 2>> >>,
    << <<>>, <<1, 1>>, <<1>>, <<3, 3>> >>,
    << <<2>>, <<3>>, <<4>>, <<>> >>,
    << <<2, 3, 4>>, <<>>, <<>>, <<>> >>,
    << <<>>, <<>>, <<1>>, <<3, 3>> >> }

(* Two dependents of one probe, one of them declaring it twice; a chain    *)
(* registered in reverse; independent probes.                              *)
PlansForLiveness == {
    << <<>>, <<1, 1>>, <<1>> >>,
    << <<2>>, <<3>>, <<>> >>,
    << <<>>, <<>>, <<1, 2>> >>,
    << <<>>, <<>>, <<>> >> }

(* An error of the probe's own, one that matches the caller's deadline     *)
(* (a timeout of the probe's own looks the same), and none.                *)
SomeErrors == {{}, {"other"}, {"deadline"}}
FewErrors == {{}, {"deadline"}}
=============================================================================
