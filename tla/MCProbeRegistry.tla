--------------------------- MODULE MCProbeRegistry ---------------------------
(* Instances of ProbeRegistry for TLC. *)
EXTENDS ProbeRegistry

(* No dependency, one, two, the same one twice, itself (each of a, b and c *)
(* is offered every list), and a probe nobody registers.                   *)
SomeDeclarations ==
    {<<>>, <<"a">>, <<"b">>, <<"b", "b">>, <<"c", "a">>, <<"x">>}

SomeOptions == {NoOption, 0}
=============================================================================
