--------------------------- MODULE MCCommandRunner ---------------------------
(* An instance of CommandRunner for TLC. *)
EXTENDS CommandRunner
=============================================================================
