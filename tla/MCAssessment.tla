---------------------------- MODULE MCAssessment ----------------------------
(* Two candidates, two builds: the least with which a lookup goes on and an *)
(* executable is replaced by another.                                       *)
EXTENDS Assessment

TwoCandidates == <<"/usr/bin/podman", "/usr/local/bin/podman">>
OneCandidate == <<"/usr/bin/podman">>
=============================================================================
