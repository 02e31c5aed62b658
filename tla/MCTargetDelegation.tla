------------------------- MODULE MCTargetDelegation -------------------------
(* An instance of TargetDelegation for TLC: a root launcher with two sets  *)
(* of groups, one with unknown groups, one with a real UID of its own, and *)
(* an ordinary user; accounts equal to a launcher and different from all.  *)
EXTENDS TargetDelegation

Creds(u, e, g, known) ==
    [uid |-> u, euid |-> e, gid |-> e, egid |-> e, groups |-> g, known |-> known]

Account(u, g, groups) == [uid |-> u, gid |-> g, groups |-> groups, known |-> TRUE]

MCCredentials ==
    {Creds(0, 0, {0}, TRUE), Creds(0, 0, {}, TRUE), Creds(0, 0, {}, FALSE),
     Creds(1, 0, {0}, TRUE), Creds(1, 1, {1}, TRUE)}

MCAccounts == {Account(0, 0, {0}), Account(1, 1, {1}), Account(1, 1, {0, 1}), Account(2, 1, {1})}

=============================================================================
