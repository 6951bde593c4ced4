---------------------------- MODULE MCAuthMethods ----------------------------
(* Two auth methods of one scope, of pairs of kinds that between them have *)
(* every kind, both ways to read the slot, and two that can lose it.       *)
EXTENDS AuthMethods, TLC

CONSTANTS m1, m2, a1, a2

Pairs == {<<"password", "oidc">>, <<"generic", "ldap">>, <<"password", "generic">>}

(* The first configuration has both methods, with the same attributes, and *)
(* the scope has no primary auth method yet.                               *)
First ==
  /\ primary = NoMethod
  /\ \E p \in Pairs : kind = (m1 :> p[1] @@ m2 :> p[2])
  /\ \A m \in Methods : config[m].here /\ config[m].attrs = a1

(* At most two of an edit, a change by others and a fault in a behaviour.  *)
Two == edits + outOfBand + faults <= 2

MCInit == Init /\ First

MCSpec == MCInit /\ [][Next /\ Two']_vars
MCFairSpec == MCSpec /\ WF_vars(Terraform)

=============================================================================
