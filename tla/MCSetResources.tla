--------------------------- MODULE MCSetResources ---------------------------
(* A group (users and static host sets are like it), a role and a target.  *)
EXTENDS SetResources

CONSTANTS none, c1, c2, bad, a1, a2

GroupRoleTarget == {Group, Role, Target}

(* The first configuration fills every set.                                *)
First ==
  /\ config.here /\ config.attrs = a1
  /\ \A s \in Sets : config.sets[s] \in {c1, Unset}

(* At most three of an edit, a change by others and two faults.            *)
Three == edits + outOfBand + faults <= 3

MCInit == Init /\ First

MCSpec == MCInit /\ [][Next /\ Three']_vars
MCFairSpec == MCSpec /\ WF_vars(Terraform)

=============================================================================
