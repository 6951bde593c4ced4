-------------------------- MODULE MCProviderLogin --------------------------
EXTENDS ProviderLogin

CONSTANTS p1, p2

(* The ways to give a login name and a password that differ: complete in   *)
(* the new or the old names, in both with another password, mixed, or      *)
(* incomplete.  What overrides a login is set beside a complete one.       *)
Given(s) ==
  LET account == <<s.named, s.auth_method_password, s.password_auth_method_password>>
  IN /\ account \in
          {<<{"new"}, p1, Unset>>, <<{"old"}, Unset, p1>>, <<{"new", "old"}, p1, p2>>,
           <<{"new"}, Unset, p1>>, <<{"new"}, Unset, Unset>>, <<{}, p1, Unset>>}
     /\ s.recovery # "absent" \/ s.token => account = <<{"new"}, p1, Unset>>

(* At most three edits, changes by others and faults together. *)
Three == edits + outOfBand + faults <= 3

(* The provider is set up to log in, and can: every account starts with    *)
(* the password that is given.  An edit reaches the other settings.        *)
MCInit ==
  /\ Init
  /\ settings = [recovery |-> "absent", token |-> FALSE, auth_method_id |-> Unset,
                 named |-> {"new"}, auth_method_password |-> p1,
                 password_auth_method_password |-> Unset]
  /\ \A m \in Methods : accepted[m] = p1

MCSpec == MCInit /\ [][Next /\ Three' /\ Given(settings')]_vars
MCFairSpec == MCSpec /\ WF_vars(Configure)

=============================================================================
