-------------------------- MODULE MCCredentialDrift --------------------------
(* One field of each kind: a Vault token (a password while it does not     *)
(* expire), a client certificate key and a passphrase.                     *)
EXTENDS CredentialDrift

CONSTANTS token, clientKey, passphrase, s1, s2, a1, a2

MCFields == {token, clientKey, passphrase}
MCOptional == {clientKey, passphrase}
MCClearable == {clientKey}
MCExpiring == {token}

(* The first configuration has every field; edits change and remove them.  *)
(* Another choice of secrets and attributes is a renaming of this one.     *)
First ==
  /\ config.here /\ config.attrs = a1
  /\ \A f \in Fields : config.secret[f] = s1

MCInit == Init /\ First

MCSpec == MCInit /\ [][Next]_vars
MCFairSpec == MCSpec /\ WF_vars(Terraform)

=============================================================================
