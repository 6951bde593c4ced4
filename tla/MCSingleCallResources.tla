----------------------- MODULE MCSingleCallResources -----------------------
(* A kind for each way in which attributes are treated; the kinds that are *)
(* left out differ from these in names only, or are two of these in one.   *)
EXTENDS SingleCallResources, TLC

CONSTANTS v1, v2

AllKinds ==
  {StaticCatalog, VaultLibrary, SshCertificateLibrary, PasswordAccount, LdapAccount,
   ManagedGroup, PluginHostSet, StorageBucket, TargetAlias, StaticHost, StoragePolicy,
   Worker, Scope, GlobalScope, AuthMethodOidc}

OnlyWorker == {Worker}

(* Boundary writes v1 as v2. *)
Rewording == v1 :> v2 @@ v2 :> v2

(* The first configuration has every attribute. *)
First == config.here /\ \A a \in Names : config.attrs[a] = v1

(* At most three edits, changes by others and faults together. *)
Three == edits + outOfBand + faults <= 3

MCInit == Init /\ First

MCSpec == MCInit /\ [][Next /\ Three']_vars
MCFairSpec == MCSpec /\ WF_vars(Terraform)

=============================================================================
