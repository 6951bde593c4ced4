# TLA+ for terraform-provider-boundary

Specifications of the Terraform provider for HashiCorp Boundary, model-checked
with TLC and, in part, proved with TLAPS. All paths below are relative to
`internal/provider/` of the repository unless they say otherwise.

## The system

The provider is a set of *resources*. Each has four handlers (Create, Read,
Update, Delete), which Terraform calls and which call Boundary's API. A run of
`terraform apply` reads every resource in the state (refresh), compares the
result with the configuration (plan), and calls one handler per resource that
differs, concurrently. The provider keeps nothing between two handlers: what
it remembers is the Terraform state. So three copies of every object meet in a
handler: what the configuration says, what the state remembers, and what Boundary
holds, which others change through the API whenever they like.

### Inventory

| Component | Source | State it keeps | What is hard | Correct if |
|---|---|---|---|---|
| Plugin host catalog | `resource_host_catalog_plugin.go` | digests of the secrets it sent (`secrets_hmac`, `internal_secrets_config_hmac`, `internal_hmac_used_for_secrets_config_hmac`) | Boundary never answers secrets; Update reads, decides and writes in two calls; planned values are saved after an error | digests are of confirmed secrets, secrets of others survive, applies settle |
| Credentials, Vault store | `resource_credential_{username_password,password,username_password_domain,ssh_private_key,json}.go`, `resource_credential_store_vault.go` | the secret as configured, the last HMAC seen | drift is noticed by overwriting the secret in the state with a marker; the token's HMAC expires | what a refresh shows is right, drift that was noticed is undone |
| Resources with sets | `resource_{role,group,user,host_set_static,target}.go` | the sets as last read | one handler, up to four calls, each may fail; versions; calls that carry two sets | what can be written is, what fails is reported, no object is lost |
| Auth methods | `resource_auth_method{,_password,_oidc,_ldap}.go` | attributes, `is_primary_for_scope` | two objects (method and scope), up to three calls, several resources and one slot | success means done, resources do not fight |
| Storage bucket | `resource_storage_bucket.go` | as plugin host catalog | as plugin host catalog; attributes that are never read back | as plugin host catalog |
| Slots of a scope | `resource_scope_policy_attachment.go`, `resource_scope_alias_suffix.go` | the value attached | Delete detaches whatever is attached; one resource takes the place of another in the same run | what somebody else attached survives, what a run spoils the next repairs |
| Target alias | `resource_alias_target.go` | attributes | a host id that is gone is not noticed | all else is noticed |
| Worker | `worker.go` | attributes, activation token | an auth token that is not read back replaces the worker; the configured scope is not sent | no worker is replaced without a cause |
| Scope | `resource_scope.go` | attributes | options of Create that are never read back; the global scope is adopted | the state is right about what it does read |
| Accounts, managed groups | `resource_account{,_password,_ldap,_oidc}.go`, `resource_managed_group{,_ldap}.go` | attributes | a password that is sent once and never compared | an edit of one attribute spoils no other |
| Credential libraries | `resource_credential_library_vault{,_ldap,_ssh_certificate}.go` | attributes | some can be set and not cleared, one is not read back and replaces | success means done, where it can be done |
| Static stores, hosts, catalogs, storage policies | `resource_{credential_store_static,host_static,host_catalog_static,policy_storage}.go` | attributes | a parent that can be neither changed nor forces a replacement; a handler that panics after its call | what a handler did is found out by the next |
| Plugin host set | `resource_host_set_plugin.go` | attributes, as JSON | compared as text, kept as JSON | the other attributes settle |
| Provider configuration | `provider.go` | client, token | precedence of recovery KMS, token, login; a default auth method looked up in one call and used in another, and moved by the handlers of the same workspace | what worked works again, or fails for a reason |
| Data sources | `data_source_*.go`, `filter.go` | none | reads only | plain |
| Entry point, KMS plugins, helpers | `main.go`, `plugins/kms`, `const.go`, `pathorcontents.go`, `scope.go` | none | none | plain |

Components interact in three ways. Resources share objects in Boundary: auth
methods share the scope's primary slot, and attachments and suffixes share the scope's
other slots. All handlers share one API client, configured in `provider.go`, whose
default login the auth methods of the same workspace can change. And a handler
meets its own past: every Update works on the state an earlier one saved, also
when that one failed, was interrupted, or lost the answer to its last call.

What Terraform and its SDK do is modelled as the code relies on it:

- A Create that returns an error with an id leaves the resource *tainted* (it is
  deleted and created again), without an id it leaves nothing in the state.
- An Update that returns an error leaves the **planned** values in the state,
  with what `d.Set` put over them.
- A killed provider leaves the state of before the handler. The refreshed
  values may be in it or not: a run of `terraform refresh` saves them.

## The modules

| Module | Models | Runs | Proofs |
|---|---|---|---|
| `PluginSecrets` | plugin host catalog, storage bucket and the HMAC protocol of `secrets_json` | `plugin_secrets`, `plugin_secrets_warning`, `plugin_secrets_null` | `PluginSecretsProofs` |
| `CredentialDrift` | six resources with secret fields, drift detection | `credential_drift`, `credential_masked` | `CredentialDriftProofs` |
| `ManagedObject` | what the provider promises of any object, as an abstract specification | implemented in `plugin_secrets`, `credential_drift`, `set_resources`, `single_calls` | implementations proved in the four modules' proofs |
| `SetResources` | role, group, user, static host set, target | `set_resources` | `SetResourcesProofs` |
| `SingleCallResources` | the resources with one call per operation, from target aliases to workers; the attributes of storage buckets, oidc and ldap auth methods | `single_calls`, `import_worker` | `SingleCallResourcesProofs` |
| `ProviderLogin` | the configuration of the provider and the default auth method | `provider_login` | `ProviderLoginProofs` |
| `AuthMethods` | auth methods of one scope and the primary slot | `auth_methods`, `auth_primary` | `AuthMethodsProofs` |
| `ScopeSlots` | policy attachment and alias suffix | `scope_slots` | `ScopeSlotsProofs` |

`MC<module>` gives the module its constants for TLC.

The modules of resources have the same shape. `config`, `server` and `state` are the three
copies. `pc` says where Terraform is (idle, planned, inside a handler between two
calls). The *environment* edits the configuration (`EditConfig`), changes or
deletes the object in Boundary (`Api...`) and imports. `diags` are the
diagnostics of the last handler that returned. An action is one API call with everything
the code does up to the next one. A call may fail, and where that leaves
something behind which is not otherwise reached, it may also take effect though the answer is
lost. Of Create and Delete in `PluginSecrets` and `CredentialDrift`, and of Create, Delete
and `UpdateAttrs` in `SetResources`, only the former is an action: a Create whose answer is
lost leaves what `ApiCreate` and `Crash` leave, a Delete or an update of attributes what the
same done by others and a failed call leave. Between two calls anybody may act. `Crash` ends
a run anywhere.

The modules share no variables: no handler of one component touches an object of another,
except that auth methods move the default login. `ProviderLogin` has these
events as actions of its environment, since what it claims must hold whoever
causes them, this workspace included.

### PluginSecrets

`text` and `planned` are what Update was planned with, `decision` what
`calculateConfigHmacPlan` made of the HMAC Update has just read. Its six states
(described in the comments of the code, lines 192-291) are
`CalculateConfigHmacPlan` and `CompareDigests`. Update sends each attribute only if the
plan changes it (`SentAttrs`, `HasChange` in the code): one that somebody else changed since the
refresh stays as it is beside secrets and attributes that are sent, until the next plan shows it.
A digest is modelled as the record of its key and
its message: keyed hashes that agree are taken to be of the same key and
message. JSON is modelled by what it parses to: two texts can be one object, one
may be malformed, and `"null"` parses to nothing. History variables: `confirmed` (the
secrets Boundary last confirmed), `disturbed` (somebody changed the secrets since Update
looked), `hatch` (an apply without secrets has been run).

`boundary_storage_bucket` has the same handlers, word for word, and calls the same
`calculateConfigHmacPlan`; some definitions are mapped to its file. What it has more
is three attributes that Read does not read back (`bucket_name`, `bucket_prefix`,
`worker_filter`): these are the kind `StorageBucket` of `SingleCallResources`.

### CredentialDrift

The six resources are one protocol over fields that are `Optional`
(a passphrase), `Clearable` (leaving it out clears it: the client certificate
key) or `Expiring` (Boundary stops answering its HMAC: the Vault token). `SetFrom`
is `setFrom...ResponseMap`: with `fromRead` it compares HMACs and puts the
marker, without it takes what the answer says. History: `disturbed` (fields
changed since the refresh) and `spoiled` (fields whose HMAC in the state may belong to
another secret than the one beside it, after a failed Update or one that
raced with a rotation).

### ManagedObject

The abstract specification: one object, what is configured of it, and whether the
provider knows it as its own. It may be made, changed towards the configuration
(some parts become what is configured, no part anything else), destroyed, lost or
adopted; nothing is said of calls, versions, plans or faults. A `Put` need not leave
`wanted` as it is: the step in which a handler returns may also be the one from which a later
edit counts. `Fresh` is what Boundary puts into parts of a new object that were not sent.

Four modules implement it, `ImplementsManaged`, under mappings given beside that property:

| Module | Parts | Left to Boundary (not in `wanted`) |
|---|---|---|
| `PluginSecrets` | attributes, secrets | secrets without a `secrets_json`, or with one that does not parse |
| `CredentialDrift` | attributes, each secret field | a passphrase that is not configured |
| `SetResources` | attributes, each set | a computed set that is not configured |
| `SingleCallResources` | each attribute | none |

In `PluginSecrets`, `wanted` is inside Update what Update was called with, and
`ImplementsManaged` adds that it stays so. In `SetResources`, an object inside Create is owned
though it is not in the state yet.

For the credentials this says that the marker which stands for a drifted secret in the state
is never sent to Boundary. For the plugin secrets it says that the way out of a mismatch,
`secrets_json` removed for one apply, forgets the secrets in the state and leaves them in Boundary.
Two properties of these modules say more about when something is written
(`DriftIsUndone`, `KeepsForeignSecrets`).

### SetResources

The five resources are records that differ in the `sets`, in which calls carry them
(`createCalls`, `updateCalls`; a target's two kinds of credential sources share one
call), in whether Create names the version of the response before
(`explicitVersions`: group, user, host set, target; a role's calls have the version read
automatically) and in whether a failed call ends the handler (`stopsAtError`: all but
the role). A set's content is one value, since every call writes a set whole.
`Rejected` is a grant that `checkGrantForDeprecation` does not let through.

### SingleCallResources

Handlers that make one call each are alike; their attributes are not. A kind is a
record that says for each attribute whether Read reads it back (`unread`, or only
if it is there: `sticky`), Update sends it (`unsent`) and clears it (`lasting`), a
change replaces the object (`replaces`), Create puts a constant (`fixed`), the
schema hides its differences (`suppressed`), Boundary keeps it in other words
(`reworded`), and whether Update panics when it is removed (`fragile`); and of the
resource whether Create refuses it without an attribute (`demanded`: the address of a
host), whether Update stores the answer or the plan (`answered`) and
which attribute makes Create take an object that exists (`adopts`: `global_scope`). Each
combination is read off the schema, the four handlers and `setFrom...ResponseMap`
of its file. "name" stands for every attribute that all handlers treat
alike, so that a kind has two to four attributes.

Storage buckets and auth methods make further calls, which are in `PluginSecrets` and
`AuthMethods`; here are their attributes, which those modules take for one.

History: `disturbed` (attributes that others changed since the refresh) and
`doubtful`: attributes that are not read back, and of which nobody can know
whether Boundary has what the state says, after an import, a change by others, or
an Update that failed or did not send them. Everything that is claimed is claimed of
the others, at any distance from the last time they were sent.

What the model shows beside its properties: a host whose address is removed is
updated, then the provider panics (`*address`, `resource_host_static.go:300`); a
worker's configured scope, a policy's scope, a host's catalog and an SSH
certificate library's removed attributes are planned for ever; a text of
`attributes_json` that is not as Boundary writes it is sent by every apply; the
global scope is not written before its second apply. After an import the state does not have
`global_scope`, since Read never sets it, so that Delete, which leaves the scope alone because of
that flag (`Spared`, `resource_scope.go:233`), really asks Boundary to delete the global scope.
What Boundary answers is not in this repository: it may refuse, for ever, or do it. Most attributes of an oidc auth
method can be set and not cleared, and are read only if they are there.

### ProviderLogin

`providerConfigure` from the settings (block and environment) to a client, with one
action per call: `ConfigureWithRecovery` and `ConfigureWithToken` make none,
`ConfigureWithMethod` leads to the listing of auth methods (`ListFinds`), the login, or
both. Anybody may add, remove or change auth methods in between, or make one
primary. `named` are the login names that are set and the passwords have two names, too: the
older ones are what the code falls back to. History: `last`, how the last
configuration that succeeded got in; `since`, the events since the auth method for it
was chosen; `meanwhile`, those since the present one was.

The only auth method of a scope is the default one, primary or not. The model shows
what follows (`FailsForCause` lists it): adding a second to a scope without a
primary one, with this very provider, makes its next configuration fail.

### AuthMethods

Several resources of one scope, each of a `kind`: `generic`
(`boundary_auth_method`), `password`, `oidc`, `ldap`. A run refreshes all of
them, then runs their handlers in any interleaving. `todo` is what a handler has
still to call: the method (`activate`, `attrs`, `lookup`, `readMethod`) and the scope
(`claim`, `readScope`). `primary` is the scope's slot. History: `disturbed`,
what somebody else wrote to since the handler began or its resource was
refreshed.

### ScopeSlots

Resources that each say what one slot of a scope holds; `kind` is `policy` (an
attachment, which has no Update: one that differs is replaced) or `suffix`. A
run refreshes all of them, then runs their handlers in any order, as the resources do
not depend on each other. `createFirst` is `create_before_destroy`: the old
attachment is `deposed` until the new one is there. `exclusive` leaves open whether
Boundary refuses to attach to a scope that has a policy. `ReadSlot` is what the two
Reads make of the state and the scope: an attachment is gone if another policy is
attached, a suffix is whatever it is. History: `writers` (resources that wrote
to the slot in this run) and `disturbed` (others did).

The model shows three things worth knowing. Delete does not look at what it empties,
and is right only because Read has just looked: with a second writer in the run, or
somebody else between refresh and Delete, it removes a value that is not its own.
Replacing a policy with `create_before_destroy` leaves the scope without any after
a run that reports success; the next run attaches it. And two resources that claim
one scope replace each other's value in every run.

## What the runs show

Bounds are `MaxEdits` / `MaxOutOfBand` / `MaxFaults`: edits of the
configuration, changes by others, and failed or lost calls and crashes together.
Each can happen at any point. One of each is enough for an overtaken
and then failed Update after an edit; two are given where a property needs a state that
an earlier one spoiled. Where a run says "three in all", the three may be any mix
within these bounds: that is one event to leave a state behind, one to make Terraform
act on it, and one to disturb it. Four of them were out of reach in these modules; for
their safety properties the proofs make up for it.

| Run | Bounds | Shows |
|---|---|---|
| `plugin_secrets` | 2/2/1 | `DigestsOfConfirmed`, `KeepMeansInSync`, `EscapeHatchOpens`, `KeepsForeignSecrets`, `ImplementsManaged`, `Converges`; two secrets, four texts, one attribute of two values |
| `plugin_secrets_warning` | 2/2/0 | violation of `MismatchIsReported`: the warning of state 6a is never shown |
| `plugin_secrets_null` | 2/2/0 | violation of `NullClears`: `"null"` does not clear secrets that were rotated in Boundary |
| `credential_drift` | 1/2/1 | `RefreshIsRight`, `DriftIsUndone`, `SuccessIsComplete`, `ImplementsManaged`, `Converges`; a token, a clearable key, a passphrase |
| `credential_masked` | 1/2/0 | violation of `ChangeForcesUpdate`: a rotation between refresh and an Update of other fields is never seen |
| `set_resources` | 1/1/2, three in all | `WritesWhatItCan`, `SuccessIsComplete`, `CreateIsRecorded`, `CreateKeepsOthers`, `ImplementsManaged`, `Converges`; a group, a role and a target (users and static host sets are like groups), of whose calls two may fail; four contents, one of them rejected |
| `single_calls` | 2/2/2, three in all | `RefreshIsRight`, `ReplacedForCause`, `SuccessIsComplete`, `ImplementsManaged`, `Converges`; fifteen kinds, one for each way attributes are treated, two values |
| `import_worker` | 1/1/1 | violation of `ImportIsExact`: an imported worker has no auth token, and is replaced by the next apply |
| `provider_login` | 1/3/1, three in all | `OverridesHold`, `SwitchesForCause`, `FailsForCause`, `GetsIn`; three auth methods, one of them oidc, two passwords. Three changes are a method added, made primary, and another removed |
| `auth_methods` | 1/1/1, two at most in all | `SuccessIsComplete`, `CreateIsRecorded`, `Stabilises`, `Converges`; two resources, every kind |
| `scope_slots` | 1/1/1 | `SparesOthers`, `RunIsEffective`, `Converges`; two resources, two values, both kinds, every way of replacing |
| `auth_primary` | 1/0/0 | violation of `ClaimIsMade`: `is_primary_for_scope` alone is never carried out on oidc and ldap |

`plugin_secrets` has one attribute: an update is sent without it when only the secrets differ, and
with it when it differs too. Two attributes beside each other were checked with one change by
others; the refinement is proved for any number.

Where a run starts from fewer configurations than `Init` has, its MC module says
so (`First`, `MCInit`): the ones left out are renamings, or one edit away.

In several places a property is stated up to something the code does, and the
statement says so:

- `Converges` of `CredentialDrift` assumes that no field stays spoiled. After an
  Update that failed, the SDK has saved the new secret beside an HMAC that still is
  Boundary's: no plan shows a difference, and the secret is never sent. Nothing in
  the repository says what should happen, so it is not listed as a finding.
- `Unremovable`: a passphrase that is removed from the configuration stays in Boundary.
- `Converges` of `AuthMethods` leaves the slot out. Read never notices that a
  method has lost it, and an Update that failed to claim it is not repeated.
  `Stabilises` says what is left: the resources do not take it from each other for ever.
  The price of noticing is what its mutant shows: two claimants would.
- `RefreshIsRight`, `SuccessIsComplete` and `Converges` of `SingleCallResources` leave
  out attributes that are `doubtful`, and a host id of an alias that was removed in Boundary
  (`Unnoticed`). `SuccessIsComplete` leaves out what Update has no way to write
  (`Excused`) and the first apply of the global scope, `Converges` what a plan shows for
  ever (`Inexpressible`): the other attributes of the same resource must settle beside it.
  `Converges` also leaves out what no apply can do: to create a host without an
  address or to adopt a global scope that is gone (`Uncreatable`), and to delete the global
  scope after an import (`Undeletable`).
- `Converges` of `PluginSecrets` counts state 6a (`Mismatch`) as settled, as nothing is sent in it
  until the operator decides. Secrets that were cleared in Boundary are no such case and must be
  sent again.
- `FailsForCause` allows that the default auth method is not clear any more.
- `SparesOthers` of `ScopeSlots` is about one writer in a run. Where one resource empties the
  slot of what another has put there in the same run, it says nothing, and `Converges` says that the
  next runs repair it.
- `RunIsEffective` of `ScopeSlots` leaves out `create_before_destroy`, as described above;
  no document says that a slot may or may not be replaced this way.
- `Converges` of `ScopeSlots` leaves out that Boundary refuses to attach to a scope that
  has a policy, if this resource is not going to detach it first.

### Fairness

`FairSpec` is weak fairness of `Terraform`: somebody keeps running `terraform
apply`, and a handler once called runs to its end, since the SDK calls handlers to
completion and no handler waits for another. Faults are bounded by `MaxFaults`, so
every run is eventually undisturbed. Fairness is assumed of nothing else: no edit,
import or change by others has to happen.

In `ProviderLogin` it is `Configure`: somebody keeps running Terraform commands, each of which
configures the provider anew and ends. `GetsIn` needs no more: whoever keeps
trying gets in if there is a way in from some point on, and nobody gets in for
ever without one.

Every run checks for deadlock; there is always another apply.

## What is proved

For all values of the constants (any secrets, fields, attributes, kinds, auth methods,
any bounds), with TLAPS. Each follows from an invariant `IInv` that is inductive, as what
is claimed is not:

- `PluginSecretsProofs`: `TypeCorrect`, `DigestsAreConfirmed`, `EscapeHatchWorks`,
  `KeepIsInSync`, `ForeignSecretsKept`, `UpdateIsComplete`, `RefinesManagedObject`,
  `SettledStays`. `KeepIsInSync` and `ForeignSecretsKept` do not follow from themselves: whether
  "known to match" is right depends on what the digests were computed from, many
  applies ago. `IInv` adds that digests are of confirmed secrets, that a resource outside the
  state has none, that the escape hatch forgets them, and that the decision
  Update acts on is the one it would take now unless somebody interfered
  (`DecisionIsCurrent`). That the HMACs of two secrets differ is proved from
  how they are modelled (`ServerHmacInjective`). `UpdateIsComplete` has no run of its own: an Update
  without diagnostics has made the secrets those it was called with, in each of the
  six states but 6a, in which nothing is sent.
- `CredentialDriftProofs`: `TypeCorrect`, `RefreshIsTruthful`, `NoticedDriftIsUndone`,
  `OneApplyIsEnough`, `RefinesManagedObject`, `SettledStays`.
  Comparing HMACs says something about the secret in the state only if the HMAC
  beside it is of that secret: `IInv` adds this for fields that are not spoiled
  (`PairedUnlessSpoiled`), also of those without a secret, whose HMAC must then be absent; that
  nothing is left of a resource that was dropped from the state (`UntrackedIsBlank`), which an
  import would otherwise meet; and that a credential which is gone after the refresh was removed
  by others (`GoneIsDisturbed`).
- `ScopeSlotsProofs`: `TypeCorrect`, `OthersSpared`, `RunsAreEffective`, `SettledStays`. `IInv` adds `Believed`: a resource
  that was refreshed and has not finished knows what the slot holds, as long as
  nobody has written to it in this run. That a failed Update leaves a value in the state that the
  slot does not hold is no exception, since the handler is then done. What a whole run
  achieves needs two more: a resource that alone writes knows what the slot holds through its own
  writes (`Knows`), and it stops without an error only when the state says what the
  configuration says (`Finished`).
- `SetResourcesProofs`: `TypeCorrect`, `HandlersWriteWhatTheyCan`, `SuccessIsTrue`,
  `CreationsAreRecorded`, `VersionsProtectOthers`, `RefinesManagedObject`, `SettledStays`. `IInv` adds
  `NothingIsLost` (a set that is to be written is on the list, counted as failed, or
  written already, unless disturbed), `ResponseIsRight` (the last response, which is
  recorded, is what Boundary holds of every set that did not fail) and `ConflictIsSeen`
  (after a change by others the version that Create names is an old one). `UpdateIsNeeded`, an
  invariant of its own, says that nothing an Update compares changes under it.
- `SingleCallResourcesProofs`: `TypeCorrect`, `PlansAreRight`, `ReplacementHasACause`,
  `SuccessIsTrue`, `RefinesManagedObject`, `SettledStays`, for any kinds that satisfy
  `KindsAssumption`. `IInv` adds `HiddenIsRight`: what is not read back is as the state
  says, between plans too, unless it is doubtful; that what is tainted and adopts is spared by
  Delete (`TaintedIsSpared`); that nobody changes what
  identifies an object, and that it is gone during a plan only if others did it.
- `ProviderLoginProofs`: `TypeCorrect`, `Precedence`, `LoginIsSteady`, `FailureHasACause`,
  `WayInIsTaken`, `NobodyElseGetsIn`.
  `IInv` describes what the events since then allow: as long as none has
  happened, the last login's auth method is still the default one (`DefaultKept`) and
  accepts its password (`AccountKept`); the method chosen by the
  listing is still there unless it was removed meanwhile.
- `AuthMethodsProofs`: `TypeCorrect`, `SuccessIsTrue`, `CreationsAreRecorded`, `SettledStays`,
  `SlotStays`. `IInv` is,
  of each auth method by itself, `Local`: whatever its handler is to bring about is still on
  its list of calls or holds in Boundary, unless somebody else wrote to it; the others' handlers
  count as somebody else for the scope they share.

The four refinements are proved as step simulations: initial states are mapped
to initial states, every step to one of `ManagedObject` or to none.

`SettledStays` is the half of `Converges` that is a safety property: from what `Converges`
ends in, no step of Terraform leads away, be it a refresh, one call of a handler, a failed one,
one whose answer is lost, or a crash. Of `Stabilises` it is `SlotStays`. Of the two parts of
`GetsIn` they are `WayInIsTaken` (from a way in every step goes on with it) and
`NobodyElseGetsIn` (a login that succeeds has taken one, unless the default auth method moved after
the listing). The latter needs `ReturnIsKnown`: an auth method that was removed after the
listing chose it may have come back when the login asks for it. What is left to TLC is
that these states are reached. Where the code does lead away, the theorem names it:

- `PluginSecrets`: inside an Update that is overtaken by an edit or by a change of the secrets
  (not `UpToDate`), which writes what it was called with.
- `SetResources`: nowhere, but what is rejected counts as settled, and an object configured so
  may be written to by every apply (`Unacceptable`). No other is.
- `SingleCallResources`: the object is replaced for an attribute that identifies it and
  is doubtful or cannot be expressed (`ReplacedInDoubt`), as an imported worker is.
- `AuthMethods`: between the two calls of a Read, which stores what the first answered
  after the second (`Stale`): a change in between shows only in the next plan.
- `CredentialDrift`, `ScopeSlots`: nowhere.

These theorems and `UpdateIsComplete` were checked with TLC on the
constants of the runs before they were proved; they have no run of their own, as a
proof says more.

The proofs assume the named `ASSUME`s of the modules (placeholders differ from
values, every set is carried by a call, bounds are naturals), which TLC evaluates in every run.
`IInv` was checked with TLC before it was proved.

Only model-checked: `Converges`, `Stabilises` and `GetsIn`, since liveness is out of the
prover's reach, and the five properties that are violated.

## What is left out

- Attributes other than the ones a property is about are one value, `attrs`.
- The generic `boundary_auth_method` of a type other than password: its Update ends with the Read
  of the password kind (`resource_auth_method.go:295`), which is not made for such an answer.
- `client_secret_hmac` of an oidc auth method given in the configuration (Update would send
  it as the client secret, `resource_auth_method_oidc.go:524`).
- In `ScopeSlots`, a scope that is deleted, and the checks of the ids' prefixes: the
  scope exists, is an org or a project, and the policy is a storage policy.
- In `SingleCallResources`, attributes that all handlers treat alike are one
  ("name"), and the activation token of a worker, which is shown once and nothing
  depends on. Configurations are ones the provider takes, but for a host without an address;
  other checks of values before a call are failed calls.
- In `ProviderLogin`, the address and TLS settings, which fail before Boundary is asked, and
  what the two calls answer beside ids and success; one scope.
- Two workspaces over one object. API users stand for the other workspace.
- The panic in Read on errors that carry no answer (`resource_group.go:142` and seven
  more): it is a failed read in the models.
- A session token that expires in the middle of a run: every later call is a failed one.
- Data sources, helpers, the entry point and the embedded KMS plugins: they
  keep no state and write nothing.

## Plan

Done: every resource and the provider's configuration are modelled; every safety property that
holds in a run is a theorem; four of the modules of resources are shown to implement
`ManagedObject`; what the liveness properties end in is proved to last.

Left, in this order:

1. `ProviderLogin` composed with `AuthMethods`, to show which of the events a single
   workspace can cause in one run.
2. Auth methods under `ManagedObject`, the slot aside.
