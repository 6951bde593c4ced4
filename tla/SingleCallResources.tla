------------------------ MODULE SingleCallResources ------------------------
(***************************************************************************)
(* Resources whose handlers make one call each: target aliases, workers,   *)
(* scopes, accounts, managed groups, Vault credential libraries, static    *)
(* stores, catalogs and hosts, plugin host sets, storage policies, and the *)
(* attributes of storage buckets and of auth methods, whose other calls    *)
(* are in PluginSecrets and AuthMethods.                                   *)
(*                                                                         *)
(* The handlers are alike, but the attributes are not treated alike: Read  *)
(* does not read all of them back, Update does not send all of them, and   *)
(* some make Terraform replace the object.  What goes wrong with one that  *)
(* is treated in two of these ways is seen only after several applies.     *)
(***************************************************************************)
EXTENDS Naturals

CONSTANTS
  Kinds,       \* the kinds of resources, from the ones below
  Values,      \* values of the attributes
  Unset,       \* an attribute that is absent
  Fixed,       \* the value of an attribute that Create fixes, or of a flag that is set
  Written,     \* how Boundary writes a value that it parses
  MaxEdits, MaxOutOfBand, MaxFaults   \* bounds on the environment

(***************************************************************************)
(* attrs: the attributes, "name" standing for all that every handler       *)
(* writes, clears and reads back.  required: never absent.  replaces:      *)
(* ForceNew.  fixed: Create puts a constant.  unsent: not in Update.       *)
(* lasting: not in Update if absent.  demanded: Create refuses to go       *)
(* without.  fragile: Update panics after a call that removed it.  unread: *)
(* not in setFrom...ResponseMap.  sticky: there only if the response has   *)
(* it.  suppressed: no difference is shown once the object is there.       *)
(* reworded: kept by Boundary parsed, not as text.  adopts: configured,    *)
(* Create takes an object that exists, and in the state, Delete leaves it. *)
(* answered: Update stores the response, not the plan.                     *)
(***************************************************************************)
Ordinary ==
  [attrs |-> {"name"}, required |-> {}, replaces |-> {}, fixed |-> {}, unsent |-> {},
   lasting |-> {}, demanded |-> {}, fragile |-> {}, unread |-> {}, sticky |-> {},
   suppressed |-> {}, reworded |-> {}, adopts |-> {}, answered |-> TRUE]

(* Made in a parent that it cannot leave. *)
Inside(parent) ==
  [Ordinary EXCEPT !.attrs = @ \cup {parent}, !.required = {parent}, !.replaces = {parent}]

StaticStore == Inside("scope_id")
StaticCatalog == Inside("scope_id")

VaultLdapLibrary == Inside("credential_store_id")

VaultLibrary ==
  [VaultLdapLibrary EXCEPT !.attrs = @ \cup {"credential_type"},
     !.replaces = @ \cup {"credential_type"}, !.unread = {"credential_type"}]

SshCertificateLibrary ==
  [VaultLdapLibrary EXCEPT !.attrs = @ \cup {"key_type"}, !.lasting = {"key_type"}]

Account ==
  [Inside("auth_method_id") EXCEPT !.attrs = @ \cup {"password"}, !.unread = {"password"},
     !.unsent = {"password"}, !.suppressed = {"password"}]

PasswordAccount == [Account EXCEPT !.answered = FALSE]

LdapAccount ==
  [Inside("auth_method_id") EXCEPT !.attrs = @ \cup {"login_name"},
     !.replaces = @ \cup {"login_name"}, !.answered = FALSE]

OidcAccount ==
  [Inside("auth_method_id") EXCEPT !.attrs = @ \cup {"issuer"}, !.replaces = @ \cup {"issuer"}]

ManagedGroup ==
  [Inside("auth_method_id") EXCEPT !.attrs = @ \cup {"filter"},
     !.required = @ \cup {"filter"}, !.answered = FALSE]

ManagedGroupLdap ==
  [Inside("auth_method_id") EXCEPT !.attrs = @ \cup {"group_names"},
     !.required = @ \cup {"group_names"}, !.answered = FALSE]

PluginHostSet ==
  [Inside("host_catalog_id") EXCEPT !.attrs = @ \cup {"attributes_json"},
     !.reworded = {"attributes_json"}]

StorageBucket ==
  [Inside("scope_id") EXCEPT !.attrs = @ \cup {"bucket_prefix"}, !.unread = {"bucket_prefix"}]

AuthMethodOidc ==
  [Inside("scope_id") EXCEPT !.attrs = @ \cup {"client_secret", "prompts"},
     !.unread = {"client_secret"}, !.lasting = {"client_secret", "prompts"}, !.sticky = {"prompts"}]

AuthMethodLdap ==
  [Inside("scope_id") EXCEPT !.attrs = @ \cup {"bind_password", "upn_domain"},
     !.unread = {"bind_password"}, !.sticky = {"upn_domain"}]

TargetAlias ==
  [Inside("scope_id") EXCEPT !.attrs = @ \cup {"host_id"}, !.sticky = {"host_id"}]

StaticHost ==
  [Ordinary EXCEPT !.attrs = @ \cup {"host_catalog_id", "address"},
     !.required = {"host_catalog_id"}, !.unsent = {"host_catalog_id"},
     !.demanded = {"address"}, !.fragile = {"address"}, !.answered = FALSE]

StoragePolicy ==
  [Ordinary EXCEPT !.attrs = @ \cup {"scope_id"}, !.required = {"scope_id"}, !.unsent = {"scope_id"}]

Worker ==
  [Ordinary EXCEPT !.attrs = @ \cup {"scope_id", "auth_token"},
     !.fixed = {"scope_id"}, !.unsent = {"scope_id"},
     !.unread = {"auth_token"}, !.replaces = {"auth_token"}, !.answered = FALSE]

Scope ==
  [Inside("scope_id") EXCEPT !.attrs = @ \cup {"auto_create_admin_role"},
     !.unread = {"auto_create_admin_role"}, !.unsent = {"auto_create_admin_role"},
     !.answered = FALSE]

(* Its scope_id is "global" throughout.                                    *)
GlobalScope ==
  [Scope EXCEPT !.attrs = (@ \ {"scope_id"}) \cup {"global_scope"}, !.required = {}, !.replaces = {},
     !.unread = @ \cup {"global_scope"}, !.unsent = @ \cup {"global_scope"},
     !.adopts = {"global_scope"}]

(* What the models rely on: the identity of a kind that replaces is never  *)
(* changed by anybody, and what is not read back is kept as it was sent.   *)
ASSUME KindsAssumption ==
  \A k \in Kinds :
    /\ "name" \in k.attrs
    /\ \A s \in {k.required, k.replaces, k.fixed, k.unsent, k.lasting, k.demanded, k.fragile,
                 k.unread, k.sticky, k.suppressed, k.reworded, k.adopts} : s \subseteq k.attrs
    /\ (k.unread \cup k.replaces) \cap (k.fixed \cup k.reworded \cup k.sticky) = {}
    /\ k.suppressed \cup k.adopts \subseteq k.unread \cap k.unsent
    /\ k.answered \in BOOLEAN

ASSUME ValuesAssumption ==
  /\ Unset \notin Values
  /\ Fixed \in Values
  /\ Written \in [Values -> Values]
  /\ \A v \in Values : Written[Written[v]] = Written[v]

ASSUME BoundsAssumption == MaxEdits \in Nat /\ MaxOutOfBand \in Nat /\ MaxFaults \in Nat

-----------------------------------------------------------------------------
VARIABLES
  config,      \* the resource block: its kind, is it there, and what it says
  server,      \* the object in Boundary
  state,       \* the resource in the Terraform state
  pc,          \* idle, or planned: refreshed, with a handler still to run
  diags,       \* diagnostics of the last handler that returned
  disturbed,   \* history: attributes that others changed since the refresh
  doubtful,    \* history: attributes of the state that nobody can know to be right
  edits, outOfBand, faults

history == <<disturbed, doubtful>>
bounds  == <<edits, outOfBand, faults>>
vars    == <<config, server, state, pc, diags, history, bounds>>

Kind == config.kind
Names == Kind.attrs

(* What adopts an object is a flag, and part of the kind.                  *)
Settings(k) ==
  {v \in [k.attrs -> Values \cup {Unset}] :
     (\A a \in k.required : v[a] # Unset) /\ (\A a \in k.adopts : v[a] = Fixed)}

ConfigsOf(k) == [kind : {k}, here : BOOLEAN, attrs : Settings(k)]
Configs == UNION {ConfigsOf(k) : k \in Kinds}

(* An attribute that is not read back is not there after an import, be it  *)
(* required or not.                                                        *)
Attributes == [Names -> Values \cup {Unset}]

TypeOK ==
  /\ config \in Configs
  /\ server \in [exists : BOOLEAN, attrs : Attributes]
  /\ state \in [tracked : BOOLEAN, tainted : BOOLEAN, attrs : Attributes]
  /\ pc \in {"idle", "planned"}
  /\ diags \in SUBSET {"error", "crash"}
  /\ disturbed \in SUBSET Names
  /\ doubtful \in SUBSET Names
  /\ edits \in 0..MaxEdits
  /\ outOfBand \in 0..MaxOutOfBand
  /\ faults \in 0..MaxFaults

Nothing == [a \in Names |-> Unset]

(* What Boundary keeps of what it is sent. *)
Stored(a, v) ==
  IF a \in Kind.fixed THEN Fixed
  ELSE IF a \in Kind.reworded /\ v # Unset THEN Written[v]
  ELSE v

Configured == [a \in Names |-> Stored(a, config.attrs[a])]

(* A workspace before its first apply.  There may be an object to import;  *)
(* one to adopt is always there.                                           *)
Init ==
  /\ config \in Configs
  /\ server \in [exists : BOOLEAN, attrs : {Configured}]
  /\ Kind.adopts # {} => server.exists
  /\ state = [tracked |-> FALSE, tainted |-> FALSE, attrs |-> Nothing]
  /\ pc = "idle" /\ diags = {}
  /\ disturbed = {} /\ doubtful = {}
  /\ edits = 0 /\ outOfBand = 0 /\ faults = 0

-----------------------------------------------------------------------------
(* What the provider computes.                                             *)

ReadsOnlyKnown(attrs, object) == [a \in Names \ Kind.unread |-> object[a]]

ClearsHidden(attrs, object) ==
  [a \in Names |-> IF a \in Kind.unread THEN Unset ELSE object[a]]

ReadsAllThatIsThere(attrs, object) ==
  [a \in Names |-> IF object[a] = Unset THEN attrs[a] ELSE object[a]]

(* setFrom...ResponseMap, over the attributes that the handler has. *)
ReadOver(attrs, object) ==
  [a \in Names |->
     IF a \in Kind.unread \/ (a \in Kind.sticky /\ object[a] = Unset) THEN attrs[a] ELSE object[a]]

(* SetId(""): the resource leaves the state. *)
Untracked == [tracked |-> FALSE, tainted |-> FALSE, attrs |-> Nothing]

Tracked(attrs) == [tracked |-> TRUE, tainted |-> FALSE, attrs |-> attrs]

(* The attributes that are planned for an object that is there. *)
Planned ==
  [a \in Names |-> IF a \in Kind.suppressed THEN state.attrs[a] ELSE config.attrs[a]]

Changed == {a \in Names : Planned[a] # state.attrs[a]}

(* HasChange, and GetOk for those without a default to send.               *)
SentIfSet == {a \in Changed \ Kind.unsent : config.attrs[a] # Unset}

Sent == {a \in Changed \ Kind.unsent : config.attrs[a] # Unset \/ a \notin Kind.lasting}

SendsAllOfIt == [a \in Names |-> IF a \in Sent THEN Configured[a] ELSE Unset]

Updated == [a \in Names |-> IF a \in Sent THEN Configured[a] ELSE server.attrs[a]]

(* What an answered Update leaves, and what one that is not. *)
AfterUpdate == IF Kind.answered THEN ReadOver(Planned, Updated) ELSE Planned

(* Terraform replaces what is tainted or cannot be changed. *)
Replacing == state.tainted \/ Changed \cap Kind.replaces # {}

(* Create asks for more than the schema does. *)
Refused == \E a \in Kind.demanded : config.attrs[a] = Unset

DeletesAnyway == FALSE

(* The state says that Delete is to leave the object; Read does not find   *)
(* that out.                                                               *)
Spared == \E a \in Kind.adopts : state.attrs[a] # Unset

(* The values of an attribute that is not read back are doubtful if what   *)
(* was planned was not sent, or not for certain.                           *)
Unsure(as) == as \cap Kind.unread

(* A handler returns with diagnostics d, or dies. *)
Return(d) == pc' = "idle" /\ diags' = d /\ disturbed' = {}

Fault == faults < MaxFaults /\ faults' = faults + 1 /\ UNCHANGED <<edits, outOfBand>>

-----------------------------------------------------------------------------
(* Terraform.                                                              *)

(* terraform plan: Read, unless there is nothing to read. *)
Plan ==
  /\ pc = "idle"
  /\ \/ ~state.tracked /\ UNCHANGED <<state, doubtful>>
     \/ /\ state.tracked /\ server.exists /\ UNCHANGED doubtful
        /\ state' = [state EXCEPT !.attrs = ReadOver(state.attrs, server.attrs)]
     \/ state.tracked /\ ~server.exists /\ state' = Untracked /\ doubtful' = {}
  /\ pc' = "planned" /\ diags' = {} /\ disturbed' = {}
  /\ UNCHANGED <<config, server, bounds>>

ApplyNothing ==
  /\ pc = "planned" /\ config.here = state.tracked
  /\ config.here => ~state.tainted /\ Changed = {}
  /\ Return({})
  /\ UNCHANGED <<config, server, state, doubtful, bounds>>

Creates == pc = "planned" /\ config.here /\ ~state.tracked

(* An object made by an earlier Create that did not live to record it is   *)
(* nobody's then.                                                          *)
Create ==
  /\ Creates /\ Kind.adopts = {} /\ ~Refused
  /\ server' = [exists |-> TRUE, attrs |-> Configured]
  /\ state' = Tracked(ReadOver(config.attrs, Configured))
  /\ doubtful' = {}
  /\ Return({})
  /\ UNCHANGED <<config, bounds>>

(* resourceScopeCreate with global_scope: SetId("global"), and Read, which *)
(* takes the id back if there is nothing.                                  *)
Adopt ==
  /\ Creates /\ Kind.adopts # {}
  /\ IF server.exists
     THEN state' = Tracked(ReadOver(config.attrs, server.attrs)) /\ doubtful' = Kind.unread
     ELSE UNCHANGED <<state, doubtful>>
  /\ Return({})
  /\ UNCHANGED <<config, server, bounds>>

(* With an id already set, the error leaves a tainted resource, which the  *)
(* next refresh drops if there is nothing.                                 *)
CreateFails ==
  /\ Creates
  /\ \/ Kind.adopts = {} /\ Refused /\ UNCHANGED bounds
     \/ Fault
  /\ IF Kind.adopts # {} /\ server.exists
     THEN /\ state' = [tracked |-> TRUE, tainted |-> TRUE, attrs |-> config.attrs]
          /\ doubtful' = Kind.unread
     ELSE UNCHANGED <<state, doubtful>>
  /\ Return({"error"})
  /\ UNCHANGED <<config, server>>

CreateReplyLost ==
  /\ Creates /\ Kind.adopts = {} /\ ~Refused /\ Fault
  /\ server' = [exists |-> TRUE, attrs |-> Configured]
  /\ \E d \in {{"error"}, {"crash"}} : Return(d)
  /\ UNCHANGED <<config, state, doubtful>>

Updates ==
  pc = "planned" /\ config.here /\ state.tracked /\ ~Replacing /\ Changed # {}

(* Update removes an attribute that it cannot report as removed. *)
Panics == \E a \in Sent \cap Kind.fragile : config.attrs[a] = Unset

UpdateCall ==
  /\ Updates /\ Sent # {} /\ server.exists /\ ~Panics
  /\ server' = [server EXCEPT !.attrs = Updated]
  /\ state' = Tracked(AfterUpdate)
  /\ doubtful' = (doubtful \cup Unsure(Changed)) \ Sent
  /\ Return({})
  /\ UNCHANGED <<config, bounds>>

(* len(opts) = 0: what is planned is stored all the same. *)
UpdateNoCall ==
  /\ Updates /\ Sent = {}
  /\ state' = Tracked(Planned)
  /\ doubtful' = doubtful \cup Unsure(Changed)
  /\ Return({})
  /\ UNCHANGED <<config, server, bounds>>

UpdateFails ==
  /\ Updates /\ Sent # {}
  /\ \/ ~server.exists /\ UNCHANGED bounds
     \/ Fault
  /\ state' = Tracked(Planned)
  /\ doubtful' = doubtful \cup Unsure(Changed)
  /\ Return({"error"})
  /\ UNCHANGED <<config, server>>

(* Boundary has applied the update but the answer was lost. *)
UpdateReplyLost ==
  /\ Updates /\ Sent # {} /\ server.exists /\ Fault
  /\ server' = [server EXCEPT !.attrs = Updated]
  /\ state' = Tracked(Planned)
  /\ doubtful' = (doubtful \cup Unsure(Changed)) \ Sent
  /\ Return({"error"})
  /\ UNCHANGED config

(* The provider dies after the call, by itself or because it panics. *)
UpdateDies ==
  /\ Updates /\ Sent # {} /\ server.exists
  /\ \/ Panics /\ UNCHANGED bounds
     \/ Fault
  /\ server' = [server EXCEPT !.attrs = Updated]
  /\ doubtful' = doubtful \cup Unsure(Sent)
  /\ Return({"crash"})
  /\ UNCHANGED <<config, state>>

Deletes == pc = "planned" /\ state.tracked /\ (config.here => Replacing)

(* Also the first half of a replacement: Create follows.                   *)
Delete ==
  /\ Deletes
  /\ IF Spared THEN UNCHANGED server
     ELSE server.exists /\ server' = [server EXCEPT !.exists = FALSE]
  /\ state' = Untracked /\ doubtful' = {}
  /\ IF config.here THEN UNCHANGED <<pc, diags, disturbed>> ELSE Return({})
  /\ UNCHANGED <<config, bounds>>

(* An object that is gone already is an error too, and Boundary may refuse *)
(* to delete one that can only be adopted, however often it is asked.      *)
DeleteFails ==
  /\ Deletes /\ ~Spared
  /\ \/ (~server.exists \/ Kind.adopts # {}) /\ UNCHANGED bounds
     \/ Fault
  /\ Return({"error"})
  /\ UNCHANGED <<config, server, state, doubtful>>

DeleteReplyLost ==
  /\ Deletes /\ ~Spared /\ server.exists /\ Fault
  /\ server' = [server EXCEPT !.exists = FALSE]
  /\ \E d \in {{"error"}, {"crash"}} : Return(d)
  /\ UNCHANGED <<config, state, doubtful>>

Crash ==
  /\ pc = "planned" /\ Fault
  /\ Return({"crash"})
  /\ UNCHANGED <<config, server, state, doubtful>>

(* terraform import: the id is given, Read fills the rest. *)
Import ==
  /\ pc = "idle" /\ config.here /\ ~state.tracked /\ server.exists
  /\ state' = Tracked(ReadOver(Nothing, server.attrs))
  /\ diags' = {} /\ doubtful' = Kind.unread
  /\ UNCHANGED <<config, server, pc, disturbed, bounds>>

Terraform ==
  \/ Plan \/ ApplyNothing
  \/ Create \/ Adopt \/ CreateFails \/ CreateReplyLost
  \/ UpdateCall \/ UpdateNoCall \/ UpdateFails \/ UpdateReplyLost \/ UpdateDies
  \/ Delete \/ DeleteFails \/ DeleteReplyLost
  \/ Crash

-----------------------------------------------------------------------------
(* Everybody else.                                                         *)

(* Terraform reads its configuration when it plans. *)
EditConfig ==
  /\ pc = "idle"
  /\ edits < MaxEdits /\ edits' = edits + 1
  /\ config' \in ConfigsOf(Kind) \ {config}
  /\ UNCHANGED <<server, state, pc, diags, history, outOfBand, faults>>

ApiCall ==
  /\ server.exists
  /\ outOfBand < MaxOutOfBand /\ outOfBand' = outOfBand + 1
  /\ UNCHANGED <<config, state, pc, diags, edits, faults>>

ApiSet ==
  /\ ApiCall
  /\ \E a \in Names \ (Kind.replaces \cup Kind.fixed \cup Kind.adopts), v \in Values \cup {Unset} :
       /\ a \in Kind.required => v # Unset
       /\ Stored(a, v) # server.attrs[a]
       /\ server' = [server EXCEPT !.attrs[a] = Stored(a, v)]
       /\ disturbed' = disturbed \cup {a}
       /\ doubtful' = IF state.tracked THEN doubtful \cup Unsure({a}) ELSE doubtful

ApiDelete ==
  /\ ApiCall /\ Kind.adopts = {}
  /\ server' = [server EXCEPT !.exists = FALSE]
  /\ disturbed' = Names
  /\ UNCHANGED doubtful

Environment == EditConfig \/ Import \/ ApiSet \/ ApiDelete

Next == Terraform \/ Environment

Spec == Init /\ [][Next]_vars

(* The operator keeps running terraform apply, and a handler that has      *)
(* started runs to its end.  Faults are finitely many.                     *)
FairSpec == Spec /\ WF_vars(Terraform)

-----------------------------------------------------------------------------
(* Properties.                                                             *)

(* Nobody can notice that an attribute has gone that is read only if it is *)
(* there.                                                                  *)
Unnoticed(a) == a \in Kind.sticky /\ server.attrs[a] = Unset

(* Every plan is made from the truth: what the state says of an attribute  *)
(* is what Boundary holds, also if Read does not read it back, unless      *)
(* somebody has changed it since, or one of the events that mark it as     *)
(* doubtful has happened.                                                  *)
RefreshIsRight ==
  pc = "planned" /\ state.tracked /\ server.exists =>
    \A a \in Names \ (disturbed \cup doubtful) :
      server.attrs[a] = state.attrs[a] \/ Unnoticed(a)

(* An object that is configured is destroyed only if Boundary holds        *)
(* another value than is configured of an attribute that cannot be         *)
(* changed.  Doubt about one that is not read back is enough, though.      *)
ReplacedForCause ==
  [][ config.here /\ server.exists /\ ~server'.exists /\ outOfBand' = outOfBand =>
        \E a \in Kind.replaces : a \in doubtful \/ server.attrs[a] # config.attrs[a] ]_vars

(* After an apply that reports success Boundary holds what is configured,  *)
(* but for the attributes that Update has no way to write, and what nobody *)
(* can know or notice.  A scope that was adopted takes a second apply.     *)
Excused(a) ==
  \/ a \in doubtful \cup doubtful' \/ Unnoticed(a)
  \/ state.tracked /\ a \in Kind.unsent
  \/ state.tracked /\ a \in Kind.lasting /\ config.attrs[a] = Unset

SuccessIsComplete ==
  [][ /\ pc = "planned" /\ pc' = "idle" /\ diags' = {} /\ disturbed = {} /\ config.here
      /\ ~(Kind.adopts # {} /\ ~state.tracked)
      => /\ server'.exists
         /\ \A a \in Names : Excused(a) \/ server'.attrs[a] = Configured[a] ]_vars

(* Applying again and again makes Boundary hold what is configured, and    *)
(* then plans nothing more: no attribute is written or replaced for ever,  *)
(* unless it is configured in a way that Boundary cannot keep.             *)
Inexpressible(a) ==
  \/ a \in Kind.unsent \/ config.attrs[a] # Configured[a]
  \/ a \in Kind.lasting /\ config.attrs[a] = Unset

Quiet(a) == ReadOver(state.attrs, server.attrs)[a] = Planned[a]

(* No apply can create what Create refuses, or adopt what is gone; nor is  *)
(* it known whether Boundary deletes the global scope when it is asked to. *)
Uncreatable == IF Kind.adopts = {} THEN Refused ELSE ~server.exists

Undeletable == Kind.adopts # {} /\ ~Spared

Settled ==
  \/ ~config.here /\ ~state.tracked
  \/ config.here /\ ~state.tracked /\ Uncreatable
  \/ ~config.here /\ state.tracked /\ Undeletable
  \/ /\ config.here /\ state.tracked /\ ~state.tainted /\ server.exists
     /\ \A a \in Names :
          \/ a \in doubtful \/ Inexpressible(a)
          \/ (server.attrs[a] = Configured[a] \/ Unnoticed(a)) /\ Quiet(a)

Converges == <>[]Settled

(* One object that is managed, with its attributes for parts. *)
Managed == INSTANCE ManagedObject WITH
  Fresh <- {},
  wanted <- [here |-> config.here, object |-> Configured],
  actual <- [exists |-> server.exists, object |-> server.attrs],
  owned <- state.tracked,
  others <- outOfBand

(* The object only ever moves towards the configuration, and only what is  *)
(* in the state is written or destroyed, whatever a kind does with its     *)
(* attributes.                                                             *)
ImplementsManaged == Managed!Spec

(* "ImportStateVerify: true", of a worker with an auth token: import gives *)
(* the state that apply has left.                                          *)
ImportIsExact ==
  [][ ~state.tracked /\ state'.tracked /\ pc = "idle" /\ server.attrs = config.attrs =>
        state'.attrs = config.attrs ]_vars

=============================================================================
