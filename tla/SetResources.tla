---------------------------- MODULE SetResources ----------------------------
(***************************************************************************)
(* Resources whose sets are written by API calls of their own:             *)
(* boundary_group (members), boundary_user (accounts),                     *)
(* boundary_host_set_static (hosts), boundary_role (principals, grants,    *)
(* grant scopes) and boundary_target (host sources, brokered and injected  *)
(* credential sources).                                                    *)
(*                                                                         *)
(* Create makes the object and then fills its sets, call by call; Update   *)
(* changes the other attributes and then every set that differs.  Any of   *)
(* the calls can fail, or be overtaken by somebody else's, and the handler *)
(* must leave a state from which the next apply can go on.                 *)
(*                                                                         *)
(* The kinds of resources differ in the sets, in which calls carry them,   *)
(* in whether Create names the version it expects, and in what a failed    *)
(* call does to the rest of the handler.                                   *)
(***************************************************************************)
EXTENDS Naturals, Sequences

CONSTANTS
  Kinds,              \* the kinds of resources, from the ones below
  Contents,           \* what may be in such a set; every write is of the whole
  Empty,              \* the empty set
  Rejected,           \* contents that checkGrantForDeprecation rejects
  Default,            \* what Boundary fills a computed set with
  Unset,              \* a computed set that is not configured
  Attrs,              \* values of the other attributes
  MaxEdits, MaxOutOfBand, MaxFaults   \* bounds on the environment

(***************************************************************************)
(* sets: the set-valued attributes; checked: those whose contents          *)
(* checkGrantForDeprecation looks at; computed: those that Boundary fills  *)
(* if they are not configured.  createCalls, updateCalls: the calls after  *)
(* the first, in order, with the sets that each carries.                   *)
(* explicitVersions: Create's calls name the version of the response       *)
(* before.  stopsAtError: a failed call ends the handler.                  *)
(***************************************************************************)
OneSet(s) ==
  [sets |-> {s}, checked |-> {}, computed |-> {}, createCalls |-> <<{s}>>,
   updateCalls |-> <<{s}>>, explicitVersions |-> TRUE, stopsAtError |-> TRUE]

Group == OneSet("member_ids")
User == OneSet("account_ids")
HostSetStatic == OneSet("host_ids")

Target ==
  [sets |-> {"host_source_ids", "brokered", "injected"}, checked |-> {}, computed |-> {},
   createCalls |-> <<{"host_source_ids"}, {"brokered", "injected"}>>,
   updateCalls |-> <<{"host_source_ids"}, {"brokered", "injected"}>>,
   explicitVersions |-> TRUE, stopsAtError |-> TRUE]

Role ==
  [sets |-> {"principal_ids", "grant_strings", "grant_scope_ids"},
   checked |-> {"grant_strings"}, computed |-> {"grant_scope_ids"},
   createCalls |-> <<{"principal_ids"}, {"grant_strings"}, {"grant_scope_ids"}>>,
   updateCalls |-> <<{"grant_strings"}, {"principal_ids"}, {"grant_scope_ids"}>>,
   explicitVersions |-> FALSE, stopsAtError |-> FALSE]

Valid == Contents \ Rejected

ASSUME ContentsAssumption ==
  /\ Empty \in Valid /\ Default \in Valid
  /\ Rejected \subseteq Contents
  /\ Unset \notin Contents
  /\ Attrs # {}

(* Every set is carried by a call, and a computed one by a call of its own.*)
Carries(calls, k) ==
  /\ calls \in Seq(SUBSET k.sets)
  /\ \A s \in k.sets : \E i \in DOMAIN calls : s \in calls[i]
  /\ \A i \in DOMAIN calls, s \in k.computed : s \in calls[i] => calls[i] = {s}

ASSUME KindsAssumption ==
  \A k \in Kinds :
    /\ k.checked \subseteq k.sets /\ k.computed \subseteq k.sets
    /\ k.checked \cap k.computed = {} /\ "attrs" \notin k.sets
    /\ Carries(k.createCalls, k) /\ Carries(k.updateCalls, k)
    /\ k.explicitVersions \in BOOLEAN /\ k.stopsAtError \in BOOLEAN

ASSUME BoundsAssumption == MaxEdits \in Nat /\ MaxOutOfBand \in Nat /\ MaxFaults \in Nat

-----------------------------------------------------------------------------
VARIABLES
  config,      \* the resource block: its kind, is it there, and what it says
  server,      \* the object in Boundary
  state,       \* the resource in the Terraform state
  pc,          \* idle, planned, or inside Create or Update
  todo,        \* positions of the calls the running handler still has to make
  want,        \* the planned values it works on
  apiResponse, \* Create's last response
  current,     \* nobody has written since: its version is the object's
  failed,      \* the sets it could not write
  diags,       \* diagnostics of the last handler that returned
  disturbed,   \* history: others wrote the object since the refresh, or since Create
  edits, outOfBand, faults

locals == <<todo, want, apiResponse, current, failed>>
bounds == <<edits, outOfBand, faults>>
vars   == <<config, server, state, pc, locals, diags, disturbed, bounds>>

Sets     == config.kind.sets
Checked  == config.kind.checked
Computed == config.kind.computed

(* What may be configured, planned, and stored. *)
Settings(k) ==
  {v \in [k.sets -> Contents \cup {Unset}] : \A s \in k.sets :
     /\ s \in k.computed => v[s] # Empty
     /\ s \notin k.computed => v[s] # Unset
     /\ s \notin k.checked => v[s] \notin Rejected}

ConfigsOf(k) == [kind : {k}, here : BOOLEAN, attrs : Attrs, sets : Settings(k)]
Configs == UNION {ConfigsOf(k) : k \in Kinds}

Plans    == [Sets -> Contents]
Stores   == [Sets -> Valid]

Objects == [attrs : Attrs, sets : Stores]

TypeOK ==
  /\ config \in Configs
  /\ server \in [exists : BOOLEAN, object : Objects]
  /\ state \in [tracked : BOOLEAN, tainted : BOOLEAN, attrs : Attrs, sets : Plans]
  /\ pc \in {"idle", "planned", "create", "update"}
  /\ todo \subseteq Nat
  /\ want \in [attrs : Attrs, sets : Plans]
  /\ apiResponse \in Objects
  /\ current \in BOOLEAN
  /\ failed \in SUBSET Sets
  /\ diags \in SUBSET {"error", "crash"}
  /\ disturbed \in BOOLEAN
  /\ edits \in 0..MaxEdits
  /\ outOfBand \in 0..MaxOutOfBand
  /\ faults \in 0..MaxFaults

(* A new object: only Create's own call has been made. *)
NewObject(attrs) ==
  [attrs |-> attrs, sets |-> [s \in Sets |-> IF s \in Computed THEN Default ELSE Empty]]

(* What the locals are while no handler runs. *)
Blank == NewObject(CHOOSE a \in Attrs : TRUE)

Init ==
  /\ config \in Configs
  /\ server = [exists |-> FALSE, object |-> NewObject(config.attrs)]
  /\ state = [tracked |-> FALSE, tainted |-> FALSE, attrs |-> config.attrs,
              sets |-> [s \in Sets |-> Empty]]
  /\ pc = "idle"
  /\ todo = {} /\ failed = {}
  /\ want = Blank /\ apiResponse = Blank
  /\ current = TRUE
  /\ diags = {} /\ disturbed = FALSE
  /\ edits = 0 /\ outOfBand = 0 /\ faults = 0

-----------------------------------------------------------------------------
(* What the provider computes.                                             *)

SetFromOnlyAttrs(st, object) == [st EXCEPT !.tracked = TRUE, !.attrs = object.attrs]

(* setFrom...ResponseMap: everything is read back. *)
SetFrom(st, object) ==
  [st EXCEPT !.tracked = TRUE, !.attrs = object.attrs, !.sets = object.sets]

(* SetId(""): the resource leaves the state. *)
Untracked(st) ==
  [st EXCEPT !.tracked = FALSE, !.tainted = FALSE, !.sets = [s \in Sets |-> Empty]]

(* A computed set that is not configured keeps its value, or gets the      *)
(* default; in Create it is not known and not sent.                        *)
WantedUnset(sets) == [attrs |-> config.attrs, sets |-> config.sets]

WantedFrom(sets) ==
  [attrs |-> config.attrs,
   sets |-> [s \in Sets |-> IF config.sets[s] = Unset THEN sets[s] ELSE config.sets[s]]]

(* An error leaves the planned values in the state, like success.          *)
PlannedState(plan) == [state EXCEPT !.attrs = plan.attrs, !.sets = plan.sets]

Differs(plan, call) == \E s \in call : plan.sets[s] # state.sets[s]

HasRejected(plan, call) == \E s \in call \cap Checked : plan.sets[s] \in Rejected

(* Create makes a call only for sets that are there, Update for sets that  *)
(* have changed, be it to nothing.                                         *)
CreateCalls == config.kind.createCalls
UpdateCalls == config.kind.updateCalls

CallsOfCreate ==
  {i \in DOMAIN CreateCalls : \E s \in CreateCalls[i] : config.sets[s] \notin {Empty, Unset}}

SkipsEmptied(plan) ==
  {i \in DOMAIN UpdateCalls :
     Differs(plan, UpdateCalls[i]) /\ \E s \in UpdateCalls[i] : plan.sets[s] # Empty}

CallsOfUpdate(plan) == {i \in DOMAIN UpdateCalls : Differs(plan, UpdateCalls[i])}

SendsOnlyChanged(object, call) ==
  [object EXCEPT !.sets = [s \in Sets |-> IF s \notin call THEN object.sets[s]
                                          ELSE IF want.sets[s] # state.sets[s] THEN want.sets[s]
                                          ELSE Empty]]

(* A call replaces the sets it carries, those left out by nothing. *)
AfterCall(object, call) ==
  [object EXCEPT !.sets = [s \in Sets |-> IF s \in call THEN want.sets[s] ELSE object.sets[s]]]

(* The sets that the i-th call of the running handler carries. *)
Call(i) == IF pc = "create" THEN CreateCalls[i] ELSE UpdateCalls[i]

StopsAnyway(i) == {}

(* What is left to do after the i-th call failed, and what will not have   *)
(* been written.                                                           *)
AfterFailure(i) == IF config.kind.stopsAtError THEN {} ELSE todo \ {i}
LostWith(i) == IF config.kind.stopsAtError THEN UNION {Call(j) : j \in todo} ELSE Call(i)

(* The version Create names next is that of the last response. *)
NamesFirstVersion == FALSE
NamesLastVersion == TRUE

(* A handler returns with diagnostics d, or dies. *)
Return(d) ==
  /\ pc' = "idle" /\ diags' = d
  /\ todo' = {} /\ failed' = {} /\ current' = TRUE
  /\ want' = Blank /\ apiResponse' = Blank

Error == IF failed = {} THEN {} ELSE {"error"}

Fault == faults < MaxFaults /\ faults' = faults + 1 /\ UNCHANGED <<edits, outOfBand>>

-----------------------------------------------------------------------------
(* Terraform.                                                              *)

(* terraform plan: Read, unless there is nothing to read. *)
Plan ==
  /\ pc = "idle"
  /\ \/ ~state.tracked /\ UNCHANGED state
     \/ state.tracked /\ server.exists /\ state' = SetFrom(state, server.object)
     \/ state.tracked /\ ~server.exists /\ state' = Untracked(state)
  /\ pc' = "planned" /\ diags' = {} /\ disturbed' = FALSE
  /\ UNCHANGED <<config, server, locals, bounds>>

NothingToDo ==
  \/ ~config.here /\ ~state.tracked
  \/ config.here /\ state.tracked /\ ~state.tainted /\ PlannedState(WantedFrom(state.sets)) = state

ApplyNothing ==
  /\ pc = "planned" /\ NothingToDo
  /\ Return({})
  /\ UNCHANGED <<config, server, state, disturbed, bounds>>

Creates == pc = "planned" /\ config.here /\ ~state.tracked
CreatePlan == WantedFrom(NewObject(config.attrs).sets)

(* The first call of Create.  Grants are checked before anything is sent.  *)
Create ==
  /\ Creates /\ \A s \in Checked : config.sets[s] \notin Rejected
  /\ server' = [exists |-> TRUE, object |-> NewObject(config.attrs)]
  /\ apiResponse' = NewObject(config.attrs)
  /\ want' = CreatePlan
  /\ todo' = CallsOfCreate
  /\ failed' = {} /\ current' = TRUE
  /\ pc' = "create" /\ disturbed' = FALSE
  /\ UNCHANGED <<config, state, diags, bounds>>

CreateFails ==
  /\ Creates
  /\ \/ (\E s \in Checked : config.sets[s] \in Rejected) /\ UNCHANGED bounds
     \/ Fault
  /\ Return({"error"})
  /\ UNCHANGED <<config, server, state, disturbed>>

Updates == pc = "planned" /\ config.here /\ state.tracked /\ ~state.tainted /\ ~NothingToDo
UpdatePlan == WantedFrom(state.sets)

(* The first call of Update, if there is anything for it to change. *)
UpdateAttrs ==
  /\ Updates
  /\ IF config.attrs = state.attrs THEN UNCHANGED server
     ELSE server.exists /\ server' = [server EXCEPT !.object.attrs = config.attrs]
  /\ want' = UpdatePlan
  /\ todo' = CallsOfUpdate(UpdatePlan)
  /\ failed' = {}
  /\ pc' = "update"
  /\ UNCHANGED <<config, state, apiResponse, current, diags, disturbed, bounds>>

UpdateAttrsFails ==
  /\ Updates /\ config.attrs # state.attrs
  /\ \/ ~server.exists /\ UNCHANGED bounds
     \/ Fault
  /\ state' = PlannedState(UpdatePlan)
  /\ Return({"error"})
  /\ UNCHANGED <<config, server, disturbed>>

NeverConflict == FALSE

(* Boundary refuses a call that names another version than the object's.   *)
Conflict == pc = "create" /\ config.kind.explicitVersions /\ ~current

Due(i) == i \in todo /\ \A j \in todo : i <= j
Sendable(i) == pc \in {"create", "update"} /\ Due(i) /\ ~HasRejected(want, Call(i))

(* The next call: SetMembers, SetAccounts, SetHosts, SetPrincipals,        *)
(* SetGrants, SetGrantScopes, SetHostSources or SetCredentialSources.      *)
SetCall(i) ==
  /\ Sendable(i) /\ server.exists /\ ~Conflict
  /\ server' = [server EXCEPT !.object = AfterCall(server.object, Call(i))]
  /\ apiResponse' = IF pc = "create" THEN server'.object ELSE apiResponse
  /\ current' = NamesLastVersion
  /\ todo' = todo \ {i}
  /\ UNCHANGED <<config, state, pc, want, failed, diags, disturbed, bounds>>

SetCallFails(i) ==
  /\ Sendable(i)
  /\ \/ (Conflict \/ ~server.exists) /\ UNCHANGED <<server, current, bounds>>
     \/ Fault /\ UNCHANGED <<server, current>>
     \/ /\ server.exists /\ ~Conflict /\ Fault    \* only the answer is lost
        /\ current' = FALSE
        /\ server' = [server EXCEPT !.object = AfterCall(server.object, Call(i))]
  /\ todo' = AfterFailure(i)
  /\ failed' = failed \cup LostWith(i)
  /\ UNCHANGED <<config, state, pc, want, apiResponse, diags, disturbed>>

(* Update meets a grant it cannot parse and returns there and then. *)
UpdateMeetsRejected(i) ==
  /\ pc = "update" /\ Due(i) /\ HasRejected(want, Call(i))
  /\ state' = PlannedState(want)
  /\ Return({"error"})
  /\ UNCHANGED <<config, server, disturbed, bounds>>

CreateReturnsUnrecorded ==
  /\ pc = "create" /\ todo = {}
  /\ state' = IF failed = {} THEN SetFrom(state, apiResponse) ELSE state
  /\ Return(Error)
  /\ UNCHANGED <<config, server, disturbed, bounds>>

(* Create's deferred setFrom.  Terraform taints what failed halfway. *)
CreateReturns ==
  /\ pc = "create" /\ todo = {}
  /\ state' = [SetFrom(state, apiResponse) EXCEPT !.tainted = failed # {}]
  /\ Return(Error)
  /\ UNCHANGED <<config, server, disturbed, bounds>>

UpdateReturns ==
  /\ pc = "update" /\ todo = {}
  /\ state' = PlannedState(want)
  /\ Return(Error)
  /\ UNCHANGED <<config, server, disturbed, bounds>>

(* The end of the provider: what a handler has not returned is lost. *)
Crash ==
  /\ pc # "idle" /\ Fault
  /\ Return({"crash"})
  /\ UNCHANGED <<config, server, state, disturbed>>

(* Also the first half of replacing what is tainted: Create follows. *)
Delete ==
  /\ pc = "planned" /\ state.tracked /\ (~config.here \/ state.tainted) /\ server.exists
  /\ server' = [server EXCEPT !.exists = FALSE]
  /\ state' = Untracked(state)
  /\ IF config.here THEN UNCHANGED <<pc, diags, locals>> ELSE Return({})
  /\ UNCHANGED <<config, disturbed, bounds>>

DeleteFails ==
  /\ pc = "planned" /\ state.tracked /\ (~config.here \/ state.tainted)
  /\ \/ ~server.exists /\ UNCHANGED bounds
     \/ Fault
  /\ Return({"error"})
  /\ UNCHANGED <<config, server, state, disturbed>>

(* terraform import: the id is given, Read fills the rest. *)
Import ==
  /\ pc = "idle" /\ config.here /\ ~state.tracked /\ server.exists
  /\ state' = SetFrom(state, server.object)
  /\ diags' = {}
  /\ UNCHANGED <<config, server, pc, locals, disturbed, bounds>>

Handlers ==
  \/ Create \/ CreateFails
  \/ UpdateAttrs \/ UpdateAttrsFails
  \/ \E i \in todo : SetCall(i) \/ SetCallFails(i) \/ UpdateMeetsRejected(i)
  \/ CreateReturns \/ UpdateReturns
  \/ Delete \/ DeleteFails

Terraform == Plan \/ ApplyNothing \/ Handlers \/ Crash

-----------------------------------------------------------------------------
(* Everybody else.                                                         *)

(* Terraform reads its configuration when it plans. *)
EditConfig ==
  /\ pc = "idle"
  /\ edits < MaxEdits /\ edits' = edits + 1
  /\ config' \in ConfigsOf(config.kind) \ {config}
  /\ UNCHANGED <<server, state, pc, locals, diags, disturbed, outOfBand, faults>>

ApiCall ==
  /\ outOfBand < MaxOutOfBand /\ outOfBand' = outOfBand + 1
  /\ disturbed' = TRUE /\ current' = FALSE
  /\ UNCHANGED <<config, state, pc, todo, want, apiResponse, failed, diags, edits, faults>>

ApiChange ==
  /\ server.exists
  /\ \/ \E a \in Attrs \ {server.object.attrs} : server' = [server EXCEPT !.object.attrs = a]
     \/ \E s \in Sets : \E c \in Valid \ {server.object.sets[s]} :
          server' = [server EXCEPT !.object.sets[s] = c]
  /\ ApiCall

ApiDelete ==
  /\ server.exists
  /\ server' = [server EXCEPT !.exists = FALSE]
  /\ ApiCall

Environment == EditConfig \/ Import \/ ApiChange \/ ApiDelete

Next == Terraform \/ Environment

Spec == Init /\ [][Next]_vars

(* The operator keeps running terraform apply, and a handler that has      *)
(* started runs to its end.  Faults are finitely many.                     *)
FairSpec == Spec /\ WF_vars(Terraform)

-----------------------------------------------------------------------------
(* Properties.                                                             *)

Returns == pc \in {"create", "update"} /\ pc' = "idle" /\ "crash" \notin diags'

(* A handler that returns has written every set that it does not report:   *)
(* one that failed does not keep the others of a role from being written,  *)
(* and no call undoes what another has done.                               *)
WritesWhatItCan ==
  [][ Returns /\ ~disturbed /\ ~HasRejected(want, Sets) =>
        \A s \in Sets \ failed : server'.object.sets[s] = want.sets[s] ]_vars

(* Nothing is lost without being reported: a handler that returns no error *)
(* leaves Boundary with all that was planned, unless somebody interfered.  *)
SuccessIsComplete ==
  [][ Returns /\ ~disturbed /\ diags' = {} => server'.object = want ]_vars

(* However many of its calls fail, Create records the object it made: it   *)
(* is in the state, tainted if a call failed, and the state is right about *)
(* every other set.                                                        *)
CreateIsRecorded ==
  [][ Returns /\ pc = "create" =>
        /\ state'.tracked
        /\ state'.tainted = (failed # {})
        /\ ~disturbed => \A s \in Sets \ failed : state'.sets[s] = server.object.sets[s] ]_vars

(* If Create's calls name versions, what somebody puts into the new object *)
(* between them is still there when Create returns.  A role's do not.      *)
CreateKeepsOthers ==
  [][ /\ pc = "create" /\ config.kind.explicitVersions
      /\ disturbed /\ outOfBand' = outOfBand
      => server' = server ]_vars

(* Applying again and again makes Boundary hold what is configured,        *)
(* through failed calls, half-made objects, crashes and changes by others. *)
Unacceptable == \E s \in Checked : config.sets[s] \in Rejected

Settled ==
  \/ ~config.here /\ ~state.tracked
  \/ config.here /\ Unacceptable
  \/ /\ config.here /\ state.tracked /\ ~state.tainted /\ server.exists
     /\ server.object = WantedFrom(server.object.sets)
     /\ state = SetFrom(state, server.object)

Converges == <>[]Settled

(* One object that is managed: its parts are the sets and the attributes,  *)
(* and a computed set that is not configured is left to Boundary.          *)
Parts(names, attrs, sets) ==
  [p \in names \cup {"attrs"} |-> IF p = "attrs" THEN attrs ELSE sets[p]]

Specified == {s \in Sets : config.sets[s] # Unset}

Managed == INSTANCE ManagedObject WITH
  Fresh <- {Empty, Default},
  wanted <- [here |-> config.here, object |-> Parts(Specified, config.attrs, config.sets)],
  actual <- [exists |-> server.exists,
             object |-> Parts(Sets, server.object.attrs, server.object.sets)],
  owned <- state.tracked \/ pc = "create",
  others <- outOfBand

(* However a handler is cut into calls and whichever of them fail, the     *)
(* object only ever moves towards the configuration: no call undoes or     *)
(* invents the contents of a set, and only what is tracked, or is being    *)
(* made, is written or destroyed.                                          *)
ImplementsManaged == Managed!Spec

=============================================================================
