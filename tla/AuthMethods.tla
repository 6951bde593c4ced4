----------------------------- MODULE AuthMethods -----------------------------
(***************************************************************************)
(* Auth methods of one scope (boundary_auth_method, _password, _oidc,      *)
(* _ldap) and the scope's primary auth method.                             *)
(*                                                                         *)
(* An auth method says is_primary_for_scope, but Boundary keeps the        *)
(* primary auth method in the scope.  Create and Update therefore make a   *)
(* second call, to the scope, and Read asks the scope too.  Resources of   *)
(* one workspace are applied concurrently, and several of them, and users  *)
(* of the API, may claim the one slot.                                     *)
(*                                                                         *)
(* A run of terraform apply refreshes every resource, plans, and then runs *)
(* one handler for each.  The kinds differ in what Read makes of the       *)
(* scope's answer, in when the new id is stored, and in which changes make *)
(* Update claim the slot.                                                  *)
(***************************************************************************)
EXTENDS Naturals, Sequences

CONSTANTS
  Methods,     \* resources of the workspace, all in one scope
  NoMethod,    \* the scope has no primary auth method
  OtherMethod, \* its primary auth method is one that Terraform does not know
  Attrs,       \* values of the other attributes
  MaxEdits, MaxOutOfBand, MaxFaults   \* bounds on the environment

ASSUME MethodsAssumption ==
  {NoMethod, OtherMethod} \cap Methods = {} /\ NoMethod # OtherMethod /\ Attrs # {}

ASSUME BoundsAssumption == MaxEdits \in Nat /\ MaxOutOfBand \in Nat /\ MaxFaults \in Nat

-----------------------------------------------------------------------------
VARIABLES
  kind,        \* the type of each resource; generic is boundary_auth_method
  config,      \* the resource blocks: are they there, and what they say
  server,      \* the auth methods made for the resources, in Boundary
  primary,     \* the primary auth method of the scope
  state,       \* the resources in the Terraform state
  pc,          \* where each resource is in the run
  todo,        \* the calls its handler still has to make
  read,        \* the attributes Read has seen
  diags,       \* diagnostics of its last handler that returned
  disturbed,   \* history: what others wrote to since its handler began
  edits, outOfBand, faults

run    == <<pc, todo, read, diags>>
bounds == <<edits, outOfBand, faults>>
vars   == <<kind, config, server, primary, state, run, disturbed, bounds>>

Kinds == {"generic", "password", "oidc", "ldap"}
Calls == {"readMethod", "readScope", "lookup", "activate", "claim", "attrs"}

NoAttrs == CHOOSE a \in Attrs : TRUE

Configs ==
  [here : {TRUE}, attrs : Attrs, primary : BOOLEAN]
    \cup {[here |-> FALSE, attrs |-> NoAttrs, primary |-> FALSE]}
Objects == [exists : BOOLEAN, attrs : Attrs, active : BOOLEAN]
States  ==
  {s \in [tracked : BOOLEAN, tainted : BOOLEAN, attrs : Attrs, primary : BOOLEAN] :
     s.tainted => s.tracked}

TypeOK ==
  /\ kind \in [Methods -> Kinds]
  /\ config \in [Methods -> Configs]
  /\ server \in [Methods -> Objects]
  /\ primary \in Methods \cup {NoMethod, OtherMethod}
  /\ state \in [Methods -> States]
  /\ pc \in [Methods -> {"idle", "refresh", "planned", "create", "update", "done"}]
  /\ todo \in [Methods -> Seq(Calls)]
  /\ read \in [Methods -> Attrs]
  /\ diags \in [Methods -> SUBSET {"error", "crash"}]
  /\ disturbed \in [Methods -> SUBSET {"method", "scope"}]
  /\ edits \in 0..MaxEdits
  /\ outOfBand \in 0..MaxOutOfBand
  /\ faults \in 0..MaxFaults

Idle ==
  /\ pc = [m \in Methods |-> "idle"]
  /\ todo = [m \in Methods |-> <<>>]
  /\ read = [m \in Methods |-> NoAttrs]

Init ==
  /\ kind \in [Methods -> Kinds]
  /\ config \in [Methods -> Configs]
  /\ server = [m \in Methods |-> [exists |-> FALSE, attrs |-> NoAttrs, active |-> FALSE]]
  /\ primary \in {NoMethod, OtherMethod}
  /\ state = [m \in Methods |-> [tracked |-> FALSE, tainted |-> FALSE,
                                 attrs |-> NoAttrs, primary |-> FALSE]]
  /\ Idle
  /\ diags = [m \in Methods |-> {}]
  /\ disturbed = [m \in Methods |-> {}]
  /\ edits = 0 /\ outOfBand = 0 /\ faults = 0

-----------------------------------------------------------------------------
(* What the provider computes.                                             *)

(* The handlers of boundary_auth_method_oidc and _ldap are alike, and so   *)
(* are those of boundary_auth_method and boundary_auth_method_password.    *)
Federated(m) == kind[m] \in {"oidc", "ldap"}

(* The scope's answer is put beside the attributes of the response, where  *)
(* the oidc and ldap kinds do not look for it.  The others look whether it *)
(* is there: true is seen, false is not.                                   *)
SeesFalse(m, isPrimary, before) == IF Federated(m) THEN before ELSE isPrimary

PrimaryFromRead(m, isPrimary, before) == before \/ (~Federated(m) /\ isPrimary)

(* The id of a new auth method is stored before the calls that follow, or  *)
(* only after them.                                                        *)
NeverEarly(m) == FALSE

StoresIdEarly(m) == Federated(m)

PlannedState(m) ==
  [state[m] EXCEPT !.attrs = config[m].attrs, !.primary = config[m].primary]

(* The early setFrom puts the attributes, and the id.                      *)
RecordedWithoutId(m, tainted) ==
  [PlannedState(m) EXCEPT !.tracked = ~tainted, !.tainted = tainted]

RecordedState(m, tainted) == [PlannedState(m) EXCEPT !.tracked = TRUE, !.tainted = tainted]

Untracked(m) ==
  [state[m] EXCEPT !.tracked = FALSE, !.tainted = FALSE, !.attrs = NoAttrs, !.primary = FALSE]

If(condition, call) == IF condition THEN <<call>> ELSE <<>>

SkipsActivation(m) == If(config[m].primary, "claim")

CallsOfCreate(m) ==
  If(kind[m] = "oidc", "activate") \o If(config[m].primary, "claim")

(* Federated kinds claim the slot after an update of something else, and   *)
(* only then.  The others claim it first, and read back what they claimed: *)
(* always (generic), or if there was nothing else to do (password).        *)
ReadsInsteadOfUpdating(m) ==
  IF config[m].primary = state[m].primary THEN <<"attrs">>
  ELSE <<"lookup">> \o If(config[m].primary, "claim") \o <<"readMethod", "readScope">>

CallsOfUpdate(m) ==
  LET changes == config[m].attrs # state[m].attrs
      differs == config[m].primary # state[m].primary
      claim == If(differs /\ config[m].primary, "claim")
      readBack == differs /\ (kind[m] = "generic" \/ ~changes) IN
  IF Federated(m) THEN IF changes THEN <<"attrs">> \o claim ELSE <<>>
  ELSE If(differs, "lookup") \o claim \o If(changes, "attrs")
         \o (IF readBack THEN <<"readMethod", "readScope">> ELSE <<>>)

(* A handler returns with diagnostics d: Read to the plan, others for good. *)
Return(m, d) ==
  /\ pc' = [pc EXCEPT ![m] = IF @ = "refresh" THEN "planned" ELSE "done"]
  /\ todo' = [todo EXCEPT ![m] = <<>>]
  /\ read' = [read EXCEPT ![m] = NoAttrs]
  /\ diags' = [diags EXCEPT ![m] = d]

(* Everything stops. *)
Stop(d) ==
  /\ pc' = [m \in Methods |-> "idle"]
  /\ todo' = [m \in Methods |-> <<>>]
  /\ read' = [m \in Methods |-> NoAttrs]
  /\ diags' = [m \in Methods |-> d]

Fault == faults < MaxFaults /\ faults' = faults + 1 /\ UNCHANGED <<edits, outOfBand>>

-----------------------------------------------------------------------------
(* Terraform.                                                              *)

NextIs(m, call) == todo[m] # <<>> /\ Head(todo[m]) = call

(* What goes on to the next call. *)
Proceed(m) == todo' = [todo EXCEPT ![m] = Tail(@)] /\ UNCHANGED <<pc, diags>>

Refresh(m) ==
  /\ pc[m] = "idle" /\ \A n \in Methods : pc[n] \in {"idle", "refresh", "planned"}
  /\ pc' = [pc EXCEPT ![m] = IF state[m].tracked THEN "refresh" ELSE "planned"]
  /\ todo' = [todo EXCEPT ![m] = IF state[m].tracked THEN <<"readMethod", "readScope">> ELSE <<>>]
  /\ diags' = [diags EXCEPT ![m] = {}]
  /\ disturbed' = [disturbed EXCEPT ![m] = {}]
  /\ UNCHANGED <<kind, config, server, primary, state, read, bounds>>

(* Read: the auth method, then its scope. *)
ReadMethod(m) ==
  /\ NextIs(m, "readMethod")
  /\ IF server[m].exists
     THEN /\ read' = [read EXCEPT ![m] = server[m].attrs]
          /\ Proceed(m)
          /\ UNCHANGED state
     ELSE /\ state' = [state EXCEPT ![m] = Untracked(m)]
          /\ Return(m, {})
  /\ UNCHANGED <<kind, config, server, primary, disturbed, bounds>>

ReadScope(m) ==
  /\ NextIs(m, "readScope")
  /\ LET before == IF pc[m] = "refresh" THEN state[m].primary ELSE config[m].primary IN
     state' = [state EXCEPT ![m].attrs = read[m],
                            ![m].primary = PrimaryFromRead(m, primary = m, before)]
  /\ Return(m, {})
  /\ UNCHANGED <<kind, config, server, primary, disturbed, bounds>>

(* A read that fails ends the run; the error of the scope's read is lost   *)
(* on the oidc and ldap resources, which make nothing of its answer.       *)
RefreshFails(m) ==
  /\ pc[m] = "refresh"
  /\ NextIs(m, "readMethod") \/ ~Federated(m)
  /\ Fault
  /\ Stop({"error"})
  /\ UNCHANGED <<kind, config, server, primary, state, disturbed>>

(* Every resource is refreshed, and this one is next. *)
Ready(m) == pc[m] = "planned" /\ \A n \in Methods : pc[n] \notin {"idle", "refresh"}

NothingToDo(m) ==
  \/ ~config[m].here /\ ~state[m].tracked
  \/ config[m].here /\ state[m].tracked /\ ~state[m].tainted /\ PlannedState(m) = state[m]

ApplyNothing(m) ==
  /\ Ready(m) /\ NothingToDo(m)
  /\ Return(m, {})
  /\ UNCHANGED <<kind, config, server, primary, state, disturbed, bounds>>

(* An object left behind by an earlier Create, if there is one, is another *)
(* auth method from here on.                                               *)
Create(m) ==
  /\ Ready(m) /\ config[m].here /\ ~state[m].tracked
  /\ server' = [server EXCEPT ![m] = [exists |-> TRUE, attrs |-> config[m].attrs,
                                      active |-> kind[m] # "oidc"]]
  /\ primary' = IF primary = m THEN OtherMethod ELSE primary
  /\ pc' = [pc EXCEPT ![m] = "create"]
  /\ todo' = [todo EXCEPT ![m] = CallsOfCreate(m)]
  /\ disturbed' = [disturbed EXCEPT ![m] = {}]
  /\ UNCHANGED <<kind, config, state, read, diags, bounds>>

CreateFails(m) ==
  /\ Ready(m) /\ config[m].here /\ ~state[m].tracked
  /\ Fault
  /\ Return(m, {"error"})
  /\ UNCHANGED <<kind, config, server, primary, state, disturbed>>

Update(m) ==
  /\ Ready(m) /\ config[m].here /\ state[m].tracked /\ ~state[m].tainted /\ ~NothingToDo(m)
  /\ pc' = [pc EXCEPT ![m] = "update"]
  /\ todo' = [todo EXCEPT ![m] = CallsOfUpdate(m)]
  /\ disturbed' = [disturbed EXCEPT ![m] = @ \ {"scope"}]
  /\ UNCHANGED <<kind, config, server, primary, state, read, diags, bounds>>

(* Only the ids are wanted; the call fails for a method that is gone. *)
Lookup(m) ==
  /\ NextIs(m, "lookup") /\ server[m].exists
  /\ Proceed(m)
  /\ UNCHANGED <<kind, config, server, primary, state, read, disturbed, bounds>>

(* What a call does in Boundary. *)
Activated(m) == [server EXCEPT ![m].active = TRUE]
Updated(m) == [server EXCEPT ![m].attrs = config[m].attrs]

(* Whoever else is running a handler is disturbed by a write to the scope. *)
DisturbOthers(m) ==
  [n \in Methods |-> IF n = m THEN disturbed[n] ELSE disturbed[n] \cup {"scope"}]

ChangeState(m) ==
  /\ NextIs(m, "activate") /\ server[m].exists
  /\ server' = Activated(m)
  /\ Proceed(m)
  /\ UNCHANGED <<kind, config, primary, state, read, disturbed, bounds>>

UpdateScopeWithPrimary(m) ==
  /\ NextIs(m, "claim") /\ server[m].exists
  /\ primary' = m
  /\ disturbed' = DisturbOthers(m)
  /\ Proceed(m)
  /\ UNCHANGED <<kind, config, server, state, read, bounds>>

UpdateMethod(m) ==
  /\ NextIs(m, "attrs") /\ server[m].exists
  /\ server' = Updated(m)
  /\ Proceed(m)
  /\ UNCHANGED <<kind, config, primary, state, read, disturbed, bounds>>

(* A call of Create or Update fails, or only its answer is lost. *)
CallFails(m) ==
  /\ pc[m] \in {"create", "update"} /\ todo[m] # <<>>
  /\ LET call == Head(todo[m]) IN
     \/ /\ ~server[m].exists /\ call \notin {"readMethod", "readScope"}
        /\ UNCHANGED <<server, primary, disturbed, bounds>>
     \/ Fault /\ UNCHANGED <<server, primary, disturbed>>
     \/ /\ Fault /\ server[m].exists /\ call \in {"activate", "claim", "attrs"}
        /\ server' = CASE call = "activate" -> Activated(m)
                       [] call = "attrs" -> Updated(m)
                       [] OTHER -> server
        /\ primary' = IF call = "claim" THEN m ELSE primary
        /\ disturbed' = IF call = "claim" THEN DisturbOthers(m) ELSE disturbed
  /\ state' = [state EXCEPT ![m] =
       IF pc[m] = "update" THEN PlannedState(m)
       ELSE IF StoresIdEarly(m) THEN RecordedState(m, TRUE) ELSE state[m]]
  /\ Return(m, {"error"})
  /\ UNCHANGED <<kind, config>>

CreateReturns(m) ==
  /\ pc[m] = "create" /\ todo[m] = <<>>
  /\ state' = [state EXCEPT ![m] = RecordedState(m, FALSE)]
  /\ Return(m, {})
  /\ UNCHANGED <<kind, config, server, primary, disturbed, bounds>>

UpdateReturns(m) ==
  /\ pc[m] = "update" /\ todo[m] = <<>>
  /\ state' = [state EXCEPT ![m] = PlannedState(m)]
  /\ Return(m, {})
  /\ UNCHANGED <<kind, config, server, primary, disturbed, bounds>>

(* Boundary unsets the primary auth method with the auth method.  What is  *)
(* tainted is created again after.                                         *)
Gone(m) == primary' = IF primary = m THEN NoMethod ELSE primary

Delete(m) ==
  /\ Ready(m) /\ state[m].tracked /\ (~config[m].here \/ state[m].tainted) /\ server[m].exists
  /\ server' = [server EXCEPT ![m].exists = FALSE]
  /\ Gone(m)
  /\ state' = [state EXCEPT ![m] = Untracked(m)]
  /\ IF config[m].here THEN UNCHANGED run ELSE Return(m, {})
  /\ UNCHANGED <<kind, config, disturbed, bounds>>

DeleteFails(m) ==
  /\ Ready(m) /\ state[m].tracked /\ (~config[m].here \/ state[m].tainted)
  /\ \/ ~server[m].exists /\ UNCHANGED bounds
     \/ Fault
  /\ Return(m, {"error"})
  /\ UNCHANGED <<kind, config, server, primary, state, disturbed>>

(* The run is over. *)
RunEnds ==
  /\ \A m \in Methods : pc[m] = "done"
  /\ Stop({})
  /\ UNCHANGED <<kind, config, server, primary, state, disturbed, bounds>>

(* What the handlers had in hand is lost: an Update's method keeps the     *)
(* state of before, a Create's method is not in the state.                 *)
Crash ==
  /\ \E m \in Methods : pc[m] # "idle"
  /\ Fault
  /\ Stop({"crash"})
  /\ UNCHANGED <<kind, config, server, primary, state, disturbed>>

(* terraform import, of an auth method that an interrupted run left behind. *)
Import(m) ==
  /\ \A n \in Methods : pc[n] = "idle"
  /\ config[m].here /\ ~state[m].tracked /\ server[m].exists
  /\ state' = [state EXCEPT ![m] =
       [tracked |-> TRUE, tainted |-> FALSE, attrs |-> server[m].attrs,
        primary |-> PrimaryFromRead(m, primary = m, FALSE)]]
  /\ UNCHANGED <<kind, config, server, primary, run, disturbed, bounds>>

Handler(m) ==
  \/ Refresh(m) \/ ReadMethod(m) \/ ReadScope(m) \/ RefreshFails(m)
  \/ ApplyNothing(m) \/ Create(m) \/ CreateFails(m) \/ Update(m)
  \/ Lookup(m) \/ ChangeState(m) \/ UpdateScopeWithPrimary(m) \/ UpdateMethod(m) \/ CallFails(m)
  \/ CreateReturns(m) \/ UpdateReturns(m)
  \/ Delete(m) \/ DeleteFails(m)

Terraform == (\E m \in Methods : Handler(m)) \/ RunEnds \/ Crash

-----------------------------------------------------------------------------
(* Everybody else.                                                         *)

(* Terraform reads its configuration when it starts. *)
EditConfig ==
  /\ \A m \in Methods : pc[m] = "idle"
  /\ edits < MaxEdits /\ edits' = edits + 1
  /\ \E m \in Methods : \E c \in Configs \ {config[m]} : config' = [config EXCEPT ![m] = c]
  /\ UNCHANGED <<kind, server, primary, state, run, disturbed, outOfBand, faults>>

ApiCall(disturbs) ==
  /\ outOfBand < MaxOutOfBand /\ outOfBand' = outOfBand + 1
  /\ disturbed' = [m \in Methods |-> disturbed[m] \cup disturbs]
  /\ UNCHANGED <<kind, config, state, run, edits, faults>>

ApiSetPrimary ==
  /\ \E p \in {m \in Methods : server[m].exists} \cup {NoMethod, OtherMethod} :
       p # primary /\ primary' = p
  /\ UNCHANGED server
  /\ ApiCall({"scope"})

ApiChange ==
  /\ \E m \in Methods, a \in Attrs :
       server[m].exists /\ a # server[m].attrs /\ server' = [server EXCEPT ![m].attrs = a]
  /\ UNCHANGED primary
  /\ ApiCall({"method"})

ApiDelete ==
  /\ \E m \in Methods :
       server[m].exists /\ server' = [server EXCEPT ![m].exists = FALSE] /\ Gone(m)
  /\ ApiCall({"method", "scope"})

Environment ==
  EditConfig \/ (\E m \in Methods : Import(m)) \/ ApiSetPrimary \/ ApiChange \/ ApiDelete

Next == Terraform \/ Environment

Spec == Init /\ [][Next]_vars

(* The operator keeps running terraform apply, and Terraform runs every    *)
(* handler of a run to its end.  Faults are finitely many.                 *)
FairSpec == Spec /\ WF_vars(Terraform)

-----------------------------------------------------------------------------
(* Properties.                                                             *)

Claims(m) == config[m].primary /\ ~state[m].primary

Returns(m) == pc[m] \in {"create", "update"} /\ pc'[m] = "done"

(* A handler that returns no error has done what its resource says: the    *)
(* attributes are there, a new oidc method takes logins, and the slot that *)
(* it was to claim is claimed, unless somebody interfered.  Left out is    *)
(* the Update of a federated kind, see ClaimIsMade.                        *)
SuccessIsComplete ==
  [][ \A m \in Methods : Returns(m) /\ diags'[m] = {} =>
        /\ "method" \notin disturbed[m] =>
             /\ server'[m].exists /\ server'[m].attrs = config[m].attrs
             /\ pc[m] = "create" => server'[m].active
        /\ "scope" \notin disturbed[m] /\ Claims(m) /\ (pc[m] = "create" \/ ~Federated(m))
             => primary' = m ]_vars

(* "When true, makes this auth method the primary auth method for the      *)
(* scope": so says every resource that has is_primary_for_scope.           *)
ClaimIsMade ==
  [][ \A m \in Methods :
        Returns(m) /\ diags'[m] = {} /\ disturbed[m] = {} /\ Claims(m) => primary' = m ]_vars

(* A federated auth method made by Create is in the state, tainted if a    *)
(* later call failed, so that the next run replaces it.  "Update state is  *)
(* create was successful to avoid loosing state if the change state or     *)
(* update scope step that follows errors out."                             *)
CreateIsRecorded ==
  [][ \A m \in Methods : Returns(m) /\ pc[m] = "create" /\ Federated(m) =>
        state'[m].tracked /\ state'[m].tainted = ("error" \in diags'[m]) ]_vars

(* Resources that claim the same slot do not take it from each other run   *)
(* after run: the primary auth method of the scope stops changing.         *)
Stabilises == \E p \in Methods \cup {NoMethod, OtherMethod} : <>[](primary = p)

(* Applying again and again makes every auth method what is configured,    *)
(* whatever becomes of the slot, through failed calls, half-made methods,  *)
(* crashes and changes by others.                                          *)
Settled(m) ==
  IF config[m].here
  THEN /\ state[m].tracked /\ ~state[m].tainted /\ server[m].exists
       /\ server[m].attrs = config[m].attrs /\ state[m].attrs = config[m].attrs
  ELSE ~state[m].tracked

Converges == <>[](\A m \in Methods : Settled(m))

=============================================================================
