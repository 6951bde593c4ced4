----------------------------- MODULE ScopeSlots -----------------------------
(***************************************************************************)
(* A slot of a scope that holds one value: its storage policy              *)
(* (boundary_scope_policy_attachment) or its alias suffix                  *)
(* (boundary_scope_alias_suffix).                                          *)
(*                                                                         *)
(* A resource says what is in the slot, but owns nothing: Delete empties   *)
(* the slot, whatever it holds.  Nothing keeps two resources of a          *)
(* workspace from the same scope, be it by mistake or because one takes    *)
(* the place of the other, and Terraform runs their handlers in any order. *)
(* The replacement of a single policy attachment, too, may create before   *)
(* it destroys.                                                            *)
(***************************************************************************)
EXTENDS Naturals, FiniteSets

CONSTANTS
  Resources,   \* resources of the workspace for the slot
  Values,      \* policies, or suffixes
  Nothing,     \* nothing there
  MaxEdits, MaxOutOfBand, MaxFaults   \* bounds on the environment

ASSUME ValuesAssumption == Nothing \notin Values

ASSUME BoundsAssumption == MaxEdits \in Nat /\ MaxOutOfBand \in Nat /\ MaxFaults \in Nat

-----------------------------------------------------------------------------
VARIABLES
  kind,        \* policy or suffix
  createFirst, \* lifecycle { create_before_destroy = true }
  exclusive,   \* Boundary refuses to attach to a slot that is taken
  config,      \* what each resource block asks for, if it is there
  slot,        \* what the scope has
  state,       \* what the Terraform state says of each resource
  deposed,     \* attachments that were replaced, and are still to be deleted
  pc,          \* where each resource is in the run
  failed,      \* resources with an error in this run
  writers,     \* history: resources that wrote to the slot in this run
  disturbed,   \* history: others wrote to it in this run
  edits, outOfBand, faults

fixed  == <<kind, createFirst, exclusive>>
bounds == <<edits, outOfBand, faults>>
vars   == <<fixed, config, slot, state, deposed, pc, failed, writers, disturbed, bounds>>

Slots == Values \cup {Nothing}

TypeOK ==
  /\ kind \in {"policy", "suffix"} /\ createFirst \in BOOLEAN /\ exclusive \in BOOLEAN
  /\ config \in [Resources -> Slots]
  /\ slot \in Slots
  /\ state \in [Resources -> Slots]
  /\ deposed \in [Resources -> Slots]
  /\ \A r \in Resources : deposed[r] # Nothing => kind = "policy" /\ createFirst
  /\ pc \in [Resources -> {"idle", "planned", "done"}]
  /\ failed \in SUBSET Resources
  /\ writers \in SUBSET Resources
  /\ disturbed \in BOOLEAN
  /\ edits \in 0..MaxEdits
  /\ outOfBand \in 0..MaxOutOfBand
  /\ faults \in 0..MaxFaults

Init ==
  /\ kind \in {"policy", "suffix"} /\ createFirst \in BOOLEAN /\ exclusive \in BOOLEAN
  /\ config \in [Resources -> Slots]
  /\ slot \in Slots
  /\ state = [r \in Resources |-> Nothing]
  /\ deposed = [r \in Resources |-> Nothing]
  /\ pc = [r \in Resources |-> "idle"]
  /\ failed = {} /\ writers = {} /\ disturbed = FALSE
  /\ edits = 0 /\ outOfBand = 0 /\ faults = 0

-----------------------------------------------------------------------------
(* Terraform.                                                              *)

Fault == faults < MaxFaults /\ faults' = faults + 1 /\ UNCHANGED <<edits, outOfBand>>

(* What Read makes of what the state says and the scope has.  An           *)
(* attachment of another policy is none; a suffix is whatever it is.       *)
TrustsTheState(believed) == believed

OnlyLooksWhetherTaken(believed) == IF slot = Nothing THEN Nothing ELSE believed

AdoptsTheSlot(believed) == IF believed = Nothing THEN Nothing ELSE slot

ReadSlot(believed) ==
  IF kind = "suffix" THEN AdoptsTheSlot(believed)
  ELSE IF believed = slot THEN believed ELSE Nothing

Refresh(r) ==
  /\ pc[r] = "idle" /\ \A s \in Resources : pc[s] \in {"idle", "planned"}
  /\ pc' = [pc EXCEPT ![r] = "planned"]
  /\ state' = [state EXCEPT ![r] = ReadSlot(@)]
  /\ deposed' = [deposed EXCEPT ![r] = ReadSlot(@)]
  /\ UNCHANGED <<fixed, config, slot, failed, writers, disturbed, bounds>>

(* Every resource is refreshed, and this one is next. *)
Ready(r) == pc[r] = "planned" /\ \A s \in Resources : pc[s] # "idle"

Writes(r, value) == slot' = value /\ writers' = writers \cup {r}

Fails(r) ==
  /\ pc' = [pc EXCEPT ![r] = "done"]
  /\ failed' = failed \cup {r}

(* What the plan finds. *)
Missing(r)     == config[r] # Nothing /\ state[r] = Nothing
Differs(r)     == config[r] # Nothing /\ state[r] # Nothing /\ state[r] # config[r]
Superfluous(r) == config[r] = Nothing /\ state[r] # Nothing

(* An attachment has no Update: one that differs is replaced. *)
ReplacesSuffixToo(r) == Missing(r) \/ Differs(r)

CreateWanted(r) == Missing(r) \/ (Differs(r) /\ kind = "policy" /\ createFirst)
DeleteWanted(r) == Superfluous(r) \/ (Differs(r) /\ kind = "policy" /\ ~createFirst)
UpdateWanted(r) == Differs(r) /\ kind = "suffix"

Refuses == kind = "policy" /\ exclusive /\ slot # Nothing

Create(r) ==
  /\ Ready(r) /\ CreateWanted(r) /\ ~Refuses
  /\ Writes(r, config[r])
  /\ state' = [state EXCEPT ![r] = config[r]]
  /\ deposed' = [deposed EXCEPT ![r] = IF Differs(r) THEN state[r] ELSE @]
  /\ UNCHANGED <<fixed, config, pc, failed, disturbed, bounds>>

(* The value that is there is overwritten. *)
Update(r) ==
  /\ Ready(r) /\ UpdateWanted(r)
  /\ Writes(r, config[r])
  /\ state' = [state EXCEPT ![r] = config[r]]
  /\ UNCHANGED <<fixed, config, deposed, pc, failed, disturbed, bounds>>

(* The slot is emptied, of whatever there is. *)
Delete(r) ==
  /\ Ready(r) /\ DeleteWanted(r)
  /\ Writes(r, Nothing)
  /\ state' = [state EXCEPT ![r] = Nothing]
  /\ UNCHANGED <<fixed, config, deposed, pc, failed, disturbed, bounds>>

DeleteDeposed(r) ==
  /\ Ready(r) /\ deposed[r] # Nothing /\ ~CreateWanted(r)
  /\ Writes(r, Nothing)
  /\ deposed' = [deposed EXCEPT ![r] = Nothing]
  /\ UNCHANGED <<fixed, config, state, pc, failed, disturbed, bounds>>

(* A call is refused, or fails.  The SDK saves what an Update was to do.   *)
CreateFails(r) ==
  /\ Ready(r) /\ CreateWanted(r)
  /\ (Refuses /\ UNCHANGED bounds) \/ Fault
  /\ Fails(r)
  /\ UNCHANGED <<fixed, config, slot, state, deposed, writers, disturbed>>

UpdateFails(r) ==
  /\ Ready(r) /\ UpdateWanted(r)
  /\ Fault
  /\ Fails(r)
  /\ state' = [state EXCEPT ![r] = config[r]]
  /\ UNCHANGED <<fixed, config, slot, deposed, writers, disturbed>>

(* There may be nothing to empty, which Boundary may refuse. *)
DeleteFails(r) ==
  /\ Ready(r) /\ (DeleteWanted(r) \/ (deposed[r] # Nothing /\ ~CreateWanted(r)))
  /\ (slot = Nothing /\ UNCHANGED bounds) \/ Fault
  /\ Fails(r)
  /\ UNCHANGED <<fixed, config, slot, state, deposed, writers, disturbed>>

(* The call has its effect, and its answer is lost or nobody is there to   *)
(* hear it.                                                                *)
ReplyLost(r) ==
  /\ Ready(r)
  /\ \/ ((CreateWanted(r) /\ ~Refuses) \/ UpdateWanted(r)) /\ Writes(r, config[r])
     \/ (DeleteWanted(r) \/ deposed[r] # Nothing) /\ ~CreateWanted(r) /\ Writes(r, Nothing)
  /\ Fault
  /\ Fails(r)
  /\ \/ UNCHANGED state
     \/ UpdateWanted(r) /\ state' = [state EXCEPT ![r] = config[r]]
  /\ UNCHANGED <<fixed, config, deposed, disturbed>>

Finish(r) ==
  /\ Ready(r) /\ state[r] = config[r] /\ deposed[r] = Nothing
  /\ pc' = [pc EXCEPT ![r] = "done"]
  /\ UNCHANGED <<fixed, config, slot, state, deposed, failed, writers, disturbed, bounds>>

(* The run is over, of its own or because Terraform was killed. *)
RunStops ==
  /\ pc' = [r \in Resources |-> "idle"]
  /\ failed' = {} /\ writers' = {} /\ disturbed' = FALSE
  /\ UNCHANGED <<fixed, config, slot, state, deposed>>

RunEnds == (\A r \in Resources : pc[r] = "done") /\ RunStops /\ UNCHANGED bounds

Crash == (\E r \in Resources : pc[r] # "idle") /\ Fault /\ RunStops

(* terraform import is of use for a suffix only: Read of an attachment     *)
(* needs attributes that an import does not have.                          *)
Import(r) ==
  /\ kind = "suffix" /\ slot # Nothing
  /\ \A s \in Resources : pc[s] = "idle"
  /\ config[r] # Nothing /\ state[r] = Nothing
  /\ state' = [state EXCEPT ![r] = slot]
  /\ UNCHANGED <<fixed, config, slot, deposed, pc, failed, writers, disturbed, bounds>>

Handler(r) ==
  \/ Refresh(r) \/ Create(r) \/ Update(r) \/ Delete(r) \/ DeleteDeposed(r)
  \/ CreateFails(r) \/ UpdateFails(r) \/ DeleteFails(r) \/ ReplyLost(r) \/ Finish(r)

Terraform == (\E r \in Resources : Handler(r)) \/ RunEnds \/ Crash

-----------------------------------------------------------------------------
(* Everybody else.                                                         *)

(* Any of the blocks: one may take the place of another. *)
EditConfig ==
  /\ \A r \in Resources : pc[r] = "idle"
  /\ edits < MaxEdits /\ edits' = edits + 1
  /\ config' \in [Resources -> Slots] \ {config}
  /\ UNCHANGED <<fixed, slot, state, deposed, pc, failed, writers, disturbed, outOfBand, faults>>

ApiSet ==
  /\ outOfBand < MaxOutOfBand /\ outOfBand' = outOfBand + 1
  /\ slot' \in Slots \ {slot}
  /\ disturbed' = (disturbed \/ \E r \in Resources : pc[r] # "idle")
  /\ UNCHANGED <<fixed, config, state, deposed, pc, failed, writers, edits, faults>>

Environment == EditConfig \/ ApiSet \/ \E r \in Resources : Import(r)

Next == Terraform \/ Environment

Spec == Init /\ [][Next]_vars

(* The operator keeps running terraform apply, and Terraform runs every    *)
(* handler of a run to its end.  Faults are finitely many.                 *)
FairSpec == Spec /\ WF_vars(Terraform)

-----------------------------------------------------------------------------
(* Properties.                                                             *)

Claimants == {r \in Resources : config[r] # Nothing}

(* As long as no two resources write to the slot in one run, and nobody    *)
(* else does, a resource empties the slot only of its own value: the Read  *)
(* before it would have noticed another.                                   *)
SparesOthers ==
  [][ \A r \in Resources :
        /\ slot # Nothing /\ slot' = Nothing /\ writers = {} /\ writers' = {r} /\ ~disturbed
        => slot \in {state[r], deposed[r]} ]_vars

(* A run without errors makes the slot what the one resource that claims   *)
(* it says, if nobody else wrote to it.  Left out is a policy that is      *)
(* replaced by creating first: the Delete of the old attachment detaches   *)
(* the new policy, until the next run.                                     *)
Alone(r) == writers \subseteq {r} /\ ~disturbed

RunIsEffective ==
  [][ \A r \in Resources :
        RunEnds /\ failed = {} /\ Claimants = {r} /\ Alone(r)
          /\ (kind = "policy" => ~createFirst)
        => slot = config[r] /\ state[r] = config[r] ]_vars

(* A slot that is claimed by one resource ends up with its value, whoever  *)
(* claimed it before, and whatever was deleted too late: what a run spoils *)
(* the next one repairs.  Unless Boundary refuses to attach, as there is   *)
(* another policy that this resource is not going to detach first.         *)
Held(r) == slot = config[r] \/ (Refuses /\ (state[r] = Nothing \/ createFirst))

Converges ==
  \A r \in Resources : <>[](Claimants = {r}) => <>[]Held(r)

=============================================================================
