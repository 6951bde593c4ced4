-------------------------- MODULE ScopeSlotsProofs --------------------------
(***************************************************************************)
(* Proofs about ScopeSlots, for any number of resources, all values and    *)
(* all bounds on the environment.                                          *)
(*                                                                         *)
(* Delete empties the slot without a look at it.  That it removes nothing  *)
(* but the resource's own value (SparesOthers) rests on the Read before:   *)
(* Believed adds that a resource that is refreshed and has not run its     *)
(* handlers knows what the slot holds, as long as nobody has written.      *)
(*                                                                         *)
(* That a run without errors makes the slot what is configured             *)
(* (RunIsEffective) is about everything the run did.  Knows adds that a    *)
(* resource that alone writes to the slot knows what it holds through its  *)
(* own writes, too, and Finished that it stops, unless with an error, only *)
(* when the state says what the configuration says.                        *)
(***************************************************************************)
EXTENDS ScopeSlots, TLAPS

BelievesSlot(r) == state[r] \in {Nothing, slot} /\ deposed[r] \in {Nothing, slot}

Believed ==
  writers = {} /\ ~disturbed => \A r \in Resources : pc[r] = "planned" => BelievesSlot(r)

(* Nothing is deposed: an attachment is replaced by deleting it first.     *)
InOrder == kind = "policy" => ~createFirst

Knows ==
  \A r \in Resources :
    InOrder /\ Alone(r) /\ pc[r] # "idle" /\ r \notin failed => state[r] \in {Nothing, slot}

Finished == \A r \in Resources : pc[r] = "done" /\ r \notin failed => state[r] = config[r]

IInv == TypeOK /\ Believed /\ Knows /\ Finished

(* What a run writes of the slot, and what SparesOthers says of one step.  *)
Spares ==
  \A r \in Resources :
    /\ slot # Nothing /\ slot' = Nothing /\ writers = {} /\ writers' = {r} /\ ~disturbed
    => slot \in {state[r], deposed[r]}

-----------------------------------------------------------------------------
(* An attachment of another policy is no attachment; whatever Read lets    *)
(* through is in the slot.                                                 *)
LEMMA ReadSees ==
  ASSUME NEW believed \in Slots, slot \in Slots
  PROVE  ReadSlot(believed) \in {Nothing, slot}
         /\ (believed = Nothing => ReadSlot(believed) = Nothing)
         /\ ReadSlot(believed) \in Slots
BY DEF ReadSlot, AdoptsTheSlot, Slots

LEMMA InitIInv == Init => IInv
<1> SUFFICES ASSUME Init PROVE IInv
  OBVIOUS
<1>1. 0 \in 0..MaxEdits /\ 0 \in 0..MaxOutOfBand /\ 0 \in 0..MaxFaults
  BY BoundsAssumption
<1>2. TypeOK
  BY <1>1 DEF Init, TypeOK, Slots
<1>3. Believed
  BY DEF Init, Believed
<1>4. Knows /\ Finished
  BY DEF Init, Knows, Finished
<1>5. QED BY <1>2, <1>3, <1>4 DEF IInv

LEMMA FaultTyped ==
  ASSUME TypeOK, Fault
  PROVE  edits' \in 0..MaxEdits /\ outOfBand' \in 0..MaxOutOfBand /\ faults' \in 0..MaxFaults
BY BoundsAssumption DEF TypeOK, Fault

(* Once somebody has written, nothing is claimed until the run is over. *)
LEMMA WriteEndsBelief ==
  ASSUME TypeOK, NEW r \in Resources, writers' = writers \cup {r}
  PROVE  writers' \in SUBSET Resources /\ Believed'
BY DEF TypeOK, Believed

(* A call that succeeds tells the state what the slot holds now. *)
LEMMA WriteIsKnown ==
  ASSUME IInv, NEW r \in Resources, Ready(r),
         writers' = writers \cup {r}, state' = [state EXCEPT ![r] = slot'],
         UNCHANGED <<kind, createFirst, config, pc, failed, disturbed>>
  PROVE  Knows' /\ Finished'
<1>1. state'[r] = slot' /\ \A s \in Resources : s # r => state'[s] = state[s]
  BY DEF IInv, TypeOK
<1>2. Knows'
  BY <1>1 DEF IInv, Knows, InOrder, Alone
<1>3. Finished'
  BY <1>1 DEF IInv, Finished, Ready
<1>4. QED BY <1>2, <1>3

LEMMA RefreshInv ==
  ASSUME IInv, NEW r \in Resources, Refresh(r)
  PROVE  IInv' /\ Spares
<1>1. state[r] \in Slots /\ deposed[r] \in Slots /\ slot \in Slots
  BY DEF IInv, TypeOK
<1>2. /\ ReadSlot(state[r]) \in {Nothing, slot} /\ ReadSlot(state[r]) \in Slots
      /\ ReadSlot(deposed[r]) \in {Nothing, slot} /\ ReadSlot(deposed[r]) \in Slots
      /\ deposed[r] = Nothing => ReadSlot(deposed[r]) = Nothing
  BY <1>1, ReadSees
<1>3. /\ state' = [state EXCEPT ![r] = ReadSlot(state[r])]
      /\ deposed' = [deposed EXCEPT ![r] = ReadSlot(deposed[r])]
      /\ pc' = [pc EXCEPT ![r] = "planned"]
      /\ UNCHANGED <<kind, createFirst, exclusive, config, slot, failed, writers, disturbed,
                     edits, outOfBand, faults>>
  BY DEF Refresh, fixed, bounds
<1>4. TypeOK'
  BY <1>2, <1>3 DEF IInv, TypeOK
<1>5. Believed'
  BY <1>2, <1>3 DEF IInv, TypeOK, Believed, BelievesSlot
<1>6. Knows'
  BY <1>2, <1>3 DEF IInv, TypeOK, Knows, InOrder, Alone
<1>7. Finished'
  BY <1>3 DEF IInv, TypeOK, Finished
<1>8. QED BY <1>3, <1>4, <1>5, <1>6, <1>7 DEF IInv, Spares

LEMMA CreateInv ==
  ASSUME IInv, NEW r \in Resources, Create(r)
  PROVE  IInv' /\ Spares
<1>1. /\ config[r] \in Values
      /\ Differs(r) => kind = "policy" /\ createFirst
      /\ state[r] \in Slots
  BY DEF IInv, TypeOK, Create, CreateWanted, Missing, Differs, Slots
<1>2. /\ slot' = config[r] /\ writers' = writers \cup {r}
      /\ state' = [state EXCEPT ![r] = config[r]]
      /\ deposed' = [deposed EXCEPT ![r] = IF Differs(r) THEN state[r] ELSE deposed[r]]
      /\ UNCHANGED <<kind, createFirst, exclusive, config, pc, failed, disturbed,
                     edits, outOfBand, faults>>
  BY DEF Create, Writes, fixed, bounds
<1>3. writers' \in SUBSET Resources /\ Believed'
  BY <1>2, WriteEndsBelief DEF IInv
<1>4. TypeOK'
  BY <1>1, <1>2, <1>3 DEF IInv, TypeOK, Slots
<1>5. Spares
  BY <1>1, <1>2, ValuesAssumption DEF Spares
<1>6. Knows' /\ Finished'
  BY <1>2, WriteIsKnown DEF Create
<1>7. QED BY <1>3, <1>4, <1>5, <1>6 DEF IInv

LEMMA UpdateInv ==
  ASSUME IInv, NEW r \in Resources, Update(r)
  PROVE  IInv' /\ Spares
<1>1. config[r] \in Values
  BY DEF IInv, TypeOK, Update, UpdateWanted, Differs, Slots
<1>2. /\ slot' = config[r] /\ writers' = writers \cup {r}
      /\ state' = [state EXCEPT ![r] = config[r]]
      /\ UNCHANGED <<kind, createFirst, exclusive, config, deposed, pc, failed, disturbed,
                     edits, outOfBand, faults>>
  BY DEF Update, Writes, fixed, bounds
<1>3. writers' \in SUBSET Resources /\ Believed'
  BY <1>2, WriteEndsBelief DEF IInv
<1>4. TypeOK'
  BY <1>1, <1>2, <1>3 DEF IInv, TypeOK, Slots
<1>5. Spares
  BY <1>1, <1>2, ValuesAssumption DEF Spares
<1>6. Knows' /\ Finished'
  BY <1>2, WriteIsKnown DEF Update
<1>7. QED BY <1>3, <1>4, <1>5, <1>6 DEF IInv

(* What Delete removes: an own value, of the resource or deposed. *)
LEMMA OwnValue ==
  ASSUME IInv, NEW r \in Resources, Ready(r), DeleteWanted(r) \/ deposed[r] # Nothing,
         writers' = writers \cup {r}
  PROVE  Spares
<1>1. SUFFICES ASSUME slot # Nothing, writers = {}, ~disturbed
               PROVE  slot \in {state[r], deposed[r]}
  BY DEF Spares
<1>2. BelievesSlot(r)
  BY <1>1 DEF IInv, Believed, Ready
<1>3. DeleteWanted(r) => state[r] # Nothing
  BY DEF DeleteWanted, Superfluous, Differs
<1>4. QED BY <1>2, <1>3 DEF BelievesSlot

LEMMA DeleteInv ==
  ASSUME IInv, NEW r \in Resources, Delete(r)
  PROVE  IInv' /\ Spares
<1>1. /\ slot' = Nothing /\ writers' = writers \cup {r}
      /\ state' = [state EXCEPT ![r] = Nothing]
      /\ UNCHANGED <<kind, createFirst, exclusive, config, deposed, pc, failed, disturbed,
                     edits, outOfBand, faults>>
  BY DEF Delete, Writes, fixed, bounds
<1>2. writers' \in SUBSET Resources /\ Believed'
  BY <1>1, WriteEndsBelief DEF IInv
<1>3. TypeOK'
  BY <1>1, <1>2 DEF IInv, TypeOK, Slots
<1>4. Spares
  BY <1>1, OwnValue DEF Delete
<1>5. Knows' /\ Finished'
  BY <1>1, WriteIsKnown DEF Delete
<1>6. QED BY <1>2, <1>3, <1>4, <1>5 DEF IInv

LEMMA DeleteDeposedInv ==
  ASSUME IInv, NEW r \in Resources, DeleteDeposed(r)
  PROVE  IInv' /\ Spares
<1>1. /\ slot' = Nothing /\ writers' = writers \cup {r}
      /\ deposed' = [deposed EXCEPT ![r] = Nothing]
      /\ UNCHANGED <<kind, createFirst, exclusive, config, state, pc, failed, disturbed,
                     edits, outOfBand, faults>>
  BY DEF DeleteDeposed, Writes, fixed, bounds
<1>2. writers' \in SUBSET Resources /\ Believed'
  BY <1>1, WriteEndsBelief DEF IInv
<1>3. TypeOK'
  BY <1>1, <1>2 DEF IInv, TypeOK, Slots
<1>4. Spares
  BY <1>1, OwnValue DEF DeleteDeposed
<1>5. ~InOrder'
  BY <1>1 DEF IInv, TypeOK, DeleteDeposed, InOrder
<1>6. Knows' /\ Finished'
  BY <1>1, <1>5 DEF IInv, Knows, Finished
<1>7. QED BY <1>2, <1>3, <1>4, <1>6 DEF IInv

(* A call that was refused: the resource is done with this run. *)
LEMMA FailsInv ==
  ASSUME IInv, NEW r \in Resources, Fails(r),
         UNCHANGED bounds \/ Fault,
         state' = state \/ state' = [state EXCEPT ![r] = config[r]],
         UNCHANGED <<fixed, config, slot, deposed, writers, disturbed>>
  PROVE  IInv' /\ Spares
<1>1. /\ pc' = [pc EXCEPT ![r] = "done"] /\ failed' = failed \cup {r}
      /\ UNCHANGED <<kind, createFirst, exclusive, config, slot, deposed, writers, disturbed>>
  BY DEF Fails, fixed
<1>2. edits' \in 0..MaxEdits /\ outOfBand' \in 0..MaxOutOfBand /\ faults' \in 0..MaxFaults
  BY FaultTyped DEF IInv, TypeOK, bounds
<1>3. /\ state' \in [Resources -> Slots]
      /\ \A s \in Resources : s # r => state'[s] = state[s]
  BY DEF IInv, TypeOK
<1>4. TypeOK'
  BY <1>1, <1>2, <1>3 DEF IInv, TypeOK
<1>5. Believed'
  <2>1. \A s \in Resources : pc'[s] = "planned" => s # r /\ pc[s] = "planned"
    BY <1>1 DEF IInv, TypeOK
  <2>2. QED BY <1>1, <1>3, <2>1 DEF IInv, Believed, BelievesSlot
<1>6. Knows' /\ Finished'
  <2>1. \A s \in Resources : s \notin failed' => s # r /\ s \notin failed /\ pc'[s] = pc[s]
    BY <1>1 DEF IInv, TypeOK
  <2>2. QED BY <1>1, <1>3, <2>1 DEF IInv, Knows, Finished, InOrder, Alone
<1>7. QED BY <1>1, <1>4, <1>5, <1>6 DEF IInv, Spares

LEMMA ReplyLostInv ==
  ASSUME IInv, NEW r \in Resources, ReplyLost(r)
  PROVE  IInv' /\ Spares
<1>1. /\ pc' = [pc EXCEPT ![r] = "done"] /\ failed' = failed \cup {r}
      /\ writers' = writers \cup {r}
      /\ Ready(r) /\ Fault
      /\ UNCHANGED <<kind, createFirst, exclusive, config, deposed, disturbed>>
  BY DEF ReplyLost, Fails, Writes, fixed
<1>2. edits' \in 0..MaxEdits /\ outOfBand' \in 0..MaxOutOfBand /\ faults' \in 0..MaxFaults
  BY <1>1, FaultTyped DEF IInv
<1>3. writers' \in SUBSET Resources /\ Believed'
  BY <1>1, WriteEndsBelief DEF IInv
<1>4. state' \in [Resources -> Slots]
  BY DEF IInv, TypeOK, ReplyLost
<1>5. \/ slot' = config[r] /\ config[r] \in Values
      \/ slot' = Nothing /\ (DeleteWanted(r) \/ deposed[r] # Nothing)
  BY DEF IInv, TypeOK, ReplyLost, Writes, CreateWanted, UpdateWanted, Missing, Differs, Slots
<1>6. TypeOK'
  BY <1>1, <1>2, <1>3, <1>4, <1>5 DEF IInv, TypeOK, Slots
<1>7. Spares
  BY <1>1, <1>5, OwnValue, ValuesAssumption DEF Spares
<1>8. Knows' /\ Finished'
  <2>1. \A s \in Resources : s \notin failed' => s # r /\ s \notin failed /\ pc'[s] = pc[s]
    BY <1>1 DEF IInv, TypeOK
  <2>2. \A s \in Resources : s # r => state'[s] = state[s] /\ ~Alone(s)'
    BY <1>1 DEF IInv, TypeOK, ReplyLost, Alone
  <2>3. QED BY <1>1, <2>1, <2>2 DEF IInv, Knows, Finished
<1>9. QED BY <1>3, <1>6, <1>7, <1>8 DEF IInv

LEMMA FinishInv ==
  ASSUME IInv, NEW r \in Resources, Finish(r)
  PROVE  IInv' /\ Spares
<1>1. /\ pc' = [pc EXCEPT ![r] = "done"]
      /\ UNCHANGED <<kind, createFirst, exclusive, config, slot, state, deposed, failed,
                     writers, disturbed, edits, outOfBand, faults>>
  BY DEF Finish, fixed, bounds
<1>2. TypeOK'
  BY <1>1 DEF IInv, TypeOK
<1>3. Believed'
  BY <1>1 DEF IInv, TypeOK, Believed, BelievesSlot
<1>4. Knows' /\ Finished'
  BY <1>1 DEF IInv, TypeOK, Knows, Finished, InOrder, Alone, Finish, Ready
<1>5. QED BY <1>1, <1>2, <1>3, <1>4 DEF IInv, Spares

LEMMA RunStopsInv ==
  ASSUME IInv, RunStops, UNCHANGED bounds \/ Fault
  PROVE  IInv' /\ Spares
<1>1. /\ pc' = [r \in Resources |-> "idle"]
      /\ failed' = {} /\ writers' = {} /\ disturbed' = FALSE
      /\ UNCHANGED <<kind, createFirst, exclusive, config, slot, state, deposed>>
  BY DEF RunStops, fixed
<1>2. edits' \in 0..MaxEdits /\ outOfBand' \in 0..MaxOutOfBand /\ faults' \in 0..MaxFaults
  BY FaultTyped DEF IInv, TypeOK, bounds
<1>3. TypeOK'
  BY <1>1, <1>2 DEF IInv, TypeOK
<1>4. Believed'
  BY <1>1 DEF Believed
<1>5. Knows' /\ Finished'
  BY <1>1 DEF Knows, Finished
<1>6. QED BY <1>1, <1>3, <1>4, <1>5 DEF IInv, Spares

LEMMA EnvironmentInv ==
  ASSUME IInv, Environment
  PROVE  IInv' /\ Spares
<1>1. CASE EditConfig
  <2>1. /\ edits' \in 0..MaxEdits /\ config' \in [Resources -> Slots]
        /\ UNCHANGED <<kind, createFirst, exclusive, slot, state, deposed, pc, failed,
                       writers, disturbed, outOfBand, faults>>
    BY <1>1, BoundsAssumption DEF IInv, TypeOK, EditConfig, fixed
  <2>2. TypeOK'
    BY <2>1 DEF IInv, TypeOK
  <2>3. Believed'
    BY <2>1 DEF IInv, Believed, BelievesSlot
  <2>4. Knows' /\ Finished'
    BY <1>1, <2>1 DEF EditConfig, Knows, Finished
  <2>5. QED BY <2>1, <2>2, <2>3, <2>4 DEF IInv, Spares
<1>2. CASE ApiSet
  <2>1. /\ outOfBand' \in 0..MaxOutOfBand /\ slot' \in Slots
        /\ disturbed' = (disturbed \/ \E r \in Resources : pc[r] # "idle")
        /\ UNCHANGED <<kind, createFirst, exclusive, config, state, deposed, pc, failed,
                       writers, edits, faults>>
    BY <1>2, BoundsAssumption DEF IInv, TypeOK, ApiSet, fixed
  <2>2. disturbed' \in BOOLEAN
    BY <2>1
  <2>3. TypeOK'
    BY <2>1, <2>2 DEF IInv, TypeOK
  <2>4. Believed'
    BY <2>1 DEF Believed
  <2>5. Knows' /\ Finished'
    BY <2>1 DEF IInv, Knows, Finished, InOrder, Alone
  <2>6. QED BY <2>1, <2>3, <2>4, <2>5 DEF IInv, Spares
<1>3. CASE \E r \in Resources : Import(r)
  <2>1. PICK r \in Resources : Import(r)
    BY <1>3
  <2>2. /\ \A s \in Resources : pc[s] = "idle"
        /\ state' = [state EXCEPT ![r] = slot]
        /\ UNCHANGED <<kind, createFirst, exclusive, config, slot, deposed, pc, failed,
                       writers, disturbed, edits, outOfBand, faults>>
    BY <2>1 DEF Import, fixed, bounds
  <2>3. TypeOK'
    BY <2>2 DEF IInv, TypeOK
  <2>4. Believed'
    BY <2>2 DEF Believed
  <2>5. Knows' /\ Finished'
    BY <2>2 DEF Knows, Finished
  <2>6. QED BY <2>2, <2>3, <2>4, <2>5 DEF IInv, Spares
<1>4. QED BY <1>1, <1>2, <1>3 DEF Environment

LEMMA HandlerInv ==
  ASSUME IInv, NEW r \in Resources, Handler(r)
  PROVE  IInv' /\ Spares
<1>1. CASE CreateFails(r) \/ DeleteFails(r)
  BY <1>1, FailsInv DEF CreateFails, DeleteFails
<1>2. CASE UpdateFails(r)
  BY <1>2, FailsInv DEF UpdateFails
<1>3. QED BY <1>1, <1>2, RefreshInv, CreateInv, UpdateInv, DeleteInv, DeleteDeposedInv,
             ReplyLostInv, FinishInv DEF Handler

LEMMA NextInv ==
  ASSUME IInv, [Next]_vars
  PROVE  IInv' /\ Spares
<1>1. CASE Terraform
  <2>1. CASE RunEnds \/ Crash
    BY <2>1, RunStopsInv DEF RunEnds, Crash
  <2>2. QED BY <1>1, <2>1, HandlerInv DEF Terraform
<1>2. CASE Environment
  BY <1>2, EnvironmentInv
<1>3. CASE UNCHANGED vars
  <2>1. UNCHANGED <<kind, createFirst, exclusive, config, slot, state, deposed, pc, failed,
                    writers, disturbed, edits, outOfBand, faults>>
    BY <1>3 DEF vars, fixed, bounds
  <2>2. TypeOK' /\ Believed' /\ Spares
    BY <2>1 DEF IInv, TypeOK, Believed, BelievesSlot, Spares
  <2>3. Knows' /\ Finished'
    BY <2>1 DEF IInv, Knows, Finished, InOrder, Alone
  <2>4. QED BY <2>2, <2>3 DEF IInv
<1>4. QED BY <1>1, <1>2, <1>3 DEF Next

-----------------------------------------------------------------------------
(* The inductive invariant holds. *)
THEOREM Invariance == Spec => []IInv
<1>1. IInv /\ [Next]_vars => IInv'
  BY NextInv
<1>2. QED BY InitIInv, <1>1, PTL DEF Spec

(* Every variable keeps its type; in particular only attachments that are  *)
(* replaced by creating first are ever deposed.                            *)
THEOREM TypeCorrect == Spec => []TypeOK
<1>1. IInv => TypeOK
  BY DEF IInv
<1>2. QED BY Invariance, <1>1, PTL

(* A resource that is the first to write in a run removes only its own     *)
(* value, although resource...Delete does not look at what it removes.     *)
THEOREM OthersSpared == Spec => SparesOthers
<1>1. IInv /\ [Next]_vars => [Spares]_vars
  BY NextInv
<1>2. Spec => [][Spares]_vars
  BY Invariance, <1>1, PTL DEF Spec
<1>3. QED BY <1>2 DEF SparesOthers, Spares

(* At the end of a run the one resource that claims the slot, and alone    *)
(* wrote to it, has put there what is configured.                          *)
Effective ==
  \A r \in Resources :
    RunEnds /\ failed = {} /\ Claimants = {r} /\ Alone(r)
      /\ (kind = "policy" => ~createFirst)
    => slot = config[r] /\ state[r] = config[r]

LEMMA EndIsEffective ==
  ASSUME IInv
  PROVE  Effective
<1>1. SUFFICES ASSUME NEW r \in Resources, RunEnds, failed = {}, Claimants = {r}, Alone(r),
                      InOrder
               PROVE  slot = config[r] /\ state[r] = config[r]
  BY DEF Effective, InOrder
<1>2. pc[r] = "done" /\ r \notin failed
  BY <1>1 DEF RunEnds
<1>3. state[r] = config[r] /\ state[r] \in {Nothing, slot}
  BY <1>1, <1>2 DEF IInv, Finished, Knows
<1>4. config[r] # Nothing
  BY <1>1 DEF Claimants
<1>5. QED BY <1>3, <1>4

(* A run without errors brings the slot to what its only claimant is       *)
(* configured to have, through any number of calls and whatever the other  *)
(* resources do beside it, if the claimant is the only one to write.       *)
THEOREM RunsAreEffective == Spec => RunIsEffective
<1>1. IInv /\ [Next]_vars => [Effective]_vars
  BY EndIsEffective
<1>2. Spec => [][Effective]_vars
  BY Invariance, <1>1, PTL DEF Spec
<1>3. QED BY <1>2 DEF RunIsEffective, Effective

(* What no run has a reason to change: every resource is in the state as   *)
(* it is configured, and the scope has what is claimed.  There may be more *)
(* than one claimant, of one value, and anything in a slot nobody claims.  *)
Settled ==
  \A r \in Resources :
    state[r] = config[r] /\ config[r] \in {Nothing, slot} /\ deposed[r] = Nothing

LEMMA SettledStep ==
  ASSUME IInv, Settled, Terraform
  PROVE  Settled' /\ slot' = slot
<1> USE DEF IInv, TypeOK
<1>1. CASE RunEnds \/ Crash
  BY <1>1 DEF RunEnds, Crash, RunStops, Settled, fixed
<1>2. ASSUME NEW r \in Resources, Handler(r)
      PROVE  Settled' /\ slot' = slot
  <2>1. state[r] = config[r] /\ config[r] \in {Nothing, slot} /\ deposed[r] = Nothing
    BY DEF Settled
  <2>2. ~CreateWanted(r) /\ ~UpdateWanted(r) /\ ~DeleteWanted(r)
    BY <2>1 DEF CreateWanted, UpdateWanted, DeleteWanted, Missing, Differs, Superfluous
  <2>3. ReadSlot(state[r]) = state[r] /\ ReadSlot(deposed[r]) = deposed[r]
    BY <2>1 DEF ReadSlot, AdoptsTheSlot
  <2>4. Refresh(r) \/ Finish(r)
    BY <1>2, <2>1, <2>2 DEF Handler, Create, Update, Delete, DeleteDeposed, CreateFails,
                           UpdateFails, DeleteFails, ReplyLost
  <2>5. UNCHANGED <<config, slot, state, deposed>>
    BY <2>3, <2>4 DEF Refresh, Finish
  <2> QED BY <2>5 DEF Settled
<1> QED BY <1>1, <1>2 DEF Terraform

(* The safety half of Converges: what is settled stays so, and no run      *)
(* writes to the slot, until the configuration or somebody else changes    *)
(* something.  Read must take neither an attachment nor a suffix that is   *)
(* there for another.                                                      *)
THEOREM SettledStays == Spec => [][Terraform /\ Settled => Settled' /\ slot' = slot]_vars
<1>1. IInv /\ [Next]_vars => [Terraform /\ Settled => Settled' /\ slot' = slot]_vars
  BY SettledStep
<1>2. QED BY Invariance, <1>1, PTL DEF Spec

=============================================================================
