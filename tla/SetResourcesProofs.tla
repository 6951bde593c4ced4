-------------------------- MODULE SetResourcesProofs --------------------------
(***************************************************************************)
(* Proofs about SetResources, for any kinds of resources that satisfy      *)
(* KindsAssumption, whatever their sets and the calls that carry them, any *)
(* contents and all bounds on the environment.                             *)
(*                                                                         *)
(* The heart of IInv is NothingIsLost: while a handler runs undisturbed,   *)
(* every set is as planned, or still carried by a call to come, or counted *)
(* as failed.  That it is so when the handler starts follows for Create    *)
(* from what Boundary puts into a new object, and for Update from the      *)
(* refresh (RefreshIsRight); both need that every set is carried by some   *)
(* call.                                                                   *)
(***************************************************************************)
EXTENDS SetResources, TLAPS

InHandler == pc \in {"create", "update"}

UncheckedIsValid ==
  \A s \in Sets \ Checked : state.sets[s] \in Valid /\ want.sets[s] \in Valid

AtRest == ~InHandler => todo = {} /\ failed = {}

CallsOf(p) == IF p = "create" THEN CreateCalls ELSE UpdateCalls

HandlerIsConfigured ==
  InHandler =>
    /\ config.here
    /\ state.tracked <=> pc = "update"
    /\ todo \subseteq DOMAIN CallsOf(pc)
    /\ want.attrs = config.attrs
    /\ \A s \in Sets : config.sets[s] # Unset => want.sets[s] = config.sets[s]
    /\ \A i \in todo : \A s \in Call(i) : config.sets[s] # Unset

RefreshIsRight ==
  pc = "planned" /\ state.tracked /\ ~disturbed =>
    server.exists /\ state.attrs = server.object.attrs /\ state.sets = server.object.sets

NothingIsLost ==
  InHandler /\ ~disturbed =>
    /\ server.exists /\ server.object.attrs = want.attrs
    /\ \A s \in Sets \ failed :
         (\E i \in todo : s \in Call(i)) \/ server.object.sets[s] = want.sets[s]

ResponseIsRight ==
  pc = "create" /\ ~disturbed =>
    \A s \in Sets \ failed : apiResponse.sets[s] = server.object.sets[s]

ConflictIsSeen == pc = "create" /\ config.kind.explicitVersions /\ disturbed => ~current

IInv ==
  /\ TypeOK
  /\ UncheckedIsValid
  /\ AtRest
  /\ HandlerIsConfigured
  /\ RefreshIsRight
  /\ NothingIsLost
  /\ ResponseIsRight
  /\ ConflictIsSeen

-----------------------------------------------------------------------------
(* Kinds and their calls, objects, and what the provider computes.         *)

States == [tracked : BOOLEAN, tainted : BOOLEAN, attrs : Attrs, sets : Plans]
Wanted == [attrs : Attrs, sets : Plans]

LEMMA KindFacts ==
  ASSUME TypeOK
  PROVE  /\ config.kind \in Kinds /\ config.attrs \in Attrs
         /\ config.sets \in [Sets -> Contents \cup {Unset}]
         /\ \A s \in Sets :
              /\ s \in Computed => config.sets[s] # Empty
              /\ s \notin Computed => config.sets[s] # Unset
              /\ s \notin Checked => config.sets[s] \notin Rejected
         /\ Checked \subseteq Sets /\ Checked \cap Computed = {}
<1>1. PICK k \in Kinds : config \in ConfigsOf(k)
  BY DEF TypeOK, Configs
<1>2. config.kind = k /\ config.attrs \in Attrs /\ config.sets \in Settings(k)
  BY <1>1 DEF ConfigsOf
<1>3. Sets = k.sets /\ Checked = k.checked /\ Computed = k.computed
  BY <1>2 DEF Sets, Checked, Computed
<1>4. k.checked \subseteq k.sets /\ k.checked \cap k.computed = {}
  BY KindsAssumption
<1>5. QED BY <1>2, <1>3, <1>4 DEF Settings

(* Every set is carried by a call of each handler. *)
LEMMA CallsFacts ==
  ASSUME TypeOK, NEW p
  PROVE  /\ DOMAIN CallsOf(p) \subseteq Nat
         /\ \A i \in DOMAIN CallsOf(p) : CallsOf(p)[i] \subseteq Sets
         /\ \A s \in Sets : \E i \in DOMAIN CallsOf(p) : s \in CallsOf(p)[i]
         /\ \A i \in DOMAIN CallsOf(p), s \in Computed :
              s \in CallsOf(p)[i] => CallsOf(p)[i] = {s}
<1> DEFINE calls == CallsOf(p)
<1>1. config.kind \in Kinds
  BY KindFacts
<1>2. Carries(calls, config.kind)
  BY <1>1, KindsAssumption DEF CallsOf, CreateCalls, UpdateCalls
<1>3. calls \in Seq(SUBSET Sets)
  BY <1>2 DEF Carries, Sets
<1>4. DOMAIN calls \subseteq Nat /\ \A i \in DOMAIN calls : calls[i] \subseteq Sets
  BY <1>3
<1>5. QED BY <1>2, <1>4 DEF Carries, Sets, Computed

LEMMA NewObjectFacts ==
  ASSUME NEW attrs \in Attrs
  PROVE  /\ NewObject(attrs) \in Objects /\ NewObject(attrs).attrs = attrs
         /\ \A s \in Sets : NewObject(attrs).sets[s] = IF s \in Computed THEN Default ELSE Empty
BY ContentsAssumption DEF NewObject, Objects, Stores

LEMMA BlankFacts == Blank \in Objects
<1>1. (CHOOSE a \in Attrs : TRUE) \in Attrs
  BY ContentsAssumption
<1>2. QED BY <1>1, NewObjectFacts DEF Blank

LEMMA ObjectFacts ==
  ASSUME NEW object \in Objects
  PROVE  /\ object \in Wanted
         /\ \A s \in Sets : object.sets[s] \in Valid
BY DEF Objects, Stores, Wanted, Plans, Valid

LEMMA WantedFacts ==
  ASSUME TypeOK, NEW sets \in Plans, \A s \in Sets \ Checked : sets[s] \in Valid
  PROVE  /\ WantedFrom(sets) \in Wanted /\ WantedFrom(sets).attrs = config.attrs
         /\ \A s \in Sets :
              /\ config.sets[s] # Unset => WantedFrom(sets).sets[s] = config.sets[s]
              /\ config.sets[s] = Unset => WantedFrom(sets).sets[s] = sets[s]
              /\ s \notin Checked => WantedFrom(sets).sets[s] \in Valid
<1>1. \A s \in Sets : config.sets[s] # Unset => config.sets[s] \in Contents
  BY KindFacts
<1>2. QED BY <1>1, KindFacts DEF WantedFrom, Wanted, Plans, Valid

LEMMA StateFacts ==
  ASSUME TypeOK
  PROVE  /\ \A plan \in Wanted : /\ PlannedState(plan) \in States
                                 /\ PlannedState(plan).tracked = state.tracked
                                 /\ PlannedState(plan).sets = plan.sets
         /\ \A object \in Objects : /\ SetFrom(state, object) \in States
                                    /\ SetFrom(state, object).tracked = TRUE
                                    /\ SetFrom(state, object).tainted = state.tainted
                                    /\ SetFrom(state, object).attrs = object.attrs
                                    /\ SetFrom(state, object).sets = object.sets
         /\ Untracked(state) \in States
         /\ Untracked(state).tracked = FALSE
         /\ \A s \in Sets : Untracked(state).sets[s] \in Valid
<1>1. state \in States
  BY DEF TypeOK, States
<1>2. \A object \in Objects : object \in Wanted
  BY ObjectFacts
<1>3. [s \in Sets |-> Empty] \in Plans
  BY ContentsAssumption DEF Plans, Valid
<1>4. QED
  BY <1>1, <1>2, <1>3, ContentsAssumption DEF States, Wanted, PlannedState, SetFrom, Untracked

LEMMA AfterCallFacts ==
  ASSUME TypeOK, UncheckedIsValid, NEW object \in Objects,
         NEW call \in SUBSET Sets, ~HasRejected(want, call)
  PROVE  /\ AfterCall(object, call) \in Objects
         /\ AfterCall(object, call).attrs = object.attrs
         /\ \A s \in Sets : AfterCall(object, call).sets[s]
                              = IF s \in call THEN want.sets[s] ELSE object.sets[s]
<1> DEFINE sets == [s \in Sets |-> IF s \in call THEN want.sets[s] ELSE object.sets[s]]
<1>1. ASSUME NEW s \in call PROVE want.sets[s] \in Valid
  <2>1. CASE s \in Checked
    BY <2>1 DEF HasRejected, TypeOK, Plans, Valid
  <2>2. CASE s \notin Checked
    BY <2>2 DEF UncheckedIsValid
  <2>3. QED BY <2>1, <2>2
<1>2. sets \in Stores
  BY <1>1, ObjectFacts DEF Stores
<1>3. AfterCall(object, call) = [object EXCEPT !.sets = sets]
  BY DEF AfterCall
<1> HIDE DEF sets
<1>4. /\ AfterCall(object, call) \in Objects
      /\ AfterCall(object, call).attrs = object.attrs
      /\ AfterCall(object, call).sets = sets
  BY <1>2, <1>3 DEF Objects
<1>5. QED BY <1>4 DEF sets

LEMMA CountersStep ==
  ASSUME TypeOK, [Next]_vars
  PROVE  edits' \in 0..MaxEdits /\ outOfBand' \in 0..MaxOutOfBand /\ faults' \in 0..MaxFaults
<1>1. \/ UNCHANGED bounds
      \/ Fault
      \/ edits < MaxEdits /\ edits' = edits + 1 /\ UNCHANGED <<outOfBand, faults>>
      \/ outOfBand < MaxOutOfBand /\ outOfBand' = outOfBand + 1 /\ UNCHANGED <<edits, faults>>
  BY DEF Next, Terraform, Handlers, Environment, Plan, ApplyNothing, Create, CreateFails,
         UpdateAttrs, UpdateAttrsFails, SetCall, SetCallFails, UpdateMeetsRejected,
         CreateReturns, UpdateReturns, Crash, Delete, DeleteFails, Import, EditConfig,
         ApiCall, ApiChange, ApiDelete, vars, bounds
<1>2. QED BY <1>1, BoundsAssumption DEF TypeOK, bounds, Fault

-----------------------------------------------------------------------------
(* The invariant is inductive.                                             *)

LEMMA InitEstablishes == Init => IInv
<1> SUFFICES ASSUME Init PROVE IInv
  OBVIOUS
<1>1. PICK k \in Kinds : config \in ConfigsOf(k)
  BY DEF Init, Configs
<1>2. config.attrs \in Attrs /\ config \in Configs
  BY <1>1 DEF ConfigsOf, Init
<1>3. /\ NewObject(config.attrs) \in Objects
      /\ Blank \in Objects /\ Blank \in Wanted /\ \A s \in Sets : Blank.sets[s] \in Valid
  BY <1>2, NewObjectFacts, BlankFacts, ObjectFacts
<1>4. state \in States /\ \A s \in Sets : state.sets[s] \in Valid
  <2>1. [s \in Sets |-> Empty] \in Plans
    BY ContentsAssumption DEF Plans, Valid
  <2>2. QED BY <1>2, <2>1, ContentsAssumption DEF Init, States
<1>5. TypeOK
  <2>1. server \in [exists : BOOLEAN, object : Objects]
    BY <1>3 DEF Init
  <2>2. want \in Wanted /\ apiResponse \in Objects
    BY <1>3 DEF Init
  <2>3. edits \in 0..MaxEdits /\ outOfBand \in 0..MaxOutOfBand /\ faults \in 0..MaxFaults
    BY BoundsAssumption DEF Init
  <2>4. /\ pc \in {"idle", "planned", "create", "update"} /\ diags \in SUBSET {"error", "crash"}
        /\ todo \subseteq Nat /\ failed \in SUBSET Sets
        /\ current \in BOOLEAN /\ disturbed \in BOOLEAN
    BY DEF Init
  <2>5. QED BY <1>2, <1>4, <2>1, <2>2, <2>3, <2>4 DEF TypeOK, States, Wanted
<1>6. QED
  BY <1>3, <1>4, <1>5
  DEF Init, IInv, UncheckedIsValid, AtRest, InHandler, HandlerIsConfigured, RefreshIsRight,
      NothingIsLost, ResponseIsRight, ConflictIsSeen

(* Nothing of the kind changes with the rest. *)
LEMMA SameKind ==
  ASSUME config'.kind = config.kind
  PROVE  /\ Sets' = Sets /\ Checked' = Checked /\ Computed' = Computed
         /\ Plans' = Plans /\ Stores' = Stores /\ Objects' = Objects
         /\ States' = States /\ Wanted' = Wanted /\ Blank' = Blank
         /\ CreateCalls' = CreateCalls /\ UpdateCalls' = UpdateCalls
         /\ \A p : CallsOf(p)' = CallsOf(p)
BY DEF Sets, Checked, Computed, Plans, Stores, Objects, States, Wanted, Blank, NewObject,
       CreateCalls, UpdateCalls, CallsOf

(* What a handler that returns has to see to. *)
LEMMA ReturnStep ==
  ASSUME IInv, [Next]_vars, config' = config,
         NEW d \in SUBSET {"error", "crash"}, Return(d),
         server' \in [exists : BOOLEAN, object : Objects],
         state' \in States, \A s \in Sets \ Checked : state'.sets[s] \in Valid,
         disturbed' \in BOOLEAN
  PROVE  IInv'
<1>0. /\ Sets' = Sets /\ Checked' = Checked /\ Objects' = Objects /\ Plans' = Plans
      /\ Blank \in Objects /\ Blank \in Wanted /\ \A s \in Sets : Blank.sets[s] \in Valid
  BY SameKind, BlankFacts, ObjectFacts
<1>1. /\ TypeOK /\ pc' = "idle" /\ diags' = d
      /\ todo' = {} /\ failed' = {} /\ current' = TRUE /\ want' = Blank /\ apiResponse' = Blank
  BY DEF IInv, Return
<1>2. TypeOK'
  BY <1>0, <1>1, CountersStep DEF TypeOK, States, Wanted
<1>3. UncheckedIsValid'
  BY <1>0, <1>1 DEF UncheckedIsValid
<1>4. QED
  BY <1>1, <1>2, <1>3
  DEF IInv, AtRest, InHandler, HandlerIsConfigured, RefreshIsRight, NothingIsLost,
      ResponseIsRight, ConflictIsSeen

(* Nothing but the diagnostics. *)
LEMMA QuietReturnStep ==
  ASSUME IInv, [Next]_vars, UNCHANGED <<config, server, state, disturbed>>,
         NEW d \in SUBSET {"error", "crash"}, Return(d)
  PROVE  IInv'
BY ReturnStep DEF IInv, TypeOK, UncheckedIsValid, States

(* Steps between two handlers. *)
LEMMA RestStep ==
  ASSUME IInv, [Next]_vars, config' \in Configs, config'.kind = config.kind, ~InHandler,
         pc' \in {"idle", "planned"},
         UNCHANGED <<todo, failed, want, apiResponse>>, current' \in BOOLEAN,
         server' \in [exists : BOOLEAN, object : Objects],
         state' \in States, \A s \in Sets \ Checked : state'.sets[s] \in Valid,
         diags' \in SUBSET {"error", "crash"}, disturbed' \in BOOLEAN,
         RefreshIsRight'
  PROVE  IInv'
<1>0. /\ Sets' = Sets /\ Checked' = Checked /\ Objects' = Objects /\ Plans' = Plans
  BY SameKind
<1>1. TypeOK /\ todo = {} /\ failed = {}
  BY DEF IInv, AtRest
<1>2. TypeOK'
  BY <1>0, <1>1, CountersStep DEF TypeOK, States
<1>3. UncheckedIsValid'
  BY <1>0 DEF IInv, UncheckedIsValid
<1>4. QED
  BY <1>1, <1>2, <1>3
  DEF IInv, AtRest, InHandler, HandlerIsConfigured, NothingIsLost, ResponseIsRight,
      ConflictIsSeen

LEMMA PlanPreserves ==
  ASSUME IInv, Plan
  PROVE  IInv'
<1>0. /\ [Next]_vars /\ TypeOK /\ ~InHandler /\ pc' = "planned"
      /\ UNCHANGED <<config, server, todo, failed, want, apiResponse, current>>
      /\ diags' = {} /\ disturbed' = FALSE
      /\ server.object \in Objects
  BY DEF Next, Terraform, Plan, IInv, InHandler, locals, TypeOK
<1>1. /\ state' \in States /\ \A s \in Sets \ Checked : state'.sets[s] \in Valid
      /\ RefreshIsRight'
  <2>1. CASE ~state.tracked /\ UNCHANGED state
    BY <1>0, <2>1 DEF TypeOK, States, IInv, UncheckedIsValid, RefreshIsRight
  <2>2. CASE state.tracked /\ server.exists /\ state' = SetFrom(state, server.object)
    BY <1>0, <2>2, StateFacts, ObjectFacts DEF RefreshIsRight
  <2>3. CASE state.tracked /\ ~server.exists /\ state' = Untracked(state)
    BY <1>0, <2>3, StateFacts DEF RefreshIsRight
  <2>4. QED BY <2>1, <2>2, <2>3 DEF Plan
<1>2. QED BY <1>0, <1>1, RestStep DEF TypeOK

(* The first call of Create leaves a new object, every set of which is as  *)
(* planned unless there is a call to fill it.                              *)
LEMMA CreatePreserves ==
  ASSUME IInv, Create
  PROVE  IInv'
<1> DEFINE new == NewObject(config.attrs)
<1>0. /\ [Next]_vars /\ TypeOK /\ pc = "planned" /\ config.here /\ ~state.tracked
      /\ UNCHANGED <<config, state, diags>>
      /\ server' = [exists |-> TRUE, object |-> new]
      /\ apiResponse' = new /\ want' = WantedFrom(new.sets) /\ todo' = CallsOfCreate
      /\ failed' = {} /\ current' = TRUE /\ pc' = "create" /\ disturbed' = FALSE
  BY DEF Next, Terraform, Handlers, Create, Creates, CreatePlan, IInv
<1>1. /\ Sets' = Sets /\ Checked' = Checked /\ Objects' = Objects /\ Plans' = Plans
      /\ CreateCalls' = CreateCalls /\ CallsOf("create") = CreateCalls
  BY <1>0, SameKind DEF CallsOf
<1>2. /\ new \in Objects /\ new.attrs = config.attrs
      /\ \A s \in Sets : new.sets[s] = IF s \in Computed THEN Default ELSE Empty
      /\ new.sets \in Plans /\ \A s \in Sets : new.sets[s] \in Valid
  BY <1>0, KindFacts, NewObjectFacts, ObjectFacts DEF Wanted
<1> HIDE DEF new
<1>3. /\ want' \in Wanted /\ want'.attrs = config.attrs
      /\ \A s \in Sets :
           /\ config.sets[s] # Unset => want'.sets[s] = config.sets[s]
           /\ config.sets[s] = Unset => want'.sets[s] = new.sets[s]
           /\ s \notin Checked => want'.sets[s] \in Valid
  BY <1>0, <1>2, WantedFacts
<1>4. /\ todo' \subseteq DOMAIN CreateCalls
      /\ \A i \in todo' : \E s \in CreateCalls[i] : config.sets[s] \notin {Empty, Unset}
      /\ \A i \in DOMAIN CreateCalls : \A s \in CreateCalls[i] :
           config.sets[s] \notin {Empty, Unset} => i \in todo'
  BY <1>0 DEF CallsOfCreate
<1>5. TypeOK'
  <2>1. todo' \subseteq Nat
    BY <1>0, <1>1, <1>4, CallsFacts
  <2>2. QED BY <1>0, <1>1, <1>2, <1>3, <2>1, CountersStep DEF TypeOK, Wanted
<1>6. UncheckedIsValid'
  BY <1>0, <1>1, <1>3 DEF IInv, UncheckedIsValid
<1>7. HandlerIsConfigured'
  <2>1. ASSUME NEW i \in todo', NEW s \in CreateCalls[i]
        PROVE  config.sets[s] # Unset
    <3>1. /\ i \in DOMAIN CreateCalls /\ s \in Sets
          /\ s \in Computed => CreateCalls[i] = {s}
      BY <1>0, <1>1, <1>4, CallsFacts
    <3>2. PICK r \in CreateCalls[i] : config.sets[r] # Unset
      BY <1>4
    <3>3. QED BY <1>0, <3>1, <3>2, KindFacts
  <2>2. \A i : Call(i)' = CreateCalls[i]
    BY <1>0, <1>1 DEF Call
  <2>3. todo' \subseteq DOMAIN CallsOf(pc)'
    BY <1>0, <1>1, <1>4 DEF CallsOf
  <2>4. QED BY <1>0, <1>1, <1>3, <2>1, <2>2, <2>3 DEF HandlerIsConfigured
<1>8. NothingIsLost'
  <2>1. ASSUME NEW s \in Sets, new.sets[s] # want'.sets[s]
        PROVE  \E i \in todo' : s \in CreateCalls[i]
    <3>1. config.sets[s] \notin {Empty, Unset}
      BY <1>0, <1>2, <1>3, <2>1, KindFacts
    <3>2. PICK i \in DOMAIN CreateCalls : s \in CreateCalls[i]
      BY <1>0, <1>1, CallsFacts
    <3>3. QED BY <1>4, <3>1, <3>2
  <2>2. \A i : Call(i)' = CreateCalls[i]
    BY <1>0, <1>1 DEF Call
  <2>3. server'.exists /\ server'.object = new
    BY <1>0
  <2>4. QED BY <1>0, <1>1, <1>2, <1>3, <2>1, <2>2, <2>3 DEF NothingIsLost
<1>9. QED
  BY <1>0, <1>5, <1>6, <1>7, <1>8
  DEF IInv, AtRest, InHandler, RefreshIsRight, ResponseIsRight, ConflictIsSeen

(* The first call of Update leaves what the refresh has found, and calls   *)
(* for every set in which the plan differs from that.                      *)
LEMMA UpdateAttrsPreserves ==
  ASSUME IInv, UpdateAttrs
  PROVE  IInv'
<1>0. /\ [Next]_vars /\ TypeOK /\ pc = "planned" /\ config.here /\ state.tracked
      /\ UNCHANGED <<config, state, apiResponse, current, diags, disturbed>>
      /\ want' = WantedFrom(state.sets) /\ todo' = CallsOfUpdate(WantedFrom(state.sets))
      /\ failed' = {} /\ pc' = "update"
  BY DEF Next, Terraform, Handlers, UpdateAttrs, Updates, UpdatePlan, IInv
<1>1. /\ Sets' = Sets /\ Checked' = Checked /\ Objects' = Objects /\ Plans' = Plans
      /\ UpdateCalls' = UpdateCalls /\ CallsOf("update") = UpdateCalls
  BY <1>0, SameKind DEF CallsOf
<1>2. /\ want' \in Wanted /\ want'.attrs = config.attrs
      /\ \A s \in Sets :
           /\ config.sets[s] # Unset => want'.sets[s] = config.sets[s]
           /\ config.sets[s] = Unset => want'.sets[s] = state.sets[s]
           /\ s \notin Checked => want'.sets[s] \in Valid
  BY <1>0, WantedFacts DEF IInv, UncheckedIsValid, TypeOK
<1>3. /\ todo' \subseteq DOMAIN UpdateCalls
      /\ \A i \in DOMAIN UpdateCalls :
           i \in todo' <=> \E s \in UpdateCalls[i] : want'.sets[s] # state.sets[s]
  BY <1>0 DEF CallsOfUpdate, Differs
<1>4. /\ server' \in [exists : BOOLEAN, object : Objects]
      /\ server'.exists = server.exists /\ server'.object.sets = server.object.sets
      /\ state.attrs = server.object.attrs => server'.object.attrs = config.attrs
  <2>1. CASE config.attrs = state.attrs /\ UNCHANGED server
    BY <1>0, <2>1 DEF TypeOK
  <2>2. CASE config.attrs # state.attrs /\ server' = [server EXCEPT !.object.attrs = config.attrs]
    <3>1. config.attrs \in Attrs /\ server \in [exists : BOOLEAN, object : Objects]
      BY <1>0, KindFacts DEF TypeOK
    <3>2. QED BY <2>2, <3>1 DEF Objects
  <2>3. QED BY <2>1, <2>2 DEF UpdateAttrs
<1>5. TypeOK'
  <2>1. todo' \subseteq Nat
    BY <1>0, <1>1, <1>3, CallsFacts
  <2>2. QED BY <1>0, <1>1, <1>2, <1>4, <2>1, CountersStep DEF TypeOK, Wanted
<1>6. UncheckedIsValid'
  BY <1>0, <1>1, <1>2 DEF IInv, UncheckedIsValid
<1>7. \A i : Call(i)' = UpdateCalls[i]
  BY <1>0, <1>1 DEF Call
<1>8. HandlerIsConfigured'
  <2>1. ASSUME NEW i \in todo', NEW s \in UpdateCalls[i]
        PROVE  config.sets[s] # Unset
    <3>1. /\ i \in DOMAIN UpdateCalls /\ s \in Sets
          /\ s \in Computed => UpdateCalls[i] = {s}
      BY <1>0, <1>1, <1>3, CallsFacts
    <3>2. s \in Computed => want'.sets[s] # state.sets[s]
      BY <1>3, <3>1
    <3>3. QED BY <1>0, <1>2, <3>1, <3>2, KindFacts
  <2>2. todo' \subseteq DOMAIN CallsOf(pc)'
    BY <1>0, <1>1, <1>3 DEF CallsOf
  <2>3. QED BY <1>0, <1>1, <1>2, <1>7, <2>1, <2>2 DEF HandlerIsConfigured
<1>9. NothingIsLost'
  <2> SUFFICES ASSUME ~disturbed
               PROVE  /\ server'.exists /\ server'.object.attrs = want'.attrs
                      /\ \A s \in Sets : \/ \E i \in todo' : s \in UpdateCalls[i]
                                         \/ server'.object.sets[s] = want'.sets[s]
    BY <1>0, <1>1, <1>7 DEF NothingIsLost
  <2>1. server.exists /\ state.attrs = server.object.attrs /\ state.sets = server.object.sets
    BY <1>0 DEF IInv, RefreshIsRight
  <2>2. ASSUME NEW s \in Sets, want'.sets[s] # state.sets[s]
        PROVE  \E i \in todo' : s \in UpdateCalls[i]
    <3>1. PICK i \in DOMAIN UpdateCalls : s \in UpdateCalls[i]
      BY <1>0, <1>1, CallsFacts
    <3>2. QED BY <1>3, <2>2, <3>1
  <2>3. QED BY <1>2, <1>4, <2>1, <2>2
<1>10. QED
  BY <1>0, <1>5, <1>6, <1>8, <1>9
  DEF IInv, AtRest, InHandler, RefreshIsRight, ResponseIsRight, ConflictIsSeen

(* What a call can carry. *)
LEMMA SendableFacts ==
  ASSUME IInv, NEW i \in todo, Sendable(i)
  PROVE  /\ InHandler /\ Call(i) \in SUBSET Sets /\ ~HasRejected(want, Call(i))
         /\ \A s \in Call(i) : config.sets[s] # Unset /\ want.sets[s] = config.sets[s]
         /\ AfterCall(server.object, Call(i)) \in Objects
         /\ AfterCall(server.object, Call(i)).attrs = server.object.attrs
         /\ \A s \in Sets : AfterCall(server.object, Call(i)).sets[s]
                              = IF s \in Call(i) THEN want.sets[s] ELSE server.object.sets[s]
<1>1. TypeOK /\ UncheckedIsValid /\ HandlerIsConfigured /\ server.object \in Objects
  BY DEF IInv, TypeOK
<1>2. InHandler /\ ~HasRejected(want, Call(i))
  BY DEF Sendable, InHandler
<1>3. i \in DOMAIN CallsOf(pc) /\ Call(i) = CallsOf(pc)[i]
  BY <1>1, <1>2 DEF HandlerIsConfigured, Call, CallsOf
<1>4. Call(i) \in SUBSET Sets
  BY <1>1, <1>3, CallsFacts
<1>5. QED BY <1>1, <1>2, <1>4, AfterCallFacts DEF HandlerIsConfigured

(* A call, made or not, and what it has to see to. *)
LEMMA CallStep ==
  ASSUME IInv, [Next]_vars, NEW i \in todo, Sendable(i),
         UNCHANGED <<config, state, pc, want, diags, disturbed>>,
         \/ server' = server
         \/ server' = [server EXCEPT !.object = AfterCall(server.object, Call(i))],
         todo' \subseteq todo, failed \subseteq failed', failed' \in SUBSET Sets,
         current' \in BOOLEAN,
         pc = "create" /\ config.kind.explicitVersions /\ disturbed => ~current',
         apiResponse' \in Objects,
         pc = "create" /\ ~disturbed =>
           \A s \in Sets \ failed' : apiResponse'.sets[s] = server'.object.sets[s],
         \A s \in Sets \ failed' : \A j \in todo : s \in Call(j) =>
           (\E k \in todo' : s \in Call(k)) \/ server'.object.sets[s] = want.sets[s]
  PROVE  IInv'
<1>0. /\ TypeOK /\ InHandler
      /\ Sets' = Sets /\ Checked' = Checked /\ Objects' = Objects /\ Plans' = Plans
      /\ \A p : CallsOf(p)' = CallsOf(p)
      /\ \A j : Call(j)' = Call(j)
  BY SameKind, SendableFacts DEF IInv, Call, CreateCalls, UpdateCalls
<1>1. /\ server' \in [exists : BOOLEAN, object : Objects]
      /\ server'.exists = server.exists /\ server'.object.attrs = server.object.attrs
      /\ \A s \in Sets : server'.object.sets[s] \in {server.object.sets[s], want.sets[s]}
  BY <1>0, SendableFacts DEF TypeOK
<1>2. TypeOK'
  BY <1>0, <1>1, CountersStep DEF TypeOK
<1>3. UncheckedIsValid'
  BY <1>0 DEF IInv, UncheckedIsValid
<1>4. HandlerIsConfigured'
  <2>1. todo' \subseteq DOMAIN CallsOf(pc)'
    BY <1>0 DEF IInv, HandlerIsConfigured, CallsOf, CreateCalls, UpdateCalls
  <2>2. QED BY <1>0, <2>1 DEF IInv, HandlerIsConfigured, InHandler
<1>5. NothingIsLost'
  <2> SUFFICES ASSUME ~disturbed, NEW s \in Sets, s \notin failed'
               PROVE  (\E k \in todo' : s \in Call(k)) \/ server'.object.sets[s] = want.sets[s]
    BY <1>0, <1>1 DEF IInv, NothingIsLost, InHandler
  <2>1. (\E j \in todo : s \in Call(j)) \/ server.object.sets[s] = want.sets[s]
    BY <1>0 DEF IInv, NothingIsLost
  <2>2. QED BY <1>1, <2>1
<1>6. QED
  BY <1>0, <1>2, <1>3, <1>4, <1>5
  DEF IInv, AtRest, InHandler, RefreshIsRight, ResponseIsRight, ConflictIsSeen

LEMMA SetCallPreserves ==
  ASSUME IInv, NEW i \in todo, SetCall(i)
  PROVE  IInv'
<1> DEFINE object == AfterCall(server.object, Call(i))
<1>0. /\ [Next]_vars /\ TypeOK /\ Sendable(i) /\ server.exists /\ ~Conflict
      /\ server' = [server EXCEPT !.object = object]
      /\ apiResponse' = IF pc = "create" THEN server'.object ELSE apiResponse
      /\ current' = TRUE /\ todo' = todo \ {i}
      /\ UNCHANGED <<config, state, pc, want, failed, diags, disturbed>>
  BY DEF Next, Terraform, Handlers, SetCall, NamesLastVersion, IInv
<1>1. /\ Call(i) \in SUBSET Sets /\ object \in Objects
      /\ \A s \in Call(i) : object.sets[s] = want.sets[s]
  BY <1>0, SendableFacts
<1>2. server'.object = object
  BY <1>0 DEF TypeOK
<1>3. pc = "create" /\ config.kind.explicitVersions => ~disturbed
  BY <1>0 DEF Conflict, IInv, ConflictIsSeen
<1>4. apiResponse' \in Objects
  BY <1>0, <1>1, <1>2 DEF TypeOK
<1>5. \A s \in Sets \ failed' : \A j \in todo : s \in Call(j) =>
        (\E k \in todo' : s \in Call(k)) \/ server'.object.sets[s] = want.sets[s]
  BY <1>0, <1>1, <1>2
<1>6. failed' \in SUBSET Sets
  BY <1>0 DEF TypeOK
<1> HIDE DEF object
<1>7. QED BY <1>0, <1>2, <1>3, <1>4, <1>5, <1>6, CallStep DEF object

LEMMA SetCallFailsPreserves ==
  ASSUME IInv, NEW i \in todo, SetCallFails(i)
  PROVE  IInv'
<1>0. /\ [Next]_vars /\ TypeOK /\ Sendable(i)
      /\ \/ UNCHANGED <<server, current>>
         \/ /\ server' = [server EXCEPT !.object = AfterCall(server.object, Call(i))]
            /\ current' = FALSE
      /\ todo' = AfterFailure(i) /\ failed' = failed \cup LostWith(i)
      /\ UNCHANGED <<config, state, pc, want, apiResponse, diags, disturbed>>
  BY DEF Next, Terraform, Handlers, SetCallFails, IInv
<1>1. /\ todo' \subseteq todo
      /\ Call(i) \subseteq failed'
      /\ \A s \in Sets \ failed' : \A j \in todo : s \in Call(j) => \E k \in todo' : s \in Call(k)
  BY <1>0 DEF AfterFailure, LostWith
<1>2. \A j \in todo : Call(j) \subseteq Sets
  <2>1. InHandler /\ todo \subseteq DOMAIN CallsOf(pc)
    BY <1>0, SendableFacts DEF IInv, HandlerIsConfigured
  <2>2. \A j : Call(j) = CallsOf(pc)[j]
    BY DEF Call, CallsOf
  <2>3. QED BY <1>0, <2>1, <2>2, CallsFacts
<1>3. failed' \in SUBSET Sets
  BY <1>0, <1>2 DEF LostWith, TypeOK
<1>4. \A s \in Sets \ failed' : server'.object.sets[s] = server.object.sets[s]
  <2>1. CASE server' = server
    BY <2>1
  <2>2. CASE server' = [server EXCEPT !.object = AfterCall(server.object, Call(i))]
    <3>1. server'.object = AfterCall(server.object, Call(i))
      BY <1>0, <2>2 DEF TypeOK
    <3>2. QED BY <1>0, <1>1, <3>1, SendableFacts
  <2>3. QED BY <1>0, <2>1, <2>2
<1>5. /\ current' \in BOOLEAN
      /\ pc = "create" /\ config.kind.explicitVersions /\ disturbed => ~current'
  <2>1. current' = current \/ current' = FALSE
    BY <1>0
  <2>2. current \in BOOLEAN /\ ConflictIsSeen
    BY <1>0 DEF TypeOK, IInv
  <2>3. CASE current' = current
    BY <2>2, <2>3 DEF ConflictIsSeen
  <2>4. CASE current' = FALSE
    BY <2>4
  <2>5. QED BY <2>1, <2>3, <2>4
<1>6. pc = "create" /\ ~disturbed =>
        \A s \in Sets \ failed' : apiResponse'.sets[s] = server'.object.sets[s]
  BY <1>0, <1>4 DEF IInv, ResponseIsRight
<1>7. apiResponse' \in Objects
  BY <1>0 DEF TypeOK
<1>8. QED BY <1>0, <1>1, <1>3, <1>5, <1>6, <1>7, CallStep

(* A half-made resource stays planned, to be made again. *)
LEMMA DeletePreserves ==
  ASSUME IInv, Delete
  PROVE  IInv'
<1>0. /\ [Next]_vars /\ TypeOK /\ pc = "planned" /\ server.object \in Objects
      /\ UNCHANGED <<config, disturbed>>
      /\ server' = [server EXCEPT !.exists = FALSE]
      /\ state' = Untracked(state)
  BY DEF Next, Terraform, Handlers, Delete, IInv, TypeOK
<1>1. /\ server' \in [exists : BOOLEAN, object : Objects] /\ state' \in States
      /\ ~state'.tracked /\ \A s \in Sets \ Checked : state'.sets[s] \in Valid
  BY <1>0, StateFacts DEF TypeOK
<1>2. disturbed' \in BOOLEAN
  BY <1>0 DEF TypeOK
<1>3. CASE config.here
  <2>1. /\ pc' = "planned" /\ diags' = diags /\ current' = current
        /\ UNCHANGED <<todo, failed, want, apiResponse>>
    BY <1>3 DEF Delete, locals, InHandler
  <2>2. /\ RefreshIsRight' /\ ~InHandler /\ config' \in Configs /\ config'.kind = config.kind
        /\ current' \in BOOLEAN /\ diags' \in SUBSET {"error", "crash"}
        /\ pc' \in {"idle", "planned"}
    BY <1>0, <1>1, <2>1 DEF RefreshIsRight, InHandler, TypeOK
  <2>3. QED BY <1>0, <1>1, <1>2, <2>1, <2>2, RestStep
<1>4. CASE ~config.here
  BY <1>0, <1>1, <1>2, <1>4, ReturnStep DEF Delete
<1>5. QED BY <1>3, <1>4

LEMMA ImportPreserves ==
  ASSUME IInv, Import
  PROVE  IInv'
<1>0. /\ [Next]_vars /\ TypeOK /\ pc = "idle" /\ server.object \in Objects /\ diags' = {}
      /\ UNCHANGED <<config, server, pc, todo, failed, want, apiResponse, current, disturbed>>
      /\ state' = SetFrom(state, server.object)
  BY DEF Next, Environment, Import, IInv, TypeOK, locals
<1>1. state' \in States /\ \A s \in Sets \ Checked : state'.sets[s] \in Valid
  BY <1>0, StateFacts, ObjectFacts
<1>2. RefreshIsRight'
  BY <1>0 DEF RefreshIsRight
<1>3. QED BY <1>0, <1>1, <1>2, RestStep DEF TypeOK, InHandler

LEMMA EditConfigPreserves ==
  ASSUME IInv, EditConfig
  PROVE  IInv'
<1>0. /\ [Next]_vars /\ TypeOK /\ pc = "idle" /\ config' \in ConfigsOf(config.kind)
      /\ UNCHANGED <<server, state, pc, todo, failed, want, apiResponse, current, diags, disturbed>>
  BY DEF Next, Environment, EditConfig, IInv, locals
<1>1. config'.kind = config.kind /\ config' \in Configs
  BY <1>0, KindFacts DEF ConfigsOf, Configs
<1>2. state' \in States /\ \A s \in Sets \ Checked : state'.sets[s] \in Valid
  BY <1>0 DEF TypeOK, States, IInv, UncheckedIsValid
<1>3. RefreshIsRight'
  BY <1>0 DEF RefreshIsRight
<1>4. QED BY <1>0, <1>1, <1>2, <1>3, RestStep DEF TypeOK, InHandler

(* Nothing is promised about what others have written, except that a call  *)
(* that names the version does not.                                        *)
LEMMA ApiPreserves ==
  ASSUME IInv, ApiChange \/ ApiDelete
  PROVE  IInv'
<1>0. /\ [Next]_vars /\ TypeOK /\ ApiCall
  BY DEF Next, Environment, ApiChange, ApiDelete, IInv
<1>1. /\ disturbed' = TRUE /\ current' = FALSE
      /\ UNCHANGED <<config, state, pc, todo, want, apiResponse, failed, diags>>
  BY <1>0 DEF ApiCall
<1>2. /\ Sets' = Sets /\ Checked' = Checked /\ Objects' = Objects /\ Plans' = Plans
      /\ \A p : CallsOf(p)' = CallsOf(p)
  BY <1>1, SameKind
<1>3. server' \in [exists : BOOLEAN, object : Objects]
  <2>1. server \in [exists : BOOLEAN, object : Objects]
    BY <1>0 DEF TypeOK
  <2>2. CASE ApiDelete
    BY <2>1, <2>2 DEF ApiDelete
  <2>3. ASSUME NEW a \in Attrs, server' = [server EXCEPT !.object.attrs = a]
        PROVE  server' \in [exists : BOOLEAN, object : Objects]
    BY <2>1, <2>3 DEF Objects
  <2>4. ASSUME NEW s \in Sets, NEW c \in Valid, server' = [server EXCEPT !.object.sets[s] = c]
        PROVE  server' \in [exists : BOOLEAN, object : Objects]
    <3> DEFINE sets == [server.object.sets EXCEPT ![s] = c]
    <3>1. sets \in Stores
      BY <2>1 DEF Objects, Stores
    <3>2. server' = [server EXCEPT !.object = [server.object EXCEPT !.sets = sets]]
      BY <2>4
    <3> HIDE DEF sets
    <3>3. QED BY <2>1, <3>1, <3>2 DEF Objects
  <2>5. QED BY <2>2, <2>3, <2>4 DEF ApiChange
<1>4. TypeOK'
  BY <1>0, <1>1, <1>2, <1>3, CountersStep DEF TypeOK
<1>5. UncheckedIsValid'
  BY <1>1, <1>2 DEF IInv, UncheckedIsValid
<1>6. HandlerIsConfigured'
  BY <1>1, <1>2 DEF IInv, HandlerIsConfigured, InHandler, Call, CallsOf, CreateCalls, UpdateCalls
<1>7. QED
  BY <1>1, <1>4, <1>5, <1>6
  DEF IInv, AtRest, InHandler, RefreshIsRight, NothingIsLost, ResponseIsRight, ConflictIsSeen

LEMMA NextPreserves == IInv /\ [Next]_vars => IInv'
<1> SUFFICES ASSUME IInv, [Next]_vars PROVE IInv'
  OBVIOUS
<1>0. /\ TypeOK /\ server \in [exists : BOOLEAN, object : Objects] /\ disturbed \in BOOLEAN
      /\ want \in Wanted /\ apiResponse \in Objects
      /\ \A s \in Sets \ Checked : want.sets[s] \in Valid
      /\ Error \in SUBSET {"error", "crash"}
  BY DEF IInv, TypeOK, Wanted, UncheckedIsValid, Error
<1>1. CASE Plan
  BY <1>1, PlanPreserves
<1>2. CASE ApplyNothing \/ CreateFails \/ Crash \/ DeleteFails
  BY <1>2, QuietReturnStep DEF ApplyNothing, CreateFails, Crash, DeleteFails
<1>3. CASE Create
  BY <1>3, CreatePreserves
<1>4. CASE UpdateAttrs
  BY <1>4, UpdateAttrsPreserves
<1>5. CASE UpdateAttrsFails
  <2>1. /\ UpdatePlan \in Wanted /\ \A s \in Sets \ Checked : UpdatePlan.sets[s] \in Valid
    BY <1>0, WantedFacts DEF UpdatePlan, IInv, UncheckedIsValid, TypeOK
  <2>2. state' \in States /\ \A s \in Sets \ Checked : state'.sets[s] \in Valid
    BY <1>0, <1>5, <2>1, StateFacts DEF UpdateAttrsFails
  <2>3. QED BY <1>0, <1>5, <2>2, ReturnStep DEF UpdateAttrsFails
<1>6. ASSUME NEW i \in todo, SetCall(i)
      PROVE  IInv'
  BY <1>6, SetCallPreserves
<1>7. ASSUME NEW i \in todo, SetCallFails(i)
      PROVE  IInv'
  BY <1>7, SetCallFailsPreserves
<1>8. CASE UpdateReturns \/ \E i \in todo : UpdateMeetsRejected(i)
  <2>1. /\ state' = PlannedState(want) /\ UNCHANGED <<config, server, disturbed>>
        /\ \E d \in SUBSET {"error", "crash"} : Return(d)
    BY <1>0, <1>8 DEF UpdateReturns, UpdateMeetsRejected
  <2>2. state' \in States /\ \A s \in Sets \ Checked : state'.sets[s] \in Valid
    BY <1>0, <2>1, StateFacts
  <2>3. QED BY <1>0, <2>1, <2>2, ReturnStep
<1>9. CASE CreateReturns
  <2> DEFINE answered == SetFrom(state, apiResponse)
  <2>1. answered \in States /\ \A s \in Sets \ Checked : answered.sets[s] \in Valid
    BY <1>0, StateFacts, ObjectFacts
  <2>2. state' = [answered EXCEPT !.tainted = failed # {}]
    BY <1>9 DEF CreateReturns
  <2> HIDE DEF answered
  <2>3. state' \in States /\ \A s \in Sets \ Checked : state'.sets[s] \in Valid
    BY <2>1, <2>2 DEF States
  <2>4. QED BY <1>0, <1>9, <2>3, ReturnStep DEF CreateReturns
<1>10. CASE Delete
  BY <1>10, DeletePreserves
<1>11. CASE Import
  BY <1>11, ImportPreserves
<1>12. CASE EditConfig
  BY <1>12, EditConfigPreserves
<1>13. CASE ApiChange \/ ApiDelete
  BY <1>13, ApiPreserves
<1>14. CASE UNCHANGED vars
  BY <1>14
  DEF vars, locals, bounds, IInv, TypeOK, UncheckedIsValid, AtRest, InHandler,
      HandlerIsConfigured, RefreshIsRight, NothingIsLost, ResponseIsRight, ConflictIsSeen,
      Call, CallsOf, CreateCalls, UpdateCalls, Sets, Checked, Plans, Stores, Objects
<1>15. QED
  BY <1>1, <1>2, <1>3, <1>4, <1>5, <1>6, <1>7, <1>8, <1>9, <1>10, <1>11, <1>12, <1>13, <1>14
  DEF Next, Terraform, Handlers, Environment

LEMMA Inductive == Spec => []IInv
BY InitEstablishes, NextPreserves, PTL DEF Spec

-----------------------------------------------------------------------------
(* The properties.                                                         *)

(* The variables keep their types; what is in Boundary is never what it    *)
(* would have refused.                                                     *)
THEOREM TypeCorrect == Spec => []TypeOK
<1>1. IInv => TypeOK
  BY DEF IInv
<1>2. QED BY <1>1, Inductive, PTL

LEMMA HowHandlersReturn ==
  ASSUME IInv, [Next]_vars, Returns
  PROVE  /\ server' = server
         /\ CreateReturns \/ UpdateReturns \/ \E i \in todo : UpdateMeetsRejected(i)
<1>1. CASE Plan \/ ApplyNothing \/ Create \/ CreateFails \/ UpdateAttrs \/ UpdateAttrsFails
           \/ Delete \/ DeleteFails
  BY <1>1 DEF Plan, ApplyNothing, Create, CreateFails, Creates, UpdateAttrs, UpdateAttrsFails,
              Updates, Delete, DeleteFails, Returns
<1>2. CASE Crash
  BY <1>2 DEF Crash, Return, Returns
<1>3. CASE pc' = pc
  BY <1>3 DEF Returns
<1>4. CASE CreateReturns \/ UpdateReturns \/ \E i \in todo : UpdateMeetsRejected(i)
  BY <1>4 DEF CreateReturns, UpdateReturns, UpdateMeetsRejected
<1>5. QED
  BY <1>1, <1>2, <1>3, <1>4
  DEF Next, Terraform, Handlers, Environment, SetCall, SetCallFails, Import, EditConfig,
      ApiChange, ApiDelete, ApiCall, vars

(* At the end nothing is left to do. *)
LEMMA WrittenAtReturn ==
  ASSUME IInv, [Next]_vars, Returns, ~disturbed, ~HasRejected(want, Sets)
  PROVE  /\ todo = {} /\ (CreateReturns \/ UpdateReturns)
         /\ server' = server /\ server.object.attrs = want.attrs
         /\ \A s \in Sets \ failed : server.object.sets[s] = want.sets[s]
<1>1. InHandler /\ HandlerIsConfigured /\ NothingIsLost /\ TypeOK
  BY DEF Returns, InHandler, IInv
<1>2. ASSUME NEW i \in todo, UpdateMeetsRejected(i)
      PROVE  FALSE
  <2>1. i \in DOMAIN CallsOf(pc) /\ Call(i) = CallsOf(pc)[i]
    BY <1>1 DEF HandlerIsConfigured, Call, CallsOf
  <2>2. Call(i) \subseteq Sets
    BY <1>1, <2>1, CallsFacts
  <2>3. QED BY <1>2, <2>2 DEF UpdateMeetsRejected, HasRejected
<1>3. server' = server /\ (CreateReturns \/ UpdateReturns)
  BY <1>2, HowHandlersReturn
<1>4. todo = {}
  BY <1>3 DEF CreateReturns, UpdateReturns
<1>5. QED BY <1>1, <1>3, <1>4 DEF NothingIsLost

(* Whichever calls fail, whatever they carry and whether the handler stops *)
(* at the first or goes on, the sets it does not count as failed are       *)
(* written when it returns.                                                *)
THEOREM HandlersWriteWhatTheyCan == Spec => WritesWhatItCan
<1> DEFINE Written ==
      Returns /\ ~disturbed /\ ~HasRejected(want, Sets) =>
        \A s \in Sets \ failed : server'.object.sets[s] = want.sets[s]
<1>1. IInv /\ [Next]_vars => [Written]_vars
  BY WrittenAtReturn
<1>2. QED BY <1>1, Inductive, PTL DEF Spec, WritesWhatItCan

LEMMA SuccessStep ==
  ASSUME IInv, [Next]_vars, Returns, ~disturbed, diags' = {}
  PROVE  server'.object = want
<1>1. TypeOK /\ server.object \in Objects
  BY DEF IInv, TypeOK
<1>2. ~ \E i \in todo : UpdateMeetsRejected(i)
  BY DEF UpdateMeetsRejected, Return
<1>3. /\ server' = server /\ todo = {} /\ failed = {}
  BY <1>2, HowHandlersReturn DEF CreateReturns, UpdateReturns, Return, Error
<1>4. /\ server.object.attrs = want.attrs
      /\ \A s \in Sets : server.object.sets[s] = want.sets[s]
  BY <1>3 DEF IInv, NothingIsLost, Returns, InHandler
<1>5. server.object \in Wanted /\ want \in Wanted
  BY <1>1, ObjectFacts DEF TypeOK, Wanted
<1>6. server.object.sets = want.sets
  BY <1>4, <1>5 DEF Wanted, Plans
<1>7. QED BY <1>3, <1>4, <1>5, <1>6 DEF Wanted

(* A handler that returns without an error has done all that was planned.  *)
THEOREM SuccessIsTrue == Spec => SuccessIsComplete
<1> DEFINE Complete == Returns /\ ~disturbed /\ diags' = {} => server'.object = want
<1>1. IInv /\ [Next]_vars => [Complete]_vars
  BY SuccessStep
<1>2. QED BY <1>1, Inductive, PTL DEF Spec, SuccessIsComplete

LEMMA RecordedStep ==
  ASSUME IInv, [Next]_vars, Returns, pc = "create"
  PROVE  /\ state'.tracked
         /\ state'.tainted = (failed # {})
         /\ ~disturbed => \A s \in Sets \ failed : state'.sets[s] = server.object.sets[s]
<1> DEFINE answered == SetFrom(state, apiResponse)
<1>1. TypeOK /\ apiResponse \in Objects
  BY DEF IInv, TypeOK
<1>2. CreateReturns
  BY HowHandlersReturn DEF UpdateReturns, UpdateMeetsRejected
<1>3. state' = [answered EXCEPT !.tainted = failed # {}]
  BY <1>2 DEF CreateReturns
<1>4. answered \in States /\ answered.tracked = TRUE /\ answered.sets = apiResponse.sets
  BY <1>1, StateFacts
<1> HIDE DEF answered
<1>5. state'.tracked /\ state'.tainted = (failed # {}) /\ state'.sets = apiResponse.sets
  BY <1>3, <1>4 DEF States
<1>6. QED BY <1>5 DEF IInv, ResponseIsRight

(* What Create has made is in the state when it returns, with as much of   *)
(* it as is known to be right.                                             *)
THEOREM CreationsAreRecorded == Spec => CreateIsRecorded
<1> DEFINE Recorded ==
      Returns /\ pc = "create" =>
        /\ state'.tracked
        /\ state'.tainted = (failed # {})
        /\ ~disturbed => \A s \in Sets \ failed : state'.sets[s] = server.object.sets[s]
<1>1. IInv /\ [Next]_vars => [Recorded]_vars
  BY RecordedStep
<1>2. QED BY <1>1, Inductive, PTL DEF Spec, CreateIsRecorded

LEMMA KeepStep ==
  ASSUME IInv, [Next]_vars, pc = "create", config.kind.explicitVersions, disturbed,
         outOfBand' = outOfBand
  PROVE  server' = server
<1>0. Conflict
  BY DEF IInv, ConflictIsSeen, Conflict
<1>1. CASE \E i \in todo : SetCall(i) \/ SetCallFails(i) \/ UpdateMeetsRejected(i)
  BY <1>0, <1>1 DEF SetCall, SetCallFails, UpdateMeetsRejected
<1>2. CASE ApiChange \/ ApiDelete
  BY <1>2 DEF ApiChange, ApiDelete, ApiCall, IInv, TypeOK
<1>3. CASE Plan \/ ApplyNothing \/ Create \/ UpdateAttrs \/ Delete \/ Import \/ EditConfig
  BY <1>3 DEF Plan, ApplyNothing, Create, Creates, UpdateAttrs, Updates, Delete, Import, EditConfig
<1>4. CASE UNCHANGED server
  BY <1>4
<1>5. QED
  BY <1>1, <1>2, <1>3, <1>4
  DEF Next, Terraform, Handlers, Environment, CreateFails, UpdateAttrsFails, CreateReturns,
      UpdateReturns, DeleteFails, Crash, vars

(* Optimistic locking works: once somebody else has written a new object,  *)
(* no later call of a Create that names versions overwrites it.            *)
THEOREM VersionsProtectOthers == Spec => CreateKeepsOthers
<1> DEFINE Kept ==
      /\ pc = "create" /\ config.kind.explicitVersions
      /\ disturbed /\ outOfBand' = outOfBand
      => server' = server
<1>1. IInv /\ [Next]_vars => [Kept]_vars
  BY KeepStep
<1>2. QED BY <1>1, Inductive, PTL DEF Spec, CreateKeepsOthers

-----------------------------------------------------------------------------
(* What is settled.                                                        *)

(* Update runs only if there is a difference, and nothing it compares      *)
(* changes under it.                                                       *)
UpdateIsNeeded == pc = "update" => ~NothingToDo

LEMMA UpdateStaysNeeded ==
  ASSUME UpdateIsNeeded, [Next]_vars
  PROVE  UpdateIsNeeded'
<1>1. CASE UpdateAttrs
  BY <1>1
  DEF UpdateAttrs, Updates, UpdateIsNeeded, NothingToDo, PlannedState, WantedFrom, Sets
<1>2. CASE pc = "update" /\ UNCHANGED <<config, state>>
  BY <1>2 DEF UpdateIsNeeded, NothingToDo, PlannedState, WantedFrom, Sets
<1>3. CASE pc' # "update"
  BY <1>3 DEF UpdateIsNeeded
<1>4. QED
  BY <1>1, <1>2, <1>3
  DEF Next, Terraform, Handlers, Environment, Plan, ApplyNothing, Create, CreateFails, Creates,
      UpdateAttrsFails, Updates, SetCall, SetCallFails, UpdateMeetsRejected, CreateReturns,
      UpdateReturns, Delete, DeleteFails, Crash, Return, Import, EditConfig, ApiChange, ApiDelete,
      ApiCall, vars

LEMMA SettledIsDone ==
  ASSUME TypeOK, Settled, config.here, ~Unacceptable
  PROVE  /\ NothingToDo /\ state.tracked /\ ~state.tainted /\ server.exists
         /\ SetFrom(state, server.object) = state
<1>1. /\ state.tracked /\ ~state.tainted /\ server.exists
      /\ server.object = WantedFrom(server.object.sets)
      /\ state = SetFrom(state, server.object)
  BY DEF Settled
<1>2. state.attrs = server.object.attrs /\ state.sets = server.object.sets
  BY <1>1, StateFacts DEF TypeOK
<1>3. PlannedState(server.object) = state
  BY <1>2 DEF PlannedState, TypeOK
<1>4. QED BY <1>1, <1>2, <1>3 DEF NothingToDo

(* A step of Terraform while Boundary and the state are as configured, or  *)
(* while nothing is configured.                                            *)
LEMMA SettledStep ==
  ASSUME IInv, UpdateIsNeeded, [Next]_vars, Terraform, Settled
  PROVE  Settled' /\ ((config.here /\ Unacceptable) \/ server' = server)
<1>0. TypeOK
  BY DEF IInv
<1>1. config' = config
  BY DEF Terraform, Plan, ApplyNothing, Handlers, Create, CreateFails, UpdateAttrs, UpdateAttrsFails,
         SetCall, SetCallFails, UpdateMeetsRejected, CreateReturns, UpdateReturns, Delete, DeleteFails,
         Crash
<1>2. CASE config.here /\ Unacceptable
  BY <1>1, <1>2 DEF Settled, Unacceptable, Checked
<1>3. CASE ~config.here /\ ~state.tracked
  <2>1. ~InHandler /\ todo = {}
    BY <1>3 DEF IInv, HandlerIsConfigured, AtRest
  <2>2. server' = server /\ state' = state
    BY <1>3, <2>1
    DEF InHandler, Terraform, Plan, ApplyNothing, Handlers, Create, CreateFails, Creates, UpdateAttrs,
        UpdateAttrsFails, Updates, CreateReturns, UpdateReturns, Delete, DeleteFails, Crash
  <2>3. QED BY <1>1, <1>3, <2>2 DEF Settled
<1>4. CASE config.here /\ ~Unacceptable
  <2>1. /\ NothingToDo /\ state.tracked /\ ~state.tainted /\ server.exists
        /\ SetFrom(state, server.object) = state
    BY <1>0, <1>4, SettledIsDone
  <2>2. ~InHandler /\ todo = {}
    BY <2>1 DEF IInv, InHandler, HandlerIsConfigured, AtRest, UpdateIsNeeded
  <2>3. server' = server /\ state' = state
    BY <1>4, <2>1, <2>2
    DEF InHandler, Terraform, Plan, ApplyNothing, Handlers, Create, CreateFails, Creates, UpdateAttrs,
        UpdateAttrsFails, Updates, CreateReturns, UpdateReturns, Delete, DeleteFails, Crash
  <2>4. Settled'
    BY <1>1, <2>3 DEF Settled, Unacceptable, Checked, Sets, WantedFrom, SetFrom
  <2>5. QED BY <2>3, <2>4
<1>5. QED BY <1>2, <1>3, <1>4 DEF Settled

(* An object that is as configured is left alone: Terraform makes no call  *)
(* that writes to it, neither do handlers that are running, and the next   *)
(* plan is empty too.                                                      *)
THEOREM SettledStays ==
  Spec => [][Terraform /\ Settled => Settled' /\ ((config.here /\ Unacceptable) \/ server' = server)]_vars
<1>1. Init => UpdateIsNeeded
  BY DEF Init, UpdateIsNeeded
<1>2. UpdateIsNeeded /\ [Next]_vars => UpdateIsNeeded'
  BY UpdateStaysNeeded
<1>3. IInv /\ UpdateIsNeeded /\ [Next]_vars =>
        [Terraform /\ Settled => Settled' /\ ((config.here /\ Unacceptable) \/ server' = server)]_vars
  BY SettledStep
<1>4. QED BY <1>1, <1>2, <1>3, Inductive, PTL DEF Spec

-----------------------------------------------------------------------------
(* The refinement.                                                         *)

Owned == state.tracked \/ pc = "create"

LEMMA PartsFacts ==
  ASSUME TypeOK
  PROVE  /\ "attrs" \notin Sets /\ Specified \subseteq Sets
         /\ \A attrs, sets :
              /\ DOMAIN Parts(Sets, attrs, sets) = Sets \cup {"attrs"}
              /\ Parts(Sets, attrs, sets)["attrs"] = attrs
              /\ \A s \in Sets : Parts(Sets, attrs, sets)[s] = sets[s]
              /\ DOMAIN Parts(Specified, attrs, sets) = Specified \cup {"attrs"}
              /\ Parts(Specified, attrs, sets)["attrs"] = attrs
              /\ \A s \in Specified : Parts(Specified, attrs, sets)[s] = sets[s]
<1>1. "attrs" \notin Sets
  BY KindFacts, KindsAssumption DEF Sets
<1>2. QED BY <1>1 DEF Parts, Specified

LEMMA WantedKept ==
  ASSUME config' = config
  PROVE  [here |-> config.here, object |-> Parts(Specified, config.attrs, config.sets)]'
           = [here |-> config.here, object |-> Parts(Specified, config.attrs, config.sets)]
BY DEF Parts, Specified, Sets

LEMMA ActualKept ==
  ASSUME config' = config, server' = server
  PROVE  [exists |-> server.exists,
          object |-> Parts(Sets, server.object.attrs, server.object.sets)]'
           = [exists |-> server.exists,
              object |-> Parts(Sets, server.object.attrs, server.object.sets)]
BY DEF Parts, Sets

(* A write moves the parts it changes to what is configured. *)
LEMMA PutStep ==
  ASSUME IInv, config' = config, config.here, Owned, Owned', server.exists, server'.exists,
         outOfBand' = outOfBand,
         server'.object.attrs \in {server.object.attrs, config.attrs},
         \A s \in Sets : \/ server'.object.sets[s] = server.object.sets[s]
                         \/ s \in Specified /\ server'.object.sets[s] = config.sets[s]
  PROVE  Managed!Put
<1> DEFINE old == Parts(Sets, server.object.attrs, server.object.sets)
           new == Parts(Sets, server'.object.attrs, server'.object.sets)
           said == Parts(Specified, config.attrs, config.sets)
<1>0. TypeOK /\ Sets' = Sets
  BY DEF IInv, Sets
<1>1. /\ DOMAIN new = DOMAIN old /\ DOMAIN new = Sets \cup {"attrs"}
      /\ \A p \in Sets \cup {"attrs"} :
           new[p] = old[p] \/ (p \in DOMAIN said /\ new[p] = said[p])
  <2>1. /\ DOMAIN new = Sets \cup {"attrs"} /\ new["attrs"] = server'.object.attrs
        /\ \A s \in Sets : new[s] = server'.object.sets[s]
    BY <1>0, PartsFacts DEF Parts
  <2>2. /\ DOMAIN old = Sets \cup {"attrs"} /\ old["attrs"] = server.object.attrs
        /\ \A s \in Sets : old[s] = server.object.sets[s]
    BY <1>0, PartsFacts DEF Parts
  <2>3. /\ DOMAIN said = Specified \cup {"attrs"} /\ said["attrs"] = config.attrs
        /\ \A s \in Specified : said[s] = config.sets[s]
    BY <1>0, PartsFacts DEF Parts
  <2> HIDE DEF old, new, said
  <2>4. QED BY <2>1, <2>2, <2>3
<1>2. Parts(Sets, server.object.attrs, server.object.sets)' = new
  BY <1>0 DEF Parts
<1> HIDE DEF old, new, said
<1>3. Managed!Towards(old, new)
  BY <1>1 DEF Managed!Towards, old, said
<1>4. Owned' = Owned
  OBVIOUS
<1>5. QED BY <1>2, <1>3, <1>4, WantedKept DEF Managed!Put, old, Owned

LEMMA StutterStep ==
  ASSUME UNCHANGED <<config, server, outOfBand>>, Owned' <=> Owned
  PROVE  UNCHANGED Managed!vars
BY WantedKept, ActualKept DEF Managed!vars, Owned

LEMMA LoseStep ==
  ASSUME UNCHANGED <<config, server, outOfBand>>, Owned, ~Owned'
  PROVE  Managed!Lose
BY WantedKept, ActualKept DEF Managed!Lose, Owned

LEMMA CallWrites ==
  ASSUME IInv, config' = config, UNCHANGED <<state, pc>>, outOfBand' = outOfBand,
         NEW i \in todo, Sendable(i), server.exists,
         server' = [server EXCEPT !.object = AfterCall(server.object, Call(i))]
  PROVE  Managed!Put
<1>0. TypeOK /\ InHandler /\ HandlerIsConfigured
  BY SendableFacts DEF IInv
<1>1. server'.exists /\ server'.object = AfterCall(server.object, Call(i))
  BY <1>0 DEF TypeOK
<1>2. server'.object.attrs = server.object.attrs
  BY <1>1, SendableFacts
<1>3. \A s \in Sets : \/ server'.object.sets[s] = server.object.sets[s]
                      \/ s \in Specified /\ server'.object.sets[s] = config.sets[s]
  BY <1>1, SendableFacts DEF Specified
<1>4. config.here /\ Owned /\ Owned'
  BY <1>0 DEF HandlerIsConfigured, InHandler, Owned
<1>5. QED BY <1>1, <1>2, <1>3, <1>4, PutStep

LEMMA MakeStep ==
  ASSUME IInv, Create
  PROVE  Managed!Make
<1> DEFINE new == Parts(Sets, config.attrs, NewObject(config.attrs).sets)
<1>0. /\ TypeOK /\ config.here /\ ~Owned /\ Owned' /\ config' = config /\ outOfBand' = outOfBand
      /\ server'.exists /\ server'.object = NewObject(config.attrs) /\ Sets' = Sets
  BY DEF IInv, Create, Creates, Owned, bounds, Sets
<1>1. /\ DOMAIN new = Sets \cup {"attrs"} /\ new["attrs"] = config.attrs
      /\ \A s \in Sets : new[s] \in {Empty, Default}
  <2>1. /\ DOMAIN new = Sets \cup {"attrs"} /\ new["attrs"] = config.attrs
        /\ \A s \in Sets : new[s] = NewObject(config.attrs).sets[s]
    BY <1>0, PartsFacts
  <2> HIDE DEF new
  <2>2. QED BY <1>0, <2>1, KindFacts, NewObjectFacts
<1>2. Parts(Sets, server.object.attrs, server.object.sets)' = new
  <2>1. server'.object.attrs = config.attrs
    BY <1>0, KindFacts, NewObjectFacts
  <2>2. QED BY <1>0, <2>1 DEF Parts
<1> HIDE DEF new
<1>3. Managed!IsNew(new)
  BY <1>0, <1>1, PartsFacts DEF Managed!IsNew
<1>4. QED BY <1>0, <1>2, <1>3, WantedKept DEF Managed!Make, Owned

LEMMA ManagedStep ==
  ASSUME IInv, [Next]_vars
  PROVE  [Managed!Next]_(Managed!vars)
<1>0. TypeOK
  BY DEF IInv
<1>1. CASE Plan
  <2>1. UNCHANGED <<config, server, outOfBand>> /\ pc = "idle" /\ pc' = "planned"
    BY <1>1 DEF Plan, bounds
  <2>2. CASE state.tracked /\ ~server.exists
    <3>1. Owned /\ ~Owned'
      BY <1>0, <1>1, <2>1, <2>2, StateFacts DEF Plan, Owned
    <3>2. QED BY <2>1, <3>1, LoseStep DEF Managed!Next
  <2>3. CASE ~(state.tracked /\ ~server.exists)
    <3>1. server.object \in Objects
      BY <1>0 DEF TypeOK
    <3>2. Owned' <=> Owned
      BY <1>0, <1>1, <2>1, <2>3, <3>1, StateFacts DEF Plan, Owned
    <3>3. QED BY <2>1, <3>2, StutterStep
  <2>4. QED BY <2>2, <2>3
<1>2. CASE ApplyNothing \/ CreateFails \/ DeleteFails
  BY <1>2, StutterStep
  DEF ApplyNothing, CreateFails, Creates, DeleteFails, Return, Fault, bounds, Owned
<1>3. CASE Crash
  <2>1. UNCHANGED <<config, server, outOfBand, state>> /\ pc' = "idle"
    BY <1>3 DEF Crash, Fault, Return
  <2>2. CASE Owned' <=> Owned
    BY <2>1, <2>2, StutterStep
  <2>3. CASE Owned /\ ~Owned'
    BY <2>1, <2>3, LoseStep DEF Managed!Next
  <2>4. QED BY <2>1, <2>2, <2>3 DEF Owned
<1>4. CASE Create
  BY <1>4, MakeStep DEF Managed!Next
<1>5. CASE UpdateAttrs
  <2>1. /\ UNCHANGED <<config, state, outOfBand>> /\ config.here /\ state.tracked
        /\ Owned /\ Owned' /\ server.object \in Objects
    BY <1>0, <1>5 DEF UpdateAttrs, Updates, bounds, Owned, TypeOK
  <2>2. CASE UNCHANGED server
    BY <2>1, <2>2, StutterStep
  <2>3. CASE server.exists /\ server' = [server EXCEPT !.object.attrs = config.attrs]
    <3>1. /\ server'.exists /\ server'.object.attrs = config.attrs
          /\ server'.object.sets = server.object.sets
      BY <1>0, <2>3 DEF TypeOK, Objects
    <3>2. QED BY <2>1, <2>3, <3>1, PutStep DEF Managed!Next
  <2>4. QED BY <1>5, <2>2, <2>3 DEF UpdateAttrs
<1>6. CASE UpdateAttrsFails \/ UpdateReturns \/ \E i \in todo : UpdateMeetsRejected(i)
  <2>1. /\ UNCHANGED <<config, server, outOfBand>>
        /\ pc \in {"planned", "update"} /\ pc' = "idle"
        /\ state' = PlannedState(UpdatePlan) \/ state' = PlannedState(want)
    BY <1>6 DEF UpdateAttrsFails, Updates, UpdateReturns, UpdateMeetsRejected, Return, Fault, bounds
  <2>2. UpdatePlan \in Wanted /\ want \in Wanted
    BY <1>0, WantedFacts DEF UpdatePlan, IInv, UncheckedIsValid, TypeOK, Wanted
  <2>3. state'.tracked = state.tracked
    BY <1>0, <2>1, <2>2, StateFacts
  <2>4. QED BY <2>1, <2>3, StutterStep DEF Owned
<1>7. ASSUME NEW i \in todo, SetCall(i)
      PROVE  Managed!Put
  BY <1>7, CallWrites DEF SetCall, bounds
<1>8. ASSUME NEW i \in todo, SetCallFails(i)
      PROVE  [Managed!Next]_(Managed!vars)
  <2>1. UNCHANGED <<config, state, pc, outOfBand>> /\ Sendable(i)
    BY <1>8 DEF SetCallFails, Fault, bounds
  <2>2. CASE UNCHANGED server
    BY <2>1, <2>2, StutterStep DEF Owned
  <2>3. CASE server.exists /\ server' = [server EXCEPT !.object = AfterCall(server.object, Call(i))]
    BY <2>1, <2>3, CallWrites DEF Managed!Next
  <2>4. QED BY <1>8, <2>2, <2>3 DEF SetCallFails
<1>9. CASE CreateReturns
  <2>1. UNCHANGED <<config, server, outOfBand>> /\ pc = "create"
    BY <1>9 DEF CreateReturns, bounds
  <2>2. state'.tracked
    BY <1>0, <1>9, StateFacts DEF CreateReturns, TypeOK, States
  <2>3. QED BY <2>1, <2>2, StutterStep DEF Owned
<1>10. CASE Delete
  <2>1. /\ config' = config /\ outOfBand' = outOfBand /\ Owned
        /\ server.exists /\ ~server'.exists
    BY <1>0, <1>10 DEF Delete, bounds, Owned, TypeOK
  <2>2. QED BY <2>1, WantedKept DEF Managed!Destroy, Managed!Next, Owned
<1>11. CASE Import
  <2>1. /\ UNCHANGED <<config, server, outOfBand>> /\ config.here /\ server.exists
        /\ state' = SetFrom(state, server.object) /\ server.object \in Objects
    BY <1>0, <1>11 DEF Import, bounds, TypeOK
  <2>2. Owned'
    BY <1>0, <2>1, StateFacts DEF Owned
  <2>3. QED BY <2>1, <2>2, WantedKept, ActualKept DEF Managed!Adopt, Managed!Next, Owned
<1>12. CASE EditConfig
  <2>1. /\ UNCHANGED <<server, state, pc, outOfBand>> /\ Sets' = Sets
    BY <1>12 DEF EditConfig, ConfigsOf, Sets
  <2>2. Parts(Sets, server.object.attrs, server.object.sets)'
          = Parts(Sets, server.object.attrs, server.object.sets)
    BY <2>1 DEF Parts
  <2>3. QED BY <2>1, <2>2 DEF Managed!Edit, Managed!Next, Managed!vars
<1>13. CASE ApiChange \/ ApiDelete
  <2>1. UNCHANGED <<config, state, pc>> /\ outOfBand' = outOfBand + 1
    BY <1>13 DEF ApiChange, ApiDelete, ApiCall
  <2>2. QED BY <2>1, WantedKept DEF Managed!Others, Managed!Next
<1>14. CASE UNCHANGED vars
  BY <1>14, StutterStep DEF vars, bounds, Owned
<1>15. QED
  BY <1>1, <1>2, <1>3, <1>4, <1>5, <1>6, <1>7, <1>8, <1>9, <1>10, <1>11, <1>12, <1>13, <1>14
  DEF Next, Terraform, Handlers, Environment, Managed!Next

(* However the handlers are cut into calls, and whichever of the calls     *)
(* fail, the resource keeps the promises of ManagedObject.                 *)
THEOREM RefinesManagedObject == Spec => ImplementsManaged
<1>1. Init => Managed!Init
  BY DEF Init, Managed!Init
<1>2. IInv /\ [Next]_vars => [Managed!Next]_(Managed!vars)
  BY ManagedStep
<1>3. QED BY <1>1, <1>2, Inductive, PTL DEF Spec, ImplementsManaged, Managed!Spec

=============================================================================
