---------------------- MODULE SingleCallResourcesProofs ----------------------
(***************************************************************************)
(* Proofs about SingleCallResources, for any kinds of resources that       *)
(* satisfy KindsAssumption, any values and all bounds on the environment.  *)
(*                                                                         *)
(* A plan is right about what Read reads back because it has just done so; *)
(* about what it does not read back it is right only if no event since the *)
(* attribute was last sent has made the state and Boundary part, whatever  *)
(* lies between: HiddenIsRight.  The rest of IInv says that Boundary holds *)
(* values the way it writes them, that nobody changes what identifies an   *)
(* object, that an object is gone during a plan only if others did it, and *)
(* that what is tainted is an object that Delete leaves.                   *)
(***************************************************************************)
EXTENDS SingleCallResources, TLAPS

HiddenIsRight ==
  state.tracked /\ server.exists =>
    \A a \in Kind.unread \ doubtful : server.attrs[a] = state.attrs[a]

Canonical == \A a \in Names : Stored(a, server.attrs[a]) = server.attrs[a]

UndisturbedIdentity == server.exists => disturbed \cap Kind.replaces = {}

PresentUnlessDisturbed ==
  pc = "planned" /\ state.tracked /\ disturbed = {} => server.exists

TaintedIsSpared == state.tainted => Spared

IInv ==
  /\ TypeOK
  /\ HiddenIsRight
  /\ RefreshIsRight
  /\ Canonical
  /\ UndisturbedIdentity
  /\ PresentUnlessDisturbed
  /\ TaintedIsSpared

-----------------------------------------------------------------------------
(* Kinds, values, and what the provider computes from them.                *)

LEMMA KindFacts ==
  ASSUME TypeOK
  PROVE  /\ Kind \in Kinds /\ "name" \in Names
         /\ config.attrs \in Attributes
         /\ Kind.unread \subseteq Names /\ Kind.replaces \subseteq Names
         /\ (Kind.unread \cup Kind.replaces) \cap (Kind.fixed \cup Kind.reworded \cup Kind.sticky) = {}
         /\ Kind.suppressed \subseteq Kind.unread \cap Kind.unsent
         /\ Kind.adopts \subseteq Kind.unread
         /\ \A a \in Kind.adopts : config.attrs[a] # Unset
<1>1. PICK k \in Kinds : config \in ConfigsOf(k)
  BY DEF TypeOK, Configs
<1>2. Kind = k /\ config.attrs \in Settings(k)
  BY <1>1 DEF ConfigsOf, Kind
<1>3. config.attrs \in Attributes
  BY <1>2 DEF Settings, Attributes, Names
<1>4. \A s \in {k.unread, k.replaces, k.unsent, k.suppressed} : s \subseteq k.attrs
  BY KindsAssumption
<1>5. \A a \in k.adopts : config.attrs[a] # Unset
  BY <1>2, ValuesAssumption DEF Settings
<1>6. QED BY <1>2, <1>3, <1>4, <1>5, KindsAssumption DEF Names

LEMMA StoredFacts ==
  ASSUME TypeOK, NEW a \in Names, NEW v \in Values \cup {Unset}
  PROVE  /\ Stored(a, v) \in Values \cup {Unset}
         /\ Stored(a, Stored(a, v)) = Stored(a, v)
         /\ a \in Kind.unread \cup Kind.replaces => Stored(a, v) = v
<1>1. a \in Kind.unread \cup Kind.replaces => a \notin Kind.fixed \cup Kind.reworded
  BY KindFacts
<1>2. v \in Values => Written[v] \in Values /\ Written[Written[v]] = Written[v]
  BY ValuesAssumption
<1>3. QED BY <1>1, <1>2, ValuesAssumption DEF Stored

LEMMA ConfiguredFacts ==
  ASSUME TypeOK
  PROVE  /\ Configured \in Attributes
         /\ \A a \in Names :
              /\ Configured[a] = Stored(a, config.attrs[a])
              /\ Stored(a, Configured[a]) = Configured[a]
              /\ a \in Kind.unread \cup Kind.replaces => Configured[a] = config.attrs[a]
<1>1. \A a \in Names : config.attrs[a] \in Values \cup {Unset}
  BY KindFacts DEF Attributes
<1>2. QED BY <1>1, StoredFacts DEF Configured, Attributes

LEMMA ReadOverFacts ==
  ASSUME TypeOK, NEW attrs \in Attributes, NEW object \in Attributes
  PROVE  /\ ReadOver(attrs, object) \in Attributes
         /\ \A a \in Names :
              /\ a \in Kind.unread => ReadOver(attrs, object)[a] = attrs[a]
              /\ a \notin Kind.unread =>
                   \/ ReadOver(attrs, object)[a] = object[a]
                   \/ a \in Kind.sticky /\ object[a] = Unset
BY DEF ReadOver, Attributes

LEMMA PlannedFacts ==
  ASSUME TypeOK
  PROVE  /\ Planned \in Attributes
         /\ \A a \in Names :
              /\ a \in Kind.suppressed => Planned[a] = state.attrs[a]
              /\ a \notin Kind.suppressed => Planned[a] = config.attrs[a]
<1>1. config.attrs \in Attributes /\ state.attrs \in Attributes
  BY KindFacts DEF TypeOK
<1>2. QED BY <1>1 DEF Planned, Attributes

(* What an Update sends is planned as it is configured. *)
LEMMA SentFacts ==
  ASSUME TypeOK
  PROVE  /\ Sent \subseteq Names /\ Sent \subseteq Changed /\ Changed \subseteq Names
         /\ \A a \in Sent : a \notin Kind.unsent /\ Planned[a] = config.attrs[a]
         /\ \A a \in Names \ Changed : Planned[a] = state.attrs[a]
BY KindFacts, PlannedFacts DEF Sent, Changed

LEMMA UpdatedFacts ==
  ASSUME TypeOK, Canonical
  PROVE  /\ Updated \in Attributes
         /\ \A a \in Names :
              /\ Updated[a] = IF a \in Sent THEN Configured[a] ELSE server.attrs[a]
              /\ Stored(a, Updated[a]) = Updated[a]
<1>1. server.attrs \in Attributes
  BY DEF TypeOK
<1>2. \A a \in Names : Updated[a] = IF a \in Sent THEN Configured[a] ELSE server.attrs[a]
  BY DEF Updated
<1>3. Updated \in Attributes
  BY <1>1, ConfiguredFacts DEF Updated, Attributes
<1>4. ASSUME NEW a \in Names
      PROVE  Stored(a, Updated[a]) = Updated[a]
  <2>1. CASE a \in Sent
    <3>1. Updated[a] = Configured[a]
      BY <1>2, <2>1
    <3>2. Stored(a, Configured[a]) = Configured[a]
      BY ConfiguredFacts
    <3>3. QED BY <3>1, <3>2
  <2>2. CASE a \notin Sent
    <3>1. Updated[a] = server.attrs[a]
      BY <1>2, <2>2
    <3>2. QED BY <3>1 DEF Canonical
  <2>3. QED BY <2>1, <2>2
<1>5. QED BY <1>2, <1>3, <1>4

LEMMA AfterUpdateFacts ==
  ASSUME TypeOK, Canonical
  PROVE  /\ AfterUpdate \in Attributes
         /\ \A a \in Kind.unread : AfterUpdate[a] = Planned[a]
<1>1. Planned \in Attributes /\ Updated \in Attributes
  BY PlannedFacts, UpdatedFacts
<1>2. QED BY <1>1, ReadOverFacts, KindFacts DEF AfterUpdate

LEMMA CountersStep ==
  ASSUME TypeOK, [Next]_vars
  PROVE  edits' \in 0..MaxEdits /\ outOfBand' \in 0..MaxOutOfBand /\ faults' \in 0..MaxFaults
<1>1. \/ UNCHANGED bounds
      \/ Fault
      \/ edits < MaxEdits /\ edits' = edits + 1 /\ UNCHANGED <<outOfBand, faults>>
      \/ outOfBand < MaxOutOfBand /\ outOfBand' = outOfBand + 1 /\ UNCHANGED <<edits, faults>>
  BY DEF Next, Terraform, Environment, Plan, ApplyNothing, Create, Adopt, CreateFails,
         CreateReplyLost, UpdateCall, UpdateNoCall, UpdateFails, UpdateReplyLost, UpdateDies,
         Delete, DeleteFails, DeleteReplyLost, Crash, EditConfig, Import, ApiCall, ApiSet,
         ApiDelete, vars, bounds
<1>2. QED BY <1>1, BoundsAssumption DEF TypeOK, bounds, Fault

-----------------------------------------------------------------------------
(* The invariant is inductive.                                             *)

LEMMA InitEstablishes == Init => IInv
<1> SUFFICES ASSUME Init PROVE IInv
  OBVIOUS
<1>1. config \in Configs /\ server.exists \in BOOLEAN /\ server.attrs = Configured
  BY DEF Init
<1>2. PICK k \in Kinds : config \in ConfigsOf(k)
  BY <1>1 DEF Configs
<1>3. Kind = k /\ config.attrs \in Attributes
  BY <1>2 DEF ConfigsOf, Settings, Kind, Names, Attributes
<1>4. \A a \in Names, v \in Values \cup {Unset} :
        /\ Stored(a, v) \in Values \cup {Unset}
        /\ Stored(a, Stored(a, v)) = Stored(a, v)
  BY ValuesAssumption DEF Stored
<1>5. \A a \in Names : config.attrs[a] \in Values \cup {Unset}
  BY <1>3 DEF Attributes
<1>6. Configured \in Attributes /\ \A a \in Names : Stored(a, Configured[a]) = Configured[a]
  BY <1>4, <1>5 DEF Configured, Attributes
<1>7. Nothing \in Attributes
  BY DEF Nothing, Attributes
<1>8. TypeOK
  <2>1. server \in [exists : BOOLEAN, attrs : Attributes]
    BY <1>6 DEF Init
  <2>2. state \in [tracked : BOOLEAN, tainted : BOOLEAN, attrs : Attributes]
    BY <1>7 DEF Init
  <2>3. QED BY <2>1, <2>2, BoundsAssumption DEF Init, TypeOK
<1>9. ~state.tracked /\ ~state.tainted /\ pc = "idle" /\ disturbed = {}
  BY DEF Init
<1>10. QED
  BY <1>1, <1>6, <1>8, <1>9
  DEF Init, IInv, HiddenIsRight, RefreshIsRight, Canonical, UndisturbedIdentity,
      PresentUnlessDisturbed, TaintedIsSpared, Spared

(* What a handler that returns has to see to. *)
LEMMA ReturnStep ==
  ASSUME IInv, [Next]_vars, config' = config,
         NEW d \in SUBSET {"error", "crash"}, Return(d),
         server' \in [exists : BOOLEAN, attrs : Attributes],
         state' \in [tracked : BOOLEAN, tainted : BOOLEAN, attrs : Attributes],
         doubtful' \in SUBSET Names,
         HiddenIsRight',
         \A a \in Names : Stored(a, server'.attrs[a]) = server'.attrs[a],
         state'.tainted => \E a \in Kind.adopts : state'.attrs[a] # Unset
  PROVE  IInv'
<1>1. TypeOK /\ Kind' = Kind /\ Names' = Names /\ Attributes' = Attributes
  BY DEF IInv, Kind, Names, Attributes
<1>2. TypeOK'
  BY <1>1, CountersStep DEF TypeOK, Return
<1>3. Canonical'
  BY <1>1 DEF Canonical, Stored
<1>4. QED
  BY <1>1, <1>2, <1>3
  DEF Return, IInv, RefreshIsRight, UndisturbedIdentity, PresentUnlessDisturbed,
      TaintedIsSpared, Spared

(* Nothing but the diagnostics. *)
LEMMA QuietReturnStep ==
  ASSUME IInv, [Next]_vars, UNCHANGED <<config, server, state, doubtful>>,
         NEW d \in SUBSET {"error", "crash"}, Return(d)
  PROVE  IInv'
<1>1. HiddenIsRight'
  BY DEF IInv, HiddenIsRight, Kind
<1>2. QED
  BY <1>1, ReturnStep
  DEF IInv, TypeOK, Canonical, TaintedIsSpared, Spared, Kind, Names, Attributes

LEMMA UntrackedFacts ==
  /\ Untracked \in [tracked : BOOLEAN, tainted : BOOLEAN, attrs : Attributes]
  /\ ~Untracked.tracked /\ ~Untracked.tainted
BY DEF Untracked, Nothing, Attributes

LEMMA TrackedFacts ==
  ASSUME NEW attrs \in Attributes
  PROVE  /\ Tracked(attrs) \in [tracked : BOOLEAN, tainted : BOOLEAN, attrs : Attributes]
         /\ Tracked(attrs).tracked /\ ~Tracked(attrs).tainted
         /\ Tracked(attrs).attrs = attrs
BY DEF Tracked

LEMMA PlanPreserves ==
  ASSUME IInv, Plan
  PROVE  IInv'
<1>0. /\ [Next]_vars /\ TypeOK
      /\ Kind' = Kind /\ Names' = Names /\ Attributes' = Attributes
      /\ pc' = "planned" /\ diags' = {} /\ disturbed' = {}
      /\ UNCHANGED <<config, server>>
  BY DEF Next, Terraform, Plan, IInv, Kind, Names, Attributes
<1>1. \A a \in Names : Stored(a, server.attrs[a])' = Stored(a, server.attrs[a])
  BY <1>0 DEF Stored
<1>2. Canonical'
  BY <1>0, <1>1 DEF IInv, Canonical
<1>3. UndisturbedIdentity'
  BY <1>0 DEF IInv, UndisturbedIdentity
<1>4. ASSUME state' \in [tracked : BOOLEAN, tainted : BOOLEAN, attrs : Attributes],
             doubtful' \in SUBSET Names
      PROVE  TypeOK'
  BY <1>0, <1>4, CountersStep DEF TypeOK
<1>5. CASE ~state.tracked /\ UNCHANGED <<state, doubtful>>
  <2>1. TypeOK'
    BY <1>0, <1>4, <1>5 DEF TypeOK
  <2>2. QED
    BY <1>0, <1>2, <1>3, <1>5, <2>1
    DEF IInv, HiddenIsRight, RefreshIsRight, PresentUnlessDisturbed, TaintedIsSpared, Spared
<1>6. CASE /\ state.tracked /\ server.exists /\ UNCHANGED doubtful
           /\ state' = [state EXCEPT !.attrs = ReadOver(state.attrs, server.attrs)]
  <2>1. state.attrs \in Attributes /\ server.attrs \in Attributes
    BY <1>0 DEF TypeOK
  <2>2. /\ state' \in [tracked : BOOLEAN, tainted : BOOLEAN, attrs : Attributes]
        /\ state'.tracked /\ state'.tainted = state.tainted
        /\ state'.attrs = ReadOver(state.attrs, server.attrs)
    BY <1>0, <1>6, <2>1, ReadOverFacts DEF TypeOK
  <2>3. TypeOK'
    BY <1>0, <1>4, <1>6, <2>2 DEF TypeOK
  <2>4. HiddenIsRight'
    BY <1>0, <1>6, <2>1, <2>2, ReadOverFacts, KindFacts DEF IInv, HiddenIsRight
  <2>5. RefreshIsRight'
    <3> SUFFICES ASSUME NEW a \in Names, a \notin doubtful
                 PROVE  \/ server.attrs[a] = state'.attrs[a]
                        \/ a \in Kind.sticky /\ server.attrs[a] = Unset
      BY <1>0, <1>6 DEF RefreshIsRight, Unnoticed
    <3>1. CASE a \in Kind.unread
      BY <1>6, <2>1, <2>2, <3>1, <1>0, ReadOverFacts DEF IInv, HiddenIsRight
    <3>2. CASE a \notin Kind.unread
      BY <1>0, <2>1, <2>2, <3>2, ReadOverFacts
    <3>3. QED BY <3>1, <3>2
  <2>6. TaintedIsSpared'
    <3>1. \A a \in Kind.adopts : state'.attrs[a] = state.attrs[a]
      BY <1>0, <2>1, <2>2, KindFacts, ReadOverFacts
    <3>2. QED BY <1>0, <2>2, <3>1 DEF IInv, TaintedIsSpared, Spared
  <2>7. QED
    BY <1>0, <1>2, <1>3, <1>6, <2>2, <2>3, <2>4, <2>5, <2>6 DEF IInv, PresentUnlessDisturbed
<1>7. CASE state.tracked /\ ~server.exists /\ state' = Untracked /\ doubtful' = {}
  <2>1. TypeOK'
    BY <1>4, <1>7, UntrackedFacts
  <2>2. QED
    BY <1>0, <1>2, <1>3, <1>7, <2>1, UntrackedFacts
    DEF IInv, HiddenIsRight, RefreshIsRight, PresentUnlessDisturbed, TaintedIsSpared, Spared
<1>8. QED BY <1>5, <1>6, <1>7 DEF Plan

(* Boundary has what is configured of everything. *)
LEMMA CreatePreserves ==
  ASSUME IInv, Create
  PROVE  IInv'
<1>0. [Next]_vars /\ TypeOK /\ Kind' = Kind
  BY DEF Next, Terraform, IInv, Create, Kind
<1>1. /\ Configured \in Attributes /\ config.attrs \in Attributes
      /\ server' \in [exists : BOOLEAN, attrs : Attributes]
      /\ server'.exists /\ server'.attrs = Configured
  BY <1>0, ConfiguredFacts, KindFacts DEF Create
<1>2. /\ state' \in [tracked : BOOLEAN, tainted : BOOLEAN, attrs : Attributes]
      /\ ~state'.tainted
      /\ state'.attrs = ReadOver(config.attrs, Configured)
  BY <1>0, <1>1, ReadOverFacts, TrackedFacts DEF Create
<1>3. HiddenIsRight'
  BY <1>0, <1>1, <1>2, ReadOverFacts, ConfiguredFacts, KindFacts DEF HiddenIsRight
<1>4. QED BY <1>0, <1>1, <1>2, <1>3, ConfiguredFacts, ReturnStep DEF Create

LEMMA AdoptPreserves ==
  ASSUME IInv, Adopt
  PROVE  IInv'
<1>0. [Next]_vars /\ TypeOK /\ Kind' = Kind
  BY DEF Next, Terraform, IInv, Adopt, Kind
<1>1. CASE server.exists
  <2>1. state' = Tracked(ReadOver(config.attrs, server.attrs)) /\ doubtful' = Kind.unread
    BY <1>1 DEF Adopt
  <2>2. config.attrs \in Attributes /\ server.attrs \in Attributes
    BY <1>0, KindFacts DEF TypeOK
  <2>3. /\ state' \in [tracked : BOOLEAN, tainted : BOOLEAN, attrs : Attributes]
        /\ ~state'.tainted
    BY <1>0, <2>1, <2>2, ReadOverFacts, TrackedFacts
  <2>4. HiddenIsRight'
    BY <1>0, <2>1 DEF HiddenIsRight
  <2>5. QED
    BY <1>0, <2>1, <2>3, <2>4, KindFacts, ReturnStep DEF Adopt, IInv, TypeOK, Canonical
<1>2. CASE ~server.exists
  BY <1>0, <1>2, QuietReturnStep DEF Adopt
<1>3. QED BY <1>1, <1>2

LEMMA CreateFailsPreserves ==
  ASSUME IInv, CreateFails
  PROVE  IInv'
<1>0. [Next]_vars /\ TypeOK /\ Kind' = Kind
  BY DEF Next, Terraform, IInv, CreateFails, Kind
<1>1. CASE Kind.adopts # {} /\ server.exists
  <2>1. /\ state' = [tracked |-> TRUE, tainted |-> TRUE, attrs |-> config.attrs]
        /\ doubtful' = Kind.unread
    BY <1>1 DEF CreateFails
  <2>2. state' \in [tracked : BOOLEAN, tainted : BOOLEAN, attrs : Attributes]
    BY <1>0, <2>1, KindFacts
  <2>3. HiddenIsRight'
    BY <1>0, <2>1 DEF HiddenIsRight
  <2>4. \E a \in Kind.adopts : state'.attrs[a] # Unset
    BY <1>0, <1>1, <2>1, KindFacts
  <2>5. QED
    BY <1>0, <2>1, <2>2, <2>3, <2>4, KindFacts, ReturnStep
    DEF CreateFails, IInv, TypeOK, Canonical
<1>2. CASE ~(Kind.adopts # {} /\ server.exists)
  BY <1>0, <1>2, QuietReturnStep DEF CreateFails
<1>3. QED BY <1>1, <1>2

LEMMA CreateReplyLostPreserves ==
  ASSUME IInv, CreateReplyLost
  PROVE  IInv'
<1>0. [Next]_vars /\ TypeOK /\ Kind' = Kind
  BY DEF Next, Terraform, IInv, CreateReplyLost, Kind
<1>1. /\ server' \in [exists : BOOLEAN, attrs : Attributes]
      /\ server'.exists /\ server'.attrs = Configured
  BY <1>0, ConfiguredFacts DEF CreateReplyLost
<1>2. HiddenIsRight'
  BY DEF HiddenIsRight, CreateReplyLost, Creates
<1>3. QED
  BY <1>0, <1>1, <1>2, ConfiguredFacts, ReturnStep
  DEF CreateReplyLost, IInv, TypeOK, TaintedIsSpared, Spared

(* What an Update writes of an attribute that is not read back, and what   *)
(* it leaves.                                                              *)
LEMMA HiddenUpdate ==
  ASSUME IInv, Updates, NEW a \in Kind.unread
  PROVE  /\ a \in Sent => Updated[a] = Planned[a]
         /\ a \notin Sent => Updated[a] = server.attrs[a]
         /\ server.exists /\ a \notin doubtful \cup Changed => server.attrs[a] = Planned[a]
<1>1. TypeOK /\ Canonical /\ a \in Names
  BY KindFacts DEF IInv
<1>2. a \in Sent => Updated[a] = Configured[a] /\ Configured[a] = config.attrs[a]
  BY <1>1, UpdatedFacts, ConfiguredFacts
<1>3. a \in Sent => Planned[a] = config.attrs[a]
  BY <1>1, SentFacts
<1>4. a \notin Sent => Updated[a] = server.attrs[a]
  BY <1>1, UpdatedFacts
<1>5. server.exists /\ a \notin doubtful \cup Changed =>
        server.attrs[a] = state.attrs[a] /\ Planned[a] = state.attrs[a]
  BY <1>1, SentFacts DEF Updates, IInv, HiddenIsRight
<1>6. QED BY <1>2, <1>3, <1>4, <1>5

LEMMA WrittenStep ==
  ASSUME IInv, [Next]_vars, config' = config, Updates, server.exists,
         server' = [server EXCEPT !.attrs = Updated],
         NEW attrs \in Attributes, state' = Tracked(attrs),
         \A a \in Kind.unread : attrs[a] = Planned[a],
         doubtful' = (doubtful \cup Unsure(Changed)) \ Sent,
         NEW d \in SUBSET {"error", "crash"}, Return(d)
  PROVE  IInv'
<1>0. TypeOK /\ Canonical /\ Kind' = Kind
  BY DEF IInv, Kind
<1>1. /\ server' \in [exists : BOOLEAN, attrs : Attributes]
      /\ server'.exists /\ server'.attrs = Updated
  BY <1>0, UpdatedFacts DEF TypeOK
<1>2. /\ state' \in [tracked : BOOLEAN, tainted : BOOLEAN, attrs : Attributes]
      /\ ~state'.tainted /\ state'.attrs = attrs
  BY TrackedFacts
<1>3. HiddenIsRight'
  <2> SUFFICES ASSUME NEW a \in Kind.unread, a \notin doubtful'
               PROVE  Updated[a] = Planned[a]
    BY <1>0, <1>1, <1>2 DEF HiddenIsRight
  <2>1. a \notin Sent => a \notin doubtful \cup Changed
    BY DEF Unsure
  <2>2. QED BY <2>1, HiddenUpdate
<1>4. doubtful' \in SUBSET Names
  BY <1>0, SentFacts DEF TypeOK, Unsure
<1>5. QED BY <1>0, <1>1, <1>2, <1>3, <1>4, UpdatedFacts, ReturnStep

LEMMA PlannedStep ==
  ASSUME IInv, [Next]_vars, UNCHANGED <<config, server>>, Updates,
         state' = Tracked(Planned),
         doubtful' = doubtful \cup Unsure(Changed),
         NEW d \in SUBSET {"error", "crash"}, Return(d)
  PROVE  IInv'
<1>0. TypeOK /\ Kind' = Kind
  BY DEF IInv, Kind
<1>1. /\ state' \in [tracked : BOOLEAN, tainted : BOOLEAN, attrs : Attributes]
      /\ ~state'.tainted /\ state'.attrs = Planned
  BY <1>0, PlannedFacts, TrackedFacts
<1>2. HiddenIsRight'
  <2> SUFFICES ASSUME server.exists, NEW a \in Kind.unread, a \notin doubtful'
               PROVE  server.attrs[a] = Planned[a]
    BY <1>0, <1>1 DEF HiddenIsRight
  <2>1. a \notin doubtful \cup Changed
    BY DEF Unsure
  <2>2. QED BY <2>1, HiddenUpdate
<1>3. doubtful' \in SUBSET Names
  BY <1>0, SentFacts DEF TypeOK, Unsure
<1>4. QED
  BY <1>0, <1>1, <1>2, <1>3, ReturnStep DEF IInv, TypeOK, Canonical

LEMMA UpdateDiesPreserves ==
  ASSUME IInv, UpdateDies
  PROVE  IInv'
<1>0. [Next]_vars /\ TypeOK /\ Canonical /\ Kind' = Kind
  BY DEF Next, Terraform, IInv, UpdateDies, Kind
<1>1. /\ server' \in [exists : BOOLEAN, attrs : Attributes]
      /\ server'.exists /\ server'.attrs = Updated
  BY <1>0, UpdatedFacts DEF UpdateDies, TypeOK
<1>2. HiddenIsRight'
  <2> SUFFICES ASSUME NEW a \in Kind.unread, a \notin doubtful'
               PROVE  Updated[a] = state.attrs[a]
    BY <1>0, <1>1 DEF HiddenIsRight, UpdateDies
  <2>1. a \notin Sent /\ a \notin doubtful
    BY DEF UpdateDies, Unsure
  <2>2. Updated[a] = server.attrs[a]
    BY <2>1, HiddenUpdate DEF UpdateDies
  <2>3. QED BY <2>1, <2>2 DEF IInv, HiddenIsRight, UpdateDies, Updates
<1>3. doubtful' \in SUBSET Names
  BY <1>0, SentFacts DEF UpdateDies, TypeOK, Unsure
<1>4. QED
  BY <1>0, <1>1, <1>2, <1>3, UpdatedFacts, ReturnStep
  DEF UpdateDies, IInv, TypeOK, TaintedIsSpared, Spared

LEMMA DeletePreserves ==
  ASSUME IInv, Delete
  PROVE  IInv'
<1>0. /\ [Next]_vars /\ TypeOK
      /\ Kind' = Kind /\ Names' = Names /\ Attributes' = Attributes
      /\ config' = config /\ state' = Untracked /\ doubtful' = {}
  BY DEF Next, Terraform, IInv, Delete, Kind, Names, Attributes
<1>1. /\ server' \in [exists : BOOLEAN, attrs : Attributes]
      /\ server'.attrs = server.attrs
      /\ server'.exists => server.exists
  BY <1>0 DEF Delete, TypeOK
<1>2. /\ pc' \in {"idle", "planned"} /\ diags' \in SUBSET {"error", "crash"}
      /\ disturbed' \in {{}, disturbed}
  BY <1>0 DEF Delete, Return, TypeOK
<1>3. TypeOK'
  BY <1>0, <1>1, <1>2, UntrackedFacts, CountersStep DEF TypeOK
<1>4. Canonical'
  BY <1>0, <1>1 DEF IInv, Canonical, Stored
<1>5. QED
  BY <1>0, <1>1, <1>2, <1>3, <1>4, UntrackedFacts
  DEF IInv, HiddenIsRight, RefreshIsRight, UndisturbedIdentity, PresentUnlessDisturbed,
      TaintedIsSpared, Spared

LEMMA DeleteReplyLostPreserves ==
  ASSUME IInv, DeleteReplyLost
  PROVE  IInv'
<1>0. [Next]_vars /\ TypeOK /\ Kind' = Kind
  BY DEF Next, Terraform, IInv, DeleteReplyLost, Kind
<1>1. /\ server' \in [exists : BOOLEAN, attrs : Attributes]
      /\ ~server'.exists /\ server'.attrs = server.attrs
  BY <1>0 DEF DeleteReplyLost, TypeOK
<1>2. HiddenIsRight'
  BY <1>1 DEF HiddenIsRight
<1>3. QED
  BY <1>0, <1>1, <1>2, ReturnStep
  DEF DeleteReplyLost, IInv, TypeOK, Canonical, TaintedIsSpared, Spared

LEMMA ImportPreserves ==
  ASSUME IInv, Import
  PROVE  IInv'
<1>0. /\ [Next]_vars /\ TypeOK /\ pc' = "idle" /\ diags' = {}
      /\ Kind' = Kind /\ Names' = Names /\ Attributes' = Attributes
      /\ UNCHANGED <<config, server, disturbed>>
      /\ doubtful' = Kind.unread
  BY DEF Next, Environment, IInv, Import, Kind, Names, Attributes
<1>1. /\ state' \in [tracked : BOOLEAN, tainted : BOOLEAN, attrs : Attributes]
      /\ ~state'.tainted
  <2>1. Nothing \in Attributes /\ server.attrs \in Attributes
    BY <1>0 DEF Nothing, Attributes, TypeOK
  <2>2. QED BY <1>0, <2>1, ReadOverFacts, TrackedFacts DEF Import
<1>2. TypeOK'
  BY <1>0, <1>1, KindFacts, CountersStep DEF TypeOK
<1>3. Canonical'
  BY <1>0 DEF IInv, Canonical, Stored
<1>4. QED
  BY <1>0, <1>1, <1>2, <1>3
  DEF IInv, HiddenIsRight, RefreshIsRight, UndisturbedIdentity, PresentUnlessDisturbed,
      TaintedIsSpared, Spared

LEMMA EditConfigPreserves ==
  ASSUME IInv, EditConfig
  PROVE  IInv'
<1>0. /\ [Next]_vars /\ TypeOK /\ pc = "idle" /\ config' \in ConfigsOf(Kind)
      /\ UNCHANGED <<server, state, pc, diags, disturbed, doubtful>>
  BY DEF Next, Environment, IInv, EditConfig, history
<1>1. Kind' = Kind /\ Names' = Names /\ Attributes' = Attributes
  BY <1>0 DEF ConfigsOf, Kind, Names, Attributes
<1>2. config' \in Configs
  BY <1>0, KindFacts DEF Configs
<1>3. TypeOK'
  BY <1>0, <1>1, <1>2, CountersStep DEF TypeOK
<1>4. Canonical'
  BY <1>0, <1>1 DEF IInv, Canonical, Stored
<1>5. QED
  BY <1>0, <1>1, <1>3, <1>4
  DEF IInv, HiddenIsRight, RefreshIsRight, UndisturbedIdentity, PresentUnlessDisturbed,
      TaintedIsSpared, Spared

(* What others do to an attribute is known to the history variables. *)
LEMMA ApiSetPreserves ==
  ASSUME IInv, ApiSet
  PROVE  IInv'
<1>0. /\ [Next]_vars /\ TypeOK /\ Canonical /\ server.exists
      /\ Kind' = Kind /\ Names' = Names /\ Attributes' = Attributes
      /\ UNCHANGED <<config, state, pc, diags>>
  BY DEF Next, Environment, IInv, ApiSet, ApiCall, Kind, Names, Attributes
<1>1. PICK a \in Names \ (Kind.replaces \cup Kind.fixed \cup Kind.adopts), v \in Values \cup {Unset} :
        /\ server' = [server EXCEPT !.attrs[a] = Stored(a, v)]
        /\ disturbed' = disturbed \cup {a}
        /\ doubtful' = IF state.tracked THEN doubtful \cup Unsure({a}) ELSE doubtful
  BY DEF ApiSet
<1>2. /\ server.attrs \in Attributes
      /\ Stored(a, v) \in Values \cup {Unset} /\ Stored(a, Stored(a, v)) = Stored(a, v)
  BY <1>0, StoredFacts DEF TypeOK
<1> DEFINE attrs == [server.attrs EXCEPT ![a] = Stored(a, v)]
<1>3. /\ attrs \in Attributes
      /\ attrs[a] = Stored(a, v) /\ \A b \in Names \ {a} : attrs[b] = server.attrs[b]
  BY <1>2 DEF Attributes
<1>4. server' = [server EXCEPT !.attrs = attrs]
  BY <1>1
<1> HIDE DEF attrs
<1>5. /\ server' \in [exists : BOOLEAN, attrs : Attributes]
      /\ server'.exists /\ server'.attrs = attrs
  BY <1>0, <1>3, <1>4 DEF TypeOK
<1>6. doubtful \subseteq doubtful' /\ doubtful' \in SUBSET Names /\ disturbed' \in SUBSET Names
  BY <1>0, <1>1, KindFacts DEF TypeOK, Unsure
<1>7. TypeOK'
  BY <1>0, <1>5, <1>6, CountersStep DEF TypeOK
<1>8. Canonical'
  <2> SUFFICES ASSUME NEW b \in Names
               PROVE  Stored(b, attrs[b]) = attrs[b]
    BY <1>0, <1>5 DEF Canonical, Stored
  <2>1. CASE b = a
    <3>1. attrs[b] = Stored(a, v)
      BY <1>3, <2>1
    <3>2. QED BY <1>2, <2>1, <3>1
  <2>2. CASE b # a
    <3>1. attrs[b] = server.attrs[b]
      BY <1>3, <2>2
    <3>2. QED BY <1>0, <3>1 DEF Canonical
  <2>3. QED BY <2>1, <2>2
<1>9. HiddenIsRight'
  <2> SUFFICES ASSUME state.tracked, NEW b \in Kind.unread, b \notin doubtful'
               PROVE  attrs[b] = state.attrs[b]
    BY <1>0, <1>5 DEF HiddenIsRight
  <2>1. b # a /\ b \notin doubtful /\ b \in Names
    BY <1>0, <1>1, <1>6, KindFacts DEF Unsure
  <2>2. QED BY <1>0, <1>3, <2>1 DEF IInv, HiddenIsRight
<1>10. RefreshIsRight'
  <2> SUFFICES ASSUME pc = "planned", state.tracked,
                      NEW b \in Names, b \notin disturbed', b \notin doubtful'
               PROVE  attrs[b] = state.attrs[b] \/ (b \in Kind.sticky /\ attrs[b] = Unset)
    BY <1>0, <1>5 DEF RefreshIsRight, Unnoticed
  <2>1. b # a /\ b \notin disturbed /\ b \notin doubtful
    BY <1>1, <1>6
  <2>2. attrs[b] = server.attrs[b]
    BY <1>3, <2>1
  <2>3. QED BY <1>0, <2>1, <2>2 DEF IInv, RefreshIsRight, Unnoticed
<1>11. UndisturbedIdentity'
  BY <1>0, <1>1 DEF IInv, UndisturbedIdentity
<1>12. QED
  BY <1>0, <1>5, <1>7, <1>8, <1>9, <1>10, <1>11
  DEF IInv, PresentUnlessDisturbed, TaintedIsSpared, Spared

LEMMA ApiDeletePreserves ==
  ASSUME IInv, ApiDelete
  PROVE  IInv'
<1>0. /\ [Next]_vars /\ TypeOK
      /\ Kind' = Kind /\ Names' = Names /\ Attributes' = Attributes
      /\ UNCHANGED <<config, state, pc, diags, doubtful>>
      /\ disturbed' = Names
  BY DEF Next, Environment, IInv, ApiDelete, ApiCall, Kind, Names, Attributes
<1>1. /\ server' \in [exists : BOOLEAN, attrs : Attributes]
      /\ ~server'.exists /\ server'.attrs = server.attrs
  BY <1>0 DEF ApiDelete, TypeOK
<1>2. TypeOK'
  BY <1>0, <1>1, CountersStep DEF TypeOK
<1>3. Canonical'
  BY <1>0, <1>1 DEF IInv, Canonical, Stored
<1>4. disturbed' # {}
  BY <1>0, KindFacts
<1>5. QED
  BY <1>0, <1>1, <1>2, <1>3, <1>4
  DEF IInv, HiddenIsRight, RefreshIsRight, UndisturbedIdentity, PresentUnlessDisturbed,
      TaintedIsSpared, Spared

LEMMA NextPreserves == IInv /\ [Next]_vars => IInv'
<1> SUFFICES ASSUME IInv, [Next]_vars PROVE IInv'
  OBVIOUS
<1>0. TypeOK /\ Canonical
  BY DEF IInv
<1>1. CASE Plan
  BY <1>1, PlanPreserves
<1>2. CASE ApplyNothing \/ Crash \/ DeleteFails
  BY <1>2, QuietReturnStep DEF ApplyNothing, Crash, DeleteFails
<1>3. CASE Create
  BY <1>3, CreatePreserves
<1>4. CASE Adopt
  BY <1>4, AdoptPreserves
<1>5. CASE CreateFails
  BY <1>5, CreateFailsPreserves
<1>6. CASE CreateReplyLost
  BY <1>6, CreateReplyLostPreserves
<1>7. CASE UpdateCall
  BY <1>0, <1>7, AfterUpdateFacts, WrittenStep DEF UpdateCall
<1>8. CASE UpdateReplyLost
  <2>1. Planned \in Attributes
    BY <1>0, PlannedFacts
  <2>2. QED BY <1>8, <2>1, WrittenStep DEF UpdateReplyLost
<1>9. CASE UpdateNoCall
  BY <1>9, PlannedStep DEF UpdateNoCall
<1>10. CASE UpdateFails
  BY <1>10, PlannedStep DEF UpdateFails
<1>11. CASE UpdateDies
  BY <1>11, UpdateDiesPreserves
<1>12. CASE Delete
  BY <1>12, DeletePreserves
<1>13. CASE DeleteReplyLost
  BY <1>13, DeleteReplyLostPreserves
<1>14. CASE Import
  BY <1>14, ImportPreserves
<1>15. CASE EditConfig
  BY <1>15, EditConfigPreserves
<1>16. CASE ApiSet
  BY <1>16, ApiSetPreserves
<1>17. CASE ApiDelete
  BY <1>17, ApiDeletePreserves
<1>18. CASE UNCHANGED vars
  BY <1>18
  DEF vars, history, bounds, IInv, TypeOK, HiddenIsRight, RefreshIsRight, Canonical, Unnoticed,
      UndisturbedIdentity, PresentUnlessDisturbed, TaintedIsSpared, Spared,
      Stored, Kind, Names, Attributes
<1>19. QED
  BY <1>1, <1>2, <1>3, <1>4, <1>5, <1>6, <1>7, <1>8, <1>9, <1>10, <1>11, <1>12, <1>13, <1>14,
     <1>15, <1>16, <1>17, <1>18 DEF Next, Terraform, Environment

LEMMA Inductive == Spec => []IInv
BY InitEstablishes, NextPreserves, PTL DEF Spec

-----------------------------------------------------------------------------
(* The properties.                                                         *)

(* The variables keep their types, whatever happens. *)
THEOREM TypeCorrect == Spec => []TypeOK
<1>1. IInv => TypeOK
  BY DEF IInv
<1>2. QED BY <1>1, Inductive, PTL

(* Every plan is made from the truth, also about what is not read back.    *)
THEOREM PlansAreRight == Spec => []RefreshIsRight
<1>1. IInv => RefreshIsRight
  BY DEF IInv
<1>2. QED BY <1>1, Inductive, PTL

(* Somebody other than Terraform destroys only through the API. *)
LEMMA DestroyedByDelete ==
  ASSUME [Next]_vars, server.exists, ~server'.exists, outOfBand' = outOfBand, TypeOK
  PROVE  Deletes /\ ~Spared
<1>1. CASE Delete \/ DeleteReplyLost
  BY <1>1 DEF Delete, DeleteReplyLost
<1>2. CASE Create \/ CreateReplyLost \/ UpdateCall \/ UpdateReplyLost \/ UpdateDies
  BY <1>2 DEF Create, CreateReplyLost, UpdateCall, UpdateReplyLost, UpdateDies, TypeOK
<1>3. CASE ApiSet \/ ApiDelete
  BY <1>3, BoundsAssumption DEF ApiSet, ApiDelete, ApiCall, TypeOK
<1>4. CASE UNCHANGED server
  BY <1>4
<1>5. QED
  BY <1>1, <1>2, <1>3, <1>4
  DEF Next, Terraform, Environment, Plan, ApplyNothing, Adopt, CreateFails, UpdateNoCall,
      UpdateFails, DeleteFails, Crash, Import, EditConfig, vars

LEMMA ReplacementStep ==
  ASSUME IInv, [Next]_vars, config.here, server.exists, ~server'.exists, outOfBand' = outOfBand
  PROVE  \E a \in Kind.replaces : a \in doubtful \/ server.attrs[a] # config.attrs[a]
<1>0. TypeOK
  BY DEF IInv
<1>1. Deletes /\ ~Spared
  BY <1>0, DestroyedByDelete
<1>2. pc = "planned" /\ state.tracked /\ ~state.tainted /\ Replacing
  BY <1>1 DEF Deletes, IInv, TaintedIsSpared, Spared
<1>3. PICK a \in Kind.replaces : a \in Names /\ Planned[a] # state.attrs[a]
  BY <1>2 DEF Replacing, Changed
<1>4. config.attrs[a] # state.attrs[a]
  BY <1>0, <1>3, PlannedFacts
<1>5. a \notin disturbed /\ a \notin Kind.sticky
  BY <1>0, <1>3, KindFacts DEF IInv, UndisturbedIdentity
<1>6. a \in doubtful \/ server.attrs[a] = state.attrs[a]
  BY <1>2, <1>3, <1>5 DEF IInv, RefreshIsRight, Unnoticed
<1>7. QED BY <1>3, <1>4, <1>6

(* A resource is replaced only if Boundary holds another identity than is  *)
(* configured, or if nobody can know.                                      *)
THEOREM ReplacementHasACause == Spec => ReplacedForCause
<1> DEFINE Cause ==
      config.here /\ server.exists /\ ~server'.exists /\ outOfBand' = outOfBand =>
        \E a \in Kind.replaces : a \in doubtful \/ server.attrs[a] # config.attrs[a]
<1>1. IInv /\ [Next]_vars => [Cause]_vars
  BY ReplacementStep
<1>2. QED BY <1>1, Inductive, PTL DEF Spec, ReplacedForCause

(* What is planned to stay is there as it is configured, unless excused. *)
LEMMA UnchangedIsThere ==
  ASSUME IInv, pc = "planned", state.tracked, server.exists, disturbed = {},
         NEW a \in Names, a \notin doubtful, ~Unnoticed(a), a \notin Kind.unsent,
         Planned[a] = state.attrs[a]
  PROVE  server.attrs[a] = Configured[a]
<1>0. TypeOK /\ a \notin Kind.suppressed
  BY KindFacts DEF IInv
<1>1. server.attrs[a] = state.attrs[a]
  BY DEF IInv, RefreshIsRight
<1>2. server.attrs[a] = config.attrs[a]
  BY <1>0, <1>1, PlannedFacts
<1>3. Stored(a, server.attrs[a]) = server.attrs[a]
  BY DEF IInv, Canonical
<1>4. Configured[a] = Stored(a, config.attrs[a])
  BY <1>0, ConfiguredFacts
<1>5. QED BY <1>2, <1>3, <1>4

LEMMA NotSent ==
  ASSUME IInv, state.tracked, NEW a \in Names, ~Excused(a), a \notin Sent
  PROVE  Planned[a] = state.attrs[a]
<1>1. a \notin Kind.unsent /\ (a \in Kind.lasting => config.attrs[a] # Unset)
  BY DEF Excused
<1>2. QED BY <1>1, SentFacts DEF Sent, IInv

LEMMA SuccessStep ==
  ASSUME IInv, [Next]_vars, pc = "planned", pc' = "idle", diags' = {}, disturbed = {},
         config.here, ~(Kind.adopts # {} /\ ~state.tracked)
  PROVE  /\ server'.exists
         /\ \A a \in Names : Excused(a) \/ server'.attrs[a] = Configured[a]
<1>0. TypeOK /\ Canonical /\ (state.tracked => server.exists)
  BY DEF IInv, PresentUnlessDisturbed
<1>1. CASE ApplyNothing
  <2>1. state.tracked /\ UNCHANGED server /\ Changed = {}
    BY <1>1 DEF ApplyNothing
  <2>2. ASSUME NEW a \in Names, ~Excused(a)
        PROVE  server.attrs[a] = Configured[a]
    <3>1. Planned[a] = state.attrs[a]
      BY <1>0, <2>1, SentFacts
    <3>2. QED BY <1>0, <2>1, <2>2, <3>1, UnchangedIsThere DEF Excused
  <2>3. QED BY <1>0, <2>1, <2>2
<1>2. CASE Create
  BY <1>2 DEF Create
<1>3. CASE UpdateCall
  <2>1. /\ state.tracked /\ server.exists
        /\ server'.exists /\ server'.attrs = Updated
    BY <1>0, <1>3 DEF UpdateCall, Updates, TypeOK
  <2>2. ASSUME NEW a \in Names, ~Excused(a)
        PROVE  Updated[a] = Configured[a]
    <3>1. CASE a \in Sent
      BY <1>0, <3>1, UpdatedFacts
    <3>2. CASE a \notin Sent
      <4>1. Updated[a] = server.attrs[a]
        BY <1>0, <3>2, UpdatedFacts
      <4>2. Planned[a] = state.attrs[a]
        BY <2>1, <2>2, <3>2, NotSent
      <4>3. QED BY <2>1, <2>2, <4>1, <4>2, UnchangedIsThere DEF Excused
    <3>3. QED BY <3>1, <3>2
  <2>3. QED BY <2>1, <2>2
<1>4. CASE UpdateNoCall
  <2>1. state.tracked /\ server.exists /\ UNCHANGED server /\ Sent = {}
    BY <1>0, <1>4 DEF UpdateNoCall, Updates
  <2>2. ASSUME NEW a \in Names, ~Excused(a)
        PROVE  server.attrs[a] = Configured[a]
    <3>1. Planned[a] = state.attrs[a]
      BY <2>1, <2>2, NotSent
    <3>2. QED BY <2>1, <2>2, <3>1, UnchangedIsThere DEF Excused
  <2>3. QED BY <2>1, <2>2
<1>5. CASE Adopt
  BY <1>5 DEF Adopt, Creates
<1>6. CASE CreateFails \/ CreateReplyLost \/ UpdateFails \/ UpdateReplyLost \/ UpdateDies
           \/ DeleteFails \/ DeleteReplyLost \/ Crash
  BY <1>6 DEF CreateFails, CreateReplyLost, UpdateFails, UpdateReplyLost, UpdateDies,
              DeleteFails, DeleteReplyLost, Crash, Return
<1>7. CASE pc' = pc \/ Plan
  BY <1>7 DEF Plan
<1>8. QED
  BY <1>1, <1>2, <1>3, <1>4, <1>5, <1>6, <1>7
  DEF Next, Terraform, Environment, Delete, Import, EditConfig, ApiSet, ApiDelete, ApiCall, vars

(* An apply that reports success is one, whatever the kind of resource     *)
(* does with each of its attributes, but for what Excused lists.           *)
THEOREM SuccessIsTrue == Spec => SuccessIsComplete
<1> DEFINE Complete ==
      /\ pc = "planned" /\ pc' = "idle" /\ diags' = {} /\ disturbed = {} /\ config.here
      /\ ~(Kind.adopts # {} /\ ~state.tracked)
      => /\ server'.exists
         /\ \A a \in Names : Excused(a) \/ server'.attrs[a] = Configured[a]
<1>1. IInv /\ [Next]_vars => [Complete]_vars
  BY SuccessStep
<1>2. QED BY <1>1, Inductive, PTL DEF Spec, SuccessIsComplete

-----------------------------------------------------------------------------
(* What is settled.                                                        *)

SettledAt(a) ==
  \/ a \in doubtful \/ Inexpressible(a)
  \/ (server.attrs[a] = Configured[a] \/ Unnoticed(a)) /\ Quiet(a)

(* What the next plan sees of an attribute.                                *)
Seen(a) ==
  IF a \in Kind.unread \/ Unnoticed(a) THEN state.attrs[a] ELSE server.attrs[a]

LEMMA QuietMeans ==
  ASSUME TypeOK, NEW a \in Names, ~Inexpressible(a)
  PROVE  /\ Planned[a] = config.attrs[a] /\ Configured[a] = config.attrs[a]
         /\ Quiet(a) <=> Seen(a) = config.attrs[a]
<1>1. a \notin Kind.suppressed
  BY KindFacts DEF Inexpressible
<1>2. Planned[a] = config.attrs[a]
  BY <1>1 DEF Planned
<1>3. QED BY <1>2 DEF Quiet, ReadOver, Seen, Unnoticed, Inexpressible

LEMMA NextQuietMeans ==
  ASSUME TypeOK, config' = config, NEW a \in Names, ~Inexpressible(a)
  PROVE  Quiet(a)' <=> Seen(a)' = config.attrs[a]
<1>1. a \notin Kind.suppressed
  BY KindFacts DEF Inexpressible
<1>2. Names' = Names /\ Kind' = Kind
  BY DEF Names, Kind
<1>3. Planned'[a] = config.attrs[a]
  BY <1>1, <1>2 DEF Planned
<1>4. QED BY <1>2, <1>3 DEF Quiet, ReadOver, Seen, Unnoticed

(* What an attribute that is not in doubt needs to be settled.             *)
LEMMA NextSettledAt ==
  ASSUME TypeOK, config' = config, NEW a \in Names,
         ~Inexpressible(a) /\ a \notin doubtful' =>
           /\ server'.attrs[a] = Configured[a] \/ Unnoticed(a)'
           /\ Seen(a)' = config.attrs[a]
  PROVE  SettledAt(a)'
<1>1. Inexpressible(a)' <=> Inexpressible(a)
  BY DEF Inexpressible, Configured, Stored, Names, Kind
<1>2. Configured' = Configured
  BY DEF Configured, Stored, Names, Kind
<1>3. QED BY <1>1, <1>2, NextQuietMeans DEF SettledAt

(* An Update, answered or not, of what is settled. *)
LEMMA UpdateKeepsSettled ==
  ASSUME IInv, config' = config, NEW a \in Names, SettledAt(a),
         server'.attrs[a] \in {Configured[a], server.attrs[a]},
         \/ state'.attrs[a] = Planned[a]
         \/ state'.attrs[a] = server'.attrs[a] /\ a \notin Kind.unread /\ ~Unnoticed(a)',
         a \in doubtful => a \in doubtful' \/ server'.attrs[a] = Configured[a]
  PROVE  SettledAt(a)'
<1>0. TypeOK /\ Kind' = Kind
  BY DEF IInv, Kind
<1> SUFFICES ASSUME ~Inexpressible(a), a \notin doubtful'
             PROVE  /\ server'.attrs[a] = Configured[a] \/ Unnoticed(a)'
                    /\ Seen(a)' = config.attrs[a]
  BY <1>0, NextSettledAt
<1>1. Planned[a] = config.attrs[a] /\ Configured[a] = config.attrs[a]
  BY <1>0, QuietMeans
<1>2. server'.attrs[a] = Configured[a] \/ Unnoticed(a)'
  BY <1>0 DEF SettledAt, Unnoticed
<1>3. Seen(a)' = config.attrs[a]
  BY <1>0, <1>1, <1>2 DEF Seen
<1>4. QED BY <1>2, <1>3

(* An Update whose provider dies.                                          *)
LEMMA DyingKeepsSettled ==
  ASSUME IInv, UpdateDies, NEW a \in Names, SettledAt(a)
  PROVE  SettledAt(a)'
<1>0. /\ TypeOK /\ Canonical /\ Kind' = Kind /\ config' = config /\ state' = state
      /\ doubtful' = doubtful \cup Unsure(Sent)
  BY DEF IInv, Kind, UpdateDies
<1> SUFFICES ASSUME ~Inexpressible(a), a \notin doubtful'
             PROVE  /\ server'.attrs[a] = Configured[a] \/ Unnoticed(a)'
                    /\ Seen(a)' = config.attrs[a]
  BY <1>0, NextSettledAt
<1>1. Planned[a] = config.attrs[a] /\ Configured[a] = config.attrs[a]
  BY <1>0, QuietMeans
<1>2. /\ server.attrs[a] = Configured[a] \/ Unnoticed(a)
      /\ Seen(a) = config.attrs[a]
  BY <1>0, QuietMeans DEF SettledAt
<1>3. server'.attrs[a] = IF a \in Sent THEN Configured[a] ELSE server.attrs[a]
  BY <1>0, UpdatedFacts DEF UpdateDies, TypeOK
<1>4. a \in Sent => a \notin Kind.unread /\ state.attrs[a] # config.attrs[a]
  BY <1>0, <1>1, SentFacts DEF Unsure, Changed
<1>5. QED BY <1>0, <1>1, <1>2, <1>3, <1>4 DEF Seen, Unnoticed

LEMMA AnsweredIsSettled ==
  ASSUME IInv, UpdateCall, NEW a \in Names, SettledAt(a)
  PROVE  SettledAt(a)'
<1>0. /\ TypeOK /\ Canonical /\ Kind' = Kind /\ config' = config
      /\ server'.attrs = Updated /\ state'.attrs = AfterUpdate
      /\ doubtful' = (doubtful \cup Unsure(Changed)) \ Sent
  BY PlannedFacts, AfterUpdateFacts, UpdatedFacts, TrackedFacts DEF IInv, Kind, UpdateCall, TypeOK
<1>1. Updated[a] = IF a \in Sent THEN Configured[a] ELSE server.attrs[a]
  BY <1>0, UpdatedFacts
<1>2. \/ AfterUpdate[a] = Planned[a]
      \/ AfterUpdate[a] = Updated[a] /\ a \notin Kind.unread /\ ~Unnoticed(a)'
  <2>1. ReadOver(Planned, Updated)[a] =
          IF a \in Kind.unread \/ (a \in Kind.sticky /\ Updated[a] = Unset) THEN Planned[a] ELSE Updated[a]
    BY DEF ReadOver
  <2>2. Unnoticed(a)' <=> a \in Kind.sticky /\ Updated[a] = Unset
    BY <1>0 DEF Unnoticed
  <2>3. AfterUpdate = Planned \/ AfterUpdate = ReadOver(Planned, Updated)
    BY DEF AfterUpdate
  <2>4. QED BY <2>1, <2>2, <2>3
<1>3. QED BY <1>0, <1>1, <1>2, UpdateKeepsSettled

(* Refresh shows what it would show again.                                 *)
LEMMA RefreshKeepsSettled ==
  ASSUME IInv, Plan, state.tracked, server.exists, NEW a \in Names, SettledAt(a)
  PROVE  SettledAt(a)'
<1>0. /\ TypeOK /\ Kind' = Kind /\ config' = config /\ server' = server /\ doubtful' = doubtful
      /\ state'.attrs = ReadOver(state.attrs, server.attrs)
  BY DEF IInv, Kind, Plan, TypeOK
<1> SUFFICES ASSUME ~Inexpressible(a), a \notin doubtful'
             PROVE  /\ server'.attrs[a] = Configured[a] \/ Unnoticed(a)'
                    /\ Seen(a)' = config.attrs[a]
  BY <1>0, NextSettledAt
<1>1. /\ server.attrs[a] = Configured[a] \/ Unnoticed(a)
      /\ Seen(a) = config.attrs[a]
  BY <1>0, QuietMeans DEF SettledAt
<1>2. state'.attrs[a] = Seen(a)
  BY <1>0 DEF ReadOver, Seen, Unnoticed
<1>3. QED BY <1>0, <1>1, <1>2 DEF Seen, Unnoticed

(* A replacement of what is settled is for an attribute that identifies    *)
(* the object but is not known, or not sent.                               *)
ReplacedInDoubt ==
  \E a \in Kind.replaces : (a \in doubtful \/ Inexpressible(a)) /\ state.attrs[a] # config.attrs[a]

LEMMA ReplacementOfSettled ==
  ASSUME IInv, Deletes, config.here, ~state.tainted, server.exists, \A a \in Names : SettledAt(a)
  PROVE  ReplacedInDoubt
<1>0. TypeOK
  BY DEF IInv
<1>1. PICK a \in Kind.replaces : a \in Names /\ Planned[a] # state.attrs[a]
  BY DEF Deletes, Replacing, Changed
<1>2. config.attrs[a] # state.attrs[a]
  BY <1>0, <1>1, PlannedFacts
<1> SUFFICES ASSUME a \notin doubtful, ~Inexpressible(a)
             PROVE  FALSE
  BY <1>1, <1>2 DEF ReplacedInDoubt
<1>3. a \notin disturbed /\ ~Unnoticed(a)
  BY <1>0, <1>1, KindFacts DEF IInv, UndisturbedIdentity, Unnoticed
<1>4. server.attrs[a] = state.attrs[a]
  BY <1>1, <1>3 DEF IInv, RefreshIsRight, Deletes
<1>5. server.attrs[a] = Configured[a] /\ Configured[a] = config.attrs[a]
  BY <1>0, <1>1, <1>3, QuietMeans DEF SettledAt
<1>6. QED BY <1>2, <1>4, <1>5

LEMMA SettledStep ==
  ASSUME IInv, [Next]_vars, Terraform, Settled
  PROVE  Settled' \/ ReplacedInDoubt
<1>0. TypeOK
  BY DEF IInv
<1>1. config' = config
  BY DEF Terraform, Plan, ApplyNothing, Create, Adopt, CreateFails, CreateReplyLost, UpdateCall,
         UpdateNoCall, UpdateFails, UpdateReplyLost, UpdateDies, Delete, DeleteFails,
         DeleteReplyLost, Crash
<1>2. CASE ~config.here /\ ~state.tracked
  <2>1. state'.tracked = state.tracked
    BY <1>2
    DEF Terraform, Plan, ApplyNothing, Create, Adopt, CreateFails, CreateReplyLost, Creates,
        UpdateCall, UpdateNoCall, UpdateFails, UpdateReplyLost, UpdateDies, Updates, Delete,
        DeleteFails, DeleteReplyLost, Deletes, Crash
  <2>2. QED BY <1>1, <1>2, <2>1 DEF Settled
<1>3. CASE /\ config.here /\ state.tracked /\ ~state.tainted /\ server.exists
           /\ \A a \in Names : SettledAt(a)
  <2>1. ASSUME state'.tracked, ~state'.tainted, server'.exists, \A a \in Names : SettledAt(a)'
        PROVE  Settled'
    <3>1. Names' = Names
      BY <1>1 DEF Names, Kind
    <3>2. QED BY <1>1, <1>3, <2>1, <3>1 DEF Settled, SettledAt
  <2>2. CASE Plan
    <3>1. state'.tracked /\ ~state'.tainted /\ server'.exists
      BY <1>0, <1>3, <2>2 DEF Plan, TypeOK
    <3>2. QED BY <1>3, <2>1, <2>2, <3>1, RefreshKeepsSettled
  <2>3. CASE ApplyNothing \/ Crash
    <3>1. UNCHANGED <<config, server, state, doubtful>>
      BY <2>3 DEF ApplyNothing, Crash
    <3>2. QED BY <3>1 DEF Settled, Uncreatable, Refused, Undeletable, Spared, Names, Kind,
                          Inexpressible, Configured, Stored, Unnoticed, Quiet, ReadOver, Planned
  <2>4. CASE UpdateCall
    <3>1. state'.tracked /\ ~state'.tainted /\ server'.exists
      BY <1>0, <2>4, AfterUpdateFacts, TrackedFacts DEF IInv, UpdateCall, TypeOK
    <3>2. QED BY <1>3, <2>1, <2>4, <3>1, AnsweredIsSettled
  <2>5. CASE UpdateNoCall \/ UpdateFails
    <3>1. /\ state'.tracked /\ ~state'.tainted /\ server' = server
          /\ state'.attrs = Planned /\ doubtful \subseteq doubtful'
      BY <1>0, <2>5, PlannedFacts, TrackedFacts DEF UpdateNoCall, UpdateFails
    <3>2. ASSUME NEW a \in Names
          PROVE  SettledAt(a)'
      <4>1. /\ server'.attrs[a] \in {Configured[a], server.attrs[a]}
            /\ state'.attrs[a] = Planned[a]
            /\ a \in doubtful => a \in doubtful'
        BY <3>1
      <4>2. QED BY <1>1, <1>3, <4>1, UpdateKeepsSettled
    <3>3. QED BY <1>3, <2>1, <3>1, <3>2
  <2>6. CASE UpdateReplyLost
    <3>1. /\ state'.tracked /\ ~state'.tainted /\ server'.exists
          /\ server'.attrs = Updated /\ state'.attrs = Planned /\ doubtful \ Sent \subseteq doubtful'
      BY <1>0, <2>6, PlannedFacts, TrackedFacts DEF UpdateReplyLost, TypeOK
    <3>2. \A a \in Names : Updated[a] = IF a \in Sent THEN Configured[a] ELSE server.attrs[a]
      BY DEF Updated
    <3>3. ASSUME NEW a \in Names
          PROVE  SettledAt(a)'
      <4>1. /\ server'.attrs[a] \in {Configured[a], server.attrs[a]}
            /\ state'.attrs[a] = Planned[a]
            /\ a \in doubtful => a \in doubtful' \/ server'.attrs[a] = Configured[a]
        BY <3>1, <3>2
      <4>2. QED BY <1>1, <1>3, <4>1, UpdateKeepsSettled
    <3>4. QED BY <2>1, <3>1, <3>3
  <2>7. CASE UpdateDies
    <3>1. state'.tracked /\ ~state'.tainted /\ server'.exists
      BY <1>0, <1>3, <2>7 DEF UpdateDies, TypeOK
    <3>2. QED BY <1>3, <2>1, <2>7, <3>1, DyingKeepsSettled
  <2>8. CASE Delete \/ DeleteFails \/ DeleteReplyLost
    BY <1>3, <2>8, ReplacementOfSettled DEF Delete, DeleteFails, DeleteReplyLost
  <2>9. CASE Create \/ Adopt \/ CreateFails \/ CreateReplyLost
    BY <1>3, <2>9 DEF Create, Adopt, CreateFails, CreateReplyLost, Creates
  <2>10. QED BY <2>2, <2>3, <2>4, <2>5, <2>6, <2>7, <2>8, <2>9 DEF Terraform
<1>4. CASE config.here /\ ~state.tracked /\ Uncreatable
  <2>1. Uncreatable' /\ ~state'.tracked
    BY <1>1, <1>4
    DEF Terraform, Plan, ApplyNothing, Create, Adopt, CreateFails, CreateReplyLost, Creates,
        UpdateCall, UpdateNoCall, UpdateFails, UpdateReplyLost, UpdateDies, Updates, Delete,
        DeleteFails, DeleteReplyLost, Deletes, Crash, Uncreatable, Refused, Kind
  <2>2. QED BY <1>1, <1>4, <2>1 DEF Settled
<1>5. CASE ~config.here /\ state.tracked /\ Undeletable
  <2>1. CASE Plan /\ server.exists
    <3>1. state.attrs \in Attributes /\ server.attrs \in Attributes
      BY <1>0 DEF TypeOK
    <3>2. state'.tracked /\ state'.attrs = ReadOver(state.attrs, server.attrs)
      BY <1>0, <1>5, <2>1, <3>1 DEF Plan, TypeOK
    <3>3. \A a \in Kind.adopts : state'.attrs[a] = state.attrs[a]
      BY <1>0, <3>1, <3>2, KindFacts, ReadOverFacts
    <3>4. QED BY <1>1, <1>5, <3>2, <3>3 DEF Settled, Undeletable, Spared, Kind
  <2>2. CASE (Plan /\ ~server.exists) \/ Delete
    BY <1>1, <1>5, <2>2, UntrackedFacts DEF Plan, Delete, Settled
  <2>3. CASE state' = state
    BY <1>1, <1>5, <2>3 DEF Settled, Undeletable, Spared, Kind
  <2>4. QED
    BY <1>5, <2>1, <2>2, <2>3
    DEF Terraform, ApplyNothing, Create, Adopt, CreateFails, CreateReplyLost, Creates,
        UpdateCall, UpdateNoCall, UpdateFails, UpdateReplyLost, UpdateDies, Updates,
        DeleteFails, DeleteReplyLost, Crash
<1>6. QED BY <1>2, <1>3, <1>4, <1>5 DEF Settled, SettledAt

(* What is settled stays settled, whatever Terraform does and however it   *)
(* fails, for every kind of resource: no handler undoes what another has   *)
(* done.  The one exception is a replacement for an attribute whose value  *)
(* nobody can know, such as a worker's auth token after an import.         *)
THEOREM SettledStays == Spec => [][Terraform /\ Settled => Settled' \/ ReplacedInDoubt]_vars
<1>1. IInv /\ [Next]_vars => [Terraform /\ Settled => Settled' \/ ReplacedInDoubt]_vars
  BY SettledStep
<1>2. QED BY <1>1, Inductive, PTL DEF Spec

-----------------------------------------------------------------------------
(* The refinement.                                                         *)

LEMMA WantedKept ==
  ASSUME config' = config
  PROVE  [here |-> config.here, object |-> Configured]'
           = [here |-> config.here, object |-> Configured]
BY DEF Configured, Names, Kind, Stored

LEMMA MakeStep ==
  ASSUME IInv, config' = config, Creates, server' = [exists |-> TRUE, attrs |-> Configured],
         state'.tracked \in BOOLEAN, outOfBand' = outOfBand
  PROVE  Managed!Make
<1>1. server'.exists /\ server'.attrs = Configured
  OBVIOUS
<1>2. Managed!IsNew(Configured)
  BY DEF Managed!IsNew
<1>3. QED BY <1>1, <1>2, WantedKept DEF Managed!Make, Creates

LEMMA PutStep ==
  ASSUME IInv, config' = config, Updates, server.exists, state'.tracked = state.tracked,
         server' = [server EXCEPT !.attrs = Updated], outOfBand' = outOfBand
  PROVE  Managed!Put
<1>0. TypeOK /\ Canonical
  BY DEF IInv
<1>1. server'.exists /\ server'.attrs = Updated /\ server.attrs \in Attributes
  BY <1>0 DEF TypeOK
<1>2. Managed!Towards(server.attrs, Updated)
  <2>1. DOMAIN Updated = Names /\ DOMAIN server.attrs = Names /\ DOMAIN Configured = Names
    BY <1>1 DEF Updated, Attributes, Configured
  <2>2. \A a \in Names : Updated[a] = server.attrs[a] \/ Updated[a] = Configured[a]
    BY <1>0, UpdatedFacts
  <2>3. QED BY <2>1, <2>2 DEF Managed!Towards
<1>3. QED BY <1>1, <1>2, WantedKept DEF Managed!Put, Updates

LEMMA DestroyStep ==
  ASSUME IInv, config' = config, state.tracked, server.exists,
         server' = [server EXCEPT !.exists = FALSE],
         state'.tracked \in BOOLEAN, outOfBand' = outOfBand
  PROVE  Managed!Destroy
<1>1. ~server'.exists /\ server'.attrs = server.attrs
  BY DEF IInv, TypeOK
<1>2. QED BY <1>1, WantedKept DEF Managed!Destroy

LEMMA ManagedStep ==
  ASSUME IInv, [Next]_vars
  PROVE  [Managed!Next]_(Managed!vars)
<1>0. TypeOK
  BY DEF IInv
<1>1. ASSUME UNCHANGED <<config, server, outOfBand>>, state'.tracked = state.tracked
      PROVE  UNCHANGED Managed!vars
  BY <1>1, WantedKept DEF Managed!vars
<1>2. ASSUME UNCHANGED <<config, server, outOfBand>>, state.tracked, ~state'.tracked
      PROVE  Managed!Lose
  BY <1>2, WantedKept DEF Managed!Lose
<1>3. ASSUME UNCHANGED <<config, server, outOfBand>>, config.here, server.exists, state'.tracked
      PROVE  Managed!Adopt
  BY <1>3, WantedKept DEF Managed!Adopt
<1>4. CASE Plan
  <2>1. UNCHANGED <<config, server, outOfBand>>
    BY <1>4 DEF Plan, bounds
  <2>2. CASE state.tracked /\ ~server.exists
    <3>1. ~state'.tracked
      BY <1>4, <2>2, UntrackedFacts DEF Plan
    <3>2. QED BY <1>2, <2>1, <2>2, <3>1 DEF Managed!Next
  <2>3. CASE ~(state.tracked /\ ~server.exists)
    <3>1. state'.tracked = state.tracked
      BY <1>0, <1>4, <2>3 DEF Plan, TypeOK
    <3>2. QED BY <1>1, <2>1, <3>1
  <2>4. QED BY <2>2, <2>3
<1>5. CASE ApplyNothing \/ Crash \/ DeleteFails
  BY <1>1, <1>5 DEF ApplyNothing, Crash, DeleteFails, Fault, bounds
<1>6. CASE UpdateNoCall \/ UpdateFails
  <2>1. UNCHANGED <<config, server, outOfBand>> /\ state.tracked = TRUE /\ state' = Tracked(Planned)
    BY <1>0, <1>6 DEF UpdateNoCall, UpdateFails, Updates, Fault, bounds, TypeOK
  <2>2. state'.tracked = TRUE
    BY <2>1 DEF Tracked
  <2>3. QED BY <1>1, <2>1, <2>2
<1>7. CASE Create \/ CreateReplyLost
  <2>1. /\ config' = config /\ Creates /\ outOfBand' = outOfBand
        /\ server' = [exists |-> TRUE, attrs |-> Configured]
    BY <1>7 DEF Create, CreateReplyLost, Fault, bounds
  <2>2. state'.tracked \in BOOLEAN
    <3>1. CASE Create
      BY <3>1 DEF Create, Tracked
    <3>2. CASE CreateReplyLost
      BY <1>0, <3>2 DEF CreateReplyLost, TypeOK
    <3>3. QED BY <1>7, <3>1, <3>2
  <2>3. QED BY <2>1, <2>2, MakeStep DEF Managed!Next
<1>8. CASE Adopt
  <2>1. UNCHANGED <<config, server, outOfBand>> /\ config.here
    BY <1>8 DEF Adopt, Creates, bounds
  <2>2. CASE server.exists
    BY <1>3, <1>8, <2>1, <2>2 DEF Adopt, Tracked, Managed!Next
  <2>3. CASE ~server.exists
    BY <1>1, <1>8, <2>1, <2>3 DEF Adopt
  <2>4. QED BY <2>2, <2>3
<1>9. CASE CreateFails
  <2>1. UNCHANGED <<config, server, outOfBand>> /\ config.here
    BY <1>9 DEF CreateFails, Creates, Fault, bounds
  <2>2. CASE Kind.adopts # {} /\ server.exists
    <3>1. state'.tracked
      BY <1>9, <2>2 DEF CreateFails
    <3>2. QED BY <1>3, <2>1, <2>2, <3>1 DEF Managed!Next
  <2>3. CASE ~(Kind.adopts # {} /\ server.exists)
    BY <1>1, <1>9, <2>1, <2>3 DEF CreateFails
  <2>4. QED BY <2>2, <2>3
<1>10. CASE UpdateCall \/ UpdateReplyLost \/ UpdateDies
  <2>1. /\ config' = config /\ Updates /\ server.exists /\ outOfBand' = outOfBand
        /\ server' = [server EXCEPT !.attrs = Updated]
    BY <1>10 DEF UpdateCall, UpdateReplyLost, UpdateDies, Fault, bounds
  <2>2. state'.tracked = state.tracked
    <3>1. state.tracked = TRUE
      BY <1>0, <2>1 DEF Updates, TypeOK
    <3>2. \/ state' = Tracked(AfterUpdate) \/ state' = Tracked(Planned)
          \/ state' = state
      BY <1>10 DEF UpdateCall, UpdateReplyLost, UpdateDies
    <3>3. CASE state' = Tracked(AfterUpdate) \/ state' = Tracked(Planned)
      <4>1. state'.tracked = TRUE
        BY <3>3 DEF Tracked
      <4>2. QED BY <3>1, <4>1
    <3>4. QED BY <3>2, <3>3
  <2>3. QED BY <2>1, <2>2, PutStep DEF Managed!Next
<1>11. CASE Delete
  <2>1. config' = config /\ outOfBand' = outOfBand /\ state.tracked /\ ~state'.tracked
    BY <1>11, UntrackedFacts DEF Delete, Deletes, bounds
  <2>2. CASE Spared
    BY <1>2, <1>11, <2>1, <2>2 DEF Delete, Managed!Next
  <2>3. CASE ~Spared
    <3>1. state'.tracked \in BOOLEAN
      BY <1>11, UntrackedFacts DEF Delete
    <3>2. QED BY <1>11, <2>1, <2>3, <3>1, DestroyStep DEF Delete, Managed!Next
  <2>4. QED BY <2>2, <2>3
<1>12. CASE DeleteReplyLost
  <2>1. config' = config /\ outOfBand' = outOfBand /\ state.tracked /\ state'.tracked \in BOOLEAN
    BY <1>0, <1>12 DEF DeleteReplyLost, Deletes, Fault, TypeOK
  <2>2. QED BY <1>12, <2>1, DestroyStep DEF DeleteReplyLost, Managed!Next
<1>13. CASE Import
  BY <1>3, <1>13 DEF Import, Tracked, bounds, Managed!Next
<1>14. CASE EditConfig
  BY <1>14 DEF EditConfig, Managed!Next, Managed!Edit, Managed!vars
<1>15. CASE ApiSet \/ ApiDelete
  BY <1>15, WantedKept DEF ApiSet, ApiDelete, ApiCall, Managed!Next, Managed!Others
<1>16. CASE UNCHANGED vars
  BY <1>1, <1>16 DEF vars, bounds
<1>17. QED
  BY <1>4, <1>5, <1>6, <1>7, <1>8, <1>9, <1>10, <1>11, <1>12, <1>13, <1>14, <1>15, <1>16
  DEF Next, Terraform, Environment

(* The resources with one call per handler keep the promises that          *)
(* ManagedObject makes of any object.                                      *)
THEOREM RefinesManagedObject == Spec => ImplementsManaged
<1>1. Init => Managed!Init
  BY DEF Init, Managed!Init
<1>2. IInv /\ [Next]_vars => [Managed!Next]_(Managed!vars)
  BY ManagedStep
<1>3. QED BY <1>1, <1>2, Inductive, PTL DEF Spec, ImplementsManaged, Managed!Spec

=============================================================================
