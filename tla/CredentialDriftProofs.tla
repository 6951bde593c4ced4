------------------------ MODULE CredentialDriftProofs ------------------------
(***************************************************************************)
(* Proofs about CredentialDrift, for every set of fields, secrets and      *)
(* attributes and all bounds on the environment.                           *)
(*                                                                         *)
(* What a plan shows is right (RefreshIsRight) because the refresh         *)
(* compares HMACs, which says something about the secret in the state only *)
(* if the HMAC beside it is of that secret.  IInv adds this for the fields *)
(* that are not spoiled, that a resource outside the state has no secret   *)
(* that could be taken for its own after an import, and that a credential  *)
(* can only go between the refresh and the handler if somebody deletes it. *)
(***************************************************************************)
EXTENDS CredentialDrift, TLAPS

PairedUnlessSpoiled == \A f \in Fields \ spoiled : Paired(f)

UntrackedIsBlank == ~state.tracked => state.secret = Nothing /\ state.hmac = NoHmacs

GoneIsDisturbed == pc = "planned" /\ state.tracked /\ ~server.exists => disturbed = Fields

IInv ==
  /\ TypeOK
  /\ PairedUnlessSpoiled
  /\ UntrackedIsBlank
  /\ RefreshIsRight
  /\ GoneIsDisturbed

-----------------------------------------------------------------------------
(* HMACs.                                                                  *)

(* HMACs tell any two secrets apart, and a secret from none. *)
LEMMA HmacInjective ==
  ASSUME NEW s \in Secrets \cup {Unset}
  PROVE  /\ HmacOf(s) \in Hmacs \cup {NoHmac}
         /\ HmacOf(s) = NoHmac <=> s = Unset
         /\ \A r \in Secrets \cup {Unset} : HmacOf(r) = HmacOf(s) => r = s
<1>1. HmacOf(Unset) = NoHmac
  BY DEF HmacOf
<1>2. \A r \in Secrets : HmacOf(r) \in Hmacs /\ HmacOf(r) # NoHmac
  BY HmacAssumption DEF Hmacs
<1>3. \A r \in Secrets : HmacOf(r).of = r
  BY SecretsAssumption DEF HmacOf
<1>4. QED BY <1>1, <1>2, <1>3

(* The values of the fields, as Boundary holds them. *)
LEMMA ValuesOf ==
  ASSUME NEW v \in Values, NEW f \in Fields
  PROVE  /\ v[f] \in Secrets \cup {Unset}
         /\ v[f] # Marker
         /\ f \notin Optional => v[f] \in Secrets
BY SecretsAssumption DEF Values

(* What Boundary answers is the HMAC of what it holds, unless that has     *)
(* expired.                                                                *)
LEMMA AnsweredHmacOf ==
  ASSUME NEW c \in Catalogs, NEW f \in Fields
  PROVE  /\ AnsweredHmac(c, f) \in Hmacs \cup {NoHmac}
         /\ Silent(c, f) <=> f \in c.expired
         /\ f \notin c.expired =>
              /\ AnsweredHmac(c, f) = HmacOf(c.secret[f])
              /\ \A s \in Secrets \cup {Unset} : AnsweredHmac(c, f) = HmacOf(s) => c.secret[f] = s
<1>1. c.secret \in Values /\ c.expired \subseteq Expiring
  BY DEF Catalogs
<1>2. c.secret[f] \in Secrets \cup {Unset}
  BY <1>1, ValuesOf
<1>3. f \in Expiring => c.secret[f] # Unset
  BY <1>1, ValuesOf, FieldsAssumption, SecretsAssumption
<1>4. QED BY <1>1, <1>2, <1>3, HmacInjective DEF AnsweredHmac, Silent

(* What is shown is a secret or none, never the marker. *)
LEMMA ShownIsHeld ==
  ASSUME NEW f \in Fields, Shown(f)
  PROVE  state.secret[f] \in Secrets \cup {Unset} /\ state.secret[f] # Marker
BY SecretsAssumption DEF Shown

(* What setFrom makes of the state, field by field. *)
LEMMA SetFromEffect ==
  ASSUME NEW st \in States, NEW c \in Catalogs, NEW fromRead \in BOOLEAN
  PROVE  /\ SetFrom(st, c, fromRead) \in States
         /\ SetFrom(st, c, fromRead).tracked
         /\ \A f \in Fields :
              /\ SetFrom(st, c, fromRead).secret[f] =
                   IF fromRead /\ Drifted(st, c, f) THEN Marker ELSE st.secret[f]
              /\ SetFrom(st, c, fromRead).hmac[f] =
                   IF Silent(c, f) THEN st.hmac[f] ELSE AnsweredHmac(c, f)
<1> DEFINE secrets == [f \in Fields |-> IF fromRead /\ Drifted(st, c, f) THEN Marker ELSE st.secret[f]]
           hmacs == [f \in Fields |-> IF Silent(c, f) THEN st.hmac[f] ELSE AnsweredHmac(c, f)]
<1>1. SetFrom(st, c, fromRead) =
        [st EXCEPT !.tracked = TRUE, !.attrs = c.attrs, !.secret = secrets, !.hmac = hmacs]
  BY DEF SetFrom
<1>2. secrets \in [Fields -> Secrets \cup {Unset, Marker}]
  BY DEF States
<1>3. \A f \in Fields : AnsweredHmac(c, f) \in Hmacs \cup {NoHmac}
  BY AnsweredHmacOf
<1>4. hmacs \in [Fields -> Hmacs \cup {NoHmac}]
  BY <1>3 DEF States
<1>5. c.attrs \in Attrs
  BY DEF Catalogs
<1> HIDE DEF secrets, hmacs
<1>6. /\ SetFrom(st, c, fromRead) \in States
      /\ SetFrom(st, c, fromRead).tracked
      /\ SetFrom(st, c, fromRead).secret = secrets
      /\ SetFrom(st, c, fromRead).hmac = hmacs
  BY <1>1, <1>2, <1>4, <1>5 DEF States
<1>7. QED BY <1>6 DEF secrets, hmacs

(* After Create and Update nothing is compared. *)
LEMMA ResponseEffect ==
  ASSUME NEW st \in States, NEW c \in Catalogs
  PROVE  /\ SetFrom(st, c, FALSE) \in States
         /\ SetFrom(st, c, FALSE).tracked
         /\ \A f \in Fields :
              /\ SetFrom(st, c, FALSE).secret[f] = st.secret[f]
              /\ SetFrom(st, c, FALSE).hmac[f] =
                   IF Silent(c, f) THEN st.hmac[f] ELSE AnsweredHmac(c, f)
<1>1. FALSE \in BOOLEAN
  OBVIOUS
<1>2. QED BY <1>1, SetFromEffect

LEMMA UntrackedEffect ==
  ASSUME NEW st \in States
  PROVE  /\ Untracked(st) \in States
         /\ ~Untracked(st).tracked
         /\ Untracked(st).secret = Nothing
         /\ Untracked(st).hmac = NoHmacs
<1>1. Nothing \in [Fields -> Secrets \cup {Unset, Marker}] /\ NoHmacs \in [Fields -> Hmacs \cup {NoHmac}]
  BY DEF Nothing, NoHmacs
<1>2. QED BY <1>1 DEF Untracked, States

LEMMA PlannedStateEffect ==
  ASSUME config \in Configs, state \in States
  PROVE  /\ PlannedState \in States
         /\ PlannedState.tracked = state.tracked
         /\ PlannedState.secret = config.secret
         /\ PlannedState.hmac = state.hmac
<1>1. config.secret \in [Fields -> Secrets \cup {Unset, Marker}]
  BY DEF Configs, Values
<1>2. QED BY <1>1 DEF PlannedState, States, Configs

LEMMA UpdatedServerEffect ==
  ASSUME config \in Configs, server \in Catalogs
  PROVE  /\ UpdatedServer \in Catalogs
         /\ UpdatedServer.exists = server.exists
         /\ UpdatedServer.expired = server.expired \ Sent
         /\ \A f \in Fields : UpdatedServer.secret[f] =
                                IF f \in Sent THEN config.secret[f] ELSE server.secret[f]
<1> DEFINE secrets == [f \in Fields |-> IF f \in Sent THEN config.secret[f] ELSE server.secret[f]]
<1>1. config.secret \in Values /\ server.secret \in Values
  BY DEF Configs, Catalogs
<1>2. secrets \in Values
  BY <1>1 DEF Values
<1>3. UpdatedServer =
        [server EXCEPT !.attrs = IF config.attrs # state.attrs THEN config.attrs ELSE server.attrs,
                       !.secret = secrets, !.expired = server.expired \ Sent]
  BY DEF UpdatedServer
<1> HIDE DEF secrets
<1>4. /\ UpdatedServer \in Catalogs
      /\ UpdatedServer.exists = server.exists
      /\ UpdatedServer.expired = server.expired \ Sent
      /\ UpdatedServer.secret = secrets
  BY <1>2, <1>3 DEF Catalogs, Configs
<1>5. QED BY <1>4 DEF secrets

-----------------------------------------------------------------------------
(* The inductive invariant.                                                *)

LEMMA InitEstablishes == Init => IInv
<1> SUFFICES ASSUME Init PROVE IInv
  OBVIOUS
<1>1. config \in Configs /\ server \in Catalogs
  BY DEF Init, Configs, Catalogs
<1>2. state \in States
  <2>1. Nothing \in [Fields -> Secrets \cup {Unset, Marker}] /\ NoHmacs \in [Fields -> Hmacs \cup {NoHmac}]
    BY DEF Nothing, NoHmacs
  <2>2. QED BY <1>1, <2>1 DEF Init, States, Configs
<1>3. TypeOK
  BY <1>1, <1>2, BoundsAssumption DEF Init, TypeOK
<1>4. PairedUnlessSpoiled
  <2>1. \A f \in Fields : state.secret[f] = Unset /\ state.hmac[f] = NoHmac
    BY DEF Init, Nothing, NoHmacs
  <2>2. QED BY <2>1 DEF PairedUnlessSpoiled, Paired, HmacOf
<1>5. UntrackedIsBlank /\ RefreshIsRight /\ GoneIsDisturbed
  BY DEF Init, UntrackedIsBlank, RefreshIsRight, GoneIsDisturbed
<1>6. QED BY <1>3, <1>4, <1>5 DEF IInv

(* The bounds on the environment. *)
LEMMA CountersStep ==
  ASSUME TypeOK, [Next]_vars
  PROVE  edits' \in 0..MaxEdits /\ outOfBand' \in 0..MaxOutOfBand /\ faults' \in 0..MaxFaults
<1>1. /\ edits' = edits \/ (edits < MaxEdits /\ edits' = edits + 1)
      /\ outOfBand' = outOfBand \/ (outOfBand < MaxOutOfBand /\ outOfBand' = outOfBand + 1)
      /\ faults' = faults \/ (faults < MaxFaults /\ faults' = faults + 1)
  BY DEF Next, Terraform, Environment, Plan, ApplyNothing, Create, CreateFails, UpdateCall,
         UpdateNoCall, UpdateFails, UpdateReplyLost, Crash, Delete, DeleteFails, Import, EditConfig,
         ApiCall, ApiSetSecret, TokenExpires, ApiSetAttrs, ApiDelete, ApiCreate, vars, bounds
<1>2. edits \in Nat /\ outOfBand \in Nat /\ faults \in Nat
  BY BoundsAssumption DEF TypeOK
<1>3. QED BY <1>1, <1>2, BoundsAssumption DEF TypeOK

(* Nothing the refresh has shown is disturbed by a step that leaves the    *)
(* resource alone in the state and in Boundary.                            *)
LEMMA IdleStep ==
  ASSUME IInv, config' = config, server' = server, state' = state, spoiled' = spoiled,
         pc' = "idle", disturbed' = {}, diags' \in SUBSET {"error", "crash"}, [Next]_vars
  PROVE  IInv'
<1>1. TypeOK'
  BY CountersStep DEF IInv, TypeOK
<1>2. QED
  BY <1>1
  DEF IInv, PairedUnlessSpoiled, Paired, Shown, UntrackedIsBlank, RefreshIsRight, GoneIsDisturbed

(* A resource that leaves the state. *)
LEMMA UntrackStep ==
  ASSUME IInv, config' = config, server' \in Catalogs, state' = Untracked(state), spoiled' = {},
         pc' \in {"idle", "planned"}, disturbed' = {}, diags' = {}, [Next]_vars
  PROVE  IInv'
<1>1. state' \in States /\ ~state'.tracked /\ state'.secret = Nothing /\ state'.hmac = NoHmacs
  BY UntrackedEffect DEF IInv, TypeOK
<1>2. TypeOK'
  BY <1>1, CountersStep DEF IInv, TypeOK
<1>3. PairedUnlessSpoiled'
  <2>1. \A f \in Fields : state'.secret[f] = Unset /\ state'.hmac[f] = NoHmac
    BY <1>1 DEF Nothing, NoHmacs
  <2>2. QED BY <2>1 DEF PairedUnlessSpoiled, Paired, HmacOf
<1>4. QED BY <1>1, <1>2, <1>3 DEF IInv, UntrackedIsBlank, RefreshIsRight, GoneIsDisturbed

(* An Update that returns an error: every field it may have wanted to      *)
(* change is spoiled.                                                      *)
LEMMA ErrorStep ==
  ASSUME IInv, config' = config, server' \in Catalogs, state' = PlannedState, state.tracked,
         spoiled' = spoiled \cup Changed, pc' = "idle", disturbed' = {}, diags' = {"error"},
         [Next]_vars
  PROVE  IInv'
<1>1. /\ state' \in States /\ state'.tracked = state.tracked
      /\ state'.secret = config.secret /\ state'.hmac = state.hmac
  BY PlannedStateEffect DEF IInv, TypeOK
<1>2. TypeOK'
  BY <1>1, CountersStep DEF IInv, TypeOK, Changed
<1>3. PairedUnlessSpoiled'
  BY <1>1 DEF IInv, PairedUnlessSpoiled, Paired, Shown, Changed
<1>4. QED BY <1>1, <1>2, <1>3 DEF IInv, UntrackedIsBlank, RefreshIsRight, GoneIsDisturbed

(* Steps of others change only fields they disturb, or make a credential   *)
(* that is not in the state.                                               *)
LEMMA ApiStep ==
  ASSUME IInv, config' = config, server' \in Catalogs, state' = state, spoiled' = spoiled,
         pc' = pc, diags' = diags, disturbed' \in SUBSET Fields, disturbed \subseteq disturbed',
         server'.exists => server.exists \/ ~state.tracked,
         server.exists => server'.exists \/ disturbed' = Fields,
         state.tracked => \A f \in Fields \ (disturbed' \cup server'.expired) :
           server'.secret[f] = server.secret[f] /\ f \notin server.expired,
         [Next]_vars
  PROVE  IInv'
<1>1. TypeOK'
  BY CountersStep DEF IInv, TypeOK
<1>2. RefreshIsRight'
  BY DEF IInv, RefreshIsRight, Shown
<1>3. GoneIsDisturbed'
  BY DEF IInv, GoneIsDisturbed
<1>4. QED BY <1>1, <1>2, <1>3 DEF IInv, PairedUnlessSpoiled, Paired, Shown, UntrackedIsBlank

LEMMA PlanPreserves ==
  ASSUME IInv, Plan
  PROVE  IInv'
<1>0. [Next]_vars /\ TypeOK
  BY DEF Next, Terraform, IInv
<1>1. CASE ~state.tracked /\ UNCHANGED <<state, spoiled>>
  <2>1. TypeOK'
    BY <1>0, <1>1, CountersStep DEF Plan, TypeOK
  <2>2. QED
    BY <1>1, <2>1
    DEF Plan, IInv, PairedUnlessSpoiled, Paired, Shown, UntrackedIsBlank, RefreshIsRight,
        GoneIsDisturbed
<1>2. CASE /\ state.tracked /\ server.exists
           /\ state' = SetFrom(state, server, TRUE)
           /\ spoiled' = {f \in spoiled : ~Drifted(state, server, f)}
  <2>1. /\ state' \in States /\ state'.tracked
        /\ \A f \in Fields :
             /\ state'.secret[f] = IF Drifted(state, server, f) THEN Marker ELSE state.secret[f]
             /\ state'.hmac[f] = IF Silent(server, f) THEN state.hmac[f] ELSE AnsweredHmac(server, f)
    BY <1>0, <1>2, SetFromEffect DEF TypeOK
  <2>2. TypeOK'
    BY <1>0, <1>2, <2>1, CountersStep DEF Plan, TypeOK
  <2>3. \A f \in Fields : Shown(f)' =>
           /\ ~Drifted(state, server, f) /\ Shown(f)
           /\ state'.secret[f] = state.secret[f]
           /\ state'.hmac[f] = state.hmac[f]
    BY <2>1, SecretsAssumption DEF Drifted, Shown
  <2>4. PairedUnlessSpoiled'
    BY <1>2, <2>3 DEF IInv, PairedUnlessSpoiled, Paired
  <2>5. RefreshIsRight'
    <3> SUFFICES ASSUME NEW f \in Fields, f \notin spoiled', f \notin server.expired, Shown(f)'
                 PROVE  server.secret[f] = state'.secret[f]
      BY DEF Plan, RefreshIsRight
    <3>1. /\ ~Drifted(state, server, f) /\ f \notin spoiled /\ Shown(f)
          /\ state'.secret[f] = state.secret[f] /\ state.hmac[f] = HmacOf(state.secret[f])
      BY <1>2, <2>3 DEF IInv, PairedUnlessSpoiled, Paired
    <3>2. ~Silent(server, f) /\ AnsweredHmac(server, f) = HmacOf(state.secret[f])
      BY <1>0, <3>1, AnsweredHmacOf DEF Drifted, TypeOK
    <3>3. QED BY <1>0, <3>1, <3>2, AnsweredHmacOf, ShownIsHeld DEF TypeOK
  <2>6. QED BY <1>2, <2>1, <2>2, <2>4, <2>5 DEF Plan, IInv, UntrackedIsBlank, GoneIsDisturbed
<1>3. CASE state.tracked /\ ~server.exists /\ state' = Untracked(state) /\ spoiled' = {}
  BY <1>0, <1>3, UntrackStep DEF Plan, TypeOK
<1>4. QED BY <1>1, <1>2, <1>3 DEF Plan

LEMMA CreatePreserves ==
  ASSUME IInv, Create
  PROVE  IInv'
<1>0. [Next]_vars /\ TypeOK
  BY DEF Next, Terraform, IInv
<1>1. server' \in Catalogs /\ server'.secret = config.secret /\ server'.expired = {}
  BY <1>0 DEF Create, TypeOK, Catalogs, Configs
<1>2. /\ PlannedState \in States /\ PlannedState.secret = config.secret
  BY <1>0, PlannedStateEffect DEF TypeOK
<1>3. /\ state' \in States /\ state'.tracked
      /\ \A f \in Fields :
           /\ state'.secret[f] = config.secret[f]
           /\ state'.hmac[f] = IF Silent(server', f) THEN PlannedState.hmac[f]
                                                     ELSE AnsweredHmac(server', f)
  <2> DEFINE answered == SetFrom(PlannedState, server', FALSE)
  <2>1. /\ answered \in States /\ answered.tracked
        /\ \A f \in Fields :
             /\ answered.secret[f] = PlannedState.secret[f]
             /\ answered.hmac[f] = IF Silent(server', f) THEN PlannedState.hmac[f]
                                                        ELSE AnsweredHmac(server', f)
    BY <1>1, <1>2, ResponseEffect
  <2>2. state' = answered
    BY DEF Create
  <2> HIDE DEF answered
  <2>3. QED BY <1>2, <2>1, <2>2
<1>4. TypeOK'
  BY <1>0, <1>1, <1>3, CountersStep DEF Create, Return, TypeOK
<1>5. PairedUnlessSpoiled'
  BY <1>1, <1>3, AnsweredHmacOf DEF PairedUnlessSpoiled, Paired
<1>6. QED
  BY <1>3, <1>4, <1>5 DEF Create, Return, IInv, UntrackedIsBlank, RefreshIsRight, GoneIsDisturbed

LEMMA UpdateCallPreserves ==
  ASSUME IInv, UpdateCall
  PROVE  IInv'
<1>0. [Next]_vars /\ TypeOK
  BY DEF Next, Terraform, IInv
<1>1. /\ server' \in Catalogs
      /\ server'.expired = server.expired \ Sent
      /\ \A f \in Fields : server'.secret[f] = IF f \in Sent THEN config.secret[f] ELSE server.secret[f]
  BY <1>0, UpdatedServerEffect DEF UpdateCall, TypeOK
<1>2. PlannedState \in States /\ PlannedState.secret = config.secret /\ PlannedState.hmac = state.hmac
  BY <1>0, PlannedStateEffect DEF TypeOK
<1>3. state' = SetFrom(PlannedState, server', FALSE)
  BY DEF UpdateCall
<1>4. /\ state' \in States /\ state'.tracked
      /\ \A f \in Fields :
           /\ state'.secret[f] = config.secret[f]
           /\ state'.hmac[f] = IF Silent(server', f) THEN state.hmac[f] ELSE AnsweredHmac(server', f)
  <2> DEFINE answered == SetFrom(PlannedState, server', FALSE)
  <2>1. /\ answered \in States /\ answered.tracked
        /\ \A f \in Fields :
             /\ answered.secret[f] = PlannedState.secret[f]
             /\ answered.hmac[f] = IF Silent(server', f) THEN PlannedState.hmac[f]
                                                        ELSE AnsweredHmac(server', f)
    BY <1>1, <1>2, ResponseEffect
  <2> HIDE DEF answered
  <2>2. QED BY <1>2, <1>3, <2>1 DEF answered
<1>5. spoiled' = (spoiled \cup disturbed) \ Sent
  BY DEF UpdateCall
<1>6. TypeOK'
  BY <1>0, <1>1, <1>4, <1>5, CountersStep DEF UpdateCall, Return, TypeOK
<1>7. PairedUnlessSpoiled'
  <2> SUFFICES ASSUME NEW f \in Fields, f \notin spoiled', Shown(f)'
               PROVE  state'.hmac[f] = HmacOf(state'.secret[f])
    BY DEF PairedUnlessSpoiled, Paired
  <2>1. CASE f \in Sent
    BY <1>1, <1>4, <2>1, AnsweredHmacOf
  <2>2. CASE f \notin Sent
    <3>1. f \notin spoiled /\ f \notin disturbed
      BY <1>5, <2>2
    <3>2. state.secret[f] = config.secret[f] /\ Shown(f)
      BY <1>4, <2>2, SecretsAssumption DEF Sent, Changed, Shown
    <3>3. state.hmac[f] = HmacOf(state.secret[f])
      BY <3>1, <3>2 DEF IInv, PairedUnlessSpoiled, Paired
    <3>4. f \notin server.expired => server'.secret[f] = state.secret[f]
      BY <1>1, <1>4, <2>2, <3>1, <3>2 DEF IInv, RefreshIsRight, UpdateCall, Updates
    <3>5. CASE f \in server.expired
      BY <1>1, <1>4, <2>2, <3>2, <3>3, <3>5, AnsweredHmacOf
    <3>6. CASE f \notin server.expired
      BY <1>1, <1>4, <2>2, <3>2, <3>4, <3>6, AnsweredHmacOf
    <3>7. QED BY <3>5, <3>6
  <2>3. QED BY <2>1, <2>2
<1>8. QED
  BY <1>4, <1>6, <1>7
  DEF UpdateCall, Return, IInv, UntrackedIsBlank, RefreshIsRight, GoneIsDisturbed

(* A field that keeps its secret keeps its HMAC; a passphrase that was     *)
(* removed is not shown.                                                   *)
LEMMA UpdateNoCallPreserves ==
  ASSUME IInv, UpdateNoCall
  PROVE  IInv'
<1>0. [Next]_vars /\ TypeOK
  BY DEF Next, Terraform, IInv
<1>1. /\ state' \in States /\ state'.tracked = state.tracked
      /\ state'.secret = config.secret /\ state'.hmac = state.hmac
  BY <1>0, PlannedStateEffect DEF UpdateNoCall, TypeOK
<1>2. TypeOK'
  BY <1>0, <1>1, CountersStep DEF UpdateNoCall, Return, TypeOK
<1>3. PairedUnlessSpoiled'
  <2>1. \A f \in Fields : Shown(f)' => state.secret[f] = config.secret[f] /\ Shown(f)
    BY <1>1, SecretsAssumption DEF UpdateNoCall, NeedsCall, Sent, Changed, Shown
  <2>2. QED BY <1>1, <2>1 DEF UpdateNoCall, IInv, PairedUnlessSpoiled, Paired
<1>4. QED
  BY <1>1, <1>2, <1>3
  DEF UpdateNoCall, Updates, Return, IInv, UntrackedIsBlank, RefreshIsRight, GoneIsDisturbed

(* An imported secret is a marker, or there is none in Boundary or it is   *)
(* not known to have expired.                                              *)
LEMMA ImportPreserves ==
  ASSUME IInv, Import
  PROVE  IInv'
<1>0. [Next]_vars /\ TypeOK
  BY DEF Next, Environment, IInv
<1>1. /\ state' \in States /\ state'.tracked
      /\ \A f \in Fields :
           /\ state'.secret[f] = IF Drifted(state, server, f) THEN Marker ELSE state.secret[f]
           /\ state'.hmac[f] = IF Silent(server, f) THEN state.hmac[f] ELSE AnsweredHmac(server, f)
  BY <1>0, SetFromEffect DEF Import, TypeOK
<1>2. TypeOK'
  BY <1>0, <1>1, CountersStep DEF Import, history, TypeOK
<1>3. \A f \in Fields : state.secret[f] = Unset /\ state.hmac[f] = NoHmac
  BY DEF Import, IInv, UntrackedIsBlank, Nothing, NoHmacs
<1>4. PairedUnlessSpoiled'
  BY <1>1, <1>3, SecretsAssumption DEF PairedUnlessSpoiled, Paired, Shown, Drifted, HmacOf
<1>5. QED
  BY <1>1, <1>2, <1>4 DEF Import, IInv, UntrackedIsBlank, RefreshIsRight, GoneIsDisturbed

LEMMA ApiPreserves ==
  ASSUME IInv, ApiSetSecret \/ TokenExpires \/ ApiSetAttrs \/ ApiDelete \/ ApiCreate
  PROVE  IInv'
<1>0. [Next]_vars /\ TypeOK
  BY DEF Next, Environment, IInv
<1>1. ApiCall => /\ config' = config /\ state' = state /\ spoiled' = spoiled
                 /\ pc' = pc /\ diags' = diags
  BY DEF ApiCall
<1>2. CASE ApiSetSecret
  <2> PICK f \in Fields, s \in Secrets \cup {Unset} :
        /\ s = Unset => f \in Optional
        /\ server' = [server EXCEPT !.secret[f] = s, !.expired = server.expired \ {f}]
        /\ disturbed' = disturbed \cup {f}
    BY <1>2 DEF ApiSetSecret
  <2> DEFINE secrets == [server.secret EXCEPT ![f] = s]
  <2>1. secrets \in Values
    <3>1. server.secret \in Values
      BY <1>0 DEF TypeOK, Catalogs
    <3>2. QED BY <3>1, SecretsAssumption DEF Values
  <2>2. server' = [server EXCEPT !.secret = secrets, !.expired = server.expired \ {f}]
    OBVIOUS
  <2>3. \A g \in Fields \ {f} : secrets[g] = server.secret[g]
    BY <1>0 DEF TypeOK, Catalogs, Values
  <2> HIDE DEF secrets
  <2>4. /\ server' \in Catalogs /\ server'.secret = secrets
        /\ server'.expired = server.expired \ {f} /\ server'.exists = server.exists
    BY <1>0, <2>1, <2>2 DEF TypeOK, Catalogs
  <2>5. disturbed' \in SUBSET Fields
    BY <1>0 DEF TypeOK
  <2>6. QED BY <1>0, <1>1, <1>2, <2>3, <2>4, <2>5, ApiStep DEF ApiSetSecret
<1>3. CASE TokenExpires
  <2>1. /\ server' \in Catalogs /\ server'.exists = server.exists
        /\ server'.secret = server.secret /\ server.expired \subseteq server'.expired
    BY <1>0, <1>3 DEF TokenExpires, TypeOK, Catalogs
  <2>2. QED BY <1>0, <1>1, <1>3, <2>1, ApiStep DEF TokenExpires, TypeOK
<1>4. CASE ApiSetAttrs
  <2>1. /\ server' \in Catalogs /\ server'.exists = server.exists
        /\ server'.secret = server.secret /\ server.expired = server'.expired
    BY <1>0, <1>4 DEF ApiSetAttrs, TypeOK, Catalogs
  <2>2. QED BY <1>0, <1>1, <1>4, <2>1, ApiStep DEF ApiSetAttrs, TypeOK
<1>5. CASE ApiDelete
  <2>1. server' \in Catalogs /\ ~server'.exists
    BY <1>0, <1>5 DEF ApiDelete, TypeOK, Catalogs
  <2>2. QED BY <1>0, <1>1, <1>5, <2>1, ApiStep DEF ApiDelete, TypeOK
<1>6. CASE ApiCreate
  <2>1. server' \in Catalogs
    BY <1>0, <1>6 DEF ApiCreate, TypeOK, Catalogs
  <2>2. QED BY <1>0, <1>1, <1>6, <2>1, ApiStep DEF ApiCreate, TypeOK
<1>7. QED BY <1>2, <1>3, <1>4, <1>5, <1>6

LEMMA NextPreserves == IInv /\ [Next]_vars => IInv'
<1> SUFFICES ASSUME IInv, [Next]_vars PROVE IInv'
  OBVIOUS
<1>0. TypeOK
  BY DEF IInv
<1>1. CASE Plan
  BY <1>1, PlanPreserves
<1>2. CASE ApplyNothing \/ CreateFails \/ Crash \/ DeleteFails
  BY <1>2, IdleStep DEF ApplyNothing, CreateFails, Crash, DeleteFails, Return
<1>3. CASE Create
  BY <1>3, CreatePreserves
<1>4. CASE UpdateCall
  BY <1>4, UpdateCallPreserves
<1>5. CASE UpdateNoCall
  BY <1>5, UpdateNoCallPreserves
<1>6. CASE UpdateFails
  BY <1>0, <1>6, ErrorStep DEF UpdateFails, Updates, Return, TypeOK
<1>7. CASE UpdateReplyLost
  <2>1. server' \in Catalogs
    BY <1>0, <1>7, UpdatedServerEffect DEF UpdateReplyLost, TypeOK
  <2>2. CASE state' = PlannedState /\ spoiled' = spoiled \cup Changed /\ Return({"error"})
    BY <1>7, <2>1, <2>2, ErrorStep DEF UpdateReplyLost, Updates, Return
  <2>3. CASE UNCHANGED <<state, spoiled>> /\ Return({"crash"})
    <3>1. TypeOK'
      BY <1>0, <1>7, <2>1, <2>3, CountersStep DEF UpdateReplyLost, Return, TypeOK
    <3>2. QED
      BY <1>7, <2>3, <3>1
      DEF Return, IInv, PairedUnlessSpoiled, Paired, Shown, UntrackedIsBlank, RefreshIsRight,
          GoneIsDisturbed
  <2>4. QED BY <1>7, <2>2, <2>3 DEF UpdateReplyLost
<1>8. CASE Delete
  <2>1. server' \in Catalogs
    BY <1>0, <1>8 DEF Delete, TypeOK, Catalogs
  <2>2. QED BY <1>8, <2>1, UntrackStep DEF Delete, Return
<1>9. CASE Import
  BY <1>9, ImportPreserves
<1>10. CASE EditConfig
  <2>1. TypeOK'
    BY <1>0, <1>10, CountersStep DEF EditConfig, history, TypeOK
  <2>2. QED
    BY <1>10, <2>1
    DEF EditConfig, history, IInv, PairedUnlessSpoiled, Paired, Shown, UntrackedIsBlank,
        RefreshIsRight, GoneIsDisturbed
<1>11. CASE ApiSetSecret \/ TokenExpires \/ ApiSetAttrs \/ ApiDelete \/ ApiCreate
  BY <1>11, ApiPreserves
<1>12. CASE UNCHANGED vars
  BY <1>12
  DEF vars, history, bounds, IInv, TypeOK, PairedUnlessSpoiled, Paired, Shown, UntrackedIsBlank,
      RefreshIsRight, GoneIsDisturbed
<1>13. QED
  BY <1>1, <1>2, <1>3, <1>4, <1>5, <1>6, <1>7, <1>8, <1>9, <1>10, <1>11, <1>12
  DEF Next, Terraform, Environment

LEMMA Inductive == Spec => []IInv
BY InitEstablishes, NextPreserves, PTL DEF Spec

-----------------------------------------------------------------------------
(* The properties.                                                         *)

(* The variables keep their types, whatever happens and is answered.       *)
THEOREM TypeCorrect == Spec => []TypeOK
<1>1. IInv => TypeOK
  BY DEF IInv
<1>2. QED BY <1>1, Inductive, PTL

(* A refresh that leaves a secret in the state is right about it: Boundary *)
(* holds that secret.  For any number of fields, edits, failures and       *)
(* changes by others, exactly the fields in spoiled are excepted.          *)
THEOREM RefreshIsTruthful == Spec => []RefreshIsRight
<1>1. IInv => RefreshIsRight
  BY DEF IInv
<1>2. QED BY <1>1, Inductive, PTL

(* A step that takes the marker out of the state has sent the secret. *)
LEMMA MarkerStep ==
  ASSUME IInv, [Next]_vars, NEW f \in Fields,
         state.secret[f] = Marker, state'.secret[f] # Marker, state'.tracked, diags' = {}
  PROVE  server'.secret[f] = config.secret[f] \/ Unremovable(f)
<1>0. TypeOK
  BY DEF IInv
<1>1. config.secret \in Values /\ config.secret[f] # Marker
  BY <1>0, ValuesOf DEF TypeOK, Configs
<1>2. f \in Changed
  BY <1>1 DEF Changed
<1>3. f \notin Sent => Unremovable(f)
  BY <1>1, <1>2, ValuesOf, SecretsAssumption DEF Sent, Unremovable
<1>4. state.tracked
  BY SecretsAssumption DEF IInv, UntrackedIsBlank, Nothing
<1>5. CASE Plan
  <2>1. state' # state
    OBVIOUS
  <2>2. state' = SetFrom(state, server, TRUE)
    BY <1>0, <1>4, <1>5, UntrackedEffect DEF Plan, TypeOK
  <2>3. state'.secret[f] = IF Drifted(state, server, f) THEN Marker ELSE state.secret[f]
    BY <1>0, <2>2, SetFromEffect DEF TypeOK
  <2>4. QED BY <2>3
<1>6. CASE UpdateCall
  <2>1. server'.secret[f] = IF f \in Sent THEN config.secret[f] ELSE server.secret[f]
    BY <1>0, <1>6, UpdatedServerEffect DEF UpdateCall, TypeOK
  <2>2. QED BY <1>3, <2>1
<1>7. CASE UpdateNoCall
  BY <1>3, <1>7 DEF UpdateNoCall, NeedsCall
<1>8. CASE UpdateFails \/ UpdateReplyLost
  BY <1>8 DEF UpdateFails, UpdateReplyLost, Return
<1>9. CASE Delete
  BY <1>0, <1>9, UntrackedEffect DEF Delete, TypeOK
<1>10. CASE Create \/ Import
  BY <1>4, <1>10 DEF Create, Import
<1>11. CASE state' = state
  BY <1>11
<1>12. QED
  BY <1>5, <1>6, <1>7, <1>8, <1>9, <1>10, <1>11
  DEF Next, Terraform, Environment, ApplyNothing, CreateFails, Crash, DeleteFails, EditConfig,
      ApiCall, ApiSetSecret, TokenExpires, ApiSetAttrs, ApiDelete, ApiCreate, vars

(* Drift that was noticed is undone before it is forgotten: crashes and    *)
(* empty applies do not take the marker out of the state, an Update        *)
(* without an error does so only with the configured secret in Boundary.   *)
THEOREM NoticedDriftIsUndone == Spec => DriftIsUndone
<1> DEFINE Undone == \A f \in Fields :
      /\ state.secret[f] = Marker /\ state'.secret[f] # Marker
      /\ state'.tracked /\ diags' = {}
      => server'.secret[f] = config.secret[f] \/ Unremovable(f)
<1>1. IInv /\ [Next]_vars => Undone
  BY MarkerStep
<1>2. IInv /\ [Next]_vars => [Undone]_vars
  BY <1>1
<1>3. QED BY <1>2, Inductive, PTL DEF Spec, DriftIsUndone

(* What is not sent is in Boundary already, or cannot be removed there. *)
LEMMA UnsentIsHeld ==
  ASSUME IInv, pc = "planned", state.tracked, server.exists,
         NEW f \in Fields, f \notin Sent,
         f \notin spoiled, f \notin disturbed, f \notin server.expired
  PROVE  server.secret[f] = config.secret[f] \/ Unremovable(f)
<1>1. config.secret \in Values
  BY DEF IInv, TypeOK, Configs
<1>2. config.secret[f] \in Secrets \cup {Unset} /\ (f \notin Optional => config.secret[f] \in Secrets)
  BY <1>1, ValuesOf
<1>3. CASE config.secret[f] = Unset /\ f \notin Clearable
  BY <1>2, <1>3, SecretsAssumption DEF Unremovable
<1>4. CASE config.secret[f] # Unset \/ f \in Clearable
  <2>1. state.secret[f] = config.secret[f]
    BY <1>4 DEF Sent, Changed
  <2>2. Shown(f)
    BY <1>2, <1>4, <2>1 DEF Shown
  <2>3. QED BY <2>1, <2>2 DEF IInv, RefreshIsRight
<1>5. QED BY <1>3, <1>4

(* A handler that returns no diagnostic. *)
LEMMA SuccessStep ==
  ASSUME IInv, [Next]_vars, pc = "planned", pc' = "idle", diags' = {}, config.here,
         NEW f \in Fields, f \notin spoiled, f \notin disturbed, f \notin server'.expired
  PROVE  server'.exists /\ (server'.secret[f] = config.secret[f] \/ Unremovable(f))
<1>0. TypeOK
  BY DEF IInv
<1>1. state.tracked => server.exists
  BY DEF IInv, GoneIsDisturbed
<1>2. CASE ApplyNothing
  <2>1. state.tracked /\ server' = server /\ f \notin Sent
    BY <1>2 DEF ApplyNothing, Sent
  <2>2. QED BY <1>1, <2>1, UnsentIsHeld
<1>3. CASE Create
  BY <1>3 DEF Create
<1>4. CASE UpdateCall
  <2>1. /\ state.tracked /\ server'.exists /\ server'.expired = server.expired \ Sent
        /\ server'.secret[f] = IF f \in Sent THEN config.secret[f] ELSE server.secret[f]
    BY <1>0, <1>4, UpdatedServerEffect DEF UpdateCall, Updates, TypeOK
  <2>2. QED BY <1>1, <2>1, UnsentIsHeld
<1>5. CASE UpdateNoCall
  <2>1. state.tracked /\ server' = server /\ f \notin Sent
    BY <1>5 DEF UpdateNoCall, Updates, NeedsCall
  <2>2. QED BY <1>1, <2>1, UnsentIsHeld
<1>6. QED
  BY <1>2, <1>3, <1>4, <1>5
  DEF Next, Terraform, Environment, Plan, CreateFails, UpdateFails, UpdateReplyLost, Crash, Delete,
      DeleteFails, Return, Import, EditConfig, ApiCall, ApiSetSecret, TokenExpires, ApiSetAttrs,
      ApiDelete, ApiCreate, vars

(* An apply without a diagnostic leaves in Boundary what is configured, in *)
(* every field that is not spoiled and that nobody changed meanwhile.      *)
THEOREM OneApplyIsEnough == Spec => SuccessIsComplete
<1> DEFINE Complete ==
      pc = "planned" /\ pc' = "idle" /\ diags' = {} /\ config.here =>
        \A f \in Fields \ (spoiled \cup disturbed \cup server'.expired) :
          server'.exists /\ (server'.secret[f] = config.secret[f] \/ Unremovable(f))
<1>1. IInv /\ [Next]_vars => [Complete]_vars
  BY SuccessStep
<1>2. QED BY <1>1, Inductive, PTL DEF Spec, SuccessIsComplete

(* An Update that reaches Boundary takes nothing away that is settled.     *)
LEMMA UpdatedIsSettled ==
  ASSUME TypeOK, [Next]_vars, Settled, config.here, config' = config,
         server' = UpdatedServer, state'.tracked
  PROVE  Settled'
<1>1. /\ server'.exists /\ server'.expired = server.expired \ Sent
      /\ \A f \in Fields : server'.secret[f] = IF f \in Sent THEN config.secret[f] ELSE server.secret[f]
  BY UpdatedServerEffect DEF TypeOK, Settled
<1>2. server'.attrs = config.attrs
  BY DEF UpdatedServer, Settled, TypeOK, Catalogs
<1>3. QED BY <1>1, <1>2 DEF Settled, Unremovable

(* What is settled stays settled, whatever Terraform does and however it   *)
(* fails: a credential that is as configured is not made worse by a        *)
(* refresh, an Update of a field that was marked, or a lost answer.        *)
THEOREM SettledStays == Spec => [][Terraform /\ Settled => Settled']_vars
<1>1. ASSUME TypeOK, [Next]_vars, Terraform, Settled
      PROVE  Settled'
  <2>1. config' = config
    BY <1>1 DEF Terraform, Plan, ApplyNothing, Create, CreateFails, UpdateCall, UpdateNoCall,
                UpdateFails, UpdateReplyLost, Crash, Delete, DeleteFails
  <2>2. CASE server' = server /\ state'.tracked = state.tracked
    BY <1>1, <2>1, <2>2 DEF Settled, Unremovable
  <2>3. CASE Plan
    <3>1. server' = server
      BY <2>3 DEF Plan
    <3>2. CASE state.tracked /\ server.exists
      <4>1. state' = SetFrom(state, server, TRUE)
        BY <2>3, <3>2 DEF Plan
      <4>2. state'.tracked
        BY <1>1, <4>1, SetFromEffect DEF TypeOK
      <4>3. QED BY <1>1, <2>1, <3>1, <3>2, <4>2 DEF Settled, Unremovable
    <3>3. CASE ~state.tracked
      BY <2>2, <2>3, <3>1, <3>3 DEF Plan
    <3>4. QED BY <1>1, <3>2, <3>3 DEF Settled
  <2>4. CASE UpdateCall
    <3>1. state' = SetFrom(PlannedState, UpdatedServer, FALSE) /\ server' = UpdatedServer /\ config.here
      BY <2>4 DEF UpdateCall, Updates
    <3>2. state'.tracked
      BY <1>1, <3>1, PlannedStateEffect, UpdatedServerEffect, ResponseEffect DEF TypeOK
    <3>3. QED BY <1>1, <2>1, <3>1, <3>2, UpdatedIsSettled
  <2>5. PlannedState.tracked = state.tracked
    BY <1>1, PlannedStateEffect DEF TypeOK
  <2>6. CASE UpdateReplyLost
    BY <1>1, <2>1, <2>5, <2>6, UpdatedIsSettled DEF UpdateReplyLost, Updates
  <2>7. CASE UpdateNoCall \/ UpdateFails
    BY <2>2, <2>5, <2>7 DEF UpdateNoCall, UpdateFails
  <2>8. CASE ApplyNothing \/ CreateFails \/ DeleteFails \/ Crash
    BY <2>2, <2>8 DEF ApplyNothing, CreateFails, DeleteFails, Crash
  <2>9. CASE Create \/ Delete
    BY <1>1, <2>9 DEF Create, Delete, Settled
  <2>10. QED BY <1>1, <2>3, <2>4, <2>6, <2>7, <2>8, <2>9 DEF Terraform
<1>2. IInv => TypeOK
  BY DEF IInv
<1>3. IInv /\ [Next]_vars => [Terraform /\ Settled => Settled']_vars
  BY <1>1, <1>2
<1>4. QED BY <1>3, Inductive, PTL DEF Spec

-----------------------------------------------------------------------------
(* The refinement.                                                         *)

Object == Parts(Fields, server.attrs, server.secret)
Asked  == Parts(Specified, config.attrs, config.secret)

LEMMA ObjectParts ==
  /\ DOMAIN Object = Fields \cup {"attrs"}
  /\ Object["attrs"] = server.attrs
  /\ \A f \in Fields : Object[f] = server.secret[f]
BY FieldsAssumption DEF Object, Parts

LEMMA NextObjectParts ==
  /\ DOMAIN Object' = Fields \cup {"attrs"}
  /\ Object'["attrs"] = server'.attrs
  /\ \A f \in Fields : Object'[f] = server'.secret[f]
BY FieldsAssumption DEF Object, Parts

LEMMA AskedParts ==
  /\ Specified \subseteq Fields
  /\ DOMAIN Asked = Specified \cup {"attrs"}
  /\ Asked["attrs"] = config.attrs
  /\ \A f \in Specified : Asked[f] = config.secret[f]
BY FieldsAssumption DEF Asked, Parts, Specified

LEMMA AskedKept ==
  ASSUME config' = config
  PROVE  Asked' = Asked
BY DEF Asked, Parts, Specified

LEMMA ObjectKept ==
  ASSUME server' = server
  PROVE  Object' = Object
BY DEF Object, Parts

LEMMA StutterStep ==
  ASSUME UNCHANGED <<config, server, outOfBand>>, state'.tracked = state.tracked
  PROVE  UNCHANGED Managed!vars
BY AskedKept, ObjectKept DEF Managed!vars, Object, Asked

LEMMA LoseStep ==
  ASSUME UNCHANGED <<config, server, outOfBand>>, state.tracked, ~state'.tracked
  PROVE  Managed!Lose
BY AskedKept, ObjectKept DEF Managed!Lose, Object, Asked

(* What Update sends is configured; a removed passphrase is not sent.      *)
LEMMA UpdatePuts ==
  ASSUME TypeOK, config.here, state.tracked, server.exists,
         server' = UpdatedServer, config' = config, state'.tracked = state.tracked,
         outOfBand' = outOfBand
  PROVE  Managed!Put
<1>1. /\ server'.exists
      /\ \A f \in Fields : server'.secret[f] = IF f \in Sent THEN config.secret[f] ELSE server.secret[f]
  BY UpdatedServerEffect DEF TypeOK
<1>2. server'.attrs \in {server.attrs, config.attrs}
  BY DEF TypeOK, Catalogs, UpdatedServer
<1>3. Sent \subseteq Specified
  BY DEF Sent, Changed, Specified
<1>4. Managed!Towards(Object, Object')
  <2>1. DOMAIN Object' = DOMAIN Object
    BY ObjectParts, NextObjectParts
  <2>2. \A p \in Fields \cup {"attrs"} :
          Object'[p] = Object[p] \/ (p \in DOMAIN Asked /\ Object'[p] = Asked[p])
    BY <1>1, <1>2, <1>3, ObjectParts, NextObjectParts, AskedParts
  <2>3. QED BY <2>1, <2>2, NextObjectParts DEF Managed!Towards, Asked
<1>5. QED BY <1>1, <1>4, AskedKept DEF Managed!Put, Object, Asked

(* A new credential has what is configured, and nothing where nothing is.  *)
LEMMA CreateMakes ==
  ASSUME TypeOK, Create
  PROVE  Managed!Make
<1>1. /\ config.here /\ ~state.tracked /\ UNCHANGED <<config, outOfBand>>
      /\ server'.exists /\ server'.attrs = config.attrs /\ server'.secret = config.secret
  BY DEF Create, bounds
<1>2. Managed!IsNew(Object')
  <2>1. \A f \in Fields : f \notin Specified => config.secret[f] = Unset
    BY DEF Specified
  <2>2. \A p \in Fields \cup {"attrs"} :
          Object'[p] = Unset \/ (p \in DOMAIN Asked /\ Object'[p] = Asked[p])
    BY <1>1, <2>1, NextObjectParts, AskedParts
  <2>3. QED BY <2>2, NextObjectParts DEF Managed!IsNew, Asked
<1>3. state'.tracked \in BOOLEAN
  <2>1. server' \in Catalogs
    BY DEF Create, TypeOK, Configs, Catalogs
  <2>2. state' = SetFrom(PlannedState, server', FALSE)
    BY DEF Create
  <2>3. state' \in States
    BY <2>1, <2>2, PlannedStateEffect, ResponseEffect DEF TypeOK
  <2>4. QED BY <2>3 DEF States
<1>4. QED BY <1>1, <1>2, <1>3, AskedKept DEF Managed!Make, Object, Asked

LEMMA ManagedStep ==
  ASSUME IInv, [Next]_vars
  PROVE  [Managed!Next]_(Managed!vars)
<1>0. TypeOK
  BY DEF IInv
<1>1. CASE Plan
  <2>1. UNCHANGED <<config, server, outOfBand>>
    BY <1>1 DEF Plan, bounds
  <2>2. CASE state.tracked /\ ~server.exists
    <3>1. ~state'.tracked
      BY <1>0, <1>1, <2>2, UntrackedEffect DEF Plan, TypeOK
    <3>2. QED BY <2>1, <2>2, <3>1, LoseStep DEF Managed!Next
  <2>3. CASE state.tracked /\ server.exists
    <3>1. state' = SetFrom(state, server, TRUE)
      BY <1>1, <2>3 DEF Plan
    <3>2. state'.tracked
      BY <1>0, <3>1, SetFromEffect DEF TypeOK
    <3>3. state'.tracked = state.tracked
      BY <1>0, <2>3, <3>1, <3>2 DEF TypeOK, States, SetFrom
    <3>4. QED BY <2>1, <3>3, StutterStep
  <2>4. CASE ~state.tracked
    BY <1>1, <2>1, <2>4, StutterStep DEF Plan
  <2>5. QED BY <2>2, <2>3, <2>4
<1>2. CASE ApplyNothing \/ CreateFails \/ DeleteFails \/ Crash
  BY <1>2, StutterStep DEF ApplyNothing, CreateFails, DeleteFails, Crash, bounds
<1>3. CASE Create
  BY <1>0, <1>3, CreateMakes DEF Managed!Next
<1>4. PlannedState.tracked = state.tracked
  BY <1>0, PlannedStateEffect DEF TypeOK
<1>5. CASE UpdateCall
  <2>1. /\ server' = UpdatedServer /\ state' = SetFrom(PlannedState, UpdatedServer, FALSE)
        /\ config.here /\ state.tracked /\ server.exists /\ UNCHANGED <<config, outOfBand>>
    BY <1>5 DEF UpdateCall, Updates, bounds
  <2>2. state'.tracked = state.tracked
    BY <1>0, <1>4, <2>1, PlannedStateEffect DEF TypeOK, SetFrom, States
  <2>3. QED BY <1>0, <2>1, <2>2, UpdatePuts DEF Managed!Next
<1>6. CASE UpdateNoCall \/ UpdateFails
  BY <1>4, <1>6, StutterStep DEF UpdateNoCall, UpdateFails, Updates, bounds
<1>7. CASE UpdateReplyLost
  <2>1. /\ server' = UpdatedServer /\ state'.tracked = state.tracked
        /\ config.here /\ state.tracked /\ server.exists /\ UNCHANGED <<config, outOfBand>>
    BY <1>4, <1>7 DEF UpdateReplyLost, Updates
  <2>2. QED BY <1>0, <2>1, UpdatePuts DEF Managed!Next
<1>8. CASE Delete
  <2>1. /\ state.tracked /\ server.exists /\ ~server'.exists /\ state' \in States
        /\ UNCHANGED <<config, outOfBand>>
    BY <1>0, <1>8, UntrackedEffect DEF Delete, TypeOK, Catalogs, bounds
  <2>2. QED BY <2>1, AskedKept DEF Managed!Destroy, Managed!Next, Asked, States
<1>9. CASE Import
  <2>1. /\ config.here /\ server.exists /\ UNCHANGED <<config, server, outOfBand>>
        /\ state' = SetFrom(state, server, TRUE)
    BY <1>9 DEF Import, bounds
  <2>2. state'.tracked
    BY <1>0, <2>1, SetFromEffect DEF TypeOK
  <2>3. QED BY <2>1, <2>2, AskedKept, ObjectKept DEF Managed!Adopt, Managed!Next, Object, Asked
<1>10. CASE EditConfig
  <2>1. UNCHANGED <<server, state, outOfBand>>
    BY <1>10 DEF EditConfig
  <2>2. QED BY <2>1, ObjectKept DEF Managed!Edit, Managed!Next, Managed!vars, Object
<1>11. CASE ApiSetSecret \/ TokenExpires \/ ApiSetAttrs \/ ApiDelete \/ ApiCreate
  <2>1. UNCHANGED <<config, state>> /\ outOfBand' = outOfBand + 1
    BY <1>11 DEF ApiSetSecret, TokenExpires, ApiSetAttrs, ApiDelete, ApiCreate, ApiCall
  <2>2. QED BY <2>1, AskedKept DEF Managed!Others, Managed!Next, Asked
<1>12. CASE UNCHANGED vars
  BY <1>12, StutterStep DEF vars, bounds
<1>13. QED
  BY <1>1, <1>2, <1>3, <1>5, <1>6, <1>7, <1>8, <1>9, <1>10, <1>11, <1>12
  DEF Next, Terraform, Environment

(* Whatever the state says of its secrets, Boundary is only given the      *)
(* configured ones, and only for a credential that is in the state.        *)
THEOREM RefinesManagedObject == Spec => ImplementsManaged
<1>1. Init => Managed!Init
  BY DEF Init, Managed!Init
<1>2. IInv /\ [Next]_vars => [Managed!Next]_(Managed!vars)
  BY ManagedStep
<1>3. QED BY <1>1, <1>2, Inductive, PTL DEF Spec, ImplementsManaged, Managed!Spec

=============================================================================
