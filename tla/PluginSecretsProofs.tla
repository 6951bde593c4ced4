------------------------- MODULE PluginSecretsProofs -------------------------
(***************************************************************************)
(* Proofs about PluginSecrets, for every set of secrets, texts and         *)
(* attributes and all bounds on the environment.                           *)
(*                                                                         *)
(* The properties are not inductive: that state 5 is right (KeepMeansInSync)*)
(* depends on what the digests in the state were computed from, possibly   *)
(* many applies ago, and on nothing of importance having happened between  *)
(* the two halves of Update.  IInv adds just that.                         *)
(***************************************************************************)
EXTENDS PluginSecrets, TLAPS

(* A resource that is not in the state has no digests. *)
NoDigestsUntracked ==
  ~state.tracked => state.configHmac = NoHmac /\ state.hmacUsed = NoHmac

(* While secrets_json counts as removed, the digests are gone. *)
HatchClearsDigests == hatch => state.configHmac = NoHmac

(* Between its two halves Update acts on a decision that is still the one  *)
(* it would take now, unless somebody else changed the secrets.            *)
DecisionIsCurrent ==
  pc = "update" =>
    /\ state.tracked
    /\ text = "" => decision = "clear"
    /\ ~disturbed => decision = CalculateConfigHmacPlan(ServerHmac(server.secret), text, state)

IInv ==
  /\ TypeOK
  /\ DigestsOfConfirmed
  /\ NoDigestsUntracked
  /\ HatchClearsDigests
  /\ DecisionIsCurrent
  /\ EscapeHatchOpens

-----------------------------------------------------------------------------
(* The HMACs.                                                              *)

(* Boundary's HMAC tells any two secrets apart, and secrets from none. *)
LEMMA ServerHmacInjective ==
  ASSUME NEW s \in Secrets \cup {NoSecret}, NEW r \in Secrets \cup {NoSecret},
         ServerHmac(s) = ServerHmac(r)
  PROVE  s = r
<1>1. \A x \in Secrets : [of |-> x] # NoHmac
  BY HmacAssumption DEF ServerHmacs
<1>2. \A x, y \in Secrets : [of |-> x] = [of |-> y] => x = y
  <2>1. \A x : [of |-> x].of = x
    OBVIOUS
  <2>2. QED BY <2>1
<1>3. QED
  BY <1>1, <1>2, TextsAssumption DEF ServerHmac

(* What Boundary answers is an HMAC, and not the empty one if it has secrets. *)
LEMMA ServerHmacType ==
  ASSUME NEW s \in Secrets \cup {NoSecret}
  PROVE  /\ ServerHmac(s) \in ServerHmacs \cup {NoHmac}
         /\ ServerHmac(s) = NoHmac <=> s = NoSecret
BY HmacAssumption, TextsAssumption DEF ServerHmac, ServerHmacs

(* A text that parses is a secret, or the document that clears. *)
LEMMA SanitizeJsonType ==
  ASSUME NEW t \in AnyText, t # "", SanitizeJson(t) # Malformed
  PROVE  SanitizeJson(t) \in Secrets \cup {NoSecret}
BY TextsAssumption DEF SanitizeJson, AnyText

(* The decision is one of the five; nothing to send means forgetting. *)
LEMMA PlanType ==
  ASSUME NEW h, NEW t \in AnyText, NEW st
  PROVE  /\ CalculateConfigHmacPlan(h, t, st) \in Decisions
         /\ t = "" => CalculateConfigHmacPlan(h, t, st) = "clear"
BY DEF CalculateConfigHmacPlan, CompareDigests, Decisions, AnyText

(* What each decision tells about the HMAC and the state it was taken on. *)
LEMMA PlanMeaning ==
  ASSUME NEW h, NEW t \in AnyText, NEW st
  PROVE  /\ CalculateConfigHmacPlan(h, t, st) = "keep"
              => h # NoHmac /\ st.configHmac # NoHmac /\ st.configHmac = CalculateCurrentConfigHmac(h, t)
         /\ CalculateConfigHmacPlan(h, t, st) = "send"
              => h = NoHmac \/ st.configHmac = NoHmac \/ h = st.hmacUsed
         /\ t \in Texts /\ st.configHmac = NoHmac
              => CalculateConfigHmacPlan(h, t, st) = "send"
<1>1. CalculateConfigHmacPlan(h, t, st) = "keep"
        => h # NoHmac /\ st.configHmac # NoHmac /\ st.configHmac = CalculateCurrentConfigHmac(h, t)
  BY DEF CalculateConfigHmacPlan, CompareDigests, AnyText
<1>2. CalculateConfigHmacPlan(h, t, st) = "send"
        => h = NoHmac \/ st.configHmac = NoHmac \/ h = st.hmacUsed
  BY DEF CalculateConfigHmacPlan, CompareDigests, AnyText
<1>3. t \in Texts /\ st.configHmac = NoHmac => CalculateConfigHmacPlan(h, t, st) = "send"
  BY TextsAssumption DEF CalculateConfigHmacPlan, AnyText
<1>4. QED BY <1>1, <1>2, <1>3

(* The digests are cleared, replaced, or left alone. *)
LEMMA SaveCases ==
  ASSUME NEW st
  PROVE  /\ decision = "clear" => SaveSecretsInformation(st)
                                    = [st EXCEPT !.configHmac = NoHmac, !.hmacUsed = NoHmac]
         /\ decision = "send" => SaveSecretsInformation(st) = RememberSent(st, text)
         /\ decision \notin {"clear", "send"} => SaveSecretsInformation(st) = st
BY DEF SaveSecretsInformation

LEMMA SetFromResponseType ==
  ASSUME NEW st \in States, NEW c \in Catalogs
  PROVE  /\ SetFromResponse(st, c) \in States
         /\ SetFromResponse(st, c).tracked
         /\ SetFromResponse(st, c).secretsHmac = ServerHmac(c.secret)
         /\ SetFromResponse(st, c).configHmac = st.configHmac
         /\ SetFromResponse(st, c).hmacUsed = st.hmacUsed
<1>1. ServerHmac(c.secret) \in ServerHmacs \cup {NoHmac}
  BY ServerHmacType DEF Catalogs
<1>2. QED BY <1>1 DEF SetFromResponse, States, Catalogs

(* Remembering what was sent makes the digests those of the secrets sent,  *)
(* if the state has Boundary's HMAC of them.                               *)
LEMMA RememberSentDigests ==
  ASSUME NEW st \in States, NEW t \in AnyText, t # "", NEW s \in Secrets \cup {NoSecret},
         SanitizeJson(t) = s, st.secretsHmac = ServerHmac(s)
  PROVE  /\ RememberSent(st, t) \in States
         /\ RememberSent(st, t).tracked = st.tracked
         /\ s = NoSecret => RememberSent(st, t) = st
         /\ s # NoSecret => /\ RememberSent(st, t).hmacUsed = ServerHmac(s)
                            /\ RememberSent(st, t).configHmac = [key |-> ServerHmac(s), over |-> s]
<1>1. CASE s = NoSecret
  BY <1>1, ServerHmacType DEF RememberSent
<1>2. CASE s # NoSecret
  <2>1. ServerHmac(s) \in ServerHmacs /\ ServerHmac(s) # NoHmac
    BY <1>2, ServerHmacType
  <2>2. RememberSent(st, t) = [st EXCEPT !.configHmac = [key |-> ServerHmac(s), over |-> s],
                                         !.hmacUsed = ServerHmac(s)]
    BY <2>1 DEF RememberSent, CalculateCurrentConfigHmac
  <2>3. [key |-> ServerHmac(s), over |-> s] \in ConfigHmacs
    BY <2>1 DEF ConfigHmacs
  <2>4. QED BY <1>2, <2>1, <2>2, <2>3 DEF States
<1>3. QED BY <1>1, <1>2

-----------------------------------------------------------------------------
(* The inductive invariant.                                                *)

LEMMA InitEstablishes == Init => IInv
<1> SUFFICES ASSUME Init PROVE IInv
  OBVIOUS
<1> PICK a \in Attrs :
      /\ server = [exists |-> FALSE, attrs |-> a, secret |-> NoSecret]
      /\ state = [tracked |-> FALSE, attrs |-> a, secretsHmac |-> NoHmac,
                  configHmac |-> NoHmac, hmacUsed |-> NoHmac]
      /\ planned = a
  BY DEF Init
<1>1. server \in Catalogs /\ state \in States
  BY DEF Catalogs, States
<1>2. TypeOK
  <2>1. edits \in 0..MaxEdits /\ outOfBand \in 0..MaxOutOfBand /\ faults \in 0..MaxFaults
    <3>1. edits = 0 /\ outOfBand = 0 /\ faults = 0
      BY DEF Init
    <3>2. QED BY <3>1, BoundsAssumption
  <2>2. config \in Configs /\ text \in AnyText /\ decision \in Decisions /\ planned \in Attrs
    BY DEF Init, Decisions, AnyText
  <2>3. disturbed \in BOOLEAN /\ hatch \in BOOLEAN
    BY DEF Init
  <2>4. pc \in {"idle", "planned", "update"} /\ diags \in SUBSET {"error", "warning", "crash"}
        /\ confirmed \in Secrets \cup {NoSecret}
    BY DEF Init
  <2>5. QED BY <1>1, <2>1, <2>2, <2>3, <2>4 DEF TypeOK
<1>3. state.configHmac = NoHmac /\ state.hmacUsed = NoHmac
  OBVIOUS
<1>4. pc = "idle"
  BY DEF Init
<1>5. QED
  BY <1>2, <1>3, <1>4 DEF IInv, DigestsOfConfirmed, NoDigestsUntracked, HatchClearsDigests,
     DecisionIsCurrent, EscapeHatchOpens

(* Steps that leave the Terraform side alone, or only end a handler. *)
LEMMA EnvironmentPreserves ==
  ASSUME IInv, Environment
  PROVE  IInv'
<1> USE DEF IInv, tfVars, history, bounds
<1>1. CASE EditConfig
  <2>1. TypeOK'
    BY <1>1, BoundsAssumption DEF EditConfig, TypeOK, Configs
  <2>2. QED
    BY <1>1, <2>1 DEF EditConfig, DigestsOfConfirmed, NoDigestsUntracked,
       HatchClearsDigests, DecisionIsCurrent, EscapeHatchOpens
<1>2. CASE Import
  <2>1. state' \in States /\ state'.configHmac = state.configHmac /\ state'.hmacUsed = state.hmacUsed
    BY <1>2, SetFromResponseType DEF Import, TypeOK
  <2>2. TypeOK'
    BY <1>2, <2>1 DEF Import, TypeOK
  <2>3. QED
    BY <1>2, <2>1, <2>2, SetFromResponseType DEF Import, TypeOK, DigestsOfConfirmed, NoDigestsUntracked,
       HatchClearsDigests, DecisionIsCurrent, EscapeHatchOpens
<1>3. CASE ApiSetSecret
  <2>1. TypeOK'
    BY <1>3, BoundsAssumption DEF ApiSetSecret, ApiCall, TypeOK, Catalogs
  <2>2. QED
    BY <1>3, <2>1 DEF ApiSetSecret, ApiCall, DigestsOfConfirmed, NoDigestsUntracked,
       HatchClearsDigests, DecisionIsCurrent, EscapeHatchOpens
<1>4. CASE ApiSetAttrs
  <2>1. TypeOK'
    <3>1. server' \in Catalogs
      BY <1>4 DEF ApiSetAttrs, TypeOK, Catalogs, Attrs
    <3>2. QED BY <1>4, <3>1, BoundsAssumption DEF ApiSetAttrs, ApiCall, TypeOK
  <2>2. server'.secret = server.secret
    BY <1>4 DEF ApiSetAttrs, TypeOK, Catalogs
  <2>3. QED
    BY <1>4, <2>1, <2>2 DEF ApiSetAttrs, ApiCall, DigestsOfConfirmed, NoDigestsUntracked,
       HatchClearsDigests, DecisionIsCurrent, EscapeHatchOpens
<1>5. CASE ApiDelete
  <2>1. TypeOK'
    <3>1. server' \in Catalogs
      BY <1>5 DEF ApiDelete, TypeOK, Catalogs
    <3>2. QED BY <1>5, <3>1, BoundsAssumption DEF ApiDelete, ApiCall, TypeOK
  <2>2. QED
    BY <1>5, <2>1 DEF ApiDelete, ApiCall, DigestsOfConfirmed, NoDigestsUntracked,
       HatchClearsDigests, DecisionIsCurrent, EscapeHatchOpens
<1>6. CASE ApiCreate
  <2>1. TypeOK'
    <3>1. server' \in Catalogs
      BY <1>6 DEF ApiCreate, Catalogs
    <3>2. QED BY <1>6, <3>1, BoundsAssumption DEF ApiCreate, ApiCall, TypeOK
  <2>2. QED
    BY <1>6, <2>1 DEF ApiCreate, ApiCall, DigestsOfConfirmed, NoDigestsUntracked,
       HatchClearsDigests, DecisionIsCurrent, EscapeHatchOpens
<1>7. QED
  BY <1>1, <1>2, <1>3, <1>4, <1>5, <1>6 DEF Environment

(* Leaving the state forgets the digests together with the resource. *)
LEMMA UntrackedType ==
  ASSUME NEW st \in States
  PROVE  /\ Untracked(st) \in States
         /\ ~Untracked(st).tracked
         /\ Untracked(st).configHmac = NoHmac
         /\ Untracked(st).hmacUsed = NoHmac
BY DEF Untracked, States

LEMMA PlannedStateType ==
  ASSUME state \in States, NEW a \in Attrs
  PROVE  /\ PlannedState(a) \in States
         /\ PlannedState(a).tracked = state.tracked
         /\ PlannedState(a).configHmac = state.configHmac
         /\ PlannedState(a).hmacUsed = state.hmacUsed
BY DEF PlannedState, States

(* Each attribute becomes the planned one, or stays what it is. *)
LEMMA UpdatedAttrsType ==
  ASSUME TypeOK
  PROVE  /\ UpdatedAttrs \in Attrs
         /\ \A n \in Names : UpdatedAttrs[n] = planned[n] \/ UpdatedAttrs[n] = server.attrs[n]
BY DEF TypeOK, UpdatedAttrs, Attrs, Catalogs

(* What Update leaves behind is a catalog. *)
LEMMA UpdatedCatalogType ==
  ASSUME TypeOK, decision = "send" => text # "", ~Unsendable
  PROVE  /\ UpdatedCatalog \in Catalogs
         /\ UpdatedCatalog.attrs = UpdatedAttrs
         /\ UpdatedCatalog.secret = IF Sends THEN SanitizeJson(text) ELSE server.secret
<1>1. Sends => SanitizeJson(text) \in Secrets \cup {NoSecret}
  BY SanitizeJsonType DEF TypeOK, Sends, Unsendable
<1>2. UpdatedAttrs \in Attrs
  BY UpdatedAttrsType
<1>3. QED BY <1>1, <1>2 DEF TypeOK, UpdatedCatalog, Catalogs

(* Planning, creating, deleting and importing.                             *)
LEMMA PlanPreserves ==
  ASSUME IInv, PlanTracked \/ PlanUntracked \/ ApplyNothing \/ UpdateFindsNothing
  PROVE  IInv'
<1> USE DEF IInv, history, bounds
<1>1. CASE PlanTracked
  <2>1. CASE server.exists
    <3>1. /\ state' \in States /\ state'.tracked
          /\ state'.configHmac = state.configHmac /\ state'.hmacUsed = state.hmacUsed
      BY <1>1, <2>1, SetFromResponseType DEF PlanTracked, TypeOK
    <3>2. TypeOK'
      BY <1>1, <2>1, <3>1 DEF PlanTracked, TypeOK
    <3>3. QED
      BY <1>1, <2>1, <3>1, <3>2 DEF PlanTracked, DigestsOfConfirmed, NoDigestsUntracked,
         HatchClearsDigests, DecisionIsCurrent, EscapeHatchOpens
  <2>2. CASE ~server.exists
    <3>1. /\ state' \in States /\ ~state'.tracked
          /\ state'.configHmac = NoHmac /\ state'.hmacUsed = NoHmac
      BY <1>1, <2>2, UntrackedType DEF PlanTracked, TypeOK
    <3>2. TypeOK'
      BY <1>1, <2>2, <3>1 DEF PlanTracked, Forgotten, TypeOK
    <3>3. QED
      BY <1>1, <2>2, <3>1, <3>2 DEF PlanTracked, DigestsOfConfirmed, NoDigestsUntracked,
         HatchClearsDigests, DecisionIsCurrent, EscapeHatchOpens
  <2>3. QED BY <2>1, <2>2
<1>2. CASE PlanUntracked
  <2>1. TypeOK'
    BY <1>2 DEF PlanUntracked, TypeOK
  <2>2. QED
    BY <1>2, <2>1 DEF PlanUntracked, DigestsOfConfirmed, NoDigestsUntracked,
       HatchClearsDigests, DecisionIsCurrent, EscapeHatchOpens
<1>3. CASE ApplyNothing
  <2>1. TypeOK'
    BY <1>3 DEF ApplyNothing, Return, TypeOK, AnyText, Decisions
  <2>2. QED
    BY <1>3, <2>1 DEF ApplyNothing, Return, DigestsOfConfirmed, NoDigestsUntracked,
       HatchClearsDigests, DecisionIsCurrent, EscapeHatchOpens
<1>4. CASE UpdateFindsNothing
  <2>1. /\ state' \in States /\ ~state'.tracked
        /\ state'.configHmac = NoHmac /\ state'.hmacUsed = NoHmac
    BY <1>4, UntrackedType DEF UpdateFindsNothing, TypeOK
  <2>2. TypeOK'
    BY <1>4, <2>1 DEF UpdateFindsNothing, Forgotten, Return, TypeOK, AnyText, Decisions
  <2>3. QED
    BY <1>4, <2>1, <2>2 DEF UpdateFindsNothing, Return, DigestsOfConfirmed, NoDigestsUntracked,
       HatchClearsDigests, DecisionIsCurrent, EscapeHatchOpens
<1>5. QED BY <1>1, <1>2, <1>3, <1>4

LEMMA CreatePreserves ==
  ASSUME IInv, Create
  PROVE  IInv'
<1> DEFINE secret == IF config.secrets = "" THEN NoSecret ELSE SanitizeJson(config.secrets)
           catalog == [exists |-> TRUE, attrs |-> config.attrs, secret |-> secret]
           fresh == SetFromResponse(state, catalog)
<1> USE DEF IInv
<1>1. secret \in Secrets \cup {NoSecret} /\ config.secrets \in AnyText /\ config.attrs \in Attrs
  BY TextsAssumption DEF Create, TypeOK, Configs, SanitizeJson, AnyText
<1>2. catalog \in Catalogs
  BY <1>1 DEF Catalogs
<1>3. /\ fresh \in States /\ fresh.tracked /\ fresh.secretsHmac = ServerHmac(secret)
      /\ fresh.configHmac = NoHmac /\ fresh.hmacUsed = NoHmac
  BY <1>2, SetFromResponseType DEF Create, TypeOK, NoDigestsUntracked
<1>4. /\ server' = catalog /\ state' = RememberSent(fresh, config.secrets)
      /\ confirmed' = secret /\ hatch' = (secret = NoSecret)
      /\ disturbed' = FALSE /\ pc' = "idle" /\ diags' = {} /\ text' = "" /\ decision' = "keep"
      /\ UNCHANGED <<config, planned, bounds>>
  BY DEF Create, Return
<1>5. CASE secret = NoSecret
  <2>1. state' = fresh
    BY <1>3, <1>4, <1>5 DEF RememberSent, ServerHmac
  <2>2. TypeOK'
    BY <1>2, <1>3, <1>4, <1>5, <2>1 DEF TypeOK, AnyText, Decisions, bounds
  <2>3. QED
    BY <1>3, <1>4, <2>1, <2>2 DEF DigestsOfConfirmed, NoDigestsUntracked,
       HatchClearsDigests, DecisionIsCurrent, EscapeHatchOpens
<1>6. CASE secret # NoSecret
  <2>1. /\ state' \in States /\ state'.tracked
        /\ state'.hmacUsed = ServerHmac(secret)
        /\ state'.configHmac = [key |-> ServerHmac(secret), over |-> secret]
    BY <1>1, <1>3, <1>4, <1>6, RememberSentDigests
  <2>2. TypeOK'
    BY <1>1, <1>2, <1>4, <1>6, <2>1 DEF TypeOK, AnyText, Decisions, bounds
  <2>3. QED
    BY <1>4, <1>6, <2>1, <2>2 DEF DigestsOfConfirmed, NoDigestsUntracked,
       HatchClearsDigests, DecisionIsCurrent, EscapeHatchOpens
<1>7. QED BY <1>5, <1>6

(* Handlers that end with an error, or with Terraform's process.           *)
LEMMA FailurePreserves ==
  ASSUME IInv,
         \/ CreateFails \/ UpdateReadFails \/ UpdateFails \/ UpdateReplyLost
         \/ Crash \/ Delete \/ DeleteFails
  PROVE  IInv'
<1> USE DEF IInv, history
<1>1. CASE CreateFails
  <2>1. TypeOK'
    <3>1. faults' \in 0..MaxFaults
      BY <1>1, BoundsAssumption DEF CreateFails, TypeOK
    <3>2. diags' \in SUBSET {"error", "warning", "crash"}
      BY <1>1 DEF CreateFails, Return
    <3>3. QED
      BY <1>1, <3>1, <3>2 DEF CreateFails, Return, TypeOK, AnyText, Decisions
  <2>2. QED
    BY <1>1, <2>1 DEF CreateFails, Return, DigestsOfConfirmed, NoDigestsUntracked,
       HatchClearsDigests, DecisionIsCurrent, EscapeHatchOpens
<1>2. CASE UpdateReadFails
  <2>1. /\ state' \in States /\ state'.tracked = state.tracked
        /\ state'.configHmac = state.configHmac /\ state'.hmacUsed = state.hmacUsed
    BY <1>2, PlannedStateType DEF UpdateReadFails, TypeOK, Configs
  <2>2. TypeOK'
    <3>1. faults' \in 0..MaxFaults
      BY <1>2, BoundsAssumption DEF UpdateReadFails, TypeOK
    <3>2. diags' \in SUBSET {"error", "warning", "crash"}
      BY <1>2 DEF UpdateReadFails, Return
    <3>3. QED
      BY <1>2, <2>1, <3>1, <3>2 DEF UpdateReadFails, Return, TypeOK, AnyText, Decisions
  <2>3. QED
    BY <1>2, <2>1, <2>2 DEF UpdateReadFails, Return, DigestsOfConfirmed, NoDigestsUntracked,
       HatchClearsDigests, DecisionIsCurrent, EscapeHatchOpens
<1>3. CASE UpdateFails
  <2>1. /\ state' \in States /\ state'.tracked = state.tracked
        /\ state'.configHmac = state.configHmac /\ state'.hmacUsed = state.hmacUsed
    BY <1>3, PlannedStateType DEF UpdateFails, TypeOK
  <2>2. TypeOK'
    <3>1. faults' \in 0..MaxFaults
      BY <1>3, BoundsAssumption DEF UpdateFails, TypeOK
    <3>2. diags' \in SUBSET {"error", "warning", "crash"}
      BY <1>3 DEF UpdateFails, Return
    <3>3. QED
      BY <1>3, <2>1, <3>1, <3>2 DEF UpdateFails, Return, TypeOK, AnyText, Decisions
  <2>3. QED
    BY <1>3, <2>1, <2>2 DEF UpdateFails, Return, DigestsOfConfirmed, NoDigestsUntracked,
       HatchClearsDigests, DecisionIsCurrent, EscapeHatchOpens
<1>4. CASE UpdateReplyLost
  <2>1. /\ state' \in States /\ state'.tracked = state.tracked
        /\ state'.configHmac = state.configHmac /\ state'.hmacUsed = state.hmacUsed
    BY <1>4, PlannedStateType DEF UpdateReplyLost, TypeOK
  <2>2. server' \in Catalogs
    BY <1>4, UpdatedCatalogType DEF UpdateReplyLost, DecisionIsCurrent
  <2>3. TypeOK'
    <3>1. faults' \in 0..MaxFaults
      BY <1>4, BoundsAssumption DEF UpdateReplyLost, TypeOK
    <3>2. diags' \in SUBSET {"error", "warning", "crash"}
      BY <1>4 DEF UpdateReplyLost, Return
    <3>3. QED
      BY <1>4, <2>1, <2>2, <3>1, <3>2 DEF UpdateReplyLost, Return, TypeOK, AnyText, Decisions
  <2>4. QED
    BY <1>4, <2>1, <2>3 DEF UpdateReplyLost, Return, DigestsOfConfirmed, NoDigestsUntracked,
       HatchClearsDigests, DecisionIsCurrent, EscapeHatchOpens
<1>5. CASE Crash
  <2>1. TypeOK'
    <3>1. faults' \in 0..MaxFaults
      BY <1>5, BoundsAssumption DEF Crash, TypeOK
    <3>2. diags' \in SUBSET {"error", "warning", "crash"}
      BY <1>5 DEF Crash, Return
    <3>3. QED
      BY <1>5, <3>1, <3>2 DEF Crash, Return, TypeOK, AnyText, Decisions
  <2>2. QED
    BY <1>5, <2>1 DEF Crash, Return, DigestsOfConfirmed, NoDigestsUntracked,
       HatchClearsDigests, DecisionIsCurrent, EscapeHatchOpens
<1>6. CASE Delete
  <2>1. /\ state' \in States /\ ~state'.tracked
        /\ state'.configHmac = NoHmac /\ state'.hmacUsed = NoHmac
    BY <1>6, UntrackedType DEF Delete, TypeOK
  <2>2. server' \in Catalogs
    BY <1>6 DEF Delete, TypeOK, Catalogs
  <2>3. TypeOK'
    BY <1>6, <2>1, <2>2 DEF Delete, Forgotten, Return, TypeOK, AnyText, Decisions, bounds
  <2>4. QED
    BY <1>6, <2>1, <2>3 DEF Delete, Return, DigestsOfConfirmed, NoDigestsUntracked,
       HatchClearsDigests, DecisionIsCurrent, EscapeHatchOpens
<1>7. CASE DeleteFails
  <2>1. TypeOK'
    <3>1. faults' \in 0..MaxFaults
      BY <1>7, BoundsAssumption DEF DeleteFails, TypeOK
    <3>2. diags' \in SUBSET {"error", "warning", "crash"}
      BY <1>7 DEF DeleteFails, Return
    <3>3. QED
      BY <1>7, <3>1, <3>2 DEF DeleteFails, Return, TypeOK, AnyText, Decisions
  <2>2. QED
    BY <1>7, <2>1 DEF DeleteFails, Return, DigestsOfConfirmed, NoDigestsUntracked,
       HatchClearsDigests, DecisionIsCurrent, EscapeHatchOpens
<1>8. QED BY <1>1, <1>2, <1>3, <1>4, <1>5, <1>6, <1>7

(* Update's first half. *)
LEMMA UpdateReadPreserves ==
  ASSUME IInv, UpdateRead
  PROVE  IInv'
<1> DEFINE plan == CalculateConfigHmacPlan(ServerHmac(server.secret), config.secrets, state)
<1> USE DEF IInv, bounds
<1>1. config.secrets \in AnyText /\ config.attrs \in Attrs /\ plan \in Decisions
      /\ (config.secrets = "" => plan = "clear")
  BY PlanType DEF TypeOK, Configs
<1>2. CASE plan = "error"
  <2>1. /\ state' \in States /\ state'.tracked = state.tracked
        /\ state'.configHmac = state.configHmac /\ state'.hmacUsed = state.hmacUsed
    BY <1>1, <1>2, PlannedStateType DEF UpdateRead, TypeOK
  <2>2. TypeOK'
    BY <1>1, <1>2, <2>1 DEF UpdateRead, Return, TypeOK, AnyText, Decisions
  <2>3. QED
    BY <1>2, <2>1, <2>2 DEF UpdateRead, Return, DigestsOfConfirmed, NoDigestsUntracked,
       HatchClearsDigests, DecisionIsCurrent, EscapeHatchOpens
<1>3. CASE plan # "error"
  <2>1. /\ pc' = "update" /\ text' = config.secrets /\ decision' = plan /\ disturbed' = FALSE
        /\ planned' = config.attrs /\ state.tracked
        /\ UNCHANGED <<config, server, state, diags, confirmed, hatch, edits, outOfBand, faults>>
    BY <1>3 DEF UpdateRead
  <2>2. TypeOK'
    BY <1>1, <2>1 DEF TypeOK
  <2>3. DecisionIsCurrent'
    <3>1. decision' = CalculateConfigHmacPlan(ServerHmac(server'.secret), text', state')
      BY <2>1
    <3>2. QED BY <1>1, <2>1, <3>1 DEF DecisionIsCurrent
  <2>4. EscapeHatchOpens'
    BY <1>1, <2>1, PlanMeaning DEF EscapeHatchOpens, HatchClearsDigests
  <2>5. QED
    BY <2>1, <2>2, <2>3, <2>4 DEF DigestsOfConfirmed, NoDigestsUntracked, HatchClearsDigests
<1>4. QED BY <1>2, <1>3

(* Update's second half, with a call. *)
LEMMA UpdateCallPreserves ==
  ASSUME IInv, UpdateCall
  PROVE  IInv'
<1> DEFINE fresh == SetFromResponse(state, UpdatedCatalog)
<1> USE DEF IInv, bounds
<1>1. /\ UpdatedCatalog \in Catalogs
      /\ UpdatedCatalog.secret = IF Sends THEN SanitizeJson(text) ELSE server.secret
      /\ text = "" => decision = "clear"
      /\ state.tracked
  BY UpdatedCatalogType DEF UpdateCall, DecisionIsCurrent
<1>2. /\ fresh \in States /\ fresh.tracked /\ fresh.secretsHmac = ServerHmac(UpdatedCatalog.secret)
      /\ fresh.configHmac = state.configHmac /\ fresh.hmacUsed = state.hmacUsed
  BY <1>1, SetFromResponseType DEF TypeOK
<1>3. /\ server' = UpdatedCatalog /\ state' = SaveSecretsInformation(fresh)
      /\ disturbed' = FALSE /\ pc' = "idle" /\ diags' = {} /\ text' = "" /\ decision' = "keep"
      /\ UNCHANGED <<config, planned, edits, outOfBand, faults>>
  BY DEF UpdateCall, UpdateSucceeded, Return
<1>4. hatch' \in BOOLEAN
  BY DEF UpdateCall, UpdateSucceeded
<1>5. ASSUME state' \in States, confirmed' \in Secrets \cup {NoSecret}
      PROVE  TypeOK'
  BY <1>1, <1>3, <1>4, <1>5 DEF TypeOK, AnyText, Decisions
<1>6. CASE decision = "send" /\ SanitizeJson(text) # NoSecret
  <2>1. /\ SanitizeJson(text) \in Secrets /\ text \in AnyText /\ text # ""
    BY <1>1, <1>6, SanitizeJsonType DEF UpdateCall, TypeOK, Sends, Unsendable
  <2>2. state' = RememberSent(fresh, text) /\ fresh.secretsHmac = ServerHmac(SanitizeJson(text))
    BY <1>1, <1>2, <1>3, <1>6, SaveCases DEF Sends
  <2>3. /\ state' \in States /\ state'.tracked
        /\ state'.hmacUsed = ServerHmac(SanitizeJson(text))
        /\ state'.configHmac = [key |-> ServerHmac(SanitizeJson(text)), over |-> SanitizeJson(text)]
    BY <1>2, <1>6, <2>1, <2>2, RememberSentDigests
  <2>4. confirmed' = SanitizeJson(text) /\ ~hatch'
    BY <1>6, <2>1 DEF UpdateCall, UpdateSucceeded, Sends
  <2>5. QED
    BY <1>3, <1>5, <1>6, <2>1, <2>3, <2>4 DEF DigestsOfConfirmed, NoDigestsUntracked,
       HatchClearsDigests, DecisionIsCurrent, EscapeHatchOpens
<1>7. CASE decision = "clear"
  <2>1. state' = [fresh EXCEPT !.configHmac = NoHmac, !.hmacUsed = NoHmac]
    BY <1>3, <1>7, SaveCases
  <2>2. state' \in States /\ state'.configHmac = NoHmac /\ state'.hmacUsed = NoHmac
    BY <1>2, <2>1 DEF States
  <2>3. confirmed' = confirmed
    BY <1>7 DEF UpdateCall, UpdateSucceeded, Sends
  <2>4. QED
    BY <1>3, <1>5, <2>2, <2>3 DEF TypeOK, DigestsOfConfirmed, NoDigestsUntracked,
       HatchClearsDigests, DecisionIsCurrent, EscapeHatchOpens
<1>8. CASE decision # "clear" /\ ~(decision = "send" /\ SanitizeJson(text) # NoSecret)
  <2>3. state' = fresh
    <3>1. CASE decision = "send"
      <4>1. fresh.secretsHmac = NoHmac
        BY <1>1, <1>2, <1>8, <3>1 DEF Sends, ServerHmac
      <4>2. QED BY <1>3, <3>1, <4>1, SaveCases DEF RememberSent
    <3>2. CASE decision # "send"
      BY <1>3, <1>8, <3>2, SaveCases
    <3>3. QED BY <3>1, <3>2
  <2>4. confirmed' = confirmed
    BY <1>8 DEF UpdateCall, UpdateSucceeded, Sends
  <2>5. hatch' => state.configHmac = NoHmac
    BY <1>1, <1>8 DEF UpdateCall, UpdateSucceeded, HatchClearsDigests, Sends
  <2>6. QED
    BY <1>1, <1>2, <1>3, <1>5, <2>3, <2>4, <2>5 DEF TypeOK, DigestsOfConfirmed, NoDigestsUntracked,
       HatchClearsDigests, DecisionIsCurrent, EscapeHatchOpens
<1>9. QED BY <1>6, <1>7, <1>8

(* Update's second half, with nothing to call for. *)
LEMMA UpdateNoCallPreserves ==
  ASSUME IInv, UpdateNoCall
  PROVE  IInv'
<1> USE DEF IInv, bounds
<1>1. /\ state' = SaveSecretsInformation(state) /\ decision # "send"
      /\ confirmed' = confirmed /\ disturbed' = FALSE /\ hatch' = (text = "" \/ hatch)
      /\ pc' = "idle" /\ diags' = {} /\ text' = "" /\ decision' = "keep"
      /\ UNCHANGED <<config, server, planned, edits, outOfBand, faults>>
  BY DEF UpdateNoCall, UpdateSucceeded, Return, NeedsCall, Sends, TypeOK
<1>2. text = "" => decision = "clear"
  BY DEF UpdateNoCall, DecisionIsCurrent
<1>3. ASSUME state' \in States PROVE TypeOK'
  BY <1>1, <1>3 DEF TypeOK, AnyText, Decisions
<1>4. CASE decision = "clear"
  <2>1. /\ state' \in States /\ state'.tracked = state.tracked
        /\ state'.configHmac = NoHmac /\ state'.hmacUsed = NoHmac
    BY <1>1, <1>4, SaveCases DEF TypeOK, States
  <2>2. QED
    BY <1>1, <1>3, <2>1 DEF DigestsOfConfirmed, NoDigestsUntracked,
       HatchClearsDigests, DecisionIsCurrent, EscapeHatchOpens
<1>5. CASE decision # "clear"
  <2>1. state' = state
    BY <1>1, <1>5, SaveCases
  <2>2. QED
    BY <1>1, <1>2, <1>3, <1>5, <2>1 DEF TypeOK, DigestsOfConfirmed, NoDigestsUntracked,
       HatchClearsDigests, DecisionIsCurrent, EscapeHatchOpens
<1>6. QED BY <1>4, <1>5

LEMMA StepPreserves == IInv /\ [Next]_vars => IInv'
<1> SUFFICES ASSUME IInv, [Next]_vars PROVE IInv'
  OBVIOUS
<1>1. CASE Terraform
  BY <1>1, PlanPreserves, CreatePreserves, FailurePreserves, UpdateReadPreserves,
     UpdateCallPreserves, UpdateNoCallPreserves DEF Terraform
<1>2. CASE Environment
  BY <1>2, EnvironmentPreserves
<1>3. CASE UNCHANGED vars
  BY <1>3 DEF vars, tfVars, history, bounds, IInv, TypeOK, DigestsOfConfirmed,
     NoDigestsUntracked, HatchClearsDigests, DecisionIsCurrent, EscapeHatchOpens
<1>4. QED BY <1>1, <1>2, <1>3 DEF Next

LEMMA Invariance == Spec => []IInv
BY InitEstablishes, StepPreserves, PTL DEF Spec

-----------------------------------------------------------------------------
(* What follows.                                                           *)

(* The variables keep their types: in particular the state never holds a   *)
(* secret where it should hold an HMAC.                                    *)
THEOREM TypeCorrect == Spec => []TypeOK
BY Invariance, PTL DEF IInv

(* The two digests always belong to the last secrets Boundary confirmed    *)
(* (RememberSent, whichever handler called it).                            *)
THEOREM DigestsAreConfirmed == Spec => []DigestsOfConfirmed
BY Invariance, PTL DEF IInv

(* The escape hatch described at state 3 always works. *)
THEOREM EscapeHatchWorks == Spec => []EscapeHatchOpens
BY Invariance, PTL DEF IInv

(* When Update decides to leave the secrets alone, they are right. *)
LEMMA KeepIsRight == IInv => KeepMeansInSync
<1> SUFFICES ASSUME IInv, pc = "update", decision = "keep", ~disturbed
             PROVE  server.secret = SanitizeJson(text)
  BY DEF KeepMeansInSync
<1> DEFINE h == ServerHmac(server.secret)
<1>1. /\ h # NoHmac /\ state.configHmac # NoHmac
      /\ state.configHmac = [key |-> h, over |-> SanitizeJson(text)]
  BY PlanMeaning DEF IInv, TypeOK, DecisionIsCurrent, CalculateCurrentConfigHmac
<1>2. server.secret \in Secrets \cup {NoSecret}
  BY DEF IInv, TypeOK, Catalogs
<1>3. state.configHmac = [key |-> state.hmacUsed, over |-> confirmed] /\ state.hmacUsed = ServerHmac(confirmed)
  BY <1>1 DEF IInv, DigestsOfConfirmed
<1>4. \A a, b : [key |-> a, over |-> b].key = a /\ [key |-> a, over |-> b].over = b
  OBVIOUS
<1>5. h = ServerHmac(confirmed) /\ SanitizeJson(text) = confirmed
  <2>1. state.configHmac.key = h /\ state.configHmac.over = SanitizeJson(text)
    BY <1>1, <1>4
  <2>2. state.configHmac.key = state.hmacUsed /\ state.configHmac.over = confirmed
    BY <1>3, <1>4
  <2>3. QED BY <1>3, <2>1, <2>2
<1>6. QED BY <1>2, <1>5, ServerHmacInjective DEF IInv, TypeOK

THEOREM KeepIsInSync == Spec => []KeepMeansInSync
BY Invariance, KeepIsRight, PTL

(* Update overwrites only secrets Terraform is known to have stored. *)
LEMMA OverwritesKnown ==
  ASSUME IInv, NEW s \in Secrets,
         pc = "update", server.secret = s, decision = "send", ~disturbed
  PROVE  s = confirmed \/ state.configHmac = NoHmac
<1>1. ServerHmac(s) # NoHmac
  BY ServerHmacType, TextsAssumption
<1>2. state.configHmac = NoHmac \/ ServerHmac(s) = state.hmacUsed
  BY <1>1, PlanMeaning DEF IInv, TypeOK, DecisionIsCurrent
<1>3. state.configHmac # NoHmac => state.hmacUsed = ServerHmac(confirmed)
  BY DEF IInv, DigestsOfConfirmed
<1>4. QED
  BY <1>2, <1>3, ServerHmacInjective DEF IInv, TypeOK

(* Only a call that sends secrets changes the secrets of the catalog. *)
LEMMA OnlySendsChangeSecrets ==
  ASSUME TypeOK, Next, pc = "update", pc' = "idle", server'.secret # server.secret
  PROVE  decision = "send"
<1>1. CASE Terraform
  <2>1. UpdateCall \/ UpdateReplyLost
    BY <1>1 DEF Terraform, PlanTracked, PlanUntracked, ApplyNothing, Create, CreateFails, UpdateRead,
       UpdateFindsNothing, UpdateReadFails, UpdateNoCall, UpdateFails, Crash, Delete, DeleteFails
  <2>2. server' = UpdatedCatalog
    BY <2>1 DEF UpdateCall, UpdateReplyLost
  <2>3. QED
    BY <2>2 DEF UpdatedCatalog, Sends, TypeOK, Catalogs
<1>2. CASE Environment
  BY <1>2 DEF Environment, EditConfig, Import, ApiSetSecret, ApiSetAttrs, ApiDelete, ApiCreate, ApiCall, tfVars
<1>3. QED BY <1>1, <1>2 DEF Next

(* Secrets written in Boundary by others are never overwritten by an       *)
(* Update that could have noticed them.                                    *)
THEOREM ForeignSecretsKept == Spec => KeepsForeignSecrets
<1>1. ASSUME IInv, [Next]_vars, NEW s \in Secrets,
             pc = "update", pc' = "idle", server.secret = s, server'.secret # s
      PROVE  s = confirmed \/ state.configHmac = NoHmac \/ disturbed
  <2>1. Next
    BY <1>1 DEF vars
  <2>2. decision = "send"
    BY <1>1, <2>1, OnlySendsChangeSecrets DEF IInv
  <2>3. QED
    BY <1>1, <2>2, OverwritesKnown
<1>2. IInv /\ [Next]_vars => [OverwritesOnlyKnown]_vars
  BY <1>1 DEF OverwritesOnlyKnown
<1>3. QED
  BY <1>2, Invariance, PTL DEF Spec, KeepsForeignSecrets

-----------------------------------------------------------------------------
(* What an Update achieves, and what is settled.                           *)

(* A text that does not parse ends Update before its second half. *)
ReadsBeforeItSends == pc = "update" => decision # "error"

LEMMA ReadsBeforeItSendsStep ==
  ASSUME ReadsBeforeItSends, [Next]_vars
  PROVE  ReadsBeforeItSends'
BY DEF ReadsBeforeItSends, Next, Terraform, Environment, PlanTracked, PlanUntracked, ApplyNothing,
       Create, CreateFails, UpdateRead, UpdateFindsNothing, UpdateReadFails, UpdateCall,
       UpdateNoCall, UpdateFails, UpdateReplyLost, Crash, Delete, DeleteFails, Return, EditConfig,
       Import, ApiSetSecret, ApiSetAttrs, ApiDelete, ApiCreate, ApiCall, vars, tfVars

LEMMA Reads == Spec => []ReadsBeforeItSends
<1>1. Init => ReadsBeforeItSends
  BY DEF Init, ReadsBeforeItSends
<1>2. QED BY <1>1, ReadsBeforeItSendsStep, PTL DEF Spec

(* The digests are forgotten only if there is nothing they could be of. *)
LEMMA ClearMeansNone ==
  ASSUME IInv, pc = "update", ~disturbed, text # "", decision = "clear"
  PROVE  server.secret = SanitizeJson(text)
<1>1. ServerHmac(server.secret) = NoHmac /\ text = "null"
  BY DEF IInv, DecisionIsCurrent, CalculateConfigHmacPlan, CompareDigests
<1>2. server.secret = NoSecret
  BY <1>1, ServerHmacType DEF IInv, TypeOK, Catalogs
<1>3. QED BY <1>1, <1>2 DEF SanitizeJson

(* What Update does not send is right already, or in state 6a. *)
LEMMA UnsentIsRight ==
  ASSUME IInv, ReadsBeforeItSends, pc = "update", ~disturbed, text # "", ~Sends, decision # "warn"
  PROVE  server.secret = SanitizeJson(text)
<1>1. decision \in {"clear", "keep"}
  BY DEF IInv, TypeOK, Decisions, ReadsBeforeItSends, Sends
<1>2. QED BY <1>1, ClearMeansNone, KeepIsRight DEF KeepMeansInSync

LEMMA SuccessStep ==
  ASSUME IInv, ReadsBeforeItSends, [Next]_vars, pc = "update", pc' = "idle", diags' = {},
         ~disturbed, text # "", decision # "warn"
  PROVE  server'.secret = SanitizeJson(text)
<1>1. CASE UpdateCall
  <2>1. server'.secret = IF Sends THEN SanitizeJson(text) ELSE server.secret
    BY <1>1, UpdatedCatalogType DEF UpdateCall, IInv
  <2>2. QED BY <2>1, UnsentIsRight
<1>2. CASE UpdateNoCall
  BY <1>2, UnsentIsRight DEF UpdateNoCall, NeedsCall
<1>3. QED
  BY <1>1, <1>2
  DEF Next, Terraform, Environment, PlanTracked, PlanUntracked, ApplyNothing, Create, CreateFails,
      UpdateRead, UpdateFindsNothing, UpdateReadFails, UpdateFails, UpdateReplyLost, Crash, Delete,
      DeleteFails, Return, EditConfig, Import, ApiSetSecret, ApiSetAttrs, ApiDelete, ApiCreate,
      ApiCall, vars, tfVars

(* An Update that returns without a diagnostic, and not in state 6a, has   *)
(* made the secrets those it was called with, unless they were changed     *)
(* between its two calls: whichever of the other states it met, and        *)
(* whatever the digests had been through.                                  *)
THEOREM UpdateIsComplete ==
  Spec => [][ pc = "update" /\ pc' = "idle" /\ diags' = {} /\ ~disturbed /\ text # "" /\ decision # "warn"
                => server'.secret = SanitizeJson(text) ]_vars
<1>1. IInv /\ ReadsBeforeItSends /\ [Next]_vars =>
        [ pc = "update" /\ pc' = "idle" /\ diags' = {} /\ ~disturbed /\ text # "" /\ decision # "warn"
            => server'.secret = SanitizeJson(text) ]_vars
  BY SuccessStep
<1>2. QED BY <1>1, Invariance, Reads, PTL DEF Spec

(* Update works on what is configured and on secrets nobody has changed.   *)
UpToDate ==
  pc = "update" => ~disturbed /\ text = config.secrets /\ planned = config.attrs

(* As long as the digests and the secrets are, it is as settled as before. *)
LEMMA AgreeStill ==
  ASSUME SecretsAgree, config' = config,
         server'.secret = server.secret \/ server'.secret = SanitizeJson(config.secrets),
         \/ state'.configHmac = state.configHmac /\ state'.hmacUsed = state.hmacUsed
         \/ server'.secret = SanitizeJson(config.secrets)
         \/ config.secrets = ""
  PROVE  SecretsAgree'
BY DEF SecretsAgree, Mismatch

LEMMA SettledStep ==
  ASSUME IInv, [Next]_vars, Terraform, Settled, UpToDate
  PROVE  Settled'
<1>0. TypeOK
  BY DEF IInv
<1>1. config' = config
  BY DEF Terraform, PlanTracked, PlanUntracked, ApplyNothing, Create, CreateFails, UpdateRead,
         UpdateFindsNothing, UpdateReadFails, UpdateCall, UpdateNoCall, UpdateFails, UpdateReplyLost,
         Crash, Delete, DeleteFails
<1>2. CASE ~config.here /\ ~state.tracked
  <2>1. pc # "update"
    BY <1>2 DEF IInv, DecisionIsCurrent
  <2>2. state' = state
    BY <1>2, <2>1
    DEF Terraform, PlanTracked, PlanUntracked, ApplyNothing, Create, CreateFails, UpdateRead,
        UpdateFindsNothing, UpdateReadFails, UpdateCall, UpdateNoCall, UpdateFails, UpdateReplyLost,
        Crash, Delete, DeleteFails
  <2>3. QED BY <1>1, <1>2, <2>2 DEF Settled
<1>3. CASE config.here /\ config.secrets \in Texts /\ SanitizeJson(config.secrets) = Malformed
  BY <1>1, <1>3 DEF Settled
<1>4. CASE /\ config.here /\ state.tracked /\ server.exists
           /\ server.attrs = config.attrs /\ SecretsAgree
  <2>1. ASSUME state'.tracked, server'.exists, server'.attrs = config.attrs, SecretsAgree'
        PROVE  Settled'
    BY <1>1, <1>4, <2>1 DEF Settled
  <2>2. \A a \in Attrs : /\ PlannedState(a).tracked
                         /\ PlannedState(a).configHmac = state.configHmac
                         /\ PlannedState(a).hmacUsed = state.hmacUsed
    BY <1>0, <1>4, PlannedStateType DEF TypeOK
  <2>3. CASE /\ server' = server /\ state'.tracked
             /\ state'.configHmac = state.configHmac /\ state'.hmacUsed = state.hmacUsed
    BY <1>1, <1>4, <2>1, <2>3, AgreeStill
  <2>4. CASE PlanTracked
    <3>1. state' = SetFromResponse(state, server) /\ server' = server
      BY <1>4, <2>4 DEF PlanTracked
    <3>2. /\ state'.tracked
          /\ state'.configHmac = state.configHmac /\ state'.hmacUsed = state.hmacUsed
      BY <1>0, <3>1, SetFromResponseType DEF TypeOK
    <3>3. QED BY <2>3, <3>1, <3>2
  <2>5. CASE UpdateRead \/ UpdateReadFails
    BY <1>0, <1>4, <2>2, <2>3, <2>5 DEF UpdateRead, UpdateReadFails, TypeOK, Configs
  <2>6. CASE UpdateFails
    BY <1>0, <2>2, <2>3, <2>6 DEF UpdateFails, TypeOK
  <2>7. pc = "update" => /\ UpdatedCatalog.exists /\ UpdatedCatalog.attrs = config.attrs
                         /\ UpdatedCatalog.secret = IF Sends THEN SanitizeJson(config.secrets)
                                                     ELSE server.secret
    <3>1. SUFFICES ASSUME pc = "update" PROVE UpdatedAttrs = config.attrs
      BY <1>0, <1>4, <3>1 DEF UpdatedCatalog, UpToDate, TypeOK, Catalogs
    <3>2. planned = config.attrs /\ server.attrs = config.attrs /\ config.attrs \in Attrs
      BY <1>0, <1>4, <3>1 DEF UpToDate, TypeOK, Configs
    <3>3. QED BY <3>2 DEF UpdatedAttrs, Attrs
  <2>8. ASSUME pc = "update", NEW st \in States, st.tracked,
               st.configHmac = state.configHmac, st.hmacUsed = state.hmacUsed
        PROVE  /\ SaveSecretsInformation(st).tracked
               /\ \/ SaveSecretsInformation(st).configHmac = state.configHmac
                     /\ SaveSecretsInformation(st).hmacUsed = state.hmacUsed
                  \/ Sends
                  \/ config.secrets = "" \/ server.secret = SanitizeJson(config.secrets)
    <3>1. CASE decision = "clear"
      <4>1. config.secrets = "" \/ server.secret = SanitizeJson(config.secrets)
        BY <2>8, <3>1, ClearMeansNone DEF UpToDate
      <4>2. SaveSecretsInformation(st).tracked
        BY <2>8, <3>1 DEF SaveSecretsInformation, States
      <4>3. QED BY <4>1, <4>2
    <3>2. CASE decision = "send"
      BY <2>8, <3>2 DEF SaveSecretsInformation, RememberSent, Sends, States
    <3>3. CASE decision \notin {"clear", "send"}
      BY <2>8, <3>3, SaveCases
    <3>4. QED BY <3>1, <3>2, <3>3
  <2>9. CASE UpdateCall
    <3>1. /\ server' = UpdatedCatalog
          /\ state' = SaveSecretsInformation(SetFromResponse(state, UpdatedCatalog))
      BY <2>9 DEF UpdateCall
    <3>2. UpdatedCatalog \in Catalogs
      BY <1>0, <2>9, UpdatedCatalogType DEF UpdateCall, IInv, DecisionIsCurrent
    <3>3. /\ SetFromResponse(state, UpdatedCatalog) \in States
          /\ SetFromResponse(state, UpdatedCatalog).tracked
          /\ SetFromResponse(state, UpdatedCatalog).configHmac = state.configHmac
          /\ SetFromResponse(state, UpdatedCatalog).hmacUsed = state.hmacUsed
      BY <1>0, <3>2, SetFromResponseType DEF TypeOK
    <3>4. pc = "update"
      BY <2>9 DEF UpdateCall
    <3>5. SecretsAgree'
      BY <1>1, <1>4, <2>7, <2>8, <3>1, <3>3, <3>4, AgreeStill
    <3>6. QED BY <2>1, <2>7, <2>8, <3>1, <3>3, <3>4, <3>5
  <2>10. CASE UpdateNoCall
    <3>1. /\ server' = server /\ state' = SaveSecretsInformation(state)
          /\ pc = "update" /\ ~Sends /\ state \in States
      BY <1>0, <2>10 DEF UpdateNoCall, NeedsCall, TypeOK
    <3>2. state'.tracked /\ SecretsAgree'
      BY <1>1, <1>4, <2>8, <3>1, AgreeStill
    <3>3. QED BY <1>4, <2>1, <3>1, <3>2
  <2>11. CASE UpdateReplyLost
    <3>1. /\ server' = UpdatedCatalog /\ pc = "update" /\ state'.tracked
          /\ state'.configHmac = state.configHmac /\ state'.hmacUsed = state.hmacUsed
      BY <1>0, <1>4, <2>2, <2>11 DEF UpdateReplyLost, TypeOK
    <3>2. SecretsAgree'
      BY <1>1, <1>4, <2>7, <3>1, AgreeStill
    <3>3. QED BY <2>1, <2>7, <3>1, <3>2
  <2>12. CASE Crash
    BY <1>4, <2>3, <2>12 DEF Crash
  <2>13. QED
    BY <1>4, <2>4, <2>5, <2>6, <2>9, <2>10, <2>11, <2>12
    DEF Terraform, PlanUntracked, ApplyNothing, Create, CreateFails, UpdateFindsNothing, Delete,
        DeleteFails
<1>5. QED BY <1>2, <1>3, <1>4 DEF Settled

(* What is settled stays settled: no refresh, no half of an Update and no  *)
(* failure brings the secrets and the configuration apart again, as long   *)
(* as Update is not overtaken by an edit or by a change of the secrets.    *)
THEOREM SettledStays == Spec => [][Terraform /\ Settled /\ UpToDate => Settled']_vars
<1>1. IInv /\ [Next]_vars => [Terraform /\ Settled /\ UpToDate => Settled']_vars
  BY SettledStep
<1>2. QED BY <1>1, Invariance, PTL DEF Spec

-----------------------------------------------------------------------------
(* The refinement.                                                         *)

LEMMA ObjectKept ==
  ASSUME server' = server
  PROVE  Object' = Object
BY DEF Object

(* What is wanted of a text: its secrets, if it has any.                   *)
LEMMA WantedPartsOf ==
  ASSUME NEW attrs, NEW t \in AnyText
  PROVE  /\ \A n \in Names : n \in DOMAIN WantedParts(attrs, t) /\ WantedParts(attrs, t)[n] = attrs[n]
         /\ t # "" /\ SanitizeJson(t) # Malformed
              => /\ "secret" \in DOMAIN WantedParts(attrs, t)
                 /\ WantedParts(attrs, t)["secret"] = SanitizeJson(t)
BY TextsAssumption DEF WantedParts

(* The parts of a catalog are its attributes and its secrets.              *)
LEMMA ObjectParts ==
  /\ DOMAIN Object = Names \cup {"secret"} /\ DOMAIN Object' = Names \cup {"secret"}
  /\ Object["secret"] = server.secret /\ Object'["secret"] = server'.secret
  /\ \A n \in Names : Object[n] = server.attrs[n] /\ Object'[n] = server'.attrs[n]
BY TextsAssumption DEF Object

(* The catalog is left alone: nothing happens to it, or the configuration  *)
(* that counts is another one now.                                         *)
LEMMA QuietStep ==
  ASSUME UNCHANGED <<server, outOfBand>>, state'.tracked = state.tracked
  PROVE  [Managed!Next]_(Managed!vars)
<1>1. CASE Wanted' = Wanted
  BY <1>1, ObjectKept DEF Managed!vars
<1>2. CASE Wanted' # Wanted
  BY <1>2, ObjectKept DEF Managed!Edit, Managed!Next
<1>3. QED BY <1>1, <1>2

(* Outside Update what is wanted is what is configured.                    *)
LEMMA WantedKept ==
  ASSUME config' = config, pc # "update", pc' # "update"
  PROVE  Wanted' = Wanted
BY DEF Wanted, WantedParts

LEMMA LoseStep ==
  ASSUME UNCHANGED <<config, server, outOfBand>>, pc # "update", pc' # "update",
         state.tracked, ~state'.tracked
  PROVE  Managed!Lose
BY WantedKept, ObjectKept DEF Managed!Lose

(* Every part becomes what Update was called with, or stays what others    *)
(* have made of it.                                                        *)
LEMMA UpdatePuts ==
  ASSUME IInv, pc = "update", server.exists, ~Unsendable, server' = UpdatedCatalog,
         state'.tracked = state.tracked, outOfBand' = outOfBand
  PROVE  Managed!Put
<1>1. Sends => text # "" /\ SanitizeJson(text) # Malformed
  BY DEF IInv, DecisionIsCurrent, Sends, Unsendable
<1>2. state.tracked /\ text \in AnyText
  BY DEF IInv, TypeOK, DecisionIsCurrent
<1>3. /\ server'.exists
      /\ \A n \in Names : server'.attrs[n] = planned[n] \/ server'.attrs[n] = server.attrs[n]
      /\ server'.secret = IF Sends THEN SanitizeJson(text) ELSE server.secret
  BY UpdatedAttrsType DEF IInv, TypeOK, Catalogs, UpdatedCatalog
<1>4. Wanted.here /\ Wanted.object = WantedParts(planned, text)
  BY DEF Wanted
<1>5. Managed!Towards(Object, Object')
  <2>1. /\ DOMAIN Object' = DOMAIN Object /\ DOMAIN Object' = Names \cup {"secret"}
        /\ Object'["secret"] = server'.secret /\ Object["secret"] = server.secret
        /\ \A n \in Names : Object'[n] = server'.attrs[n] /\ Object[n] = server.attrs[n]
    BY ObjectParts
  <2>2. \A n \in Names : n \in DOMAIN Wanted.object /\ Wanted.object[n] = planned[n]
    <3>1. \A n \in Names : /\ n \in DOMAIN WantedParts(planned, text)
                           /\ WantedParts(planned, text)[n] = planned[n]
      BY <1>2, WantedPartsOf
    <3>2. QED BY <1>4, <3>1
  <2>3. \A n \in Names : Object'[n] = Object[n] \/ Object'[n] = Wanted.object[n]
    BY <1>3, <2>1, <2>2
  <2>4. Sends => /\ "secret" \in DOMAIN Wanted.object
                 /\ Wanted.object["secret"] = SanitizeJson(text)
    BY <1>1, <1>2, <1>4, WantedPartsOf
  <2>5. \/ Object'["secret"] = Object["secret"]
        \/ "secret" \in DOMAIN Wanted.object /\ Object'["secret"] = Wanted.object["secret"]
    BY <1>3, <2>1, <2>4
  <2>6. QED BY <2>1, <2>2, <2>3, <2>5 DEF Managed!Towards
<1>6. QED BY <1>2, <1>3, <1>4, <1>5 DEF Managed!Put

(* A new catalog has the configured secrets, or none.                      *)
LEMMA CreateMakes ==
  ASSUME TypeOK, Create
  PROVE  Managed!Make
<1> DEFINE secret == IF config.secrets = "" THEN NoSecret ELSE SanitizeJson(config.secrets)
<1>1. /\ config.here /\ ~state.tracked /\ UNCHANGED <<config, outOfBand>>
      /\ pc # "update" /\ pc' # "update"
      /\ server' = [exists |-> TRUE, attrs |-> config.attrs, secret |-> secret]
      /\ state' = RememberSent(SetFromResponse(state, server'), config.secrets)
      /\ config.secrets \in Texts => SanitizeJson(config.secrets) # Malformed
  BY DEF Create, Return, bounds
<1>2. config.secrets \in AnyText
  BY DEF TypeOK, Configs
<1>3. secret = NoSecret \/ (/\ config.secrets # "" /\ SanitizeJson(config.secrets) # Malformed
                             /\ secret = SanitizeJson(config.secrets))
  BY <1>1, <1>2 DEF AnyText, SanitizeJson
<1> HIDE DEF secret
<1>4. Wanted.here /\ Wanted.object = WantedParts(config.attrs, config.secrets) /\ Wanted' = Wanted
  BY <1>1, WantedKept DEF Wanted
<1>5. Managed!IsNew(Object')
  <2>1. /\ DOMAIN Object' = Names \cup {"secret"} /\ Object'["secret"] = secret
        /\ \A n \in Names : Object'[n] = config.attrs[n]
    BY <1>1, ObjectParts
  <2>2. \A n \in Names : n \in DOMAIN Wanted.object /\ Wanted.object[n] = config.attrs[n]
    <3>1. \A n \in Names : /\ n \in DOMAIN WantedParts(config.attrs, config.secrets)
                           /\ WantedParts(config.attrs, config.secrets)[n] = config.attrs[n]
      BY <1>2, WantedPartsOf
    <3>2. QED BY <1>4, <3>1
  <2>3. secret = NoSecret \/ ("secret" \in DOMAIN Wanted.object /\ Wanted.object["secret"] = secret)
    <3>1. SUFFICES ASSUME config.secrets # "", SanitizeJson(config.secrets) # Malformed,
                          secret = SanitizeJson(config.secrets)
                   PROVE  "secret" \in DOMAIN Wanted.object /\ Wanted.object["secret"] = secret
      BY <1>3
    <3>2. /\ "secret" \in DOMAIN WantedParts(config.attrs, config.secrets)
          /\ WantedParts(config.attrs, config.secrets)["secret"] = SanitizeJson(config.secrets)
      BY <1>2, <3>1, WantedPartsOf
    <3>3. QED BY <1>4, <3>1, <3>2
  <2>4. QED BY <2>1, <2>2, <2>3 DEF Managed!IsNew
<1>6. state'.tracked \in BOOLEAN
  BY <1>1 DEF RememberSent, SetFromResponse, TypeOK, States
<1>7. QED BY <1>1, <1>4, <1>5, <1>6 DEF Managed!Make

LEMMA ManagedStep ==
  ASSUME IInv, [Next]_vars
  PROVE  [Managed!Next]_(Managed!vars)
<1>0. TypeOK
  BY DEF IInv
<1>1. CASE PlanTracked \/ UpdateFindsNothing
  <2>1. /\ UNCHANGED <<config, server, outOfBand>> /\ pc # "update" /\ pc' # "update"
        /\ state.tracked
    BY <1>1 DEF PlanTracked, UpdateFindsNothing, Return, bounds
  <2>2. CASE server.exists
    <3>1. state' = SetFromResponse(state, server)
      BY <1>1, <2>2 DEF PlanTracked, UpdateFindsNothing
    <3>2. state'.tracked = state.tracked
      BY <1>0, <2>1, <3>1 DEF TypeOK, States, SetFromResponse
    <3>3. QED BY <2>1, <3>2, QuietStep
  <2>3. CASE ~server.exists
    <3>1. ~state'.tracked
      BY <1>0, <1>1, <2>3, UntrackedType DEF PlanTracked, UpdateFindsNothing, TypeOK
    <3>2. QED BY <2>1, <3>1, LoseStep DEF Managed!Next
  <2>4. QED BY <2>2, <2>3
<1>2. \A a : PlannedState(a).tracked = state.tracked
  BY <1>0 DEF PlannedState, TypeOK, States
<1>3. CASE PlanUntracked \/ ApplyNothing \/ CreateFails \/ UpdateRead \/ UpdateReadFails
           \/ UpdateFails \/ Crash \/ DeleteFails
  <2>1. UNCHANGED <<server, outOfBand>> /\ state'.tracked = state.tracked
    BY <1>2, <1>3 DEF PlanUntracked, ApplyNothing, CreateFails, UpdateRead, UpdateReadFails,
                      UpdateFails, Crash, DeleteFails, bounds
  <2>2. QED BY <2>1, QuietStep
<1>4. CASE UpdateNoCall
  <2>1. UNCHANGED <<server, outOfBand>> /\ state' = SaveSecretsInformation(state)
    BY <1>4 DEF UpdateNoCall, bounds
  <2>2. state'.tracked = state.tracked
    BY <1>0, <2>1 DEF SaveSecretsInformation, RememberSent, TypeOK, States
  <2>3. QED BY <2>1, <2>2, QuietStep
<1>5. CASE UpdateCall
  <2>1. /\ pc = "update" /\ server.exists /\ ~Unsendable /\ server' = UpdatedCatalog
        /\ state' = SaveSecretsInformation(SetFromResponse(state, UpdatedCatalog))
        /\ outOfBand' = outOfBand
    BY <1>5 DEF UpdateCall, bounds
  <2>2. state.tracked
    BY <2>1 DEF IInv, DecisionIsCurrent
  <2>3. state'.tracked = state.tracked
    BY <1>0, <2>1, <2>2 DEF SaveSecretsInformation, RememberSent, SetFromResponse, TypeOK, States
  <2>4. QED BY <2>1, <2>3, UpdatePuts DEF Managed!Next
<1>6. CASE UpdateReplyLost
  <2>1. /\ pc = "update" /\ server.exists /\ ~Unsendable /\ server' = UpdatedCatalog
        /\ state'.tracked = state.tracked /\ outOfBand' = outOfBand
    BY <1>2, <1>6 DEF UpdateReplyLost
  <2>2. QED BY <2>1, UpdatePuts DEF Managed!Next
<1>7. CASE Create
  BY <1>0, <1>7, CreateMakes DEF Managed!Next
<1>8. CASE Delete
  <2>1. /\ state.tracked /\ server.exists /\ ~server'.exists
        /\ UNCHANGED <<config, outOfBand>> /\ pc # "update" /\ pc' # "update"
    BY <1>0, <1>8 DEF Delete, Return, TypeOK, Catalogs, bounds
  <2>2. state' \in States
    BY <1>0, <1>8, UntrackedType DEF Delete, TypeOK
  <2>3. QED BY <2>1, <2>2, WantedKept DEF Managed!Destroy, Managed!Next, States
<1>9. CASE Import
  <2>1. /\ config.here /\ server.exists /\ UNCHANGED <<config, server, outOfBand>>
        /\ state' = SetFromResponse(state, server) /\ pc # "update" /\ pc' # "update"
    BY <1>9 DEF Import, bounds
  <2>2. state'.tracked
    BY <1>0, <2>1, SetFromResponseType DEF TypeOK
  <2>3. Wanted.here
    BY <2>1 DEF Wanted
  <2>4. QED BY <2>1, <2>2, <2>3, WantedKept, ObjectKept DEF Managed!Adopt, Managed!Next
<1>10. CASE EditConfig
  BY <1>10, QuietStep DEF EditConfig, tfVars
<1>11. CASE ApiSetSecret \/ ApiSetAttrs \/ ApiDelete \/ ApiCreate
  <2>1. UNCHANGED <<config, tfVars>> /\ outOfBand' = outOfBand + 1
    BY <1>11 DEF ApiSetSecret, ApiSetAttrs, ApiDelete, ApiCreate, ApiCall
  <2>2. Wanted' = Wanted /\ state' = state
    BY <2>1 DEF tfVars, Wanted, WantedParts
  <2>3. QED BY <2>1, <2>2 DEF Managed!Others, Managed!Next
<1>12. CASE UNCHANGED vars
  BY <1>12, QuietStep DEF vars, tfVars, bounds
<1>13. QED
  BY <1>1, <1>3, <1>4, <1>5, <1>6, <1>7, <1>8, <1>9, <1>10, <1>11, <1>12
  DEF Next, Terraform, Environment

(* Update begins with what is configured, and keeps to it whatever others  *)
(* configure before its second half.                                       *)
LEMMA UpdateKeepsItsWord ==
  ASSUME IInv, [Next]_vars, pc' = "update"
  PROVE  Wanted' = Wanted
<1>1. CASE UpdateRead
  <2>1. /\ pc = "planned" /\ config.here
        /\ planned' = config.attrs /\ text' = config.secrets
    BY <1>1 DEF UpdateRead, Return
  <2>2. config.here = TRUE
    BY <2>1 DEF IInv, TypeOK, Configs
  <2>3. QED BY <2>1, <2>2 DEF Wanted, WantedParts
<1>2. CASE UNCHANGED <<pc, planned, text>>
  BY <1>2 DEF Wanted, WantedParts
<1>3. QED
  BY <1>1, <1>2 DEF Next, Terraform, Environment, PlanTracked, PlanUntracked, ApplyNothing, Create,
     CreateFails, UpdateFindsNothing, UpdateReadFails, UpdateCall, UpdateNoCall, UpdateFails,
     UpdateReplyLost, Crash, Delete, DeleteFails, Import, EditConfig, ApiSetSecret, ApiSetAttrs,
     ApiDelete, ApiCreate, ApiCall, Return, vars, tfVars

(* Secrets only ever become what was configured when a handler was called, *)
(* and only those of a catalog that is in the state.                       *)
THEOREM RefinesManagedObject == Spec => ImplementsManaged
<1> DEFINE Kept == pc' = "update" => UNCHANGED Wanted
<1>1. Init => Managed!Init
  <2>1. SUFFICES ASSUME Init PROVE ~state.tracked /\ outOfBand = 0
    BY DEF Managed!Init
  <2>2. PICK a \in Attrs : state = [tracked |-> FALSE, attrs |-> a, secretsHmac |-> NoHmac,
                                    configHmac |-> NoHmac, hmacUsed |-> NoHmac]
    BY <2>1 DEF Init
  <2>3. QED BY <2>1, <2>2 DEF Init
<1>2. IInv /\ [Next]_vars => [Managed!Next]_(Managed!vars)
  BY ManagedStep
<1>3. IInv /\ [Next]_vars => [Kept]_vars
  BY UpdateKeepsItsWord
<1>4. QED BY <1>1, <1>2, <1>3, Invariance, PTL DEF Spec, ImplementsManaged, Managed!Spec

=============================================================================
