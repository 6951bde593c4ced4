---------------------------- MODULE PluginSecrets ----------------------------
(***************************************************************************)
(* The secrets of a plugin host catalog (boundary_host_catalog_plugin).    *)
(*                                                                         *)
(* Boundary never returns a secret, only an HMAC of it, so the provider    *)
(* cannot compare the configured secrets_json with what Boundary holds.    *)
(* It keeps two digests in the Terraform state instead: the HMAC Boundary  *)
(* answered when the provider last sent secrets, and an HMAC of the sent   *)
(* configuration keyed by the former.  Every apply runs Update, which      *)
(* reads Boundary's HMAC, decides from it and from the two digests what to *)
(* do with the secrets, and only then sends an update: two API calls that  *)
(* anybody else who uses Boundary's API can get between.                   *)
(*                                                                         *)
(* One Terraform workspace with one such resource is modelled, with the    *)
(* operator who edits its configuration and API users who change the host  *)
(* catalog out of band.                                                    *)
(*                                                                         *)
(* A storage bucket (boundary_storage_bucket) has the same handlers, word  *)
(* for word, for everything that is modelled here.  Its bucket name,       *)
(* prefix and worker filter, which Read does not read back, are left out.  *)
(***************************************************************************)
EXTENDS Naturals

CONSTANTS
  Secrets,     \* JSON objects, as Boundary stores them
  Texts,       \* ways to write a secrets_json, besides "" and "null"
  Doc,         \* Doc[t]: the object text t parses to, or Malformed
  Malformed,   \* the result of parsing what is not JSON
  NoSecret,    \* Boundary holds no secrets for the catalog
  NoHmac,      \* the empty string, where an HMAC is expected
  Names,       \* the other attributes (name, description, attributes_json, ...)
  Values,      \* what they may be
  MaxEdits, MaxOutOfBand, MaxFaults   \* bounds on the environment

(* Texts stands for non-empty strings other than "null"; the placeholders  *)
(* are none of the values they stand beside.                               *)
ASSUME TextsAssumption ==
  /\ Texts \cap {"", "null"} = {}
  /\ Doc \in [Texts -> Secrets \cup {Malformed}]
  /\ Malformed \notin Secrets
  /\ NoSecret \notin Secrets
  /\ "secret" \notin Names

ASSUME BoundsAssumption == MaxEdits \in Nat /\ MaxOutOfBand \in Nat /\ MaxFaults \in Nat

-----------------------------------------------------------------------------
(* HMACs.  A keyed hash is its arguments: two of them are equal just when  *)
(* the keys and the digested values are.                                   *)

(* What Boundary answers as secrets_hmac. *)
ServerHmac(s) == IF s = NoSecret THEN NoHmac ELSE [of |-> s]

ServerHmacs == {[of |-> s] : s \in Secrets}

(* Parsing and marshalling again drops layout and key order; the document  *)
(* null is what Boundary takes as "hold no secrets".                       *)
SanitizeJson(t) == IF t = "null" THEN NoSecret ELSE Doc[t]

CalculateCurrentConfigHmac(h, t) == [key |-> h, over |-> SanitizeJson(t)]

ConfigHmacs == [key : ServerHmacs, over : Secrets \cup {NoSecret}]

(* The empty string is the HMAC of nothing. *)
ASSUME HmacAssumption == NoHmac \notin ServerHmacs \cup ConfigHmacs

-----------------------------------------------------------------------------
VARIABLES
  config,      \* the resource block: is it there, and what it says
  server,      \* the host catalog in Boundary
  state,       \* the resource in the Terraform state
  pc,          \* where Terraform is: idle, planned, or between Update's calls
  text,        \* Update's secretsJson, resolved after its read
  planned,     \* the attributes Update wants
  decision,    \* what calculateConfigHmacPlan answered
  diags,       \* diagnostics of the last handler that returned
  confirmed,   \* history: the last secrets Boundary confirmed storing for Terraform
  disturbed,   \* history: the secrets were changed since Update read the HMAC
  hatch,       \* history: Terraform was told to forget the secrets, and got none since
  edits, outOfBand, faults

tfVars  == <<state, pc, text, planned, decision, diags>>
history == <<confirmed, disturbed, hatch>>
bounds  == <<edits, outOfBand, faults>>
vars    == <<config, server, tfVars, history, bounds>>

AnyText == Texts \cup {"", "null"}

Attrs == [Names -> Values]

Configs == [here : BOOLEAN, attrs : Attrs, secrets : AnyText]
Catalogs == [exists : BOOLEAN, attrs : Attrs, secret : Secrets \cup {NoSecret}]
States == [tracked : BOOLEAN, attrs : Attrs,
           secretsHmac : ServerHmacs \cup {NoHmac},
           configHmac : ConfigHmacs \cup {NoHmac},
           hmacUsed : ServerHmacs \cup {NoHmac}]
Decisions == {"clear", "send", "keep", "warn", "error"}

TypeOK ==
  /\ config \in Configs
  /\ server \in Catalogs
  /\ state \in States
  /\ pc \in {"idle", "planned", "update"}
  /\ text \in AnyText
  /\ planned \in Attrs
  /\ decision \in Decisions
  /\ diags \in SUBSET {"error", "warning", "crash"}
  /\ confirmed \in Secrets \cup {NoSecret}
  /\ disturbed \in BOOLEAN
  /\ hatch \in BOOLEAN
  /\ edits \in 0..MaxEdits
  /\ outOfBand \in 0..MaxOutOfBand
  /\ faults \in 0..MaxFaults

(* No catalog, no state: a workspace before its first apply. *)
Init ==
  /\ config \in Configs
  /\ \E a \in Attrs :
       /\ server = [exists |-> FALSE, attrs |-> a, secret |-> NoSecret]
       /\ state = [tracked |-> FALSE, attrs |-> a, secretsHmac |-> NoHmac,
                   configHmac |-> NoHmac, hmacUsed |-> NoHmac]
       /\ planned = a
  /\ pc = "idle" /\ text = "" /\ decision = "keep" /\ diags = {}
  /\ confirmed = NoSecret /\ disturbed = FALSE /\ hatch = TRUE
  /\ edits = 0 /\ outOfBand = 0 /\ faults = 0

-----------------------------------------------------------------------------
(* What the provider computes.                                             *)

(* States 5 and 6: Boundary has secrets, the configuration has some, and    *)
(* the state has digests of what was sent before.                          *)
OverwritesOnMismatch(h, t, st) ==
  CASE SanitizeJson(t) = Malformed -> "error"
    [] st.configHmac = CalculateCurrentConfigHmac(h, t) -> "keep"
    [] OTHER -> "send"

TrustsTheServerHmac(h, t, st) ==
  CASE SanitizeJson(t) = Malformed -> "error"
    [] h = st.hmacUsed -> "keep"
    [] OTHER -> "warn"

CompareDigests(h, t, st) ==
  CASE SanitizeJson(t) = Malformed -> "error"
    [] st.configHmac = CalculateCurrentConfigHmac(h, t) -> "keep"    \* state 5
    [] OTHER -> IF h # st.hmacUsed THEN "warn" ELSE "send"           \* states 6a, 6b

(* calculateConfigHmacPlan takes the HMAC just read from Boundary, the     *)
(* configured text and the state.                                          *)
CalculateConfigHmacPlan(h, t, st) ==
  CASE h = NoHmac /\ t \in {"", "null"} -> "clear"                \* state 1, and 2 with null
    [] h = NoHmac /\ t \notin {"", "null"} -> "send"              \* state 2
    [] h # NoHmac /\ t = "" -> "clear"                            \* state 3, the escape hatch
    [] h # NoHmac /\ t # "" /\ st.configHmac = NoHmac -> "send"   \* state 4
    [] OTHER -> CompareDigests(h, t, st)

(* Every response carries the catalog as it is after the call. *)
SetSecretFromResponse(st, catalog) ==
  [st EXCEPT !.tracked = TRUE, !.attrs = catalog.attrs, !.secretsHmac = catalog.secret]

SetOnlyHmacFromResponse(st, catalog) ==
  [st EXCEPT !.tracked = TRUE, !.secretsHmac = ServerHmac(catalog.secret)]

SetFromResponse(st, catalog) ==
  [st EXCEPT !.tracked = TRUE, !.attrs = catalog.attrs,
             !.secretsHmac = ServerHmac(catalog.secret)]

(* Remember which secrets Boundary holds, from the HMAC it answered. *)
RememberSent(st, t) ==
  IF st.secretsHmac = NoHmac THEN st
  ELSE [st EXCEPT !.configHmac = CalculateCurrentConfigHmac(st.secretsHmac, t),
                  !.hmacUsed = st.secretsHmac]

SaveUsesRefreshedHmac(st) ==
  CASE decision = "clear" -> [st EXCEPT !.configHmac = NoHmac, !.hmacUsed = NoHmac]
    [] decision = "send" -> RememberSent([st EXCEPT !.secretsHmac = state.secretsHmac], text)
    [] OTHER -> st

SaveKeepsOldDigests(st) ==
  IF decision = "send" THEN RememberSent(st, text) ELSE st

SaveSecretsInformation(st) ==
  CASE decision = "clear" -> [st EXCEPT !.configHmac = NoHmac, !.hmacUsed = NoHmac]
    [] decision = "send" -> RememberSent(st, text)
    [] OTHER -> st

(* SetId(""): the resource leaves the state. *)
Untracked(st) ==
  [st EXCEPT !.tracked = FALSE, !.secretsHmac = NoHmac,
             !.configHmac = NoHmac, !.hmacUsed = NoHmac]

(* An error from Update leaves the planned values in the state. *)
PlannedState(attrs) == [state EXCEPT !.attrs = attrs]

(* A handler returns with diagnostics d; its locals are gone. *)
Return(d) == pc' = "idle" /\ diags' = d /\ text' = "" /\ decision' = "keep"

Forgotten ==
  /\ confirmed' = NoSecret /\ disturbed' = FALSE /\ hatch' = TRUE

-----------------------------------------------------------------------------
(* Terraform.  An apply refreshes the state, plans, and runs one handler.  *)

(* terraform plan: Read, unless there is nothing to read. *)
PlanTracked ==
  /\ pc = "idle" /\ state.tracked
  /\ IF server.exists
     THEN /\ state' = SetFromResponse(state, server)
          /\ UNCHANGED history
     ELSE /\ state' = Untracked(state)
          /\ Forgotten
  /\ pc' = "planned" /\ diags' = {}
  /\ UNCHANGED <<config, server, text, planned, decision, bounds>>

PlanUntracked ==
  /\ pc = "idle" /\ ~state.tracked
  /\ pc' = "planned" /\ diags' = {}
  /\ UNCHANGED <<config, server, state, text, planned, decision, history, bounds>>

(* Neither a block nor an object: nothing to apply. *)
ApplyNothing ==
  /\ pc = "planned" /\ ~config.here /\ ~state.tracked
  /\ Return({})
  /\ UNCHANGED <<config, server, state, planned, history, bounds>>

Create ==
  /\ pc = "planned" /\ config.here /\ ~state.tracked
  /\ config.secrets \in Texts => SanitizeJson(config.secrets) # Malformed
  /\ LET secret == IF config.secrets = "" THEN NoSecret ELSE SanitizeJson(config.secrets) IN
     /\ server' = [exists |-> TRUE, attrs |-> config.attrs, secret |-> secret]
     /\ state' = RememberSent(SetFromResponse(state, server'), config.secrets)
     /\ confirmed' = secret
     /\ hatch' = (secret = NoSecret)
  /\ disturbed' = FALSE
  /\ Return({})
  /\ UNCHANGED <<config, planned, bounds>>

(* A refused call, or secrets that do not parse: no state is kept. *)
CreateFails ==
  /\ pc = "planned" /\ config.here /\ ~state.tracked
  /\ \/ /\ config.secrets \in Texts /\ SanitizeJson(config.secrets) = Malformed
        /\ UNCHANGED faults
     \/ faults < MaxFaults /\ faults' = faults + 1
  /\ Return({"error"})
  /\ UNCHANGED <<config, server, state, planned, history, edits, outOfBand>>

(* The first half of Update: read Boundary's HMAC and decide. *)
UpdateRead ==
  /\ pc = "planned" /\ config.here /\ state.tracked /\ server.exists
  /\ LET plan == CalculateConfigHmacPlan(ServerHmac(server.secret), config.secrets, state) IN
     IF plan = "error"
     THEN Return({"error"}) /\ state' = PlannedState(config.attrs)
     ELSE /\ pc' = "update" /\ text' = config.secrets /\ decision' = plan
          /\ UNCHANGED <<state, diags>>
  /\ planned' = config.attrs
  /\ disturbed' = FALSE
  /\ UNCHANGED <<config, server, confirmed, hatch, bounds>>

UpdateFindsNothing ==
  /\ pc = "planned" /\ config.here /\ state.tracked /\ ~server.exists
  /\ state' = Untracked(state)
  /\ Forgotten
  /\ Return({})
  /\ UNCHANGED <<config, server, planned, bounds>>

UpdateReadFails ==
  /\ pc = "planned" /\ config.here /\ state.tracked
  /\ faults < MaxFaults /\ faults' = faults + 1
  /\ state' = PlannedState(config.attrs)
  /\ Return({"error"})
  /\ UNCHANGED <<config, server, planned, history, edits, outOfBand>>

(* The second half of Update.  The call is made only if there is something *)
(* to send.                                                                *)
Sends == decision = "send"
Unsendable == Sends /\ SanitizeJson(text) = Malformed

(* An attribute is sent if the plan changes it: what somebody else did to  *)
(* any other one since the refresh stays.                                  *)
SentAttrs == {n \in Names : planned[n] # state.attrs[n]}

NeedsCall == Sends \/ SentAttrs # {}

UpdatedAttrs == [n \in Names |-> IF n \in SentAttrs THEN planned[n] ELSE server.attrs[n]]

UpdateSendsNullToForget ==
  [server EXCEPT !.attrs = UpdatedAttrs,
                 !.secret = IF Sends THEN SanitizeJson(text)
                            ELSE IF decision = "clear" THEN NoSecret ELSE server.secret]

UpdatedCatalog ==
  [server EXCEPT !.attrs = UpdatedAttrs,
                 !.secret = IF Sends THEN SanitizeJson(text) ELSE server.secret]

(* What is known for certain once Update has succeeded. *)
UpdateSucceeded ==
  LET stores == Sends /\ SanitizeJson(text) # NoSecret IN
  /\ confirmed' = IF stores THEN SanitizeJson(text) ELSE confirmed
  /\ hatch' = (text = "" \/ (hatch /\ ~stores))
  /\ disturbed' = FALSE

UpdateCall ==
  /\ pc = "update" /\ server.exists /\ NeedsCall /\ ~Unsendable
  /\ server' = UpdatedCatalog
  /\ state' = SaveSecretsInformation(SetFromResponse(state, UpdatedCatalog))
  /\ UpdateSucceeded
  /\ Return({})
  /\ UNCHANGED <<config, planned, bounds>>

UpdateNoCall ==
  /\ pc = "update" /\ ~NeedsCall
  /\ state' = SaveSecretsInformation(state)
  /\ UpdateSucceeded
  /\ Return({})
  /\ UNCHANGED <<config, server, planned, bounds>>

(* Refused by Boundary, refused by the JSON parser, or gone.  The warning  *)
(* of state 6a accompanies errors, and only errors.                        *)
UpdateFails ==
  /\ pc = "update" /\ NeedsCall
  /\ \/ (Unsendable \/ ~server.exists) /\ UNCHANGED faults
     \/ faults < MaxFaults /\ faults' = faults + 1
  /\ state' = PlannedState(planned)
  /\ disturbed' = FALSE
  /\ Return({"error"} \cup IF decision = "warn" THEN {"warning"} ELSE {})
  /\ UNCHANGED <<config, server, planned, confirmed, hatch, edits, outOfBand>>

(* Boundary applied the update, the answer did not arrive: an error for a  *)
(* provider that is still there, nothing for one that was killed.          *)
UpdateReplyLost ==
  /\ pc = "update" /\ server.exists /\ NeedsCall /\ ~Unsendable
  /\ faults < MaxFaults /\ faults' = faults + 1
  /\ server' = UpdatedCatalog
  /\ \/ /\ state' = PlannedState(planned)
        /\ Return({"error"} \cup IF decision = "warn" THEN {"warning"} ELSE {})
     \/ UNCHANGED state /\ Return({"crash"})
  /\ disturbed' = FALSE
  /\ UNCHANGED <<config, planned, confirmed, hatch, edits, outOfBand>>

Crash ==
  /\ pc # "idle"
  /\ faults < MaxFaults /\ faults' = faults + 1
  /\ disturbed' = FALSE
  /\ Return({"crash"})
  /\ UNCHANGED <<config, server, state, planned, confirmed, hatch, edits, outOfBand>>

Delete ==
  /\ pc = "planned" /\ ~config.here /\ state.tracked /\ server.exists
  /\ server' = [server EXCEPT !.exists = FALSE, !.secret = NoSecret]
  /\ state' = Untracked(state)
  /\ Forgotten
  /\ Return({})
  /\ UNCHANGED <<config, planned, bounds>>

DeleteFails ==
  /\ pc = "planned" /\ ~config.here /\ state.tracked
  /\ \/ ~server.exists /\ UNCHANGED faults
     \/ faults < MaxFaults /\ faults' = faults + 1
  /\ Return({"error"})
  /\ UNCHANGED <<config, server, state, planned, history, edits, outOfBand>>

(* terraform import: the id is given, Read fills the rest. *)
Import ==
  /\ pc = "idle" /\ config.here /\ ~state.tracked /\ server.exists
  /\ state' = SetFromResponse(state, server)
  /\ diags' = {}
  /\ UNCHANGED <<config, server, pc, text, planned, decision, history, bounds>>

Terraform ==
  \/ PlanTracked \/ PlanUntracked \/ ApplyNothing
  \/ Create \/ CreateFails
  \/ UpdateRead \/ UpdateFindsNothing \/ UpdateReadFails
  \/ UpdateCall \/ UpdateNoCall \/ UpdateFails \/ UpdateReplyLost
  \/ Delete \/ DeleteFails
  \/ Crash

-----------------------------------------------------------------------------
(* Everybody else.                                                         *)

(* The operator edits the configuration, or a file it refers to. *)
EditConfig ==
  /\ edits < MaxEdits /\ edits' = edits + 1
  /\ config' \in Configs \ {config}
  /\ UNCHANGED <<server, tfVars, history, outOfBand, faults>>

ApiCall ==
  /\ outOfBand < MaxOutOfBand /\ outOfBand' = outOfBand + 1
  /\ UNCHANGED <<config, tfVars, confirmed, hatch, edits, faults>>

(* Secrets are rotated, or cleared, directly in Boundary. *)
ApiSetSecret ==
  /\ server.exists
  /\ \E s \in (Secrets \cup {NoSecret}) \ {server.secret} : server' = [server EXCEPT !.secret = s]
  /\ disturbed' = (disturbed \/ pc = "update")
  /\ ApiCall

ApiSetAttrs ==
  /\ server.exists
  /\ \E n \in Names, v \in Values :
       /\ v # server.attrs[n]
       /\ server' = [server EXCEPT !.attrs[n] = v]
  /\ UNCHANGED disturbed
  /\ ApiCall

ApiDelete ==
  /\ server.exists
  /\ server' = [server EXCEPT !.exists = FALSE, !.secret = NoSecret]
  /\ disturbed' = (disturbed \/ pc = "update")
  /\ ApiCall

(* A catalog made in Boundary, to be imported. *)
ApiCreate ==
  /\ ~server.exists /\ ~state.tracked
  /\ \E a \in Attrs, s \in Secrets \cup {NoSecret} :
        server' = [exists |-> TRUE, attrs |-> a, secret |-> s]
  /\ UNCHANGED disturbed
  /\ ApiCall

Environment ==
  EditConfig \/ Import \/ ApiSetSecret \/ ApiSetAttrs \/ ApiDelete \/ ApiCreate

Next == Terraform \/ Environment

Spec == Init /\ [][Next]_vars

(* The operator keeps running terraform apply, and a handler that has      *)
(* started runs to its end.  Faults are finitely many.                     *)
FairSpec == Spec /\ WF_vars(Terraform)

-----------------------------------------------------------------------------
(* Properties.                                                             *)

(* The two digests of the state belong together, and to the last secrets   *)
(* Boundary confirmed: whatever was rejected, lost or changed out of band  *)
(* since, the provider compares against what it once really sent.          *)
DigestsOfConfirmed ==
  \/ state.configHmac = NoHmac /\ state.hmacUsed = NoHmac
  \/ /\ confirmed # NoSecret
     /\ state.hmacUsed = ServerHmac(confirmed)
     /\ state.configHmac = [key |-> state.hmacUsed, over |-> confirmed]

(* State 5 ("known to match, so do nothing") is right: unless somebody was *)
(* quicker, Boundary holds the very secrets the configuration asks for.    *)
KeepMeansInSync ==
  pc = "update" /\ decision = "keep" /\ ~disturbed => server.secret = SanitizeJson(text)

(* Secrets written directly in Boundary survive Terraform.  Update         *)
(* replaces only secrets Terraform stored itself, unless the state knows   *)
(* of none (import, escape hatch), or they arrived after Update looked.    *)
OverwritesOnlyKnown ==
  \A s \in Secrets :
    pc = "update" /\ pc' = "idle" /\ server.secret = s /\ server'.secret # s
      => s = confirmed \/ state.configHmac = NoHmac \/ disturbed

KeepsForeignSecrets == [][OverwritesOnlyKnown]_vars

(* The escape hatch of state 6a opens: once an apply has run without       *)
(* secrets_json, secrets that are added back are sent, whatever Boundary   *)
(* holds by then.                                                          *)
EscapeHatchOpens ==
  pc = "update" /\ hatch /\ text \in Texts => decision = "send"

(* Boundary and the configuration agree, or the provider knows that it     *)
(* cannot tell who is right (state 6a), or the JSON is broken.  Secrets    *)
(* that were cleared are no such case: they are sent again (state 2).      *)
Mismatch ==
  /\ server.secret # NoSecret
  /\ state.configHmac # NoHmac /\ state.hmacUsed # ServerHmac(server.secret)

SecretsAgree ==
  config.secrets # "" => Mismatch \/ server.secret = SanitizeJson(config.secrets)

Settled ==
  \/ ~config.here /\ ~state.tracked
  \/ config.here /\ config.secrets \in Texts /\ SanitizeJson(config.secrets) = Malformed
  \/ config.here /\ state.tracked /\ server.exists /\ server.attrs = config.attrs /\ SecretsAgree

(* Applying again and again gets there in spite of failed calls, lost      *)
(* answers and crashes: nothing an error left in the state (the planned    *)
(* values are saved although Boundary refused them) hides a difference.    *)
Converges == <>[]Settled

(* One object that is managed: its parts are the attributes and the        *)
(* secrets.  No secrets_json leaves the secrets to Boundary, as does one   *)
(* that does not parse.  Inside Update what is wanted is what Update was   *)
(* called with; what is configured meanwhile counts when it has returned.  *)
WantedParts(attrs, t) ==
  [p \in Names \cup (IF t = "" \/ SanitizeJson(t) = Malformed THEN {} ELSE {"secret"})
     |-> IF p = "secret" THEN SanitizeJson(t) ELSE attrs[p]]

Wanted ==
  IF pc = "update" THEN [here |-> TRUE, object |-> WantedParts(planned, text)]
  ELSE [here |-> config.here, object |-> WantedParts(config.attrs, config.secrets)]

Object ==
  [p \in Names \cup {"secret"} |-> IF p = "secret" THEN server.secret ELSE server.attrs[p]]

Managed == INSTANCE ManagedObject WITH
  Fresh <- {NoSecret},
  wanted <- Wanted,
  actual <- [exists |-> server.exists, object |-> Object],
  owned <- state.tracked,
  others <- outOfBand

(* Whatever the digests say, and however the calls of Update fail, secrets *)
(* only ever become what was configured when the handler was called: none  *)
(* is cleared, replaced by something that did not parse, or touched        *)
(* without a secrets_json, and no catalog is written or deleted that is    *)
(* not in the state.                                                       *)
ImplementsManaged == Managed!Spec /\ [][pc' = "update" => UNCHANGED Wanted]_vars

(* "State 6a: mismatch. Warn the user."                                    *)
MismatchIsReported ==
  [][ pc = "update" /\ pc' = "idle" /\ decision = "warn" /\ "crash" \notin diags'
        => "warning" \in diags' ]_vars

(* secrets_json: 'Set to a string "null" to clear any existing values.'    *)
NullClears ==
  [][ pc = "update" /\ pc' = "idle" /\ text = "null" /\ diags' = {} /\ ~disturbed
        => server'.secret = NoSecret ]_vars

=============================================================================
