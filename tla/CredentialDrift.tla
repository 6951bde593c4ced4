--------------------------- MODULE CredentialDrift ---------------------------
(***************************************************************************)
(* The secrets of static credentials and of Vault credential stores        *)
(* (boundary_credential_username_password, _password,                      *)
(* _username_password_domain, _ssh_private_key, _json and                  *)
(* boundary_credential_store_vault).                                       *)
(*                                                                         *)
(* Boundary answers an HMAC for each secret field.  The Terraform state    *)
(* holds the secret as configured and the last HMAC seen.  A Read that     *)
(* finds another HMAC than the state's replaces the secret in the state by *)
(* "(changed in Boundary)", so that the plan differs from it and Update    *)
(* sends the configured secret again.  Create and Update take the HMAC of  *)
(* the response without comparing.                                         *)
(*                                                                         *)
(* The six resources run the same handlers over different fields; the      *)
(* constants say how a field behaves.  Terraform refreshes, plans and      *)
(* applies one resource; API users change it in between.                   *)
(***************************************************************************)
EXTENDS Naturals

CONSTANTS
  Fields,      \* secret fields: password, object, private key, token, ...
  Optional,    \* may be left out: passphrase, client certificate key
  Clearable,   \* leaving it out clears it in Boundary: client certificate key
  Expiring,    \* Boundary forgets its HMAC when it expires: Vault token
  Secrets,     \* values of the fields
  Unset,       \* the field is absent
  Marker,      \* "(changed in Boundary)"
  NoHmac,      \* the empty string, where an HMAC is expected
  Attrs,       \* values of the readable attributes (name, username, ...)
  MaxEdits, MaxOutOfBand, MaxFaults   \* bounds on the environment

ASSUME FieldsAssumption ==
  /\ Optional \subseteq Fields
  /\ Clearable \subseteq Optional
  /\ Expiring \subseteq Fields \ Optional
  /\ "attrs" \notin Fields

ASSUME SecretsAssumption ==
  /\ {Unset, Marker} \cap Secrets = {}
  /\ Unset # Marker

ASSUME BoundsAssumption == MaxEdits \in Nat /\ MaxOutOfBand \in Nat /\ MaxFaults \in Nat

(* A keyed hash is its argument; of nothing there is none. *)
HmacOf(s) == IF s = Unset THEN NoHmac ELSE [of |-> s]
Hmacs == {HmacOf(s) : s \in Secrets}

ASSUME HmacAssumption == NoHmac \notin Hmacs

-----------------------------------------------------------------------------
VARIABLES
  config,      \* the resource block: is it there, and what it says
  server,      \* the credential in Boundary
  state,       \* the resource in the Terraform state
  pc,          \* idle, or planned: refreshed, with a handler still to run
  diags,       \* diagnostics of the last handler that returned
  disturbed,   \* history: fields changed in Boundary since the refresh
  spoiled,     \* history: fields whose HMAC in the state may not be of the secret beside it
  edits, outOfBand, faults

history == <<disturbed, spoiled>>
bounds  == <<edits, outOfBand, faults>>
vars    == <<config, server, state, pc, diags, history, bounds>>

Values == {v \in [Fields -> Secrets \cup {Unset}] : \A f \in Fields \ Optional : v[f] # Unset}

Configs  == [here : BOOLEAN, attrs : Attrs, secret : Values]
Catalogs == [exists : BOOLEAN, attrs : Attrs, secret : Values, expired : SUBSET Expiring]
States   == [tracked : BOOLEAN, attrs : Attrs,
             secret : [Fields -> Secrets \cup {Unset, Marker}],
             hmac : [Fields -> Hmacs \cup {NoHmac}]]

TypeOK ==
  /\ config \in Configs
  /\ server \in Catalogs
  /\ state \in States
  /\ pc \in {"idle", "planned"}
  /\ diags \in SUBSET {"error", "crash"}
  /\ disturbed \in SUBSET Fields
  /\ spoiled \in SUBSET Fields
  /\ edits \in 0..MaxEdits
  /\ outOfBand \in 0..MaxOutOfBand
  /\ faults \in 0..MaxFaults

Nothing == [f \in Fields |-> Unset]
NoHmacs == [f \in Fields |-> NoHmac]

(* A workspace before its first apply.  What Boundary holds does not       *)
(* matter while the credential does not exist.                             *)
Init ==
  /\ config \in Configs
  /\ server = [exists |-> FALSE, attrs |-> config.attrs, secret |-> config.secret,
               expired |-> {}]
  /\ state = [tracked |-> FALSE, attrs |-> config.attrs, secret |-> Nothing, hmac |-> NoHmacs]
  /\ pc = "idle" /\ diags = {}
  /\ disturbed = {} /\ spoiled = {}
  /\ edits = 0 /\ outOfBand = 0 /\ faults = 0

-----------------------------------------------------------------------------
(* What the provider computes.                                             *)

AnsweredHmac(c, f) ==
  IF f \in c.expired THEN NoHmac ELSE HmacOf(c.secret[f])

(* The Vault token's HMAC is looked at only if the answer has one; for the *)
(* other fields an absent one is the empty string.                         *)
Silent(c, f) == f \in Expiring /\ AnsweredHmac(c, f) = NoHmac

AdoptsAnyHmac(st, c, f) == FALSE

ImportAdoptsHmac(st, c, f) == ~Silent(c, f) /\ st.hmac[f] \notin {NoHmac, AnsweredHmac(c, f)}

Drifted(st, c, f) == ~Silent(c, f) /\ st.hmac[f] # AnsweredHmac(c, f)

SetFromStoresSecret(st, c, fromRead) ==
  [st EXCEPT
     !.tracked = TRUE,
     !.attrs = c.attrs,
     !.hmac = [f \in Fields |-> IF Silent(c, f) THEN st.hmac[f] ELSE c.secret[f]]]

(* setFrom...ResponseMap. *)
SetFrom(st, c, fromRead) ==
  [st EXCEPT
     !.tracked = TRUE,
     !.attrs = c.attrs,
     !.secret = [f \in Fields |-> IF fromRead /\ Drifted(st, c, f) THEN Marker ELSE st.secret[f]],
     !.hmac = [f \in Fields |-> IF Silent(c, f) THEN st.hmac[f] ELSE AnsweredHmac(c, f)]]

(* SetId(""): the resource leaves the state. *)
Untracked(st) == [st EXCEPT !.tracked = FALSE, !.secret = Nothing, !.hmac = NoHmacs]

(* The values Terraform plans, and saves when Update returns an error; the *)
(* computed HMACs are not planned.                                         *)
PlannedState == [state EXCEPT !.attrs = config.attrs, !.secret = config.secret]

(* HasChange of a secret field. *)
Changed == {f \in Fields : config.secret[f] # state.secret[f]}

(* GetOk fails for a value that was removed; only the client certificate   *)
(* key has its default sent then.                                          *)
SentIfSet == {f \in Changed : config.secret[f] # Unset}
Sent == {f \in Changed : config.secret[f] # Unset \/ f \in Clearable}

NeedsCallForAttrs == config.attrs # state.attrs

NeedsCall == config.attrs # state.attrs \/ Sent # {}

UpdateSendsTheState ==
  [server EXCEPT
     !.attrs = config.attrs,
     !.secret = [f \in Fields |-> IF f \in Sent THEN state.secret[f] ELSE server.secret[f]],
     !.expired = server.expired \ Sent]

UpdatedServer ==
  [server EXCEPT
     !.attrs = IF config.attrs # state.attrs THEN config.attrs ELSE server.attrs,
     !.secret = [f \in Fields |-> IF f \in Sent THEN config.secret[f] ELSE server.secret[f]],
     !.expired = server.expired \ Sent]

(* A handler returns with diagnostics d. *)
Return(d) == pc' = "idle" /\ diags' = d /\ disturbed' = {}

-----------------------------------------------------------------------------
(* Terraform.                                                              *)

(* terraform plan: Read, unless there is nothing to read. *)
Plan ==
  /\ pc = "idle"
  /\ \/ ~state.tracked /\ UNCHANGED <<state, spoiled>>
     \/ /\ state.tracked /\ server.exists
        /\ state' = SetFrom(state, server, TRUE)
        /\ spoiled' = {f \in spoiled : ~Drifted(state, server, f)}
     \/ /\ state.tracked /\ ~server.exists
        /\ state' = Untracked(state)
        /\ spoiled' = {}
  /\ pc' = "planned" /\ diags' = {} /\ disturbed' = {}
  /\ UNCHANGED <<config, server, bounds>>

(* The plan is empty. *)
ApplyNothing ==
  /\ pc = "planned"
  /\ config.here = state.tracked
  /\ config.here => config.attrs = state.attrs /\ Changed = {}
  /\ Return({})
  /\ UNCHANGED <<config, server, state, spoiled, bounds>>

Create ==
  /\ pc = "planned" /\ config.here /\ ~state.tracked
  /\ server' = [exists |-> TRUE, attrs |-> config.attrs, secret |-> config.secret, expired |-> {}]
  /\ state' = SetFrom(PlannedState, server', FALSE)
  /\ spoiled' = {}
  /\ Return({})
  /\ UNCHANGED <<config, bounds>>

(* Refused, or an object that is not JSON: no state is kept. *)
CreateFails ==
  /\ pc = "planned" /\ config.here /\ ~state.tracked
  /\ faults < MaxFaults /\ faults' = faults + 1
  /\ Return({"error"})
  /\ UNCHANGED <<config, server, state, spoiled, edits, outOfBand>>

Updates == pc = "planned" /\ config.here /\ state.tracked /\ PlannedState # state

(* One call with every changed field; the response's HMACs are stored      *)
(* whoever wrote the secrets they are of.                                  *)
UpdateCall ==
  /\ Updates /\ NeedsCall /\ server.exists
  /\ server' = UpdatedServer
  /\ state' = SetFrom(PlannedState, UpdatedServer, FALSE)
  /\ spoiled' = (spoiled \cup disturbed) \ Sent
  /\ Return({})
  /\ UNCHANGED <<config, bounds>>

(* The only change is a passphrase that was removed. *)
UpdateNoCall ==
  /\ Updates /\ ~NeedsCall
  /\ state' = PlannedState
  /\ Return({})
  /\ UNCHANGED <<config, server, spoiled, bounds>>

UpdateFails ==
  /\ Updates /\ NeedsCall
  /\ \/ ~server.exists /\ UNCHANGED faults
     \/ faults < MaxFaults /\ faults' = faults + 1
  /\ state' = PlannedState
  /\ spoiled' = spoiled \cup Changed
  /\ Return({"error"})
  /\ UNCHANGED <<config, server, edits, outOfBand>>

(* Boundary applied the update but the answer was lost: an error, or the   *)
(* end of the provider.                                                    *)
UpdateReplyLost ==
  /\ Updates /\ NeedsCall /\ server.exists
  /\ faults < MaxFaults /\ faults' = faults + 1
  /\ server' = UpdatedServer
  /\ \/ state' = PlannedState /\ spoiled' = spoiled \cup Changed /\ Return({"error"})
     \/ UNCHANGED <<state, spoiled>> /\ Return({"crash"})
  /\ UNCHANGED <<config, edits, outOfBand>>

Crash ==
  /\ pc = "planned"
  /\ faults < MaxFaults /\ faults' = faults + 1
  /\ Return({"crash"})
  /\ UNCHANGED <<config, server, state, spoiled, edits, outOfBand>>

Delete ==
  /\ pc = "planned" /\ ~config.here /\ state.tracked /\ server.exists
  /\ server' = [server EXCEPT !.exists = FALSE]
  /\ state' = Untracked(state)
  /\ spoiled' = {}
  /\ Return({})
  /\ UNCHANGED <<config, bounds>>

DeleteFails ==
  /\ pc = "planned" /\ ~config.here /\ state.tracked
  /\ \/ ~server.exists /\ UNCHANGED faults
     \/ faults < MaxFaults /\ faults' = faults + 1
  /\ Return({"error"})
  /\ UNCHANGED <<config, server, state, spoiled, edits, outOfBand>>

(* terraform import: the id is given, Read fills the rest. *)
Import ==
  /\ pc = "idle" /\ config.here /\ ~state.tracked /\ server.exists
  /\ state' = SetFrom(state, server, TRUE)
  /\ diags' = {}
  /\ UNCHANGED <<config, server, pc, history, bounds>>

Terraform ==
  \/ Plan \/ ApplyNothing
  \/ Create \/ CreateFails
  \/ UpdateCall \/ UpdateNoCall \/ UpdateFails \/ UpdateReplyLost
  \/ Delete \/ DeleteFails
  \/ Crash

-----------------------------------------------------------------------------
(* Everybody else.                                                         *)

(* Terraform reads its configuration when it plans. *)
EditConfig ==
  /\ pc = "idle"
  /\ edits < MaxEdits /\ edits' = edits + 1
  /\ config' \in Configs \ {config}
  /\ UNCHANGED <<server, state, pc, diags, history, outOfBand, faults>>

ApiCall ==
  /\ outOfBand < MaxOutOfBand /\ outOfBand' = outOfBand + 1
  /\ UNCHANGED <<config, state, pc, diags, spoiled, edits, faults>>

(* A secret is rotated, or an optional one cleared, directly in Boundary. *)
ApiSetSecret ==
  /\ server.exists
  /\ \E f \in Fields, s \in Secrets \cup {Unset} :
       /\ s = Unset => f \in Optional
       /\ s # server.secret[f] \/ f \in server.expired
       /\ server' = [server EXCEPT !.secret[f] = s, !.expired = server.expired \ {f}]
       /\ disturbed' = disturbed \cup {f}
  /\ ApiCall

(* Vault's token runs out. *)
TokenExpires ==
  /\ server.exists
  /\ \E f \in Expiring \ server.expired :
       server' = [server EXCEPT !.expired = server.expired \cup {f}]
  /\ UNCHANGED disturbed
  /\ ApiCall

ApiSetAttrs ==
  /\ server.exists
  /\ \E a \in Attrs \ {server.attrs} : server' = [server EXCEPT !.attrs = a]
  /\ UNCHANGED disturbed
  /\ ApiCall

ApiDelete ==
  /\ server.exists
  /\ server' = [server EXCEPT !.exists = FALSE]
  /\ disturbed' = Fields
  /\ ApiCall

(* A credential made in Boundary, to be imported. *)
ApiCreate ==
  /\ ~server.exists /\ ~state.tracked
  /\ \E a \in Attrs, v \in Values :
        server' = [exists |-> TRUE, attrs |-> a, secret |-> v, expired |-> {}]
  /\ UNCHANGED disturbed
  /\ ApiCall

Environment ==
  \/ EditConfig \/ Import
  \/ ApiSetSecret \/ TokenExpires \/ ApiSetAttrs \/ ApiDelete \/ ApiCreate

Next == Terraform \/ Environment

Spec == Init /\ [][Next]_vars

(* The operator keeps running terraform apply, and a handler that has      *)
(* started runs to its end.  Faults are finitely many.                     *)
FairSpec == Spec /\ WF_vars(Terraform)

-----------------------------------------------------------------------------
(* Properties.                                                             *)

(* A plan shows the secret that is in the state, or that there is none if  *)
(* Update could clear it.                                                  *)
Shown(f) == state.secret[f] \in Secrets \/ (state.secret[f] = Unset /\ f \in Clearable)

(* A secret in the state and the HMAC beside it belong together.           *)
Paired(f) == Shown(f) => state.hmac[f] = HmacOf(state.secret[f])

(* What a plan shows of a secret is right: if the refresh left it in the   *)
(* state, and Boundary answers an HMAC for it, Boundary holds it, until    *)
(* somebody changes it.  This is so for every field that no failed Update  *)
(* and no Update racing with a change in Boundary has touched since it was *)
(* last sent or last seen to have drifted.                                 *)
RefreshIsRight ==
  pc = "planned" /\ state.tracked /\ server.exists =>
    \A f \in Fields \ (spoiled \cup disturbed \cup server.expired) :
      Shown(f) => server.secret[f] = state.secret[f]

(* Drift, once noticed, is undone before it is forgotten: the marker       *)
(* leaves the state only when Boundary holds what the configuration says,  *)
(* or with an error, or with the resource.  A passphrase that is not       *)
(* configured is the exception: Update has no way to remove one.           *)
Unremovable(f) == f \in Optional \ Clearable /\ config.secret[f] = Unset

DriftIsUndone ==
  [][ \A f \in Fields :
        /\ state.secret[f] = Marker /\ state'.secret[f] # Marker
        /\ state'.tracked /\ diags' = {}
        => server'.secret[f] = config.secret[f] \/ Unremovable(f) ]_vars

(* An apply without a diagnostic has done what is configured: the sent     *)
(* fields are those that differ from a state which the refresh has made    *)
(* true, so one apply is enough.                                           *)
SuccessIsComplete ==
  [][ pc = "planned" /\ pc' = "idle" /\ diags' = {} /\ config.here =>
        \A f \in Fields \ (spoiled \cup disturbed \cup server'.expired) :
          server'.exists /\ (server'.secret[f] = config.secret[f] \/ Unremovable(f)) ]_vars

(* Applying again and again makes Boundary hold what is configured,        *)
(* through crashes, imports and changes by others, as long as no field     *)
(* stays spoiled.                                                          *)
Settled ==
  \/ ~config.here /\ ~state.tracked
  \/ /\ config.here /\ state.tracked /\ server.exists
     /\ server.attrs = config.attrs
     /\ \A f \in Fields \ server.expired :
          server.secret[f] = config.secret[f] \/ Unremovable(f)

Converges == <>[](spoiled = {}) => <>[]Settled

(* One object that is managed: its parts are the secrets and the           *)
(* attributes.  A passphrase that is not configured is left to Boundary,   *)
(* and none is what a new object has then.                                 *)
Parts(names, attrs, secret) ==
  [p \in names \cup {"attrs"} |-> IF p = "attrs" THEN attrs ELSE secret[p]]

Specified == {f \in Fields : config.secret[f] # Unset \/ f \in Clearable}

Managed == INSTANCE ManagedObject WITH
  Fresh <- {Unset},
  wanted <- [here |-> config.here, object |-> Parts(Specified, config.attrs, config.secret)],
  actual <- [exists |-> server.exists, object |-> Parts(Fields, server.attrs, server.secret)],
  owned <- state.tracked,
  others <- outOfBand

(* Whatever the state says of a secret, right or wrong, marked as changed  *)
(* or left by a failed Update, Boundary is only ever given the configured  *)
(* one: no Update spoils a secret it was not to write, and none is written *)
(* or deleted that is not in the state.                                    *)
ImplementsManaged == Managed!Spec

(* "PasswordHmac has changed in Boundary, therefore the password has       *)
(* changed.  Update password value to force tf to attempt update."         *)
ChangeForcesUpdate ==
  [][ pc = "idle" /\ pc' = "planned" /\ state'.tracked =>
        \A f \in Fields \ (Optional \cup server.expired) :
          server.secret[f] = state'.secret[f] \/ state'.secret[f] = Marker ]_vars

=============================================================================
