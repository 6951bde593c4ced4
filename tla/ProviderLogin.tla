--------------------------- MODULE ProviderLogin ---------------------------
(***************************************************************************)
(* How the provider is configured: by a recovery KMS, a token, or a login  *)
(* with an auth method, which may be the default one of a scope.  The      *)
(* default is looked up with one call and used with another, and it moves  *)
(* with what the provider itself does to the auth methods of that scope.   *)
(*                                                                         *)
(* Left out: the address and TLS settings, which fail before anything is   *)
(* asked.  One scope, that of scope_id or "global".                        *)
(***************************************************************************)
EXTENDS Naturals

CONSTANTS
  Methods,     \* ids of auth methods
  Unsupported, \* those whose prefix is neither ampw nor amldap
  Passwords,   \* passwords of the one login name
  Unset,       \* a setting that is absent; no auth method
  MaxEdits, MaxOutOfBand, MaxFaults   \* bounds on the environment

ASSUME MethodsAssumption ==
  /\ Unsupported \subseteq Methods
  /\ Unset \notin Methods \cup Passwords

ASSUME BoundsAssumption == MaxEdits \in Nat /\ MaxOutOfBand \in Nat /\ MaxFaults \in Nat

-----------------------------------------------------------------------------
VARIABLES
  settings,    \* the provider block and its environment
  methods,     \* the auth methods that a listing of the scope shows
  primary,     \* the primary one, or Unset
  accepted,    \* the password that each of them accepts
  pc,          \* idle, listing, login, or ready: handlers run
  chosen,      \* the auth method to log in with
  client,      \* how the client identifies itself
  failed,      \* the last configuration returned an error
  last,        \* history: client of the last configuration that succeeded
  since,       \* history: events since it was chosen
  meanwhile,   \* history: events since the present one was chosen
  edits, outOfBand, faults

server  == <<methods, primary, accepted>>
history == <<last, since, meanwhile>>
bounds  == <<edits, outOfBand, faults>>
vars    == <<settings, server, pc, chosen, client, failed, history, bounds>>

(* token: from the block or from BOUNDARY_TOKEN.  named: the login names   *)
(* that are set, "old" being password_auth_method_login_name.              *)
Settings ==
  [recovery : {"absent", "good", "bad"}, token : BOOLEAN,
   auth_method_id : Methods \cup {Unset}, named : SUBSET {"new", "old"},
   auth_method_password : Passwords \cup {Unset},
   password_auth_method_password : Passwords \cup {Unset}]

Clients == [by : {"nobody", "recovery", "token", "login"}, method : Methods \cup {Unset}]

By(how, m) == [by |-> how, method |-> m]

(* What happens to the settings and to the auth methods. *)
Events == {"edited", "primary", "ambiguous", "removed", "rotated"} \X (Methods \cup {Unset})

TypeOK ==
  /\ settings \in Settings
  /\ methods \in SUBSET Methods
  /\ primary \in methods \cup {Unset}
  /\ accepted \in [Methods -> Passwords]
  /\ pc \in {"idle", "listing", "login", "ready"}
  /\ chosen \in Methods \cup {Unset}
  /\ pc = "login" => chosen # Unset
  /\ client \in Clients
  /\ failed \in BOOLEAN
  /\ last \in Clients
  /\ last.by = "login" => last.method # Unset
  /\ since \in SUBSET Events
  /\ meanwhile \in SUBSET Events
  /\ edits \in 0..MaxEdits
  /\ outOfBand \in 0..MaxOutOfBand
  /\ faults \in 0..MaxFaults

Init ==
  /\ settings \in Settings
  /\ methods \in SUBSET Methods
  /\ primary \in methods \cup {Unset}
  /\ accepted \in [Methods -> Passwords]
  /\ pc = "idle" /\ chosen = Unset /\ client = By("nobody", Unset) /\ failed = FALSE
  /\ last = By("nobody", Unset) /\ since = {} /\ meanwhile = {}
  /\ edits = 0 /\ outOfBand = 0 /\ faults = 0

-----------------------------------------------------------------------------
(* What the provider decides.                                              *)

(* recovery_kms_hcl overrides everything. *)
PrefersToken == settings.recovery # "absent" /\ ~settings.token

UsesRecovery == settings.recovery # "absent"

UsesToken == ~UsesRecovery /\ settings.token

PrimaryOnly == {primary}

(* getDefaultAuthMethodId: the only one, primary or not, or the primary    *)
(* one; there may be none.                                                 *)
TakesAnyone == methods

TakesTheOnlyOne == {m \in methods : methods = {m}}

Defaults == {m \in methods : methods = {m} \/ m = primary}

(* Each of the two has its older name to fall back to. *)
NewPassword == settings.auth_method_password

Password ==
  IF settings.auth_method_password # Unset
  THEN settings.auth_method_password ELSE settings.password_auth_method_password

(* Errors before Boundary is asked. *)
CannotLogIn == chosen \in Unsupported \/ settings.named = {} \/ Password = Unset

Fault == faults < MaxFaults /\ faults' = faults + 1 /\ UNCHANGED <<edits, outOfBand>>

(* The provider is configured, as was chosen before the events es. *)
Succeed(c, es) ==
  /\ pc' = "ready" /\ client' = c /\ failed' = FALSE
  /\ last' = c /\ since' = es /\ meanwhile' = {} /\ chosen' = Unset

Fail ==
  /\ pc' = "idle" /\ failed' = TRUE /\ chosen' = Unset
  /\ client' = By("nobody", Unset)
  /\ meanwhile' = {} /\ UNCHANGED <<last, since>>

-----------------------------------------------------------------------------
(* providerConfigure, for every command of Terraform.                      *)

ConfigureWithRecovery ==
  /\ pc = "idle" /\ UsesRecovery
  /\ \/ settings.recovery = "good" /\ Succeed(By("recovery", Unset), {})
     \/ settings.recovery = "bad" /\ Fail
  /\ UNCHANGED <<settings, server, bounds>>

(* The token is not tried out. *)
ConfigureWithToken ==
  /\ pc = "idle" /\ UsesToken
  /\ Succeed(By("token", Unset), {})
  /\ UNCHANGED <<settings, server, bounds>>

ConfigureWithMethod ==
  /\ pc = "idle" /\ ~UsesRecovery /\ ~UsesToken
  /\ meanwhile' = {} /\ client' = By("nobody", Unset)
  /\ chosen' = settings.auth_method_id
  /\ pc' = IF settings.auth_method_id = Unset THEN "listing" ELSE "login"
  /\ UNCHANGED <<settings, server, failed, last, since, bounds>>

ListFinds ==
  /\ pc = "listing"
  /\ chosen' \in Defaults
  /\ pc' = "login" /\ meanwhile' = {}
  /\ UNCHANGED <<settings, server, client, failed, last, since, bounds>>

ListFindsNone ==
  /\ pc = "listing" /\ Defaults = {}
  /\ Fail
  /\ UNCHANGED <<settings, server, bounds>>

Refuse ==
  /\ pc = "login" /\ CannotLogIn
  /\ Fail
  /\ UNCHANGED <<settings, server, bounds>>

Login ==
  /\ pc = "login" /\ ~CannotLogIn
  /\ chosen \in methods /\ accepted[chosen] = Password
  /\ Succeed(By("login", chosen), meanwhile)
  /\ UNCHANGED <<settings, server, bounds>>

(* 404: unknown auth_method_id, 401: invalid login name or password. *)
LoginRejected ==
  /\ pc = "login" /\ ~CannotLogIn
  /\ chosen \notin methods \/ accepted[chosen] # Password
  /\ Fail
  /\ UNCHANGED <<settings, server, bounds>>

(* Boundary does not answer, or the command is interrupted. *)
CallFails ==
  /\ pc = "listing" \/ (pc = "login" /\ ~CannotLogIn)
  /\ Fault
  /\ Fail
  /\ UNCHANGED <<settings, server>>

(* The command ends, and the provider with it. *)
RunEnds ==
  /\ pc = "ready"
  /\ pc' = "idle" /\ client' = By("nobody", Unset)
  /\ UNCHANGED <<settings, server, chosen, failed, history, bounds>>

Configure ==
  \/ ConfigureWithRecovery \/ ConfigureWithToken \/ ConfigureWithMethod
  \/ ListFinds \/ ListFindsNone
  \/ Refuse \/ Login \/ LoginRejected \/ CallFails
  \/ RunEnds

-----------------------------------------------------------------------------
(* The operator, and the handlers of this provider and of everybody else.  *)

Happens(e, m) ==
  /\ since' = since \cup {<<e, m>>} /\ meanwhile' = meanwhile \cup {<<e, m>>}
  /\ UNCHANGED <<pc, chosen, client, failed, last>>

EditSettings ==
  /\ pc = "idle"
  /\ edits < MaxEdits /\ edits' = edits + 1
  /\ settings' \in Settings \ {settings}
  /\ Happens("edited", Unset)
  /\ UNCHANGED <<server, outOfBand, faults>>

ApiCall == outOfBand < MaxOutOfBand /\ outOfBand' = outOfBand + 1 /\ UNCHANGED <<settings, edits, faults>>

(* A method that joins others, none of which is primary, is noted. *)
AddMethod ==
  /\ ApiCall
  /\ \E m \in Methods \ methods :
       /\ methods' = methods \cup {m}
       /\ IF primary = Unset /\ methods # {}
          THEN Happens("ambiguous", Unset)
          ELSE UNCHANGED <<pc, chosen, client, failed, history>>
  /\ UNCHANGED <<primary, accepted>>

SetPrimary ==
  /\ ApiCall
  /\ primary' \in (methods \cup {Unset}) \ {primary}
  /\ Happens("primary", Unset)
  /\ UNCHANGED <<methods, accepted>>

(* A scope loses its primary auth method with the method. *)
RemoveMethod ==
  /\ ApiCall
  /\ \E m \in methods :
       /\ methods' = methods \ {m}
       /\ primary' = IF primary = m THEN Unset ELSE primary
       /\ Happens("removed", m)
  /\ UNCHANGED accepted

RotatePassword ==
  /\ ApiCall
  /\ \E m \in methods, p \in Passwords :
       /\ p # accepted[m]
       /\ accepted' = [accepted EXCEPT ![m] = p]
       /\ Happens("rotated", m)
  /\ UNCHANGED <<methods, primary>>

Environment == EditSettings \/ AddMethod \/ SetPrimary \/ RemoveMethod \/ RotatePassword

Next == Configure \/ Environment

Spec == Init /\ [][Next]_vars

(* The operator keeps running Terraform, and a configuration that has      *)
(* started ends.  Faults are finitely many.                                *)
FairSpec == Spec /\ WF_vars(Configure)

-----------------------------------------------------------------------------
(* Properties.                                                             *)

Did(e, m) == <<e, m>> \in since

(* "While this is set, it will override any other authentication           *)
(* information", and a token overrides the auth method: Boundary is not    *)
(* asked for auth methods then, so that a scope without any, or with one   *)
(* that nobody can use, can be set up.                                     *)
OverridesHold ==
  /\ pc = "ready" => \/ settings.recovery = "good" /\ client.by = "recovery"
                     \/ settings.recovery = "absent" /\ settings.token /\ client.by = "token"
                     \/ settings.recovery = "absent" /\ ~settings.token /\ client.by = "login"
  /\ settings.recovery = "good" \/ (settings.token /\ settings.recovery = "absent")
       => pc \in {"idle", "ready"} /\ (failed => Did("edited", Unset))

(* A provider block that is not edited logs in with another auth method    *)
(* than before only if it leaves the choice to the scope, and the primary  *)
(* auth method has changed or the one that was used has gone.  More auth   *)
(* methods beside it, with or without accounts, never redirect the login.  *)
SwitchesForCause ==
  [][ last.by = "login" /\ last'.by = "login" /\ last'.method # last.method =>
        \/ Did("edited", Unset)
        \/ /\ settings.auth_method_id = Unset
           /\ Did("primary", Unset) \/ Did("removed", last.method) ]_vars

Fails == pc' = "idle" /\ failed' /\ (pc # "idle" \/ ~failed)

(* What worked works again: with the same provider block, a configuration  *)
(* fails after one that succeeded only if Boundary could not be reached,   *)
(* the auth method has gone or its password is another, or the default     *)
(* auth method has changed or is not clear any more, since another one was *)
(* added to the only one: auth methods that are added beside a primary one *)
(* do no harm.                                                             *)
FailsForCause ==
  [][ Fails /\ faults' = faults /\ last.by # "nobody" =>
        \/ Did("edited", Unset)
        \/ /\ last.by = "login"
           /\ \/ Did("removed", last.method) \/ Did("rotated", last.method)
              \/ /\ settings.auth_method_id = Unset
                 /\ Did("primary", Unset) \/ Did("ambiguous", Unset) ]_vars

(* There is a way in: some method is the given one, or the primary one, or *)
(* the only one, and it accepts the password under whichever name it is    *)
(* set.                                                                    *)
Passes(m) ==
  /\ m \in methods \ Unsupported /\ settings.named # {}
  /\ accepted[m] = settings.auth_method_password
     \/ /\ settings.auth_method_password = Unset
        /\ accepted[m] = settings.password_auth_method_password

WayIn ==
  \/ settings.recovery = "good"
  \/ settings.recovery = "absent" /\ settings.token
  \/ /\ settings.recovery = "absent"
     /\ \E m \in methods :
          /\ Passes(m)
          /\ \/ settings.auth_method_id = m
             \/ settings.auth_method_id = Unset /\ (primary = m \/ methods = {m})

(* Whoever keeps trying gets in, if there is a way in in the end, and      *)
(* nobody else does.                                                       *)
GetsIn == (<>[]WayIn => []<>(pc = "ready")) /\ ([]<>(pc = "ready") => []<>WayIn)

=============================================================================
