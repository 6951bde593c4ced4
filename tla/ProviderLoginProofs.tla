------------------------ MODULE ProviderLoginProofs ------------------------
(***************************************************************************)
(* ProviderLogin for any auth methods, passwords and bounds: its types,    *)
(* the precedence of the ways to identify, and that a provider block that  *)
(* is not edited neither fails nor logs in elsewhere without a cause; and  *)
(* that a way in is taken, step by step, and nothing else is.              *)
(*                                                                         *)
(* The invariant says what is known of the auth method of the last login,  *)
(* and of the one that is chosen, as long as nothing has happened to it.   *)
(***************************************************************************)
EXTENDS ProviderLogin, TLAPS

(* m is still the default, unless one of the events es has changed that. *)
DefaultKept(m, es) ==
  <<"removed", m>> \notin es =>
    /\ m \in methods
    /\ <<"primary", Unset>> \notin es =>
         \/ primary = m
         \/ primary = Unset /\ (<<"ambiguous", Unset>> \notin es => methods = {m})

AccountKept ==
  \/ Did("removed", last.method)
  \/ /\ last.method \in methods
     /\ Did("rotated", last.method) \/ accepted[last.method] = Password

LastIsKnown ==
  ~Did("edited", Unset) =>
    /\ last.by = "recovery" => settings.recovery = "good"
    /\ last.by = "token" => UsesToken
    /\ last.by = "login" =>
         /\ ~UsesRecovery /\ ~UsesToken
         /\ last.method \notin Unsupported /\ settings.named # {} /\ Password # Unset
         /\ settings.auth_method_id \in {Unset, last.method}
         /\ AccountKept
         /\ settings.auth_method_id = Unset => DefaultKept(last.method, since)

ChoiceIsKnown ==
  /\ pc = "ready" => ~failed
  /\ pc \in {"listing", "login"} => ~UsesRecovery /\ ~UsesToken
  /\ pc = "listing" => settings.auth_method_id = Unset
  /\ pc = "login" => /\ settings.auth_method_id \in {Unset, chosen}
                     /\ settings.auth_method_id = Unset => DefaultKept(chosen, meanwhile)

MaySwitch ==
  \/ Did("edited", Unset)
  \/ settings.auth_method_id = Unset /\ (Did("primary", Unset) \/ Did("removed", last.method))

ChoiceHasACause ==
  pc = "login" /\ last.by = "login" /\ chosen # last.method => MaySwitch

IInv == TypeOK /\ OverridesHold /\ LastIsKnown /\ ChoiceIsKnown /\ ChoiceHasACause

-----------------------------------------------------------------------------
LEMMA InitOK == Init => IInv
<1> SUFFICES ASSUME Init PROVE IInv OBVIOUS
<1>1. TypeOK
  <2>1. client \in Clients /\ last \in Clients /\ (last.by = "login" => last.method # Unset)
    BY DEF Init, Clients, By
  <2>2. edits \in 0..MaxEdits /\ outOfBand \in 0..MaxOutOfBand /\ faults \in 0..MaxFaults
    BY BoundsAssumption DEF Init
  <2> QED BY <2>1, <2>2 DEF Init, TypeOK
<1> QED
  BY <1>1 DEF Init, IInv, OverridesHold, LastIsKnown, ChoiceIsKnown, ChoiceHasACause, By

LEMMA TypeStep ==
  ASSUME TypeOK, [Next]_vars
  PROVE  TypeOK'
<1> USE MethodsAssumption, BoundsAssumption
<1>1. CASE ConfigureWithRecovery
  <2>1. CASE Succeed(By("recovery", Unset), {})
    BY <1>1, <2>1 DEF TypeOK, ConfigureWithRecovery, Succeed, By, Clients, server, bounds
  <2>2. CASE Fail
    BY <1>1, <2>2 DEF TypeOK, ConfigureWithRecovery, Fail, By, Clients, server, bounds
  <2> QED BY <1>1, <2>1, <2>2 DEF ConfigureWithRecovery
<1>2. CASE ConfigureWithToken
  BY <1>2 DEF TypeOK, ConfigureWithToken, Succeed, By, Clients, server, bounds
<1>3. CASE ConfigureWithMethod
  BY <1>3 DEF TypeOK, ConfigureWithMethod, By, Clients, Settings, server, bounds
<1>4. CASE ListFinds
  <2>1. chosen' \in Methods
    BY <1>4 DEF TypeOK, ListFinds, Defaults
  <2>2. chosen' # Unset
    BY <2>1
  <2> QED BY <1>4, <2>1, <2>2 DEF TypeOK, ListFinds, server, bounds
<1>5. CASE ListFindsNone \/ Refuse \/ LoginRejected
  <2>1. Fail /\ UNCHANGED <<settings, server, bounds>>
    BY <1>5 DEF ListFindsNone, Refuse, LoginRejected
  <2> QED BY <2>1 DEF TypeOK, Fail, By, Clients, server, bounds
<1>6. CASE Login
  BY <1>6 DEF TypeOK, Login, Succeed, By, Clients, server, bounds
<1>7. CASE CallFails
  BY <1>7 DEF TypeOK, CallFails, Fault, Fail, By, Clients, server
<1>8. CASE RunEnds
  BY <1>8 DEF TypeOK, RunEnds, By, Clients, server, history, bounds
<1>9. CASE EditSettings
  BY <1>9 DEF TypeOK, EditSettings, Happens, Events, server
<1>10. CASE AddMethod
  BY <1>10 DEF TypeOK, AddMethod, ApiCall, Happens, Events, history
<1>11. CASE SetPrimary
  BY <1>11 DEF TypeOK, SetPrimary, ApiCall, Happens, Events
<1>12. CASE RemoveMethod
  BY <1>12 DEF TypeOK, RemoveMethod, ApiCall, Happens, Events
<1>13. CASE RotatePassword
  BY <1>13 DEF TypeOK, RotatePassword, ApiCall, Happens, Events
<1>14. CASE UNCHANGED vars
  BY <1>14 DEF TypeOK, vars, server, history, bounds
<1> QED
  BY <1>1, <1>2, <1>3, <1>4, <1>5, <1>6, <1>7, <1>8, <1>9, <1>10, <1>11, <1>12, <1>13, <1>14
     DEF Next, Configure, Environment

(* A configuration that ends with an error leaves what is known of the     *)
(* last one that succeeded.                                                *)
LEMMA FailStep ==
  ASSUME IInv, Fail, UNCHANGED <<settings, server>>,
         settings.recovery = "bad" \/ (~UsesRecovery /\ ~UsesToken)
  PROVE  OverridesHold' /\ LastIsKnown' /\ ChoiceIsKnown' /\ ChoiceHasACause'
<1>1. OverridesHold'
  BY DEF Fail, OverridesHold, UsesRecovery, UsesToken
<1>2. LastIsKnown'
  BY DEF IInv, Fail, LastIsKnown, DefaultKept, AccountKept, Did, UsesRecovery, UsesToken,
         Password, server
<1> QED
  BY <1>1, <1>2 DEF Fail, ChoiceIsKnown, ChoiceHasACause

LEMMA ConfigureStep ==
  ASSUME IInv, ConfigureWithRecovery \/ ConfigureWithToken \/ ConfigureWithMethod
  PROVE  OverridesHold' /\ LastIsKnown' /\ ChoiceIsKnown' /\ ChoiceHasACause'
<1>1. CASE ConfigureWithRecovery /\ settings.recovery = "bad"
  <2>1. Fail /\ UNCHANGED <<settings, server>>
    BY <1>1 DEF ConfigureWithRecovery
  <2> QED BY <1>1, <2>1, FailStep
<1>2. CASE ConfigureWithRecovery /\ settings.recovery = "good"
  BY <1>2 DEF ConfigureWithRecovery, Succeed, By, UsesRecovery, OverridesHold, LastIsKnown,
              ChoiceIsKnown, ChoiceHasACause
<1>3. CASE ConfigureWithToken
  BY <1>3 DEF ConfigureWithToken, Succeed, By, UsesRecovery, UsesToken, OverridesHold,
              LastIsKnown, ChoiceIsKnown, ChoiceHasACause
<1>4. CASE ConfigureWithMethod
  <2> USE <1>4 DEF ConfigureWithMethod
  <2>1. settings \in Settings /\ Unset \notin Methods
    BY MethodsAssumption DEF IInv, TypeOK
  <2>2. OverridesHold'
    BY DEF OverridesHold, UsesRecovery, UsesToken
  <2>3. LastIsKnown'
    BY DEF IInv, LastIsKnown, DefaultKept, AccountKept, Did, UsesRecovery, UsesToken,
           Password, server
  <2>4. ChoiceIsKnown'
    BY <2>1 DEF ChoiceIsKnown, UsesRecovery, UsesToken
  <2>5. ChoiceHasACause'
    BY <2>1 DEF IInv, LastIsKnown, ChoiceHasACause, MaySwitch, Did
  <2> QED BY <2>2, <2>3, <2>4, <2>5
<1> QED BY <1>1, <1>2, <1>3, <1>4 DEF ConfigureWithRecovery

(* A default that nobody has changed is the one that a listing finds. *)
LEMMA OneDefault ==
  ASSUME IInv, NEW m \in Defaults, last.by = "login",
         settings.auth_method_id = Unset, ~MaySwitch
  PROVE  m = last.method
<1>1. DefaultKept(last.method, since)
  BY DEF IInv, LastIsKnown, MaySwitch
<1>2. last.method \in methods /\ (primary = last.method \/ primary = Unset)
  BY <1>1 DEF DefaultKept, MaySwitch, Did
<1>3. m \in methods /\ m # Unset
  BY MethodsAssumption DEF Defaults, IInv, TypeOK
<1> QED BY <1>2, <1>3 DEF Defaults

LEMMA ListStep ==
  ASSUME IInv, ListFinds
  PROVE  OverridesHold' /\ LastIsKnown' /\ ChoiceIsKnown' /\ ChoiceHasACause'
<1> USE DEF ListFinds
<1>1. settings.auth_method_id = Unset /\ ~UsesRecovery /\ ~UsesToken
  BY DEF IInv, ChoiceIsKnown
<1>2. OverridesHold'
  BY <1>1 DEF OverridesHold, UsesRecovery, UsesToken
<1>3. LastIsKnown'
  BY DEF IInv, LastIsKnown, DefaultKept, AccountKept, Did, UsesRecovery, UsesToken,
         Password, server
<1>4. ChoiceIsKnown'
  <2>1. chosen' \in methods /\ (primary = chosen' \/ methods = {chosen'})
    BY DEF Defaults
  <2>2. methods = {chosen'} => primary \in {chosen', Unset}
    BY DEF IInv, TypeOK
  <2> QED BY <1>1, <2>1, <2>2 DEF ChoiceIsKnown, DefaultKept, UsesRecovery, UsesToken, server
<1>5. ChoiceHasACause'
  BY <1>1, OneDefault DEF ChoiceHasACause, MaySwitch, Did
<1> QED BY <1>2, <1>3, <1>4, <1>5

LEMMA LoginStep ==
  ASSUME IInv, Login
  PROVE  OverridesHold' /\ LastIsKnown' /\ ChoiceIsKnown' /\ ChoiceHasACause'
<1> USE DEF Login, Succeed, By
<1>1. ~UsesRecovery /\ ~UsesToken /\ settings.auth_method_id \in {Unset, chosen}
  BY DEF IInv, ChoiceIsKnown
<1>2. settings.auth_method_id = Unset => DefaultKept(chosen, meanwhile)
  BY DEF IInv, ChoiceIsKnown
<1>3. settings \in Settings
  BY DEF IInv, TypeOK
<1>4. OverridesHold'
  BY <1>1, <1>3 DEF OverridesHold, UsesRecovery, UsesToken, Settings
<1>5. LastIsKnown'
  BY <1>1, <1>2 DEF LastIsKnown, DefaultKept, AccountKept, Did, UsesRecovery, UsesToken,
                    Password, CannotLogIn, server
<1> QED BY <1>4, <1>5 DEF ChoiceIsKnown, ChoiceHasACause

LEMMA RefusalStep ==
  ASSUME IInv, ListFindsNone \/ Refuse \/ LoginRejected \/ CallFails
  PROVE  OverridesHold' /\ LastIsKnown' /\ ChoiceIsKnown' /\ ChoiceHasACause'
<1>1. Fail /\ UNCHANGED <<settings, server>>
  BY DEF ListFindsNone, Refuse, LoginRejected, CallFails
<1>2. ~UsesRecovery /\ ~UsesToken
  BY DEF IInv, ChoiceIsKnown, ListFindsNone, Refuse, LoginRejected, CallFails
<1> QED BY <1>1, <1>2, FailStep

LEMMA StutterStep ==
  ASSUME IInv, RunEnds \/ UNCHANGED vars
  PROVE  OverridesHold' /\ LastIsKnown' /\ ChoiceIsKnown' /\ ChoiceHasACause'
<1>1. UNCHANGED <<settings, server, history, failed, chosen>>
      /\ (UNCHANGED <<pc, client>> \/ (pc = "ready" /\ pc' = "idle"))
  BY DEF RunEnds, vars
<1>2. OverridesHold'
  BY <1>1 DEF IInv, OverridesHold, Did, history
<1>3. LastIsKnown'
  BY <1>1 DEF IInv, LastIsKnown, DefaultKept, AccountKept, Did, UsesRecovery, UsesToken,
              Password, server, history
<1>4. ChoiceIsKnown'
  BY <1>1 DEF IInv, ChoiceIsKnown, DefaultKept, UsesRecovery, UsesToken, server, history
<1>5. ChoiceHasACause'
  BY <1>1 DEF IInv, ChoiceHasACause, MaySwitch, Did, history
<1> QED BY <1>2, <1>3, <1>4, <1>5

LEMMA EditStep ==
  ASSUME IInv, EditSettings
  PROVE  OverridesHold' /\ LastIsKnown' /\ ChoiceIsKnown' /\ ChoiceHasACause'
  BY DEF EditSettings, Happens, OverridesHold, LastIsKnown, ChoiceIsKnown, ChoiceHasACause,
         Did, IInv

(* An event is kept, and with it what it excuses: what is left to show is  *)
(* that a default that is still known is one.                              *)
LEMMA EventStep ==
  ASSUME IInv, UNCHANGED <<settings, pc, chosen, client, failed, last>>,
         since \subseteq since',
         AccountKept => AccountKept',
         \A m \in Methods : DefaultKept(m, since) => DefaultKept(m, since)',
         \A m \in Methods : DefaultKept(m, meanwhile) => DefaultKept(m, meanwhile)'
  PROVE  OverridesHold' /\ LastIsKnown' /\ ChoiceIsKnown' /\ ChoiceHasACause'
<1>1. OverridesHold'
  BY DEF IInv, OverridesHold, Did
<1>2. LastIsKnown'
  <2>1. last.by = "login" => last.method \in Methods
    BY DEF IInv, TypeOK, Clients
  <2>2. Password' = Password /\ (UsesRecovery' <=> UsesRecovery) /\ (UsesToken' <=> UsesToken)
    BY DEF Password, UsesRecovery, UsesToken
  <2>3. Did("edited", Unset) => Did("edited", Unset)'
    BY DEF Did
  <2> QED BY <2>1, <2>2, <2>3 DEF IInv, LastIsKnown
<1>3. ChoiceIsKnown'
  <2>1. pc = "login" => chosen \in Methods
    BY DEF IInv, TypeOK
  <2> QED BY <2>1 DEF IInv, ChoiceIsKnown, UsesRecovery, UsesToken
<1>4. ChoiceHasACause'
  BY DEF IInv, ChoiceHasACause, MaySwitch, Did
<1> QED BY <1>1, <1>2, <1>3, <1>4

LEMMA AddStep ==
  ASSUME IInv, AddMethod
  PROVE  OverridesHold' /\ LastIsKnown' /\ ChoiceIsKnown' /\ ChoiceHasACause'
<1> PICK n \in Methods \ methods :
      /\ methods' = methods \cup {n}
      /\ IF primary = Unset /\ methods # {}
         THEN Happens("ambiguous", Unset)
         ELSE UNCHANGED <<pc, chosen, client, failed, history>>
  BY DEF AddMethod
<1>1. UNCHANGED <<settings, pc, chosen, client, failed, last, primary, accepted>>
  BY DEF AddMethod, ApiCall, Happens, history
<1>2. \/ UNCHANGED <<since, meanwhile>> /\ (primary # Unset \/ methods = {})
      \/ /\ since' = since \cup {<<"ambiguous", Unset>>}
         /\ meanwhile' = meanwhile \cup {<<"ambiguous", Unset>>}
  BY DEF Happens, history
<1>3. AccountKept => AccountKept'
  BY <1>1, <1>2 DEF AccountKept, Did, Password
<1>4. ASSUME NEW m \in Methods
      PROVE  /\ DefaultKept(m, since) => DefaultKept(m, since)'
             /\ DefaultKept(m, meanwhile) => DefaultKept(m, meanwhile)'
  BY <1>1, <1>2 DEF DefaultKept
<1> QED BY <1>1, <1>2, <1>3, <1>4, EventStep DEF Did

LEMMA PrimaryStep ==
  ASSUME IInv, SetPrimary
  PROVE  OverridesHold' /\ LastIsKnown' /\ ChoiceIsKnown' /\ ChoiceHasACause'
<1> USE DEF SetPrimary, ApiCall, Happens
<1>1. AccountKept => AccountKept'
  BY DEF AccountKept, Did, Password
<1>2. ASSUME NEW m \in Methods
      PROVE  /\ DefaultKept(m, since) => DefaultKept(m, since)'
             /\ DefaultKept(m, meanwhile) => DefaultKept(m, meanwhile)'
  BY DEF DefaultKept
<1> QED BY <1>1, <1>2, EventStep DEF Did

LEMMA RemoveStep ==
  ASSUME IInv, RemoveMethod
  PROVE  OverridesHold' /\ LastIsKnown' /\ ChoiceIsKnown' /\ ChoiceHasACause'
<1> PICK n \in methods :
      /\ methods' = methods \ {n}
      /\ primary' = IF primary = n THEN Unset ELSE primary
      /\ Happens("removed", n)
  BY DEF RemoveMethod
<1> USE DEF RemoveMethod, ApiCall, Happens
<1>1. AccountKept => AccountKept'
  BY DEF AccountKept, Did, Password
<1>2. n # Unset
  BY MethodsAssumption DEF IInv, TypeOK
<1>3. ASSUME NEW m \in Methods
      PROVE  /\ DefaultKept(m, since) => DefaultKept(m, since)'
             /\ DefaultKept(m, meanwhile) => DefaultKept(m, meanwhile)'
  BY <1>2 DEF DefaultKept
<1> QED BY <1>1, <1>3, EventStep DEF Did

LEMMA RotateStep ==
  ASSUME IInv, RotatePassword
  PROVE  OverridesHold' /\ LastIsKnown' /\ ChoiceIsKnown' /\ ChoiceHasACause'
<1> PICK n \in methods, p \in Passwords :
      accepted' = [accepted EXCEPT ![n] = p] /\ Happens("rotated", n)
  BY DEF RotatePassword
<1> USE DEF RotatePassword, ApiCall, Happens
<1>1. AccountKept => AccountKept'
  <2>1. last.method # n => accepted'[last.method] = accepted[last.method]
    BY DEF IInv, TypeOK
  <2> QED BY <2>1 DEF AccountKept, Did, Password
<1>2. ASSUME NEW m \in Methods
      PROVE  /\ DefaultKept(m, since) => DefaultKept(m, since)'
             /\ DefaultKept(m, meanwhile) => DefaultKept(m, meanwhile)'
  BY DEF DefaultKept
<1> QED BY <1>1, <1>2, EventStep DEF Did

LEMMA Inductive == IInv /\ [Next]_vars => IInv'
<1> SUFFICES ASSUME IInv, [Next]_vars PROVE IInv' OBVIOUS
<1>1. TypeOK'
  BY TypeStep DEF IInv
<1>2. OverridesHold' /\ LastIsKnown' /\ ChoiceIsKnown' /\ ChoiceHasACause'
  <2>1. CASE ConfigureWithRecovery \/ ConfigureWithToken \/ ConfigureWithMethod
    BY <2>1, ConfigureStep
  <2>2. CASE ListFinds
    BY <2>2, ListStep
  <2>3. CASE Login
    BY <2>3, LoginStep
  <2>4. CASE ListFindsNone \/ Refuse \/ LoginRejected \/ CallFails
    BY <2>4, RefusalStep
  <2>5. CASE RunEnds \/ UNCHANGED vars
    BY <2>5, StutterStep
  <2>6. CASE EditSettings
    BY <2>6, EditStep
  <2>7. CASE AddMethod
    BY <2>7, AddStep
  <2>8. CASE SetPrimary
    BY <2>8, PrimaryStep
  <2>9. CASE RemoveMethod
    BY <2>9, RemoveStep
  <2>10. CASE RotatePassword
    BY <2>10, RotateStep
  <2> QED BY <2>1, <2>2, <2>3, <2>4, <2>5, <2>6, <2>7, <2>8, <2>9, <2>10
             DEF Next, Configure, Environment
<1> QED BY <1>1, <1>2 DEF IInv

LEMMA AlwaysIInv == Spec => []IInv
  BY InitOK, Inductive, PTL DEF Spec

-----------------------------------------------------------------------------
(* Every variable keeps its type, for any auth methods and bounds.         *)
THEOREM TypeCorrect == Spec => []TypeOK
  BY AlwaysIInv, PTL DEF IInv

(* recovery_kms_hcl and a token keep their precedence, and need no auth    *)
(* method: providerAuthenticate.                                           *)
THEOREM Precedence == Spec => []OverridesHold
  BY AlwaysIInv, PTL DEF IInv

(* providerAuthenticate and getDefaultAuthMethodId: the same provider      *)
(* block logs in elsewhere only for a cause in the scope.                  *)
THEOREM LoginIsSteady == Spec => SwitchesForCause
<1>1. ASSUME IInv, [Next]_vars, last.by = "login", last'.by = "login",
             last'.method # last.method
      PROVE  MaySwitch
  <2>1. last' # last
    BY <1>1
  <2>2. Login
    BY <1>1, <2>1 DEF Next, Configure, Environment, vars, history, By, Succeed, Fail,
         ConfigureWithRecovery, ConfigureWithToken, ConfigureWithMethod, ListFinds,
         ListFindsNone, Refuse, LoginRejected, CallFails, RunEnds, EditSettings, AddMethod,
         SetPrimary, RemoveMethod, RotatePassword, Happens
  <2>3. pc = "login" /\ last'.method = chosen
    BY <2>2 DEF Login, Succeed, By
  <2> QED BY <1>1, <2>3 DEF IInv, ChoiceHasACause
<1>2. IInv /\ [Next]_vars =>
        [ last.by = "login" /\ last'.by = "login" /\ last'.method # last.method =>
            \/ Did("edited", Unset)
            \/ /\ settings.auth_method_id = Unset
               /\ Did("primary", Unset) \/ Did("removed", last.method) ]_vars
  BY <1>1 DEF MaySwitch
<1> QED BY <1>2, AlwaysIInv, PTL DEF Spec, SwitchesForCause

(* The same, of errors: what worked works again unless there is a cause.   *)
THEOREM FailureHasACause == Spec => FailsForCause
<1>1. ASSUME IInv, Next, Fails, faults' = faults, last.by # "nobody", ~Did("edited", Unset)
      PROVE  /\ last.by = "login"
             /\ \/ Did("removed", last.method) \/ Did("rotated", last.method)
                \/ /\ settings.auth_method_id = Unset
                   /\ Did("primary", Unset) \/ Did("ambiguous", Unset)
  <2>1. ListFindsNone \/ Refuse \/ LoginRejected \/ (ConfigureWithRecovery /\ Fail)
    <3>1. ~(ConfigureWithToken \/ ConfigureWithMethod \/ ListFinds \/ Login)
      BY <1>1 DEF Fails, ConfigureWithToken, ConfigureWithMethod, ListFinds, Login, Succeed
    <3>2. ~CallFails
      BY <1>1 DEF CallFails, Fault, IInv, TypeOK
    <3>3. ~RunEnds
      BY <1>1 DEF Fails, RunEnds, IInv, ChoiceIsKnown
    <3>4. ~EditSettings /\ ~AddMethod
      BY <1>1 DEF Fails, EditSettings, AddMethod, Happens, history
    <3>5. ~SetPrimary /\ ~RemoveMethod /\ ~RotatePassword
      BY <1>1 DEF Fails, SetPrimary, RemoveMethod, RotatePassword, Happens
    <3>6. ConfigureWithRecovery => Fail
      BY <1>1 DEF Fails, ConfigureWithRecovery, Succeed
    <3> QED BY <1>1, <3>1, <3>2, <3>3, <3>4, <3>5, <3>6 DEF Next, Configure, Environment
  <2>2. ASSUME ListFindsNone \/ Refuse \/ LoginRejected
        PROVE  /\ last.by = "login"
               /\ settings.auth_method_id \in {Unset, last.method}
               /\ settings.auth_method_id = Unset => DefaultKept(last.method, since)
               /\ last.method \notin Unsupported /\ settings.named # {} /\ Password # Unset
               /\ AccountKept
    <3>1. ~UsesRecovery /\ ~UsesToken
      BY <1>1, <2>2 DEF IInv, ChoiceIsKnown, ListFindsNone, Refuse, LoginRejected
    <3>2. last.by \in {"recovery", "token", "login"}
      BY <1>1 DEF IInv, TypeOK, Clients
    <3> QED BY <1>1, <3>1, <3>2 DEF IInv, LastIsKnown, UsesRecovery
  <2>3. CASE ListFindsNone
    <3>1. settings.auth_method_id = Unset /\ last.method \notin Defaults
      BY <1>1, <2>3 DEF IInv, ChoiceIsKnown, ListFindsNone
    <3>2. DefaultKept(last.method, since)
      BY <2>2, <2>3, <3>1
    <3> QED BY <2>2, <2>3, <3>1, <3>2 DEF DefaultKept, Defaults, Did
  <2>4. CASE Refuse \/ LoginRejected
    <3>1. pc = "login" /\ settings.auth_method_id \in {Unset, chosen}
      BY <1>1, <2>4 DEF IInv, ChoiceIsKnown, Refuse, LoginRejected
    <3>2. CASE chosen = last.method
      BY <2>2, <2>4, <3>2 DEF Refuse, LoginRejected, CannotLogIn, AccountKept
    <3>3. CASE chosen # last.method
      BY <1>1, <2>2, <2>4, <3>1, <3>3 DEF IInv, ChoiceHasACause, MaySwitch
    <3> QED BY <3>2, <3>3
  <2>5. CASE ConfigureWithRecovery /\ Fail
    <3>1. settings.recovery = "bad"
      BY <2>5 DEF ConfigureWithRecovery, Fail, Succeed
    <3>2. last.by \in {"recovery", "token", "login"}
      BY <1>1 DEF IInv, TypeOK, Clients
    <3> QED BY <1>1, <3>1, <3>2 DEF IInv, LastIsKnown, UsesRecovery, UsesToken
  <2> QED BY <2>1, <2>2, <2>3, <2>4, <2>5
<1>2. IInv /\ [Next]_vars =>
        [ Fails /\ faults' = faults /\ last.by # "nobody" =>
            \/ Did("edited", Unset)
            \/ /\ last.by = "login"
               /\ \/ Did("removed", last.method) \/ Did("rotated", last.method)
                  \/ /\ settings.auth_method_id = Unset
                     /\ Did("primary", Unset) \/ Did("ambiguous", Unset) ]_vars
  BY <1>1
<1> QED BY <1>2, AlwaysIInv, PTL DEF Spec, FailsForCause

-----------------------------------------------------------------------------
(* The safety half of GetsIn.                                              *)

(* A method that passes is refused neither before the login nor by it. *)
LEMMA PassingIsAccepted ==
  ASSUME TypeOK, NEW m \in Methods, Passes(m)
  PROVE  /\ m \notin Unsupported /\ settings.named # {} /\ Password # Unset
         /\ m \in methods /\ accepted[m] = Password
<1>1. accepted[m] \in Passwords /\ accepted[m] # Unset
  BY MethodsAssumption DEF TypeOK
<1>2. accepted[m] = Password
  BY <1>1 DEF Passes, Password
<1> QED BY <1>1, <1>2 DEF Passes

(* What a login without a recovery KMS and a token finds. *)
LEMMA WayInByMethod ==
  ASSUME TypeOK, WayIn, ~UsesRecovery, ~UsesToken
  PROVE  \E m \in methods :
           /\ Passes(m) /\ m # Unset
           /\ \/ settings.auth_method_id = m
              \/ settings.auth_method_id = Unset /\ Defaults = {m}
<1>1. PICK m \in methods :
        /\ Passes(m)
        /\ \/ settings.auth_method_id = m
           \/ settings.auth_method_id = Unset /\ (primary = m \/ methods = {m})
  BY DEF WayIn, UsesRecovery, UsesToken
<1>2. m # Unset /\ primary \in methods \cup {Unset}
  BY MethodsAssumption DEF TypeOK
<1>3. ASSUME primary = m \/ methods = {m}
      PROVE  Defaults = {m}
  BY <1>2, <1>3 DEF Defaults
<1> QED BY <1>1, <1>2, <1>3

(* The method that is chosen lets the provider in. *)
OnTheWay == pc = "login" => Passes(chosen)

LEMMA WayInStep ==
  ASSUME IInv, Configure, faults' = faults, WayIn, OnTheWay
  PROVE  WayIn' /\ OnTheWay' /\ (pc' = "idle" => pc = "ready")
<1> USE DEF IInv
<1>1. UNCHANGED <<settings, server>>
  BY DEF Configure, ConfigureWithRecovery, ConfigureWithToken, ConfigureWithMethod, ListFinds,
         ListFindsNone, Refuse, Login, LoginRejected, CallFails, RunEnds
<1>2. WayIn' /\ (\A m : Passes(m)' <=> Passes(m))
  BY <1>1 DEF WayIn, Passes, server
<1>3. ~CallFails
  BY DEF CallFails, Fault, TypeOK
<1>4. CASE ConfigureWithRecovery
  <2>1. settings.recovery # "bad"
    BY <1>4 DEF ConfigureWithRecovery, UsesRecovery, WayIn
  <2> QED BY <1>2, <1>4, <2>1 DEF ConfigureWithRecovery, Succeed, OnTheWay
<1>5. CASE ConfigureWithToken \/ RunEnds
  BY <1>2, <1>5 DEF ConfigureWithToken, RunEnds, Succeed, OnTheWay
<1>6. CASE ConfigureWithMethod
  <2>1. PICK m \in methods : Passes(m) /\ m # Unset
                             /\ settings.auth_method_id \in {m, Unset}
    BY <1>6, WayInByMethod DEF ConfigureWithMethod
  <2> QED BY <1>2, <1>6, <2>1 DEF ConfigureWithMethod, OnTheWay
<1>7. CASE ListFinds \/ ListFindsNone
  <2>1. settings.auth_method_id = Unset /\ ~UsesRecovery /\ ~UsesToken
    BY <1>7 DEF ListFinds, ListFindsNone, ChoiceIsKnown
  <2>2. PICK m \in methods : Passes(m) /\ Defaults = {m}
    BY <2>1, WayInByMethod
  <2>3. pc' = "login" /\ chosen' = m
    BY <1>7, <2>2 DEF ListFinds, ListFindsNone
  <2> QED BY <1>2, <2>2, <2>3 DEF OnTheWay
<1>8. CASE Refuse \/ Login \/ LoginRejected
  <2>1. Passes(chosen) /\ chosen \in Methods
    BY <1>8 DEF OnTheWay, Refuse, Login, LoginRejected, Passes, TypeOK
  <2>2. ~CannotLogIn /\ chosen \in methods /\ accepted[chosen] = Password
    BY <2>1, PassingIsAccepted DEF CannotLogIn
  <2>3. pc' = "ready"
    BY <1>8, <2>2 DEF Refuse, Login, LoginRejected, Succeed
  <2> QED BY <1>2, <2>3 DEF OnTheWay
<1> QED BY <1>3, <1>4, <1>5, <1>6, <1>7, <1>8 DEF Configure

(* Where there is a way in, every step of providerConfigure goes on with   *)
(* it and none ends with an error, whatever was tried before: unless a     *)
(* call fails, or somebody changes something between two of them.          *)
THEOREM WayInIsTaken ==
  Spec => [][ Configure /\ faults' = faults /\ WayIn /\ OnTheWay =>
                WayIn' /\ OnTheWay' /\ (pc' = "idle" => pc = "ready") ]_vars
<1>1. IInv /\ [Next]_vars =>
        [ Configure /\ faults' = faults /\ WayIn /\ OnTheWay =>
            WayIn' /\ OnTheWay' /\ (pc' = "idle" => pc = "ready") ]_vars
  BY WayInStep
<1> QED BY <1>1, AlwaysIInv, PTL DEF Spec

(* The default auth method moved between the listing and the login. *)
DefaultMoved ==
  /\ settings.auth_method_id = Unset
  /\ <<"primary", Unset>> \in meanwhile \/ <<"ambiguous", Unset>> \in meanwhile

(* A method that was removed after it was chosen may have come back: then  *)
(* as the only one, since its return to others would be noted, and no      *)
(* other can be primary.                                                   *)
ReturnIsKnown ==
  pc = "login" /\ settings.auth_method_id = Unset /\ ~DefaultMoved
    /\ <<"removed", chosen>> \in meanwhile
  => primary = Unset /\ (chosen \in methods => methods = {chosen})

LEMMA ReturnStep ==
  ASSUME IInv, ReturnIsKnown, [Next]_vars
  PROVE  ReturnIsKnown'
<1> USE DEF IInv
<1>1. CASE Configure
  <2>1. pc' # "login" \/ meanwhile' = {} \/ settings'.auth_method_id # Unset
    BY <1>1 DEF Configure, ConfigureWithRecovery, ConfigureWithToken, ConfigureWithMethod,
           ListFinds, ListFindsNone, Refuse, Login, LoginRejected, CallFails, RunEnds, Succeed, Fail
  <2> QED BY <2>1 DEF ReturnIsKnown
<1>2. CASE EditSettings
  BY <1>2 DEF EditSettings, Happens, ReturnIsKnown
<1>3. CASE UNCHANGED vars
  BY <1>3 DEF vars, server, history, ReturnIsKnown, DefaultMoved
<1>4. CASE SetPrimary
  BY <1>4 DEF SetPrimary, ApiCall, Happens, ReturnIsKnown, DefaultMoved
<1>5. CASE AddMethod
  <2>1. PICK n \in Methods \ methods :
          /\ methods' = methods \cup {n}
          /\ IF primary = Unset /\ methods # {}
             THEN Happens("ambiguous", Unset)
             ELSE UNCHANGED <<pc, chosen, client, failed, history>>
    BY <1>5 DEF AddMethod
  <2>2. UNCHANGED <<settings, primary>>
    BY <1>5 DEF AddMethod, ApiCall
  <2>3. CASE primary = Unset /\ methods # {}
    BY <2>1, <2>2, <2>3 DEF Happens, ReturnIsKnown, DefaultMoved
  <2>4. CASE ~(primary = Unset /\ methods # {})
    BY <2>1, <2>2, <2>4 DEF history, ReturnIsKnown, DefaultMoved
  <2> QED BY <2>3, <2>4
<1>6. CASE RemoveMethod
  <2>1. PICK n \in methods :
          /\ methods' = methods \ {n}
          /\ primary' = IF primary = n THEN Unset ELSE primary
          /\ Happens("removed", n)
    BY <1>6 DEF RemoveMethod
  <2>2. UNCHANGED <<settings, pc, chosen>> /\ meanwhile' = meanwhile \cup {<<"removed", n>>}
    BY <1>6, <2>1 DEF RemoveMethod, ApiCall, Happens
  <2>3. SUFFICES ASSUME pc = "login", settings.auth_method_id = Unset, ~DefaultMoved',
                        <<"removed", chosen>> \in meanwhile'
                 PROVE  primary' = Unset /\ (chosen \in methods' => methods' = {chosen})
    BY <2>2 DEF ReturnIsKnown
  <2>4. ~DefaultMoved
    BY <2>2, <2>3 DEF DefaultMoved
  <2>5. CASE <<"removed", chosen>> \in meanwhile
    BY <2>1, <2>3, <2>4, <2>5 DEF ReturnIsKnown
  <2>6. CASE <<"removed", chosen>> \notin meanwhile
    <3>1. n = chosen
      BY <2>2, <2>3, <2>6
    <3>2. primary \in {chosen, Unset}
      BY <2>3, <2>4, <2>6 DEF ChoiceIsKnown, DefaultKept, DefaultMoved
    <3> QED BY <2>1, <3>1, <3>2
  <2> QED BY <2>5, <2>6
<1>7. CASE RotatePassword
  <2>1. \E m \in methods : Happens("rotated", m)
    BY <1>7 DEF RotatePassword
  <2> QED BY <1>7, <2>1 DEF RotatePassword, ApiCall, Happens, ReturnIsKnown, DefaultMoved
<1> QED BY <1>1, <1>2, <1>3, <1>4, <1>5, <1>6, <1>7 DEF Next, Environment

LEMMA AlwaysReturnIsKnown == Spec => []ReturnIsKnown
<1>1. Init => ReturnIsKnown
  BY DEF Init, ReturnIsKnown
<1> QED BY <1>1, ReturnStep, AlwaysIInv, PTL DEF Spec

LEMMA ReadyStep ==
  ASSUME IInv, ReturnIsKnown, [Next]_vars, pc # "ready", pc' = "ready"
  PROVE  WayIn \/ DefaultMoved
<1> USE DEF IInv
<1>1. ConfigureWithRecovery \/ ConfigureWithToken \/ Login
  BY DEF Next, Configure, Environment, vars, history, Fail, ConfigureWithMethod, ListFinds,
         ListFindsNone, Refuse, LoginRejected, CallFails, RunEnds, EditSettings, AddMethod,
         SetPrimary, RemoveMethod, RotatePassword, Happens
<1>2. CASE ConfigureWithRecovery \/ ConfigureWithToken
  BY <1>2 DEF ConfigureWithRecovery, ConfigureWithToken, UsesRecovery, UsesToken, Fail, WayIn
<1>3. CASE Login
  <2>1. /\ pc = "login" /\ chosen \in methods /\ chosen \notin Unsupported
        /\ settings.named # {} /\ accepted[chosen] = Password
    BY <1>3 DEF Login, CannotLogIn
  <2>2. Passes(chosen)
    BY <2>1 DEF Passes, Password
  <2>3. /\ settings.recovery = "absent" /\ settings.auth_method_id \in {Unset, chosen}
        /\ settings.auth_method_id = Unset => DefaultKept(chosen, meanwhile)
    BY <2>1 DEF ChoiceIsKnown, UsesRecovery
  <2>4. \/ DefaultMoved
        \/ settings.auth_method_id = chosen
        \/ settings.auth_method_id = Unset /\ (primary = chosen \/ methods = {chosen})
    <3>1. CASE settings.auth_method_id = Unset /\ ~DefaultMoved
      <4>1. <<"primary", Unset>> \notin meanwhile /\ <<"ambiguous", Unset>> \notin meanwhile
        BY <3>1 DEF DefaultMoved
      <4>2. primary = chosen \/ methods = {chosen}
        BY <2>1, <2>3, <3>1, <4>1 DEF DefaultKept, ReturnIsKnown
      <4> QED BY <3>1, <4>2
    <3> QED BY <2>3, <3>1
  <2>5. DefaultMoved \/ WayIn
    BY <2>1, <2>2, <2>3, <2>4, Zenon DEF WayIn
  <2> QED BY <2>5
<1> QED BY <1>1, <1>2, <1>3

(* Nobody gets in otherwise: a configuration that succeeds has taken one   *)
(* of the ways in, which is still there, or was when the default auth      *)
(* method was looked up.                                                   *)
THEOREM NobodyElseGetsIn ==
  Spec => [][ pc # "ready" /\ pc' = "ready" => WayIn \/ DefaultMoved ]_vars
<1>1. IInv /\ ReturnIsKnown /\ [Next]_vars =>
        [ pc # "ready" /\ pc' = "ready" => WayIn \/ DefaultMoved ]_vars
  BY ReadyStep
<1> QED BY <1>1, AlwaysIInv, AlwaysReturnIsKnown, PTL DEF Spec

=============================================================================
