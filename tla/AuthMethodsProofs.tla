------------------------- MODULE AuthMethodsProofs -------------------------
(***************************************************************************)
(* AuthMethods for any number of resources of one scope: its types, what   *)
(* Create and Update promise across their calls, and that runs which find  *)
(* everything in order leave the methods and the scope's slot alone.       *)
(*                                                                         *)
(* The invariant follows a handler through its calls: what a call is to    *)
(* bring about is either still on the list or holds in Boundary, unless    *)
(* somebody else has interfered; what the reads of a refresh show is what  *)
(* the handler then starts from.                                           *)
(***************************************************************************)
EXTENDS AuthMethods, TLAPS

Reads == {"readMethod", "readScope"}

In(s) == {s[i] : i \in DOMAIN s}

(* Nothing is written after the first read. *)
ReadsLast(s) == \A i, j \in DOMAIN s : i < j /\ s[i] \in Reads => s[j] \in Reads

(* The object is there with the configured attributes, once the call that  *)
(* writes them is made.                                                    *)
Written(m) ==
  "method" \notin disturbed[m] =>
    server[m].exists /\ ("attrs" \in In(todo[m]) \/ server[m].attrs = config[m].attrs)

Claimed(m) == "scope" \notin disturbed[m] => "claim" \in In(todo[m]) \/ primary = m

Refreshing(m) ==
  pc[m] = "refresh" =>
    \/ todo[m] = <<"readMethod", "readScope">>
    \/ /\ todo[m] = <<"readScope">>
       /\ "method" \notin disturbed[m] => server[m].exists /\ read[m] = server[m].attrs

Refreshed(m) ==
  pc[m] = "planned" =>
    /\ todo[m] = <<>>
    /\ state[m].tracked /\ "method" \notin disturbed[m] =>
         server[m].exists /\ server[m].attrs = state[m].attrs

Creating(m) ==
  pc[m] = "create" =>
    /\ config[m].here /\ ~state[m].tracked
    /\ In(todo[m]) \subseteq {"activate", "claim"}
    /\ Written(m)
    /\ "method" \notin disturbed[m] => "activate" \in In(todo[m]) \/ server[m].active
    /\ config[m].primary => Claimed(m)

Updating(m) ==
  pc[m] = "update" =>
    /\ ReadsLast(todo[m])
    /\ Written(m)
    /\ ~Federated(m) /\ Claims(m) => Claimed(m)

Resting(m) == pc[m] \in {"idle", "done"} => todo[m] = <<>>

Local(m) == Refreshing(m) /\ Refreshed(m) /\ Creating(m) /\ Updating(m) /\ Resting(m)

IInv == TypeOK /\ \A m \in Methods : Local(m)

-----------------------------------------------------------------------------
(* Lists of calls.                                                         *)

LEMMA NoAttrsType == NoAttrs \in Attrs
  BY MethodsAssumption DEF NoAttrs

LEMMA TailFacts ==
  ASSUME NEW s \in Seq(Calls), s # <<>>
  PROVE  /\ Head(s) \in Calls /\ Tail(s) \in Seq(Calls)
         /\ In(s) = {Head(s)} \cup In(Tail(s))
         /\ ReadsLast(s) => ReadsLast(Tail(s))
         /\ ReadsLast(s) /\ Head(s) \in Reads => In(s) \subseteq Reads
<1>1. Head(s) \in Calls /\ Tail(s) \in Seq(Calls) /\ Head(s) = s[1] /\ 1 \in DOMAIN s
  OBVIOUS
<1>2. \A i \in DOMAIN Tail(s) : i + 1 \in DOMAIN s /\ Tail(s)[i] = s[i + 1]
  OBVIOUS
<1>3. \A i \in DOMAIN s : i = 1 \/ (i - 1 \in DOMAIN Tail(s) /\ s[i] = Tail(s)[i - 1])
  OBVIOUS
<1>4. In(s) = {Head(s)} \cup In(Tail(s))
  <2>1. In(s) \subseteq {Head(s)} \cup In(Tail(s))
    BY <1>1, <1>3 DEF In
  <2>2. In(Tail(s)) \subseteq In(s)
    BY <1>2 DEF In
  <2>3. Head(s) \in In(s)
    BY <1>1 DEF In
  <2> QED BY <2>1, <2>2, <2>3
<1>5. ReadsLast(s) => ReadsLast(Tail(s))
  BY <1>1, <1>2 DEF ReadsLast
<1>6. ReadsLast(s) /\ Head(s) \in Reads => In(s) \subseteq Reads
  BY <1>1 DEF ReadsLast, In
<1> QED BY <1>1, <1>4, <1>5, <1>6

LEMMA ConcatFacts ==
  ASSUME NEW s \in Seq(Calls), NEW t \in Seq(Calls)
  PROVE  /\ s \o t \in Seq(Calls)
         /\ In(s \o t) = In(s) \cup In(t)
         /\ In(s) \cap Reads = {} /\ ReadsLast(t) => ReadsLast(s \o t)
<1>1. s \o t \in Seq(Calls) /\ Len(s \o t) = Len(s) + Len(t)
  OBVIOUS
<1>2. \A i \in DOMAIN s : i \in DOMAIN (s \o t) /\ (s \o t)[i] = s[i]
  OBVIOUS
<1>3. \A i \in DOMAIN t : i + Len(s) \in DOMAIN (s \o t) /\ (s \o t)[i + Len(s)] = t[i]
  OBVIOUS
<1>4. \A i \in DOMAIN (s \o t) : i \in DOMAIN s \/ i - Len(s) \in DOMAIN t
  OBVIOUS
<1>5. \A i \in DOMAIN (s \o t) : i \notin DOMAIN s => (s \o t)[i] = t[i - Len(s)]
  OBVIOUS
<1>6. In(s \o t) = In(s) \cup In(t)
  <2>1. In(s \o t) \subseteq In(s) \cup In(t)
    BY <1>2, <1>4, <1>5 DEF In
  <2>2. In(s) \subseteq In(s \o t)
    BY <1>2 DEF In
  <2>3. In(t) \subseteq In(s \o t)
    BY <1>3 DEF In
  <2> QED BY <2>1, <2>2, <2>3
<1>7. ASSUME In(s) \cap Reads = {}, ReadsLast(t), NEW i \in DOMAIN (s \o t),
             NEW j \in DOMAIN (s \o t), i < j, (s \o t)[i] \in Reads
      PROVE  (s \o t)[j] \in Reads
  <2>1. i \notin DOMAIN s
    BY <1>2, <1>7 DEF In
  <2>2. j \notin DOMAIN s
    BY <1>7, <2>1
  <2>3. i - Len(s) < j - Len(s)
    BY <1>7, <1>1
  <2> QED BY <1>4, <1>5, <1>7, <2>1, <2>2, <2>3 DEF ReadsLast
<1> QED BY <1>1, <1>6, <1>7 DEF ReadsLast

LEMMA IfFacts ==
  ASSUME NEW c \in BOOLEAN, NEW call \in Calls
  PROVE  /\ If(c, call) \in Seq(Calls)
         /\ In(If(c, call)) = IF c THEN {call} ELSE {}
         /\ ReadsLast(If(c, call))
<1>1. CASE c
  BY <1>1 DEF If, In, ReadsLast
<1>2. CASE ~c
  BY <1>2 DEF If, In, ReadsLast
<1> QED BY <1>1, <1>2

LEMMA ReadBackFacts ==
  /\ <<"readMethod", "readScope">> \in Seq(Calls)
  /\ In(<<"readMethod", "readScope">>) = Reads
  /\ ReadsLast(<<"readMethod", "readScope">>)
<1>1. <<"readMethod", "readScope">> \in Seq(Calls)
  BY DEF Calls
<1>2. DOMAIN <<"readMethod", "readScope">> = {1, 2}
  OBVIOUS
<1> QED BY <1>1, <1>2 DEF In, Reads, ReadsLast

LEMMA EmptyFacts == <<>> \in Seq(Calls) /\ In(<<>>) = {} /\ ReadsLast(<<>>)
  BY DEF In, ReadsLast

LEMMA ConfigFacts ==
  ASSUME TypeOK, NEW m \in Methods
  PROVE  config[m].here \in BOOLEAN /\ config[m].attrs \in Attrs /\ config[m].primary \in BOOLEAN
<1>1. config[m] \in Configs
  BY DEF TypeOK
<1>2. CASE config[m] \in [here : {TRUE}, attrs : Attrs, primary : BOOLEAN]
  BY <1>2
<1>3. CASE config[m] = [here |-> FALSE, attrs |-> NoAttrs, primary |-> FALSE]
  BY <1>3, NoAttrsType
<1> QED BY <1>1, <1>2, <1>3 DEF Configs

LEMMA CreateFacts ==
  ASSUME TypeOK, NEW m \in Methods
  PROVE  /\ CallsOfCreate(m) \in Seq(Calls)
         /\ In(CallsOfCreate(m)) \subseteq {"activate", "claim"}
         /\ kind[m] = "oidc" => "activate" \in In(CallsOfCreate(m))
         /\ config[m].primary => "claim" \in In(CallsOfCreate(m))
<1> DEFINE s == If(kind[m] = "oidc", "activate")
           t == If(config[m].primary, "claim")
<1>1. config[m].primary \in BOOLEAN
  BY ConfigFacts
<1>2. s \in Seq(Calls) /\ In(s) = IF kind[m] = "oidc" THEN {"activate"} ELSE {}
  BY IfFacts DEF Calls
<1>3. t \in Seq(Calls) /\ In(t) = IF config[m].primary THEN {"claim"} ELSE {}
  BY <1>1, IfFacts DEF Calls
<1>4. CallsOfCreate(m) = s \o t
  BY DEF CallsOfCreate
<1> HIDE DEF s, t
<1>5. s \o t \in Seq(Calls) /\ In(s \o t) = In(s) \cup In(t)
  BY <1>2, <1>3, ConcatFacts
<1> QED BY <1>2, <1>3, <1>4, <1>5

LEMMA UpdateFacts ==
  ASSUME TypeOK, NEW m \in Methods
  PROVE  /\ CallsOfUpdate(m) \in Seq(Calls)
         /\ ReadsLast(CallsOfUpdate(m))
         /\ config[m].attrs # state[m].attrs => "attrs" \in In(CallsOfUpdate(m))
         /\ ~Federated(m) /\ Claims(m) => "claim" \in In(CallsOfUpdate(m))
         /\ ~Claims(m) => "claim" \notin In(CallsOfUpdate(m))
<1> DEFINE changes == config[m].attrs # state[m].attrs
           differs == config[m].primary # state[m].primary
           claims == differs /\ config[m].primary
           claim == If(claims, "claim")
           attrs == If(changes, "attrs")
           look == If(differs, "lookup")
           back == IF differs /\ (kind[m] = "generic" \/ ~changes)
                   THEN <<"readMethod", "readScope">> ELSE <<>>
<1>1. claims \in BOOLEAN /\ (Claims(m) <=> claims)
  BY ConfigFacts DEF Claims
<1>2. claim \in Seq(Calls) /\ In(claim) = (IF claims THEN {"claim"} ELSE {}) /\ ReadsLast(claim)
  BY <1>1, IfFacts DEF Calls
<1>3. attrs \in Seq(Calls) /\ In(attrs) = (IF changes THEN {"attrs"} ELSE {}) /\ ReadsLast(attrs)
  BY IfFacts DEF Calls
<1>4. look \in Seq(Calls) /\ In(look) = (IF differs THEN {"lookup"} ELSE {})
  BY IfFacts DEF Calls
<1>5. back \in Seq(Calls) /\ In(back) \subseteq Reads /\ ReadsLast(back)
  BY ReadBackFacts, EmptyFacts
<1>6. CallsOfUpdate(m) =
        IF Federated(m) THEN IF changes THEN <<"attrs">> \o claim ELSE <<>>
        ELSE look \o claim \o attrs \o back
  BY DEF CallsOfUpdate
<1>7. changes => attrs = <<"attrs">>
  BY DEF If
<1> HIDE DEF changes, differs, claims, claim, attrs, look, back
<1>8. CASE Federated(m) /\ changes
  <2>1. /\ attrs \o claim \in Seq(Calls) /\ ReadsLast(attrs \o claim)
        /\ In(attrs \o claim) = In(attrs) \cup In(claim)
    BY <1>2, <1>3, ConcatFacts DEF Reads
  <2> QED BY <1>1, <1>2, <1>3, <1>6, <1>7, <1>8, <2>1
<1>9. CASE Federated(m) /\ ~changes
  BY <1>6, <1>9, EmptyFacts DEF changes
<1>10. CASE ~Federated(m)
  <2>1. look \o claim \in Seq(Calls) /\ In(look \o claim) = In(look) \cup In(claim)
    BY <1>2, <1>4, ConcatFacts
  <2>2. /\ (look \o claim) \o attrs \in Seq(Calls)
        /\ In((look \o claim) \o attrs) = In(look) \cup In(claim) \cup In(attrs)
    BY <1>3, <2>1, ConcatFacts
  <2>3. In((look \o claim) \o attrs) \cap Reads = {}
    BY <1>2, <1>3, <1>4, <2>2 DEF Reads
  <2>4. /\ ((look \o claim) \o attrs) \o back \in Seq(Calls)
        /\ ReadsLast(((look \o claim) \o attrs) \o back)
        /\ In(((look \o claim) \o attrs) \o back)
             = In(look) \cup In(claim) \cup In(attrs) \cup In(back)
    BY <1>5, <2>2, <2>3, ConcatFacts
  <2>5. CallsOfUpdate(m) = ((look \o claim) \o attrs) \o back
    BY <1>6, <1>10
  <2>6. config[m].attrs # state[m].attrs => "attrs" \in In(attrs)
    BY <1>3 DEF changes
  <2>7. Claims(m) => "claim" \in In(claim)
    BY <1>1, <1>2
  <2>8. ~Claims(m) => "claim" \notin In(look) \cup In(claim) \cup In(attrs) \cup In(back)
    BY <1>1, <1>2, <1>3, <1>4, <1>5 DEF Reads
  <2> QED BY <1>10, <2>4, <2>5, <2>6, <2>7, <2>8
<1> QED BY <1>8, <1>9, <1>10

-----------------------------------------------------------------------------
(* Types.                                                                  *)

LEMMA InitEstablishes == Init => IInv
<1> SUFFICES ASSUME Init PROVE IInv OBVIOUS
<1>1. TypeOK
  BY NoAttrsType, EmptyFacts, BoundsAssumption DEF Init, Idle, TypeOK, Objects, States
<1> QED
  BY <1>1 DEF Init, Idle, IInv, Local, Refreshing, Refreshed, Creating, Updating, Resting

(* The states that handlers leave.                                         *)
LEMMA StatesLeft ==
  ASSUME TypeOK, NEW m \in Methods
  PROVE  /\ PlannedState(m) \in States /\ Untracked(m) \in States
         /\ \A t \in BOOLEAN : RecordedState(m, t) \in States
         /\ Updated(m) \in [Methods -> Objects] /\ Activated(m) \in [Methods -> Objects]
<1>1. state[m] \in [tracked : BOOLEAN, tainted : BOOLEAN, attrs : Attrs, primary : BOOLEAN]
      /\ (state[m].tainted => state[m].tracked)
  BY DEF TypeOK, States
<1>2. config[m].attrs \in Attrs /\ config[m].primary \in BOOLEAN
  BY ConfigFacts
<1>3. PlannedState(m) \in States
  BY <1>1, <1>2 DEF PlannedState, States
<1>4. Untracked(m) \in States
  BY <1>1, NoAttrsType DEF Untracked, States
<1>5. \A t \in BOOLEAN : RecordedState(m, t) \in States
  BY <1>1, <1>2 DEF RecordedState, PlannedState, States
<1>6. Updated(m) \in [Methods -> Objects]
  BY <1>2 DEF TypeOK, Updated, Objects
<1>7. Activated(m) \in [Methods -> Objects]
  BY DEF TypeOK, Activated, Objects
<1> QED BY <1>3, <1>4, <1>5, <1>6, <1>7

LEMMA ReturnType ==
  ASSUME TypeOK, NEW m \in Methods, NEW d \in SUBSET {"error", "crash"}, Return(m, d)
  PROVE  /\ pc' \in [Methods -> {"idle", "refresh", "planned", "create", "update", "done"}]
         /\ todo' \in [Methods -> Seq(Calls)] /\ read' \in [Methods -> Attrs]
         /\ diags' \in [Methods -> SUBSET {"error", "crash"}]
<1>1. pc' \in [Methods -> {"idle", "refresh", "planned", "create", "update", "done"}]
  BY DEF Return, TypeOK
<1>2. todo' \in [Methods -> Seq(Calls)]
  BY EmptyFacts DEF Return, TypeOK
<1> QED BY <1>1, <1>2, NoAttrsType DEF Return, TypeOK

LEMMA StopType ==
  ASSUME TypeOK, NEW d \in SUBSET {"error", "crash"}, Stop(d)
  PROVE  /\ pc' \in [Methods -> {"idle", "refresh", "planned", "create", "update", "done"}]
         /\ todo' \in [Methods -> Seq(Calls)] /\ read' \in [Methods -> Attrs]
         /\ diags' \in [Methods -> SUBSET {"error", "crash"}]
  BY NoAttrsType, EmptyFacts DEF Stop

LEMMA ProceedType ==
  ASSUME TypeOK, NEW m \in Methods, todo[m] # <<>>, Proceed(m)
  PROVE  todo' \in [Methods -> Seq(Calls)]
<1>1. todo[m] \in Seq(Calls)
  BY DEF TypeOK
<1>2. Tail(todo[m]) \in Seq(Calls)
  BY <1>1, TailFacts
<1> QED BY <1>2 DEF Proceed, TypeOK

LEMMA FaultType ==
  ASSUME TypeOK, Fault
  PROVE  faults' \in 0..MaxFaults /\ UNCHANGED <<edits, outOfBand>>
  BY BoundsAssumption DEF TypeOK, Fault

LEMMA HandlerType ==
  ASSUME TypeOK, NEW m \in Methods, Handler(m)
  PROVE  TypeOK'
<1> USE DEF bounds, run
<1>0. {} \in SUBSET {"error", "crash"} /\ {"error"} \in SUBSET {"error", "crash"}
  OBVIOUS
<1>1. CASE Refresh(m)
  BY <1>1, ReadBackFacts, EmptyFacts DEF Refresh, TypeOK
<1>2. CASE ReadMethod(m)
  <2>1. CASE server[m].exists
    BY <1>2, <2>1, ProceedType DEF ReadMethod, Proceed, NextIs, TypeOK, Objects
  <2>2. CASE ~server[m].exists
    BY <1>2, <2>2, ReturnType, StatesLeft DEF ReadMethod, TypeOK
  <2> QED BY <2>1, <2>2
<1>3. CASE ReadScope(m)
  <2> DEFINE before == IF pc[m] = "refresh" THEN state[m].primary ELSE config[m].primary
  <2>1. /\ state' = [state EXCEPT ![m].attrs = read[m],
                                ![m].primary = PrimaryFromRead(m, primary = m, before)]
        /\ Return(m, {}) /\ UNCHANGED <<kind, config, server, primary, disturbed, bounds>>
    BY <1>3 DEF ReadScope
  <2>2. before \in BOOLEAN /\ read[m] \in Attrs
    <3>1. state[m].primary \in BOOLEAN /\ config[m].primary \in BOOLEAN
      BY ConfigFacts DEF TypeOK, States
    <3> QED BY <3>1 DEF TypeOK
  <2>3. PrimaryFromRead(m, primary = m, before) \in BOOLEAN
    BY <2>2 DEF PrimaryFromRead
  <2>4. state' \in [Methods -> States]
    <3> DEFINE p == PrimaryFromRead(m, primary = m, before)
    <3>1. p \in BOOLEAN /\ read[m] \in Attrs
      BY <2>2, <2>3
    <3>2. state' = [state EXCEPT ![m] = [@ EXCEPT !.attrs = read[m], !.primary = p]]
      BY <2>1 DEF TypeOK, States
    <3> HIDE DEF p
    <3> QED BY <3>1, <3>2 DEF TypeOK, States
  <2> QED BY <1>0, <2>1, <2>4, ReturnType DEF TypeOK
<1>4. CASE RefreshFails(m)
  <2>1. Stop({"error"}) /\ Fault /\ UNCHANGED <<kind, config, server, primary, state, disturbed>>
    BY <1>4 DEF RefreshFails
  <2> QED BY <1>0, <2>1, StopType, FaultType DEF TypeOK
<1>5. CASE ApplyNothing(m)
  BY <1>5, ReturnType DEF ApplyNothing, TypeOK
<1>6. CASE Create(m)
  BY <1>6, CreateFacts, ConfigFacts, MethodsAssumption DEF Create, TypeOK, Objects
<1>7. CASE CreateFails(m)
  <2>1. /\ Return(m, {"error"}) /\ Fault
        /\ UNCHANGED <<kind, config, server, primary, state, disturbed>>
    BY <1>7 DEF CreateFails
  <2> QED BY <1>0, <2>1, ReturnType, FaultType DEF TypeOK
<1>8. CASE Update(m)
  BY <1>8, UpdateFacts DEF Update, TypeOK
<1>9. CASE Lookup(m)
  BY <1>9, ProceedType DEF Lookup, NextIs, Proceed, TypeOK
<1>10. CASE ChangeState(m)
  BY <1>10, ProceedType, StatesLeft DEF ChangeState, NextIs, Proceed, TypeOK
<1>11. CASE UpdateScopeWithPrimary(m)
  BY <1>11, ProceedType DEF UpdateScopeWithPrimary, NextIs, Proceed, DisturbOthers, TypeOK
<1>12. CASE UpdateMethod(m)
  BY <1>12, ProceedType, StatesLeft DEF UpdateMethod, NextIs, Proceed, TypeOK
<1>13. CASE CallFails(m)
  <2>1. /\ Return(m, {"error"}) /\ UNCHANGED <<kind, config>>
        /\ UNCHANGED <<edits, outOfBand>> /\ faults' \in 0..MaxFaults
    BY <1>13, FaultType DEF CallFails, TypeOK
  <2>2. state' \in [Methods -> States]
    BY <1>13, StatesLeft DEF CallFails, TypeOK
  <2>3. server' \in [Methods -> Objects]
    BY <1>13, StatesLeft DEF CallFails, TypeOK
  <2>4. primary' \in Methods \cup {NoMethod, OtherMethod}
    BY <1>13 DEF CallFails, TypeOK
  <2>5. disturbed' \in [Methods -> SUBSET {"method", "scope"}]
    BY <1>13 DEF CallFails, DisturbOthers, TypeOK
  <2> QED BY <1>0, <2>1, <2>2, <2>3, <2>4, <2>5, ReturnType DEF TypeOK
<1>14. CASE CreateReturns(m) \/ UpdateReturns(m)
  <2>1. /\ Return(m, {}) /\ UNCHANGED <<kind, config, server, primary, disturbed, bounds>>
        /\ \/ state' = [state EXCEPT ![m] = RecordedState(m, FALSE)]
           \/ state' = [state EXCEPT ![m] = PlannedState(m)]
    BY <1>14 DEF CreateReturns, UpdateReturns
  <2>2. state' \in [Methods -> States]
    BY <2>1, StatesLeft DEF TypeOK
  <2> QED BY <1>0, <2>1, <2>2, ReturnType DEF TypeOK
<1>15. CASE Delete(m)
  <2>1. /\ server' = [server EXCEPT ![m].exists = FALSE]
        /\ primary' = IF primary = m THEN NoMethod ELSE primary
        /\ state' = [state EXCEPT ![m] = Untracked(m)]
        /\ UNCHANGED <<pc, todo, read, diags>> \/ Return(m, {})
        /\ UNCHANGED <<kind, config, disturbed, bounds>>
    BY <1>15 DEF Delete, Gone
  <2>2. server' \in [Methods -> Objects]
    BY <2>1 DEF TypeOK, Objects
  <2>3. state' \in [Methods -> States]
    BY <2>1, StatesLeft DEF TypeOK
  <2>4. primary' \in Methods \cup {NoMethod, OtherMethod}
    BY <2>1 DEF TypeOK
  <2>5. CASE UNCHANGED <<pc, todo, read, diags>>
    BY <2>1, <2>2, <2>3, <2>4, <2>5 DEF TypeOK
  <2>6. CASE Return(m, {})
    BY <1>0, <2>1, <2>2, <2>3, <2>4, <2>6, ReturnType DEF TypeOK
  <2> QED BY <2>1, <2>5, <2>6
<1>16. CASE DeleteFails(m)
  <2>1. /\ Return(m, {"error"}) /\ (UNCHANGED bounds \/ Fault)
        /\ UNCHANGED <<kind, config, server, primary, state, disturbed>>
    BY <1>16 DEF DeleteFails
  <2>2. Return(m, {"error"}) /\ UNCHANGED <<edits, outOfBand>> /\ faults' \in 0..MaxFaults
    BY <2>1, FaultType DEF TypeOK
  <2> QED BY <1>0, <2>1, <2>2, ReturnType DEF TypeOK
<1> QED
  BY <1>1, <1>2, <1>3, <1>4, <1>5, <1>6, <1>7, <1>8, <1>9, <1>10, <1>11, <1>12, <1>13, <1>14,
     <1>15, <1>16 DEF Handler

LEMMA EnvironmentType ==
  ASSUME TypeOK, RunEnds \/ Crash \/ Environment
  PROVE  TypeOK'
<1> USE DEF bounds, run
<1>0. {} \in SUBSET {"error", "crash"} /\ {"crash"} \in SUBSET {"error", "crash"}
  OBVIOUS
<1>1. CASE RunEnds
  BY <1>0, <1>1, StopType DEF RunEnds, TypeOK
<1>2. CASE Crash
  <2>1. Stop({"crash"}) /\ Fault /\ UNCHANGED <<kind, config, server, primary, state, disturbed>>
    BY <1>2 DEF Crash
  <2> QED BY <1>0, <2>1, StopType, FaultType DEF TypeOK
<1>3. CASE EditConfig
  BY <1>3, BoundsAssumption DEF EditConfig, TypeOK
<1>4. ASSUME NEW m \in Methods, Import(m)
      PROVE  TypeOK'
  <2>1. server[m].attrs \in Attrs
    BY DEF TypeOK, Objects
  <2>2. PrimaryFromRead(m, primary = m, FALSE) \in BOOLEAN
    BY DEF PrimaryFromRead
  <2>3. [tracked |-> TRUE, tainted |-> FALSE, attrs |-> server[m].attrs,
         primary |-> PrimaryFromRead(m, primary = m, FALSE)] \in States
    BY <2>1, <2>2 DEF States
  <2> QED BY <1>4, <2>3 DEF Import, TypeOK
<1>5. ASSUME NEW d \in SUBSET {"method", "scope"}, ApiCall(d)
      PROVE  /\ disturbed' \in [Methods -> SUBSET {"method", "scope"}]
             /\ outOfBand' \in 0..MaxOutOfBand
             /\ UNCHANGED <<kind, config, state, pc, todo, read, diags, edits, faults>>
  <2>1. disturbed' = [m \in Methods |-> disturbed[m] \cup d]
    BY <1>5 DEF ApiCall
  <2>2. disturbed' \in [Methods -> SUBSET {"method", "scope"}]
    BY <2>1 DEF TypeOK
  <2>3. outOfBand' \in 0..MaxOutOfBand
    BY <1>5, BoundsAssumption DEF ApiCall, TypeOK
  <2> QED BY <1>5, <2>2, <2>3 DEF ApiCall
<1>6. {"method"} \in SUBSET {"method", "scope"} /\ {"scope"} \in SUBSET {"method", "scope"}
      /\ {"method", "scope"} \in SUBSET {"method", "scope"}
  OBVIOUS
<1>7. CASE ApiSetPrimary
  <2>1. primary' \in Methods \cup {NoMethod, OtherMethod} /\ server' = server /\ ApiCall({"scope"})
    BY <1>7 DEF ApiSetPrimary
  <2> QED BY <1>5, <1>6, <2>1 DEF TypeOK
<1>8. CASE ApiChange
  <2>1. server' \in [Methods -> Objects] /\ primary' = primary /\ ApiCall({"method"})
    <3>1. PICK m \in Methods, a \in Attrs : server' = [server EXCEPT ![m].attrs = a]
      BY <1>8 DEF ApiChange
    <3>2. server' \in [Methods -> Objects]
      BY <3>1 DEF TypeOK, Objects
    <3> QED BY <1>8, <3>2 DEF ApiChange
  <2> QED BY <1>5, <1>6, <2>1 DEF TypeOK
<1>9. CASE ApiDelete
  <2>1. server' \in [Methods -> Objects] /\ ApiCall({"method", "scope"})
    <3>1. PICK m \in Methods : server' = [server EXCEPT ![m].exists = FALSE]
      BY <1>9 DEF ApiDelete
    <3>2. server' \in [Methods -> Objects]
      BY <3>1 DEF TypeOK, Objects
    <3> QED BY <1>9, <3>2 DEF ApiDelete
  <2>2. primary' \in Methods \cup {NoMethod, OtherMethod}
    BY <1>9 DEF ApiDelete, Gone, TypeOK
  <2> QED BY <1>5, <1>6, <2>1, <2>2 DEF TypeOK
<1> QED BY <1>1, <1>2, <1>3, <1>4, <1>7, <1>8, <1>9 DEF Environment

LEMMA TypeStep == TypeOK /\ [Next]_vars => TypeOK'
<1>1. TypeOK /\ UNCHANGED vars => TypeOK'
  BY DEF TypeOK, vars, run, bounds
<1> QED BY <1>1, HandlerType, EnvironmentType DEF Next, Terraform

-----------------------------------------------------------------------------
(* A handler among others.                                                 *)

(* What others do to m while its handler runs: nothing, or it is noted.    *)
Frame(m) ==
  /\ UNCHANGED <<kind, config>>
  /\ pc'[m] = pc[m] /\ todo'[m] = todo[m] /\ read'[m] = read[m] /\ state'[m] = state[m]
  /\ disturbed[m] \subseteq disturbed'[m]
  /\ "method" \in disturbed'[m] \/ server'[m] = server[m]
  /\ primary = m => "scope" \in disturbed'[m] \/ primary' = m

LEMMA FrameKeeps ==
  ASSUME NEW m \in Methods, Local(m), Frame(m)
  PROVE  Local(m)'
  BY DEF Local, Frame, Refreshing, Refreshed, Creating, Updating, Resting, Written, Claimed,
         Claims, Federated

LEMMA Others ==
  ASSUME TypeOK, NEW n \in Methods, Handler(n), ~RefreshFails(n), NEW m \in Methods, m # n
  PROVE  Frame(m)
<1> USE DEF Frame, TypeOK
<1>1. CASE Refresh(n)
  BY <1>1 DEF Refresh
<1>2. CASE ReadMethod(n)
  BY <1>2 DEF ReadMethod, Proceed, Return
<1>3. CASE ReadScope(n)
  BY <1>3 DEF ReadScope, Return
<1>4. CASE ApplyNothing(n) \/ CreateFails(n) \/ DeleteFails(n)
  BY <1>4 DEF ApplyNothing, CreateFails, DeleteFails, Return
<1>5. CASE Create(n)
  BY <1>5 DEF Create
<1>6. CASE Update(n)
  BY <1>6 DEF Update
<1>7. CASE Lookup(n)
  BY <1>7 DEF Lookup, Proceed
<1>8. CASE ChangeState(n)
  BY <1>8 DEF ChangeState, Proceed, Activated
<1>9. CASE UpdateScopeWithPrimary(n)
  BY <1>9 DEF UpdateScopeWithPrimary, Proceed, DisturbOthers
<1>10. CASE UpdateMethod(n)
  BY <1>10 DEF UpdateMethod, Proceed, Updated
<1>11. CASE CallFails(n)
  BY <1>11 DEF CallFails, Return, Activated, Updated, DisturbOthers
<1>12. CASE CreateReturns(n) \/ UpdateReturns(n)
  BY <1>12 DEF CreateReturns, UpdateReturns, Return
<1>13. CASE Delete(n)
  BY <1>13 DEF Delete, Gone, Return, run
<1> QED
  BY <1>1, <1>2, <1>3, <1>4, <1>5, <1>6, <1>7, <1>8, <1>9, <1>10, <1>11, <1>12, <1>13
     DEF Handler

LEMMA IdleLocal ==
  ASSUME NEW m \in Methods, pc'[m] = "idle" \/ pc'[m] = "done", todo'[m] = <<>>
  PROVE  Local(m)'
  BY DEF Local, Refreshing, Refreshed, Creating, Updating, Resting

LEMMA Stops ==
  ASSUME TypeOK, RunEnds \/ Crash \/ (\E n \in Methods : RefreshFails(n)), NEW m \in Methods
  PROVE  Local(m)'
<1>1. pc'[m] = "idle" /\ todo'[m] = <<>>
  BY DEF RunEnds, Crash, RefreshFails, Stop
<1> QED BY <1>1, IdleLocal

LEMMA EnvironmentLocal ==
  ASSUME IInv, Environment, NEW m \in Methods
  PROVE  Local(m)'
<1>1. CASE EditConfig \/ (\E n \in Methods : Import(n))
  <2>1. pc'[m] = "idle" /\ todo'[m] = <<>>
    BY <1>1 DEF EditConfig, Import, run, IInv, Local, Resting
  <2> QED BY <2>1, IdleLocal
<1>2. CASE ApiSetPrimary \/ ApiChange \/ ApiDelete
  <2>1. ASSUME NEW d, ApiCall(d)
        PROVE  /\ UNCHANGED <<kind, config, pc, todo, read, state>>
               /\ disturbed'[m] = disturbed[m] \cup d
    BY <2>1 DEF ApiCall, run
  <2>2. Frame(m)
    BY <1>2, <2>1 DEF ApiSetPrimary, ApiChange, ApiDelete, Gone, Frame, IInv, TypeOK
  <2> QED BY <2>2, FrameKeeps DEF IInv
<1> QED BY <1>1, <1>2 DEF Environment

(* A handler goes on to the next call, or returns. *)
LEMMA Proceeds ==
  ASSUME TypeOK, NEW m \in Methods, todo[m] # <<>>, Proceed(m)
  PROVE  /\ pc'[m] = pc[m] /\ todo'[m] = Tail(todo[m])
         /\ In(todo[m]) = {Head(todo[m])} \cup In(todo'[m])
         /\ ReadsLast(todo[m]) => ReadsLast(todo'[m])
<1>1. pc' = pc /\ todo'[m] = Tail(todo[m]) /\ todo[m] \in Seq(Calls)
  BY DEF Proceed, TypeOK
<1> QED BY <1>1, TailFacts

LEMMA Returned ==
  ASSUME TypeOK, NEW m \in Methods, NEW d, Return(m, d), pc[m] # "refresh"
  PROVE  pc'[m] = "done" /\ Local(m)'
<1>1. pc'[m] = "done" /\ todo'[m] = <<>>
  BY DEF Return, TypeOK
<1> QED BY <1>1, IdleLocal

LEMMA HandlerLocal ==
  ASSUME IInv, NEW m \in Methods, Handler(m), ~RefreshFails(m)
  PROVE  Local(m)'
<1> USE DEF IInv
<1>1. CASE Refresh(m)
  <2>1. CASE state[m].tracked
    <3>1. pc'[m] = "refresh" /\ todo'[m] = <<"readMethod", "readScope">>
      BY <1>1, <2>1 DEF Refresh, TypeOK
    <3> QED BY <3>1 DEF Local, Refreshing, Refreshed, Creating, Updating, Resting
  <2>2. CASE ~state[m].tracked
    <3>1. pc'[m] = "planned" /\ todo'[m] = <<>> /\ ~state'[m].tracked
      BY <1>1, <2>2 DEF Refresh, TypeOK
    <3> QED BY <3>1 DEF Local, Refreshing, Refreshed, Creating, Updating, Resting
  <2> QED BY <2>1, <2>2
<1>2. CASE ReadMethod(m) /\ server[m].exists
  <2>1. /\ todo[m] # <<>> /\ Head(todo[m]) = "readMethod" /\ Proceed(m)
        /\ read'[m] = server[m].attrs
        /\ UNCHANGED <<kind, config, server, primary, disturbed, state>>
    BY <1>2 DEF ReadMethod, NextIs, TypeOK
  <2>2. CASE pc[m] = "refresh"
    <3>1. todo[m] = <<"readMethod", "readScope">>
      BY <2>1, <2>2 DEF Local, Refreshing
    <3>2. Tail(<<"readMethod", "readScope">>) = <<"readScope">>
      OBVIOUS
    <3>3. pc'[m] = "refresh" /\ todo'[m] = <<"readScope">>
      BY <2>1, <2>2, <3>1, <3>2, Proceeds
    <3> QED BY <1>2, <2>1, <3>3 DEF Local, Refreshing, Refreshed, Creating, Updating, Resting
  <2>3. CASE pc[m] # "refresh"
    <3>1. pc'[m] = pc[m] /\ In(todo[m]) = {"readMethod"} \cup In(todo'[m])
          /\ (ReadsLast(todo[m]) => ReadsLast(todo'[m]))
      BY <2>1, Proceeds
    <3>2. pc[m] \in {"update"}
      BY <2>1, <2>3, <3>1 DEF Local, Refreshed, Creating, Resting, TypeOK
    <3> QED BY <2>1, <3>1, <3>2 DEF Local, Refreshing, Refreshed, Creating, Updating,
               Resting, Written, Claimed, Claims, Federated
  <2> QED BY <2>2, <2>3
<1>3. CASE ReadMethod(m) /\ ~server[m].exists
  <2>1. Return(m, {}) /\ state'[m] = Untracked(m)
    BY <1>3 DEF ReadMethod, TypeOK
  <2>2. CASE pc[m] = "refresh"
    <3>1. pc'[m] = "planned" /\ todo'[m] = <<>>
      BY <2>1, <2>2 DEF Return, TypeOK
    <3>2. ~state'[m].tracked
      BY <2>1 DEF Untracked, TypeOK, States
    <3> QED BY <3>1, <3>2 DEF Local, Refreshing, Refreshed, Creating, Updating, Resting
  <2> QED BY <2>1, <2>2, Returned
<1>4. CASE ReadScope(m)
  <2>1. /\ Return(m, {}) /\ NextIs(m, "readScope") /\ state'[m].attrs = read[m]
        /\ UNCHANGED <<server, disturbed>>
    BY <1>4 DEF ReadScope, TypeOK, States
  <2>2. CASE pc[m] = "refresh"
    <3>1. pc'[m] = "planned" /\ todo'[m] = <<>>
      BY <2>1, <2>2 DEF Return, TypeOK
    <3>2. todo[m] # <<"readMethod", "readScope">>
      BY <2>1 DEF NextIs
    <3>3. "method" \notin disturbed[m] => server[m].exists /\ read[m] = server[m].attrs
      BY <2>2, <3>2 DEF Local, Refreshing
    <3> QED BY <2>1, <3>1, <3>3 DEF Local, Refreshing, Refreshed, Creating, Updating, Resting
  <2> QED BY <2>1, <2>2, Returned
<1>5. CASE ApplyNothing(m) \/ CreateFails(m) \/ CreateReturns(m) \/ UpdateReturns(m) \/ DeleteFails(m)
           \/ CallFails(m)
  <2>1. pc[m] # "refresh" /\ \E d \in {{}, {"error"}} : Return(m, d)
    BY <1>5 DEF ApplyNothing, CreateFails, CreateReturns, UpdateReturns, DeleteFails, CallFails,
                Ready
  <2> QED BY <2>1, Returned
<1>6. CASE Create(m)
  <2>1. /\ pc'[m] = "create" /\ todo'[m] = CallsOfCreate(m) /\ UNCHANGED <<kind, config, state>>
        /\ config[m].here /\ ~state[m].tracked
        /\ server'[m] = [exists |-> TRUE, attrs |-> config[m].attrs, active |-> kind[m] # "oidc"]
    BY <1>6 DEF Create, TypeOK
  <2>2. /\ server'[m].exists /\ server'[m].attrs = config'[m].attrs
        /\ kind[m] # "oidc" => server'[m].active
    <3>1. server'[m].exists /\ server'[m].attrs = config'[m].attrs
      BY <2>1
    <3>2. CASE kind[m] # "oidc"
      <4> DEFINE active == kind[m] # "oidc"
      <4>1. server'[m] = [exists |-> TRUE, attrs |-> config[m].attrs, active |-> active]
        BY <2>1
      <4>2. active = TRUE
        BY <3>2
      <4> HIDE DEF active
      <4>3. server'[m].active
        BY <4>1, <4>2
      <4> QED BY <3>1, <4>3
    <3> QED BY <3>1, <3>2
  <2>3. Written(m)' /\ (config'[m].primary => Claimed(m)')
    BY <2>1, <2>2, CreateFacts DEF Written, Claimed
  <2>4. "activate" \in In(todo'[m]) \/ server'[m].active
    BY <2>1, <2>2, CreateFacts
  <2>5. In(todo'[m]) \subseteq {"activate", "claim"}
    BY <2>1, CreateFacts
  <2> QED BY <2>1, <2>3, <2>4, <2>5 DEF Local, Refreshing, Refreshed, Creating, Updating, Resting
<1>7. CASE Update(m)
  <2>1. /\ pc'[m] = "update" /\ todo'[m] = CallsOfUpdate(m) /\ pc[m] = "planned"
        /\ state[m].tracked /\ disturbed'[m] = disturbed[m] \ {"scope"}
        /\ UNCHANGED <<kind, config, server, primary, state>>
    BY <1>7 DEF Update, Ready, TypeOK
  <2>2. "method" \notin disturbed[m] => server[m].exists /\ server[m].attrs = state[m].attrs
    BY <2>1 DEF Local, Refreshed
  <2> QED BY <2>1, <2>2, UpdateFacts DEF Local, Refreshing, Refreshed, Creating, Updating,
             Resting, Written, Claimed, Claims, Federated
<1>8. CASE Lookup(m) \/ ChangeState(m) \/ UpdateScopeWithPrimary(m) \/ UpdateMethod(m)
  <2>1. /\ todo[m] # <<>> /\ Proceed(m) /\ UNCHANGED <<kind, config, state>>
        /\ disturbed'[m] = disturbed[m]
        /\ Head(todo[m]) \in {"lookup", "activate", "claim", "attrs"}
        /\ server'[m].exists = server[m].exists
        /\ Head(todo[m]) = "attrs" => server'[m].attrs = config[m].attrs
        /\ Head(todo[m]) # "attrs" => server'[m].attrs = server[m].attrs
        /\ Head(todo[m]) = "activate" => server'[m].active
        /\ Head(todo[m]) # "activate" => server'[m].active = server[m].active
        /\ Head(todo[m]) = "claim" => primary' = m
        /\ Head(todo[m]) # "claim" => primary' = primary
    BY <1>8 DEF Lookup, ChangeState, UpdateScopeWithPrimary, UpdateMethod, NextIs, Activated,
                Updated, DisturbOthers, TypeOK, Objects
  <2>2. pc'[m] = pc[m] /\ In(todo[m]) = {Head(todo[m])} \cup In(todo'[m])
        /\ (ReadsLast(todo[m]) => ReadsLast(todo'[m]))
    BY <2>1, Proceeds
  <2>3. pc[m] \in {"create", "update"}
    <3>1. pc[m] # "refresh"
      BY <2>1 DEF Local, Refreshing
    <3> QED BY <2>1, <3>1 DEF Local, Refreshed, Resting, TypeOK
  <2>4. Written(m) => Written(m)'
    BY <2>1, <2>2 DEF Written
  <2>5. Claimed(m) => Claimed(m)'
    BY <2>1, <2>2 DEF Claimed
  <2>6. CASE pc[m] = "create"
    BY <2>1, <2>2, <2>4, <2>5, <2>6 DEF Local, Refreshing, Refreshed, Creating, Updating, Resting
  <2>7. CASE pc[m] = "update"
    BY <2>1, <2>2, <2>4, <2>5, <2>7 DEF Local, Refreshing, Refreshed, Creating, Updating,
       Resting, Claims, Federated
  <2> QED BY <2>3, <2>6, <2>7
<1>9. CASE Delete(m)
  <2>1. CASE config[m].here
    <3>1. pc'[m] = "planned" /\ todo'[m] = todo[m] /\ ~state'[m].tracked
      BY <1>9, <2>1 DEF Delete, Ready, run, Untracked, TypeOK, States
    <3> QED BY <1>9, <3>1 DEF Local, Refreshing, Refreshed, Creating, Updating, Resting, Delete,
               Ready
  <2>2. CASE ~config[m].here
    BY <1>9, <2>2, Returned DEF Delete, Ready
  <2> QED BY <2>1, <2>2
<1> QED
  BY <1>1, <1>2, <1>3, <1>4, <1>5, <1>6, <1>7, <1>8, <1>9 DEF Handler

LEMMA Inductive == IInv /\ [Next]_vars => IInv'
<1> SUFFICES ASSUME IInv, [Next]_vars PROVE IInv' OBVIOUS
<1>1. TypeOK'
  BY TypeStep DEF IInv
<1>2. ASSUME NEW m \in Methods
      PROVE  Local(m)'
  <2>1. CASE UNCHANGED vars
    <3>1. Frame(m)
      BY <2>1 DEF Frame, vars, run
    <3> QED BY <3>1, FrameKeeps DEF IInv
  <2>2. CASE RunEnds \/ Crash \/ (\E n \in Methods : RefreshFails(n))
    BY <2>2, Stops DEF IInv
  <2>3. CASE Environment
    BY <2>3, EnvironmentLocal
  <2>4. ASSUME NEW n \in Methods, Handler(n), ~RefreshFails(n)
        PROVE  Local(m)'
    <3>1. CASE n = m
      BY <2>4, <3>1, HandlerLocal
    <3>2. CASE n # m
      <4>1. Frame(m)
        BY <2>4, <3>2, Others DEF IInv
      <4> QED BY <4>1, FrameKeeps DEF IInv
    <3> QED BY <3>1, <3>2
  <2> QED BY <2>1, <2>2, <2>3, <2>4 DEF Next, Terraform
<1> QED BY <1>1, <1>2 DEF IInv

LEMMA AlwaysIInv == Spec => []IInv
  BY InitEstablishes, Inductive, PTL DEF Spec

-----------------------------------------------------------------------------
(* Every variable keeps its type: the handlers make only calls they have,  *)
(* whatever the resources, their kinds and the faults.                     *)
THEOREM TypeCorrect == Spec => []TypeOK
  BY AlwaysIInv, PTL DEF IInv

(* The steps with which a handler comes to its end.                        *)
LEMMA ReturnSteps ==
  ASSUME IInv, [Next]_vars, NEW m \in Methods, Returns(m)
  PROVE  \/ CreateReturns(m) \/ UpdateReturns(m) \/ CallFails(m)
         \/ pc[m] = "update" /\ (ReadMethod(m) \/ ReadScope(m)) /\ Return(m, {})
<1> USE DEF Returns, IInv
<1>1. Next
  BY DEF vars, run
<1>2. ~RunEnds /\ ~Crash /\ ~Environment
  BY DEF RunEnds, Crash, Stop, Environment, EditConfig, Import, ApiSetPrimary, ApiChange,
         ApiDelete, ApiCall, run
<1>3. PICK n \in Methods : Handler(n)
  BY <1>1, <1>2 DEF Next, Terraform
<1>4. ~RefreshFails(n)
  BY DEF RefreshFails, Stop
<1>5. n = m
  BY <1>3, <1>4, Others DEF Frame
<1>6. ~Refresh(m) /\ ~ApplyNothing(m) /\ ~Create(m) /\ ~CreateFails(m) /\ ~Update(m)
      /\ ~Delete(m) /\ ~DeleteFails(m)
  BY DEF Refresh, ApplyNothing, Create, CreateFails, Update, Delete, DeleteFails, Ready
<1>7. ~Lookup(m) /\ ~ChangeState(m) /\ ~UpdateScopeWithPrimary(m) /\ ~UpdateMethod(m)
  BY DEF Lookup, ChangeState, UpdateScopeWithPrimary, UpdateMethod, Proceed
<1>8. ASSUME ReadMethod(m) \/ ReadScope(m)
      PROVE  pc[m] = "update" /\ Return(m, {})
  <2>1. Return(m, {})
    BY <1>8 DEF ReadMethod, ReadScope, Proceed
  <2>2. todo[m] # <<>> /\ Head(todo[m]) \in Reads /\ todo[m] \in Seq(Calls)
    BY <1>8 DEF ReadMethod, ReadScope, NextIs, Reads, TypeOK
  <2>3. Head(todo[m]) \in In(todo[m])
    BY <2>2, TailFacts
  <2>4. pc[m] # "create"
    BY <2>2, <2>3 DEF Local, Creating, Reads
  <2> QED BY <2>1, <2>4
<1> QED BY <1>3, <1>4, <1>5, <1>6, <1>7, <1>8 DEF Handler

(* resourceAuthMethod...Create and ...Update: a handler that returns no    *)
(* error has brought about what its resource says.                         *)
THEOREM SuccessIsTrue == Spec => SuccessIsComplete
<1>1. ASSUME IInv, [Next]_vars, NEW m \in Methods, Returns(m), diags'[m] = {}
      PROVE  /\ "method" \notin disturbed[m] =>
                  /\ server'[m].exists /\ server'[m].attrs = config[m].attrs
                  /\ pc[m] = "create" => server'[m].active
             /\ "scope" \notin disturbed[m] /\ Claims(m) /\ (pc[m] = "create" \/ ~Federated(m))
                  => primary' = m
  <2> USE <1>1 DEF IInv
  <2>1. CreateReturns(m) \/ UpdateReturns(m)
        \/ (pc[m] = "update" /\ (ReadMethod(m) \/ ReadScope(m)) /\ Return(m, {}))
    <3>1. CallFails(m) => diags'[m] = {"error"}
      BY DEF CallFails, Return, TypeOK
    <3>2. ~CallFails(m)
      BY <3>1
    <3> QED BY <3>2, ReturnSteps
  <2>2. server' = server /\ primary' = primary
    BY <2>1 DEF CreateReturns, UpdateReturns, ReadMethod, ReadScope
  <2>3. In(todo[m]) \cap {"attrs", "claim", "activate"} = {}
    <3>1. CASE todo[m] = <<>>
      BY <3>1, EmptyFacts
    <3>2. CASE todo[m] # <<>>
      <4>1. pc[m] = "update" /\ Head(todo[m]) \in Reads
        BY <2>1, <3>2 DEF CreateReturns, UpdateReturns, ReadMethod, ReadScope, NextIs, Reads
      <4>2. todo[m] \in Seq(Calls) /\ ReadsLast(todo[m])
        BY <4>1 DEF Local, Updating, TypeOK
      <4>3. In(todo[m]) \subseteq Reads
        BY <3>2, <4>1, <4>2, TailFacts
      <4> QED BY <4>3 DEF Reads
    <3> QED BY <3>1, <3>2
  <2>4. CASE pc[m] = "create"
    BY <2>2, <2>3, <2>4 DEF Local, Creating, Written, Claimed, Claims
  <2>5. CASE pc[m] = "update"
    BY <2>2, <2>3, <2>5 DEF Local, Updating, Written, Claimed
  <2> QED BY <2>4, <2>5 DEF Returns
<1>2. IInv /\ [Next]_vars => 
        [ \A m \in Methods : Returns(m) /\ diags'[m] = {} =>
            /\ "method" \notin disturbed[m] =>
                 /\ server'[m].exists /\ server'[m].attrs = config[m].attrs
                 /\ pc[m] = "create" => server'[m].active
            /\ "scope" \notin disturbed[m] /\ Claims(m) /\ (pc[m] = "create" \/ ~Federated(m))
                 => primary' = m ]_vars
  BY <1>1
<1> QED BY <1>2, AlwaysIInv, PTL DEF Spec, SuccessIsComplete

(* resourceAuthMethodOidcCreate and ...LdapCreate: the auth method is in   *)
(* the state, tainted if a call after the first has failed.                *)
THEOREM CreationsAreRecorded == Spec => CreateIsRecorded
<1>1. ASSUME IInv, [Next]_vars, NEW m \in Methods, Returns(m), pc[m] = "create", Federated(m)
      PROVE  state'[m].tracked /\ state'[m].tainted = ("error" \in diags'[m])
  <2> USE <1>1 DEF IInv
  <2>1. CreateReturns(m) \/ CallFails(m)
    BY ReturnSteps DEF UpdateReturns
  <2>2. state[m] \in [tracked : BOOLEAN, tainted : BOOLEAN, attrs : Attrs, primary : BOOLEAN]
    BY DEF TypeOK, States
  <2>3. ASSUME NEW t \in BOOLEAN
        PROVE  RecordedState(m, t).tracked /\ RecordedState(m, t).tainted = t
    BY <2>2 DEF RecordedState, PlannedState
  <2>4. CASE CreateReturns(m)
    <3>1. state'[m] = RecordedState(m, FALSE) /\ diags'[m] = {}
      BY <2>4 DEF CreateReturns, Return, TypeOK
    <3>2. state'[m].tracked /\ state'[m].tainted = FALSE /\ "error" \notin diags'[m]
      BY <3>1, <2>3
    <3>3. ("error" \in diags'[m]) = FALSE
      BY <3>2
    <3> QED BY <3>2, <3>3, Zenon
  <2>5. CASE CallFails(m)
    <3>1. state'[m] = RecordedState(m, TRUE) /\ diags'[m] = {"error"}
      BY <2>5 DEF CallFails, Return, StoresIdEarly, TypeOK
    <3>2. state'[m].tracked /\ state'[m].tainted = TRUE /\ "error" \in diags'[m]
      BY <3>1, <2>3
    <3>3. ("error" \in diags'[m]) = TRUE
      BY <3>2
    <3> QED BY <3>2, <3>3, Zenon
  <2> QED BY <2>1, <2>4, <2>5
<1>2. IInv /\ [Next]_vars =>
        [ \A m \in Methods : Returns(m) /\ pc[m] = "create" /\ Federated(m) =>
            state'[m].tracked /\ state'[m].tainted = ("error" \in diags'[m]) ]_vars
  BY <1>1
<1> QED BY <1>2, AlwaysIInv, PTL DEF Spec, CreateIsRecorded

-----------------------------------------------------------------------------
(* A run that finds everything in order changes nothing.                   *)

(* Whoever runs a handler touches neither the other methods nor their      *)
(* states.                                                                 *)
LEMMA OthersStay ==
  ASSUME TypeOK, NEW n \in Methods, Handler(n), NEW m \in Methods, m # n
  PROVE  server'[m] = server[m] /\ state'[m] = state[m] /\ config' = config
<1> USE DEF TypeOK
<1>1. CASE Refresh(n) \/ ApplyNothing(n) \/ CreateFails(n) \/ DeleteFails(n) \/ RefreshFails(n)
  BY <1>1 DEF Refresh, ApplyNothing, CreateFails, DeleteFails, RefreshFails
<1>2. CASE ReadMethod(n) \/ ReadScope(n)
  BY <1>2 DEF ReadMethod, ReadScope
<1>3. CASE Create(n) \/ Update(n)
  BY <1>3 DEF Create, Update
<1>4. CASE Lookup(n) \/ ChangeState(n) \/ UpdateScopeWithPrimary(n) \/ UpdateMethod(n)
  BY <1>4 DEF Lookup, ChangeState, UpdateScopeWithPrimary, UpdateMethod, Activated, Updated
<1>5. CASE CallFails(n)
  BY <1>5 DEF CallFails, Activated, Updated
<1>6. CASE CreateReturns(n) \/ UpdateReturns(n)
  BY <1>6 DEF CreateReturns, UpdateReturns
<1>7. CASE Delete(n)
  BY <1>7 DEF Delete
<1> QED BY <1>1, <1>2, <1>3, <1>4, <1>5, <1>6, <1>7 DEF Handler

LEMMA StopsStay ==
  ASSUME RunEnds \/ Crash
  PROVE  /\ UNCHANGED <<config, server, primary, state>>
         /\ todo' = [m \in Methods |-> <<>>]
  BY DEF RunEnds, Crash, Stop

LEMMA AbsentFacts ==
  ASSUME TypeOK, NEW m \in Methods, ~config[m].here
  PROVE  ~config[m].primary
<1>1. config[m] \in Configs
  BY DEF TypeOK
<1>2. config[m] = [here |-> FALSE, attrs |-> NoAttrs, primary |-> FALSE]
  BY <1>1 DEF Configs
<1> QED BY <1>2

(* Of a method that is gone Read leaves nothing in the state. *)
LEMMA ReadOfNone ==
  ASSUME TypeOK, NEW m \in Methods, ReadMethod(m), ~server[m].exists
  PROVE  ~state'[m].tracked
<1>1. state'[m] = Untracked(m)
  BY DEF ReadMethod, TypeOK
<1> QED BY <1>1 DEF Untracked, TypeOK, States

(* What a call that failed may have done all the same. *)
LEMMA FailedCall ==
  ASSUME TypeOK, NEW m \in Methods, CallFails(m)
  PROVE  /\ todo[m] # <<>>
         /\ server' \in {server, Activated(m), Updated(m)}
         /\ Head(todo[m]) # "claim" => primary' = primary
<1>1. todo[m] # <<>> /\ (Head(todo[m]) # "claim" => primary' = primary)
  BY DEF CallFails
<1>2. \/ server' = server
      \/ server' = CASE Head(todo[m]) = "activate" -> Activated(m)
                     [] Head(todo[m]) = "attrs" -> Updated(m)
                     [] OTHER -> server
  BY DEF CallFails
<1>3. server' \in {server, Activated(m), Updated(m)}
  BY <1>2, Zenon
<1> QED BY <1>1, <1>3

LEMMA WritesOne ==
  ASSUME TypeOK, NEW m \in Methods, server' \in {server, Activated(m), Updated(m)}
  PROVE  server'[m].exists = server[m].exists
         /\ server'[m].attrs \in {server[m].attrs, config[m].attrs}
  BY DEF Activated, Updated, TypeOK, Objects

(* Read asks for the method and then for its scope, and stores what the    *)
(* first call answered after the second.                                   *)
Stale(m) == NextIs(m, "readScope") /\ read[m] # server[m].attrs

LEMMA SettledHandler ==
  ASSUME IInv, NEW m \in Methods, Handler(m), Settled(m), ~Stale(m)
  PROVE  Settled(m)'
<1> USE DEF IInv, TypeOK
<1>1. state[m] \in [tracked : BOOLEAN, tainted : BOOLEAN, attrs : Attrs, primary : BOOLEAN]
      /\ server[m] \in [exists : BOOLEAN, attrs : Attrs, active : BOOLEAN]
  BY DEF States, Objects
<1>2. pc[m] # "create"
  BY DEF Settled, Local, Creating
<1>3. CASE Refresh(m) \/ ApplyNothing(m) \/ CreateFails(m) \/ DeleteFails(m) \/ RefreshFails(m)
  BY <1>3 DEF Refresh, ApplyNothing, CreateFails, DeleteFails, RefreshFails, Settled
<1>4. CASE ReadMethod(m)
  <2>1. CASE server[m].exists
    BY <1>4, <2>1 DEF ReadMethod, Settled
  <2>2. CASE ~server[m].exists
    <3>1. ~config[m].here /\ config' = config
      BY <1>4, <2>2 DEF ReadMethod, Settled
    <3> QED BY <1>4, <2>2, <3>1, ReadOfNone DEF Settled
  <2> QED BY <2>1, <2>2
<1>5. CASE ReadScope(m)
  <2>1. /\ state'[m].tracked = state[m].tracked /\ state'[m].tainted = state[m].tainted
        /\ state'[m].attrs = read[m]
        /\ config' = config /\ server' = server
    BY <1>1, <1>5 DEF ReadScope
  <2>2. read[m] = server[m].attrs
    BY <1>5 DEF ReadScope, Stale
  <2> QED BY <2>1, <2>2 DEF Settled
<1>6. CASE Create(m) \/ Delete(m)
  BY <1>6 DEF Create, Delete, Settled
<1>7. CASE Update(m) \/ Lookup(m) \/ UpdateScopeWithPrimary(m)
  BY <1>7 DEF Update, Lookup, UpdateScopeWithPrimary, Settled
<1>8. CASE ChangeState(m) \/ UpdateMethod(m)
  <2>1. /\ server'[m].exists = server[m].exists
        /\ server'[m].attrs \in {server[m].attrs, config[m].attrs}
        /\ config' = config /\ state' = state
    BY <1>1, <1>8 DEF ChangeState, UpdateMethod, Activated, Updated
  <2> QED BY <2>1 DEF Settled
<1>9. CASE CallFails(m) \/ CreateReturns(m) \/ UpdateReturns(m)
  <2>1. state'[m] = PlannedState(m) /\ config' = config
    BY <1>2, <1>9 DEF CallFails, CreateReturns, UpdateReturns
  <2>2. server'[m].exists = server[m].exists
        /\ server'[m].attrs \in {server[m].attrs, config[m].attrs}
    BY <1>9, FailedCall, WritesOne DEF CreateReturns, UpdateReturns
  <2>3. /\ state'[m].tracked = state[m].tracked /\ state'[m].tainted = state[m].tainted
        /\ state'[m].attrs = config[m].attrs
    BY <1>1, <2>1 DEF PlannedState
  <2> QED BY <2>1, <2>2, <2>3 DEF Settled
<1> QED BY <1>3, <1>4, <1>5, <1>6, <1>7, <1>8, <1>9 DEF Handler

LEMMA SettledStep ==
  ASSUME IInv, Terraform, NEW m \in Methods, Settled(m), ~Stale(m)
  PROVE  Settled(m)'
<1>1. CASE RunEnds \/ Crash
  BY <1>1, StopsStay DEF Settled
<1>2. ASSUME NEW n \in Methods, Handler(n), n # m
      PROVE  Settled(m)'
  BY <1>2, OthersStay DEF Settled, IInv
<1> QED BY <1>1, <1>2, SettledHandler DEF Terraform

(* The safety half of Converges: what a method is configured to be, it     *)
(* stays, through its own handlers and those of the others, until somebody *)
(* changes something.  The exception is a change between the two calls of  *)
(* a Read, which shows only in the next plan.                              *)
THEOREM SettledStays ==
  Spec => [][Terraform => \A m \in Methods : Settled(m) /\ ~Stale(m) => Settled(m)']_vars
<1>1. IInv /\ [Next]_vars =>
        [Terraform => \A m \in Methods : Settled(m) /\ ~Stale(m) => Settled(m)']_vars
  BY SettledStep
<1> QED BY <1>1, AlwaysIInv, PTL DEF Spec

(* Nothing that is to come claims the slot or gives it up.                 *)
Quiet(m) ==
  /\ IF config[m].here THEN state[m].tracked /\ ~state[m].tainted /\ server[m].exists
     ELSE ~state[m].tracked
  /\ ~Claims(m) /\ "claim" \notin In(todo[m])

LEMMA QuietHandler ==
  ASSUME IInv, NEW m \in Methods, Handler(m), Quiet(m)
  PROVE  Quiet(m)' /\ primary' = primary
<1> USE DEF IInv, TypeOK
<1>1. state[m] \in [tracked : BOOLEAN, tainted : BOOLEAN, attrs : Attrs, primary : BOOLEAN]
      /\ server[m] \in [exists : BOOLEAN, attrs : Attrs, active : BOOLEAN]
  BY DEF States, Objects
<1>2. pc[m] # "create" /\ ~Create(m) /\ ~Delete(m)
  BY DEF Quiet, Local, Creating, Create, Delete
<1>3. ASSUME NEW d, Return(m, d)
      PROVE  "claim" \notin In(todo'[m])
  BY <1>3, EmptyFacts DEF Return
<1>4. ASSUME todo[m] # <<>>
      PROVE  Head(todo[m]) # "claim" /\ (Proceed(m) => "claim" \notin In(todo'[m]))
  BY <1>4, TailFacts DEF Proceed, Quiet
<1>5. CASE Refresh(m)
  <2>1. "claim" \notin In(todo'[m])
    BY <1>5, EmptyFacts, ReadBackFacts DEF Refresh, Reads
  <2> QED BY <1>5, <2>1 DEF Refresh, Quiet, Claims
<1>6. CASE RefreshFails(m)
  BY <1>6, EmptyFacts DEF RefreshFails, Stop, Quiet, Claims
<1>7. CASE ApplyNothing(m) \/ CreateFails(m) \/ DeleteFails(m)
  BY <1>3, <1>7 DEF ApplyNothing, CreateFails, DeleteFails, Quiet, Claims
<1>8. CASE ReadMethod(m)
  <2>1. "claim" \notin In(todo'[m])
    BY <1>3, <1>4, <1>8 DEF ReadMethod, NextIs
  <2>2. CASE server[m].exists
    BY <1>8, <2>1, <2>2 DEF ReadMethod, Quiet, Claims
  <2>3. CASE ~server[m].exists
    <3>1. ~config[m].here /\ ~config[m].primary
      BY <2>3, AbsentFacts DEF Quiet
    <3>2. ~state'[m].tracked /\ config' = config /\ primary' = primary
      BY <1>8, <2>3, ReadOfNone DEF ReadMethod
    <3> QED BY <2>1, <3>1, <3>2 DEF Quiet, Claims
  <2> QED BY <2>2, <2>3
<1>9. CASE ReadScope(m)
  <2>1. "claim" \notin In(todo'[m])
    BY <1>3, <1>9 DEF ReadScope
  <2>2. state'[m].tracked = state[m].tracked /\ state'[m].tainted = state[m].tainted
    BY <1>1, <1>9 DEF ReadScope
  <2>3. config[m].primary => state'[m].primary
    BY <1>1, <1>9 DEF ReadScope, PrimaryFromRead, Quiet, Claims
  <2> QED BY <1>9, <2>1, <2>2, <2>3 DEF ReadScope, Quiet, Claims
<1>10. CASE Update(m)
  <2>1. "claim" \notin In(CallsOfUpdate(m))
    BY UpdateFacts DEF Quiet, Claims
  <2> QED BY <1>10, <2>1 DEF Update, Quiet, Claims
<1>11. CASE Lookup(m) \/ ChangeState(m) \/ UpdateScopeWithPrimary(m) \/ UpdateMethod(m)
  <2>1. "claim" \notin In(todo'[m]) /\ ~UpdateScopeWithPrimary(m)
    BY <1>4, <1>11 DEF Lookup, ChangeState, UpdateScopeWithPrimary, UpdateMethod, NextIs
  <2>2. server'[m].exists = server[m].exists /\ UNCHANGED <<config, state, primary>>
    BY <1>1, <1>11, <2>1 DEF Lookup, ChangeState, UpdateMethod, Activated, Updated
  <2> QED BY <2>1, <2>2 DEF Quiet, Claims
<1>12. CASE CallFails(m) \/ CreateReturns(m) \/ UpdateReturns(m)
  <2>1. /\ state'[m] = PlannedState(m) /\ config' = config /\ "claim" \notin In(todo'[m])
    BY <1>2, <1>3, <1>12 DEF CallFails, CreateReturns, UpdateReturns
  <2>2. server'[m].exists = server[m].exists /\ primary' = primary
    BY <1>4, <1>12, FailedCall, WritesOne DEF CreateReturns, UpdateReturns
  <2> QED BY <1>1, <2>1, <2>2 DEF PlannedState, Quiet, Claims
<1> QED BY <1>2, <1>5, <1>6, <1>7, <1>8, <1>9, <1>10, <1>11, <1>12 DEF Handler

LEMMA QuietStep ==
  ASSUME IInv, Terraform, \A m \in Methods : Quiet(m)
  PROVE  (\A m \in Methods : Quiet(m)') /\ primary' = primary
<1>1. CASE RunEnds \/ Crash
  BY <1>1, StopsStay, EmptyFacts DEF Quiet, Claims
<1>2. ASSUME NEW n \in Methods, Handler(n)
      PROVE  (\A m \in Methods : Quiet(m)') /\ primary' = primary
  <2>1. Quiet(n)' /\ primary' = primary
    BY <1>2, QuietHandler
  <2>2. ASSUME NEW m \in Methods, m # n
        PROVE  Quiet(m)'
    <3>1. server'[m] = server[m] /\ state'[m] = state[m] /\ config' = config
      BY <1>2, <2>2, OthersStay DEF IInv
    <3>2. todo'[m] \in {todo[m], <<>>}
      <4>1. CASE RefreshFails(n)
        BY <4>1 DEF RefreshFails, Stop
      <4>2. CASE ~RefreshFails(n)
        BY <1>2, <2>2, <4>2, Others DEF Frame, IInv
      <4> QED BY <4>1, <4>2
    <3> QED BY <3>1, <3>2, EmptyFacts DEF Quiet, Claims
  <2> QED BY <2>1, <2>2
<1> QED BY <1>1, <1>2 DEF Terraform

(* The safety half of Stabilises: once no resource has a claim to make,    *)
(* none is made, although every plan looks who holds the slot and several  *)
(* resources may say that it is theirs.  It matters that Read sees that a  *)
(* method holds the slot, and never that it does not.                      *)
THEOREM SlotStays ==
  Spec => [][ Terraform /\ (\A m \in Methods : Quiet(m))
              => (\A m \in Methods : Quiet(m)') /\ primary' = primary ]_vars
<1>1. IInv /\ [Next]_vars =>
        [ Terraform /\ (\A m \in Methods : Quiet(m))
          => (\A m \in Methods : Quiet(m)') /\ primary' = primary ]_vars
  BY QuietStep
<1> QED BY <1>1, AlwaysIInv, PTL DEF Spec

=============================================================================
