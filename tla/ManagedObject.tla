----------------------------- MODULE ManagedObject -----------------------------
(***************************************************************************)
(* What the provider promises about any object of Boundary it manages,     *)
(* whatever the resource and however its handlers are cut into calls:      *)
(*                                                                         *)
(*   - it writes only towards the configuration: a part of the object that *)
(*     it changes gets the value that is configured, and a part that is    *)
(*     left to Boundary is never written;                                  *)
(*   - it changes and destroys only what it owns: what it made, or was     *)
(*     given by an import, and has not lost since;                         *)
(*   - everything else that happens to the object was done by others.      *)
(*                                                                         *)
(* Failed calls, lost answers, crashes and replacements are allowed for:   *)
(* the provider may stop half-way, but not go anywhere else.               *)
(***************************************************************************)
EXTENDS Naturals

CONSTANT Fresh   \* what a part of a new object may be that was not sent

VARIABLES
  wanted,   \* the configuration: [here, object]; parts left to Boundary are not in it
  actual,   \* the object in Boundary: [exists, object]
  owned,    \* the provider knows the object as its own
  others    \* how often others have called the API

vars == <<wanted, actual, owned, others>>

(* There may be an object already, that somebody else has made. *)
Init == ~owned /\ others = 0

(* From old to new some parts have become what is configured. *)
Towards(old, new) ==
  /\ DOMAIN new = DOMAIN old
  /\ \A p \in DOMAIN new :
       \/ new[p] = old[p]
       \/ (p \in DOMAIN wanted.object /\ new[p] = wanted.object[p])

IsNew(new) ==
  \A p \in DOMAIN new :
    new[p] \in Fresh \/ (p \in DOMAIN wanted.object /\ new[p] = wanted.object[p])

Edit == wanted' # wanted /\ UNCHANGED <<actual, owned, others>>

(* An object made earlier, if there is one, is nobody's then. *)
Make ==
  /\ wanted.here /\ ~owned
  /\ actual'.exists /\ IsNew(actual'.object)
  /\ owned' \in BOOLEAN
  /\ UNCHANGED <<wanted, others>>

(* What was edited while the call was on its way counts from its end on.   *)
Put ==
  /\ wanted.here /\ owned /\ actual.exists
  /\ actual'.exists /\ Towards(actual.object, actual'.object)
  /\ UNCHANGED <<owned, others>>

(* Known at once or, if the answer is lost, later.  What is left of the    *)
(* object is nothing anybody can see.                                      *)
Destroy ==
  /\ owned /\ actual.exists
  /\ ~actual'.exists
  /\ owned' \in BOOLEAN /\ UNCHANGED <<wanted, others>>

(* Found to be gone, or made by a Create that did not live to say so. *)
Lose == owned /\ ~owned' /\ UNCHANGED <<wanted, actual, others>>

Adopt == wanted.here /\ actual.exists /\ owned' /\ UNCHANGED <<wanted, actual, others>>

Others == others' = others + 1 /\ UNCHANGED <<wanted, owned>>

Next == Edit \/ Make \/ Put \/ Destroy \/ Lose \/ Adopt \/ Others

Spec == Init /\ [][Next]_vars

=============================================================================
