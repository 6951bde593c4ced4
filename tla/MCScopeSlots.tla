---------------------------- MODULE MCScopeSlots ----------------------------
(* Two resources for one slot, and two values.                             *)
EXTENDS ScopeSlots

CONSTANTS r1, r2, v1, v2

=============================================================================
