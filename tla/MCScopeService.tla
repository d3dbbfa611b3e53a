--------------------------- MODULE MCScopeService ---------------------------
(* Small instances of ScopeService for TLC. *)
EXTENDS ScopeService

CONSTANTS d1, d2, r1, r2, c1, c2
=============================================================================
