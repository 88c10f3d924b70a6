----------------------------- MODULE MCScopeOwner -----------------------------
(* ScopeOwner for TLC: three clients, so that one takes over from another     *)
(* that itself still waits.                                                  *)
EXTENDS ScopeOwner

===============================================================================
