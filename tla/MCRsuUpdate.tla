----------------------------- MODULE MCRsuUpdate -----------------------------
(* RsuUpdate for TLC: two slots, the build the board came with, one that is   *)
(* good and one that never comes up healthy.                                  *)
EXTENDS RsuUpdate

===============================================================================
