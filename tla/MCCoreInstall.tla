---------------------------- MODULE MCCoreInstall ----------------------------
(* CoreInstall for TLC: the installed core, a good one and one that fails.    *)
EXTENDS CoreInstall

===============================================================================
