----------------------------- MODULE MCFpgaAccess -----------------------------
(* FpgaAccess for TLC: two handler threads, three speeds with the reset one   *)
(* the slowest and the safe one in the middle.                               *)
EXTENDS FpgaAccess, TLC

MCSpeeds == 0..2
MCSymmetry == Permutations(Clients)

===============================================================================
