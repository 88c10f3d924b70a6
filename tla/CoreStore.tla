------------------------------ MODULE CoreStore ------------------------------
(* What install_core promises of the installed FPGA core: it changes in one   *)
(* step, to a core that has been loaded, and its manifest with it.  A power   *)
(* cut changes no core; in a rollback it may leave another one's manifest.    *)

EXTENDS Naturals

CONSTANTS
  Core,    \* the cores there are
  Good,    \* those the fabric takes
  First,   \* the one installed at first, with or without a manifest
  Nil      \* no manifest

VARIABLES
  installed,     \* [core, man]: the core and whose manifest it has
  cuts           \* power cuts so far

Init == installed \in [core : {First}, man : {First, Nil}] /\ cuts = 0

Commit(c) ==
  /\ c \in Good
  /\ installed' = [core |-> c, man |-> c]
  /\ UNCHANGED cuts

PowerCut ==
  /\ cuts' = cuts + 1
  /\ \E m \in Core \cup {installed.man} : installed' = [installed EXCEPT !.man = m]

Next == (\E c \in Core : Commit(c)) \/ PowerCut

Spec == Init /\ [][Next]_<<installed, cuts>>

===============================================================================
