--------------------------- MODULE MCReleaseUpdate ---------------------------
(* ReleaseUpdate for TLC: the first release, confirmed, and two more.         *)
EXTENDS ReleaseUpdate

===============================================================================
