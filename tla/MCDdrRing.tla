------------------------------ MODULE MCDdrRing ------------------------------
\* The ring for TLC: a ring of four records with two under way, chunks of two,
\* and a count that wraps at six.
EXTENDS DdrRing

=============================================================================
