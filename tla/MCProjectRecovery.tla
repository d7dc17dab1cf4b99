------------------------- MODULE MCProjectRecovery --------------------------
EXTENDS ProjectRecovery

CONSTANTS d1, d2, r

\* Two doctors are run for the same project.
MCRootOf == [d \in {d1, d2} |-> r]
=============================================================================
