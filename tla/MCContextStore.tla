--------------------------- MODULE MCContextStore ---------------------------
\* Model values and symmetry for checking ContextStore.
EXTENDS ContextStore, TLC

CONSTANTS r1, r2, p1, p2, none

Symmetry == Permutations({r1, r2}) \cup Permutations({p1, p2})

=============================================================================
