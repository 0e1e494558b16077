---------------------------- MODULE MCAcmeOrders ----------------------------
\* Model values and symmetry for checking AcmeOrders.
EXTENDS AcmeOrders, TLC

CONSTANTS a1, admin, o1, o2, c1, c2, i1, i2

Symmetry == Permutations({o1, o2}) \cup Permutations({c1, c2})

=============================================================================
