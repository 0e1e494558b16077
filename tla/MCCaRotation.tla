---------------------------- MODULE MCCaRotation ----------------------------
\* Model values for checking CaRotation: a root, an intermediate of it and the
\* root of another hierarchy.
EXTENDS CaRotation, TLC

CONSTANTS root, ca1, other, c1, c2

MCIssuer == [k \in CA |-> IF k = ca1 THEN root ELSE k]

\* Chains that end at the root of the hierarchy, whoever submits them, and others.
MCChains == {<<>>, <<root>>, <<ca1, root>>, <<other>>}

Symmetry == Permutations({c1, c2})

=============================================================================
