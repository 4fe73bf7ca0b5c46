--------------------------- MODULE MCDigestCache ---------------------------
\* Instances of DigestCache for TLC: digest 2 has an unsupported schema.
EXTENDS DigestCache, TLC

MCValid == Digests \ {2}

Symmetry == Permutations(Tasks)
=============================================================================
