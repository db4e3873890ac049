------------------------- MODULE MC_NapiReference -------------------------
EXTENDS NapiReference, TLC

CONSTANTS r1, r2, r3

MCRefs == {r1, r2, r3}

\* Two references: enough for the two promise callback references and for
\* one reference to be collected while the other is held.
TwoRefs == {r1, r2}

RefSymmetry == Permutations(MCRefs)

=============================================================================
