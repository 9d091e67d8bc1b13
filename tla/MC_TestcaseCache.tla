-------------------------- MODULE MC_TestcaseCache --------------------------
\* TestcaseCache with inputs of different sizes.
EXTENDS TestcaseCache

CONSTANTS k1, k2

MCKeys == {k1, k2}

MCSize == (k1 :> 1) @@ (k2 :> 2)

=============================================================================
