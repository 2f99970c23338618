--------------------------- MODULE MCDuckSession ---------------------------
EXTENDS DuckSessionInvariant, TLC

CONSTANTS t1, t2, t3, a

\* Tasks are interchangeable.
MCSymmetry == Permutations({t1, t2, t3})
=============================================================================
