--------------------------- MODULE MCSessionStore ---------------------------
EXTENDS SessionStore, TLC

CONSTANTS s1, s2, r1, r2, r3

UnorderedRuns == Permutations(Runs)
=============================================================================
