----------------------------- MODULE MCSeedReset -----------------------------
EXTENDS SeedReset, TLC
CONSTANTS r1, r2, n1

Callers == Permutations(Reset)
=============================================================================
