--------------------------- MODULE MCDedupeWindow ---------------------------
EXTENDS DedupeWindow, TLC
Perms == Permutations(Job)
=============================================================================
