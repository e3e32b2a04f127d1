---------------------------- MODULE MCLifecycle -----------------------------
EXTENDS ProtocolClaims, TLC
ResultFrames == Result
Perms == Permutations(Job)
=============================================================================
