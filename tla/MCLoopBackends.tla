--------------------------- MODULE MCLoopBackends ---------------------------
EXTENDS LoopBackends, TLC

Perm == Permutations(Callbacks)

=============================================================================
