----------------------------- MODULE MCFileAccess -----------------------------
EXTENDS FileAccess, TLC

Symmetry == Permutations(Threads \ (Closers \cup Peers)) \cup Permutations(Blocks)
=============================================================================
