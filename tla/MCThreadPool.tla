---------------------------- MODULE MCThreadPool ----------------------------
EXTENDS ThreadPool, TLC

Symmetry == Permutations(Workers) \cup Permutations(Callers)
=============================================================================
