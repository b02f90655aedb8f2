----------------------------- MODULE MCThreads -----------------------------
EXTENDS ThreadsProps

Symmetric == Permutations(Requests) \cup Permutations(Bodies)
=============================================================================
