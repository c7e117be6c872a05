-------------------------- MODULE MCServerThreads --------------------------
EXTENDS ServerThreads, TLC
Symmetry == Permutations(Client) \cup Permutations(Signal)
=============================================================================
