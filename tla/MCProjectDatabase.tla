------------------------- MODULE MCProjectDatabase -------------------------
\* Instances of ProjectDatabase for TLC.
EXTENDS ProjectDatabase, TLC

Symmetry == Permutations(Calls) \union Permutations(Deleters)
=============================================================================
