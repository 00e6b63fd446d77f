------------------------- MODULE MCWorkspaceSlot -------------------------
(* WorkspaceSlot on a small instance: names and projects each permute.    *)
EXTENDS WorkspaceSlot, TLC

Symmetry == Permutations(Names) \union Permutations(Apps)
==========================================================================
