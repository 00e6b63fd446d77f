--------------------------- MODULE MCSandboxPool ---------------------------
(* Instances of SandboxPool for TLC. *)
EXTENDS SandboxPool, TLC
CONSTANTS n1, n2, n3, u1, u2, s1, s2, f1, f2, i1, i2

NameSymmetry == Permutations(Names)
Symmetry == Permutations(Names) \union Permutations(Users) \union Permutations(Starts)
=============================================================================
