--------------------------- MODULE MCPublishing ---------------------------
(* Publishing on a small instance: commits, requests and passes permute.   *)
EXTENDS Publishing, TLC

Symmetry == Permutations(Versions) \union Permutations(Publishers)
            \union Permutations(Takers) \union Permutations(Passes)
===========================================================================
