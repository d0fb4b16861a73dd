--------------------------- MODULE MCSessionCache ---------------------------
(* Instances of SessionCache: the pieces of work are interchangeable.      *)
EXTENDS SessionCache, TLC

Symmetry == Permutations(Item)
=============================================================================
