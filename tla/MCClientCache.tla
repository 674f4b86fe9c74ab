--------------------------- MODULE MCClientCache ---------------------------
(* Symmetry of the model values that ClientCache treats alike.             *)
EXTENDS ClientCache, TLC

Symmetry == Permutations(Files) \union Permutations(Fds) \union Permutations(Labels)
=============================================================================
