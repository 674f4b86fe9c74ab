------------------------------ MODULE MCRealm ------------------------------
(* Symmetry of the model values that Realm treats alike.                   *)
EXTENDS Realm, TLC

Symmetry == Permutations(Identifiers) \union Permutations(Files \ PublicFiles)
=============================================================================
