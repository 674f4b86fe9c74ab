--------------------------- MODULE MCSharedMemory ---------------------------
(* An instance of SharedMemory.                                            *)
EXTENDS SharedMemory, TLC

CONSTANTS p1, p2

Symmetry == Permutations(Keys)
=============================================================================
