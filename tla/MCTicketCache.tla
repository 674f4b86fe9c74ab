--------------------------- MODULE MCTicketCache ---------------------------
(* Small instances of TicketCache.                                         *)
EXTENDS TicketCache, TLC

\* Processes and objects are interchangeable.
Symmetry == Permutations(Pids) \union Permutations(Identifiers)
=============================================================================
