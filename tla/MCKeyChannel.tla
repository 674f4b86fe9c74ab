---------------------------- MODULE MCKeyChannel ----------------------------
(* Small instances of KeyChannel.                                          *)
EXTENDS KeyChannel, TLC

\* Open, declassification, and a claim that also opens.
OperationMessages == {<<"ticket">>, <<"xattr">>, <<"xattr", "ticket">>}

Symmetry == Permutations(Clients)
=============================================================================
