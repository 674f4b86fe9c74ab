--------------------------- MODULE MCDaemonServer ---------------------------
(* An instance of DaemonServer: two paths of one file that has a label.    *)
EXTENDS DaemonServer, TLC

CONSTANTS f1, i1

MCFound == [names |-> [p \in Paths |-> f1],
            label |-> [f \in Inodes |-> IF f = f1 THEN i1 ELSE NONE]]
=============================================================================
