---------------------------- MODULE MCMainProcess ----------------------------
(* One worker section: its first worker has the pid p1.                    *)
EXTENDS MainProcess

CONSTANTS p1, s1

FirstOf == [s \in {s1} |-> p1]
=============================================================================
