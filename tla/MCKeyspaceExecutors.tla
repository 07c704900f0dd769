------------------------ MODULE MCKeyspaceExecutors ------------------------
(* Three callers racing on two keyspaces, through the registry and init. *)
EXTENDS KeyspaceExecutors, TLC

CONSTANTS k1, k2, p1, p2, p3

MCKeyspaces == {k1, k2}
MCCallers   == {p1, p2, p3}

Symm == Permutations(MCCallers) \cup Permutations(MCKeyspaces)
=============================================================================
