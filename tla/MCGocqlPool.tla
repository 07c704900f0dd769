---------------------------- MODULE MCGocqlPool ----------------------------
(* One pool with two hosts, two slots per host and two concurrent callers, *)
(* so that both slots of one host can be checked out at once.             *)
EXTENDS GocqlPool, TLC

CONSTANTS h1, h2, p1, p2, c1, c2, c3

MCHosts   == {h1, h2}
MCCallers == {p1, p2}
MCConns   == {c1, c2, c3}

Symm == Permutations(MCConns) \cup Permutations(MCCallers)
=============================================================================
