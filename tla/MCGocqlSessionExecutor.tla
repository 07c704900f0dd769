----------------------- MODULE MCGocqlSessionExecutor -----------------------
(* Two callers and three configs (cA and cA2 hash alike, cB differs);     *)
(* three sessions are enough for init, a swap and a swap back.            *)
EXTENDS GocqlSessionExecutor, TLC

CONSTANTS p1, p2, cA, cA2, cB

MCCallers == {p1, p2}
MCConfigs == {cA, cA2, cB}
MCHash    == (cA :> 1) @@ (cA2 :> 1) @@ (cB :> 2)

Symm == Permutations(MCCallers)
=============================================================================
