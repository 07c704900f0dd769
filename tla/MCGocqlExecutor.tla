-------------------------- MODULE MCGocqlExecutor --------------------------
(* Two callers, two hosts with one slot each, three dialable connections, *)
(* and a config service holding one of three configs: cA and cA2 differ   *)
(* only in a field outside the hash, cB adds a host and changes the hash. *)
EXTENDS GocqlExecutor, TLC

CONSTANTS h1, h2, p1, p2, c1, c2, c3, cA, cA2, cB

MCHosts   == {h1, h2}
MCCallers == {p1, p2}
MCConns   == {c1, c2, c3}
MCConfigs == {cA, cA2, cB}
MCHash    == (cA :> 1) @@ (cA2 :> 1) @@ (cB :> 2)
MCCfgHosts == (cA :> {h1}) @@ (cA2 :> {h1}) @@ (cB :> {h1, h2})

(* A smaller instance for the liveness runs, which cannot use symmetry. *)
MCOneCaller == {p1}
MCTwoConns  == {c1, c2}

Symm == Permutations(MCConns) \cup Permutations(MCCallers)
=============================================================================
