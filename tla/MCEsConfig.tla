------------------------------ MODULE MCEsConfig ------------------------------
(* Two configs on the default port with different hosts, and one write:  *)
(* enough for a write to land while setup's own load is under way.        *)
EXTENDS EsConfig, TLC

CONSTANTS cA, cB, e1, e2, localhost

MCConfigs == {cA, cB}
MCPortOf  == (cA :> 9200) @@ (cB :> 9200)
MCHostsOf == (cA :> {e1}) @@ (cB :> {e2})
=============================================================================
