-------------------------- MODULE ConfiguredExecutor --------------------------
(***************************************************************************)
(* What an executor promises about its configuration (spec.md 4.4 and 8,  *)
(* "No-op reload"), with nothing of pools, connections or callers.  The   *)
(* executor fetches the config the service holds, when that config's hash *)
(* differs from the hash of the active one (or nothing is active yet), and *)
(* later installs what it fetched, in one step.  Writes to the config     *)
(* service happen at any time, also between a fetch and its install: the  *)
(* installed config may then already be superseded, and only a later     *)
(* fetch brings the current one.                                          *)
(***************************************************************************)
CONSTANTS
    Configs, NoCfg,
    Hash            \* Hash[cfg]: the content hash of a config

VARIABLES
    active,         \* the config the active pool was built from (NoCfg: none yet)
    fetched,        \* a config fetched and not yet installed (NoCfg: none)
    source          \* the config the config service holds

vars == <<active, fetched, source>>

Init ==
    /\ active = NoCfg
    /\ fetched = NoCfg
    /\ source \in Configs

\* The executor reads the current config, when it would change the hash.
Fetch ==
    /\ fetched = NoCfg
    /\ active = NoCfg \/ Hash[source] # Hash[active]
    /\ fetched' = source
    /\ UNCHANGED <<active, source>>

\* The executor builds from, or swaps to, the config it fetched.
Apply ==
    /\ fetched # NoCfg
    /\ active' = fetched
    /\ fetched' = NoCfg
    /\ UNCHANGED source

\* Any write to the config service.
Write ==
    /\ source' \in Configs
    /\ UNCHANGED <<active, fetched>>

Spec == Init /\ [][Fetch \/ Apply \/ Write]_vars
=============================================================================
