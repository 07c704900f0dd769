---------------------------- MODULE GocqlExecutor ----------------------------
(***************************************************************************)
(* The pool-based gocqlExecutor of package gocassa (src/gocassa/           *)
(* executor.go, second file in it): lazy init under initMtx, a watcher     *)
(* goroutine that reloads the keyspace config on every change              *)
(* notification and swaps in a new gocqlConnectionPool when the config's   *)
(* hash changed, and Query/Execute, which read the pool pointer under      *)
(* RLock and then check out and in on that pool with no lock held.         *)
(*                                                                         *)
(* The config service (package config) and getKsConfig/ksConfig.hash are   *)
(* not in the repository's sources: a config is a model value with a hash  *)
(* and a host list, a write to the service sets a notification for a      *)
(* subscribed watcher, and a load may fail (LoadCanFail).                  *)
(***************************************************************************)
EXTENDS GocqlPool

CONSTANTS
    Configs,      \* the keyspace configs the config service can hold
    NoCfg,
    Hash,         \* Hash[cfg]: ksConfig.hash()
    CfgHosts,     \* CfgHosts[cfg]: ksConfig.hosts
    MaxWrites,    \* writes to the config service in one behaviour
    LoadCanFail   \* whether getKsConfig may return an error

ASSUME MaxGen >= MaxWrites + 1   \* init plus at most one swap per write

VARIABLES
    initialised,  \* e.initialised
    subscribed,   \* the watcher goroutine has called config.SubscribeChanges
    curGen,       \* e.pool: the generation of the active pool (0: nil)
    lastHash,     \* e.lastHash
    cfgOf,        \* cfgOf[g]: the Cfg pool g was built from
    source,       \* the config currently held by the config service
    pending,      \* a change notification waits on the watcher's channel
    writes,       \* writes to the config service so far
    loaded        \* the cfg getKsConfig returned and switchConfig has yet to
                  \* install (NoCfg: none); held by init under initMtx, later
                  \* only by the watcher, so one loader at a time

execVars == <<initialised, subscribed, curGen, lastHash, cfgOf, source, pending, writes, loaded>>
vars == <<poolVars, callerVars, execVars>>

ExecTypeOK ==
    /\ PoolTypeOK
    /\ initialised \in BOOLEAN /\ subscribed \in BOOLEAN /\ pending \in BOOLEAN
    /\ curGen \in 0..MaxGen
    /\ lastHash \in {0} \cup {Hash[c] : c \in Configs}
    /\ cfgOf \in [Gens -> Configs \cup {NoCfg}]
    /\ source \in Configs
    /\ writes \in 0..MaxWrites
    /\ loaded \in Configs \cup {NoCfg}

Init ==
    /\ InitPool /\ InitCallers
    /\ poolHosts = [g \in Gens |-> {}]
    /\ initialised = FALSE /\ subscribed = FALSE /\ pending = FALSE
    /\ curGen = 0 /\ lastHash = 0
    /\ cfgOf = [g \in Gens |-> NoCfg]
    /\ source \in Configs
    /\ writes = 0
    /\ loaded = NoCfg

-----------------------------------------------------------------------------
(* Mutant of SwitchConfig: the new hash is not recorded.                  *)
SwitchConfigNoHash(cfg) ==
    /\ curGen' = curGen + 1
    /\ cfgOf' = [cfgOf EXCEPT ![curGen + 1] = cfg]
    /\ poolHosts' = [poolHosts EXCEPT ![curGen + 1] = CfgHosts[cfg]]
    /\ UNCHANGED lastHash
    /\ IF curGen # 0 THEN ClosePool(curGen)
                     ELSE UNCHANGED <<activeConns, connState>>

(* switchConfig, all under e.Lock: close the old pool, build and init the *)
(* new one (generation curGen + 1, whose state is still InitPool's) and   *)
(* record the new config's hash.                                          *)
SwitchConfig(cfg) ==
    /\ curGen' = curGen + 1
    /\ cfgOf' = [cfgOf EXCEPT ![curGen + 1] = cfg]
    /\ poolHosts' = [poolHosts EXCEPT ![curGen + 1] = CfgHosts[cfg]]
    /\ lastHash' = Hash[cfg]
    /\ IF curGen # 0 THEN ClosePool(curGen)
                     ELSE UNCHANGED <<activeConns, connState>>

(* Query or Execute is called. *)
StartQuery(p) ==
    /\ pc[p] = "idle"
    /\ pc' = [pc EXCEPT ![p] = "init"]
    /\ UNCHANGED <<poolVars, pool, host, held, execVars>>

(* init, under initMtx.RLock: an initialised executor returns at once;    *)
(* otherwise the read lock is released and the write lock awaited, while  *)
(* other callers run.                                                     *)
InitCheck(p) ==
    /\ pc[p] = "init"
    /\ pc' = [pc EXCEPT ![p] = IF initialised THEN "read" ELSE "initLock"]
    /\ UNCHANGED <<poolVars, execVars, pool, host, held>>

\* The locked section's getKsConfig: an error is returned to the caller,
\* who may call again; otherwise the caller goes on to switchConfig, still
\* holding initMtx, while config writes go on.
InitLoad(p) ==
    \/ /\ LoadCanFail
       /\ pc' = [pc EXCEPT ![p] = "idle"]
       /\ UNCHANGED <<poolVars, execVars>>
    \/ /\ loaded' = source
       /\ pc' = [pc EXCEPT ![p] = "initSwitch"]
       /\ UNCHANGED <<poolVars, initialised, subscribed, curGen, lastHash, cfgOf, source, pending, writes>>

(* Mutant of InitLocked: the "Guard against race" re-check is dropped, so *)
(* every caller that found the executor uninitialised loads and switches. *)
InitLockedNoRecheck(p) ==
    /\ pc[p] = "initLock"
    /\ \A q \in Callers : pc[q] # "initSwitch"
    /\ InitLoad(p)
    /\ UNCHANGED <<pool, host, held>>

(* init, under initMtx.Lock (no other caller is between its load and its  *)
(* switch): look at initialised again, and load only if no other caller   *)
(* did it in between.                                                     *)
InitLocked(p) ==
    /\ pc[p] = "initLock"
    /\ \A q \in Callers : pc[q] # "initSwitch"
    /\ IF initialised
         THEN /\ pc' = [pc EXCEPT ![p] = "read"]
              /\ UNCHANGED <<poolVars, execVars>>
         ELSE InitLoad(p)
    /\ UNCHANGED <<pool, host, held>>

(* The rest of init's locked section: switchConfig to the loaded config,  *)
(* start the watcher goroutine, set initialised, release initMtx.         *)
InitSwitch(p) ==
    /\ pc[p] = "initSwitch"
    /\ SwitchConfig(loaded)
    /\ loaded' = NoCfg
    /\ initialised' = TRUE
    /\ pc' = [pc EXCEPT ![p] = "read"]
    /\ UNCHANGED <<est, unest, connOwner, subscribed, source, pending, writes, pool, host, held>>

(* Query/Execute: "pool, ks := e.pool, e.ks" under RLock; the pointer is  *)
(* used for checkout and checkin after the lock is released.              *)
ReadPool(p) ==
    /\ pc[p] = "read"
    /\ pc' = [pc EXCEPT ![p] = "pick"]
    /\ pool' = [pool EXCEPT ![p] = curGen]
    /\ UNCHANGED <<poolVars, host, held, execVars>>

(* watchConfig: "for _ = range config.SubscribeChanges()" subscribes when *)
(* the goroutine started by init first runs.                              *)
Subscribe ==
    /\ initialised /\ ~subscribed
    /\ subscribed' = TRUE
    /\ UNCHANGED <<poolVars, callerVars, initialised, curGen, lastHash, cfgOf, source, pending, writes, loaded>>

(* A write to the config service; subscribers are notified.  The write    *)
(* need not touch the keyspace: the new config may hash as before.        *)
ConfigWrite ==
    /\ writes < MaxWrites
    /\ writes' = writes + 1
    /\ source' \in Configs
    /\ pending' = (pending \/ subscribed)
    /\ UNCHANGED <<poolVars, callerVars, initialised, subscribed, curGen, lastHash, cfgOf, loaded>>

(* watchConfig loop body, up to the switch: take the notification, read *)
(* lastHash under RLock, call getKsConfig; an error or an unchanged hash  *)
(* ends the iteration, a changed hash goes on to switchConfig.            *)
ReloadLoad ==
    /\ subscribed /\ pending /\ loaded = NoCfg
    /\ pending' = FALSE
    /\ \/ LoadCanFail /\ UNCHANGED loaded
       \/ Hash[source] = lastHash /\ UNCHANGED loaded
       \/ Hash[source] # lastHash /\ loaded' = source
    /\ UNCHANGED <<poolVars, callerVars, initialised, subscribed, curGen, lastHash, cfgOf, source, writes>>

(* e.switchConfig(cfg) with the config loaded earlier, whatever the       *)
(* service holds by now.                                                  *)
ReloadSwitch ==
    /\ initialised /\ loaded # NoCfg
    /\ SwitchConfig(loaded)
    /\ loaded' = NoCfg
    /\ UNCHANGED <<est, unest, connOwner, callerVars, initialised, subscribed, source, pending, writes>>

\* One step of the watcher goroutine.
Reload == ReloadLoad \/ ReloadSwitch

CallerStep(p) ==
    \/ InitCheck(p)
    \/ InitLocked(p)
    \/ InitSwitch(p)
    \/ ReadPool(p)
    \/ Pick(p) /\ UNCHANGED execVars
    \/ Wait(p) /\ UNCHANGED execVars
    \/ Check(p) /\ UNCHANGED execVars
    \/ Checkin(p) /\ UNCHANGED execVars

Next ==
    \/ \E p \in Callers : StartQuery(p) \/ CallerStep(p)
    \/ Subscribe
    \/ ConfigWrite
    \/ Reload
    \/ \E c \in Conns : ConnBreak(c) /\ UNCHANGED execVars

(* Goroutines are scheduled fairly: every caller that is inside Query or  *)
(* Execute keeps running, and the watcher goroutine keeps running.  The   *)
(* application calls and the config service's writes get no fairness.   *)
Spec ==
    /\ Init /\ [][Next]_vars
    /\ \A p \in Callers : WF_vars(CallerStep(p))
    /\ WF_vars(Subscribe) /\ WF_vars(Reload)

-----------------------------------------------------------------------------
(* When switchConfig retires a pool, every connection that pool dialed is *)
(* closed, including those checked out by queries still running on it.   *)
RetireClosesAll ==
    [][curGen # 0 /\ curGen' # curGen =>
         \A c \in Conns : connOwner[c][1] = curGen => connState'[c] # "open"]_vars

(* Refinement mapping: the active config is that of pool curGen; the     *)
(* fetched config is the one loaded and not yet switched to.              *)
ActiveCfg == IF curGen = 0 THEN NoCfg ELSE cfgOf[curGen]

CE == INSTANCE ConfiguredExecutor WITH active <- ActiveCfg, fetched <- loaded, source <- source

(* The executor implements ConfiguredExecutor (spec sections 4.4 and 8):  *)
(* init builds from a config the service held when init loaded it; later  *)
(* the pool is replaced only by one built from a config the service held  *)
(* when the watcher loaded it, and only when that config's hash differs   *)
(* from the active pool's, so no notification for an irrelevant write     *)
(* churns the pool, whatever lastHash held at the time.                   *)
ImplementsConfiguredExecutor == CE!Spec

(* Every Query/Execute returns, whatever the config swaps and broken      *)
(* connections do meanwhile.                                               *)
QueryTerminates == \A p \in Callers : pc[p] # "idle" ~> pc[p] = "idle"

(* After a swap, no connection stays open unless it belongs to the active *)
(* pool or is in use by a running query: the retired pool's Close closed  *)
(* everything it had.                                                     *)
NoOrphanOpenConn ==
    \A c \in Conns :
        connState[c] = "open" =>
            \/ connOwner[c][1] = curGen
            \/ \E p \in Callers : pc[p] \in {"check", "run"} /\ held[p] = c

(* Once the config service has stopped changing, the executor eventually *)
(* runs on a pool built from a config with the service's current hash.    *)
ConfigEventuallyApplied ==
    <>[](writes = MaxWrites) => <>[](initialised => lastHash = Hash[source])
=============================================================================
