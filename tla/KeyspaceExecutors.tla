-------------------------- MODULE KeyspaceExecutors --------------------------
(***************************************************************************)
(* The registry and the executors it hands out, together: a Query or      *)
(* Execute through gocassa gets its executor from gocqlConnector           *)
(* (ExecutorRegistry) and then calls that executor's init                  *)
(* (src/gocassa/executor.go, second file), whose double-checked locking    *)
(* on initMtx loads the keyspace config, builds the first pool and starts  *)
(* the watcher goroutine that follows config changes.  Each executor is    *)
(* reduced here to its init state; its pool and reloads are GocqlExecutor. *)
(*                                                                         *)
(* Both locks are per object: ksConnectionsMtx is global, initMtx belongs  *)
(* to one executor, so callers of different executors never wait on each  *)
(* other in init.                                                          *)
(***************************************************************************)
EXTENDS ExecutorRegistry

CONSTANT LoadCanFail    \* whether getKsConfig may return an error

VARIABLES
    initialised,  \* initialised[e]: executor e's e.initialised
    watchers,     \* watchers[e]: watcher goroutines executor e's init started
    ipc           \* ipc[p]: "get" (in gocqlConnector), "init", "initLock",
                  \* "use" (init returned nil), "end" (init returned an error)

ksVars == <<initialised, watchers, ipc>>
allVars == <<vars, ksVars>>

KsTypeOK ==
    /\ TypeOK
    /\ initialised \in [ExecIds -> BOOLEAN]
    /\ watchers \in [ExecIds -> 0..Cardinality(Callers)]
    /\ ipc \in [Callers -> {"get", "init", "initLock", "use", "end"}]

KsInit ==
    /\ Init
    /\ initialised = [e \in ExecIds |-> FALSE]
    /\ watchers = [e \in ExecIds |-> 0]
    /\ ipc = [p \in Callers |-> "get"]

-----------------------------------------------------------------------------
(* gocqlConnector, as in ExecutorRegistry; its result goes on to init. *)
GetExecutor(p) ==
    /\ ipc[p] = "get"
    /\ \/ \E ks \in Keyspaces : GocqlConnectorRead(p, ks)
       \/ GocqlConnectorCreate(p)
    /\ ipc' = [ipc EXCEPT ![p] = IF pc'[p] = "done" THEN "init" ELSE "get"]
    /\ UNCHANGED <<initialised, watchers>>

(* init of the executor p got, under its initMtx.RLock: return if it is  *)
(* initialised, else release the read lock and wait for the write lock.   *)
InitCheck(p) ==
    /\ ipc[p] = "init"
    /\ ipc' = [ipc EXCEPT ![p] = IF initialised[ret[p]] THEN "use" ELSE "initLock"]
    /\ UNCHANGED <<vars, initialised, watchers>>

\* The locked section's load: an error is returned; otherwise switchConfig
\* builds the pool, the watcher goroutine starts and initialised is set.
InitLoad(p) ==
    \/ /\ LoadCanFail
       /\ ipc' = [ipc EXCEPT ![p] = "end"]
       /\ UNCHANGED <<initialised, watchers>>
    \/ /\ initialised' = [initialised EXCEPT ![ret[p]] = TRUE]
       /\ watchers' = [watchers EXCEPT ![ret[p]] = @ + 1]
       /\ ipc' = [ipc EXCEPT ![p] = "use"]

(* Mutant of InitLocked: the "Guard against race" re-check is dropped. *)
InitLockedNoRecheck(p) ==
    /\ ipc[p] = "initLock"
    /\ InitLoad(p)
    /\ UNCHANGED vars

(* init under the executor's initMtx.Lock: look at initialised again and  *)
(* load only if no other caller of this executor did it in between.       *)
InitLocked(p) ==
    /\ ipc[p] = "initLock"
    /\ IF initialised[ret[p]]
         THEN /\ ipc' = [ipc EXCEPT ![p] = "use"]
              /\ UNCHANGED <<initialised, watchers>>
         ELSE InitLoad(p)
    /\ UNCHANGED vars

(* Query or Execute returns, with its result or init's error; the caller *)
(* may call again.                                                        *)
Finish(p) ==
    /\ ipc[p] \in {"use", "end"}
    /\ Return(p)
    /\ ipc' = [ipc EXCEPT ![p] = "get"]
    /\ UNCHANGED <<initialised, watchers>>

KsNext ==
    \E p \in Callers :
        GetExecutor(p) \/ InitCheck(p) \/ InitLocked(p) \/ Finish(p)

KsSpec == KsInit /\ [][KsNext]_allVars

-----------------------------------------------------------------------------
\* The watcher goroutines started for keyspace ks, over all its executors.
WatchersOf(ks) ==
    LET RECURSIVE SumFrom(_)
        SumFrom(e) == IF e > created THEN 0
                      ELSE (IF execKs[e] = ks THEN watchers[e] ELSE 0) + SumFrom(e + 1)
    IN SumFrom(1)

(* Spec 4.4 and 4.5 together: whatever the interleaving of first callers  *)
(* in gocqlConnector and in init, a keyspace has at most one watcher       *)
(* goroutine following its config, and a caller whose init succeeded      *)
(* queries through the keyspace's registered executor, the one that has   *)
(* it.  Both double-checked locks are needed: a second executor for the   *)
(* keyspace or a second init of one executor each start a second watcher. *)
OneWatcherPerKeyspace ==
    /\ \A ks \in Keyspaces : WatchersOf(ks) <= 1
    /\ \A p \in Callers :
          ipc[p] = "use" => /\ ret[p] = ksConnections[want[p]]
                            /\ watchers[ret[p]] = 1
=============================================================================
