------------------------- MODULE GocqlSessionExecutor -------------------------
(***************************************************************************)
(* The session-based gocqlExecutor of package gocassa (src/gocassa/        *)
(* executor.go, first file in it): one *gocql.Session built from the       *)
(* keyspace config, replaced by switchConfig when the config's hash        *)
(* changes; session creation can fail, and the watcher then retries        *)
(* through its own retry channel.                                          *)
(*                                                                         *)
(* Sessions are numbered in creation order; session 0 is nil.  The config  *)
(* service is modelled as in GocqlExecutor: a current config, a change     *)
(* notification for a subscribed watcher, loads that may fail.            *)
(***************************************************************************)
EXTENDS Naturals

CONSTANTS
    Callers,        \* goroutines calling Query/Execute
    Configs, NoCfg,
    Hash,           \* Hash[cfg]: ksConfig.hash()
    MaxWrites,      \* writes to the config service in one behaviour
    MaxSessions,    \* sessions CreateSession can return in one behaviour
    LoadCanFail,    \* whether getKsConfig may return an error
    CreateCanFail   \* whether cc.CreateSession may return an error

VARIABLES
    initialised,  \* e.initialised
    session,      \* e.session: the current session number (0: nil)
    sessState,    \* sessState[s]: "unused", "open" or "closed"
    sessCfg,      \* sessCfg[s]: the config session s was created from
    cfg,          \* e.cfg
    lastHash,     \* e.lastHash
    wpc,          \* the watcher goroutine: "none", "start", "loop", "retrySend"
    source,       \* the config held by the config service
    pending,      \* a notification waits on configCh
    writes,
    pc,           \* callers: "idle", "init", "initLock", "read", "run"
    sess          \* the session a caller read under RLock

Sessions == 1..MaxSessions
vars == <<initialised, session, sessState, sessCfg, cfg, lastHash, wpc,
          source, pending, writes, pc, sess>>

TypeOK ==
    /\ initialised \in BOOLEAN /\ pending \in BOOLEAN
    /\ session \in 0..MaxSessions
    /\ initialised => session \in Sessions   \* init completes only with a session
    /\ sessState \in [Sessions -> {"unused", "open", "closed"}]
    /\ sessCfg \in [Sessions -> Configs \cup {NoCfg}]
    /\ cfg \in Configs \cup {NoCfg}
    /\ lastHash \in {0} \cup {Hash[c] : c \in Configs}
    /\ wpc \in {"none", "start", "loop", "retrySend"}
    /\ source \in Configs
    /\ writes \in 0..MaxWrites
    /\ pc \in [Callers -> {"idle", "init", "initLock", "read", "run"}]
    /\ sess \in [Callers -> 0..MaxSessions]
    /\ \A p \in Callers : pc[p] = "run" => sess[p] \in Sessions

Init ==
    /\ initialised = FALSE /\ session = 0
    /\ sessState = [s \in Sessions |-> "unused"]
    /\ sessCfg = [s \in Sessions |-> NoCfg]
    /\ cfg = NoCfg /\ lastHash = 0
    /\ wpc = "none"
    /\ source \in Configs /\ pending = FALSE /\ writes = 0
    /\ pc = [p \in Callers |-> "idle"]
    /\ sess = [p \in Callers |-> 0]

NextSession == CHOOSE s \in Sessions : sessState[s] = "unused" /\ \A t \in 1..s-1 : sessState[t] # "unused"
CanCreate == \E s \in Sessions : sessState[s] = "unused"

-----------------------------------------------------------------------------
(* Mutant of SwitchConfig: the hash is recorded before CreateSession, so  *)
(* it is recorded even when creation fails.                               *)
SwitchConfigHashFirst(new, ok) ==
    /\ cfg' = new
    /\ lastHash' = Hash[new]
    /\ IF ok
         THEN /\ session' = NextSession
              /\ sessState' = [s \in Sessions |->
                                 IF s = NextSession THEN "open"
                                 ELSE IF s = session THEN "closed" ELSE sessState[s]]
              /\ sessCfg' = [sessCfg EXCEPT ![NextSession] = new]
         ELSE /\ sessState' = [s \in Sessions |->
                                 IF s = session THEN "closed" ELSE sessState[s]]
              /\ UNCHANGED <<session, sessCfg>>

(* switchConfig under e.Lock: close the current session, set e.cfg, then  *)
(* CreateSession; ok says whether it succeeded.  On failure the closed    *)
(* session stays in e.session and lastHash is left as it was.             *)
SwitchConfig(new, ok) ==
    /\ cfg' = new
    /\ sessState' = [s \in Sessions |->
                       IF ok /\ s = NextSession THEN "open"
                       ELSE IF s = session THEN "closed" ELSE sessState[s]]
    /\ IF ok
         THEN /\ session' = NextSession
              /\ sessCfg' = [sessCfg EXCEPT ![NextSession] = new]
              /\ lastHash' = Hash[new]
         ELSE UNCHANGED <<session, sessCfg, lastHash>>

(* The possible outcomes of CreateSession: failure only if CreateCanFail, *)
(* success only while session numbers are left.                           *)
CreateOutcomes == {ok \in BOOLEAN : (ok => CanCreate) /\ (~ok => CreateCanFail)}

StartQuery(p) ==
    /\ pc[p] = "idle"
    /\ pc' = [pc EXCEPT ![p] = "init"]
    /\ UNCHANGED <<initialised, session, sessState, sessCfg, cfg, lastHash, wpc,
                   source, pending, writes, sess>>

(* init, under initMtx.RLock: an initialised executor returns at once;    *)
(* otherwise the read lock is released and the write lock awaited.        *)
InitCheck(p) ==
    /\ pc[p] = "init"
    /\ pc' = [pc EXCEPT ![p] = IF initialised THEN "read" ELSE "initLock"]
    /\ UNCHANGED <<initialised, session, sessState, sessCfg, cfg, lastHash, wpc,
                   source, pending, writes, sess>>

(* Mutant of InitLocked: the error of switchConfig is ignored, as the     *)
(* pool-based executor's init does, and init completes anyway.            *)
InitIgnoreCreateError(p) ==
    /\ pc[p] = "initLock"
    /\ IF initialised
         THEN /\ pc' = [pc EXCEPT ![p] = "read"]
              /\ UNCHANGED <<initialised, session, sessState, sessCfg, cfg, lastHash, wpc>>
         ELSE \/ /\ LoadCanFail
                 /\ pc' = [pc EXCEPT ![p] = "idle"]
                 /\ UNCHANGED <<initialised, session, sessState, sessCfg, cfg, lastHash, wpc>>
              \/ \E ok \in CreateOutcomes :
                    /\ SwitchConfig(source, ok)
                    /\ initialised' = TRUE
                    /\ wpc' = "start"
                    /\ pc' = [pc EXCEPT ![p] = "read"]
    /\ UNCHANGED <<source, pending, writes, sess>>

(* init under initMtx.Lock: look at initialised again; if still unset,   *)
(* load, switchConfig and start the watcher goroutine.  An error from     *)
(* either step is returned and initialised stays FALSE.                   *)
InitLocked(p) ==
    /\ pc[p] = "initLock"
    /\ IF initialised
         THEN /\ pc' = [pc EXCEPT ![p] = "read"]
              /\ UNCHANGED <<initialised, session, sessState, sessCfg, cfg, lastHash, wpc>>
         ELSE \/ /\ LoadCanFail
                 /\ pc' = [pc EXCEPT ![p] = "idle"]
                 /\ UNCHANGED <<initialised, session, sessState, sessCfg, cfg, lastHash, wpc>>
              \/ \E ok \in CreateOutcomes :
                    /\ SwitchConfig(source, ok)
                    /\ initialised' = ok
                    /\ wpc' = IF ok THEN "start" ELSE wpc
                    /\ pc' = [pc EXCEPT ![p] = IF ok THEN "read" ELSE "idle"]
    /\ UNCHANGED <<source, pending, writes, sess>>

(* Query/Execute: read e.session under RLock; a nil session is the error  *)
(* "No open session".                                                      *)
ReadSession(p) ==
    /\ pc[p] = "read"
    /\ sess' = [sess EXCEPT ![p] = session]
    /\ pc' = [pc EXCEPT ![p] = IF session = 0 THEN "idle" ELSE "run"]
    /\ UNCHANGED <<initialised, session, sessState, sessCfg, cfg, lastHash, wpc,
                   source, pending, writes>>

(* The statement runs on the session read earlier, with no lock held; it  *)
(* fails if that session has been closed meanwhile.                       *)
RunStatement(p) ==
    /\ pc[p] = "run"
    /\ pc' = [pc EXCEPT ![p] = "idle"]
    /\ sess' = [sess EXCEPT ![p] = 0]
    /\ UNCHANGED <<initialised, session, sessState, sessCfg, cfg, lastHash, wpc,
                   source, pending, writes>>

(* watchConfig: SubscribeChanges and make(chan struct{}) when the         *)
(* goroutine first runs.                                                  *)
Subscribe ==
    /\ wpc = "start"
    /\ wpc' = "loop"
    /\ UNCHANGED <<initialised, session, sessState, sessCfg, cfg, lastHash,
                   source, pending, writes, pc, sess>>

ConfigWrite ==
    /\ writes < MaxWrites
    /\ writes' = writes + 1
    /\ source' \in Configs
    /\ pending' = (pending \/ wpc \in {"loop", "retrySend"})
    /\ UNCHANGED <<initialised, session, sessState, sessCfg, cfg, lastHash, wpc, pc, sess>>

(* The select takes a notification from configCh and calls reloadSession: *)
(* load, compare hashes, switchConfig.  If switchConfig fails, sleep and  *)
(* send on retryCh, which is unbuffered and received only by this same    *)
(* goroutine's select: the watcher is then in "retrySend".                *)
Reload ==
    /\ wpc = "loop" /\ pending
    /\ pending' = FALSE
    /\ \/ /\ LoadCanFail
          /\ UNCHANGED <<session, sessState, sessCfg, cfg, lastHash, wpc>>
       \/ /\ Hash[source] = lastHash
          /\ UNCHANGED <<session, sessState, sessCfg, cfg, lastHash, wpc>>
       \/ /\ Hash[source] # lastHash
          /\ \E ok \in CreateOutcomes :
                /\ SwitchConfig(source, ok)
                /\ wpc' = IF ok THEN "loop" ELSE "retrySend"
    /\ UNCHANGED <<initialised, source, writes, pc, sess>>

CallerStep(p) == InitCheck(p) \/ InitLocked(p) \/ ReadSession(p) \/ RunStatement(p)

Next ==
    \/ \E p \in Callers : StartQuery(p) \/ CallerStep(p)
    \/ Subscribe \/ ConfigWrite \/ Reload

Spec ==
    /\ Init /\ [][Next]_vars
    /\ \A p \in Callers : WF_vars(CallerStep(p))
    /\ WF_vars(Subscribe) /\ WF_vars(Reload)

-----------------------------------------------------------------------------
(* lastHash always describes the session in e.session: the watcher's      *)
(* "hash unchanged" test skips a reload only when the session really was  *)
(* built from a config with that hash, whatever failures came before.     *)
LastHashIsLive ==
    session # 0 => lastHash = Hash[sessCfg[session]]

(* Every change notification is eventually taken by the watcher. *)
NotificationsHandled == pending ~> ~pending
=============================================================================
