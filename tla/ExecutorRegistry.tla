--------------------------- MODULE ExecutorRegistry ---------------------------
(***************************************************************************)
(* gocqlConnector of package gocassa (src/gocassa/executor.go): the       *)
(* process-wide map ksConnections from keyspace to executor, read under   *)
(* RLock and, on a miss, re-checked and filled under Lock.  Between the   *)
(* RUnlock and the Lock other callers run.                                *)
(*                                                                         *)
(* Executors are numbered in creation order; a created executor is never  *)
(* freed, so a number identifies it for the life of the process.          *)
(***************************************************************************)
EXTENDS Naturals, FiniteSets

CONSTANTS
    Keyspaces,    \* keyspace names callers ask for
    Callers,      \* goroutines calling gocqlConnector
    NoKs

\* Every miss creates at most one executor, so this many numbers suffice.
MaxExecutors == Cardinality(Callers) * Cardinality(Keyspaces)
ExecIds == 1..MaxExecutors

VARIABLES
    ksConnections, \* ksConnections[ks]: the registered executor (0: absent)
    created,       \* executors created so far
    execKs,        \* execKs[e]: the keyspace executor e was created for
    pc,            \* callers: "idle", "lock" (missed under RLock), "done"
    want,          \* want[p]: the keyspace caller p asks for
    ret            \* ret[p]: the executor gocqlConnector returned to p

vars == <<ksConnections, created, execKs, pc, want, ret>>

TypeOK ==
    /\ ksConnections \in [Keyspaces -> 0..MaxExecutors]
    /\ created \in 0..MaxExecutors
    /\ execKs \in [ExecIds -> Keyspaces \cup {NoKs}]
    /\ pc \in [Callers -> {"idle", "lock", "done"}]
    /\ want \in [Callers -> Keyspaces \cup {NoKs}]
    /\ ret \in [Callers -> 0..MaxExecutors]
    /\ \A p \in Callers : pc[p] = "done" => ret[p] \in ExecIds  \* never a nil Connection

Init ==
    /\ ksConnections = [k \in Keyspaces |-> 0]
    /\ created = 0
    /\ execKs = [e \in ExecIds |-> NoKs]
    /\ pc = [p \in Callers |-> "idle"]
    /\ want = [p \in Callers |-> NoKs]
    /\ ret = [p \in Callers |-> 0]

-----------------------------------------------------------------------------
(* Mutant of GocqlConnectorRead: the "if ok" test is dropped and the map's *)
(* zero value is returned on a miss.                                      *)
GocqlConnectorReadNoOkCheck(p, ks) ==
    /\ pc[p] = "idle"
    /\ want' = [want EXCEPT ![p] = ks]
    /\ pc' = [pc EXCEPT ![p] = "done"]
    /\ ret' = [ret EXCEPT ![p] = ksConnections[ks]]
    /\ UNCHANGED <<ksConnections, created, execKs>>

(* The lookup under RLock: a hit returns the registered executor, a miss  *)
(* releases the read lock and goes on to take the write lock.             *)
GocqlConnectorRead(p, ks) ==
    /\ pc[p] = "idle"
    /\ want' = [want EXCEPT ![p] = ks]
    /\ IF ksConnections[ks] # 0
         THEN /\ pc' = [pc EXCEPT ![p] = "done"]
              /\ ret' = [ret EXCEPT ![p] = ksConnections[ks]]
         ELSE /\ pc' = [pc EXCEPT ![p] = "lock"]
              /\ UNCHANGED ret
    /\ UNCHANGED <<ksConnections, created, execKs>>

\* Registers a new executor for ks and returns it to p.
NewExecutor(p, ks) ==
    /\ created' = created + 1
    /\ execKs' = [execKs EXCEPT ![created + 1] = ks]
    /\ ksConnections' = [ksConnections EXCEPT ![ks] = created + 1]
    /\ ret' = [ret EXCEPT ![p] = created + 1]

(* Mutant of GocqlConnectorCreate: the "Guard against race" re-check is   *)
(* dropped, so every caller that missed creates its own executor.         *)
GocqlConnectorCreateNoRecheck(p) ==
    /\ pc[p] = "lock"
    /\ pc' = [pc EXCEPT ![p] = "done"]
    /\ NewExecutor(p, want[p])
    /\ UNCHANGED want

(* Under the write lock: look again, and create and register an executor  *)
(* only if the keyspace is still absent.                                  *)
GocqlConnectorCreate(p) ==
    /\ pc[p] = "lock"
    /\ pc' = [pc EXCEPT ![p] = "done"]
    /\ IF ksConnections[want[p]] # 0
         THEN /\ ret' = [ret EXCEPT ![p] = ksConnections[want[p]]]
              /\ UNCHANGED <<ksConnections, created, execKs>>
         ELSE NewExecutor(p, want[p])
    /\ UNCHANGED want

(* The caller uses the executor it got and may call again later. *)
Return(p) ==
    /\ pc[p] = "done"
    /\ pc' = [pc EXCEPT ![p] = "idle"]
    /\ UNCHANGED <<ksConnections, created, execKs, want, ret>>

Next ==
    \E p \in Callers :
        \/ \E ks \in Keyspaces : GocqlConnectorRead(p, ks)
        \/ GocqlConnectorCreate(p)
        \/ Return(p)

Spec == Init /\ [][Next]_vars

-----------------------------------------------------------------------------
(* Spec 4.5: concurrent first callers for one keyspace never get two      *)
(* distinct executors.  Every executor gocqlConnector ever created is     *)
(* still the registered one for its keyspace, and every caller holding a  *)
(* result holds the registered executor of the keyspace it asked for: no  *)
(* executor was built, handed out and then overwritten in the map.        *)
SingleExecutorPerKeyspace ==
    /\ \A e \in 1..created : ksConnections[execKs[e]] = e
    /\ \A p \in Callers : pc[p] = "done" => ret[p] = ksConnections[want[p]]
=============================================================================
