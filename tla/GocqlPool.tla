----------------------------- MODULE GocqlPool -----------------------------
(***************************************************************************)
(* The gocqlConnectionPool of package gocassa (src/unnamed/part_001, the   *)
(* second file in it): per host, a buffered channel of established         *)
(* connections and a buffered channel of "unestablished" nil tokens, both  *)
(* of capacity NumConns, plus the activeConns list used by Size and Close. *)
(*                                                                         *)
(* Pools are indexed by a generation g: the executor (GocqlExecutor)       *)
(* replaces its pool by a new one on a config change, and callers that     *)
(* read the old pointer keep using the old pool, so several pools coexist. *)
(* On its own this module checks one pool (generation 1) used by several  *)
(* concurrent callers, the way pool_test.go uses it.                       *)
(*                                                                         *)
(* A caller's checkout/checkin is split at the points where other          *)
(* goroutines can interleave: the non-blocking receive, the blocking       *)
(* select with its 5s timer, the dial (done outside every lock) and the    *)
(* checkin.  The epsilon-greedy host pool is abstracted to "any host of    *)
(* the pool's config": its choice is probabilistic and Mark only changes   *)
(* its weights, never which hosts can be returned.                         *)
(***************************************************************************)
EXTENDS Naturals, Sequences, FiniteSets, SequencesExt

CONSTANTS
    Hosts,      \* every host any config may name
    Callers,    \* goroutines calling Query/Execute (or checkout directly)
    Conns,      \* identities of the *gocql.Conn values a dial can return
    NoConn,     \* the nil *gocql.Conn
    NoHost,
    NumConns,   \* cc.NumConns: capacity of each host channel
    MaxGen      \* number of pool generations the model can create

ASSUME NumConns \in Nat \ {0} /\ MaxGen \in Nat \ {0}
ASSUME NoConn \notin Conns /\ NoHost \notin Hosts

Gens == 1..MaxGen

VARIABLES
    est,          \* est[g][h]: hostConnsEstablished[h] of pool g (FIFO channel)
    unest,        \* unest[g][h]: nil tokens in hostConnsUnestablished[h] of pool g
    activeConns,  \* activeConns[g]: the pool's activeConns slice
    connState,    \* "unused" (never dialed), "open" or "closed" (conn.Closed())
    connOwner,    \* the pool generation and host a connection was dialed by
    poolHosts,    \* poolHosts[g]: Cfg.hosts of pool g, fixed once it is built
    pc,           \* where each caller is in Query/Execute
    pool,         \* the pool pointer a caller read (0: none yet)
    host,         \* hpResp.Host() of the caller's checkout
    held          \* the connection in the caller's gocqlConnCheckout

poolVars   == <<est, unest, activeConns, connState, connOwner, poolHosts>>
callerVars == <<pc, pool, host, held>>

PcValues == {"idle", "init", "initLock", "initSwitch", "read", "pick", "wait", "check", "run"}

PoolTypeOK ==
    /\ est \in [Gens -> [Hosts -> Seq(Conns)]]
    /\ \A g \in Gens, h \in Hosts : Len(est[g][h]) <= NumConns
    /\ unest \in [Gens -> [Hosts -> 0..NumConns]]
    /\ activeConns \in [Gens -> SUBSET Conns]
    /\ connState \in [Conns -> {"unused", "open", "closed"}]
    /\ connOwner \in [Conns -> (Gens \X Hosts) \cup {<<0, NoHost>>}]
    /\ poolHosts \in [Gens -> SUBSET Hosts]
    /\ pc \in [Callers -> PcValues]
    /\ pool \in [Callers -> 0..MaxGen]
    /\ host \in [Callers -> Hosts \cup {NoHost}]
    /\ held \in [Callers -> Conns \cup {NoConn}]

(* gocqlConnectionPool.init: every host gets an empty established channel *)
(* and an unestablished channel filled with NumConns nil tokens.           *)
InitPool ==
    /\ est = [g \in Gens |-> [h \in Hosts |-> <<>>]]
    /\ unest = [g \in Gens |-> [h \in Hosts |-> NumConns]]
    /\ activeConns = [g \in Gens |-> {}]
    /\ connState = [c \in Conns |-> "unused"]
    /\ connOwner = [c \in Conns |-> <<0, NoHost>>]

InitCallers ==
    /\ pc = [p \in Callers |-> "idle"]
    /\ pool = [p \in Callers |-> 0]
    /\ host = [p \in Callers |-> NoHost]
    /\ held = [p \in Callers |-> NoConn]

-----------------------------------------------------------------------------
(* checkout, first part: hp.Get() picks a host of the pool, then a         *)
(* non-blocking receive from its established channel; on a miss the caller *)
(* goes on to the blocking select.                                        *)
Pick(p) ==
    LET g == pool[p] IN
    /\ pc[p] = "pick"
    /\ \E h \in poolHosts[g] :
          /\ host' = [host EXCEPT ![p] = h]
          /\ IF est[g][h] # <<>>
               THEN /\ held' = [held EXCEPT ![p] = Head(est[g][h])]
                    /\ est' = [est EXCEPT ![g][h] = Tail(@)]
                    /\ pc' = [pc EXCEPT ![p] = "check"]
               ELSE /\ pc' = [pc EXCEPT ![p] = "wait"]
                    /\ UNCHANGED <<held, est>>
    /\ UNCHANGED <<unest, activeConns, connState, connOwner, poolHosts, pool>>

(* Mutant of Wait: a select without the timer case blocks until a       *)
(* channel has something.                                                 *)
WaitNoTimeout(p) ==
    LET g == pool[p]
        h == host[p]
    IN
    /\ pc[p] = "wait"
    /\ \/ /\ est[g][h] # <<>>
          /\ held' = [held EXCEPT ![p] = Head(est[g][h])]
          /\ est' = [est EXCEPT ![g][h] = Tail(@)]
          /\ UNCHANGED unest
       \/ /\ unest[g][h] > 0
          /\ held' = [held EXCEPT ![p] = NoConn]
          /\ unest' = [unest EXCEPT ![g][h] = @ - 1]
          /\ UNCHANGED est
    /\ pc' = [pc EXCEPT ![p] = "check"]
    /\ UNCHANGED <<activeConns, connState, connOwner, poolHosts, pool, host>>

(* checkout, the "priority select": receive from either channel, or give  *)
(* up when the 5s timer fires first and return a nil connection.  The     *)
(* timer can only win while both channels are empty.                      *)
Wait(p) ==
    LET g == pool[p]
        h == host[p]
    IN
    /\ pc[p] = "wait"
    /\ \/ /\ est[g][h] # <<>>
          /\ held' = [held EXCEPT ![p] = Head(est[g][h])]
          /\ est' = [est EXCEPT ![g][h] = Tail(@)]
          /\ pc' = [pc EXCEPT ![p] = "check"]
          /\ UNCHANGED unest
       \/ /\ unest[g][h] > 0
          /\ held' = [held EXCEPT ![p] = NoConn]
          /\ unest' = [unest EXCEPT ![g][h] = @ - 1]
          /\ pc' = [pc EXCEPT ![p] = "check"]
          /\ UNCHANGED est
       \/ /\ est[g][h] = <<>> /\ unest[g][h] = 0
          /\ held' = [held EXCEPT ![p] = NoConn]
          /\ pc' = [pc EXCEPT ![p] = "run"]
          /\ UNCHANGED <<est, unest>>
    /\ UNCHANGED <<activeConns, connState, connOwner, poolHosts, pool, host>>

(* connect: gocql.Connect either fails (nil) or returns a fresh open      *)
(* connection, which is appended to activeConns under activeConnsMtx.      *)
(* Conns bounds the dials: once every identity is used, dials fail.        *)
ConnectOk(p, c) ==
    /\ connState[c] = "unused"
    /\ connState' = [connState EXCEPT ![c] = "open"]
    /\ connOwner' = [connOwner EXCEPT ![c] = <<pool[p], host[p]>>]
    /\ activeConns' = [activeConns EXCEPT ![pool[p]] = @ \cup {c}]
    /\ held' = [held EXCEPT ![p] = c]
    /\ UNCHANGED poolHosts

(* Mutant of Check: a failed dial drops the nil token instead of putting  *)
(* it back on the unestablished channel.                                  *)
CheckNoRestore(p) ==
    /\ pc[p] = "check"
    /\ pc' = [pc EXCEPT ![p] = "run"]
    /\ IF held[p] # NoConn /\ connState[held[p]] = "open"
         THEN UNCHANGED <<held, activeConns, connState, connOwner, poolHosts>>
         ELSE \/ \E c \in Conns : ConnectOk(p, c)
              \/ /\ held' = [held EXCEPT ![p] = NoConn]
                 /\ UNCHANGED <<activeConns, connState, connOwner, poolHosts>>
    /\ UNCHANGED <<est, unest, pool, host>>

(* Mutant of Check: the nil token is put back after every dial, the      *)
(* send written outside "if conn == nil".                                  *)
CheckRestoreAlways(p) ==
    /\ pc[p] = "check"
    /\ pc' = [pc EXCEPT ![p] = "run"]
    /\ IF held[p] # NoConn /\ connState[held[p]] = "open"
         THEN UNCHANGED <<held, unest, activeConns, connState, connOwner, poolHosts>>
         ELSE /\ \/ \E c \in Conns : ConnectOk(p, c)
                 \/ /\ held' = [held EXCEPT ![p] = NoConn]
                    /\ UNCHANGED <<activeConns, connState, connOwner, poolHosts>>
              /\ unest' = [unest EXCEPT ![pool[p]][host[p]] = @ + 1]
    /\ UNCHANGED <<est, pool, host>>

(* checkout, after the select: a nil token or a closed connection is      *)
(* replaced by a new dial; if the dial fails the nil is put back on the   *)
(* unestablished channel and the checkout carries a nil connection.       *)
Check(p) ==
    LET g == pool[p]
        h == host[p]
    IN
    /\ pc[p] = "check"
    /\ pc' = [pc EXCEPT ![p] = "run"]
    /\ IF held[p] # NoConn /\ connState[held[p]] = "open"
         THEN UNCHANGED <<held, unest, activeConns, connState, connOwner, poolHosts>>
         ELSE \/ /\ \E c \in Conns : ConnectOk(p, c)
                 /\ UNCHANGED unest
              \/ /\ held' = [held EXCEPT ![p] = NoConn]
                 /\ unest' = [unest EXCEPT ![g][h] = @ + 1]
                 /\ UNCHANGED <<activeConns, connState, connOwner, poolHosts>>
    /\ UNCHANGED <<est, pool, host>>

(* Mutant of Checkin: the NewSession error path checks in without        *)
(* returning, so the same checkout is checked in a second time.           *)
CheckinTwice(p) ==
    /\ pc[p] = "run"
    /\ held[p] # NoConn
    /\ est' = [est EXCEPT ![pool[p]][host[p]] = Append(@, held[p])]
    /\ UNCHANGED <<unest, activeConns, connState, connOwner, poolHosts, callerVars>>

(* checkin: hpResp.Mark(err) (weights only), then a non-nil connection    *)
(* goes back on its host's established channel of the caller's pool.      *)
Checkin(p) ==
    LET g == pool[p]
        h == host[p]
    IN
    /\ pc[p] = "run"
    /\ est' = IF held[p] # NoConn
                THEN [est EXCEPT ![g][h] = Append(@, held[p])]
                ELSE est
    /\ pc' = [pc EXCEPT ![p] = "idle"]
    /\ pool' = [pool EXCEPT ![p] = 0]
    /\ host' = [host EXCEPT ![p] = NoHost]
    /\ held' = [held EXCEPT ![p] = NoConn]
    /\ UNCHANGED <<unest, activeConns, connState, connOwner, poolHosts>>

(* Mutant of ClosePool: only the connections sitting in the host          *)
(* channels are closed, checked-out ones are left open.                   *)
ClosePoolQueuedOnly(g) ==
    LET queued == {c \in Conns : \E h \in Hosts : c \in ToSet(est[g][h])}
    IN
    /\ connState' = [c \in Conns |->
                        IF c \in activeConns[g] \cap queued THEN "closed"
                                                           ELSE connState[c]]
    /\ activeConns' = [activeConns EXCEPT ![g] = {}]

(* gocqlConnectionPool.Close: under activeConnsMtx close every tracked    *)
(* connection (checked-out ones included) and reset the list.  The host   *)
(* channels are left alone: checkout redials closed connections.          *)
ClosePool(g) ==
    /\ connState' = [c \in Conns |->
                        IF c \in activeConns[g] THEN "closed" ELSE connState[c]]
    /\ activeConns' = [activeConns EXCEPT ![g] = {}]

(* gocqlConnectionPool.Size *)
Size(g) == Cardinality(activeConns[g])

(* The driver closes a connection on its own (I/O error, server gone):    *)
(* conn.Closed() becomes true wherever the connection is.                 *)
ConnBreak(c) ==
    /\ connState[c] = "open"
    /\ connState' = [connState EXCEPT ![c] = "closed"]
    /\ UNCHANGED <<est, unest, activeConns, connOwner, poolHosts, callerVars>>

-----------------------------------------------------------------------------
(* The pool on its own: generation 1, every host, callers checking out    *)
(* and in directly, and Close called at any time.                         *)
PoolInit == InitPool /\ InitCallers /\ poolHosts = [g \in Gens |-> Hosts]

StartCheckout(p) ==
    /\ pc[p] = "idle"
    /\ pc' = [pc EXCEPT ![p] = "pick"]
    /\ pool' = [pool EXCEPT ![p] = 1]
    /\ UNCHANGED <<poolVars, host, held>>

CloseAction ==
    /\ ClosePool(1)
    /\ UNCHANGED <<est, unest, connOwner, poolHosts, callerVars>>

PoolNext ==
    \/ \E p \in Callers :
          \/ StartCheckout(p)
          \/ Pick(p)
          \/ Wait(p)
          \/ Check(p)
          \/ Checkin(p)
    \/ \E c \in Conns : ConnBreak(c)
    \/ CloseAction

PoolSpec == PoolInit /\ [][PoolNext]_<<poolVars, callerVars>>

-----------------------------------------------------------------------------
(* A caller occupies one of host h's NumConns slots of pool g from the    *)
(* receive until it either checks the connection in or the failed dial    *)
(* returns the nil token.                                                  *)
HoldsSlot(p, g, h) ==
    /\ pool[p] = g /\ host[p] = h
    /\ \/ pc[p] = "check"
       \/ pc[p] = "run" /\ held[p] # NoConn

(* Slot conservation (spec section 8): for every pool and host, the       *)
(* established connections, the nil tokens and the slots held by callers  *)
(* add up to exactly NumConns.  A dial failure that forgot to return its  *)
(* token, or a double checkin, breaks it after several callers' steps.    *)
SlotConservation ==
    \A g \in Gens, h \in Hosts :
        Len(est[g][h]) + unest[g][h]
          + Cardinality({p \in Callers : HoldsSlot(p, g, h)}) = NumConns

(* A checked-out connection is exclusive: every connection is in at most  *)
(* one place among all channels of all pools and all callers' checkouts,  *)
(* so two concurrent queries never share one *gocql.Conn.                 *)
Occurrences(c) ==
    LET InQueue(gh) == Cardinality({i \in DOMAIN est[gh[1]][gh[2]] :
                                        est[gh[1]][gh[2]][i] = c})
        InCallers == {p \in Callers : pc[p] \in {"check", "run"} /\ held[p] = c}
    IN MapThenSumSet(InQueue, Gens \X Hosts) + Cardinality(InCallers)

ExclusiveCheckout == \A c \in Conns : Occurrences(c) <= 1
=============================================================================
