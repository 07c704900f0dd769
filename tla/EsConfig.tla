------------------------------- MODULE EsConfig -------------------------------
(***************************************************************************)
(* The Elasticsearch endpoint loader of package elasticsearch             *)
(* (src/unnamed/part_001, first file): LoadConfig runs setup once, which   *)
(* subscribes to config changes, starts a goroutine that reloads on every  *)
(* notification, and loads once itself.  loadEndpointConfig reads the     *)
(* port and the hosts from the config service and writes them into the    *)
(* library globals eapi.Port, eapi.Protocol and the host list, with no     *)
(* lock: the two goroutines' loads interleave statement by statement.      *)
(*                                                                         *)
(* The config service is modelled as in GocqlExecutor: a current config    *)
(* and a notification for the subscriber (several writes may coalesce).   *)
(***************************************************************************)
EXTENDS Naturals

CONSTANTS
    Configs,
    PortOf,       \* PortOf[c]: hailo/service/elasticsearch/port (9200 if unset)
    HostsOf,      \* HostsOf[c]: the host names under .../hosts
    DefaultHost,  \* "localhost:19200"
    DefaultProto, \* the library's initial eapi.Protocol
    MaxWrites

Loaders == {"main", "watcher"}   \* setup's own goroutine and the one it starts

VARIABLES
    source, pending, writes, \* the config service and the subscription
    subscribed,
    pc,           \* pc[l]: "idle", "wait" (watcher), "port", "hosts", "setPort", "setHosts", "done"
    lport,        \* lport[l]: the port loader l read
    lhosts,       \* lhosts[l]: the host list loader l built
    ePort, eProto, eHosts    \* eapi.Port, eapi.Protocol, the hosts given to eapi.SetHosts

vars == <<source, pending, writes, subscribed, pc, lport, lhosts, ePort, eProto, eHosts>>

Ports == {PortOf[c] : c \in Configs} \cup {0}
\* AsHostnameArray(port): each host name joined with the port; the default
\* replaces an empty list.
HostList(c, port) ==
    IF HostsOf[c] = {} THEN {DefaultHost} ELSE {<<h, port>> : h \in HostsOf[c]}
HostLists == {HostList(c, p) : c \in Configs, p \in Ports} \cup {{}}

TypeOK ==
    /\ source \in Configs /\ pending \in BOOLEAN /\ subscribed \in BOOLEAN
    /\ writes \in 0..MaxWrites
    /\ pc \in [Loaders -> {"idle", "wait", "port", "hosts", "setPort", "setHosts", "done"}]
    /\ lport \in [Loaders -> Ports]
    /\ lhosts \in [Loaders -> HostLists]
    /\ ePort \in Ports /\ eProto \in {DefaultProto, "https"} /\ eHosts \in HostLists

Init ==
    /\ source \in Configs /\ pending = FALSE /\ writes = 0 /\ subscribed = FALSE
    /\ pc = [l \in Loaders |-> "idle"]
    /\ lport = [l \in Loaders |-> 0]
    /\ lhosts = [l \in Loaders |-> {}]
    /\ ePort = 0 /\ eProto = DefaultProto /\ eHosts = {}

-----------------------------------------------------------------------------
(* LoadConfig: once.Do(setup); setup subscribes, starts the goroutine and  *)
(* begins its own load.                                                    *)
LoadConfig ==
    /\ pc["main"] = "idle"
    /\ subscribed' = TRUE
    /\ pc' = [pc EXCEPT !["main"] = "port", !["watcher"] = "wait"]
    /\ UNCHANGED <<source, pending, writes, lport, lhosts, ePort, eProto, eHosts>>

(* The goroutine's "<-ch". *)
Receive ==
    /\ pc["watcher"] = "wait" /\ pending
    /\ pending' = FALSE
    /\ pc' = [pc EXCEPT !["watcher"] = "port"]
    /\ UNCHANGED <<source, writes, subscribed, lport, lhosts, ePort, eProto, eHosts>>

(* loadEndpointConfig, one statement per step: read the port, read the   *)
(* hosts (with the default), set eapi.Port and, for 443 only, Protocol,  *)
(* then eapi.SetHosts.                                                    *)
ReadPort(l) ==
    /\ pc[l] = "port"
    /\ lport' = [lport EXCEPT ![l] = PortOf[source]]
    /\ pc' = [pc EXCEPT ![l] = "hosts"]
    /\ UNCHANGED <<source, pending, writes, subscribed, lhosts, ePort, eProto, eHosts>>

ReadHosts(l) ==
    /\ pc[l] = "hosts"
    /\ lhosts' = [lhosts EXCEPT ![l] = HostList(source, lport[l])]
    /\ pc' = [pc EXCEPT ![l] = "setPort"]
    /\ UNCHANGED <<source, pending, writes, subscribed, lport, ePort, eProto, eHosts>>

SetPort(l) ==
    /\ pc[l] = "setPort"
    /\ ePort' = lport[l]
    /\ eProto' = IF lport[l] = 443 THEN "https" ELSE eProto
    /\ pc' = [pc EXCEPT ![l] = "setHosts"]
    /\ UNCHANGED <<source, pending, writes, subscribed, lport, lhosts, eHosts>>

SetHosts(l) ==
    /\ pc[l] = "setHosts"
    /\ eHosts' = lhosts[l]
    /\ pc' = [pc EXCEPT ![l] = IF l = "main" THEN "done" ELSE "wait"]
    /\ UNCHANGED <<source, pending, writes, subscribed, lport, lhosts, ePort, eProto>>

(* A write to the config service; the subscriber is notified. *)
ConfigWrite ==
    /\ writes < MaxWrites
    /\ writes' = writes + 1
    /\ source' \in Configs
    /\ pending' = (pending \/ subscribed)
    /\ UNCHANGED <<subscribed, pc, lport, lhosts, ePort, eProto, eHosts>>

LoadStep(l) == ReadPort(l) \/ ReadHosts(l) \/ SetPort(l) \/ SetHosts(l)

Next ==
    \/ LoadConfig \/ Receive \/ ConfigWrite
    \/ \E l \in Loaders : LoadStep(l)

(* Both goroutines are scheduled fairly; the application's LoadConfig    *)
(* call and the config writes get no fairness.                           *)
Spec ==
    /\ Init /\ [][Next]_vars
    /\ \A l \in Loaders : WF_vars(LoadStep(l))
    /\ WF_vars(Receive)

-----------------------------------------------------------------------------
\* The library settings loadEndpointConfig derives from config c.
Loaded(c) ==
    /\ ePort = PortOf[c]
    /\ eHosts = HostList(c, PortOf[c])
    /\ (eProto = "https") = (PortOf[c] = 443)

(* LoadConfig's comment: after setup, the goroutine subscribed to the     *)
(* config service keeps the library's variables up to date.  Once         *)
(* LoadConfig has run and the config has stopped changing, the library   *)
(* ends up with the port, protocol and hosts of the current config.      *)
EventuallyLoaded ==
    <>[](pc["main"] = "done" /\ writes = MaxWrites) => <>[]Loaded(source)
=============================================================================
