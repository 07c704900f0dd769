# TLA+ models of service-layer's Cassandra connection layer

This directory holds TLA+ models of the concurrent parts of the repository,
the TLC configurations that check them, and `PROJECT.json`. `PROJECT.json`
lists the components, the runs, the mutants, the source lines behind every
definition ("map"), the findings and the hazards.

## 1. Inventory

The sources are concatenations of several Go files. The line numbers below are
those of the files under `src/`.

| Component | Source | State | Operations | Status |
|---|---|---|---|---|
| Connection pool `gocqlConnectionPool` | `src/unnamed/part_001` 56-218 | For each host, a channel `hostConnsEstablished` of live connections and a channel `hostConnsUnestablished` of nil tokens. Both have capacity `NumConns`. Also the `activeConns` slice, guarded by `activeConnsMtx`, and the epsilon-greedy host pool `hp`. | `init`, `checkout`, `checkin`, `connect`, `Size`, `Close` | modelled (`GocqlPool`) |
| Executor `gocqlExecutor`, pool version | `src/gocassa/executor.go` 180-327 | `initialised` (guarded by `initMtx`), `pool` and `lastHash` (guarded by the embedded RWMutex), and the watcher goroutine | `init`, `switchConfig`, `watchConfig`, `Query`, `Execute`, `ExecuteAtomically` (always returns an error) | modelled (`GocqlExecutor`, refining `ConfiguredExecutor`) |
| Executor registry `gocqlConnector` | `executor.go` 162-179 and 329-346 | the global map `ksConnections` with its RWMutex | get-or-create with double-checked locking | modelled (`ExecutorRegistry`) |
| Legacy executor `gocqlExecutor`, session version | `executor.go` 1-179 | `session`, `cfg` and `lastHash`; the watcher has an unbuffered `retryCh` | `init`, `switchConfig` (can fail), `watchConfig`, `reloadSession`, `Query`, `Execute` | modelled (`GocqlSessionExecutor`) |
| Single-connection adapter `singlePool` | `executor.go` 347-381 | one `*gocql.Conn` | `Pick`, `Size`, `Close` | not modelled: stateless |
| Auth token cache `memcacheCacher` | `src/auth/cache.go` 1-130 | memcache entries: a token, the "invalid" placeholder, or absent, each with a TTL | `Store`, `Invalidate`, `Fetch`, `Purge` | modelled (`AuthCache`; its test double `testCache` in `cache_test.go` as `AuthTestCache`) |
| DNS `Hosts` | `cache.go` 131-173 | none | one resolver lookup, then a sort | not modelled: pure I/O |
| Elasticsearch loader | `part_001` 1-55 | `sync.Once` and the library globals `eapi.Port`, `Protocol` and hosts | `LoadConfig`, `setup` (a goroutine per change), `loadEndpointConfig` | modelled (`EsConfig`) |
| Health checks | `part_000`, `part_002` | none | one library call each | not modelled: stateless |
| Config service, `getKsConfig`, `ksConfig.hash` | not under `src/` | the current config and the subscribers' channels | load, subscribe, notify | modelled from spec.md as the environment of `GocqlExecutor` |

### How the components interact

A caller calls `Query` or `Execute`. The first call runs `init`, which loads
the keyspace config and builds a pool through `switchConfig`. It then starts
the `watchConfig` goroutine.

Each call then does the following:

1. It reads `e.pool` under RLock.
2. It checks out a connection from that pool. The host pool picks a host.
   The call takes an established connection, or a nil token that it then
   dials. It may also time out after 5s.
3. It wraps the connection in a `singlePool` session, runs the statement, and
   checks the connection in.

The watcher receives a notification for every config write. It compares the
hash of the new config with `lastHash`. If they differ, it calls
`switchConfig`. Under the executor's write lock, `switchConfig` closes the old
pool's tracked connections and installs a new pool. Callers that already read
the old pointer keep using the old pool.

### What is hard

- Callers interleave with one another. The dial runs outside every lock.
- The 5s timer races the two channel receives.
- A config swap can close connections that running queries are still using.
- A caller can still hold the pointer to a pool that was retired.
- The watcher starts later than `init`.
- Loads and dials can fail. The driver can close a connection at any moment.

### What makes each component correct

- **Pool.** Every slot of every host is accounted for. A connection is never
  held by two callers. A failed dial returns its slot. A checkout always ends.
- **Executor.** A swap closes everything the old pool owned. No connection
  outlives its pool unless a query is still using it. No pool is replaced by
  one with the same config hash. A config is installed only if the service
  held it when it was loaded. After writes stop, the executor ends up on the
  current config.
- **Registry.** Each keyspace gets exactly one executor.
- **Auth cache.** An invalidated session reads as "known invalid" until it is
  purged or stored again. A stored session expires with its token.
- **Elasticsearch loader.** The library's protocol and hosts match the last
  config loaded.

## 2. Plan

The modules are listed in order of importance. All seven are done.

1. `GocqlPool`: the pool, with its callers as processes. Done.
2. `GocqlExecutor` (EXTENDS `GocqlPool`): init, config swaps, the watcher and
   Query/Execute, over several pool generations. Done.
3. `GocqlSessionExecutor`: the legacy executor. Done. It shows two things:
   - the watcher deadlocks on its own `retryCh` send;
   - a failed `CreateSession` leaves the closed session in place.
4. `ConfiguredExecutor`: the abstract specification of what an executor
   promises about its config. `GocqlExecutor` implements it through
   `INSTANCE ... WITH` and the refinement mapping `ActiveCfg`. Done.
5. `ExecutorRegistry`: the double-checked get-or-create, with concurrent first
   callers. Done. `KeyspaceExecutors` composes it with each executor's
   double-checked `init`. Done.
6. `AuthCache`: memcache Set/Get/Delete with TTL arithmetic. It covers the
   `int32` truncation to 0 (never expires) and a Store after an Invalidate,
   compared with the test double `AuthTestCache`. Done.
7. `EsConfig`: `once.Do` setup, the loading goroutine racing the first load,
   and the protocol that is never reset. Done.

## 3. Modules

### `GocqlPool`

The pools are indexed by generation `g` in `1..MaxGen`.

| Model | Code |
|---|---|
| `est[g][h]` (a FIFO `Seq`) | `hostConnsEstablished[h]` |
| `unest[g][h]` (a count) | `hostConnsUnestablished[h]`, which only ever holds nil |
| `activeConns[g]` | the `activeConns` slice |
| `connState[c]` | `conn.Closed()`, plus "unused" for identities not dialed yet |
| `connOwner[c]` | the pool and host that dialed `c` |
| `poolHosts[g]` | `Cfg.hosts` of pool `g` |

Each caller has `pc`, `pool` (the pointer it read), `host` (`hpResp.Host()`)
and `held` (the checkout's `conn`).

The actions split checkout and checkin at the points where goroutines
interleave:

- `Pick`: `hp.Get`, then the non-blocking receive.
- `Wait`: the priority select. The timer can fire only while both channels
  are empty.
- `Check`: the redial of a nil or closed connection, and the token restore on
  failure.
- `Checkin`.

`ClosePool` is `Close`. `ConnBreak` is the driver closing a connection.

The host pool's epsilon-greedy weights are abstracted away. Any host of the
pool's config can be picked, which covers every choice the real policy makes.
On its own (`PoolSpec`), the module runs one pool that callers use directly,
with `Close` allowed at any time.

### `GocqlExecutor`

Executor state: `initialised`, `curGen` (`e.pool`), `lastHash`, and `cfgOf[g]`
(the Cfg of each pool).

Environment state:

- `source`: the config in the service.
- `pending`: a notification waiting on the watcher's channel.
- `subscribed`: whether the watcher has called `SubscribeChanges` yet.
- `writes`: the number of writes so far.

| Action | Code |
|---|---|
| `StartQuery` | a call of Query or Execute |
| `InitCheck` | `init`'s look at `initialised` under `initMtx.RLock` |
| `InitLocked` | `init`'s section under `initMtx.Lock`: the re-check, then `InitLoad` (`getKsConfig`) |
| `InitSwitch` | the rest of that section: `switchConfig` to the loaded config, start the watcher, set `initialised` |
| `ReadPool` | `pool := e.pool` under RLock |
| `Subscribe` | the watcher goroutine's first step |
| `ConfigWrite` | a write to the config service |
| `ReloadLoad` | the watcher loop up to the switch: take the notification, read `lastHash`, `getKsConfig`, compare hashes |
| `ReloadSwitch` | the watcher's `switchConfig` with the config it loaded |

The variable `loaded` holds a config between `getKsConfig` and
`switchConfig`. No lock covers the gap, so config writes happen in between,
and the config installed may already be superseded. The write's pending
notification makes the watcher load again. There is only ever one loader:
`init` holds `initMtx` from its load to its switch, and the watcher starts
only after that.

`SwitchConfig` closes the old generation and starts the next one.

A config is a model value with a hash (`Hash`) and a host list (`CfgHosts`).
The configs `cA` and `cA2` hash alike, which models a write that touches only
fields outside the hash.

### `GocqlSessionExecutor`

This module models the legacy executor.

| Model | Code |
|---|---|
| `session` (numbered; 0 is nil) | `e.session` |
| `sessState` | open or closed |
| `sessCfg[s]` | the config session `s` was created from |
| `cfg` | `e.cfg` |
| `lastHash` | `e.lastHash` |

The watcher's program counter `wpc` takes these values:

- `start`: the goroutine has not run yet.
- `loop`: the watcher is waiting in its select.
- `retrySend`: the watcher is blocked in `retryCh <- struct{}{}`.

Nothing in the code can receive from `retryCh` while the watcher is blocked
in that send. So the model has no action out of `retrySend`.

`SwitchConfig(new, ok)` closes the session, sets `cfg` and, if `ok`, installs
a new session and its hash. `CreateOutcomes` bounds the successes by the
session numbers that are still unused.

`GocqlSessionExecutor` splits its `init` in the same way, into `InitCheck` and
`InitLocked`. Between the two steps, other callers run.

### `ConfiguredExecutor`

This module is the abstract specification of spec.md sections 4.4 and 8. It
has three variables:

- `active`: the config of the active pool;
- `fetched`: a config fetched and not yet installed;
- `source`: the config the service holds.

It has three steps:

- `Fetch` reads `source`, when nothing is active yet or when its hash
  differs from the active config's.
- `Apply` installs what was fetched.
- `Write` is any config write, including one between a fetch and its
  install.

`GocqlExecutor` maps to it by `ActiveCfg` (the config of pool `curGen`),
`loaded` and `source`. Its loads that go on to a switch are `Fetch` steps.
Its switches are `Apply` steps, and its config writes are `Write` steps.
Everything else stutters. The abstract spec does not promise that the
installed config is still current: the code does not guarantee that.

### `ExecutorRegistry`

| Model | Code |
|---|---|
| `ksConnections[ks]` (an executor number; 0 is absent) | `ksConnections` |
| `created`, `execKs` | the executors `gocqlConnector` created |
| `pc`, `want`, `ret` | each caller's position, keyspace and result |

`GocqlConnectorRead` is the lookup under RLock. `GocqlConnectorCreate` is the
whole write-locked section with its re-check. Between the two steps, other
callers run.

### `KeyspaceExecutors`

This module composes the registry with the executors it hands out. It
EXTENDS `ExecutorRegistry`. A call first runs `gocqlConnector`
(`GetExecutor`), then the `init` of the executor it got (`InitCheck` and
`InitLocked`), and then returns (`Finish`). Each executor is reduced to
its init state:

| Model | Code |
|---|---|
| `initialised[e]` | executor `e`'s `e.initialised` |
| `watchers[e]` | the `watchConfig` goroutines `e`'s `init` started (a history variable) |
| `ipc[p]` | where caller `p` is: in `gocqlConnector`, in `init`, or returned |

Each executor has its own `initMtx`. So two callers of different executors
never wait on each other in `init`. The executor's pool and reloads are
modelled in `GocqlExecutor`.

### `AuthCache` and `AuthTestCache`

| Model | Code |
|---|---|
| `item[s]` (value, expiry instant, user expiry) | the memcache item under key `s` |
| `now` (ticks of 1/`TicksPerSec` s) | `time.Now()` |
| `lastWrite[s]` | the last write the server applied (history, for properties) |
| `ret[s]` | what the last call on `s` returned |

Each of `Store`, `Invalidate`, `DoFetch` and `Purge` is one memcache request.
`TruncSecs` is `int32(d.Seconds())`, which truncates toward zero.
`ExpiryAt` is memcache's reading of an expiration: 0 never expires, a
negative value or one above 30 days (`RelativeLimit`) has already expired,
and anything else is relative. A write is applied and answered ("ok"), lost
("lost"), or applied with its answer lost ("late"). `doStore` reads the
clock before `mc.Set` reaches the server, and memcache counts a relative
expiration from the request's arrival. So `Store` computes its TTL from a
time up to `MaxDelay` ticks earlier than the instant the server applies it.

`AuthTestCache` is `testCache` of `cache_test.go`, with tokens reduced to
presence. `AuthCache` maps a live token to `users[s]` and a live placeholder
to `invalidated[s]`.

### `EsConfig`

| Model | Code |
|---|---|
| `pc["main"]`, `pc["watcher"]` | setup's goroutine, and the goroutine it starts |
| `lport[l]`, `lhosts[l]` | `port` and `hosts` in loader `l`'s `loadEndpointConfig` |
| `ePort`, `eProto`, `eHosts` | `eapi.Port`, `eapi.Protocol`, the list given to `eapi.SetHosts` |

`LoadConfig` is `once.Do(setup)` up to setup's own load. `Receive` is the
goroutine's `<-ch`. `ReadPort`, `ReadHosts`, `SetPort` and `SetHosts` are
the statements of `loadEndpointConfig`. The two loads take no lock, so they
interleave statement by statement. `HostList` is `AsHostnameArray(port)`
with the `localhost:19200` default.

## 4. Runs

| Run | What it shows |
|---|---|
| `pool_alone` (pass) | Two callers, two hosts with 2 slots each, and 3 connection identities, with breaks and `Close` at any time. `SlotConservation` and `ExclusiveCheckout` hold, so a checkin can never block on a full channel. |
| `executor_safety` (pass) | Two callers, two hosts with 1 slot each, 3 connections, and 2 config writes (up to 3 pools). Loads may fail. The following hold: `SlotConservation` and `ExclusiveCheckout` across all generations; `RetireClosesAll` (a swap closes every connection of the retired pool, in use or not); and `ImplementsConfiguredExecutor` (the executor installs only a config the service held when it was loaded, and only when its hash differs from the active pool's, even with a write between the load and the switch). |
| `executor_termination` (pass) | `QueryTerminates`: every Query/Execute returns under fair scheduling, with 2 connections and 1 write. Without the timer, a caller starves. |
| `executor_leak` (violation) | `NoOrphanOpenConn` fails. A caller reads pool 1 and takes a nil token. A config write swaps in pool 2 and closes pool 1. The caller then dials: the new connection is tracked by retired pool 1 and is checked in there. Nothing closes it again. |
| `executor_missed_change` (violation) | `ConfigEventuallyApplied` fails even though loads never fail. A write lands after `init` loaded the config but before the watcher goroutine subscribed. The executor then stays on the old hash for good. |
| `session_safety` (pass) | Two callers, three writes over three configs, and up to three sessions, with loads and session creations that may fail. `LastHashIsLive` holds: `lastHash` is always the hash of the config the current session was built from. So a failed switch is never taken for an applied one. |
| `es_config_stale` (violation) | `EventuallyLoaded` fails. Setup's own load reads `cA`. A write to `cB` wakes the goroutine, which loads and installs `cB`'s hosts. Setup's load then calls `SetHosts` with `cA`'s hosts, and the library stays there after the last write. Deadlock checking is off: with the writes used up, the goroutine blocks in `<-ch` for good. |
| `keyspace_executors` (pass) | Three callers on two keyspaces, through `gocqlConnector` and then `init`, with loads that may fail. Two properties hold. `SingleExecutorPerKeyspace`: every executor created stays registered, and every caller holds its keyspace's registered executor. `OneWatcherPerKeyspace`: a keyspace never has more than one watcher goroutine, and a caller whose `init` succeeded queries through the registered executor, the one that is watched. Dropping either re-check starts a second watcher. |
| `auth_cache` (pass) | One session, 4 seconds in half-second ticks, and lost or late writes, failing Gets and undecodable tokens. `FetchHitIsCurrent` holds: Fetch reports the placeholder only within `invalidateTimeout` of the last applied write being an Invalidate, and a user only when that write is a Store. |
| `auth_cache_ttl` (violation) | `CachedTokenNotPastExpiry` fails. A user expiring 0.5 s after the Store gets `ttl` 0, which memcache never expires, so the token is still cached after the session ended. With only the 2.5 s expiry, where truncation alone is harmless, a Set that arrives one tick after its TTL was computed also breaks the property: the token is still live 0.5 s past the user's expiry. That second trace was checked once, with `MCExpiries` set to `{5}`; the `auth_cache_ttl` run does not check it. |
| `auth_cache_double` (violation) | `ImplementsTestCache` fails. Invalidate, then Store: memcache now holds the token, where the tests' `testCache` still reports the session as invalid. |
| `session_watcher_stuck` (violation) | `NotificationsHandled` fails, with loads that never fail. After the first failed `CreateSession`, the watcher blocks on its own `retryCh` send. Every later notification stays pending for good. |

Each property of a passing run has a mutant in `PROJECT.json`. A mutant is a
plausible bug written as an operator next to the one it replaces, and TLC
finds the property violated when the mutant is substituted:

| Mutant | Bug |
|---|---|
| `CheckNoRestore` | the token is dropped on a failed dial |
| `CheckRestoreAlways` | the token is put back unconditionally |
| `CheckinTwice` | the NewSession error path does not return |
| `ClosePoolQueuedOnly` | `Close` closes only the queued connections |
| `SwitchConfigNoHash` | `switchConfig` does not record the new hash |
| `WaitNoTimeout` | the select has no timer |
| `InitIgnoreCreateError` | `init` ignores the `switchConfig` error |
| `SwitchConfigHashFirst` | the hash is recorded before `CreateSession` |
| `GocqlConnectorReadNoOkCheck` | the lookup returns the map's zero value on a miss |
| `GocqlConnectorCreateNoRecheck` | the "Guard against race" re-check is dropped |
| `InitLockedNoRecheck` | `init`'s "Guard against race" re-check is dropped |
| `DoFetchErrorAsHit` | a Get error is returned with `cacheHit` true |
| `DoFetchDecodeAsInvalid` | an undecodable token is reported as known invalid |

### Bounds

- **Pool run.** With 2 slots, two callers can both hold a slot on one host,
  and the FIFO reuse of the channel can be seen.
- **Executor runs.** With 1 slot per host and two callers, the caller that
  loses waits or times out.
- **Connection identities.** Three identities allow a dial in each of two
  pools plus one redial after a break. Once they are used up, dials only
  fail, which the real system does too.
- **Config writes.** Two writes over three configs reach the following: a
  swap; a no-op write (`cA` to `cA2`); a swap back; and the missed write.
- **Registry and init.** Three callers on two keyspaces allow two first
  callers to race on one keyspace, in `gocqlConnector` and again in `init`,
  while a third caller uses the other keyspace. A load may fail, so a
  later caller must also do the `init`.
- **Auth cache.** One session suffices because every call touches one key.
  Half-second ticks make a sub-second remainder visible. The expiries 0.5 s,
  2.5 s and 4 s cover a TTL truncated to 0, a relative TTL, and (stored at 0,
  with the 30-day limit scaled to 3 s) a TTL beyond the relative limit. The
  placeholder's 2 s lifetime can run out within the 4 s clock.
  A Set delay of one tick (half a second) is enough. Truncation drops less
  than a second, so a delay as long as the dropped remainder already
  carries the expiry past `ExpiryTs`.
- **Symmetry.** Symmetry over callers and connections is used in the safety
  runs only.

### Fairness

Weak fairness applies to each caller's steps inside Query/Execute and to the
watcher's `Subscribe` and `Reload`. These are goroutines that the Go runtime
eventually schedules, and the timer always fires. Callers starting new calls
and writes to the config service get no fairness, because the application
and the operators need not do either.

`EsConfig` applies the same fairness to its two goroutines' load steps and
to the goroutine's receive. The application's `LoadConfig` call and the config
writes get none. The `keyspace_executors` and `auth_cache` runs check only safety and
need no fairness.

## 5. Not modelled, and why

- **Query result decoding, session construction and `singlePool`.** The
  session and the adapter add no state. The model only sees the checkout they
  wrap.
- **The epsilon-greedy scores.** They are probabilistic and covered by
  nondeterministic host choice.
- **Logging and instrumentation.**
- **DNS and the health checks.** They are stateless wrappers of one library
  call. `dns.Hosts` converts each address with `ip.String()` and sorts the
  strings. Its result depends only on the resolver's answer, and nothing in
  the repository keeps or compares it. A model of it would be a sort checked
  against itself.
- **Hazards with no property.** Seven hazards in `PROJECT.json` name no
  property:
  - `Size()` overcounting;
  - a failed config load with no retry;
  - a TTL beyond 30 days;
  - `Purge` of an absent key;
  - a legacy statement in flight when a reload closes its session;
  - the https protocol never reset;
  - a memcache Set whose answer was lost after it took effect.

  Spec section 4.4 allows the in-flight failure. `FetchHitIsCurrent` is
  stated over the writes the server applied, so a lost answer cannot break
  it. Each of the other hazards would need a violation run of its own, and
  each is either a single line that a unit test reaches or something no
  caller in the repository observes. Their notes say which.
- **The auth cache's instrumentation.** `instTiming` and the hit/miss
  counters have no effect on the cache.
- **Two divergences found while modelling, not given a run.** `Size()` counts
  connections the driver closed (spec 4.2 says dialed and not yet closed).
  `Purge` of an absent key returns `ErrCacheMiss`, though its comment calls
  that a success. Both are single lines that a unit test reaches, and they
  are listed as hazards in `PROJECT.json`.
- **A closed session left in place.** In the legacy executor, a failed
  `CreateSession` leaves `e.session` as the session `switchConfig` has just
  closed (spec 4.4 says the old one keeps serving). `GocqlSessionExecutor`
  models it, but it has no run of its own.
- **The protocol never reset.** `EsConfig` models `eapi.Protocol` being set
  to https for port 443 and never set back. `EventuallyLoaded` would catch
  it with a 443 config, but the `es_config_stale` run uses port-9200 configs
  so that its trace shows the load race. The hazard therefore names no
  property.
