# TLA+ models of log-cache

This directory holds TLA+ models of the parts of log-cache (`src/`) that keep
state or coordinate concurrent actors. Each has TLC configurations that
check it. `PROJECT.json` lists:

- the components;
- the runs and their expected results;
- a mutant for every checked property;
- the map from every TLA+ definition to the source lines it translates;
- the findings;
- the hazards the code is exposed to.

## The system and how its parts interact

A log-cache node receives envelopes (logs, counters, gauges, timers, events)
from a nozzle. It keeps them in memory per source id and serves reads.

* **Store** (`src/unnamed/part_000`). Each source has an AVL tree keyed by
  timestamp. A second tree, `oldestValueTree`, files every source's tree under
  its oldest timestamp. `Put` inserts an envelope, evicts the source's oldest
  one once the source holds `maxPerSource`, and then calls `truncate`, which
  removes the globally oldest envelope once `count > size`. `Get` walks one
  tree in order. Every method holds the store's RWMutex for its whole body.
* **Routing** (`src/cmd/nozzle/main.go` `setupRouting`, and
  `src/unnamed/part_003`). For every entry of `nodeAddrs`, `setupRouting`
  appends to `ingressClients` either:
  - a `BatchedIngressClient` for a peer, or
  - an in-process shim that Puts into the local store.

  The ingress reverse proxy looks an envelope's source up in the routing table
  and hands it to `ingressClients[node]`. A peer client batches envelopes
  through a lossy diode and sends them with `LocalOnly = true`. The proxy, the
  routing table and the orchestrator are not under `src/`; spec 4.D, 4.F and
  4.H describe them.
* **Node assembly** (`src/cmd/nozzle/main.go` `New`, the `With*` options,
  `Start`, `Close`; `src/cmd/log-cache/main.go`). The `log-cache` main
  builds a cache with `New`, passing `WithAddr`, `WithClustered(NodeIndex,
  NodeAddrs, transport credentials)` and options that routing never reads.
  `Start` runs `setupRouting`. It listens, builds the clients, and starts a
  goroutine that registers the services and calls `Serve`. `Close` sets
  `closing` and then calls `GracefulStop`.
* **Group manager** (`src/internal/groups/manager.go`). It holds named groups
  of source ids and the requesters that read them. It tells its `DataStorage`
  which sources to fetch and which requesters share a group.
* **CAPI client** (`src/internal/auth/capi_client.go`). It is the CF auth
  proxy's authorizer. `IsAuthorized` caches Cloud Controller's positive
  answers per `token+sourceId`. A ticker goroutine prunes entries at least one
  interval old. `AvailableSourceIDs` and `GetRelatedSourceIds` list the
  apps and service instances a token sees, one page at a time, following
  Cloud Controller's `pagination.next.href`.
* **PromQL querier** (`src/internal/promql/promql.go`). `Select` reads one
  source's counters, gauges and timers, filters them by label matchers and
  metric name, and groups them into series keyed by `getSeriesID`. The
  Prometheus engine reads each series through a `concreteSeriesIterator`.
  Its `Next` steps one sample. Its `Seek(t)` binary-searches with
  `sort.Search` for the first sample at or after `t`.

## Modules

| Module | Models | State | Actions |
|---|---|---|---|
| `Store` | `Put`, `truncate`, `treeStorage` | `indexes` (source → key set), `oldestValueTree` (key → sequence of sources), `count`, `expired`, `ingress` | `Put` (the whole method, including its re-filing and `truncate`) |
| `StoreGet` | `Get`, `treeTraverse`, `checkEnvelopeType` | `tree` (shape and kinds), `query`, `result`, `egress` | `Get` |
| `GroupManager` | `AddToGroup`, `RemoveFromGroup`, `Read`, `Group` | `groups` (each list as a slice: `sourceIDs` and the `spare` rest of its backing array), `now`, the storage's sources and requesters, a pending Group response `groupResp` | one action per handler, `MarshalGroupResponse`, `Tick` |
| `BatchedIngressClient` | `Send`, the flusher loop `start`, `write` | `sent`, `pending`, `ring` (diode), `dropped`, `batch`, `fpc`, `inflight`, `peer`, `errored` | `Send`, `DiodeSet`, `FlusherNext`, `FlusherIdle`, `WriteDelivered`, `WriteLateError`, `WriteFailed` |
| `LossyLink` | nothing in the code: the abstract promise of a peer write path | `accepted`, `waiting`, `received` | `Accept` (possibly evicting one waiting envelope), `Pass(k)`, `Lose(k)` |
| `TokenCache` | `IsAuthorized`, `HasApp`/`HasService`, `pruneTokens` | `cache`, `now`, `nextTick`, `grants`, per-handler `req` | `IsAuthorizedLoad`, `IsAuthorizedCapi`, `PruneTokens`, `Tick`, `ChangeGrant` |
| `CapiListing` | `AvailableSourceIDs`, `GetRelatedSourceIds`, `sourceIDsForResourceType`, `doPaginatedResourceRequest`, `doResourceRequest` | Cloud Controller's `apps` and `services`, the `call` in progress, the last `result`, `changes` | `AvailableSourceIDs`, `GetRelatedSourceIds`, `DoResourceRequest` (one page), `ChangeCC` (the environment) |
| `PromQLSelect` | `Select`, `hasLabels`, `SanitizeMetricName`, `checkMapForSanitizedMetricName`, `getSeriesID`, `seriesSetBuilder.add`, `buildSeriesSet`, `concreteSeriesIterator` | `stored`, `query`, `result`, `iter` | `Select`, `NewIterator`, `IterNext`, `IterSeek` |
| `ClusterRouting` | `LoadConfig` of each process's environment (`Envs`), `New` and its options, `Start` and `setupRouting`, the serving goroutine, `Close`; the ingress proxy, `Lookup` and `SetRanges` from the spec | `table`, `clients`, `localIdx`, `inflight`, `stored`, `ingested`, `lost`, and per process `server`, `serve` (the goroutine), `closer` (Close's progress), `closing` | `Start`, `Serve`, `Close` (one statement a step), `Ingress`, `Deliver`, `Lose`, `SetRanges` |

`MC*.tla` modules give the constants their values: model values, strings
built as character sequences, and symmetry sets. The `*.cfg` files choose the
bounds and the properties.

### How the modules correspond to the code

* **One atomic step per handler.** Each handler that holds a mutex for its
  whole body is one action, whose guard comes from the handler's early
  returns. `Store!Put` includes everything Put does after the insert:
  - the count update (`CountAfterPut`);
  - the re-filing of the tree (`Refile`);
  - `truncate`, as the operator `Truncate` applied to a record of the
    store's fields.
* **Trees as key sets.** A store tree is its key set, because Put and truncate
  never read envelope payloads. `StoreGet` keeps the tree's shape instead, for
  every balanced search tree over up to four keys, because `treeTraverse`
  prunes by shape.
* **Calls that suspend.** `IsAuthorized` calls Cloud Controller without a
  lock, so it is split at that call into `IsAuthorizedLoad` and
  `IsAuthorizedCapi`. Other handlers and the pruner can run in between. A
  listing is split at every page request, so that Cloud Controller can
  change between pages.
* **The diode and the batcher.** These libraries (`go-diodes`,
  `go-batching`) are modelled by their effect:
  - a `Set` into a full diode overwrites the oldest unread envelope and
    reports it as dropped;
  - the batcher emits when it holds `size` envelopes or when its interval has
    passed (a free choice);
  - `Flush` writes a non-empty batch.

  `fpc` records whether the flusher is blocked in a `write` called from
  `Write` or from `Flush`.
* **Construction as data.** Each process's cache is `New` applied to the
  options `cmd/log-cache` passes (`MainOptions`), folded left as `New` does.
  The options are records. The ones routing never reads (logger, metrics,
  sizes, server options) leave the cache unchanged. `grpc.Dial` without
  `WithBlock` fails only when no transport security option is given, so a
  peer's dial result follows from `dialOpts`.
  `LoadConfig` is a function of a process's environment (a partial
  function from variable names): `ADDR` is required, `NODE_INDEX` and
  `NODE_ADDRS` fall back to the zero value, and a failed load makes `main`
  exit. `Fed` says which envelopes each process's nozzle sends it, and
  `Scheduled` which processes the scheduler's `SetRanges` calls reach.
* **Goroutines.** `Close` is split at its two statements, so the goroutine
  that calls `Serve` can run between them. An RPC into a process needs its
  server to be serving.
* **Slices with their backing arrays.** A group's source list is a Go slice.
  `sourceIDs` is what its length covers, and `spare` is the rest of its
  backing array. `append` fills `spare` in place, or moves to a new array of
  twice the capacity (`Grow`). Removing an id shifts the later ids down in
  the same array. `Group` returns the slice itself, so its response holds the
  array (`groupResp.array`). Writes into that array show in the response
  (`Written`) until the group moves to a new array or is deleted
  (`Abandoned`). gRPC marshals the response after the handler returns
  (`MarshalGroupResponse`).
* **Peer links in the cluster.** `ClusterRouting` does not include
  `BatchedIngressClient`. A request to a peer is an element of the set
  `inflight`, and `Deliver` or `Lose` takes it out in any order. That allows
  every behaviour of `LossyLink`, which keeps order, and `LinkRefined` shows
  that the batched client implements `LossyLink`. So what the cluster run
  shows holds with the real peer write path. The one difference is that a
  diode overwrite in the client is a `Lose` in the cluster.
* **Strings as sequences.** Strings are sequences of characters wherever a
  property depends on concatenation or sorting:
  - the CAPI cache key `clientToken + sourceId`;
  - PromQL series ids, tag keys and values;
  - sanitized metric names, where `StrLess` is Go's byte order, as
    `sort.Strings` uses it.

## Runs

| Run | Result | What it shows |
|---|---|---|
| `store_safety` | pass | The five properties below hold over any sequence of Puts. |
| `store_duplicate_timestamp` | violation of `NoSilentLoss` | A second envelope with the same timestamp for a source overwrites the first without being counted. |
| `store_get` | pass | `GetMatchesScan`: for every tree shape, range, type filter and limit, `Get` returns the first `limit` matches in order. |
| `groups_safety` | pass | The three properties below, plus `TypeOK`. |
| `groups_phantom_requester` | violation of `NoPhantomRequesters` | When a group is emptied and deleted, the storage keeps its requesters forever. |
| `ingress_client` | pass | The peer write path neither duplicates nor silently loses an envelope, preserves order, flags LocalOnly, and eventually empties. |
| `token_cache` | pass | `CachedYesRecent`: every yes in `tokenCache` is less than two intervals old, with two handlers, revocations, the pruner, and two (token, source) pairs that share a key. It does not say the yes was given to the pair that reads it; the key collision below shows that it need not be. |
| `groups_group_race` | violation of `GroupResponseIsSnapshot` | A `RemoveFromGroup` between `Group`'s return and the marshalling of its response makes the caller receive `[s2 s2]` for a group that was `[s1 s2]`. |
| `promql_select` | pass | `SelectReturnsMatchingSeries`: one series per tag set, holding exactly its samples. `SeekLandsOnFirstAtOrAfter`: right after `Seek(t)`, the iterator is at the first sample at or after `t`. |
| `promql_not_equal` | violation | The matcher `j!="a"` is applied as `j="a"`. |
| `capi_listing` | pass | `AvailableNilOrComplete` and `RelatedNilOrExact`: with page failures anywhere, a listing returns nil or exactly what Cloud Controller showed, provided it did not change during the call. |
| `cluster_routing` | pass | Four processes are built by `LoadConfig` and `cmd/log-cache`'s options: two cluster nodes, a standalone and one without `ADDR`. They start, serve, and one of them is closed, while the scheduler moves sources between the cluster's nodes. `StoredWhereOwned`, `CloseNeverFatal`, `StandaloneStoresLocally` and `LocalOnlyNeverForwards` hold. |

### The properties

**Store**
* `CountMatchesIndexes`: `count` equals the number of stored envelopes.
* `CapacityRespected`: no source holds more than `maxPerSource`, and `count`
  stays at most `size`.
* `OldestValueTreeCoherent`: every tree is filed exactly once, under its
  smallest key.
* `EvictsOldestFirst`: an action property. A Put that evicts removes the
  oldest envelope of the whole store, or the oldest of the source that hit its
  cap.

**Group manager**
* `StorageSourcesMatchGroups`: the storage's net Add/Remove count for each
  (group, source) equals the number of times the group lists the source.
  Duplicates are allowed.
* `TrackedRequestersKnown`: every requester a group tracks is known to the
  storage.
* `ReadExpiresStale`: a Read removes every requester whose last read is at
  least the timeout old.
* `GroupResponseIsSnapshot` (checked by `groups_group_race` only): the ids
  gRPC marshals for a Group response are the group's list at the call.

**Batched ingress client**
* `EveryEnvelopeAccountedOnce`: every envelope is in exactly one of these
  places:
  - the diode, the batch or the outstanding call;
  - received by the peer;
  - dropped;
  - in a call that failed before reaching the peer.

  A late error after delivery does not count twice.
* `PeerReceivesInOrderLocalOnly`: the peer receives envelopes in send order,
  each flagged LocalOnly.
* `LinkRefined`: a refinement. `BatchedIngressClient` implements
  `LossyLink`, the abstract lossy first-in first-out link. The instance maps
  the link's state as follows:
  - `accepted` is `sent`;
  - `waiting` is `inflight \o batch \o ring`, oldest first;
  - `received` is the envelopes the peer got.

  Every client step is then a link step:
  - a returning call passes or loses a prefix of what waits;
  - a diode overwrite is an `Accept` that evicts one waiting envelope;
  - everything else stutters.

  The link's weak fairness on `Leave` also checks that whatever waits
  eventually leaves the client.

**CAPI authorization cache**
* `CachedYesRecent`: every yes in `tokenCache` was stored less than two
  intervals ago. The pruner deletes an entry at the first tick at which it
  is a full interval old (`>=`, `capi_client.go:263`), whichever of two
  racing handlers stored it. So a revocation is honoured within two
  intervals.

**CAPI listings**
* `AvailableNilOrComplete`: if Cloud Controller did not change during the
  call, `AvailableSourceIDs` returns nil or every app guid and then every
  service instance guid, each exactly once, across all pages.
* `RelatedNilOrExact`: under the same condition, `GetRelatedSourceIds`
  returns an empty map or maps each asked name that has apps to all its
  guids, in order.

**Cluster routing**
* `StoredWhereOwned`: a node stores an envelope only if its own table assigns
  the source, at that moment, to the `NODE_INDEX` it was configured with.
* `StandaloneStoresLocally`: a process with `NODE_ADDRS` empty or of size 1
  (`config.go:34-39`) stores every envelope its nozzle sends it.
* `LocalOnlyNeverForwards`: an action property (spec 8.6). A step that takes
  no new envelope from the nozzle never adds a forwarded request.
* `CloseNeverFatal`: the serving goroutine calls `log.Fatalf` only when
  `Serve` fails on a cache that no `Close` has begun on. This holds whichever
  of `Close`'s two statements the goroutine runs between.

Every property of every passing run has a mutant in `PROJECT.json`. A mutant
is a plausible bug in the mapped code that TLC finds under the run's own
configuration. Examples:
- the count sizes subtracted the wrong way round;
- the per-source cap tested with `>`;
- `treeStorage.Put` replacing the slice instead of appending to it;
- re-filing only when the oldest key grew;
- the end test of `treeTraverse` moved after the callback;
- `s.Remove` called although the id was not found;
- the inverted or swapped `AddRequester` call;
- expiry at `>` instead of `>=`;
- an unbounded diode;
- a failed batch re-queued;
- forwarded requests not flagged LocalOnly;
- no idle `Flush`;
- an entry exactly one interval old kept by the pruner (`>` for `>=`);
- `AvailableSourceIDs` returning only the service instances' guids;
- `guidSets` overwritten instead of appended to;
- series ids without values;
- `Seek` searching for a sample strictly after `t`;
- `WithClustered` not setting the node index;
- `New` without the default `nodeAddrs` of `[addr]`;
- a proxy that ignores LocalOnly;
- `Close` calling `GracefulStop` before setting `closing`.

## Bounds and why they are enough

* **Store.**
  - Three sources (symmetric model values) and timestamps 1..4.
  - `size = 3` and `maxPerSource = 2`, so both caps are reached, alone and
    together.
  - Seven Puts, which is enough to fill the store, evict per source, evict
    globally and re-file after a late envelope.
  - `CHECK_DEADLOCK FALSE`: only the bound on Puts stops the system.
* **StoreGet.** Every balanced tree over any subset of four keys, with two
  envelope kinds. Range ends below, at, between and above the keys, and limits
  1 to 3, give both stop conditions of the walk. The `Egress` bound only
  limits run length.
* **GroupManager.**
  - Two groups, two sources and two requesters, all symmetric.
  - A timeout of 2 ticks with the clock up to 3, so a requester expires
    exactly at the timeout and after it.
  - A source list of up to 2 entries, so the same id can be listed twice.
    The backing array grows from capacity 1 to 2, so both a write in place
    and a move to a new array happen under a pending response.
  - `groups_safety` adds the constraint `GroupRespBeforeTick`: a pending
    Group response is explored only while the clock is at 0. Group and its
    marshalling change only `groupResp`, and no other action reads it, so
    every state of the other variables stays reachable.
* **BatchedIngressClient.**
  - A diode of 2 and batches of 2.
  - Up to 2 envelopes per Send and 4 in all, which is enough to overflow the
    diode while the flusher is blocked in a call.
  - Emission occurs by size, by interval and by the idle `Flush`.
  - `CHECK_DEADLOCK FALSE`: the bound on sends ends the run with the flusher
    idle.
* **TokenCache.**
  - Two concurrent handlers (symmetric), tokens `a` and `ab`, and sources
    `bc` and `c`, so two pairs share the key `abc`.
  - An interval of 2 ticks and a clock up to 6, which is three prune ticks.
  - Grants change at any time.
* **PromQLSelect.**
  - Five envelopes: counters, a gauge whose keys sanitize to the same name,
    and a timer, with a key containing `.`. Two counters share a series, so
    a series can hold two samples (t = 0 and t = 4 with an interval of 2).
    Every subset of them is stored. The log envelope was left out to keep the
    run within its time limit. Logs are excluded by the Read contract
    itself.
  - `Seek` is called with 1, which falls between samples, and with 4, an
    exact hit. A new `Select` starts from no iterator, since the engine
    reads a new series set through new iterators.
  - Queries with and without `source_id`, every subset of equality matchers,
    and two windows.
* **CapiListing.**
  - Three apps, two of them named alike, and two service instances.
  - One resource a page, so the apps take up to three pages.
  - Any page may fail.
  - Up to two Cloud Controller changes, which can fall between two pages of
    one call.
* **ClusterRouting.**
  - Four processes. Processes 0 and 1 form a cluster (`NODE_INDEX` n,
    both addresses). Process 2 is a standalone with only `ADDR`. Process 3
    has no `ADDR`, so `LoadConfig` fails and it exits. Two cluster nodes
    are enough for a missing client to shift node 1's index; a third made
    the run take more than half an hour.
  - Three sources and four envelopes. The nozzle of the cluster sends `e1`
    to `e3` to both of its nodes; the standalone's nozzle sends it `e4`.
    Each envelope enters once.
  - Every node starts from the spec's default table, which gives every
    source to itself. The scheduler installs two assignments, the second
    swapping the owners, on each cluster node independently
    (`Scheduled = {0, 1}`): the scheduler calls only its own cluster.
  - `Start` may fail to listen. Process 0 is closed (`Closed = {0}`). The
    `log-cache` mains never call `Close`, and closing one process covers
    every order of `Close`'s statements against its serving goroutine.
  - `CHECK_DEADLOCK FALSE`: once every envelope has been handled, nothing is
    left to do.

## Fairness

Only `BatchedIngressClient` checks liveness, through the fairness of
`LossyLink` that `LinkRefined` includes. Its fairness is weak fairness of
`DiodeSet`, of the flusher's steps and of `write`'s return:
- the flusher is a dedicated goroutine that never blocks except in `write`;
- `write` has a 3 s deadline;
- a `Send` in progress finishes its loop of `Set`s.

Clients are not required to send.

## Findings

* **`part_000:93`.** Two envelopes of one source with the same timestamp: the
  later one overwrites the earlier, and the loss is counted nowhere. Spec 3
  and 8.3 say the key is incremented until it is free.
* **`manager.go:105`.** `RemoveFromGroup` deletes an emptied group with its
  requesters without calling `RemoveRequester`.
* **`manager.go:171`.** `Group` returns the group's own slice and releases
  its read lock. `RemoveFromGroup` shifts the same backing array in place
  before gRPC marshals the response. A group `[s1 s2]` read by `Group` and
  then stripped of `s1` is sent as `[s2 s2]`. Under the Go memory model this
  is also a data race.
* **`promql.go:330`.** Matcher types are dropped: `!=` and regex matchers act
  as `=`.

Seven more disagreements are recorded as hazards rather than runs:

* **Cache key collision (`capi_client.go:69/75`).** The cache key has no
  separator, so (token `"a"`, source `"bc"`) and (token `"ab"`, source
  `"c"`) share an entry: once the first pair is granted, `IsAuthorized` for
  the second answers yes from the cache. The `token_cache` run has such
  tokens and sources, and its age bound holds there; that the yes belongs
  to the pair that reads it would need a violation run of its own. It needs
  a token that is another token followed by a prefix of a source id.

* **Series id collision (`promql.go:567`).** Series ids are unescaped
  concatenations, so `{i:"a-j-b"}` and `{i:"a", j:"b"}` share the id
  `-i-a-j-b`. Checking `PromQLSelect` with `MCDashEnvelopes` as its envelopes
  violates `SelectReturnsMatchingSeries`.
* **Paging during changes (`capi_client.go:198`).** Cloud Controller pages
  by page number. An app created between two pages shifts the later pages, so
  `AvailableSourceIDs` can return a guid twice, or skip one that was visible
  throughout the call. `CapiListing` shows the duplicate when its properties
  drop the condition that Cloud Controller did not change.

The other four come from the routing and assembly model:

* **Dial failure (`main.go:290-294`).** If `grpc.Dial` fails for a peer,
  `setupRouting` skips it without a placeholder. `ingressClients` (and
  `egressClients`) then no longer line up with node indexes. `cmd/log-cache`
  always passes transport credentials, so its dials do not fail. A caller of
  `WithClustered` who passes no `DialOption` fails every dial alike. With
  `MainOptions` changed to pass none, TLC finds this trace:
  1. Node 1's clients are `<<local>>`.
  2. A `SetRanges` gives `e1`'s source to node 0, which is index 0.
  3. Node 1 stores `e1` in its own store.
* **Standalone with a node index (`main.go:140`).** `config.go` says a node
  with `NODE_ADDRS` empty or of size 1 routes nothing. With `NODE_INDEX = 1`,
  `New` puts the node's own address at index 0. `setupRouting` dials it as a
  peer, and `localIdx` stays 0. So every envelope the table gives index 0
  is forwarded to the node itself with LocalOnly, and its proxy forwards it again, without end. In
  the model the re-sent request equals the delivered one, so the loop is a
  stuttering `Deliver`. `StandaloneStoresLocally` states what `config.go`
  promises. The run's standalone leaves `NODE_INDEX` unset, as deployments
  do, and passes; with `NODE_INDEX = 1` the property fails, because the
  envelope never reaches a store.
* **Close leaves the flushers running (`main.go:252`).** Spec 4.I says
  shutdown stops the flushers, then the server. `Close` stops only the
  server. Each peer's `BatchedIngressClient` goroutine keeps polling its
  diode and sending to its peer.
* **Rebalance drop (spec 4.F).** A request forwarded under the old table can
  reach a node that no longer owns the source, which drops it. The spec says
  the owner "will receive its own copy from the original sender", but the
  sender forwarded the only copy.

## Not modelled

* **Not kept in the models.**
  - The `CachePeriod` gauge (wall clock, report only).
  - Latency metrics and logging.
  - `convertEnvelopeType` (a type mapping).
  - HTTP response bodies. `HasApp` and `HasService` return true on a 200
    without closing the body (`capi_client.go:93`), so each authorizing
    cache miss leaves a body and its connection open. `TokenCache` keeps
    only the answer, which is all the cache depends on.
* **Not under `src/`.** The groups `DataStorage` is modelled only by the calls
  it receives.
* **Diode with several writers.** A OneToOne diode assumes a single writer,
  but concurrent handlers call `Send` on one client. The model serialises
  `Send`, because the diode's internals are a library.
* **`TokenCacheSize`.** It is a read-only count of the cache entries.
* **The PromQL engine.** `Parse`, `InstantQuery`, `RangeQuery` and the result
  conversions are format conversion around the Prometheus engine.
* **Egress routing.** The egress reverse proxy and the Read handler it
  forwards to are not under `src/`. Only the `egressClients` slice that
  `setupRouting` builds is, and it follows `ingressClients` index for index.
  A Read can bounce between two nodes whose tables disagree
  (`main.go:321`); this is recorded as a hazard.
* **Process start-up around the cache.** These have no state machine of
  their own:
  - the CF auth proxy (`NewCFAuthProxy`, its options, `Start`, and the
    reverse proxy's transport);
  - TLS set-up;
  - loading the environment into `Config`, and the health endpoints;
  - the gateway, nozzle and `logcache` mains.
