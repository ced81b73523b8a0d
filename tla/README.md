# TLA+ models of the Open Location Hub

The hub takes in locations and proximities over REST, WebSocket and MQTT, keeps
the latest state in memory, derives fence events, motions and collisions, and
fans everything out to WebSocket and MQTT subscribers. This directory holds TLA+
models of its concurrent parts, TLC configurations that check them on small
instances, and TLAPS proofs of the main results for instances of every size.

Contents: [parts](#the-parts), [modules](#modules), [runs](#runs),
[deviations](#deviations-without-a-run), [proofs](#proofs),
[what is not modelled](#not-modelled), [running](#running-the-checks).
`PROJECT.json` maps every definition to the lines it models and lists runs,
mutants, findings, hazards and theorems.

## The parts

```
REST / WS / MQTT --> ingest --> dedup, latest state --> native queue --> 1 worker
                                                                           |
      fence events <-- 4 decision workers <-- sharded decision queue <-----+
           |                   |
           |                   +--> collision queue --> 1 worker --> collision events
           v                   v
                 EventBus --> one subscriber per publisher --> WS hub, MQTT
CRUD handlers --> Postgres, MetadataCache <-- reconcile loop
RPC over REST --> RPC bridge <--> MQTT devices
main: settings, hub identity, everything above, HTTP server, shutdown
```

| Part | Modules | What is hard about it |
|---|---|---|
| Event bus (`internal/hub/events.go`) | `EventBus` | two paths to one channel, a send outside the mutex, closing while a deliver is under way |
| Metadata cache and CRUD (`metadata_cache.go`, `service.go`) | `MetadataCache` | row and cache are written without a common lock; a reload is not a transaction |
| Ingest and queues (`service.go`, `processing_state.go`, `derived_processor.go`) | `Pipeline` | the dedup key comes before the queue, drops at the limit, batches that stop half-way, sharded workers |
| Geofence engine (`service.go`, `processing_state.go`) | `FenceMembership` | check-then-act over several critical sections, time, two coordinate spaces, several workers |
| Proximity resolution (`service.go`) | `Proximity`, `Expiry`, `Tracking` | read, resolve and store without a lock; grace, dwell and expiry against one another |
| Decision and collision stages (`kalman_decision.go`, `service.go`) | `Motions`, `Expiry`, `Tracking` | throttling, late points, debounce, pairs that expire, a queue that drops |
| WebSocket hub (`internal/ws/hub.go`) | `WsTopics`, `WsDelivery`, `WsConnection` | a second level of coalescing, three goroutines per connection, peers that vanish |
| RPC bridge and MQTT client (`internal/rpc`, `internal/mqtt/client.go`) | `MqttClient`, `RpcBridge` | late, repeated and missing answers, reconnects, the hub's own announcements coming back |
| REST handlers, authentication (`internal/httpapi`, `internal/auth`) | `RestRoutes`, `Authorization`, `RestApi` | handlers of several calls, a verifier refreshed while requests run, which rule decides |
| Process lifecycle, settings, hub identity (`cmd/hub/main.go`, `internal/config`, `internal/hubmeta`) | `HubConfig`, `HubMeta`, `Lifecycle` | eight ways to fail half-way, shutdown order, crashes, two processes on one database |

`Proofs` modules hold theorems, `MC` modules the constants
of the instances that TLC checks.

## Modules

Each component has a module with its state, one action per critical section or
blocking operation, and its properties. Where components meet, one of them is
open: anything may be emitted on the bus, any metadata may change under the
geofence engine, and any event may reach the WebSocket hub. Components that
share state are composed: `RpcBridge` runs on `MqttClient`'s connection,
`RestApi` on `RestRoutes` and `Authorization`, `Lifecycle` on `HubConfig` and
`HubMeta`, and `Tracking` puts `Proximity` and `Motions` under one clock and one
sweeper.

### EventBus

One subscriber with its channel, as seen by any number of emitting goroutines,
the flush loop and the consumer. `EmitBatch` walks over a copy of the
subscribers and no step of that walk blocks, so subscribers do not influence
each other and one is enough.

| Code | Model |
|---|---|
| `s.ch` | `sent` and `taken`: all that was ever put on the channel, and how much has been read |
| `s.pending`, `s.pendingOrder`, `s.flushSignal` | `pending`, `pendingOrder`, `flushSignal` |
| `deliver` | `DeliverCheck` (first critical section), the select's cases `SelectDone`, `SelectSend`, `SelectPanic`, `SelectDefault`, then `EnqueuePending`, `ClearPending`, `SignalFlush` |
| `flushLoop`, `flushPending` | `FlushWake`, `PeekPending`, `FlushSend`, `FlushReturn`, `RemovePending`, `FlushExit` |
| results of `deliver` | `accepted`, `dropped` |

An event is a coalescing key, its emitter and a sequence number; an event of a
discrete kind has the key `Discrete`. `Owners` says which goroutines emit a key.
A location key belongs to one stream and so to one worker; a motion key may be
shared, since decision work is sharded by provider and source.
`StreamOrder` is claimed for keys with a single emitter only: with two, one may
send a newer event directly while the flush loop holds an older one, which then
arrives last. A send on a closed channel is a case of the select like any other, and ends the
process.

### MetadataCache

Rows, snapshot, request handlers and the reconcile loop. A document is a model
value with the set of references (foreign ids, provider ids) that it names; its
signature is the document itself. A handler writes its row (`DbWrite`), the
cache (`CacheWrite`) and notifies (`Notify`), without a lock from one to the
next; it may be refused (`DbReject`), or fail although the statement took effect
(`DbUnacknowledged`). The loop lists one table per step (`LoadTable`), may fail
(`LoadFails`), replaces the snapshot (`Install`) and notifies one change at a
time. `OutOfBand` is another program writing to the database. `view` is a
subscriber that reads the resource on each notification. Ids of fences and
providers have no index besides their own and are `Others`; the fences' R-tree is
rebuilt as a whole on each change.

`ReadYourWrites` fails for two reasons. A reload that listed a table before a
write replaces the snapshot after it (`metadata_reload`), and two handlers may
write the cache in the other order than the row. In the first case the loop also
reports a resource that was just created as deleted. `Converges` says that the
next undisturbed reload repairs all of it.

### FenceMembership

One trackable, its fences, and the decision workers that receive its locations.
A location is a place and a route: the coordinate spaces in which
`processDerivedLocation` evaluates it, one call of `publishFenceEvents` for each.
Geometry is a table: `Distance[scope][place][fence]` is how far outside the
fence the point lies that the place has in that scope. Inside one call,
`FindCandidates` (index lookup, `now`), `ListInside` (`ListInsideFences`),
`LookUp` (active fences that are no candidates), and per fence `SetInside`,
`StayOutside`, `MissMembership` or `ReadMembership`, followed by
`WriteMembership`, `ClearInside` and `Emit`, are separate steps, as the mutex of
`ProcessingState` is released between them. `Policy` is the override chain fence,
provider, trackable; `ExitReady` is `exitReady`. The index returns the fences
whose bounding box has the point: all that contain it and any others.

`last` and `forgotten` record what was announced and whether a membership went
without an event since; `outSince`, `readySince` and `seen` record what the
evaluated locations said. They are history: no guard reads them.

An observation that is no finding: while an exit is pending, a location that
leaves the tolerance band clears `toleranceStartedAt` only in the worker's copy,
so a later return into the band counts from the old start. `ExitDebounced`
holds nevertheless, because it measures from the first location outside.

### Pipeline

The way of a location: a request brings a batch (`Post`), each location is
validated, deduplicated (`Deduplicate`), stored as its stream's and its
trackables' latest (`SetLatestLocation`, `SetTrackableLocations`) and submitted
to the native queue (`Record`, `Submit`), one access to the processing state per
step, but one for all trackables of a location. The native worker publishes it and hands it to the shard of its stream
(`TakeNative`, `ProcessNative`); a decision worker collects a batch until it is
full or the queue is empty (`Dequeue`, `CloseBatch`) and processes it. Full
queues drop and count. An item is a location with the request and the time it
was accepted at; hashes are constants that put two streams on different shards.

### Proximity, Motions, Tracking

`Proximity` is `locationFromProximity`: a call reads the clock and the zones, then
the tag's state, and stores the state it resolved, three steps between which
other calls of the tag run. The policy is the chain of defaults and zone
overrides; positions are points of a small grid. Zones are edited and deleted
meanwhile, which `Versions` lists.

`Motions` is the decision stage and the collision stage: a worker reads a
trackable's filter state (`Read`), renews samples and last decision
(`Normalized`), decides what is published (`Emits`) and stores the state
(`Write`); every point goes to the bounded collision queue (`Derive`), and the
collision worker compares a motion with the active ones and moves the pair's
state (`Collide`, `Evaluated`). An estimate is the measured point or the estimate
so far, whichever the filter comes to; distances are the relation "overlap,
corner, apart, remote" between places. `Expiry` is the processing state's rule
for entries with a deadline, on the clock of `Tracking`.

`Throttled` is claimed for trackables whose locations come in order and one by
one and whose filter state does not expire, and for an interval that is not
longer than the age window: a gap longer than the window resets the filter state,
and with it the time of the last publication.

### WsTopics, WsDelivery, WsConnection

`WsTopics` has the topics and what a filter selects. `WsDelivery` is the promise
to a client: a subscription receives no event twice, the discrete topics in the
order of emission, each batch in order; events may be missing. `WsConnection` is
the code: the consume loop with its batch and timer, the fan-out to a copy of the
subscriptions, `sendWrapper` with the buffer and the pending wrapper per
subscription, the write loop with its ticker, the read loop with subscribe,
unsubscribe and publish, and the teardown that either loop may begin. It is shown
to implement `WsDelivery` by the mapping of written wrappers to deliveries
(`DeliverySpec`). A write may hang for ever; the peer may vanish at any time.

### MqttClient, RpcBridge

`MqttClient` has the registrations (subscriptions and connect listeners) that are
written down first and carried out when the connection is up, and `OnConnect`,
which walks them on a goroutine of its own; the connection may be lost at any
time. `RpcBridge` has the registry of handlers per method, the calls, one step
for each of registration, publication, local execution, each response and the
return, and the announcement loop. The lookup of a request's targets and the
registration of the call (`Invoke`) are one step: what comes between them, a notice
or the end of another call, touches only one of the two tables. Handlers behind MQTT and the broker are
external: answers come late, twice, malformed or not at all, and the hub's own
retained announcements come back to it.

### RestRoutes, Authorization, RestApi

`RestRoutes` is the routing table of the generated server with the operation of
each route; `Authorization` is the permission registry as operators: patterns,
their score, the rule that decides, ownership, and what a role may do over RPC and
WebSocket. `RestApi` serves several requests at once: authentication with the
static and the OIDC authenticator, the refresh of a stale verifier (look, lock,
look again, fetch), authorisation, and the handler, step by step where it makes
more than one service call (bulk deletion, sensors of a provider). A service call
is one step: it changes a row (`rows`) and the metadata cache (`cache`), or its
database call fails, with or without effect, the cache stays behind and the
answer is a 500. Reads of metadata look at the cache, so a request may be told
what the table no longer holds; `Reconcile` brings the cache up to date.
`AnswersTruthful` says what can be said then: a success means that the row asked
for was changed and no other, an error below 500 that nothing was, and a 500
leaves it open.

### HubConfig, HubMeta, Lifecycle

`HubConfig` reads an environment: unset and malformed values become defaults, and
`Accepted` is the validation. Numbers are integers, so a `NaN`, which `ParseFloat`
accepts and the range checks let pass, is not among the values. `HubMeta` is
`hubmeta.Resolve` with a step for each database call, for any number of processes;
a call may fail, and a write may have its effect all the same. A configured
`HUB_ID` has a value and a written form (`canonical`), because it is compared as a
string. `Lifecycle` is `runWithRuntime`: fourteen steps in order (`Steps`), each of
which may fail, the deferred calls (`main.defers`) that unwind in reverse, the
publisher's goroutine and its channel, workers, server and requests, the stop
signal, and a crash at any point, after which the process starts again. Requests in
`Sockets` become WebSocket connections, which `Shutdown` no longer knows and does
not wait for. The connection pool is closed in two steps: `ClosePool` turns new
queries away (`cut`), `AwaitPool` goes on when no request and no reconciliation
holds a connection (`querying`, `workers`). The other processes appear through the
row they share.

## Runs

A run marked *violated* checks one statement of the documentation or tests that
the code does not keep, and TLC's counterexample is the finding in
`PROJECT.json`; in the others everything holds. Every property of a passing run
has a mutant, a plausible bug in one definition, that breaks it. A name followed
by others in brackets is their conjunction. Types, `PendingConsistent` and
`ReloadExact` are not part of a run: TLAPS proves them (below).

| Run | Instance | Result |
|---|---|---|
| `eventbus` | 2 emitters, one own and one shared key, discrete events, channel and pending list of size 1, 3 events | `StreamOrder`, `AcceptedKept` (`KeyNeverLost`, `DropsAccounted`), and with a fair scheduler `NobodyHeldUp` (`DeliverReturns`, `ChannelCloses`) |
| `eventbus_lost` | 1 emitter, 1 key | `NoSilentLoss` violated: `removePending` deletes a newer event |
| `metadata` | 2 handlers, 2 zones with a shared foreign id, 1 trackable of 2 providers, 2 tables, 2 writes | `IndexesAgree` (`ProviderIndexExact`, `ForeignIndexSound`), `NoSilentChange`, and with a fair loop `Converges` |
| `metadata_reload` | 1 handler, the loop | `ReadYourWrites` violated: a reload takes a write back |
| `fence` | 1 worker, 1 fence with tolerance 2, timeout 1, delay 2 (provider: 1), places inside, in the band, beyond and on another floor, TTL 3, time up to 5 | `AnnouncedState`, `EdgesAlternate`, `ExitDebounced` |
| `fence_workers` | 2 workers | `EdgesAlternate` violated: the same entry twice |
| `pipeline` | 2 requests of 2 locations, one of them invalid, 2 streams on 2 shards, queues of 1 slot, batches of 2 | `StoredAndAccounted` (`DropsAccounted`, `ReadableWhenQueued`), `DedupExact` (`NoDuplicateInFlight`, `SuppressedWasRecorded`), `StreamOrder`, `PipelineDrains` |
| `tracking` | 2 overlapping proximity calls of a tag among 4 zones, one of which is deleted or broken; or locations of 2 trackables with and without the filter, a collision queue of 1 slot; time up to 3 | `StickyBounded`, `DwellHonoured`, `Throttled`, `EveryPointDecides`, `PairEvents` (`PairStory`, `DebounceHonoured`) |
| `websocket` | buffer of 1, batches of 2, 2 events, 2 messages out of 5 (two topics, a refused token, unsubscribe, publish) | `LossAccounted` (`EdgesAccounted`, `NewestKept`), `DeliveredAsAsked`, `DeliverySpec`, `FanOutUnblocked`, `PendingFlushed`, `Reaped` |
| `rpc` | 2 calls out of 4 kinds, 1 external handler, 1 lost connection, 3 outside moves, 2 copies of an answer | `PendingExact`, `OwnResponses`, `RoutedRight` (`BuiltinsStayLocal`, `NotForwardedToItself`), `RegistrationsCarried`, `Answered`, `Relisted` |
| `rest` | any 2 of 24 requests, 4 tokens, 2 roles, 1 expiry of the verifier, 3 changes, 1 failing database call | `OnlyGranted`, `VerifierShared` (`OutageTolerated`, `OneRefreshPerExpiry`), `AnswersTruthful` (`StatusTruthful`, `BulkDeleteTruthful`), `NoRevival`, `Served` |
| `lifecycle` | 2 processes, 5 configurations, 2 starts, 1 request and 1 WebSocket connection, 2 events of one kind | `PublisherBeforeClose`, `CleanExit` (`GracefulExit`, `DrainedUnlessCancelled`), `RightIdentity` (`OneIdentity`, `ConfiguredIdentity`), `Exits` |

**Bounds.** A channel and a pending list of size one make both limits reachable
with two keys, and a third event overtakes or overwrites one that is pending,
peeked or sent; a larger buffer only delays that, and the proofs cover all sizes.
Two handlers and two writes cover every order of row, cache and notification
steps of two writers and of a writer against a reload; two tables cover a write
between them. The clock of the fence run goes past timeout plus delay and past
one expiry, so that a membership can expire, be entered again and be left;
fences do not interact but through the worker's list, which the proofs cover for
any number of them. In `pipeline` two requests repeat each other's locations and
the queues of one slot drop. In `tracking` the feeds do not meet (a location made
from a proximity takes the way of any other), three accepted proximities and a
clock of three let the state be confirmed, grow stale and expire, and with the
filter both kinds of locations are on one worker, so two workers on one trackable
are explored without it. Two WebSocket events fill buffer, batch and pending
wrapper of a connection; connections share only the dispatcher, which waits for
none of them. In `rpc` `Budget` bounds what devices and broker do of their own
accord. In `rest` two requests meet in every pair; a third would only queue for
the verifier's lock. Two starts are two processes at once, or one that starts
again after a crash or an exit; a restart beside another process takes three, which
the theorem about identities covers. Deadlock checking is off where a behaviour ends, that is when a bound is
used up or the process has stopped.

**Fairness.** Weak fairness of a goroutine's steps is what the Go scheduler gives
it while it can run; no module makes a client, a device, an emitter or the clock
act. `DeliverReturns` does not assume that anyone reads the channel, nor
`FanOutUnblocked` that a write to a socket ends; `PendingFlushed` excepts a write
that never does. `Answered` rests on the timer of a call, `Relisted` on the
announcement ticker, the broker delivering and paho reconnecting, `Served` on
issuer and database calls returning, with an error perhaps. `Exits` rests on main
and publisher running and on the database answering: `hub.New` loads its
metadata with a context that no signal cancels, and `pool.Close` waits for the
connections in use. Requests need not end otherwise, and no signal need come. For `Converges` handlers and the loop
run to their end, the ticker ticks, and the database does not fail at the same
table of every load: each table's `LoadTable` has strong fairness because a
failing query disables it again and again. `FenceMembership` and `Tracking` claim
no liveness: the code has no timer of its own there, and exits and ends are
driven by locations.

## Deviations without a run

These statements fail too. Their definitions are in the modules; with the
property in place of the one of the named configuration TLC shows the
counterexample.

- `NoSendOnClosedChannel` (`EventBus_lost.cfg`): after unsubscribe the flush
  loop closes `s.ch`, and a deliver that copied the subscriber before may choose
  the send (`events.go:313`), which panics.
- `PendingDrains` (`EventBus_lost.cfg` with `FairSpec`): the flush loop gives
  up on a full channel and only a later deliver wakes it (`events.go:381`), so
  the last coalesced event may stay although the consumer reads on.
- `ExitOnlyOutside` (`FenceMembership_workers.cfg` with one worker,
  `BothScopes`, `InWgs84`, `LocalThenWgs84` and `ScopeDistance`): an active WGS84
  fence is measured with local coordinates (`service.go:1954`).
- `KeptWhileSeen` (`FenceMembership_workers.cfg` with one worker, `FenceSettings`,
  `LocationTTL = 2`, `MaxTime = 4`): a pending exit does not renew the membership
  (`service.go:2001`), which expires while locations keep coming.
- `DrainedOnStop` (`Lifecycle.cfg`): `docs/configuration.md:8` says that shutdown
  lets "internal event-publisher fan-out ... complete deterministically after a
  stop signal"; `runEventPublisher` (`main.go:400`) may choose the cancelled context
  over the next event, and the process exits with success and events queued.
- `RefusedOnlyOnMismatch` (`Lifecycle.cfg`): a `HUB_ID` in another form that
  `uuid.Parse` accepts (`config.go:205`) is stored in canonical form and compared
  as it was written (`hubmeta.go:72`), so the next start with the same value fails.
- Read from the models, without a property: two calls under one client-supplied
  RPC caller id take each other's pending entry away (`PendingExact` is stated for
  the others); two concurrent `RESET_HUB_ID` starts that set different fields undo
  one another; `specifications/omlox/websocket.md:379` says that slow subscribers
  are disconnected, while the code drops and keeps the connection, as
  `docs/configuration.md:65` has it; a zone that loses its position makes every
  proximity of the tags in it fail until their state expires.

## Proofs

TLAPS checks these for all values of the constants that satisfy the named
assumptions of the modules (`EventBusAssumption`, `MetadataAssumption`,
`FenceAssumption`, `PipelineAssumption`, `RegistrationsAssumption`,
`RpcAssumption`, `RestAssumption`, `KindsAssumption`, `HubMetaAssumption`,
`LifecycleAssumption`, `WsAssumption`, `ProximityAssumption`,
`MotionsAssumption`). The assumptions are typing of the constants, positive
capacities, that a marker such as `NoEvent` or `None` is none of the values it
stands apart from, that the start-up code registers each filter and listener
once, that caller ids chosen by clients are not ids the bridge generates, that
the routes of a request to rows name a kind of the catalogue, that the process
`Lifecycle` describes is one of those that share the database, that each zone has
a first version and numbers as overrides, that a place overlaps itself and
relations between places are symmetric, and that the filter keeps two samples at
least, as the settings demand. The instances of
the runs satisfy them: TLC evaluates each one.

| Module | Theorem | Statement |
|---|---|---|
| `NotificationProofs` | `TypeCorrect` | `EventBus`: `Spec => []TypeOK`, with both capacities |
| | `PendingAgrees` | `Spec => []PendingConsistent` |
| | `StreamsOrdered` | `Spec => []StreamOrder` |
| | `AcceptedIsKept` | `Spec => []AcceptedKept` |
| | `MetadataTyped` | `MetadataCache`: `MetadataSpec => []MetadataTypeOK` |
| | `IndexesCorrect` | `MetadataSpec => []IndexesAgree` |
| | `ChangesNotified` | `MetadataSpec => []NoSilentChange` |
| | `ReloadCorrect` | `MetadataSpec => ReloadExact` |
| `FenceMembershipProofs` | `TypeCorrect` | `Spec => []TypeOK`, any number of workers |
| | `StateAnnounced` | one worker: `Spec => []AnnouncedState` |
| | `EntriesAndExitsAlternate` | one worker: `Spec => EdgesAlternate` |
| | `ExitsDebounced` | one worker: `Spec => ExitDebounced` |
| `PipelineProofs` | `PipelineInvariant` | `Spec => []Inv`, the inductive invariant |
| | `StoredIsAccounted` | `Spec => []StoredAndAccounted` |
| | `DedupIsExact` | `Spec => []DedupExact` |
| | `StreamsStayOrdered` | `Spec => StreamOrder` |
| `TrackingProofs` | `StickinessBounded` | `TrackingSpec => []StickyBounded` |
| | `DwellIsHonoured` | `TrackingSpec => DwellHonoured` |
| | `PointsDecide` | `TrackingSpec => []EveryPointDecides` |
| | `PublicationThrottled` | `TrackingSpec => Throttled` |
| | `PairEventsTold` | `TrackingSpec => PairEvents` |
| `WsConnectionProofs` | `WsInvariant` | `Spec => []Inv`, the inductive invariant |
| | `LossIsAccounted` | `Spec => []LossAccounted` |
| | `DeliveredIsAsked` | `Spec => []DeliveredAsAsked` |
| | `DeliveryRefined` | `Spec => DeliverySpec`: `WsConnection` implements `WsDelivery` |
| `RpcBridgeProofs` | `RegistrationsAreCarried` | `Spec => []RegistrationsCarried` |
| | `BridgeInvariant` | `Spec => []RpcInv`, the inductive invariant |
| | `PendingIsExact` | `Spec => []PendingExact` |
| | `ResponsesAreOwn` | `Spec => []OwnResponses` |
| | `RequestsAreRoutedRight` | `Spec => []RoutedRight` |
| `RestApiProofs` | `RestCorrect` | `Spec => []RestInv`, the inductive invariant |
| | `VerifierIsShared` | `Spec => []VerifierShared` |
| | `AnswersAreTruthful` | `Spec => []AnswersTruthful` |
| | `OnlyAllowedChange` | `Spec => []OnlyAllowed` |
| | `NothingRevived` | `Spec => NoRevival` |
| `LifecycleProofs` | `PublisherSafe` | `Spec => []PublisherBeforeClose` |
| | `ExitIsClean` | `Spec => []CleanExit` |
| | `MetaRefined` | `Spec => MetaSpec`: `Lifecycle` implements `HubMeta` |
| | `IdentityIsRight` | `Spec => []RightIdentity` |

*EventBus.* `PendingConsistent` is inductive with the types. `StreamOrder` is
not: it needs `KeyOrder(k)` for each key with a single emitter, which orders the
last event sent, the one the flush loop holds, the pending one and the one in
the emitter's hand, and says in which of the emitter's states each may exist.
`KeyNeverLost` rests on the fact that the flush loop removes a key only after
having sent an event of it, and `DropsAccounted` on the fact that an event in
hand is fresh: it was neither sent nor accepted nor dropped before. `IInv`
collects these, `Inductive` proves it.

*MetadataCache.* The index theorems need only a lemma per update operator: what
`ProviderUpsert` and `ForeignUpsert` do to an index that matches the documents.
`NoSilentChange` is strengthened by `ChangesOwned` (the loop owes notifications
only in its notify phase) and `ReloadExact` by `LoadedExact` (the tables listed
so far hold what the rows hold, unless a row changed since the load began).

*FenceMembership.* For one worker, `EdgeInv` adds to `AnnouncedState` what the
worker relies on from one critical section to the next: the fences it listed as
active were announced as entered and still are while it has them to do, the
other ones on its list were not or have been forgotten, the fence in hand is off
the list, and a fence about to be announced as left has no membership. The
sweeper and deletions only turn memberships into forgotten ones, which keeps all
of it. The hypothesis of a single worker is needed (`fence_workers`) and is more
than the code guarantees: it holds for trackables whose locations come from one
provider and source.

`ExitDebounced` needs the clocks as well. `DelayInv` says that what a membership
remembers of a fence, stored or in the worker's hands, is covered by the history:
`toleranceStartedAt` is not before the first location outside (`outSince`), the
pending exit not before the first one that called for it (`readySince`), and none
of them is later than the time the worker took for this call. An exit that is
about to be announced has then been called for during the whole delay.

*Pipeline.* None of the properties is inductive. `FlowInv` says that the items of
a request follow each other by number along their way (batch, queue, the native
worker's hand, native queue, the request's own hand) and that a shard holds only
its streams; `ItemsInv` that an item in flight was issued, is above what the
decision stage last got of its request and stream, which is `StreamOrder` one step
ahead, and is not above its stream's latest location. Since the order is strict,
no item is in two places, and a step that moves one leaves the cardinality in
`DropsAccounted` alone. `WindowInv` ties the dedup entries to the items: the entry
of a content outlasts the window of every item of it that was accepted, so a
second one is let in only when the windows are apart. `StepInv` has what a request
relies on between two of its critical sections.

*Tracking, proximities.* `StickyBounded` is made inductive by `StickyInv`: a
stored state, and one that a call is about to store, was confirmed no later than
the tag was heard near its zone, and a call that stores has compared that
confirmation with the grace of the zones it read. None of it is disturbed by
other calls, edits or the sweeper, so it holds for overlapping calls. The dwell
does not: `DwellInv` claims `QuietInv` only for tags whose calls never overlapped
and as long as no zone was edited. It says that the stored state is the one of
the last report or expired since, that a tag has one call at most, and that a call
about to report another zone has the cause the property asks for.

*Tracking, motions.* `PairInv` ties the state of a pair that is alive to its
latest event: a start or a colliding, with the same start and time. `PointInv`
says where the latest point of a trackable is: the last one for it in the queue,
else in the collision worker's hands, else the active motion; a dropped or deleted
one is exempt until the next. `ThrottleInv` is about trackables without
irregularity: at most one worker is busy with one, the filter state is not older
than the last publication and its last sample is the last decision,
and a point about to be published is an interval away from the last or has its
very time (a location may name a trackable twice). That a sample within the age
window survives the trimming rests on `trimKalmanSamples` finding the first one
that is young enough, for which a least number is taken (`LeastNumber`, from the
well-foundedness of the numbers).

*WsConnection.* `Inv` follows an event along its way: batch, the batch being sent,
the wrapper the dispatcher holds, the pending wrapper of the subscription, the
send buffer, the frame being written, the client. `SubsInv` says that the
subscriptions in use are among those that were made and allowed, `SoundInv` that a
wrapper on its way has events its subscription selects, in order, `OrderInv` that
on the way of a subscription no event occurs twice and, for a discrete topic, that
what is behind is newer, and that all of it is older than the batches to come.
With `EdgesAccounted`, which counts wrappers of discrete topics, and `NewestInv`,
which says where the newest wrapper of a hot topic is while the connection is
open, it is inductive. The proof of `DeliveryRefined` maps the write of a frame to
a delivery and every other step to a stutter or a new event or subscription.
Payloads are selections from a batch; what a selection contains, and in which
order, is proved by taking a first place where it would go wrong.

*RpcBridge.* `CallsInv` says that the id of a call is its own, its client's or
none, and that under its own it has only responses to itself; `SentInv` that a
request published under a call's id is that call's, wherever copies of its answers
are. With it `PendingExact` is inductive: a delete by caller id hits another call
only under a client's id. `RoutedRight` rests on `RegistryInv`: an external entry
stems from a notice of a handler behind MQTT, except the one the hub's own
announcement makes for a built-in, which is never a target. `MqttInv` says that
what start-up is done with was written down, and is carried out or refused once
`OnConnect` has run: what was skipped while the connection was down is what
`OnConnect` found written down.

*RestApi.* `CallsInv` ties the fields of a call to each other: what was changed to
the status and to the row that was asked for (`AskedFor`), and how far it got to
what the middleware allowed. `LockInv` says that
the lock is held by the request that fetches, that the verifier is stale then, and
that the fetches are the expiries less one while it is stale; only fetches that
succeed are counted, and while the issuer is down every request tries again.
`RowsInv` says that a
row listed by a bulk deletion is still to be deleted or is no longer what was
listed; rows are numbered by the change that wrote them, so one created again does
not count. `OnlyAllowed` is the protocol's half of `OnlyGranted`: whatever is
changed, the token was accepted and `Authorize` allowed the request.

*Lifecycle.* `PublisherBeforeClose` is not inductive: that the MQTT client is
open says nothing about the deferred calls to come. `RunInv` says that the
deferred calls still to run are an initial part of `Order`, as long as the
start-up step or the unwinding has made it, and that the publisher runs only
while the call that waits for it is among them; the client's `Close` was deferred
earlier, so it comes later. For the shared row, `MetaInv` says that the
identities taken since the last overwrite are the row's and that no older one
carries a newer count (`FromTheRow`), and that a row once written, or read to be
overwritten, is complete (`Written`), so it is not taken for a missing one. It is
proved for `HubMeta` alone (`MetaInvariant`), and `MetaRefined` carries it over:
every step of a process, a crash included, is a step of `MetaSpec` or leaves its
variables alone. `StopInv` says
that the pool is open and nothing is cut before the deferred calls, and that
success means that only WebSocket connections are left, and `DrainInv` that the event queue is empty when its reader has ended,
unless the stop signal ended it.

Only model-checked, and why:

- `NobodyHeldUp`, `Converges`, `PipelineDrains`, `FanOutUnblocked`,
  `PendingFlushed`, `Reaped`, `Answered`, `Relisted`, `Served`, `Exits`: liveness,
  for which the prover has no support.
- `OnlyGranted`: the rule that decides is found by sorting and scanning
  (`SortedRules`, `Best`), and what these compute for every registry is an
  induction over sequences. The protocol's half of it is proved
  (`OnlyAllowedChange`).

## Not modelled

- Numbers behind the decisions: fence and collision geometry, coordinate
  transforms (`transform`), the Kalman filter's arithmetic. They are floating
  point; the models take their verdicts as inputs (`Distance`, `Relation`,
  `Positions`). Caching a transform is a map behind one lock, without a step
  another goroutine could see half done.
- The database, its migrations and the generated queries: a row store whose calls
  may fail. Constraints appear where the code relies on them (a second insert of
  the `hub_metadata` row fails).
- Generated OpenAPI code but for its table of routes, request and response bodies,
  and their conversion: a request is its route, its token and whether its body is valid.
- Signatures of tokens and the discovery document: a token is accepted by one of
  the authenticators or by none.
- The wire formats of MQTT and WebSocket; a message is what the handler makes of it.
- Logging, telemetry and statistics, except for the drops themselves.
- The connectors and the demonstrations: separate programs that use the API.
- Errors of marshalling an event and of containment: regions are validated
  before a fence is stored, and one without a bounding box is never indexed.
- Changes of the exit policy while a location is evaluated; the policy is a
  constant.

## Running the checks

```
tlc -workers 2 -config EventBus.cfg MCEventBus
tlapm NotificationProofs.tla
```

Configuration `X.cfg` or `X_*.cfg` belongs to module `MCX`. The longest run takes
about three minutes on two cores, the proofs of a module fifteen at most.
