# A TLA+ model of modelsrv

modelsrv keeps a model of an IT landscape in memory, serves it over HTTP, derives
findings from it, and replicates every change to other servers. This directory holds
TLA+ modules for the parts of it in which ordering, concurrency and failure matter, TLC
configurations that check them on small instances, and proofs of what holds for every
instance. All paths below are relative to the repository.

## 1. Inventory

| Component | State | Operations | Talks to |
|---|---|---|---|
| Event manager: store (`internal/events/latest_state.go`, `history_ring.go`, `recording_sink.go`, `manager.go`) | latest event per live resource and the order they appeared in; a ring of recent events with the sequence id of the last one evicted; the sequence counter; all under one mutex | record an event, query the history | is the sink of the filter chain; answers `GET /events/history` |
| Event manager: delivery (`notify.go`, `subscriber.go`, `manager.go`) | the notifiers; per notifier a bounded queue, a resync flag, a stop channel, a goroutine with retry timers | subscribe (with replay), unsubscribe, enqueue, deliver with retries, resync | `POST /events/push` of other servers |
| Model store (`pkg/model`) | a map per resource kind, an index of findings by cited resource, an index of capacities; one mutex | add, delete, get, list, apply a replicated event; setters of registered objects | sends an event per change through the filter chain, after it released the mutex |
| Filter chain (`pkg/eventfilter`) | the filters and the model they are given | register, unregister, apply | calls the filters, which call the model |
| Phase-0 filter (`pkg/eventfilter/phase0`) | none of its own | checks references of Contexts and Nodes on events | adds and deletes findings in the model |
| Resolve-findings filter (`pkg/eventfilter/resolvefindings`) | none of its own; works from the model's index of findings by cited resource | deletes findings that an event made obsolete | looks up and deletes findings in the model |
| Replication (`internal/oapi/server_events.go`, `pkg/model/event_apply.go`) | that of model and event manager | apply a pushed event, which records it and forwards it | other servers |
| Backend (`pkg/backend`) | wiring | | model, chain, event manager |
| HTTP API and client (`internal/oapi`, `pkg/endpoint`, `pkg/client`) | none | one handler per resource operation, subscription, push, history | model, event manager |
| File sensor and ingress (`pkg/filesensor`, `pkg/ingress`) | tokens of files seen, debounce timers, a bounded channel of changes | apply, poll, watch | model |
| OTel configuration sync (`pkg/endpointprobe/otelconfigwriter.go`) | registry of targets, dirty flag, a channel for one request, debounce timer, wait group | upsert, remove, notify, flush, run, wait | is fed by a filter, writes a file |
| Server process (`cmd/modelsrv/server.go`) | the context, the signal | start and stop the sensor and the configuration sync | all |
| Certificate findings (`pkg/endpointprobe`) | none | reconcile findings after a probe | model; not wired into the server |
| Authorization (`pkg/authz`) | none | evaluate rules for a principal | HTTP API |
| Circular queue, event forwarder (`internal/util`, `internal/event_forwarder`) | a ring | enqueue, dequeue, push back, peek | unused by the server |
| Metrics, `emelandctl`, code generator | | | |

What is hard in it:

* A change of the model, the event about it and the hand-out of the event to the
  subscribers are three steps under different locks or none. Goroutines of HTTP
  handlers, of file sensors and of replication interleave between them.
* Filters run inside a mutation and mutate the model themselves, so events nest.
* Delivery is bounded: queues overflow, attempts are used up, replies are lost, and a
  resync from the latest state is to make up for all of it, while new events arrive.
* The history is bounded: queries combine a ring that forgets with the latest state.
* A filter looks findings up, judges them and deletes them under the mutex one call at a
  time, while others replace them.
* Files are listed, read and applied at different times, with timers and a channel that
  is closed between the watch and the model.
* The configuration file is written outside the mutex, after a debounce, with failures,
  while the server may be told to stop.

What makes each component correct, in one line each: the store's two halves agree and
queries reconstruct the state; delivery is ordered and complete, or converges after a
loss, and stalls nobody; the findings say what is the case and no more; the event
manager's idea of the model is the model; every finding an event makes obsolete is
found and deleted; no two Capacities have one tuple; a chain of servers converges; the sensor applies every change; the
configuration file follows the registry, also at shutdown.

## 2. Modules

| Module | Models | Notes |
|---|---|---|
| `LatestState` | `latestStateStore`, and what a consumer does with an event | values and operators, shared by the modules below |
| `HistoryRing` | `historyRing` | a ring is a record, indexed from 0 as in the code |
| `BoundedLog` | nothing: what the ring promises | abstract specification |
| `EventStore` | `recordingSink.Receive` under the mutex, `IncrementSequenceId`, `QueryEvents` | one action per operation; queries are operators |
| `HistoryClient` | `EventStore` and a client that pages through the history | the client is external, modelled from `pkg/events/history.go` |
| `EventManager` | writers, `AddSubscriber`, `RemoveSubscriber`, `enqueue`, `run`, `deliver`, `deliverSnapshot` | see below |
| `LateDelivery` | `EventManager` with requests that outlive their deadline | |
| `OrderedFeed` | nothing: what a subscriber is promised | abstract specification |
| `ReliableDelivery` | the refinement mapping from `EventManager` to `OrderedFeed` | and the conditions under which it is one: `OneHandOut`, `NothingDropped` |
| `Replication` | servers, each with model and latest state, that push what they record to those who subscribed | a subscription is an `OrderedFeed` |
| `Landscape` | model store, chain and phase-0 filter for Contexts, Nodes, their types and findings | see below |
| `Capacities` | the Capacities of the model store, the index of their tuples, their events, and a subscriber that is sent the latest state | see below |
| `ResolveFindings` | the findings index and the resolve-findings filter | see below |
| `ConfigSync` | `ConfigWriter` with the filter that feeds it, the chain's registration, the server's start and stop | see below |
| `FileSensor` | `ApplySource`, `runPoll`, `runWatch`, `LocalSource.Watch`, the server's start and stop | see below |
| `StoreLemmas` | lemmas about the order of live resources, and about what events do to a copy of the state | for `EventStoreProofs`, `EventManagerProofs` and `ReplicationProofs` |
| `EventStoreProofs` | proofs about `EventStore` | see section 5 |
| `EventManagerProofs` | proofs about `EventManager` and its refinement of `OrderedFeed` | |
| `ReplicationProofs`, `LandscapeProofs`, `CapacitiesProofs`, `ResolveFindingsProofs`, `ServerProofs` (`ConfigSync`, `FileSensor`) | proofs about these modules | |
| `MC*` | instances for TLC | `ConfigSync`, `Capacities`, `EventManager` and `LateDelivery` are run as they are, with the constants of the configuration |

**EventStore.** `latest`, `ring` and `sequenceNumber` are the fields of `eventManager`.
A resource key stands for the pair (type, id), a payload for `Objects`. `Record` is
possible for any event in any state: nothing upstream keeps a `Delete` of an unknown
resource from the sink (and `Landscape` shows how odd orders come about). Timestamps are
left out, because only sequence ids are compared; so is `IncludePayload`. A stored
payload is the value it had when it was recorded. In the code it is a pointer to an
object; the server makes a new object for every change, so the two agree.

**EventManager.** A writer's `Record` is what happens under the mutex; then it hands the
event to the notifiers it copied, one at a time (`Enqueue`), and if it finds a queue full
it sets the flag in a step of its own (`FlagOverflow`), as `select` and `Store` are. A
notifier's goroutine is a program counter (`phase`) with the batch it is delivering and
the number of the attempt. `DeliverOk` and `DeliverFail` are one attempt each; in
`DeliverFail` the request may have been applied and the reply lost. Backing off takes no
step of its own, but `AbandonDelivery` is what happens if the stop channel closes
meanwhile. `RetryResync` is the timer `notifyResyncDelay`. An event's payload is its
number in the recording order, which makes staleness visible. `newest` and `asOf` are
history variables.

**LateDelivery.** `notifyAttemptTimeout` ends the wait for a reply, not the request:
`TimeOut` leaves it under way, `ArriveLate` applies it.

**Landscape.** A goroutine's remaining work is a stack of tasks; a step does the topmost
up to the next time it takes the model's mutex. A mutation pushes `filter` and `record`
for its event; `filter` pushes the checks the phase-0 filter makes for it; a check ends in
`upsert` or `remove`, which are mutations and push their own. Objects are values: the
server and its sensors build a new object for every change and add it. The setters of
registered objects, which send events too, are used by the library's tests only, and are
not modelled. Contexts and Nodes are both `subjects`, their types are `types`: ids are
UUIDs, so the maps of the two kinds may be one. A Node that is pushed by an upstream
(`PushNode`) gets the type embedded that is there when it is decoded, and is added in a
step of its own. `ReconcileAll` is what the server calls when its file sensors have
applied their sources. What a finding says is its subject and its kind. The phase-0 filter
derives the id of a finding from the two (`findingID`), so such an id is the pair itself; a
finding from outside brings an id along (`FindingFromDto`), which is any of `FindingId`. The
filter that clears one up deletes what has the derived id (`Recheck`, `RemoveFinding`).

**Capacities.** `model` has what `AddCapacity` looks at: which Contexts and resource types
are there, the Capacities by id, and the index by tuple. A Capacity is its tuple; amounts
and names are not distinguished. `AddCapacity` goes through `FindType`, `FindContext` and
`Refuse` or `Register`, each under the mutex on its own, then `Record`. `Listed` is a new
subscriber that applied the listing of the latest state as `modelData.Apply` does, up to
the first event it refuses. `orderly` is a history variable: so far calls did not overlap,
no Context or resource type was deleted, and no Capacity moved to another tuple.

**Replication.** The module stands on what the event manager was shown to be: each link
of `Link` is a listing of the upstream's latest state, then its events in order, each once
or more often (`OrderedFeed`, which `EventManager` implements, by `FeedRefined` of
section 5). A server changes its model (`ChangeModel`) and records the change in a step of
its own (`Recorded`), because the model's mutex is released in between; a push is answered,
and taken off the link, when what it changed is recorded. A replicated `Delete` of an
unknown resource is not an error and no event (`Ignore`).

**ResolveFindings.** `findings` and `index` are `findingsByUUID` and
`findingsByResourceID`. A goroutine that added or changed a resource goes through
`resolveAgainstEvent`: `Lookup` takes the candidates as they are at that moment, `Judge`
looks at one of them and at the resource, `Delete` deletes by id. Each takes the mutex on
its own. A finding is a kind, a subject and the set of resources that were found missing;
the kinds that the code treats alike are one. The order of the candidates is that of a Go
map, so it is arbitrary. `known` is a history variable: the resource was there before the
finding was added, and the filter does not look at findings when they arrive.

**ConfigSync.** An ApiInstance is its endpoint annotation. Any goroutine changes any, sends
the event, has the chain copy its filters, updates the registry and asks for a flush, each
a step (`Change`, `CopyFilters`, `UpdateRegistry`, `Notify`). The writer's goroutine is
`phase`; a flush is two steps, the copy under the mutex and the write, which may fail. The
main goroutine starts both, and at the signal cancels, unregisters the filter and waits;
`go configWriter.Run` is scheduled at any time, also after that. `kept` is a history
variable: the registries there were since the server was told to stop. `crossed` is another:
the instances whose last change was made while another goroutine's event about the same
instance was on its way. A restart is an
initial state with any file.

**FileSensor.** A source is watched, polled, or neither, in which case it is applied once.
A file is the number of its last write, a token is a function of the write. A pass is `List`, which fixes the files and their tokens, and a step per file, which
reads it as it is by then. A timer is in the map, or an orphan (a callback has taken its
entry out of the map); a callback is about to take an entry out or to send. `passedOver` is
a history variable: the write that was passed over without being applied. There are four
ways: reading or parsing it failed (a file is not tried again until it changes); the first
pass of a poll only records tokens; it came between startup's pass and the watch; its
notification was lost, because the queue of fsnotify overflowed, which `source_local.go:127`
takes note of by dropping the error (`Overflow`). `SeenIsApplied`, `ChangeIsComing` and
`SensorCatchesUp` except these writes and no others, so none of the three says anything
against the four ways themselves. `AddWatch` may fail; the source is then `idle`, as one is
that is neither watched nor polled, and `SensorCatchesUp` is about sources that are not. The HTTP and S3 sources are polled as this one is;
a source without tokens is the mode `pollBlind`.

Names of the form `FirstPayload`, marked "Seeded fault" in the modules, are faulty
variants of the definition that follows them. They are used by no specification; each
shows that the property it is paired with in `PROJECT.json` would notice such a bug.

## 3. Runs

Runs that pass:

| Configuration | Checks | Shows |
|---|---|---|
| `MCHistoryClient` | `StoreTypeOK` `OrderInv` `TailDecides` `TailOrdered` `FullReplay` `PagesDoNotSkip` `PagingReconstructs` `OutrunKeepsLive` `LogRefinement` `PagingEnds` | store and ring agree under any sequence of events; a full query reconstructs the state, with and without a resource filter; no page skips an entry; the ring implements `BoundedLog`; what a client gets that pages while events are recorded and evicted, and that it catches up when the model is left alone |
| `MCReliableDelivery` | `QueueFollowsSnapshot` `DeliveredInOrder` `FeedRefinement` | in the behaviours in which nothing is dropped and no two goroutines hand out events at the same time, each URL registered once, delivery is an ordered feed: replay first, nothing skipped, repeats back to back only |
| `MCEventManagerLossy` | `ManagerTypeOK` `QuietCoversLive` | after any losses, once nothing is on its way, the subscriber has every live resource up to date |
| `MCEventManagerLive` | `WritersNotStalled` `ReachableCovered` `StoppedExits` | a dead subscriber hinders nobody and can be unsubscribed |
| `MCReplication` | `UpstreamIsAhead` `Converges` | a server with one upstream is a past of it; servers converge, also one that is reached on two ways and gets everything twice |
| `MCLandscapeAlone` | `LandscapeTypeOK` `FindingsExact` `StoredIsModel` `CallsReturn` | calls one after the other leave exactly the right findings and events, and return: the recursion through the filter ends |
| `MCLandscapeShared` | `NoFalseFinding` | concurrent calls leave no false accusation under a derived id |
| `MCCapacities` | `TupleIndexExact` `OrderlyListingAccepted` `TupleKeyedUpsert` | the index has exactly the registered tuples; a Capacity is refused for its tuple exactly if another one has it; the order of the latest state makes a listing acceptable, as long as the history is `orderly` |
| `MCResolveFindings` | `IndexExact` `ResolutionIsComing` | the index is exact while findings are replaced; no finding that a resource made obsolete is missed by all goroutines |
| `MCConfigSync` | `CleanIsWritten` `FlushIsComing` `RegistryFollowsModel` `LastFlushKeepsChanges` `FileCatchesUp` | nothing is taken for written that is not; no request for a flush is lost; the registry follows the model, but for instances in `crossed`, and a change that crosses no other repairs these; the last flush keeps what was there when the server was stopped; the file catches up once changes cease |
| `MCFileSensor` | `SensorTypeOK` `SeenIsApplied` `ChangeIsComing` `SensorCatchesUp` `NobodyLeftSending` | a token that was seen stands for a file that was applied; a watched change is on its way; the model catches up with a source that is polled or watched; all but for what was `passedOver`; no callback stays behind |

The type invariants of `ConfigSync`, `ResolveFindings` and `Capacities` are in no run, since
they are proved, for any constants (section 5).

One run shows where the code and its comments disagree; it finds a counterexample, and is
listed under `runs` and `findings` in `PROJECT.json`:

| Configuration | Violates | What happens |
|---|---|---|
| `MCReplayFails` | `ResyncBegins` | the replay gives up, the flag is set, and nothing wakes the goroutine |

More configurations find counterexamples, to the same properties or to what a comment
says. They are not part of the runs; they are kept because each is an interleaving that
a fix has to cover, or a limit of a property that holds:

| Configuration | Violates | What happens |
|---|---|---|
| `MCTwoWriters` | `DeliveredInOrder` | the hand-out is outside the mutex: two writers reach a queue in the opposite order; `notify.go:27` says "they arrive in the order the model produced them" |
| `MCResyncKeepsDeleted` | `QuietExact` | a resync sends Creates only, so a resource whose `Delete` was dropped stays; `notify.go:13` says a resync "converges the subscriber on current state" |
| `MCForeignFinding` | `PhaseZeroNegates` | a finding of a kind of phase 0 arrives under an id that is not the derived one and accuses a Context that is in order: phase 0 notices, deletes what has the derived id, and the finding stays; the filter that resolves findings skips the kind, because "those remain under [phase0] negation" (`resolvefindings.go:11`, `docs/findings.md:178-180`) |
| `MCTwoOnOneInstance` | `RegistryInSync` | two goroutines change an ApiInstance, and the event of the older change reaches the filter last: the configuration keeps the older endpoint; `watcher.go:10-11` says the filter "keeps an OTel collector config in sync with ApiInstance endpoint annotations" |
| `MCRejected` | `AcceptedGetThrough` | one resource the subscriber rejects keeps all that come after it from it |
| `MCLateRequest` | `DeliveredInOrder` | a timed-out request arrives after a later event (module `LateDelivery`) |
| `MCPhantomFinding` | `StoredIsModel` | the `Delete` of a finding is recorded before its `Create`, so subscribers get a finding that does not exist; `latest_state.go:13-15` says the store keeps "each live resource" |
| `MCCapacityListing` | `ListingAccepted` | a Context is deleted while a Capacity refers to it: every subscriber refuses the listing of the latest state at that Capacity, and gets nothing behind it, however often it is sent; `notify.go:13` as for `MCResyncKeepsDeleted` |
| `MCStaleCheck` | `FindingsExact` | a check that was overtaken deletes the finding a later one added |
| `MCReplicatedNode` | `DanglingTypesFound` | a Node that came by replication has its type embedded and goes on passing the check when the NodeType is deleted; `docs/findings.md:6-8` says findings are about references that do not exist in the model, but `docs/findings.md:143-144` that this one goes by `GetNodeType()` |
| `MCEcho` | `EchoesEnd` | two servers that subscribe to each other push one change back and forth for ever |
| `MCBelowDiamond` | `Converges` | a server with two upstreams applies their pushes in one order and records them in the other; its own subscriber keeps the older one |
| `MCWronglyResolved` | `OnlyResolvedDeleted` | a finding is replaced after it was looked up, and the new one is deleted; `docs/findings.md` says findings "that do not match any resolution rule are retained" |
| `MCSameSecond` | `SeenIsApplied` | two writes share a token (a `Last-Modified` header has seconds), and the second is never applied |
| `MCStartupGap` | `StartupMissesNothing` | a file that changes between startup's pass and the first pass of the poll, or the watch, is passed over |
| `MCIdleSource` | `SourceCatchesUp` | a source is neither watched nor polled, or its watch could not be set up: its changes are never applied (`sensor.go:129-133` and `265`) |
| `MCWatchPanic` | `NoPanic` | a debounce callback picks the send although the context is cancelled, and the channel is closed |

The bounds and constants of the passing runs exclude more of the same kind: a notifier that
was removed goes on delivering beside the new one for its URL (`DeliveredInOrder`); an event
recorded between drain and snapshot is sent after the snapshot that has it
(`QueueFollowsSnapshot`); the flag of an overflow may be set after the queue was emptied, and
nothing wakes the goroutine (`ResyncBegins`); two goroutines may change a resource in one
order and record the events in the other (`StoredIsModel`). And `subjectHasRequiredRef` goes by the type of the subject, so that a
`MissingResourceReference` whose subject has no type is never resolved.

`QuietExact` and `QuietCoversLive` say together what delivery is good for with losses:
live resources only. Without losses, and without two hand-outs at once, it is exact, which
`FeedRefinement` and the theorem `ReliableExact` say. `FindingsExact` and `StoredIsModel` hold for one
goroutine and fail for two.

### Bounds

* `MaxSeq = 4` with a ring of `Limit = 2`: the ring fills, wraps, and wraps again, and
  the boundary moves twice. Three resources, so that one can be in the tail and two only
  in the latest state: with `PageLimit = 1`, the smallest page, a page can then be cut
  where two resources are synthesized. It also makes a client fall behind. Two payloads
  tell an update from a create. What is proved (section 5) has no bounds.
* `EventManager` and `Landscape` are proved for any sets and any bounds, some of it under
  the hypotheses that section 5 names; the runs show the same on small instances, and what
  happens beyond the hypotheses. `QueueDepth` is 1 where queues are to overflow and large enough not to where they are
  not to. `MaxAttempts = 2` is one retry. `MaxFailures` bounds the failed attempts at
  subscribers that can be reached; `MaxAttempts` of them use up a delivery, a third hits
  the resync.
* In `MCReliableDelivery` two writers and two subscribers with one subscription each and three
  events let subscribing, replay and unsubscribing fall anywhere between the events and in
  the middle of a hand-out. A queue of one fills; the behaviours in which it overflows are cut
  off where they do (`UndisturbedSpec`), as are those in which a second hand-out begins before
  the first has ended. Writers and subscribers are interchangeable, and so symmetric.
* `MaxOps` bounds the calls in `Landscape`: four for one goroutine (two Contexts, a type
  and its deletion, for instance), three for two. Two Contexts can be each other's or
  their own parent; one Node has only its type to depend on.
* `MCCapacities`: two Capacities and two tuples, so that one can move to the other's, and
  seven calls, enough for a resource type, two Contexts, both Capacities and their moves or
  deletions, by two goroutines. What is proved of them has no bounds.
* `MCReplication`: one server, two below it, and one below both. Resources do not affect
  each other in replication, so one is enough; three changes of it can be a `Create`, an
  `Update` and a `Delete`, or a resource that comes back; one event arrives again.
* `MCResolveFindings`: two goroutines, two resources, two findings, and contents of both
  rules (see the module for what they cite), so that a finding can move from a resource to
  the other, and each goroutine can meet what the other is deleting.
* `MCConfigSync`: two goroutines that both change one instance, and two endpoints, so that a
  change may overwrite a change. Nothing else is bounded: the state space is finite. Several
  instances, which may have an endpoint in common, are in the proofs (section 5).
* `MCLandscapeShared`: the findings from outside are two under their derived ids and others
  under an id of their own, or of another finding.
* `MCFileSensor`: two files, three writes after which nothing changes but removals, and a
  channel of one, so that a second callback has to wait. Every write has a token of its own.
  All four ways to configure a source are initial states.
* Every run but `MCResolveFindings`, whose goroutines always have a next call, sets
  `CHECK_DEADLOCK FALSE`: these bounds stop every behaviour, and an idle server waits for
  calls.

### Fairness

Goroutines that can go on do (weak fairness of `HandOut`, `Loop`, `Work`). An attempt
ends in success or failure because it has a deadline; that it fails again and again is
possible for a subscriber in `Unreachable` and bounded by `MaxFailures` for others. The
stop channel competes with the queue and the timer in a `select`, which picks at random
among the ready cases; hence strong fairness of `Exit`. Nothing is assumed of callers.
`PagingEnds` assumes that the client keeps asking. In `Replication` what was changed is
recorded and what is pending is pushed, which is `FeedRefinement`'s case: no delivery uses
up its attempts; nobody has to change or subscribe (`Converges` is about the case that all
links are). In `ConfigSync` the goroutines go on, and a flush ends, in success or failure;
the debounce timer is fair only while no change is under way, since every request sets it
anew, and `FileCatchesUp` asks for nothing while changes keep coming. In `FileSensor` polls
and watches go on while the server is not told to stop, timers expire, callbacks go on. That a
watch is set up is not assumed, only that the attempt ends; nor that notifications are kept. A
listing that failed is made again, and must succeed in the end for `SensorCatchesUp`.
After a cancelled context the loops may take one more round, since a `select` picks at
random, but nothing says they do.

## 4. What the properties found

The counterexamples above are of seven kinds. Comments promise more than the code does
(resync, order of delivery, retained findings); a goroutine waits for a wake-up that is not
sent (replay, overflow); a mutation is not one step together with its event, which leaves
an event manager, servers below it, and the collector's configuration with a wrong idea of the
model; what arrived is confused with what has the id that was expected of it, or a source is
given up without a trace but a line in the log; what was looked up
is used after it changed (findings, files); a resource outlives what it refers to
(Capacities); and a channel is closed under a sender. The
lines and the comments are in the tables of section 3 and, for the run that is listed, in
`PROJECT.json` under `findings`.

## 5. Proofs

`EventStoreProofs` proves, for any sets of resources and payloads, any ring size, and any
number of events:

* `StoreTypeCorrect`: `StoreSpec => []StoreTypeOK`
* `OrderCorrect`: `StoreSpec => []OrderInv`
* `TailCorrect`: `StoreSpec => [](TailDecides /\ TailCompleteUntilEviction)`
* `TailOrderCorrect`: `StoreSpec => []TailOrdered`
* `RingIsBoundedLog`: `StoreSpec => LogRefinement`
* `FullReplayCorrect`: `StoreSpec => []FullReplay`
* `PagesCorrect`: `StoreSpec => []PagesDoNotSkip`
* `ClientLeavesStore`: `Spec => StoreSpec`, of `HistoryClient`
* `MirrorInvariant`: `Spec => []MirrorInv`, and from it
  `PagingCorrect`: `Spec => []PagingReconstructs` and
  `OutrunCorrect`: `Spec => []OutrunKeepsLive`

The first four follow from `StoreInvariant`: `StoreInv` is inductive. It joins
the properties because they need each other. That the last entry about a resource decides its
state survives an eviction only because the entry dropped is the first one. That the tail
is complete while the boundary is 0 needs the boundary to become positive with the first
eviction, which the order of the sequence ids gives. And the order needs, for an entry
that enters an empty ring, that the boundary is not past the counter
(`BoundaryBelowCounter`).

The argument rests on lemmas about the operators: in `StoreLemmas`, removal from the order
(`RemoveFromOrderProperties`) and `Receive` keeps order and map in step (`ReceiveKeepsStore`),
and on lemmas about the ring that stand before the proof: it keeps its shape
(`RingAddKeepsShape`), the slot of every entry of a snapshot (`SlotOf`, `SnapshotEntries`),
and, as the core, that adding to the ring is appending to its snapshot, less its head if the
ring was full (`RingAddAppends`). The last is also the refinement step of `RingIsBoundedLog`.

Queries select from a sequence and a client replays what it gets: both are recursions over
data. The library's induction theorems cannot be used, so `StoreLemmas` proves what is needed
from the least element of a set of numbers (`NatLeast`, `UpTo`, `Greatest`, which rest on
`WFMin`): a recursive function over the positions of a sequence exists (`RecursionExists`),
hence `Selected` and `Replay` unfold (`SelectedUnfolds`, `ReplayUnfolds`); what is selected is
the elements at the chosen positions in their order (`SelectedPicks`), and a replay leaves a
resource as the last event about it has it (`ReplayLeavesWith`, `ReplayBrings`). That is why both
are recursive functions and not folds. On these rest three facts about an answer: the
synthesized part has the live resources the tail is silent about; the rest has the first
entries after the cursor; and the last entry of the tail about a resource decides
(`TailDecides`).

The client needs an invariant of its own (`ClientInv`, with `StoreInv` in `MirrorInv`), because
`PagingReconstructs` speaks of a client that has caught up only. While the boundary has not
passed the cursor, the mirror is right about every resource that no entry after the cursor is
about, live ones even if the client had been outrun before. A client behind the boundary has
no such guarantee, but always a page to fetch, which restores it: its synthesized part has
every live resource that the tail is silent about, and as `Create`s only, which is why
deleted resources may remain in the mirror of a client that was outrun.

Assumed of the constants: `Absent` is no payload, `Limit` and `PageLimit` are positive numbers
(`WithHistoryLimit` ignores others), `MaxSeq` is a number.

`EventManagerProofs` proves, for any resources, goroutines that write, subscribers,
notifiers and numbers of events:

* `ManagerTypeCorrect`: `Spec => []ManagerTypeOK`, without further hypotheses
* `QuietCovered`: `Spec /\ []OneHandOut => []QuietCoversLive`
* `ReliableInOrder`: `Spec /\ []Undisturbed => DeliveredInOrder`
* `ReliableFollowsSnapshot`: `Spec /\ []NothingDropped => []QueueFollowsSnapshot`
* `FeedRefined`: `Spec /\ []Undisturbed => FeedRefinement`
* `FeedIsExact`: `Feed!FeedSpec => []Feed!FeedExact`, and so `ReliableExact`:
  `Spec /\ []Undisturbed => []Feed!FeedExact`

All but the first and `FeedIsExact` are of one subscription of each subscriber
(`MaxSubscriptions = 1`). The other hypotheses are about what happens and not about the
constants: there may be any number of writers, queues of any depth, subscribers out of reach.

* `OneHandOut`: at no time two goroutines are handing out events. The code does not see to it;
  a server that one client changes at a time has it. Without it `DeliveredInOrder` is false
  (`MCTwoWriters`), and so is what rests on the order of a queue.
* `NothingDropped`: no queue has overflowed and no delivery to a registered subscriber was
  given up, so that no resync is due. After one, `QueueFollowsSnapshot` is false and the order
  is that of a listing.
* `Undisturbed` is both.

A second subscription of one URL is out because a notifier that was removed goes on beside the
new one. `ReliableFollowsSnapshot` needs no `OneHandOut`: a goroutine that comes late still
brings an event that was recorded after the snapshot of every notifier it was copied with.

`QuietCoversLive` needs three invariants below it. `ManagerInv` has the types and the
counters. `RegistrationInv` says that a URL has one notifier, that no event is handed to one
twice, and that a registered one is not stopped. `CoverInv` says of a registered subscriber
that is not about to be resynced, and of each resource whose event is not still in the
writer's hands: what the queue says last of it is the latest state, unless the queue is about
to be drained; else, if it is live, what the batch says last is, unless the batch is about to
be replaced by a listing; else the subscriber has it (`CoveredOrDue`). Every step that loses
something raises the flag. What a writer has in its hands is the latest state of its resource
(`SendingCurrent`), which is where `OneHandOut` is needed.

For the order and the refinement a subscriber has an empty copy until it is registered
(`FreshCopies`, with the types and the registrations in `ReliableInv`). For the refinement, what is on its
way to a notifier is its batch, then its queue, then what its writer has still to hand out
(`Way`). A step of the event manager does one of five things to that sequence, and there is a
lemma for each: it is left alone, a change is appended, it begins with a listing, it ends, or
its head arrives. The five are the actions of `OrderedFeed`, and the stutter. The same five
serve `DeliveredInOrder`: the events of a way are in the order of their numbers, resource by
resource, and none is older than what the subscriber has (`OrderInv`). `QueueFollowsSnapshot`
has an invariant like it (`FollowInv`).

`FeedExact` says what such a feed is good for: what is on its way to a subscriber brings its
copy to the state of the model. `FeedIsExact` uses the steps of the feed and nothing of the
event manager. That events bring a copy to a state is said resource by resource (`BringsTo` in
`LatestState`: the last event about it decides), which needs no induction; `Replay`, the fold
that says the same, does. `StoreLemmas` has the steps: appending an event and applying it to
the target (`AppendBrings`), applying the first event and keeping it or taking it away
(`HeadBrings`), a listing (`ListingBringsTo`).

`ReplicationProofs` proves `UpstreamCorrect`, `Spec => []UpstreamIsAhead`, for any servers,
links, resources and numbers of changes and repeats. The inductive invariant `Inv` adds
that nothing comes over a link that is not subscribed, and that what a server is recording
is still the first event of its link and in effect in its model (`BeingRecorded`); the
latter is what makes it harmless that applying and recording are two steps, if all changes
come over one link. Assumed: the set of resources is finite, and the source does not
subscribe to itself.

`ResolveFindingsProofs` proves `FindingsTypeCorrect`, `IndexCorrect` and
`ResolutionCorrect` for any goroutines, resources and findings. `ResolutionIsComing` is
inductive together with the types and `IndexExact`: a goroutine that is about to look up
finds every finding that cites its resource because the index is exact, and a candidate
counts only as long as it is the finding that is stored; one that replaces it later is
either `known` or comes before another look-up.

`ServerProofs` has what the server process runs besides the model. It proves, of the
configuration sync, the type invariant and the four invariants of `MCConfigSync`
for any number of goroutines, instances and endpoints, whichever goroutine changes which. `FlushInv` joins
`CleanIsWritten` and `FlushIsComing` with what is being written in each phase; `LastInv` says
that from the moment the server is told to stop, the snapshot or the registry the last flush
will take is one of `kept`; `FollowInv` says, of each instance that is not `crossed`, that the registry agrees with
the model or an event about it is on its way, and that such an event carries what the model
has; a change that finds none on its way makes that true again, whatever went before.

Of the file sensor it proves, for any files, tokens, number of writes and room in the channel:

* `SensorTypeCorrect`: `SensorSpec => []SensorTypeOK`
* `SeenCorrect`: `SensorSpec => []SeenIsApplied`, under `OwnTokens`
* `ChangeComingCorrect`: `SensorSpec => []ChangeIsComing`

`OwnTokens` says that no two writes have the same token, as `MCFileSensor` has it; with times
of last change it may be false, and `MCSameSecond` shows what is lost then. `SensorInv` adds
to the types that every token that was seen is of a write there was, so the next write has
one that nobody has seen. With it `SeenIsApplied` is inductive. The delicate step is that the
token remembered is that of the file when it was listed, and what is applied is the file as it
is later: it is the older of the two that is remembered, so the next pass looks again.
`ChangeIsComing` needs only the types: a notification becomes a timer, a timer a callback, and
a callback a change in the channel, and a callback that takes another timer out of the map does
not keep it from expiring (`HandedOn`); what is at the head of the channel is read as it is now
(`NotifiedComing`).

`LandscapeProofs` proves:

* `LandscapeTypeCorrect`: `Spec => []LandscapeTypeOK`
* `NoFalseFindings`: `Spec => []NoFalseFinding`
* `FindingsAreExact`: `Spec => []FindingsExact`, under `Alone`
* `StoredIsTheModel`: `Spec => []StoredIsModel`, under `Alone`

for any Contexts, Nodes, types, and numbers of calls, the first two also for any goroutines and
findings from outside under any ids. `NoFalseFinding` speaks of the findings that have their
derived id (`Own`); of the others `PhaseZeroNegates` is false (`MCForeignFinding`). `Alone` is: one goroutine, no findings from outside (`Ingress = {}`). It
is what `MCLandscapeAlone.cfg` sets. Both parts are needed: two goroutines break
`FindingsExact` (`MCStaleCheck`), and a finding that comes from outside, and is cleared up
before it is recorded, breaks `StoredIsModel` with one (`MCPhantomFinding`).

That the recursion of the filter is bounded, by three events, is a matter of levels. An event
of a subject or a type is on level 3, the `Create` of a finding on 2, its `Delete` on 1, and a
task is on the level of the event it may still send. A stack is leveled (`Levels`) if what
lies above an event that is to be recorded is on a lower level; since every task leaves tasks
of its own level or below, stacks stay leveled, and three levels leave room for three events.

`NoFalseFinding` is about the end of all calls, so its invariant says what is to happen: of
every finding whose subject is there and passes the check, some task on some stack is going to
clear it up (`FalseInv`; `ClearsUp` lists such tasks, from the filter of the event to the
deletion). It holds with any interleaving: a task that clears up looks at the state when its
turn comes, whatever it was made for. What the right findings need besides cannot be had from
two goroutines. It is that tasks are not outdated (`TrueInv`: a finding that is about to be
added is still justified, one about to be deleted is not), that a finding which ought to be
there has a task that leads to it (`MissingInv`), and that model and record differ in nothing
but what is about to be recorded (`StoredInv`). Together with the types, `FalseInv`, and a
remark about pushed Nodes (`AddInv`) they are inductive (`AloneInv`).

`CapacitiesProofs` proves `IndexIsExact` and `UpsertFollowsTable` for any goroutines,
Capacities and tuples. `TupleIndexExact` is inductive with nothing but the types, because
the conflict is looked for under the mutex under which both maps change (`PutAgrees`,
`DroppedAgrees`); that what was validated before may be gone by then does not matter to it.

It also proves `ListingCorrect`: `Spec => []OrderlyListingAccepted`. The invariant
(`OrderlyInv`) says that while the history is `orderly`, one goroutine at most is in a call,
what it has looked up is still there, and the store can be listed once the event that is
about to be recorded is in it: it has what the model has, each Capacity after what it refers
to (`Listable`). The three operations that remain possible keep that (`AddedReference`,
`DroppedCapacity`, `PutCapacity`), since `Receive` changes the order of nothing that stays and
puts a new resource behind all others (`ReceiveKeepsBefore`, `ReceiveAppends`). That a
subscriber then accepts the listing is an induction over its prefixes, as above: a tuple can
be taken in the copy only by a Capacity that has it in the model (`NextIsAccepted`).

Assumed of the constants elsewhere: that the absent value is none of the others, that
bounds are numbers, that no token is the one that stands for none, that there is a resource, that notifiers are finitely many, and, in
`Landscape`, that the ids of Contexts, Nodes, their types and findings are apart from each
other, as UUIDs are.

Only model-checked are the liveness properties, which need fairness and are beyond the
prover: `PagingEnds`, `WritersNotStalled`, `ReachableCovered`, `StoppedExits`, `Converges`,
`CallsReturn`, `FileCatchesUp`, `SensorCatchesUp`, `NobodyLeftSending`. Every invariant, action
property and refinement that a passing run checks is stated by a theorem, some under the
hypotheses on the constants or the behaviour named above.

## 6. Not modelled

Listed with the reasons in `PROJECT.json` under `components`. In short:

* Wire formats and their conversions, logging, metrics, `emelandctl`, rendering of the
  collector configuration, parsing of documents: data that no property here depends on. Most of
  the repository's lines are of this kind: generated clients, servers, conversions and
  mocks (`*.gen.go`, `*_gen.go`, `convert_special.go`, `pkg/mocks`), and the generator
  itself (`tools/gen`). A model of them would repeat them. What is modelled is most of the
  code that has state shared by goroutines.
* The setters of registered objects, which only the library's tests use; a source
  of files over HTTP or S3 other than by its tokens; more than one source at startup.
* Certificate findings, which the server does not construct; the circular queue, which
  nothing takes out of; authorization, a pure decision about one request.
