# Verification of mcpg-plugin-sdk

TLA+ models of the concurrent and stateful parts of the SDK, TLC runs on small
instances, and TLAPS proofs for every value of the constants. Source paths are
relative to the root of the repository (`src/queue.rs`); every definition that
models code is mapped to its lines in `PROJECT.json`.

## The system

The SDK is what a plugin of the MCPG gateway is built against. A plugin is a
cdylib (or a static registration) whose entities are reached through `extern
"C"` slots; it calls back into the host through handles of function pointers.
The hard parts are the ones that outlive a call: threads and tasks started by a
slot, callbacks into a host that frees its side as soon as a cancel returns,
registries shared by instances, and messages that are settled only once the
host has stored them.

| Component | State | Operations | Talks to | What makes it correct |
|---|---|---|---|---|
| Queue watch, `src/queue.rs` | window of deliveries in flight, sequence numbers, settle channel, stop flag, two threads | spawn, receive loop, settle loop, acknowledge, cancel | broker (`QueueSource`), host (`emit`, acknowledge) | every delivery is settled, once, and removed only when stored; a cancel leaves nothing |
| Inventory watch, `src/inventory.rs` | confirmed listing, pending changes, baseline, wake channel, one thread | poll, acknowledge, wake, cancel, resume from a position | store (`list`), host | the host's view converges to the store over drops, overlaps, restarts |
| Polling watch, `src/watch.rs` | last state seen, stop flag, one thread | spawn, poll, emit, cancel | polled state, host | no change is skipped or told twice; nothing after a cancel |
| Stream forwarders, `src/ffi.rs` | tokio task, done channel, abort handle | spawn, poll, callback, cancel | stream, host's bridge | no callback on a freed bridge; a cancel returns |
| Log forwarder and instance life, `src/plugin_log.rs`, `src/ffi.rs` | process-wide registry of host handles behind a read-write lock | make, attach, event, drop, detach | host's bridge per instance | no call through the handle of a dropped instance |
| Cluster client, `src/cluster.rs`, slots in `src/macros.rs` | lease handle, `released` flag | acquire, try-acquire, renew, release, drop | coordinator | one release per lease, no use of a freed handle, no lease left behind |
| Plugin macros, `src/macros.rs` | the instance behind the handle | one `extern "C"` slot per operation of each of the 21 kinds, make, drop | entities | a panic never crosses the boundary; each outcome is read as it was meant; nothing outlives the instance |
| Adapters, `src/adapters.rs` | none | async traits over the sync entities of a static build | entities | the same answer on both paths, where the adapter passes the method on |
| Host handle, `src/host_handle.rs` | subscription and span guards | secrets, config, audit, metrics, spans, cache, content, tools | host | a guard ends what it began, once; an answer that does not decode is an error |
| FFI helpers, `src/ffi.rs` | cursor of a listing | typed handles, the stream sentinel, `collect_pages`, the sync traits | slots, backends | a token comes back as it was given; a listing misses no key that stayed |
| Configuration, `src/config.rs` | none | `parse_config_or_fail_closed` | make | a malformed configuration makes no instance |
| SQL guard, `src/sql_guard.rs` | scan position, skeleton | `enforce_read_only` | | no comment or literal hides a write |
| Mock gateway, `src/testing.rs` | registered plugins, bound tables | builder, tool call, identities, sinks, routes, tables | plugin tests | the first plugin that objects decides, and none after it runs |
| Templates, `src/template.rs` | none | pure functions of text | | renders right |
| Declaration, `src/declare_plugin.rs` | none | compile-time assembly | | |

What is hard: the two threads of a queue watch and the host act on one window
with the broker called outside its lock; acknowledgements come late, twice, out
of order or never; the store, the host and the thread of an inventory watch
interleave around a listing, and a restart may come between any two steps; an
abort lands while a callback runs; the allocator reuses the address a registry
entry is filed under; guards move between the calls of two threads and the
instance while the host calls back into them; a start fails, panics or returns a
null handle while its sink is already in use. `PROJECT.json` lists each such
hazard at its line.

## The modules

**`QueueWatch`** models `src/queue.rs` whole. `window` is `Window::pending`,
`nextSeq` its counter, `rpc`/`batch`/`offered`/`room` the locals of
`receive_loop` and `offer`, `spc`/`hand` those of `settle_loop`, `settles` the
channel, `life` how far `spawn_queue_watch` or `cancel_queue_watch` is. A step
is what happens under one lock or in one call: `expired` and `take` remove
entries under the lock (`Expired`, `RecvAck`), the broker call follows in a step
of its own (`ReleaseExpired`, `AckTaken`), so everything may happen in between.
The broker (`Deliver`, `LockLapses`) and the host (`Acknowledge`, which may
repeat and come after an expiry; `AcknowledgeUnreadable`) are external. A
delivery is identified by its receipt, the index in `delivered`; `calls` records
what the watch did with each receipt. `Large` messages are the ones whose event
cannot cross the boundary; `EventSources` says whether the watch is an event
source, a resource watch, or either. `SpawnSettler` may fail after the receiver runs.

**`QueueContract`** is what the watch promises: a message is leased and returned
any number of times and is removed only while leased and only once the host has
stored it. `QueueWatch` maps its leases to it (`Standing`) and implements it;
what may be removed unstored are the undeliverable messages of an event source
and everything of a resource watch, which the code acks at once.

**`QueueInvariant`** holds the inductive invariant `IInv`, apart from the
specification so that TLC and the proofs share it.

**`Inventory`** models the engine and the thread of `src/inventory.rs`. A listing
is a function from keys to digests. `Poll` is `Inventory::poll`: expiry
(`Retained`), the diff (`Diff`) against the confirmed listing and what is in
flight (`From`), creations and modifications before deletions in key order
(`InOrder`), the quiet removals (`Gone`, `Remembered`), the cut at the room
(`Cut`), the snapshot on the last change. `Resume` is `Inventory::new`. The
thread is `Top`, `ListOk`, `ListFails`, `Timeout`, `Recv`, `Drained`; the host
stores or drops its events in order (`Store`, `Drop`) and restarts the watch from the position it stored
(`Cancel`, `Respawn`). One poll is one action: `list()` is taken to return a
state the store had at one moment. `opts`, fixed at the start of a behaviour,
is the watch's options and hooks and the bounds on its environment.

**`PollingWatch`** models `src/watch.rs`: `Top`, the poll and its three outcomes,
`Emit`, `Sleep`, `Cancel`, `Join`. The state and the host move between the poll
and the event, and the host handles an event any time later: a host of an event
source applies the difference, one of a resource watch reads again. What a
plugin's `diff` makes of two states is one event here.

**`StreamForward`** models `spawn_http_stream_drain` and
`forward_cluster_stream` of `src/ffi.rs`, which differ only in the End chunk and
in how an item that does not encode is treated (`http`). A task is aborted only
where it suspends; the channel the cancel waits on is signalled by a guard made
by the first poll, so an abort before it closes the channel unsent. The guard is
a local of the body: `DropFuture` drops it, `DropCaptured` then the stream and
the sink the future captured, and the cancel may return in between. `late` says
that the five seconds ran out. `FreeBridge` is the host's, or
`Subscription::drop`'s, free of the callback box.

**`PluginLog`** models the registry of `src/plugin_log.rs` with
`boxed_make_with_host` and `boxed_drop`. Entries are filed under the address of
the instance's box; `DropBox` frees the address before `Detach` removes what is
filed under it; a log event holds the read lock through the host call. A writer
gets in when no reader holds the lock; as the standard library leaves open who
goes first, readers may keep a writer out for ever. Several entity types share the registry, so instances with and without a
size occur together.

**`ClusterClient`** models the leases of `src/cluster.rs` through the slots of
`src/macros.rs`: the handle an acquire slot fills and how the two decoders read
it, the swap of `released`, the calls in flight, the drop. `release` takes a
shared reference and may run in several threads; `renew` and the drop have the
lease to themselves.

**`PluginSlots`** has no state. It says of every slot that `src/macros.rs`
generates, kind by kind, what it gives, what it does with arguments it cannot
decode (`bad`) and what it answers when the entity panics (`panics`), which for
bare values ("blank") is what a legitimate result may encode to as well; which
methods each adapter of `src/adapters.rs` passes on; and how each host service of
`src/host_handle.rs` comes back.

**`PluginInstance`** is one instance from make to `drop_instance`, over the slots
of `PluginSlots`. A call is `Enter` (decode, or answer without the entity),
`Ask` (a host service), `Return` (the entity's outcome), `Finish` (guards of the
frame gone, the answer encoded) and `Read` (the caller decodes it, as `Reading`
says: for the coordinator's slots that is `ClusterClient`). Guards are
`FfiSubGuard` and `SpanGuard` of `src/host_handle.rs` and `Subscription` of
`src/cluster.rs`: `Acquire`, `Keep` and `Take` (in and out of the instance),
`DropGuard`, the host's `UnsubscribeReturns`, then `FreeBox`, with `Fire` and
`CallbackEnds` at any moment the host may call. A stream is a sink handed to a
starting slot; the token it is ended by crosses the sentinel of
`execute_streaming` and `cancel_stream`. The entity does what its types allow
and keeps three rules the slots rely on: a start that failed leaves nothing
running, a cancel returns when no emission is under way and does not panic, a
guard lives in a call or in the instance. The host's rules are external and
listed at the head of the module.

**`KvPages`** models `collect_pages` behind `kv_list_prefix`, with the store
changing between pages and a backend that may hand a cursor back.

**`SqlGuard`** models `sql_skeleton` one iteration at a time: an action per match
arm and one per loop inside an arm, with `mode` for the loop the scan is in; and
`enforce_read_only` over its result. Keywords are two classes of words. The
reference `ReadOnly` scans nothing: `Lexeme` says what a comment, a quoted text
and a character of code are, `RowTo` that a statement is a row of them, and
`Code` takes the code from the cuts of such a row.

**`MockGateway`** models the builder of `src/testing.rs`, the tool-call chain of
gates and transforms, the identity chain, the fan-out to sinks, the dispatch of
HTTP routes and the bound tables, with plugins that answer anything. The
references define the outcome from the registrations and the answers, without
the loops: `Chain` is who is to be asked, `Lists` that a value carries the
modifications made so far, by counting them, and `PathOf` compares two paths
character by character, where the code trims, joins and compares suffixes.

The `*Proofs` modules hold the theorems; `MCQueue`, `MCInventory`, `MCInstance`
and `MCHelpers` (which runs `SqlGuard`, `KvPages` and `MockGateway` side by side)
hold what their runs instantiate. The other runs check the module itself.

## The runs

Each property has a mutant of the code in the module (marked `Mutant of`) that
breaks it, listed in `PROJECT.json`.

| Run | Checks | Shows |
|---|---|---|
| `MCQueue` | `IInv`, `WindowBound`, `Custody`, `SettledOnce`, `AckedWasStored`, `CancelSettlesAll`, `QuietAfterCancel`, `ImplementsContract` | a delivery not settled is in one place; no receipt is settled twice; only stored messages are acked; a cancel settles everything and silences the watch; the watch implements the contract |
| `MCQueueLive` | `HeldIsSettled`, `CancelReturns`, `AckedIsTold` | a held delivery is settled even if the host never answers; a cancel returns wherever the threads are; a resource watch that acked a delivery tells the host |
| `MCInventory` | `TypeOK`, `InFlightBound`, `NoRepeatInFlight`, `ConfirmedAsStored`, `PositionExact`, `Converges`, `ResourceSettles` | six watches: overlapping, restarted, one key, late host, quiet removals, resource |
| `MCInventoryDocTimeout` | violates `DocTimedOutReportedAgain` | see Divergences |
| `MCInventoryDocRestart` | violates `DocRestartExact` | see Divergences |
| `MCInventoryDocLate` | violates `DocLateStored` | see Divergences |
| `MCPolling` | `TypeOK`, `DiffsCompose`, `QuietAfterCancel`, `HostCatchesUp`, `CancelReturns` | differences compose, the host catches up, a cancel ends everything |
| `MCStream` | `NoCallbackAfterFree`, `CancelStops`, `CancelReturns` | aborts at every moment, wedged tasks included: a cancel returns, in time with nothing of the task running but the drop of its captures |
| `MCPluginLog` | `NoFreedBridgeCalled`, `DroppedHasNoEntry`, `LostOnlyByReuse` | whatever addresses are reused, no freed bridge is called, and a live instance is without its entry only if another that had its address was dropped |
| `MCClusterClient` | `ReleasedOnce`, `HandleLive`, `DroppedIsReleased` | racing releases, failing coordinator |
| `MCInstance` | `NoUseAfterFree`, `NothingLeft`, `ReadsAgree`, `DropReturns` | callbacks run on live boxes and emissions reach live sinks; a dropped or unmade instance leaves nothing, and the host is told once; success and failure are read where they were, but for the calls listed under Divergences; a drop returns under callbacks |
| `MCHelpers` | `VerdictAgrees`, `ListingComplete`, `ChainDecides`, `LookupAgrees` | the guard accepts exactly single reads; a listing has every key that stayed, once and in order; the chain's first objection decides; routes and tables find what was bound |

### Bounds

- `MCQueue`: two messages, three deliveries, a window of two, two unread
  acknowledgements. One message is delivered again after a release, both are
  held at once, the window is full while a delivery is outside it, an
  acknowledgement crosses an expiry; one message cannot cross. The theorems lift
  the bounds for everything this run checks. `MCQueueLive` takes a window of two
  and two deliveries, of both kinds of watch, so that the receiver waits for
  room and a batch holds both.
- `MCInventory`: two keys and up to two digests make every kind of change,
  polls with both, and a key that returns; a window of two with three changes
  overlaps and fills it, a window of one cuts polls; one drop, one late event,
  one wake; up to two restarts, with a snapshot budget that does not fit both
  objects, so that all three ways of `Inventory::new` occur. Fewer events are
  dropped than the window holds, for the reason given under Divergences.
- `MCPolling`: three values, three changes: a value skipped between polls, a
  value that comes back, and no signal in between.
- `MCStream`: five items; the state of the task does not depend on how many came
  before. `MCPluginLog`: three instances on two addresses are enough for a reuse
  beside a live one. `MCClusterClient`: three threads, so that two race while a
  third acts; four acquires.
- `MCInstance`: every slot of every kind over the FFI, and of the kinds with an
  adapter on the static path, with one stream; every host service on both paths
  and under the three runtimes a static handle meets; the HTTP slots without a
  runtime to drain a streaming body; and one scene with a host
  subscription, a coordinator's and a span under two threads, enough for a guard
  to be taken out of the instance by one call while another runs and a callback
  is under way.
- `MCHelpers`: statements of five to seven characters over the characters of one
  matter each, and up to four over all of them, so that regions open, escape,
  close and stay open next to keywords; four keys, limits below, at and above
  the number of keys and zero, two changes; two plugins of each kind, paths of
  up to three characters against requests of up to four. `HelperProofs` lifts
  the bounds for everything this run checks. A judged statement, a
  finished listing and a call that replied stop, so deadlock is not checked
  there; nor in `MCPluginLog` and `MCClusterClient`, where all instances or
  grants are used up.

### Fairness

- Queue: the threads run and calls into the broker return (weak fairness of each
  loop), the clock advances past `ack_timeout` (`Elapse`), and a cancel once
  begun joins. Nothing is assumed of the host's acknowledgements, the broker's
  deliveries or its locks. `recv_timeout` and the one-second wait for room are
  what the code relies on, and are in the loops.
- Inventory: the thread runs and, of listings tried again and again, one
  succeeds (strong fairness of `ListOk`); time passes; the host handles what it
  is sent, by storing it unless a drop comes first, and starts a cancelled
  watch again.
- Polling: the thread runs; polls tried again and again do not all fail; the
  host handles its events. The host need not cancel.
- Stream: only the cancelling thread and its clock. The task need never be
  scheduled: that a cancel returns all the same is the point.
- Instance: a call on its way out drops its guards and finishes, the host's
  unsubscribe returns once no callback runs, and callbacks return, as their
  documentation demands. The entity need not return and the host need not call.

## The proofs

TLAPS checks, for every value of the constants:

- **`QueueProofs`**: `IInv` is inductive, and from it the type invariant,
  `WindowBound`, `Custody`, `SettledOnce`, `AckedWasStored`,
  `CancelSettlesAll`, the action property `QuietAfterCancel` and the refinement
  `ImplementsContract`. The properties alone are not inductive. `IssuedOnly` and
  `Numbered` say that a sequence number names one entry and a receipt is held
  under one number, without which removing by number could remove another
  delivery; `Offering` follows the entry `offer` works on while the settler may
  take it away; `Phases` says where the threads' hands are empty; `Promised`
  ties an acknowledgement in the channel to an event whose message is stored;
  `Lifecycle` orders spawn and cancel, so that a drained window stays empty;
  `Roomy` keeps the room asked for beside what was added since. Assumptions: the
  ranges `QueueOptions::validate` accepts, and that a model's markers are not
  receipts. The refinement takes each step of the watch to a step of the
  contract or a stutter.
- **`StreamProofs`**: the channel is settled only when the drop of the future has
  begun, and the bridge is freed only after the cancel (`Quiesced`); hence
  `NoCallbackAfterFree` and `CancelStops`.
- **`PluginLogProofs`**: an entry is filed under its instance's address, a thread
  calls through an entry that is still there, and a bridge is freed only when its
  instance is gone; hence `NoFreedBridgeCalled`, `DroppedHasNoEntry` and
  `LostOnlyByReuse`, for any reuse of addresses.
- **`PollingProofs`**: `TypeOK`; `DiffsCompose` with what an emit has at hand
  (`Pending`) and where the thread is (`Lifecycle`); and `QuietAfterCancel`.
- **`ClusterProofs`**: one thread at most got through the swap (`Swap`), what a
  finished release leaves (`GivenBack`), renew alone (`Exclusive`); hence the
  three properties of the run.
- **`InventoryProofs`**: `TypeOK`, `InFlightBound`, `NoRepeatInFlight`,
  `ConfirmedAsStored` and `PositionExact`. The engine's part of the invariant is
  that pending changes are numbered without a gap (`Consecutive`), so that an
  acknowledged number finds its change; the host's part follows every change from
  the poll to the acknowledgement: events and acknowledgements travel in order
  (`InSequence`), what a timely host has not answered is still pending
  (`Prompt`), an object's last unread acknowledgement says what the host knows
  of it (`Agree`), and a snapshot sent alone is what the host will know
  (`SnapExact`). `Fresh`, `Hosted`, `InKeys` and `Restarting` tie down what
  restarts may find. `ConfirmedAsStored` is about watches without restarts, and
  with them where changes cannot overtake each other (`Serial`: one key, or one
  change at a time, in time, with no quiet removals); `MCInventoryDocRestart`
  shows what happens otherwise. `ListedOnce` shows
  that `InOrder` lists the members of any set of keys each once, by counting, since
  induction over the set is out of the prover's reach. Assumption:
  `InventoryAssumption`, which makes the keys a finite set of numbers.
- **`InstanceProofs`**: `NoUseAfterFree`, `NothingLeft` and `ReadsAgree`, for any
  number of threads, guards and streams and any slots that `SceneOK` admits. How
  far a guard is decides what it holds (`GuardOK`); its owner is a call under way
  or the instance while it lives (`Owned`); make and drop run alone
  (`Lifecycle`); a stream, the call that starts it and the call that cancels it
  agree on sink and token (`StreamOK` and its companions). `ReadsAgree` names the
  calls whose reading differs, in `Concealed` and `Denied`.
- **`HelperProofs`**: the four properties of `MCHelpers`, of `SqlSpec`, `KvSpec`
  and `GwSpec`, for statements, paths and requests of any length and any number
  of plugins, keys and bindings. What a loop over data computes is not proved by
  induction over the data: the loop is a state machine, its progress is the
  invariant, and where a definition needs an element to begin or end at, `Least`
  and `Greatest` give one.
  - `ListingComplete`, from `KCaughtUp`: every key that stayed and lies before
    the cursor is listed.
  - `VerdictAgrees`, from `Scanned`: the statement up to the last cut is a row of
    lexemes, the skeleton `Mirrors` it (every lexeme of code shows its character,
    in order, and two identifier characters meet in the skeleton only if they do
    in the statement), and what is open since the cut is a `Region` that may
    still go on. The end of each inner loop is then the end of the lexeme
    (`LineEnds`, `BlockEnds`, `QuoteEnds`, the last by the parity of runs of
    quotes), and `Resumes` says that a line comment, which leaves nothing, cannot
    join two words. `LexemeEnds` shows that where a lexeme begins decides where it
    ends, so a statement has one row (`RowWithin`) and `Code`, which chooses one,
    chooses the scan's. `VerdictRight` then takes the four checks of
    `enforce_read_only` from the skeleton to the statement. Assumption:
    `ScopesAssumption`, that a scope has characters and a length.
  - `ChainDecides`, from `Walk`: a call in a phase stands at the place in `Chain`
    that its phase and index give (`Offset`), everybody before it was visited
    there and let it pass, and arguments and result list the modifications so
    far. `Coherent` ties the phase to the operation and the index to the loop.
    `StepKinds` shows that every action is a visit, a move to the next loop or
    the end, so that the walk is argued about three times and not once per
    action.
  - `LookupAgrees`, in two halves. A request's answer is decided in one step:
    `PathAgrees` shows that the trimmed, joined and suffix-compared strings match
    exactly when `PathOf` says so, `RouteFirst` that the route found is the first of
    its name.
    A table is at its last binding, or its first (`TableAgrees`), as it is built.
    Assumption: `GatewayAssumption`, that "/" is a character and paths are
    sequences of characters.

Only model-checked: liveness (`HeldIsSettled`, `CancelReturns`, `AckedIsTold`,
`Converges`, `ResourceSettles`, `HostCatchesUp`, `DropReturns`), which needs fairness and `ENABLED`, out of the prover's reach.
Every invariant and every action property of a passing run is stated by a
theorem.

## Divergences

Shown by a run:

- `MCInventoryDocTimeout`: the thread lists only while `has_room()`, and timed-out
  changes leave `pending` only inside a poll. Once `max_in_flight` changes are
  pending and were dropped, the watch never lists again, although a change is
  said to be reported again after `ack_timeout`.
- `MCInventoryDocRestart`: the snapshot on the last change of a poll lacks the
  poll's other changes. A restart from it reports them again, unless the object
  was deleted meanwhile: then the deletion is never reported, although a restart
  from a snapshot is said to be exact.
- `MCInventoryDocLate`: an acknowledgement after `ack_timeout` is ignored. An
  object stored that late and deleted before the next listing stays with the
  host.

Read off the code while modelling, without a run:

- `src/queue.rs:137` counts only the window, so deliveries taken out and not yet
  settled come on top of `max_in_flight` (lines 5-6, 85); the receiving thread
  also acks and releases (320, 325, 356, 371; lines 60-63 give that to the
  settling thread); when the settling thread does not start (259), the receiving
  one goes on without anybody to release what it holds.
- `src/ffi.rs:1689`: past five seconds a cancel returns with a callback still in
  flight, which `NoCallbackAfterFree` therefore excepts (lines 1644-1647 do not);
  a task aborted before its first poll is warned of as not quiescent.
- `src/ffi.rs:158` and `1718`: the guard is a local of the task's body and signals
  before the stream and the sink the future captured are dropped. Lines 115-118
  and 197-204 have the signal come when the task "fully unwinds" and the future
  "has fully unwound". No callback can follow, but the `Drop` of the plugin's stream
  may still run when the cancel has returned. `CancelStops` says what holds.
- `src/plugin_log.rs:54`: `drop_instance` waits for a write lock whose readers the
  standard library may let in first, so that under logging without a pause
  nothing bounds the wait; no property claims it returns.
- `src/ffi.rs:1478`: an instance made between the free of a box and its detach can
  get the address and lose its entry to that detach; two live instances without
  a size lose theirs together. No freed bridge is called, but a live instance's
  log events are lost.
- `src/cluster.rs:578`: `renew` does not look at `released`; lines 598-599 call it
  a no-op after a release. `src/cluster.rs:139` and `608` take an empty answer for
  success and any other for an error; the slots of `src/macros.rs` answer
  `{"ok":null}` on success and empty after a panic. So `publish` and
  `lease_release` are read the wrong way round.
- A panic is read as a value where the slot's empty answer is one.
  `src/cluster.rs:105-117` makes of an empty `node_info` a placeholder and of an
  empty `list_peers` no peers; in `src/macros.rs`, `serves_any_namespace` (2414)
  answers 0 as for false, `listen_address` (4692) and `render_text_exposition`
  (1722) an empty string as for none, the schema slots (720, 742) `RNone` as for
  no schema, and `kind` and `name` the empty text. Bad arguments are read as a
  value where the slot has a fallback (`get` of a cache, `filter_and_enrich` of
  a catalog, `stats` and `sweep_expired`). `Concealed` in `ReadsAgree` lists
  these, and the next one, with null handles, is in `Denied`.
- A streaming body becomes a 500 on the buffered slot over the FFI
  (`src/macros.rs:1197-1212`), and on `handle_streaming` without a runtime or the
  `streaming` feature (`src/ffi.rs:84-88, 146-153`); the entity's stream is
  dropped.
- `src/macros.rs:773` says `audit_metadata` answers `{}` on a panic; the slot
  answers an empty string.
- A `watch`, `subscribe` or stream start that returns a null `WatchHandleBox`
  reaches the host as handle 0, which is a failed start; only
  `execute_streaming` maps it to a sentinel.
- A gate whose arguments do not decode is run on null instead of denying.
- `src/host_handle.rs:44-47` says a static handle runs under `spawn_blocking`;
  `src/adapters.rs:17-19` says the adapters call the entity without it. On a
  runtime's worker `block_on` panics (`src/host_handle.rs:1091`), and in a static build
  nothing contains it.
- `src/host_handle.rs:97-101` says some services answer that they are not
  implemented; the code forwards them to the host.
- `register_static` registers entities one by one and stops at the first
  error; the earlier ones stay registered.
- In `src/sql_guard.rs` quoted text after a `;` is blank, and so is no second
  statement.
- `ToolCallResult::metadata` of `src/testing.rs` is documented as collected from
  the allow decisions and is always empty.

## Not modelled

- Templates: a pure function of text whose correctness is its formatting. The
  declaration macro: compile-time assembly without behaviour.
- `walk` with its limits, event payloads and ids, the formatting of log fields
  and metrics: data no property here tells apart.
- Panics of a `QueueSource` (they end a thread silently) and of an inventory's
  `list`; the leases of messages inside a `receive` that fails; listings that
  change while they are read.
- A guard dropped inside its own callback: it would wait for itself, and the
  rule that a guard lives in a call or in the instance excludes it.
- The context builders and the stub host table of the mock gateway, which hold
  constants.

What is left to do along these lines: `walk` as an algorithm with its partial
listings feeding `Inventory`; several instances of `PluginInstance` over one
`PluginLog`; leases of `ClusterClient` as guards of an instance.
