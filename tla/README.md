# A TLA+ model of Portail

Portail is a Gateway API proxy: a Kubernetes **controller** watches Gateways,
routes and Services, translates each Gateway into a config *snapshot* and serves
it, over a signed long-poll protocol, to that Gateway's **data planes**, which
apply it and proxy HTTP, TLS, TCP and UDP. This directory models the parts whose
correctness depends on the order in which several tasks, processes or messages
act, checks them with TLC on small instances, and proves the most important
results with TLAPS for every instance.

Paths below are relative to `src/src/`.

## 1. Inventory

| component | state | operations | what makes it correct |
|---|---|---|---|
| leader election (`kubernetes/controller/leader.rs`) | role, last renewal, observed record and when it changed | campaign round (GET, create/replace), step down, release | at most one leader; a leader is the Lease's holder; it stops before anyone may take over |
| watches (`controller/watch.rs`, `mod.rs`) | a store and a `listed` flag per kind, waiters | list, watch event, relist, failure, discovery of an optional CRD | no pass on half-listed caches; every change leads to a pass; no waiter sleeps on |
| reconcile (`controller/reconcile.rs`) | the queue, one pass at a time per Gateway | publish half, finish half (status), forget of deleted Gateways | what is published is of the Gateway that exists |
| translation (`controller/translate.rs`, `validate.rs`, `reconciler/`, `converters.rs`, `reference_grants.rs`, ...) | last good certificates, named ports, network CIDRs, route verdicts | one pass over the caches | the plan is what the objects say now; a cache is never older than what it was told of |
| hub (`controller/hub.rs`) | one slot per Gateway name: the snapshot and its watchers | publish, remove, retain, subscribe | no slot outlives its Gateway; none vanishes under a live one |
| provisioning (`controller/provision/`, `params.rs`) | record of what was applied, lagging caches | preflight, apply, skip, delete, release | never takes or deletes another's object; ports stay as they are; what is wanted comes to be there |
| Programmed (`controller/programmed.rs`) | none of its own: reports, publish times, leadership | status inputs, keep windows | no flapping on failover, no stale Programmed |
| status writes, class pass (`status.rs`, `controller/gatewayclass.rs`) | what the apiserver holds, what the reflectors delivered | conditional patches, removal of departed Gateways' entries | statuses settle on what the spec says; nobody else's entry is touched |
| sync server (`controller/server.rs`) | connections, slots per peer, holds, lapse deadlines | accept, read, poll, supersede, expire, answer | a 404 only for a Gateway that went; slots and holds come back on every way out |
| report store (`controller/reports.rs`) | last report per instance | record, live, retain | a report never claims more than its sender did |
| authentication (`controller/auth.rs`) | verdict cache, review permits, allowance per peer | pre-check, cached, review, remember | nobody is admitted whom a review in the window did not admit; one peer cannot use up the reviews |
| CA and signatures (`controller/ca.rs`, `sync/signed.rs`) | CA Secret, published ConfigMap, held CA | load, create, publish, sign, verify | one CA for all replicas; an answer is believed only for the poll it answers |
| data plane sync loop (`dataplane/mod.rs`, `remote.rs`) | `have`, `report`, `current`, `refused`, kept connection, backoff | poll, serve, refuse, gone, reapply, leave | serves the last usable snapshot, reports what it serves |
| applier, listeners, TLS plans (`dataplane/apply.rs`, `addresses.rs`, `proxy/data_plane.rs`, `tls.rs`) | last fingerprint, accept loops, plans, readiness | apply, clear, bind, close, death, rebind, drain | the live table is of the applied config; readiness says what is bound; a port serves its own certificates |
| DNS refresh (`dataplane/dns_refresh.rs`) | the published (config, table) pair | tick: rebuild, two compare-and-swaps | never brings an older config back; keeps working |
| HTTP worker and pool (`proxy/worker.rs`, `backend_pool.rs`) | buffers of a connection, idle backend connections | read head, route, forward, relay, retry, drain | a request is acted on once, answered by its own answer, whole or visibly cut |
| heads (`proxy/http_parser.rs`, `http_filters.rs`) | none | parse, strip, filter, assemble | proxy and backend read one head alike |
| HTTP/2 (`proxy/h2_bridge.rs`), framing (`proxy/chunked.rs`) | streams, pipes, permits, stall timers; scanner state | replay of a stream as h1; observe a body | bounds hold whatever the client does; ends of bodies agree |
| routing (`routing/`, `config/core.rs`, `config/compile.rs`) | immutable tables, health read while choosing | build, search, choose | the most specific rule; the configured shares |
| health registry (`proxy/health.rs`) | an entry per failed backend, the `tracked` flag, a probe per ejected one | record_failure, record_success, spawn_probe, run_probe, prune | every ejected backend is probed and recovers |
| UDP sessions (`proxy/udp_worker.rs`) | session map per listener, shared budget, remembered table | forward, open, send, reap, relay | no leaked slot, no datagram to an unrouted backend |
| rate limiter (`rate_limit.rs`) | a packed 64-bit bucket per client | check, sweep, reconfigure | at most burst + rate x time granted, across the clock's wrap |

Interactions. The elector gates passes and polls. Watch events and reports queue
passes; a pass publishes into the hub, which wakes held polls; an answer is
applied by the data plane, whose report comes back with its next poll and queues
a pass again. Deletions run no pass: a task forgets what the store no longer
holds. In the data plane the applier and the DNS refresh swap one lock-free
table cell; each swap prunes the health registry; request tasks and UDP loops
read the table and report backend failures.

Hard behaviours: lost or late Lease writes; passes that outlive their Gateway;
a Gateway recreated under its name; polls superseded, lost or answered late;
failover with an empty hub; refused snapshots; the two-cell publication; the
fast-path flag outside the map's locks; probes of pruned entries; slots carried
across awaits; table addresses reused; pooled connections that close under a
request; answers cut in the middle; clients that stall, reset or never read;
clocks that wrap; objects replaced between a check and a write; cached verdicts
and answers that outlive what they say. `PROJECT.json` lists each at its line
under `hazards`, with the properties that would catch it.

## 2. Modules

| module | models | checked by |
|---|---|---|
| `LeaderElection` | `leader.rs` and the apiserver's optimistic concurrency | run `leader`; `LeaderProofs` |
| `GatewaySync` | `reconcile.rs` (publish, forget), `hub.rs`, `server.rs` (poll), `reports.rs`, `dataplane/mod.rs`, `remote.rs` composed, for one Gateway | runs `sync`, `sync_*`; `GatewaySyncProofs` |
| `ServedConfig` | abstract: what the live route table promises | implemented by `RouteRefresh` |
| `RouteRefresh` | `apply.rs` (table and pair), `dns_refresh.rs` | run `datapath`; `RouteRefreshProofs` |
| `HealthRegistry` | `health.rs` | run `datapath`; `ProxyProofs` |
| `UdpSessions` | `udp_worker.rs` | run `datapath`; `UdpSessionsProofs` |
| `HttpWorker` | `worker.rs`, `backend_pool.rs` | run `proxy`; `HttpWorkerProofs` |
| `RateLimit` | `rate_limit.rs` | run `proxy`; `DataPlaneProofs` |
| `Listeners` | `data_plane.rs`, `apply.rs` (listeners), `tls.rs` (plans), `addresses.rs` | runs `proxy`, `dead_loop` |
| `Routing` | `config/compile.rs`, `config/core.rs`, `routing/`, `request_processor.rs` | run `proxy`; used by `Attach` |
| `Heads` | `http_parser.rs`, `http_filters.rs`, heads in `worker.rs` | run `proxy` |
| `Chunked` | `chunked.rs` | run `proxy`; `DataPlaneProofs` |
| `ClientStream` | `h2_bridge.rs`: the client's stream | run `proxy`; `DataPlaneProofs` |
| `H2Bridge` | `h2_bridge.rs`: streams, pipes, permits | run `proxy`; `ProxyProofs` |
| `SyncTransport` | `server.rs` (connections), `remote.rs` (connection, backoff) | run `proxy`; `DataPlaneProofs` |
| `Attach` | `reconciler/`, `converters.rs`, `reference_grants.rs`, `services.rs`, `validate.rs` | run `control` |
| `Translate` | caches of `validate.rs`, `services.rs`, `addresses.rs` in the order of `translate.rs` | run `control`; `ControllerProofs` |
| `Statuses` | `status.rs`, `reconcile.rs` (finish), `gatewayclass.rs` | runs `control`, `stale_entries`; `LeaderProofs` |
| `Programmed` | `programmed.rs`, `reports.rs`, `Lapses` of `server.rs` | run `control`; `ControllerProofs` |
| `SyncAuth` | `auth.rs` | runs `control`, `revoked_late`; `ControllerProofs` |
| `SyncTrust` | `ca.rs`, `signed.rs`, answers of `server.rs`, checks of `remote.rs` | run `control`; `ControllerProofs` |
| `Provision` | `provision/`, `params.rs` | run `control`; `LeaderProofs` |
| `Watches` | `watch.rs`, wiring of `mod.rs`, gates of `reconcile.rs` and `gatewayclass.rs` | runs `control`, `watches_unlisted`; `ControllerProofs` |

`MC*` modules extend specifications for TLC, name the instance and add at most a
symmetry set. `MCDataPath`, `MCProxy` and `MCControl` hold several modules that
share no variable: a behaviour begins with one `part` and takes its steps only, so a
run is the disjoint union of the parts' state graphs and costs their sum, not their
product; a run about one part names it (`RunParts`, `Parts`). The parts a behaviour
does not take stay in an initial state in which no fair step of theirs is enabled.
Modules of the last two begin from one of several *worlds* (scripts of
clients, budgets of outside events, clusters), so that each question is asked
where it is sharp and the union stays small.
Operators described as a *mutant* or *variant* of the definition that follows
them are plausible bugs of the code; no specification uses them. Each property is
known to fail when its definition is replaced by one (`mutants` in
`PROJECT.json`).

### LeaderElection

A process is an identity; a restart is another process, as the random suffix of
`identity()` makes it. `pc` is where `run_campaign` awaits: the GET (`get`,
`got`), the write (`put`, `ok`, `conflict`), the sleep, the release. A write is a
message with the resourceVersion it was based on; it is applied or refused at any
later time, also when its sender gave up or died, or never. `due` is the
deadline `started + budget` or the end of the sleep. The clock may only pass a
due timer by `SLACK`: the one timing assumption, `RENEW_DEADLINE + RETRY_PERIOD +
3 SLACK < LEASE_DURATION`, holds in the code (10 s + 2 s < 15 s) as long as a
timer is late by less than a second. What a runtime frozen for longer would do
is outside the model, as in every lease. `Held(p, started)` identifies a record:
the code compares whole `LeaseSpec`s, of which `renewTime` is the part that
always differs.

### GatewaySync

The Gateway is `<<uid, revision>>`, the revision standing for everything its
translation reads; a snapshot's version, a hash of the content, is that pair.
`Rejected` revisions do not translate, `Unusable` ones are refused by the data
plane. The controller's store lags the cluster (`Watch`). A pass has the steps
between which the code awaits or another thread may take a lock: begin, publish,
the stale check, the removal. The forget task reads the live Gateways and retains
in two steps. A poll goes: served check, record (`Admit`), subscribe with
re-check, hold, answer. Every instance has two request slots, the one it awaits
and one it gave up on, which the server may still be working on: that is how a
late report overtakes the leaving one. `epoch` stands for everything else in a
report that may move (listeners, addresses, DNS). The leading and synced checks
are taken together with the poll's arrival; a failover drops the hub, the reports
and every poll, and the new leader lists its caches and is told it gained. A kind is
marked listed before the reflector takes the end of its list into the store
(`controller/mod.rs:154-162`, `watch.rs:597-602`): `List` and `Fill` are two steps,
and between them the controller counts as synced over an empty store. A poll that
comes just then is told that its Gateway is gone, although `server.rs:162` calls a
404 "only authoritative once the store is complete". `GoneOnlyWhileUnstored` names
this window (`~stored`) and allows no other; the data plane closes its listeners and
has its Gateway again with a later poll (`Converges`).

What other modules detail: authentication (`SyncAuth`), signatures (`SyncTrust`;
an unverifiable answer is a failed poll here), connections and backoff
(`SyncTransport`), the finish half of a pass (`Statuses`), the report liveness
window (`Programmed`).

### RouteRefresh and ServedConfig

`routes` and `published` are the two lock-free cells; every load, store and
compare-and-swap is a step. A table carries an identity, as the swaps compare
`Arc`s. An apply of an unchanged config that is already served does nothing; a
build failure keeps the old table and is remembered (`last`). The route table is
built leniently (`config/core.rs`, `BuildPolicy::Lenient`): unresolved names give
no backends rather than an error, so whether a config can be built
(`Unbuildable`) does not depend on DNS. `ServedConfig` is what readers may rely
on: the table is of the config last applied, and between two applies it is only
replaced by one resolved after more changes of DNS. That contains `ServesTheApplied`
(a theorem of its own) and says more: a refresh that went by the config and not by the table would keep
the config and still bring back older addresses when the same config is applied
again meanwhile.

### HealthRegistry

Calls that hold the DashMap shard throughout are one step; `prune` is split at
each access of `tracked` and each shard (`PruneRetain`, `PruneScan`,
`PruneLower`, `PruneRescan`, `PruneRaise`), `spawn_probe` at its attach, a probe
at its sleep and its connect, and an abort lands later than it is asked for. A
probe's first sleep (10 s) outlasts the few instructions between spawning it and
attaching its handle: a probe that ended before it was attached is not modelled.

### UdpSessions

A recv loop handles a datagram from the load of the table to the first await in
one step, since nothing else touches its map; swaps, the other loops and reply
tasks go on during the await. A table is known by its address alone, and an
address is free again unless the live table or a listener's weak reference holds
it (`Free`): this is what makes the address comparison sound, and the variant
without the pin breaks it. Selection is a choice among the port's backends with
positive weight. `idle` and `dead` stand for the idle timeout and an ended reply
task. A cap per listener is the case of one listener.

### The data plane: HttpWorker, Heads, Chunked, H2Bridge, ClientStream

`HttpWorker` has a task per client connection and the backend connections it
uses. Bytes are positions of the client's stream, so a buffer is an interval and a
pipelined request, a split head or a body that arrived early needs no data of its
own; a backend connection may close or reset at any moment, with the request
unseen, half read, acted on or half answered. Budgets fire whenever the code waits
under one. Mirrors are left out. `AnswersWhole` excuses every 408, also that of
the body's deadline, of whose lingering close nothing is checked.

`Heads` takes one head through parser, filters and assembler and compares how the
proxy and the receiver read it; the limit of recorded spans (`MaxStripSpans`, 8 in
the code) is 1 so that the second way is taken. The code reads the names on a
Connection line through `header_value_if`, which yields nothing for a value that is
not UTF-8 (`http_filters.rs:485-491`), though the parser takes one
(`http_parser.rs:157`): the fields it names are then forwarded, against
`http_filters.rs:222-224`. The model has such lines (`text`), strips what `Collected`
collects, and the property asks no more of them. `Chunked` runs the observer beside
the peer that is sent the same bytes; peers end a line at a bare LF or only at CRLF
and have the proxy's integer width or a wider one. `SizeBase` 2 and `SizeTop` 2
stand for 16 and 2^60: what matters is that a size may have more digits than fit.
The stream is unbounded.

`H2Bridge` is one task per stream between the h2 library (external) and the engine.
The bridge writes the whole request before it reads the answer: with both pipes
full it waits for the engine and the engine for it (`EveryoneWaits`). Only the
engine's write budget ends that, and with `idle_body_timeout` 0 nothing does; the
property allows the wait in that case alone. Request trailers are dropped by the
code, and a content-length that does not match is the library's to refuse.
`ClientStream` counts time in ticks and polls a task whose timer is due before the
next tick.

### Listeners, Routing, RateLimit

`Listeners` splits an apply at each lock of the data plane and each access of the
ready flag, and the end of an accept loop into its four steps. A loop that has
bumped the exits watch but whose task is not finished yet still counts as alive to
an apply that runs at that instant (`proxy/data_plane.rs:572`): the apply stores
ready and clears the rebind timer over a dead endpoint, and nothing tells it again.
Run `dead_loop` shows it; `ListenersHold` says what is true of the code, that no other
loss is forgotten (`misread` is the history of what such a look took for live).

`Routing` builds tables from configs and checks search and choice against
reference definitions stated over the config (the rule that outranks the others;
the k-th turn of a rotation by weight). A choice reads one backend's health per
step. Tables are swapped under requests, for another config or for other addresses
of the same: a request keeps the table it loaded and is judged by that one's config
(`under`), a rule's rotation goes with its table and a port's or a name's goes on in
the next. `RateLimit` has the two-field bucket with a modulus of 14 for 2^32; the
client's first request comes after `IdleUntil`, so that a stretch of use crosses
the wrap within the bound of the clock.

### The controller: Attach, Translate, Statuses, Programmed

`Attach` is one pass as operators: attachment of routes to listeners, grants,
backends, filters, policies, conflicts of listeners. Its reference is stated per
object and not in the order the code goes. `Translate` is what passes share. A good
version of a Secret that was read but superseded in the store before `record` is
not recorded, as the code says. `Statuses` has what the apiserver holds and what
the reflectors delivered; a patch is conditional on the version read. The class
status for missing parameters is left out. One window stays open in the code:
between the `current` check (`reconcile.rs:379-384`) and the route writes the Gateway
may be deleted or recreated, and the stale pass writes its entries all the same. Run
`stale_entries` shows it against the comment above the check. Of what stays,
`StatusesSettle` says that a class pass that read the objects as they are left none
behind (`swept`), and `LeftBehindOnlyInFlight` that at rest an entry of a departed
Gateway is one whose write crossed the departure (`late`): the check keeps out every
other, and the class pass's resync (`RESYNC_SECS`) removes these.

`Programmed` counts ticks; work due is done before the next. A pass publishes what
it translated whatever provisioning met (`reconcile.rs:297-311`). A data plane not yet
heard of by a new leader that serves an older version reports that version when its
hold is over, and `TAKEOVER_KEEP` no longer applies once any report is live
(`programmed.rs:329-333`): a version the new leader published before (`Overtaken`)
then takes the condition to Pending and back. This flap on failover is the code's,
although `TAKEOVER_KEEP` is there to avoid it; the property allows it
(`course = "overtaken"`) and asks that Programmed is back with the pass after a data
plane reported the version.

### SyncAuth, SyncTrust, SyncTransport

`SyncAuth`: a review is evaluated at some time between its request and its answer,
and the terms of its verdict count from the answer. `auth.rs:63-68` says that a
deleted pod's token stops working within a TTL, two with the stale grace; run
`revoked_late` shows one that works longer. What the code guarantees, and
`AdmissionIsSound` states, is a TTL, the stale window and up to three review timeouts
after the pod's deletion. Permits and the counts per peer are guards held by requests
and read off them.

`SyncTrust`: every apiserver call is a step and may fail or take effect unanswered.
A call of a stopped replica is assumed not to land later. A replica of a former CA
that is stopped right after patching the ConfigMap leaves the former CA published
until another replica loads. Altered answers are not modelled: a signature is the
CA and the message.

`SyncTransport`: one pod per node; timers fire on time, while the accept loop and
the peers may be slow. A connection's age is bounded by three peer timeouts, the wait
for a renewal's permit and the TokenReview (a `ReviewTimeout` each, `auth.rs:322` and
472: `authenticate` runs under no other timer), the hold and a stall per unit of the
answer beyond the socket's room: `StallGuard` restarts with each progress, so a slow
reader gets that much. What an answer says,
and who is admitted, are the other two modules'.

### Provision, Watches

`Provision` has one object per kind, since a Gateway's four share a name. Every call
may fail, or take effect with its answer lost (`ApplyFails`, `DeleteFails`). A
server-side apply without force conflicts only where another manager set a field we
set (`claims`): a foreign ServiceAccount or PodDisruptionBudget that sets none, created
between the preflight and the apply, is taken over, although `provision/mod.rs:722-723`
says that it "conflicts instead of being taken over". `ProvisionHolds` protects the
objects that claim a field of ours; a Service is taken to set its ports and a
Deployment its selector. Label drift on a Deployment or PDB does not move its
generation and is not undone by the code; a conflict with a foreign object that is no
Service clears at the next trigger or resync; passes that each begin before the
Service cache caught up can make targets alternate (`lags` bounds them).

`Watches` drives all reflectors from one task, as the code does. `observe` marks a
kind listed, and wakes those who wait, before the reflector puts the list in the
store: for that instant a task on another thread finds all kinds listed and the last
one's store empty. `watch.rs:23-25` says that nothing is published before every kind
listed; run `watches_unlisted` shows the pass that reads the empty store (`Complete`).
What holds, and `WatchesHold` states, is that one kind at most is arriving so, that all
passes miss that kind alone, and that a later pass reads it (the synced trigger). The
end of a list asks for no pass, so a kind listed again (a relist, a CRD installed late)
waits for the requeue: `relists` exempts it and the property asks that the requeue is
set. A Gateway that such a list brings first may have had no pass at all: its object
is handed to the queue before the list is in the store, and a pass that comes in
between finds no Gateway and does nothing; only the debounce of a second keeps it
away. The property says so (`passRead = Unread`). One Gateway stands for all; the
debounce only delays.

## 3. Runs

| run | question | bounds and why they are enough |
|---|---|---|
| `leader` | mutual exclusion, holder, timely step-down, no early takeover | two replicas, clock 0..6 with LEASE_DURATION 6 and all other durations 1 (the tightest allowed): the clock's end is exactly when a takeover of the first renewal becomes possible; two writes in flight let a late write overlap a new one. Replicas are symmetric |
| `sync` | truth of answers and reports, no orphan slot, eventual delivery | one Gateway and one data plane, from one of eight mixes of outside events: an edit to an undecodable or a rejected revision with a moved report or a class change; a moved report with a stop; a failover with a change of the class's owner; a lost poll; a restart of the data plane; a deletion and recreation with a failover or a class change. Each pair is one whose events can get in each other's way |
| `datapath` | probes and recovery; the two cells of the route table; UDP slots and routing | health: one backend, two prunes and two reporters at once, threshold 2, three probes: two episodes overlap with a prune between. Refresh: two good configs and a bad one, two DNS answers, three changes, five tables: a refresh can straddle an apply and a clear, or two applies of one config. UDP: two listeners on one slot, one client of each, two backends, three tables at three addresses, three datagrams |
| `proxy` | the data plane's parts, see below | |
| `control` | the controller's parts, see below | |

`proxy` (1.3 million states):

| property | what it says | instance |
|---|---|---|
| `ActedOnOnce` | a request that is not idempotent reaches a backend whole at most once | scripts of up to three items per client (keep-alive, bodies, expect, upgrades, malformed and oversized heads, junk), eleven kinds of answer, two backend connections, one idle place; two clients on one pool |
| `OneRequestAtATime` | a backend connection always reads a prefix of one request | same |
| `AnswersMatch` | answers come in order and are the request's own | same |
| `AnswersWhole` | a cut answer shows, a whole one survives the close | same |
| `NoLostWakeup` | a drain wakes every idle connection | same, with a drain at any step |
| `GrantsBounded` | burst and accrual bound what is granted in any stretch | two requests at once, modulus 14, clock to 15. One grant is a whole burst here, so of the sweep that drops a bucket in use the run says little: the theorem covers it |
| `ListenersHold` | readiness is true or another try is owed; a port serves its own certificates | two addresses, one pinned; snapshots that add, drop, share and change ports and rotate certificates |
| `RoutedAsConfigured` | the best rule of the table a request loaded, the configured share | two requesters, health changing between reads; tables swapped for another config, for other addresses or for no routes at all |
| `HeadsReadAlike` | receivers read the heads as the proxy did | heads with doubled, listed, malformed, hop-by-hop and non-text fields; one span |
| `EndsAgree` | every peer ends the body where the observer does | reads of up to two bytes, no bound on the stream |
| `StallsBounded` | a client that does not read is let go in time | budgets 0 and 2, buffers of 1 and 3 |
| `BridgeHolds` | whole requests and answers, bounded engines, no stream that waits on nobody | one permit; one stream with every kind of body and answer, or two streams; pipes of 2; with and without a budget |
| `ConnectionsHold` | slots, holds and connections add up over every exit, and a connection's age is bounded | four connections for three slots; one or two data planes, or two nodes that stall; lost answers, stops, refused accepts |

`control` (1.7 million states):

| property | what it says | instance |
|---|---|---|
| `PlanIsCurrent` | a pass configures and reports what the objects say, whatever verdicts were kept | six Gateways with up to five listeners, routes of four kinds, grants, policies, one edit or recreation between two passes |
| `CachesAreCurrent` | last good pair, named ports and CIDRs are never older than what was told | two Gateways' passes side by side, rotations, a recreation, DNS changes, failed reads |
| `StatusesSettle` | no foreign entry is lost; at rest every status is of the specs as they are | two Gateways, one object, another controller, conflicts, lost writes, a class change, a deletion |
| `LeftBehindOnlyInFlight` | at rest a departed Gateway's entry is one whose write crossed the departure | same |
| `ProgrammedIsHonest` | no flap in good order but an overtaken failover's, which ends with the version's report; taken back in time when none is left | two data planes, hold of 2, eight ticks, new versions, a failover, faults of provisioning, silent deaths |
| `AdmissionIsSound` | revoked in time; forged tokens keep no running data plane out | two callers, two pods, six tokens, cache of two, one permit per pool |
| `TrustHolds` | one CA; an answer is believed for its poll only | two replicas, lost creates, stops, answers late and twice |
| `ProvisionHolds` | wanted objects come to be, others' that claim our fields are untouched, ports stay | one Gateway respecified and recreated, objects edited, deleted and replaced by bare or claiming ones, lags, refused calls and lost answers |
| `WatchesHold` | synced but for one list on its way, nobody sleeps on, none left behind | a required kind and an optional one, a Gateway there from the start or created later, failed discoveries, relists, a CRD installed late, edits during a list, a late lease |

The bounds are the constants named `Max...` and the budgets of the worlds. Most stop *outside* events (edits,
failures, datagrams, swaps, time). Three stop steps of the program: `MaxInFlight`
a Lease write while two are on their way, `MaxTables` a table build once five
were built (`ComesToBeFresh` is therefore asked of behaviours that stay below),
and the set `Probe` a fourth probe task alive at once; of the runs above,
`MaxConns` and `MaxLinks` stop a further connection. All runs use
`CHECK_DEADLOCK FALSE`: once the outside events are used up a settled system has
nothing left to do.

Seven runs are expected to fail. Each checks what a comment of the code says and
TLC shows a behaviour of the code that contradicts it:

* `sync_forget_race` - `forget_deleted_gateways` drops the slot of a Gateway
  recreated between its read of the store and `hub.retain`; its pollers are told
  it is gone, until the next pass. "Stop serving the Gateways gone from the
  store" (`reconcile.rs:213`).
* `sync_old_snapshot` - a Gateway deleted and recreated with a spec that is
  rejected, before the forget task ran, goes on serving the old uid's snapshot:
  the case `reconcile.rs:316-317` means to exclude.
* `sync_late_report` - a poll given up before leaving is admitted after the
  leaving one, and the instance counts as live again until it lapses
  (`dataplane/mod.rs:466-467`).

* `dead_loop` - "A dead accept loop does NOT count: readiness and Programmed must go
  false the moment a listener can no longer accept" (`data_plane.rs:910-912`). An
  accept loop speaks on the exits watch before its task is finished; the apply this
  causes may still see `!is_finished()`, take the endpoint for bound, store ready and
  clear the rebind timer. Nothing accepts there until the next apply for another
  reason.
* `stale_entries` - "Route entries name the Gateway, not its uid: none from a pass of a
  Gateway deleted or recreated since" (`reconcile.rs:377-378`). The check is before the
  writes, which are awaited one by one: a Gateway that goes meanwhile is written into
  the objects' statuses.
* `revoked_late` - "a deleted pod's token stops working within" the TTL, "a revoked token
  works at most two" (`auth.rs:63-68`). The terms count from a review's answer, and the
  pod may be deleted while it is on its way; with `StaleTtl` equal to `CacheTtl`, as in
  the code, a request is accepted after both.
* `watches_unlisted` - "Nothing is published before every kind listed: a translation
  would miss the objects of one not listed yet" (`watch.rs:23-25`). A kind is marked
  before its list is in the store (`watch.rs:597-602`); a pass in between reads it empty.

The first three repair themselves with the next pass, edit or lapse (the first two
races are inside `sync` too, whose `Converges` asks nothing of a Gateway while its
spec is rejected), the last with the synced trigger's pass, and stale entries with the
class pass's resync.

Four disagreements of the same kind have no run of their own. The properties state what
the code does, name the exception and allow no other: a 404 in the instant before a list
is stored (`GoneOnlyWhileUnstored`), the names on a Connection line that is not text
(`HeadsReadAlike`), the flap of an overtaken failover (`ProgrammedIsHonest`), and the
takeover of a bare ServiceAccount or PodDisruptionBudget (`ProvisionHolds`); the
sections of the modules quote the lines.

### Fairness

`proxy` and `control` check invariants alone, and state "eventually" as "at rest"
where it matters (`StatusesSettle`, `ProvisionHolds`, `WatchesHold`, `Rests` of
`H2Bridge`): when nothing is left to do, what should have happened has.
`GatewaySync`: every task that has a step ready takes it (tokio polls all ready
tasks); watches deliver, a leader is eventually elected and synced, polls, holds
and retries end because each has a timer. Nothing is assumed of users, failures
or stops. `HealthRegistry`: prunes, spawns, probes and aborts go on; nothing of
traffic, so recovery comes from probes alone. `RouteRefresh`: the applier and the
tick finish what they began and the ticker ticks. `UdpSessions`: sends and opens
end; a reap that is due again and again is taken (strong fairness), because the
`select!` is `biased` and polls the reap tick before the socket, so a flood of
datagrams cannot starve it.

## 4. Proofs

| module | theorems | argument |
|---|---|---|
| `LeaderProofs` | `TypeCorrect`, `MutualExclusion`, `LeaderIsHolder`, `StepsDownInTime`, `TakeoversWait` (`LeaderElection`), `ProvisionCorrect` (`Provision`), `StatusesCorrect` (`Statuses`) | below |
| `GatewaySyncProofs` | `TypeCorrect`, `GoneIsTrue`, `SlotsAreOwned`, `ConfirmationIsTrue`, `ReportsAreHonest` | below |
| `RouteRefreshProofs` | `TypeCorrect`, `AppliedConfigServed`, `PublishedTableLive`, `Refinement` | below |
| `UdpSessionsProofs` | `TypeCorrect`, `NoSlotLeaks`, `NoStaleBackend` | below |
| `ProxyProofs` | `ProbesAndEjected`, `FlagIsHonest` (`HealthRegistry`), `BridgeCorrect` (`H2Bridge`) | below |
| `DataPlaneProofs` | `GrantsAreBounded` (`RateLimit`), `ConnectionsCorrect` (`SyncTransport`), `StreamBounded` (`ClientStream`), `FramingAgrees` (`Chunked`) | below |
| `HttpWorkerProofs` | `RequestsActedOnOnce`, `RequestsStayApart`, `AnswersAreWhole`, `WakeupCorrect` | below |
| `ControllerProofs` | `TranslateCorrect`, `TrustCorrect`, `AdmissionCorrect`, `WatchesCorrect`, `ProgrammedCorrect` (`Translate`, `SyncTrust`, `SyncAuth`, `Watches`, `Programmed`) | below |

**Election.** Mutual exclusion is not inductive: nothing in it says why a standby
cannot have a write under way. `IInv` adds: remembered instants are past
(`PastTimes`); a process leads exactly while its campaign has renewed
(`RoleOfPc`); what is due follows from the last renewal (`Timers`); a record
carries the start of one of its holder's attempts and one on its way is nowhere
else (`Stamps`, `InFlight`), so a record that is observed again is the same
write; nobody counts a record down from before it was written (`Countdowns`); a
write that can still be applied takes another's Lease only after its expiry
(`Effective`). Then a leader holds the Lease (`Holders`), and two leaders would
both be its holder. Assumed: `TimingAssumption` and `NoOne \notin Proc`; the
bounds on time and writes in flight play no part.

**Route refresh.** A compare-and-swap that succeeds has found the very table the
tick's pair holds. `IInv` says that identities tell the tables in hand apart
(`Identities`), that a table built and not stored is nowhere else (`Unseen`),
what each writer holds at each step, and who publishes when the tick swapped and
an apply came in between (`Handover`); a table the tick is to swap in is resolved
after more changes of DNS than the one of its pair (`Timely`). `Refinement` maps every
step to an apply, a clear, a refresh or a stutter of `ServedConfig`.

**UDP sessions.** `IInv` adds to the count that a session of the current
generation is routed by the live table whenever the listener remembers that
table (`Checked`), that a loop in an await is sending for a session it holds or
opening one it does not (`InHand`), and that the opening one was judged by the
remembered table (`Judged`). A swap takes an address no listener remembers, so it
makes the premise of `Checked` false for all of them. Assumed: listeners and
clients are finite, `Nowhere` is no address.

**Health registry.** Neither half of `ProbesMatch` stands alone: an abort meant for
one probe must not hit another. `ProbeInv` adds that the probe a task is about to
attach sleeps, unaborted, and is in no entry (`Hands`), that no two tasks hold one
(`Apart`), and that an entry's handle is of a probe of its address or of one that
ended (`Handles`); `SpawnProbe` takes a place no entry has a handle of. The flag's
theorem needs only that a report raises the flag in the step that makes the entry,
and that every prune that lowers it looks at every shard again. No assumption on
the constants is used.

**HTTP/2 bridge.** `BridgeHolds` says what an engine that read an end, or a client
told of one, has got; `BridgeInv` says where everything else is meanwhile. Of the
request: the units the engine read, those in the pipe and those of the frame in hand
are the units of the frames taken, and a last chunk is the last piece of the pipe,
after every frame was taken (`RequestOk`, `RestOk`). Of the upload window: every unit
is the client's, under way or in the pipe (`WindowOk`), without which a stream at rest
in the pump could be waiting for window the bridge never gave back. Of the answer:
what the task holds, what the pipe holds and what the engine has left are, in this
order, the rest of its pieces, and the client has the units of the others
(`AnswerOk`), so that a clean end is after the last piece. `PlaceOk` ties the engine's
state to the task's: one that runs belongs to a task that holds a permit, so there
are at most `MaxStreams` of them, and when a stream waits for a permit another holds
it that can move or whose client is still there. A stream is four records; each step
is first shown to keep them (`...Ok`) and then lifted to all streams (`Moves`,
`...Step`). The units of the first n frames are a recursive function; that it is their
running sum is proved by a least counterexample. Assumed: `BridgeAssumption`: the bounds are positive, a
connection has finitely many streams, and no DATA frame is larger than the window (h2
resets a stream whose client sends more).

**Client stream.** `StreamInv` relates each timer to the time it bounds: the stall
timer is armed exactly while writes pend and is due within the budget of their
start (`StallTimer`); the close timer stands at what is left of its budget
(`CloseTimer`).

**Sync of a Gateway.** One invariant carries all five theorems. "Gone only while
unstored" says nothing of the ways a handler comes to answer "gone", so `Present`
lists them for a Gateway that was there all along: a store that was filled holds it
and one that was not holds nothing, no pass is at a step that drops the slot, a forget
that read the store found it live, and no handler has found its slot dropped; a poll is
only past the served check once the store is filled, because the check would have
refused it before. `NoOrphanSlot` needs that a forget which read the Gateway as
live, and lost it to a deletion since, is woken again (`ForgetInv`). A confirmation
is true because the awaited poll carries what the data plane has (`Awaiting`): an
older request's answer is never awaited again. `Honesty` follows a report from the
loop through the polls into the store. `Budget` ties the epochs of reports to the
moves left, which keeps them in their type. Assumed: `BoundsAssumption`. The
theorems say nothing of how large the bounds on outside events are.

**Rate limiter.** `slack` is an exact bucket beside the packed one. The
invariant is that the bucket covers no more (`Covered`): the tokens of the cell,
and what will have accrued since its stamp, are within the slack; a cell with the
slack below the whole burst exists (`cell = NoCell => slack = Cap`), so the sweep
forgets full buckets only. This needs that a stamp is read for what it is although
the clock wraps: a cell is younger than half the modulus (`Young`, which the sweep
sees to), a request's clock reading is recent (`Timely`), and the wrapped
difference of two such times is the true one, or is told to be negative
(`ElapsedIsTrue`, from the uniqueness of quotient and remainder). Limits may change
while requests race. Assumed: `RateAssumption`: finitely many limits, and a sweep
and a request's delay well within half the modulus, as 2^31 ms is to the minute
between sweeps.

**Sync connections.** `TransportInv` counts: free slots, the connections that hold
one and the accept loop's own make `MaxConnections`, a peer's count is the number of
its open connections, free and busy body reads make `MaxBodyReads` (`SlotsOk`,
`PeersOk`, `BodiesOk`). `AgeOk` bounds, state by state, a connection's age and the
time its timer has left, and for an answer adds a stall for every unit written since
the sockets were full, and for the token's lookup the permit's and the review's timeouts;
that needs that no earlier answer is unread when a request is
taken (`RoomOk`). That no poll is handled twice needs that a poll is on one
connection, was sent by its data plane and is not yet handled while it is unread
(`PollOk`), and that what was handled had been sent (`HandledOk`): the retry after a
closed connection is therefore of a number never sent. `HoldsOk` ties a hold that
lasts to its pod's entry, `PlaneOk` what a data plane holds to its state. Assumed:
`TransportAssumption`: the first backoff and the standby's retry are within the hold
(1 s each, against 30 s), a snapshot is at least what the sockets take (a smaller
one never stalls, and the bound then is its first part), and no node is both a data
plane and another.

**Drain.** `NoLostWakeup` says nothing of the instant between a task's registration
and its second look at the flag. `WakeInv` adds it: from its registration until it
is awake again a task has a waker that is registered or already woken, so a call
that comes after the second look finds it; one that came before had raised the flag,
and the look sees it. `RegisterWaker`, `Recheck`, `Unpark`, `CallWaker` and arming
carry the argument; every other step of a task leaves the wait and the watch alone
(`Unwatched`). No assumption on the constants is used.

**Requests and answers.** `ActedOnOnce`, `OneRequestAtATime` and `AnswersWhole` are
proved from one invariant, `HttpInv`, because they rest on one another. That a
request is not got whole twice needs to know what is on the connection it is written
to: `ConnOk` says that it is the beginning of one request, `HoldOk` that it is whole
requests of before until the send and then exactly what was forwarded of this one,
and `PoolOk` that a pooled connection carries whole requests only, lies at one place
and is in no task's hands. So a failed send has completed nothing, and whatever
`send_request_with_retry` sends again was not acted on unless the request is
idempotent and held whole (`ServeOk`, `ActedOk`). Of the answers: only the last may
lack a part, and then its body is being forwarded or a reset is armed (`WholeOk`);
once one announces the close nothing more is served, and the close lingers, is
excused or is a reset anyway (`CloseOk`), where the excuse that the client was done
rests on how much of its stream was read. The positions of the requests in a stream
are a recursive function, `Ends`; that it is their running sum and grows
(`EndsDef`, `EndsMonotone`) is proved by a least counterexample. Assumed:
`HttpAssumption`: scripts are sequences of items, the bounds are naturals.

**Caches of translation.** `CachesInv` says of each pass what it saw of the Secret
and that it is no newer than the Secret, and that equal versions are equal
contents: `made` counts the uids given to Secrets of the name, so that a
recreation is told from an edit. Then a pass that records a pair over another's has
checked it against the same Secret (`CertOk`, `GoodAgo`). Of the ports: an entry is
at least as new as the epoch read before the list (`PortsOk`).

**CA and answers.** `AuthorityInv`: a replica that loaded since the last deletion
has the Secret's CA, whichever of its calls failed or went unanswered; the last of
them to publish makes the ConfigMap agree. `PollInv`: every answer on the wire is
signed over its kind, its poll and what it states (`Sealed`), and if its poll is
the client's, is true of what was served while that poll was under way (`TrueOf`,
`Watching`); a held request is at the leader and is the one that was sent
(`Asked`). Assumed: `TrustAssumption`.

**Admission.** `AuthInv` has two halves. For revocation: every verdict, review and
waiting request carries a bound on the time between the pod's deletion and the
latest it may lead to an acceptance (`BoundBy`); each step hands the bound on with
the timeout it may take. For the flood: a token found good whose pod is there is
remembered as accepted, or is excused by its age, by as many younger ones of its
pod as are kept, or by a cache full of good tokens (`GoodOk`, `Excused`); what
`remember` may drop is `RememberFacts`. An attempt to prove an earlier form of the
property failed for a reason: it excused a token only for as many *recent* good
tokens as the cache holds, but the cache is swept once in a TTL and sheds its
oldest quarter, so verdicts up to a TTL past their age still take up room. A cache
of two is too small for TLC to show it. `OwedAnswer` now counts those too. Assumed:
`AuthAssumption`: finitely many tokens, positive TTL and bounds.

**Caches.** Of `WatchesHold`, "nobody sleeps on" is strengthened to the instant
between a waiter's check and its wait (`AsleepOk`): it is woken because it
registered first. `FilledOk` is why a required kind that counts as listed is read:
it is in the store, or the stream task is at its list's end, which fills it
(`EventOk`, `StreamOk`: a list under way is in its buffer). As the task is at one list
at a time, a synced controller misses one required kind at most, and since the store
of no kind is emptied all passes together miss the same one (`ReadOk`, `AddMissed`).
`ToldOk` is why no Gateway is left behind: after the synced trigger was taken a list's
end under way is a relist, and while no pass is due the last one read what the store
holds, since every change asks for one, or the Gateway came with a relist. `Came` says
that a Gateway seen anywhere exists. Assumed: `WatchAssumption`: the Gateway CRD is
required; the Gateway itself may be created at any time.

**Programmed.** `ProgrammedInv` has two halves. That a Programmed is taken back
(`HonestOk`) rests on a wake that comes in time: a pass asked for, a deadline of
`Lapses` that is two holds after an entry, a tick late at most (`Near`), or a recheck
(`InTime(recheckAt)`); that `keep_until` is in time needs that a Programmed written
before a leader's first publication is the old leader's and that pass is still to
come, at the time of the takeover. That it stays while all goes well (`StaysOk`)
rests on the reports due: a data plane that reported and does not leave runs, reports
before its entry lapses, and serves the version published or one published over
less than a hold ago (`HeardOk`, `Catching`); some data plane reported or will before
the hold of a new leader, or of the one it replaces, is over (`Spoken`). An overtaken
version is Programmed once it is reported because a report asks for a pass, and one that
finds a live report of the slot's version writes it. The proof
corrected the property: it bounded a stale Programmed by two holds and a tick
after the last data plane ran, but a leader's first publication may be delayed by a
rejected pass and then rest on a report nearly two holds old, and `keep_until` keeps
it a hold after that publication. With a hold of two ticks the bounds coincide; with
three, TLC shows the difference. The property now says three holds. Assumed:
`HoldAssumption` (a hold is at least two ticks), `InstanceAssumption` (there is a
data plane) and `ServiceAssumption`; the bound on time plays no part.

**Provisioning.** `ProvisionHolds` speaks of the end of passes; `ProvisionInv` says
what holds within one. A pass and the deletions it queued name objects by uid, and
an object of that uid is the Gateway's own, or was taken over for a later Gateway of the
name: owners only grow (`TryOk`, `DelOk`, `RecordsOk`, `OwnersOk`, `SameObj`), so a
forced apply or a deletion that finds its uid hits nothing of another's. An unforced
apply writes where nothing is, or over an object that claims no field of ours. A call
whose answer is lost either landed or did not, and both keep the invariant. That the
objects settle rests on the events: every write, ours or another's, that changes an
object of the Gateway makes one due (`ChangesMove`), so while nothing is owed, no
retry is set and every cache has caught up (`Clean`) no such object changed since
the pass began; then what the pass found, applied and queued is what is there
(`TryClean`, `DelClean`), and at its end it is what the spec calls for
(`Fulfilled`). Of the ports: the pool holds a free port for each listener
(`PoolSuffices`), the n-th free one exists and differs for different n (`Ranked`,
`RanksDiffer`), and with a target kept only where no other listener claims it the
allocation gives no port twice (`AllocatesSoundly`). Assumed: `PortAssumption` and
`WorldAssumption`: the pool, from its base to the last port, is at least as large as
a Gateway's set of ports (at most 64 listeners against tens of thousands).

**Statuses.** `StatusesSettle` speaks of the time when nothing is under way;
`StatusInv` says what makes it so. Every write, of ours, of a user or of another
controller, raises a version, so what a reflector or a pass holds is what is there
or is told from it (`WasObject`, `WasGateway`; a recreated Gateway by its uid), and
a conditional patch that goes through merges into what is there. A Gateway for which
no pass is asked, whose record is delivered and whose pass did not fail (`Steady`)
was read as it is, and is owed or has the status of its spec (`GatewayRead`); so is
each delivered object that names it or carries an entry of ours for it: the pass
still holds the write it wants or the entry is there (`ObjectRead`). Events keep
that: a write makes the delivered copy differ, and its delivery asks for a pass of
every Gateway the object concerns, which is why the mappers must look at entries as
well as targets. The class (`ClassOk`) and the entries of departed Gateways
(`SweepOk`) are the same argument with the class pass; an entry's removal is promised
only while nothing else was written since the pass read (`clean`). For the proof the
uids of Gateways became a counter and the writes of a pass a set, taken in any
order; TLC checks that model. Assumed: `StatusAssumption` (the Gateways there at the
start have names).

**Framing.** `EndsAgree` compares observer and peer between reads; `ChunkedInv` says
for each phase where the peer stands (`InStep`: its line, its size so far, whether a
CR came last, whether the trailer line is blank). A byte the observer takes keeps
that (`ByteInStep`, one lemma per phase), a byte that breaks the framing never
reaches the peer, and a run of payload that `advance` takes in one piece is payload
to the peer byte for byte (`DataRun`). `shift_hex` refuses just the digit that would
push another out, so an accepted size is below `SizeLimit` and the peer's, which
wraps there or later, is the same (`SizesFit`). The turns of `advance` and the
positions of the peer are recursive functions, shown to exist and followed turn by
turn with `Least` (`AdvanceAligned`). Assumed: `ChunkedAssumption` (a base of at
least two, and a positive width and read).

Induction over numbers: `Least` (every set of naturals has a least element) is
derived from the well-foundedness of inclusion on finite sets, and used where the
library's induction theorems cannot be instantiated (`OldestExist`, `Greatest`,
`MaxOf`, `Ends`, `UnitsIn`, the turns of `Advance`).

The inductive invariants of `LeaderElection`, `RouteRefresh`, `UdpSessions`,
`SyncAuth`, `Watches`, `SyncTransport`, `Programmed`, `HttpWorker`, `Provision`,
`Statuses` and `H2Bridge` were checked by TLC on the runs' instances before they were
proved. The type invariants of `LeaderElection`, `GatewaySync`, `RouteRefresh` and
`UdpSessions` are theorems of their own, and in the other proof modules they are
part of the inductive invariant.

Only model-checked: of `proxy`, `AnswersMatch` (its invariant would have to follow
every answer from the request a backend took up through what is owed, under way and
left unread on a connection), `Listeners`, `Routing` and `Heads`; of `control`, that
of `Attach`; `LeftBehindOnlyInFlight`; what the failing runs show; and all liveness (`Converges`,
`Recovers`, `ComesToBeFresh`, `GivenBack`), which is beyond TLAPS. `Attach`, `Routing` and `Heads` compare algorithms with reference definitions
over enumerated inputs: a proof would be an induction over the recursion of each.

## 5. Not modelled, and the plan

* Parsing and validation of config files, and the fields of filters and policies
  that only pass through: stateless, with messages.
* Cryptography, TLS handshakes and the h2 library: external.
* The apiserver-proxy hop's own exchange; its effect on answers is in `SyncTrust`.
* Mirrored requests, metrics, access logs, the admin endpoints, start-up and
  privileges: I/O without effect on the properties.
* Standalone reload: a SIGHUP hands one file at a time to the applier.

To come, in this order: a proof of `AnswersMatch`; `Programmed` composed with the
reports of `GatewaySync`.
