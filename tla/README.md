# SubHub, modelled and proved

SubHub is a server that keeps a library of proxy subscriptions: it fetches them,
tests their nodes, drops the ones that are dead and publishes the rest again in
the formats clients want. This directory holds TLA+ modules of it, TLC
configurations that check them on small instances, and proofs for the TLA+ proof
system.

- [Inventory](#inventory): the system, what it keeps, what is hard about it
- [Modules](#modules): what models what, and how it corresponds to the code
- [Runs](#runs): what TLC checks, within which bounds, under which fairness
- [Proofs](#proofs): what holds for every value of the constants
- [Findings](#findings) and [divergences without a run](#divergences-without-a-run)
- [What is not modelled](#what-is-not-modelled)
- [Plan](#plan)

To check a module: `tlc -config MCEngine.cfg MCEngine`, or `tlapm EngineProofs.tla`.
Paths in this file are relative to the repository; `lib.rs` is `server/src/lib.rs`.

## Inventory

One process: a tokio runtime serves HTTP handlers (`server/src/handlers/`) and two
background loops (`server/src/lib.rs`), all sharing one `AppState` of values behind
`Mutex`es. No lock of the library is held across an `.await`, so every handler is a
sequence of critical sections with awaits between them, and whatever it learnt in one
of them may be out of date in the next. (The one lock that is held across awaits, on
purpose, is `gist_lock`.) A client that hangs up drops its handler at the await it is
in.

| Component | State | Operations | Interaction |
|---|---|---|---|
| Durable store (`lib.rs`, `db.rs`) | `store`, the SQLite table, `persist_lock`, the id counter | `persist_all`, `save_rows`, `load_all`, `rebase_sub_counter` | every handler and loop that changes the list saves all of it |
| Node verdicts (`lib.rs`, `handlers/speedtest.rs`) | `available`, figures and `consecutive_failures` of each node; `last_healthy_at`; stored counts | speed test, test of fetched nodes, periodic check, `persist_results`, `cleanup_bad`, export and restore | reads engine and removal settings, calls TCP dialling and engines |
| Subscription list (`handlers/subscription.rs`, `maintenance.rs`, `core/src/ops.rs`) | the `Vec<Subscription>` | add, paste, refresh, restore, export, delete, rename, prune | fetches the network, then tests, then saves |
| External engines (`engine.rs`) | `PORTS_IN_USE`, the engine semaphore, child processes, directories | `probe_all`, `probe_all_shared`, `with_engine`, `alloc_ports` | launched by speed tests, country and unlock detection |
| TCP dialling (`core/src/speedtest.rs`) | a queue, worker threads, `RunCache` | `tcp_ping_all` | called by every run; reports to a page that may be closed |
| Settings (`handlers/settings.rs`, `lib.rs`) | a dozen values of `AppState`, the `meta` table, the environment | start-up, `apply_settings` | read by everything above |
| Schedulers (`lib.rs`) | two intervals | auto-refresh, node-health loop | refresh, check, prune, save |
| Gist upload (`handlers/speedtest.rs`) | `gist_lock`, `gist_id` | create, update, start anew | GitHub; remembers the id as a setting |
| Detection (`handlers/detect.rs`, `nodes.rs`) | `outbound_country`, `unlock` of each node | country, unlock | engines, then a write-back by fingerprint |
| Node model (`core/src/model.rs`) | none | fingerprint, region, usability | identity for results, refreshes and de-duplication |
| Transform pipeline (`core/src/ops.rs`, `score.rs`) | none | filter, rename, sort, top N, labels, unique names | between the list and the exporters |
| Exporters and parsers (`core/src/export.rs`, `parse.rs`) | none | five formats out, links, clash, sing-box, v2ray in | one hub's export is another hub's subscription |
| Views, desktop shell, web page | none of the library's | | read a snapshot, or call the server |

What makes each of them correct, and what is hard about it:

- **Durable store.** What a restart finds is a library the program once had, ids
  are never used twice, rows nobody changed keep their order, and what a request
  reported as done is saved. Hard: saves race, rows and whole saves fail, clients hang
  up, power goes with the write-ahead log unsynchronised.
- **Node verdicts.** A node's figures agree with its verdict; when there is an
  engine only its word, or a backup that has it, raises a node; a node is removed only when it failed often
  enough *in a row*; whatever is up has a day from which the prune can count. Hard:
  runs overlap with each other, with refreshes, deletions, restores and changes of
  the settings they read.
- **Subscription list.** A URL has one subscription, an id means one
  subscription, a fetch never empties one and forgets no verdict, a deleted one stays
  deleted, a restore brings everything back, a prune gives each its days. Hard: the
  list changes during a fetch; backups meet lists that went their own way since.
- **Engines.** No two engines get the same port, ports and permits come back
  whatever happens, and no call hangs. Hard: a port is picked long before it is bound;
  engines die, hang, start late; callers vanish.
- **Dialling.** Each node gets one result, and that of its own address; an endpoint
  that many nodes share is not dialled over and over; what a page was not shown is not written back; the run ends. Hard:
  threads share a queue and caches without holding a lock while they wait; resolvers
  hang; the page closes half-way.
- **Settings, uploads, loops.** A setting survives a restart; the loops follow their
  switch; GitHub has no gist nobody remembers, and none with older content than it had.
  Hard: each setting is written twice, and either write may be the last one to happen;
  GitHub's answer is lost, the gist is deleted behind our back, clients hang up.
- **Publishing.** Names in a document differ, the best N are the best N, a country label
  is put once; a node that is published, read by the next hub, and published again is the
  same node over the same connection. Hard: every stage changes what the next one compares,
  and each format has its own idea of what may be left out.

`PROJECT.json` lists every hazard at its line, with the properties aimed at it.

## Modules

| Module | Models | Extends / uses |
|---|---|---|
| `SnapshotStore` | what the durable store promises, abstractly | |
| `Persistence` | the list, `persist_all`, the table, power losses, restarts | instantiates `SnapshotStore` |
| `NodeHealth` | verdicts on nodes and the runs that renew them | |
| `Library` | the list of subscriptions and its operations | |
| `Engine` | launches of engines: permits, ports, processes | |
| `Dial` | one run of `tcp_ping_all` | |
| `Settings` | values kept in memory and in the `meta` table | |
| `Gist` | uploads, their lock, GitHub | extends `Settings` |
| `Control` | settings, uploads, the auto-refresh loop and restarts together | extends `Gist` |
| `Nodes` | the node: fingerprint, region, usability, de-duplication | |
| `Transform` | the pipeline from stored nodes to a selection | extends `Nodes` |
| `Formats` | what each format writes of a node and reads back | extends `Transform` |
| `Publish` | nodes on their way through hubs | extends `Formats` |
| `MC…` | instances for TLC: definitions of constants, symmetry | the module of that name |
| `ListTheorems` | lemmas about chains of steps of any length, and about a finite set's places listed in an order | `TLAPS` |
| `…Proofs` | theorems and proofs | the module of that name, `TLAPS` |

Definitions labelled `Mutant` are what a plausible bug would make of the definition
next to them. No specification uses them: put in the place of that definition, each makes
TLC find the property violated that `PROJECT.json` pairs it with.

`Persistence`, `NodeHealth`, `Library`, `Control` and `Publish` look at the same list from
different sides, and each abstracts what the others are about: `Persistence` knows a
subscription as an id and a version of its content, `NodeHealth` as a set of nodes with
their records, `Library` as source, uid, verdicts and dates, `Control` as a version number,
`Publish` as a list of nodes with all their fields. Where one needs what another
does, it has it as an action with a free outcome (`Library!WriteBack` is any run's
write-back, `NodeHealth!Fetch` any fetch, the results `NodeHealth!ProbeTest` chooses are
anything `Dial` and `Engine` may find, `Control!Fetched` may or may not change the library).

### Persistence

A subscription is its id and the *version* of its content, the reading of a clock
that counts changes; two contents are equal exactly when their versions are, as
`save_rows` compares length and hash. Order, of the vector and of the table's rowids,
is a set of pairs. A task goes `idle`, `probing` (an await between a change and its
save), `changed`, `snapped` (serialised, `persist_lock` not taken yet), `idle`.

| Action | Code |
|---|---|
| `Create` | `add_subscriptions` after its fetches, `import_raw`, restored entries that are new |
| `Update` | `do_refresh_one` phase 2, rename, `delete_proxy`, write-backs, restored entries that exist |
| `Remove` | `delete_subscription`, `prune_dead_subscriptions` |
| `Touch` | a handler that found nothing to do and saves all the same |
| `WriteBack` | `persist_results` after the await |
| `Disconnect` | hyper drops the handler at its await |
| `Snapshot`, `Commit` | the two halves of `persist_all`, with `save_rows` in the second (`CommitRows`: one save with its failures and the digests it read) |
| `Checkpoint`, `Restart` | SQLite; a kill or a power loss, then `run_server` |

`SaveRows` does what the statements of `save_rows` do to the rows *and* to their
order: `INSERT OR REPLACE` gives a row that changed a new rowid, so it goes to the end
of the table. `Faults` says which rows' statements may fail: a failed statement is
logged and the others are committed; all of them failing is a save that failed as a
whole (`SQLITE_BUSY`, disk full). `Digests` says of which rows a save may have read the
digest back: the rows it does not know, because the `SELECT` failed or the table has no
columns for digests (`db.rs:268`–`284`), are written again and so go to the end as well.
Run `persistence` has saves that read all digests or none, and saves that fail whole or not
at all; rows that fail one by one, or digests known of some rows, are covered by `FreshIds`,
`TotalOrders` and `UntouchedKeepOrder`, which are proved for any `Faults` and `Digests`. With `synchronous = NORMAL` a power loss may take
back every commit since the last checkpoint: `durable` is the set of tables it can
leave.

`SnapshotStore` is the promise: the program changes a library in memory, and the
durable copy is always one the memory has held, whole. `Refines` says that
`Persistence` implements it with `current <- store.rows`, `saved <- disk.rows`,
`seen <- past`.

### NodeHealth

A node is its fingerprint and may be in several subscriptions, each with a record of
its own: verdict, whether it shows a latency and an HTTP latency, whether it was
measured, the failure count, which saturates at `MaxFails`. A run goes from `idle` to
`fresh` (nodes a fetch brought), `testing` (a speed test) or `checking` (the periodic
check), then, with results, to `tested` or `checked`, then back.

| Action | Code |
|---|---|
| `Fetch` | the merge of `do_refresh_one` and `add_subscriptions`, paste, and the start of the test of new nodes |
| `StartTest`, `StartCheck` | the snapshots of `speedtest` and of the node-health loop |
| `ProbeTest`, `ProbeCheck` | `run_speedtest_sse`, `run_speedtest_core`, `run_health_check_core`: which nodes answered, by TCP and through the engine; a speed test may be cancelled half-way |
| `Disconnect` | the client of a test hangs up before the write-back |
| `WriteBack` | `persist_results`: verdicts by fingerprint in every subscription, auto-removal, stamp |
| `DeleteNode`, `DeleteSub`, `CleanupBad` | `delete_proxy`, `delete_subscription`, `cleanup_bad` |
| `Export`, `Restore` | `export_subscriptions`, `import_subscriptions`: nodes, verdicts, failure counts and stamp of a subscription, into a backup and from it; a backup of an older version has no stamp |
| `SetEngine`, `SetThreshold` | `apply_settings` |

`Verdict` is the body of `persist_results` for one node: a local address has no
figures; with an engine configured and no result from it, a TCP failure demotes and a
TCP answer changes nothing; otherwise the engine's answer, or without an engine the
TCP answer, decides. Bandwidth probing is off in the model, so `measured` says that the
engine got through; it adds figures, no verdict. `streak` is a history variable: the
failed tests in a row by what the runs themselves saw. `legacy` is another: the
subscriptions that came from a backup without `last_healthy_at` and that no write-back has
stamped since.

`backup` is one entry of a backup, the last one exported, and `Restore` may put it over
any subscription: a file of several entries is that many steps in this module, since
each entry is handled by itself. (The code handles all of them under one lock; the states
in between are more than it shows.) Which subscription an entry finds is the business of
`Library`. The entry may be of an `old` version: `SubExportItem` reads a missing
`last_healthy_at` as none (`lib.rs:606`–`615`). Not modelled: entries written by somebody
else, or by versions whose figures were not cleared with the verdict
(`core/src/model.rs:130`–`133`): what a backup holds was once in the list. `Enabled` is
fixed, so a restore leaves the flag as it is; only the periodic check reads it. Runs
under way go on, as they do in the code.

### Library

A subscription has source, uid, name, a verdict for each node (`absent` when it does
not have the node), error and three dates. An add or a refresh is a job that a worker
awaits between two looks at the list; everything else happens in one critical section.

| Action | Code |
|---|---|
| `StartAdd`, `FinishAdd` | `add_subscriptions`: the URLs are fetched one by one, then merged by `merge_subscriptions_by_source` under one lock (`AddAll`, one `MergeBySource` per URL) |
| `Paste` | `import_raw` |
| `StartRefresh`, `FinishRefresh` | `do_refresh_one`: looked up by id before the fetch and again after it; `incremental_update` is `Merged` |
| `Disconnect` | the client hangs up during the fetch |
| `WriteBack` | `persist_results`, as far as verdicts and `last_healthy_at` go |
| `Export`, `Restore` | `export_subscriptions`, `import_subscriptions` (`RestoreAll`, one `RestoreItem` per entry); an `old` backup has no uids |
| `Delete`, `DeleteNode`, `CleanupBad`, `Prune`, `SetDays` | the handlers of these names |

Times are days, the unit of the prune. An id stands for a subscription that was kept:
the ids the code spends on copies that it then merges away are not counted. `grace`
is a history variable: the day a subscription came or was last left by a test with a
node that is up; a restore sets it to 0, since a backup's own dates then count.

### Engine

A launch goes `none`, `queued` (holds its call's permit, waits for a common one),
`choosing` (in `alloc_ports`), `leased`, `running`, `killed`, `closed`. `Batched` calls
go through `probe_all_shared`, one engine per batch, two ports each, no permit; others
through `probe_all`, one engine per node in a task of its own.

| Action | Code |
|---|---|
| `NextBatch`, `TakeLocal`, `TakeGlobal` | the loops of `probe_all_shared` and `probe_all`, with their two semaphores |
| `PickPort`, `GiveUp`, `BindFail` | `alloc_ports`: a try that succeeds; 64 that do not; `bind` refused |
| `Skip` | `with_engine` for a node that the engine cannot represent |
| `Spawn`, `NotSpawned` | the launch, or an early return before it |
| `Listen`, `Crash` | the engine binds its ports, in time for `engine_ready` or later; it ends by itself |
| `Kill`, `Die` | `EngineGuard::drop`, which waits half a second at most; the process is gone, before the lease or after |
| `Release` | the guard, then the lease, then the permits are dropped |
| `Return`, `Disconnect` | the caller joins its tasks, or is dropped: a batch's engine is killed with it, tasks go on |

### Dial

Nodes are their places in the list; an outcome is the address that was dialled and whether
somebody answered. A worker goes round `check`, `take`, `lookup`, `resolve`, `query`,
`dial`, `count`, `report` until it has `left`.

| Action | Code |
|---|---|
| `Check`, `Take` | the head of the worker's loop: the cancel flag, then the next index under the queue's lock |
| `Lookup` | `tcp_ping_cached`, the read of `RunCache.endpoints` |
| `Resolve`, `Query` | `resolve`, with the names cached in `RunCache.dns`, which keeps of a host the address *and port* it was first resolved for (a literal address goes round it), and `resolve_uncached` within its budget, then `dns_put` |
| `Dial` | the connection and `remember_endpoint` |
| `Tally`, `Report` | the completion number; the callback, and the send of the result if the callback took it |
| `Leave` | the page behind the progress stream is closed |

What a node's outcome may be is `VerdictIsOwn`: that of its own host, on its own port if
the host is an IP address, on a port of some node of that name if it is a name (`Kin`).
That it is always its own port is `PortIsOwn`, and is false (finding 2). `DialsBounded` has
two halves: a worker dials an endpoint at most once, and only if, when it looked, nobody had
dialled it. That it is dialled once in a run is false (see the divergences).

### Settings, Gist, Control

Two settings stand for all of them: the refresh interval, a number, for those that count
from the moment the table has a row; the engine's path, a text, for those that can be
cleared, since an empty row is passed over at start-up in favour of the environment. The
third, `gist_id`, is written by uploads only. A handler that writes a setting is `stored`
between its write to memory and its write to the table.

| Action | Code |
|---|---|
| `Apply`, `MetaSet` | `apply_settings` (`clamp_schedule` included), one setting at a time: memory, then `meta_set`, which may fail silently |
| `Ask`, `Begin` | `gist_upload` until it has `gist_lock`, content and target |
| `Send`, `Accepted`, `AnswerLost`, `Refused`, `NotFound` | PATCH or POST and GitHub's answer, or none; 404 for the remembered gist sets it to be created anew |
| `Remember` | the id goes to memory, and by `MetaSet` to the table |
| `Nameless` | GitHub did as asked and its answer has no `id`: the handler goes on with the empty id, which stands as `None` (start-up drops it, an update of it is a 404 that creates a gist) |
| `HangUp`, `Vanish` | the client leaves; the user deletes the gist on GitHub |
| `ReadInterval`, `Idled`, `Wake`, `NextId`, `Fetched`, `RoundOver` | the auto-refresh loop: reads its interval, sleeps, reads it again, goes through the ids and stops early when it is switched off |
| `Restart` | a kill, then the settings of `run_server`, table before environment |

Histories say what is excused: `unsaved`, the settings whose last write raced with another
or failed, and `orphans`, the gists whose id never came back or was not told, or was replaced by an empty one. `edited` is a bound: in one
behaviour all requests write the same setting, since requests for different settings touch
nothing in common.

### Nodes, Transform, Formats, Publish

A node is a record of what a subscription may say of it and of what is measured of it. Texts
are values: an option is absent (`None`), empty or given; a name is a sequence of words,
because names are prefixed with a country and numbered; a pattern is the set of values it
matches; a speed is counted in quarters of 50 Mbit/s, so that the score's square root stays
whole. `Apply`, `TopNByScore`, `RegionFixup`, `EnsureUniqueNames` are the functions of
`ops.rs` and `score.rs`; `ToClash` … `ToSurge` say, field by field, which options a format
writes under which condition and default, and `FromClash` … `FromLink` which it reads back.

`Vec::retain` and the stable `sort_by` are `Select` and `SortedBy`: a part of a sequence is
given by its places, listed in an order, and the k-th of them is the one that k - 1 others
precede (`Kth`). That says what they return without saying how, and it can be reasoned about
for sequences of any length, where the recursive definitions of the standard library cannot.
`PublishAssumption` says what documents of others, results and requests look like (`IsEntry`,
`IsVerdict`, `IsRequest`): options are words, the `Switches` among them `"true"` or `"false"`,
as the parsers only make booleans of these fields. `Words` lists the words that the exporters
put in, since to the prover a literal need not be in `STRING`.

| Action | Code |
|---|---|
| `Fetch` | `parse_subscription` of somebody's document, `foreign` whatever its format, since another program wrote it |
| `SpeedTest`, `GeoDetect`, `UnlockDetect` | `persist_results`, `geo_detect`, `unlock_detect`: results reach every node with the fingerprint |
| `Answer` | `/sub`, `/api/merge/export`, the gist: de-duplicate, transform, best N, labels, `export_str` |
| `ReadBack` | the next hub, or the same one, parses what was published |

## Runs

| Run | Question | Bounds | States |
|---|---|---|---|
| `persistence` | is the table always one library of the past, whole; are rows that did not change left in place; is `SnapshotStore` implemented? | 2 tasks, 3 ids, 4 changes, saves that fail as a whole, saves that know no digest, hang-ups, power losses | 297 992 |
| `persistence_live` | does every change whose handler is past its awaits reach the table? | 2 tasks, 2 ids, 4 changes, no crash, no failing save | 122 477 |
| `persistence_stale` | is everything saved once nothing is under way? **No.** | 2 tasks | stops at the violation |
| `nodehealth` | do figures agree with verdicts; who may raise a node; is every subscription with a node that is up stamped? | 1 node in 2 subscriptions, one of them enabled; 2 runs; engine switched at will; removal off or at 1; backups of this version and of an older one; within `RunsOrSubsMeet` | 1 069 786 |
| `nodehealth_removal` | without an engine, is a node removed only after enough failures in a row? | 2 nodes, one local; 2 runs; removal off, at 1 or 2; backups of this version | 1 010 691 |
| `library` | identity, deletion, restore; does a fetch forget a verdict; is a subscription pruned early? | 1 URL, asked for once or twice in a request, and pastes; 2 nodes; 2 jobs; 2 ids; 3 days, setting 0, 1 or 2; backups with uids; within `IdentitiesOrDates` | 259 741 |
| `engine` | ports, leases, permits, and does every call end? | 3 calls, 4 launches, 2 permits, 3 ports | 184 446 |
| `dial` | one result per node, of its own host, shown before it is returned; who dials an endpoint, and how often; does the run end? | 6 nodes, 2 workers: a name with two ports, one of them of two nodes, an address with two ports, and a name whose resolver hangs; with a page or without | 1 821 330 |
| `dial_ports` | is a node always dialled on its own port? **No.** | 2 nodes behind one name, 2 workers | stops at the violation |
| `control` | settings over restarts, gists, the loop's switch | 2 requests, 2 gists, 2 versions, 2 subscriptions, interval 0 or 5 s, a seeded environment, failing writes, lost answers and answers without an id, 1 restart | 357 212 |
| `publish` | names, ranking, counts and labels of what is published | 3 lists of 2 to 4 nodes with colliding names and duplicates, 2 hubs, 2 measuring runs, 56 requests | 164 613 |
| `publish_trips` | does a node survive being written and read? | every link and clash entry of `MCPublish` in each of the five formats, three times over | 21 745 |

Why these bounds are enough to show something. The races of `persist_all` are between
two saves, one overtaking the other; a third id lets one row change, one stay and one
appear or go in the same save, which the order needs. In `nodehealth` two runs are
the least where one write-back meets another and the setting changes between them, and two
subscriptions the least where a run's results reach one that it did not take its nodes from,
or where a backup of one goes over the other. Both at once are beyond the time a run has, so
the constraint `RunsOrSubsMeet` keeps the union: either the disabled subscription is blank and
everything else happens, or one run at a time is under way, with an engine configured and
auto-removal off. Since TLC
checks a state before it asks whether to go on from it, properties are checked of the steps
out of the union as well. In
`nodehealth_removal` two failures in a row are the least that a success, or a backup's own
count, can come between; no subscription is enabled, since without an engine a periodic check
writes back what a speed test does. Verdicts on two nodes do not depend on each other, and the
proofs are of any number of nodes, subscriptions and runs. `IdentitiesOrDates` is such a union
as well: two ids, which a backup may have too, of one node on one day; or two nodes over three
days of one subscription, which no backup has. Who is who does not depend on dates, and grace
not on identities. In `Library` two jobs that await are two adds
of one URL, an add and a refresh of the same subscription, or two refreshes; two ids allow
one subscription to be deleted and come back under another id, from a backup that still
has the first; two nodes let a fetch keep one and drop the other. With three ports and a
batch that takes two, launches meet ports that are leased and not bound, bound and not
leased, and none left. The list of `dial` has one case of each kind the caches tell apart
(an endpoint of two nodes, a name with two ports, an address with two), and as many nodes as
two workers need to meet at an endpoint and to go on; one more name is neither resolved nor
refused. `control` has
just enough for an upload to wait for another, find its gist deleted and create the second;
an interval of 5 must be clamped. The lists of `publish` were chosen so that names collide
for each reason the code has a remedy for: in the source, by a rename, by a label, by a
number that is taken, and by what Surge does not allow in a line. `publish_trips` needs no
interleaving: its states are entries, and the three trips show that a second publication is
like the first and that the third reader finds what the second had.

Bounds on counters (`MaxIds`, `MaxClock`, `MaxDay`, `MaxFails`, `MaxVersion`,
`MaxRestarts`, `MaxHops`, `MaxRuns`) are guards of the actions that count, `Fits` for the
requests of `Library` that make several. Deadlock is checked in all runs but those
of two modules: the runs of `Dial` stop when every worker has left, and `publish` and `publish_trips` when all
documents have been read; no other run is cut off by its bounds. `SYMMETRY` is used in runs
of safety properties only, over tasks, runs, workers and, in `library`, nodes,
which differ in nothing but their names.

Fairness.

- `Persistence!FairSpec` has weak fairness of `Snapshot` and `Commit`, and of nothing that
  needs a client or the network: a handler past its awaits is polled by the runtime, the
  two locks are held for a bounded time, and nothing disables either step once it is
  enabled.
- `Engine!FairSpec` has weak fairness of what the program or the kernel does by itself.
  Each wait has a timeout (`engine_ready` 15 s; each request its own; `EngineGuard::drop`
  half a second), so a running launch comes to `Kill` even if its engine hangs; a killed
  process ends; tokio's semaphores serve in order, and the guard of `TakeGlobal`, once true,
  stays true until a launch takes the permit, which the order gives to each in turn: the
  model needs weak fairness only, since a call's launches are finitely many. `Listen` and
  `Crash` have no fairness: an engine may never listen.
- `Dial!Spec` has weak fairness of each worker's step: they are threads of the operating
  system, and none waits for another but at locks that are held for a read or a write. The
  resolver's answer is bounded by the query's budget, which is why `Query` may always give
  up. `Leave` has none.
- `Control!Spec` has weak fairness of the loop (its sleeps and fetches end), of each step of
  an upload (a request to GitHub has a limit of 60 s) and of the second write of a setting;
  and strong fairness of `Locked`, since `gist_lock` is a tokio `Mutex`, which is handed on
  in the order it was asked for: a request that finds the lock taken again and again gets it
  in the end. What users and GitHub do has none.

Two assumptions of `Gist` are not the program's: all uploads use tokens of one
account, and GitHub applies a request before the client gives up on it or not at all. The
second is what makes `PublishedNeverOlder` follow from the lock: a request that took
effect after its upload had been abandoned could overwrite a later one.

## Proofs

`tlapm` proves, for all values of the constants that the modules' assumptions allow:

| Theorem | Says | Rests on |
|---|---|---|
| `PersistenceProofs!TypeCorrect` | `[]TypeOK` | |
| `PersistenceProofs!FreshIds` | `[]IdsAreFresh` | types |
| `PersistenceProofs!TotalOrders` | `[]OrdersAreTotal` | `OrderInv`, `FreshIds` |
| `PersistenceProofs!AtomicSnapshots` | `[]SnapshotAtomic` | `AtomicInv`, assuming `SavesAreAllOrNothing` |
| `PersistenceProofs!Refinement` | `Refines` | `AtomicInv`, assuming `SavesAreAllOrNothing` |
| `PersistenceProofs!SavesCarryOwnChanges` | `[]SaveCarriesOwnChange` | `OwnInv` |
| `PersistenceProofs!UntouchedKeepOrder` | `UntouchedRowsKeepOrder` | types |
| `NodeHealthProofs!TypeCorrect` | `[]TypeOK` | |
| `NodeHealthProofs!CoherentFigures` | `[]FiguresMatchVerdict` | types, `BackupCoherent` |
| `NodeHealthProofs!EngineDecides` | `EngineHasTheLastWord` | `ChecksAreTcpOnly` |
| `NodeHealthProofs!StampedWhenUp` | `[]UpMeansStamped` | `StampInv`, with `BackupStamped` |
| `NodeHealthProofs!RemovalsFollowFailures` | `RemovedAfterRunOfFailures` | `OwedInARow`, `BackupOwed`, assuming `NoEngine` |
| `LibraryProofs!TypeCorrect` | `[]TypeOK` | `LibraryInv` |
| `LibraryProofs!UniqueIdentities` | `[]IdentitiesUnique` | `Sound` |
| `LibraryProofs!IdsKeepIdentity` | `IdKeepsIdentity` | `Grew`, `Stays` |
| `LibraryProofs!DeletedStay` | `DeletedStaysDeleted` | `Grew`, `Stays` |
| `LibraryProofs!RestoresAreComplete` | `RestoreBringsBackEverything` | `Sound`, assuming backups with uids |
| `LibraryProofs!FetchesForgetNothing` | `FetchForgetsNothing` | `Sound` |
| `LibraryProofs!PruneIsPatient` | `PruneGivesGrace` | `GraceInv` |
| `EngineProofs!TypeCorrect` | `[]TypeOK` | `ShareInv`, `PortInv` |
| `EngineProofs!PortsNeverClash` | `[]PortsExclusive` | `PortInv` |
| `EngineProofs!LeasesComeBack` | `[]LeasesAreHeld` | `PortInv` |
| `EngineProofs!EnginesPerNodeAreCapped` | `[]PerNodeCap` | `PermitInv`, `PortInv` |
| `DialProofs!TypeCorrect` | `[]TypeOK` | |
| `DialProofs!OneResultEach` | `[]EachNodeOnce` | `Queue`, `NoneLost` |
| `DialProofs!DialledOnceEach` | `DialsBounded` | `DialledIsCached` |
| `DialProofs!LittleAfterLeave` | `[]FewAfterLeave` | `LateIsLast` |
| `DialProofs!OwnVerdicts` | `[]VerdictIsOwn` | `OwnAddresses` |
| `DialProofs!WatchedRunsReturnWhatTheyShow` | `[]ReturnedIsShown` | types |
| `ControlProofs!TypeCorrect` | `[]TypeOK` | |
| `ControlProofs!SettingsSurvive` | `[]SettledSurvives` | `AloneIsAlone` |
| `ControlProofs!GistsAreTracked` | `[]NoStrayGists` | `GistInv` |
| `ControlProofs!PublishedOnlyRenewed` | `PublishedNeverOlder` | `Fresh`, part of `GistInv` |
| `PublishProofs!UniqueNames` | after `EnsureUniqueNames` no two names are alike; every node is in its place, changed by no more than a number behind its name | `SomeFree`, assuming `NumbersDiffer` |
| `PublishProofs!TypeCorrect` | `[]TypeOK` | `SelectedIs`, `ExportIs`, `ParseIs` |
| `PublishProofs!UniqueInDocuments` | `[]NamesDistinct` | `Answered`, `UniqueNames` |
| `PublishProofs!RankingsNeverDisagree` | `[]ScoreAgrees` | `RankingsAgree`, types |
| `PublishProofs!CountIsAsWanted` | `[]CountIsWanted` | `Answered`, `Twins`, `AllWhole`, assuming `SourcesWhole` |
| `PublishProofs!IdentityIsKept` | `IdentityKept` | `Answered`, `AllOneMethod`, assuming `SourcesOneMethod` |
| `PublishProofs!ConnectionIsKept` | `ConnectionKept` | `Answered`, `AllGuarded` |
| `PublishProofs!FingerprintsSettle` | `Settled` | `Answered`, `AllSwitched`, `AllRipe` |
| `PublishProofs!LabelsNeverPile` | `[]LabelledOnce` | `Answered`, `AllPlain`, assuming `TablesApart`, `NamesPlain` |

All but the first of `PublishProofs` assume `NumbersAreWords` as well: numbers are written
as words, two numbers as two words. None of the assumptions of theorems is an `ASSUME` of a
module; all those of `PublishProofs` hold of both instances of `MCPublish`, as far as TLC
evaluates them (numbers up to the longest list).

The arguments:

- **Ids.** `IdsAreFresh` speaks of the table and of every snapshot still to be committed,
  not of memory alone: a late save could bring an id back otherwise. So stated it is
  inductive. What a power loss can bring back need not be in it, since a restart starts
  counting from the table it loads.
- **Order.** `Commit` merges a snapshot into a table that other saves have changed
  since. That the result is a total order needs that the table, the snapshots, the store
  and all durable tables are each ordered (`OrderInv`), and that what is replaced goes
  behind what stays, in the snapshot's order (`OrderedSaveRows`).
- **Atomicity and refinement.** With a save that fails as a whole or not at all
  (`SavesAreAllOrNothing == Faults \subseteq {{}, Ids}`), what a commit leaves is the old
  table or exactly the snapshot. `AtomicInv` says of all the places where rows live that
  they hold a library of `past`; each step of `Persistence` is then a `Change`, a `Save`, a
  `Reboot` or a stutter of `SnapshotStore`. Without the assumption neither holds, and the
  code does not promise it: a row that fails is logged and skipped.
- **A save's own change.** `OwnInv` dates every table by the clock and follows a task's
  change from the store into its snapshot.
- **Engine's word.** `EngineHasTheLastWord` needs that a run in `checked` has no engine
  results (`ChecksAreTcpOnly`): then a node that turns up with an engine configured has
  done so in a full run with a success of the engine, or in a restore of a backup that has
  it up; no other step raises one.
- **Backups.** Whatever is to hold of restored nodes must hold of the backup already: that
  figures and verdict agree (`BackupCoherent`), that up nodes come with a stamp unless the
  backup is of an older version (`BackupStamped`), that what its nodes owe is covered by the
  streak a restore gives them (`BackupOwed`).
- **Stamps.** `StampInv` adds that a node a subscription does not have is not up in it.
  A write-back stamps every subscription in which it leaves a node up, and with that ends the
  exception `legacy` for it.
- **Removals.** Without an engine a node owes no more failures than it had in a row
  (`OwedInARow`), and a local node owes none. With one this is false (see below).
- **Library.** A request is a chain of small changes, one per URL or entry, written as a
  recursive function; `ChainExists` and `ChainEnds` (`ListTheorems`) say, by a least counterexample, that
  such a chain exists and that what each link keeps the whole keeps. What one link keeps is
  `MergeStep` and `RestoreStep`. `Sound` is the strengthening of `IdentitiesUnique`: ids and
  uids are below the next one, and those in the *backup* belong to the same sources as in
  the list, since a restore would bring a clash in otherwise. `Grew` relates the list before
  and after: nobody's identity changes and no id that is done with comes back. It gives
  `IdKeepsIdentity` and `DeletedStaysDeleted` for every step at once.
- **A complete restore.** That an entry is there after its own step is easy; that no later
  entry replaces it needs that two entries of a backup never meet in one subscription, which
  `Sound` gives when they have uids. For `old` backups it is false (see below).
- **Prune.** `grace` is never ahead of the date the prune counts from (`Counted`), and
  never in the future. Each step of the list lets that date move forward only.
- **Ports.** Exclusiveness of ports follows from more than leases: after a kill that was
  not awaited to the end, the lease is back while the process may still listen. `PortInv`
  says that leases are disjoint and within `leased`, that a process listens on its lease
  as long as it lives, and that no lease has a port that a foreign process still binds
  (`PickPort` excludes both).
- **Permits and types of launches.** An engine that lives belongs to a launch that holds a
  permit, and holders are at most `MaxProcs` (`PermitInv`); a launch that still chooses has
  fewer ports than it needs (`ShareInv`). The rest is counting in finite sets.
- **Dialling.** `Queue`: a busy worker's node is behind the head of the queue, is nobody
  else's and has no result. `NoneLost`: until somebody cancels, every node behind the head
  has a result or a worker. `OwnAddresses` says of every place where an outcome is, both
  caches included, that it is of the right kin: the cache of names keeps an address with the
  port of the node that missed first, so of a name no more can be said (finding 2).
  `DialledIsCached`: what a worker has dialled is in the cache of endpoints, and a worker on
  its way to an endpoint has not dialled it yet.
- **Settings.** `AloneIsAlone`: a handler between its two writes that no other has
  interfered with finds its own value in memory. The second write then leaves table and
  memory equal, and `unsaved` takes the other cases.
- **Gists.** `OneUploads` is the lock; `OnlyCreated` says that every id anywhere was once
  given out by GitHub, so that a new one is new; `Targets` that an upload works on the gist
  remembered, or that this one is gone, or that the answer named none. `Fresh`: what an upload is about to send is no older
  than anything published.
- **Names.** `SomeFree`: with n nodes done there are n + 1 candidate numbers and at most n
  names in use, so one is free as long as two numbers are written differently
  (`NumbersDiffer`, which the provers cannot know of `ToString`). That is why the search in
  `AppendUnique` may stop at `Len(done) + 2` where the code's has no bound. The list as a
  whole is a chain again, as the requests of `Library` are.
- **What is sent.** `Answered` ties the document to its request: it is `ExportStr` of what
  was selected, and that is `Drawn` from `nodes`: each node sent is `Alike` one held, the
  same but for its name. Whatever only the options of a node decide therefore passes from
  `nodes` to `sent`, and the invariants below are stated of `nodes` alone.
- **Rankings.** The best N are filtered, then sorted; the list page sorts, then filters. Both
  list the same set of places along the same linear order (score, then place), and the k-th
  of a set is unique (`ListUnique`, `RankingsAgree`). That the sort is stable is what makes the
  order linear.
- **Counts.** The pipeline merges by fingerprint first and filters afterwards, `Wanted` counts
  the other way round. `Twins` allows it: nodes of one fingerprint have one verdict, figures
  and country, as results are written by fingerprint (and nobody has any when a document
  has just been parsed), so a filter cannot tell them apart. That both are usable or neither
  needs `Whole`: a tuic node has its password, an ss node one method (see the divergences).
- **Trips.** For each format and type, what is read of what was written is computed option
  by option (`ClashReads`, `SingboxReads`, `V2rayReads`). `OneMethod`, of ss nodes, is what
  `SameIdentity` needs of `nodes`; what has been through a document is whole by itself
  (`ReadWhole`), so that `SourcesOneMethod` and `SourcesWhole` concern the first hub only.
  `Guarded` (REALITY implies TLS) is what `SameConnection` needs; the parsers establish it.
- **Fingerprints.** `Settled` is about a node that came out of the format it goes through
  again. `Ripe` says just that, that it was read from the writing of *some* node in that
  format; it does not depend on name or measurements, so tests, labels and selections leave it
  in place. From it follows that the second writing says what the first said, each default
  the exporters fill in being one they write again. A foreign document's first trip is not
  promised anything, whatever its format: no exporter here wrote it. It needs `Switched`: an option `tls`
  that is neither true, false nor absent would be written as off and read as such.
- **Labels.** `Plain` says of a name that it holds one country code at most, and none beside a
  flag or a country's name. It does not say that the code was put there by a hub, and so it is
  inductive: a label is put only before a name that says nothing of a country, and numbers
  and Surge's safe names add words that stand for none. That needs the tables to be apart
  (`TablesApart`: a code is not at once a flag or a country's name), and names of sources
  and renames to be plain to begin with (`NamesPlain`): the code never takes a label *off*.

Model-checked only: the liveness properties `ChangesReachDisk`, `CallsReturn`, `RunEnds`,
`UploadsEnd` and `LoopFollowsSwitch`, since what fairness forces is out of this prover's
reach; every other property of a passing run has its theorem. `SnapshotAtomic`,
`OrdersAreTotal`, `PerNodeCap`, `FewAfterLeave`, `Dial!TypeOK` and `Publish!TypeOK` go the
other way: they are proved and no run checks them (the first follows from `Refines`).

## Findings

Shown by a run that finds the property violated:

1. **A newer save may be overwritten by an older one** (`persistence_stale`). `persist_all`
   serialises the store, lets its lock go, and only then takes `persist_lock`
   (`lib.rs:1239`, `1255`). Two requests may serialise in one order and commit in
   the other; when both have returned, the table lacks the later change until something
   else saves. `ChangesReachDisk` is the weaker thing that holds: each change does reach
   the disk once.
2. **A node may be dialled on another node's port** (`dial_ports`). The cache of resolved
   names has the host as its key and an address *with a port* as its value
   (`core/src/speedtest.rs:90`, `137`–`142`), so the second node behind a name is dialled on
   the port of the first, and has its latency and verdict. The comment at `124`–`125` names
   just this case as the common one, "只有端口/路径不同" (nodes that differ only in port or
   path), and `27` says that the latency is to `host:port`. `VerdictIsOwn` is what holds: the
   host is right, and the port is, too, when the host is an IP address.

### Divergences without a run

Met while modelling, by the code's own comments or by what a reader would expect, and not
made a property of a run. The models do what the code does in each of them.

Saves and settings:

- *Order after a restart.* `load_all` reads by rowid, which its comment
  (`server/src/db.rs:127`–`128`) takes for the order the list had; a row that changed was
  moved to the end. `UntouchedRowsKeepOrder` is what holds.
- *Corrupt rows.* A row that `load_all` cannot read is skipped, and the next save deletes
  it.
- *Hanging up on an add* leaves the subscription in memory, untested, and on disk only
  after some later save.
- *Two requests for one setting* may write memory in one order and the table in the other;
  a `meta_set` that fails is silent. `SettledSurvives` says that nothing else is lost.
- *A setting that was cleared* comes back at a restart if the environment sets it
  (`lib.rs:1846`–`1857`, `server/src/handlers/settings.rs:92`); and where a comment says that
  `SUBHUB_USE_PROXY` overrides what was saved, the saved value wins (`lib.rs:1771`–`1790`).
- *A new interval* takes effect after the current sleep, which the old one set
  (`lib.rs:1943`–`1945`, `1964`).

Verdicts and removals:

- *Failures that are not in a row add up.* With an engine configured, the periodic check
  counts a failure, but a check that gets through does not reset the count
  (`lib.rs:1158`), though the comment above (`1147`–`1149`) says that it adds no failures.
  Hence `NoEngine` in `RemovalsFollowFailures`.
- *The periodic check touches untested nodes.* The same comment says that such a check may
  only demote, and does not change nodes that were never tested. One that TCP does not reach
  becomes unusable whatever its verdict was (`lib.rs:1154`).
- *A restore raises nodes* with an engine configured and no word from it: the verdict is the
  backup's (`server/src/handlers/subscription.rs:377`–`410`). `EngineHasTheLastWord` names it.
- *A restored older backup leaves up nodes without a stamp*, since it has no
  `last_healthy_at` (`lib.rs:606`–`615`), until the next write-back that finds one up.
  `UpMeansStamped` names it.
- *Clearing the engine setting during a run* lets the TCP answer decide for nodes the
  engine had failed to reach: `persist_results` reads the setting when it writes.
- *A disabled subscription* is skipped by the periodic check, but its nodes are written by
  fingerprint when an enabled one shares them.
- *Stored counts* are recomputed by some writers (refresh, clean-up, deletion) and not by
  others (`persist_results`, a re-add, `lib.rs:1211`); readers recompute, so only what is
  stored is stale.
- *Country detection without an engine* clears every country and stamps `last_tested`,
  where its doc says that it does nothing (`server/src/handlers/nodes.rs:13`–`15`).

The list:

- *Two pasted subscriptions of one name become one* when a backup without uids is restored:
  the match by unique name looks at the list as it grows
  (`server/src/handlers/subscription.rs:375`, against the comment at `331`–`335`).
- *A URL named twice in one add*, with two fetches that disagree, forgets the verdict of a
  node the first dropped and the second brought back. `FetchForgetsNothing` excepts it.
- *A refresh that drops the last node that is up* may be followed at once by a prune, the
  last healthy day being long ago; likewise a restored backup has the backup's dates.

Engines, dialling, uploads:

- *A refused bind* in `alloc_ports` returns by `?` and leaves the ports registered so far
  leased for ever. The history variable `lost` collects them, and `LeasesAreHeld` says that
  no other way for a launch to end loses any.
- *The cap on engines is not one.* A latency-only call takes no permit of the process-wide
  semaphore (`server/src/engine.rs:480`), so its engines come on top of the cap that
  `engine.rs:23` calls hard. `PerNodeCap` is what holds.
- *An endpoint is dialled once per run*, says `core/src/speedtest.rs:452`, and the test at
  `471`–`496`, with three workers, takes equal latencies for the proof of it (so does the
  comment at `354`). The cache is read, the endpoint dialled, and only then the cache filled
  (`44`–`52`), so workers that look before the first of them is done all dial; the latencies
  are equal only when they happen to be so. `DialsBounded` is what holds.
- *A host is resolved once per run*, says `core/src/speedtest.rs:124`; once per worker that
  meets it unresolved, in truth.
- *A gist is lost* when the answer to its creation is, or when the client hangs up before the
  id is kept, or when the answer has no `id`: the empty id is kept then, and the next upload
  creates another. An upload with another account's token gets 404 and creates a gist of its own.

Publishing:

- *The user's sort* is lost whenever best N is on (it is by default, with 50); nodes on
  the list page that were never tested come first with `desc`, where the helper that compares them says last
  (`untested_last`, `server/src/handlers/nodes.rs:174`); the page of the best nodes ranks
  duplicates of several subscriptions apart.
- *`count`* is announced as what was exported (`maintenance.rs`, about line 203), and is
  taken before v2ray, sing-box and Surge leave nodes out. `CountIsWanted` says what it is.
- *Fields and types that do not survive a trip*: the user name of socks5 and http through
  clash; `anytls` through clash and `http` through sing-box, which come back as `other` and
  are never published again; REALITY of anything but vless through clash; the service name of
  gRPC in vmess and trojan links; TLS of a trojan that a clash document did not
  say `tls` of, through sing-box and v2ray.
- *sing-box makes plain TCP* of transports it does not have, though the comment at Surge's
  exporter says why that can only fail. `ConnectionKept` names the exception.
- *The cipher of Shadowsocks* is `cipher.or(method)` for clash and `method.or(cipher)` for
  identity and all other formats, where `export.rs` (about line 312) says that they never differ;
  an empty `cipher` beside a method makes a clash entry without one. `CountIsAsWanted`
  and `IdentityIsKept` assume one method per node (`SourcesOneMethod`); what a hub has read
  from another satisfies that.
- *A tuic node without a password* has the fingerprint of the one that has it: the
  credentials of the fingerprint are the uuid (`core/src/model.rs:929`), those a usable
  node needs are uuid and password (`model.rs:1071`). If the first of two such twins lacks
  it, merging keeps that one and the document has neither. `CountIsAsWanted` assumes
  that no source has such a node (`SourcesWhole`).
- *A country whose code is not in the table of codes* is put in front of the name again by
  every hub. The countries of run `publish` are in the table.

## What is not modelled

By component, what its modules leave out and why:

- *Durable store*: the node-by-node recovery of rows that do not parse, and uids filled in
  for old rows; both happen once, before anything else runs.
- *Node verdicts*: the values of latencies and bandwidths, the progress stream.
- *Subscription list*: renaming (the name is free in the model of a restore), the fetch
  proxy, usage figures, the text of a fetch.
- *Engines*: the configuration written for an engine and the protocol spoken through it; the
  sweep of directories left by an earlier process.
- *Dialling*: how long a connection takes, and the value of a latency.
- *Schedulers*: the node-health loop has the same interval, sleep and second look as the
  auto-refresh loop and is not modelled a second time; what its rounds do to the list is in
  `NodeHealth`, `Library` and `Persistence` as actions that may happen at any time.
- *Detection*: what the services answer. The write-back is one step of `Publish`.
- *Parsers*: how text is split into entries, how deep base64 may be nested, what is not
  well-formed. *Exporters*: the syntax around the fields.
- *Reference data* (test targets, services), *views*, the *desktop shell* and the *web page*
  keep no state of the library.

## Plan

Done, the most important behaviour first: `Persistence` with `SnapshotStore`; `NodeHealth`;
`Library`; `Engine`; `Dial`; `Settings`, `Gist` and `Control`; `Nodes`, `Transform`,
`Formats` and `Publish`; the proofs of all safety and action properties of theirs.

What would come next:

1. `Library` with `Persistence`: a restored or pruned list and its save, in place of two
   models that each know half of a subscription. The product of their states needs smaller
   instances than either has now.
2. `NodeHealth` with `Dial` and `Engine`: a run whose results are what these two found, so
   that a launch that fails, or a page that is closed, is followed up to the verdict.
