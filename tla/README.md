# Formal models of the VPN management panel

TLA+ models of the panel's backend, its worker and the VPN nodes, checked with
TLC on small instances and, where stated, proved with TLAPS for every instance.
`PROJECT.json` lists the components, the runs, the line ranges every definition
models, the hazards and the theorems; this file explains them.

Run a model with `tlc -config <cfg> <MC module>`, check a proof with
`tlapm <module>Proofs.tla`.

## 1. The system

| Component | State it keeps | Operations |
|---|---|---|
| Devices and address pool (`services/devices.py`, `routers/user_page.py`) | device rows: keys, `vpn_ip`, tombstone `deleted_at` | create (lowest free address, one pending peer row per node), delete (tombstone, mark rows), release of the address |
| Account lifecycle (`services/local_lifecycle.py`, `api_parts/users.py`) | `lifecycle_status`, `is_blocked`, `expire_at`, traffic limit and counters | block, unblock, update, reset, delete; re-derivation of every peer row |
| Node registry (`api_parts/nodes.py`) | node rows | add (peer rows for all live devices), delete |
| Node jobs (`worker/handlers.py`, `internal_worker_parts/nodes.py`, `services/node_sync.py`) | the snapshot a job carries; the tunnels on each node | sync_all, sync_node, provision_node, heartbeat; their reports |
| Operations and queue (`services/operations.py`, `internal_worker_parts/operations.py`, `worker/queue.py`, `worker/main.py`) | `async_operations.status`, broker queues, retry queues | enqueue, publish, start, succeed, fail, retry, dead-letter, stale and timeout sweeps |
| User events (`services/events.py`, `routers/user_events.py`) | the LISTEN connection, fan-outs, one queue slot per stream | notify, fan out, coalesce, subscribe, recheck, stop |
| Public page refresh (`useUserPageRefresh.ts`, `userEventStream.ts`) | the shown state, the request in flight, the poll timer | read, accept, reset, open and close the stream |
| Traffic accounting (`services/node_sync.py`, `services/local_lifecycle.py`, `services/traffic_retention.py`) | last counters, ledger, samples, four aggregate tables | apply a report under the owner locks, reset an account, clean up samples |
| Remnawave (`services/remnawave_sync.py`, `internal_worker_parts/remnawave.py`, `worker/remnawave_client.py`) | mirrored users, delete requests | upsert, paged reconcile, single-user sync, webhook, disable, purge |
| Telegram proxy (`routers/telegram_proxy.py`, `internal_worker_parts/telegram_proxy.py`, `node/agent/mtproxy.py`) | settings, status per node, the node's file and process | apply, disable, rotate, report, start-up |
| Node agent (`node/agent/agent.py`, `node/tunnel.sh`) | live interface, saved configuration | put and delete a peer, configure, status, dump, tunnel start |

How they interact. Requests change rows in short PostgreSQL transactions. Creating
and deleting a device and every report lock the owner's row first; the block,
unblock, lifecycle and reset endpoints load the account and its peers with a plain
`db.get`, without a lock, and write back what they changed, and so do the Remnawave
requests. What has to happen on a node is written as an
operation row, committed, and then published to RabbitMQ; the worker consumes it,
reads a snapshot from the backend, calls the node agent peer by peer and reports
what the node holds. The report handler acknowledges rows, confirms removals,
releases addresses and re-derives the account lifecycle, which may queue further
jobs. Every such commit also notifies the account's open event streams.

What is hard. The snapshot, the calls to the node and the report are separate, so
each acts on a state that may have changed. One report handler commits in the
middle and goes on with the rows it has loaded. Messages are duplicated (the
retry is published before the acknowledgement, the stale sweep publishes again)
and lost (a crash between commit and publish). Status changes read, check and
write without a lock, and the requests about an account derive it from a copy that
may be out of date. Heartbeats overlap syncs. Addresses are a finite pool that
several nodes have to give back together. The event streams share one slot with
their own timers. Reports lock owners in batches they discover while they wait,
and other requests take the same locks in other orders. Remnawave jobs write back rows they
loaded without a lock, while pages shift under them. A node keeps two stores, the
live interface and a file, and changes them one after the other; a request its
caller has given up on goes on beside the next.

What correctness means, component by component: an address belongs to one tunnel
per node and comes back to the pool; a deletion is final; a recovery restores
every row and a block takes every tunnel down; an operation runs once, follows
the contract's transitions and finishes; a committed change reaches the open page
or the loss is one the code accounts for; a stream ends when it must; every byte is
charged once and the totals agree; an imported account follows its remote user and
its limit; the link shown for the Telegram proxy is the one served; a node's file
and interface hold the same peers and a removed one stays away.

## 2. Modules

| Module | Contents |
|---|---|
| `DevicePeers` | users, devices, nodes, peer rows, the tunnels on the nodes, one node job, heartbeats |
| `DevicePeersProofs` | proofs for any number of users, devices and nodes |
| `OperationContract` | abstract specification of the status column: the transitions `CONTRACT.md` lists, and those that requests overtaking each other add |
| `AsyncOperations` | rows, publishes, messages, consumer tasks, retry, recovery loop; implements `OperationContract` |
| `AsyncOperationsProofs` | proofs, among them the refinement |
| `UserEvents` | listener, fan-out, coalescing, streams and their timers, shutdown |
| `UserEventsProofs` | proofs for any number of accounts and streams |
| `TrafficAccounting` | counters, reports with their row locks, ledger, aggregates, limit, the administrator's requests, deletion of a node, retention |
| `TrafficAccountingProofs` | proofs for any number of accounts, nodes, peers, reports and days |
| `Counting`, `CountingTheorems` | the sum of a function's values, and the laws of sums the proofs use |
| `RemnawaveSync` | remote users, mirror rows, blocks and peer rows, reconcile, single-user sync, webhook, disable, purge |
| `RemnawaveSyncProofs` | proofs for any number of users and any page size |
| `TelegramProxy` | settings, queue, worker job that runs once, agent handlers, file and process per node |
| `TelegramProxyProofs` | proofs for any number of nodes, requests, attempts and faults |
| `NodeAgent` | the worker's sync requests, the agent's handlers, live interface, saved file, tunnel process |
| `NodeAgentProofs` | proofs for any number of peers, changes and faults |
| `MC*` | constants for TLC |

The modules meet at named points: the reports that `DevicePeers` takes as one step
are opened up in `TrafficAccounting`, the PUT and DELETE of one peer in
`NodeAgent`; `RemnawaveSync` has the sync of a node as one step, which
`DevicePeers` models in full; the queue of `TelegramProxy` is the sequential queue
of `AsyncOperations`, whose `RunsOnce` is why a job there is never run again.

### DevicePeers

`device[d]` folds the columns of one row: `live`, `tombstoned` (`deleted_at` set,
`vpn_ip` still held), `released` (`released_vpn_ip`), `purged` (row gone with its
account). `peer[n][d]` is `peers.status` or `none`. `wg[n]` is what is installed
on node `n`. The job variables (`phase` ... `mem`) are the worker's single
sequential slot: `put` and `del` the peers its snapshot wants installed and
removed, `dump` what it will report, `mem` the rows the report handler still holds
after the commit in its middle.

A transaction under the owner lock is one step. Everything the code does not
serialise is a step of its own: each node's snapshot, each PUT and DELETE, the
dump, the report, its two transactions (`ReportSyncCommits`, `ConfirmSync`), a
heartbeat's dump and its later report, the two halves of adding a node, and the two
halves of a lifecycle request: `LoadUser` copies the account and its rows
(`loadedLife` ... `loadedTombs`), `BlockUser` and its like write from that copy
(`Rederive`), a row only if the loop of `apply_local_lifecycle_state` changed it.
`ReportSync` is the report when no lifecycle changed and so no mid-way commit
happens. Time is one flag per account, `constrained`: it has passed `expire_at` or
its limit, but no handler has noticed yet.

Two history variables say what the code cannot exclude. `raced` holds the devices
whose rows were last written from a copy out of date, by a request or by the second
transaction of a report, until they are derived from current ones again. `revived[n]`
holds the devices that a snapshot asked node `n` to install although `n`'s own row
said `deleted`. The properties name them as their exceptions.

### AsyncOperations

A message is `<<operation, retry count>>`, `queue` counts its copies across the
operation queue and the retry queues, a slot is one permit of the consumer. A
lifecycle endpoint is two steps: the status check (`EnsureStatus`) and the commit
(`StartOperation` and its like), because the code takes no lock between them. A
refused call (409) and a call that never reaches the backend are steps, and so is
an answer that is lost after the commit. A publish may raise although the broker has
the message, and any two requests may overlap; nothing is assumed of either.
`unparseable` collects the rows no command can be made of, which `EnqueueOperation`
chooses.

### UserEvents

A step is what runs between two awaits of the event loop. `wire` is what
PostgreSQL sent and the hub has not fanned out, `slot` the one item of each
stream's queue. `page[s]` is a history of the page behind stream `s`: `fresh`
after it read, `stale` after a commit, `outage` if the notification of that commit
was lost with the listener, `collided` if it was dropped because the slot held
the stream's timer. Reads are modelled at the moment a frame is produced; a later
read sees more, never less.

### TrafficAccounting

`report[c]` is one report on its way: the counters of a dump, the owners it has
locked (`held`), those it is about to lock (`batch`), then what it read. A
transaction waits for a row in a state of its own (`Waits`), and PostgreSQL ends a
circle of waiting transactions by aborting one. `agg` holds the rows of the four
aggregate tables, keyed by user, node (or `All`) and day (or `Ever`), 0 where there is
no row (a delta is never 0, so a row that exists is positive). A reset is
the user read, the statements on the lifetime tables, those on the daily tables,
and the update of the owner row with its commit. History: `carried` is what a
tunnel really carried, `settled` what it had carried at the newest dump applied,
`overtaken` the peers to which an older dump was applied after a newer one, `raced` the
accounts into whose last reset a report fell. A block, unblock or change of the limit
(`edit`) loads the account, reads its total and writes the status in steps of their own;
`lapsed` holds the accounts whose last request saved what it had loaded before another
commit. Deleting a node takes its ledger rows and its aggregate rows with it and leaves
the account's own.

### RemnawaveSync

`remote` is Remnawave itself, `mirror` the imported row, `blocked` and `peer` the
local account and its peer row. A job fetches (`FetchPage`, `FetchUser`), then its
request loads rows (`LoadRows`) and commits (`WriteRows`): the write is computed
from the loaded copy, and a column is written only when the code assigns it a value
other than the loaded one, as the session does (`Outcome`); the traffic that decides the
limit is read at the load as well. Any number of reconciles (`Passes`) and single-user
syncs (`Syncs`) may overlap, remote users are created (`Newcomers`) and deleted during
a pass, and a node is added in two steps (`adding`). `raced` collects the accounts that
changed under a request that had loaded them, or between the selection and the commit
of a node being added, `skewed` those whose limit was judged on traffic of before a
report. `shifted` and `born` say that a remote user vanished, or which were created,
during a pass. `settings` tells an integration that is merely enabled from one that
polls. `mark_remnawave_user_deleted` is an endpoint without a caller in the worker;
`MarkDeleted` models it for a user that is gone.

### TelegramProxy

Secret, port and domain change together as a version; 0 is a missing secret, file
or process. A PUT is `WriteConfig`, `ReadStatus`, `Restart` or `Start` and
`AnswerApply`, a DELETE is `StopProcess` and `RemoveConfig`, and every command may
fail with either outcome. A job runs once: when it fails, or its worker dies, the next
delivery is refused by its operation and skipped, so only a delivery that could not
start its operation comes back (`delayed`); its snapshot fetch may fail before anything
is reported. `req["left"]` is a request whose caller has gone. `excused` collects nodes
with a fault that no later job has repaired, `unreported` those a job of which was lost
without a report, `unapplied` says that settings were saved and not applied.

### NodeAgent

`live` and `saved` are the peers of the interface and of the file, `liveIf` and
`savedIf` their settings as one version. Each handler changes the interface and
then the file (the other way round for the settings); only the file is under a
lock. `boot` is what the tunnel has read and is bringing up. The file is written in
place: a crash may leave part of it, down to a piece of one peer's block (`broken`),
with which the tunnel does not start until supervisord gives up on it (`gaveUp`). An
`awg set` may fail on an interface that is up (`CommandFails`), which the agent
swallows. `torn` collects peers one of whose requests was cut short or left behind.

## 3. Runs

| Run | Instance | Result |
|---|---|---|
| `devices` | 2 devices of one owner, 2 addresses, 1 node, 1 lifecycle request, crashes, the account may be deleted | types; a device keeps its address while its tunnel is installed, recovery restores rows, no address is lost to the pool, a deletion is durable |
| `device_liveness` | 1 device, 1 node, 2 lifecycle requests, crashes, fair | a deleted device gives its address back, a wanted device is served, a blocked one taken down |
| `delete_user` | 1 device, 1 node | violated, see 6 |
| `shared_address` | 2 devices, 2 nodes, 1 address, no lifecycle requests | violated, see 6 |
| `operations_sequential` | 1 operation, 1 slot, 3 faults, fair | the handler is entered at most once, the code refines `OperationContract` (`Implements`), every operation finishes unless a row without a command stops the recovery |
| `event_streams` | 2 streams competing for 1 place, 2 notifications on the wire, fair | losses are the two known ones, places are returned, changes are announced, revoked and stopped streams end |
| `event_timer` | 1 stream | violated, see 6 |
| `traffic` | 2 accounts, 3 peers on 2 nodes (one peer new), a sync and a heartbeat of one node, 1 request, 2 days | lifetime totals are the ledger since the reset, the views agree, nothing is charged twice, the limit holds, reports wait for each other in order |
| `remnawave` | 2 remote users in pages of 1 (one created later), 1 device owner, a pass and a single-user sync, 2 changes, fair | blocks and recoveries reach every row, deletion is durable, the combined limit holds, a present user turns stale only when pages shifted or it is new, accounts converge to Remnawave |
| `telegram_proxy` | 2 nodes, 4 requests, 2 faults, fair | the shown link is served, no process the panel cannot see, a disable comes to an end |
| `node_agent` | 2 peers (one without a preshared key), 2 changes, 2 faults, fair | a removed peer stays away, a restart keeps the peers, settings are saved, peers converge |
| `slashed_key` | 2 peers, one with a "/" in its key, 1 change, no faults, fair | violated, see 6 |

Why the bounds are enough. In `DevicePeers` two devices of one owner are what a report
needs to re-derive the owner through one row and confirm the removal of the other from
its copy; one lifecycle request beside reports, heartbeats and the passing of
`expire_at` is enough for a recovery that falls between the two transactions of a
report and for a write from a copy out of date. The release rule quantifies over
nodes: `shared_address` has two, and the theorems are for any number. Larger instances
were checked once: the same with two requests (4,993,596 states), one device on two
nodes with one request (2,241,696 states),
one node and one device with any number of requests (230,751 states), one node and two
devices sharing one address with any number of requests (2,309,452 states), the
liveness properties with any number of requests (158,919 states). In
`AsyncOperations`, `MaxAttempts = 3` is the code's value, two copies of a message are
in the broker together, and three faults let a crash, a failed call and a lost answer
follow one another. In `TrafficAccounting` the second node gives the sum over nodes
two terms and can be deleted, two reports and a request are the transactions that meet,
and the new peer makes an owner appear after the first batch (two requests for the
account within one day: 2,187,542 states, checked once). `RemnawaveSync` needs two
users for a page to shift; two overlapping passes with one change were checked once
(1,370,000 states), and the theorems are for any number of both. In `TelegramProxy`
four requests are an apply, a disable, a rotation and an apply. In `NodeAgent` two
faults are a crash on top of an abandoned request. In `UserEvents` the wire holds a
change and a heartbeat in both orders; that two streams of one account do not disturb
each other is proved, not checked. The bounds named in guards are the constants whose
names begin with `Max`.

Deadlock is not checked where the modelled world really may stop: in `DevicePeers`
once devices and nodes have lived their one life and the requests are used up, after
the hub has stopped in `event_streams`, and where all requests of the administrator and
all traffic are used up (`traffic`, `telegram_proxy`) or the integration is disabled
for good (`remnawave`).

Fairness. `DevicePeers`: `sync_all` is published periodically and its queue is
first-in first-out, so it is started again and again; every call has a timeout, so
a job goes on until it ends; crashes and failing calls do not defeat every
attempt at a step, nodes in `Unreachable` excepted. Nothing is assumed of the
requests, of heartbeats or of a node's removal. `AsyncOperations`: loops and tasks
run when they can, rows grow stale with time, and the broker passes no message
over for ever. `UserEvents`: the event loop runs what is ready and checks come
due; nothing is assumed of clients, commits or the database connection.
`RemnawaveSync`: the worker polls every minute and its jobs go on; `Converges` is
stated for an integration that stays enabled and polling and jobs that no longer fail.
`TelegramProxy`: the consumer takes jobs and finishes them, late messages come, the
agent's threads run; nothing is assumed of the administrator. `NodeAgent`: sync
jobs follow one another, the agent's threads run, supervisord restarts the tunnel
until it gives up.

Each property has a mutant (a definition marked "Mutant of ..."): a plausible slip
in the code it is about, under which TLC finds the property violated.

## 4. Proofs

Seven components have a proof module. Each proof rests on an inductive invariant, which
is stated at the end of the component's module and which TLC has confirmed first.

**DevicePeers.** `GeneralInv` holds for any sets of users, devices and nodes and any
overlap of requests and reports. Three strands come together in it. *Release*:
`NoAddressLeak` needs that rows exist only for managed nodes and existing devices
(`RowsHaveParents`) and that every transaction that removes or confirms the last row
also tries the release. *Recovery*: `ActiveOwnerRowsLive` needs, of each handler, that
it leaves no row of an active owner marked unless the device enters `raced`; for a
request this is a comparison of its copy with the rows at the commit (`OutOfDate`,
lemma `RederiveEffect`), for the tail of a report a comparison with `mem`. *Tunnels*:
every tunnel and every planned installation has a row on its own node that is not
confirmed deleted, or is in `revived`, or its account is gone (`TunnelHasRow`,
`InstallHasRow`); a row is confirmed only against a dump that shows what the node
holds (`DumpIsCurrent`), after the installations of the job are done. Hence
`InstalledIsReserved`, and with the unique index on addresses
(`ReservedAddressesDistinct`) `AddressesAreNotShared`: for any number of nodes, the
only ways to two tunnels on one address are a snapshot that puts a confirmed removal
back (section 6) and a deleted account. `AddressesNeverLeak`, `RecoveryIsKept` and
`DurableDeletion` complete the list.

**AsyncOperations.** Both theorems are about a sequential queue (`OneSlot`: one
consumer task, which is how `queue.py` declares these queues) and assume nothing of
requests and publishes. `RunsInv` says that an operation whose handler was entered has
left `queued` for good and that the start request that was let through is the first;
`HandlerRunsOnce` follows. `ImplementsContract` rests on `WritesAreRecent`: when an
open request commits, the status is the one it was decided on or what a request that
overtook it has left, so every step is a transition that `OperationContract` lists, or
one of its `Overtaken` ones, or leaves the status alone.

**UserEvents.** `StreamInv` relates the registrations, the slots and the pages: a
stale page has an announcement under way. It needs `ClosedIsClean` and that an
open stream is registered or has been told to end; then the trailing delivery of
an account survives as long as one of its streams does. `LossesAreKnown` and
`NoPlaceLeaks` follow for any number of accounts and streams.

**NodeAgent.** Neither safety property is inductive: each speaks of a
node at rest, and a crash or a left-behind request strikes a handler between its
halves. `NodeInv` adds what holds then: a handler that has changed the interface and
not yet the file has left its peer as it wanted it, on an interface that is up
(`HalfDone`); every other unmarked peer is in the file exactly if it is on the
interface, or on the one coming up (`StoresAgree`); a request left behind has its
peer marked (`LeftIsMarked`); a released peer is in neither store and
in no job, and what the dump of a job did not show is gone until it reports
(`ReleasedIsGone`). The step that needs most care is `SetPeer` or `RemovePeer` beside
an abandoned request for the same peer: one of the two is the one left behind, so the
peer is marked and stays so, because the job is not alone on it. `ReleasedPeersStayGone`
and `RestartIsHarmless` follow. The constants need `None` to be
apart from peers, numbers, jobs and requests, and nothing else.

**TrafficAccounting.** `TrafficInv` holds for any finite sets of accounts, nodes and
peers and any number of reports under way. The argument has five strands.
*No lost update*: an owner row is locked by one report (`LocksExclude`), so what a
report has read of its owners' counters and aggregates stays true until it writes
(`ReadsFresh`); the value it writes back is therefore the current one plus its deltas,
and the ledger, the account's lifetime row, the sum over the nodes and the sum over the
days since the reset all grow by the same amount (`LifetimesAreLedgers`,
`ViewsAlwaysAgree`); what went with a deleted node is accounted for by the ledger rows it
had. *The limit*: what a request has loaded is still so unless it is marked stale
(`EditFits`), so only such a request can leave an account at its limit active
(`LimitsAreEnforced`). *Resets*: one that no report overlapped has
deleted every row its statements name (`ResetFits`), so at its commit ledger and views
start from zero together. *No double charge*: `NobodyIsOvercharged` is a statement about
restarts of the counter between a dump, its application and the next dump; `Settles`
bounds what each pair of them could charge by what the tunnel carried in between, and
`DumpsFit` orders the dumps. *Waiting*: the first batch of a report is locked in
ascending order (`LocksOrdered`), so along a circle of reports that wait within it the
awaited owners would grow for ever, in a finite set (`ReportsAreOrdered`). It is a
statement about reports only (section 5).
The sums are defined by counting (`Counting`): f[x] is the number of pairs `<<x, i>>`,
`i` in `1..f[x]`, and the sum the number of all pairs. That makes the laws of sums
(splitting, raising one value, grouping into classes) statements about cardinalities,
which the library's theorems on finite sets give without induction over data.

**RemnawaveSync.** `SyncInv` says what a request may rely on between loading and
writing: an account it has loaded that is not in `raced` is as loaded, or a report has blocked it
since (`LoadedFit`); a loaded account still exists, unless the completion of a pass has
purged it under a single-user sync (`LoadedExist`); peer rows exist only where device and
node do, and those of a deleted device are not live (`RowsFit`). `BlockedAreRemoved`,
`ActiveAreProvisioned` and `DeletionIsDurable` follow from it; `LimitedAreBlocked` holds
because the upsert decides the limit last, and from the traffic at its commit unless the
account is in `skewed`.
`PassesMissNobody` is the paging argument: a pass that no deletion shifted has seen
every user up to its position in the listing and at its end all but those created since
it began (`PassCovers`),
where a position is the number of listed users up to one, so a page of k positions holds
at most k users and a page that is empty lies behind the last.

**TelegramProxy.** `ProxyInv` follows one job through its request: where no fault shows,
the file, then the process have the request's version (`Progress`), a result `ready` is
only reported by an apply whose node serves what it wrote (`ReadyServes`), a job on
outdated settings is followed by another one in the queue (`OutdatedIsFollowed`), so that
a `ready` status with nothing pending and no job lost stands for the current version
(`ReadyIsCurrent`).
`LinksAreServed` and `ProcessesAreVisible` follow.

Checked by TLC only: liveness (`DisableTakesEffect`, `Converges`, `PeersConverge`,
`SettingsAreSaved`, `OperationFinishes` and the other properties with fairness), which is
outside the prover's reach, and the four runs that expect a violation. Every invariant
and every action property that a passing run checks is also proved.

## 5. Limits of the models

- Requests are short compared with a worker restart, so none of a task's own
  requests is open when the worker crashes; a report or a PUT that arrives after its
  sender gave up is not modelled, except at the node agent.
- A node or device identifier is never reused. Malformed messages are not modelled: they
  are parsed outside the `try` of `_handle_message` (`worker/app/queue.py:221`), so one
  stays unacknowledged, is not dead-lettered, and comes back with the next connection.
- The device limit, names, tokens, interface parameters, key material and the
  texts of errors are left out. In `DevicePeers` the traffic deltas and limits of a
  report are one flag, `BecomeConstrained`, which may happen at any time;
  `TrafficAccounting` and `RemnawaveSync` have them.
- An account of `DevicePeers` has one lifecycle request under way at a time, which loads
  the account, its rows and its total at one moment; the tombstones and the total a
  request uses may be of any moment up to its commit. `lifecycle_status` and `is_blocked`
  are one value. `WantedIsServed` is checked with one node and one device.
- `AsyncOperations` is checked and proved for the sequential queues. On a parallel queue
  two starts that overlap both enter the handler: `RunsOnce` is false with two slots.
- `TrafficAccounting` counts received and sent bytes as one, has the owner locks and
  not the device and peer locks taken after them, and locks the owners of the
  node's peers; owners with a pending Remnawave purge, who join the same ordered
  batch, are left out. Expiry, the deletion of an account and of a device are left out;
  deleting a node takes its owners' locks at once; an account has one request and one
  reset under way at a time. Endpoint sessions are history only.
- `ReportsWaitInOrder` speaks of reports. Other transactions lock the same rows in other
  orders: a reset deletes aggregate rows before it reaches the owner
  (`local_lifecycle.py:126`), a Remnawave page updates owners in listing order until one
  commit (`internal_worker_parts/remnawave.py:74`), `api_delete_user` deletes peers
  before the owner (`users.py:381`). Each can close a circle with a report; PostgreSQL
  aborts one of the transactions, and every transaction of the model may fail.
- An account of `RemnawaveSync` has at most one device on one node; the queue of
  single-user syncs holds a user once.
- `TelegramProxy` and `NodeAgent` keep at most one abandoned request at a time. The
  check job of the proxy is not modelled, since nothing queues it.
- The order in which `sync_all` visits the nodes is left open.

What the exceptions in the properties stand for, seen with TLC by taking them out:

- `raced` in `DevicePeers`. A recovery that falls between the two transactions of one
  report has its row confirmed `deleted` from the stale copy, and a request that writes
  from a copy loaded before another commit leaves or restores the wrong rows. Without
  the exception `ActiveOwnerRowsLive` and `DeletionIsDurable` are violated on one node.
- `revived`. The consequence of the first reaches further: a device is created after
  the snapshot and its owner becomes constrained; the report commits, the owner
  recovers, `ConfirmSync` writes `deleted` from its copy, the next sync installs the
  device, and deleting it releases the address at once. Without the exception
  `ReservedWhileInstalled` and `NoSharedAddress` are violated on one node as well as on
  two.
- `Unreachable = {n1}` with two nodes breaks `WantedIsServed`: a failing node ends the
  whole `sync_all`.
- `Overtaken` in `OperationContract`. With the listed transitions alone `Implements` is
  violated: `enqueue_failed` is written over `running` or `succeeded` when a publish
  raises after the broker has the message, and a timeout and a success that overlap
  write over each other.
- `Poisoned` in `OperationFinishes`, `lapsed` in `LimitIsEnforced`, `skewed` in
  `LimitedIsBlocked`: sections 6 and 2.

Two further observations without a run: a handler that raises marks its operation
`failed` before the retry, so the later attempts are refused and skipped, while
`CONTRACT.md` speaks of up to three attempts; and a stream opened before the listener
went down is not told so.

## 6. Disagreements between the code and its documents

With a run:

1. `delete_user`: the rows of a deleted account vanish before the re-sync that is
   said to remove its peers, so no snapshot names them.
2. `slashed_key`: the worker sends the public key in the URL as standard base64. A
   key with a "/" matches no route of the agent, the 404 is taken for an absent
   peer, and the peer stays on the node with its row `pending_delete`.
   `DevicePeers` assumes keys without one.
3. `shared_address`: a sync re-installs a peer whose row is `deleted` on its node
   while another node has still to confirm; the address is then released and given to
   another device, and two tunnels on the first node share it
   (`worker/app/handlers.py:473`, `_split_peers`, against `services/devices.py:240`).
4. `event_timer`: a change delivered while the stream's slot holds its own timer is
   dropped, although the comment at `services/events.py:451` says a full queue means an
   unread event and so "loses nothing".

Seen with TLC by taking the exception out of the property, without a run of its own:

5. `OperationFinishes` without `Poisoned`: Telegram proxy rows carry a target type the
   worker refuses; once such a row is stale the recovery loop, and with it the worker,
   dies at it (`worker/app/backend_client.py`, `command_from_operation`, against
   `CONTRACT.md:86`).

Observations the properties of section 3 exempt by name:

- A reset that a report falls into keeps part of that report: some aggregate tables
  have it and others do not (`raced`). A reset, a block, an unblock or a change of the
  limit that loaded the account before a report committed writes its status over the
  `limited` the report set (`lapsed`), until the next report with traffic of the account.
- Deleting a node takes its ledger rows and its totals and leaves the account's total,
  so the totals by node no longer add up to it.
- A report that an earlier-sent one overtakes is taken for a counter reset and
  charged in full (`overtaken`).
- The upsert and the end of a reconcile write back rows they loaded without a lock
  (`raced` in `RemnawaveSync`), and the upsert judges the combined limit on traffic it
  read before its commit (`skewed`). An account blocked or unblocked while a node is
  being added keeps, or misses, a row there. A page that shifts, or a user created and
  imported during the pass, makes a present user stale until the next pass.
  `CONTRACT.md` calls the completion of a reconcile idempotent, but
  each one returns `deleted` peers of unseen users to `pending_delete`, and an unseen
  user whose deletion was requested is not purged by it.
- The webhook commits its event before it publishes the job; if that fails the
  redelivery is answered `already_processed`.
- A job of the Telegram proxy whose worker dies, or whose report is lost, is not run
  again: the old status stays, and with it the link of a secret that was rotated
  meanwhile, or a process that was to be stopped (`unreported`). A process that dies is
  neither restarted nor noticed. A status command that fails reads as disabled, so a
  changed configuration is started instead of restarted.
- An interface update that is cut off, whose `awg set` fails, or that falls between the
  tunnel's reading of the file and the interface coming up, is in the file only, and
  later updates with the same settings are skipped as unchanged. A file cut inside a
  peer's block stops the tunnel; a piece that has lost its key is kept by every later
  rewrite.

## 7. Plan

1. For `DevicePeers`, the address argument under a snapshot that leaves `deleted` rows
   out, where `revived` should become empty for accounts that are not deleted.
2. For `AsyncOperations` and `UserEvents`, the state part of the liveness arguments:
   that whenever work is pending a fair action is possible.

Not modelled, and why: rendering of configurations, QR codes and archives
(`routers/api_parts/configs.py`, `services/node_config.py`, `crypto.py`) has no
state; authentication and the encryption of stored values are stateless; the admin
frontend and the test stand are clients; migrations run once and offline; the
generations and polling cadence of the public page live in one browser page.
