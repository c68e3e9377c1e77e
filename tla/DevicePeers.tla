---------------------------- MODULE DevicePeers ----------------------------
(***************************************************************************)
(* Devices, their peer rows and the tunnels installed on the VPN nodes.    *)
(*                                                                         *)
(* The panel's database holds users, devices, nodes and one peer row per   *)
(* (node, device).  HTTP requests change the rows in short transactions.   *)
(* The worker runs one node job at a time: it reads a snapshot of the      *)
(* rows, calls the node agent peer by peer, dumps what the node holds and  *)
(* reports it; the report handler acknowledges rows, confirms removals and *)
(* hands the addresses of deleted devices back to the pool.  Heartbeats    *)
(* dump and report beside the job.  Every transaction that is serialised   *)
(* by the owner-row lock is one step here; what is NOT serialised (reading *)
(* a snapshot, the calls to the node, the report, the commit in the middle *)
(* of a report, the two halves of adding a node, the loading of an account *)
(* by a lifecycle request and its write) is a step of its own.             *)
(***************************************************************************)
EXTENDS Naturals, FiniteSets

CONSTANTS
    Users, Devices, Nodes,
    Owner,           \* the user each device belongs to
    Addresses,       \* the client addresses of VPN_SUBNET
    None,            \* no node
    DeletableUsers,  \* accounts the administrator may delete
    Unreachable,     \* nodes whose agent never answers
    Crashes,         \* may a job be cut off by a crash or a failed report?
    MaxRequests      \* bound on the number of lifecycle requests

ASSUME ConstantsAssumption ==
    /\ Owner \in [Devices -> Users]
    /\ Addresses \subseteq Nat \ {0}
    /\ None \notin Nodes
    /\ DeletableUsers \subseteq Users
    /\ Unreachable \subseteq Nodes
    /\ Crashes \in BOOLEAN
    /\ MaxRequests \in Nat

VARIABLES
    lifecycle,    \* users.lifecycle_status; is_blocked is (lifecycle # "active")
    constrained,  \* the account is past expire_at or over its traffic limit
    device,       \* life of each device row
    addr,         \* the address a device was given (vpn_ip, then released_vpn_ip)
    node,         \* life of each node row
    adding,       \* devices a node creation in progress has selected
    peer,         \* peers.status per node and device, "none" when there is no row
    wg,           \* the tunnels installed on each node
    beat,         \* a heartbeat's dump on its way to the backend
    phase, kind, at, unread, todo, put, del, dump,  \* the worker's node job
    mem,          \* rows the report handler holds in memory after its commit
    loadedLife,   \* a lifecycle request under way: the status it has loaded,
                  \* "none" when there is none
    loadedOver,   \* accounts it found expired or over their limit
    loadedRows,   \* peer rows it has loaded
    loadedTombs,  \* devices that were deleted when it loaded them
    asked,        \* lifecycle requests so far
    raced,        \* history: devices last written from a copy of their rows
                  \* that was out of date
    revived       \* history: devices each node was asked to install although
                  \* its own row said "deleted"

copies   == <<loadedLife, loadedOver, loadedRows, loadedTombs, asked>>
dbVars   == <<lifecycle, constrained, device, addr, node, adding, peer, raced,
              copies>>
jobVars  == <<phase, kind, at, unread, todo, put, del, dump, mem, revived>>
vars     == <<dbVars, wg, beat, jobVars>>

Lifecycle  == {"active", "blocked", "constrained", "gone"}
DeviceLife == {"unborn", "live", "tombstoned", "released", "purged"}
NodeLife   == {"absent", "adding", "managed", "removed"}
Status     == {"none", "pending", "active", "pending_delete", "deleted"}
Tombstoned == {"pending_delete", "deleted"}   \* TOMBSTONED_PEER_STATUSES
Phase      == {"idle", "ready", "applying", "failed", "reporting", "confirming"}
Kind       == {"none", "all", "node", "provision"}

TypeOK ==
    /\ lifecycle \in [Users -> Lifecycle]
    /\ constrained \in [Users -> BOOLEAN]
    /\ device \in [Devices -> DeviceLife]
    /\ addr \in [Devices -> Addresses \cup {0}]
    /\ node \in [Nodes -> NodeLife]
    /\ adding \in [Nodes -> SUBSET Devices]
    /\ peer \in [Nodes -> [Devices -> Status]]
    /\ wg \in [Nodes -> SUBSET Devices]
    /\ beat \in [Nodes -> SUBSET Devices]
    /\ phase \in Phase
    /\ kind \in Kind
    /\ at \in IF phase \in {"idle", "ready"} THEN {None} ELSE Nodes
    /\ unread \in SUBSET Nodes
    /\ todo \in SUBSET Nodes
    /\ put \in [Nodes -> SUBSET Devices]
    /\ del \in [Nodes -> SUBSET Devices]
    /\ dump \in SUBSET Devices
    /\ mem \in [Devices -> Status]
    /\ loadedLife \in [Users -> Lifecycle \cup {"none"}]
    /\ loadedOver \in SUBSET Users
    /\ loadedRows \in [Nodes -> [Devices -> Status]]
    /\ loadedTombs \in SUBSET Devices
    /\ asked \in 0..MaxRequests
    /\ raced \in SUBSET Devices
    /\ revived \in [Nodes -> SUBSET Devices]

Nothing == [n \in Nodes |-> {}]
NoRows  == [d \in Devices |-> "none"]

Init ==
    /\ lifecycle = [u \in Users |-> "active"]
    /\ constrained = [u \in Users |-> FALSE]
    /\ device = [d \in Devices |-> "unborn"]
    /\ addr = [d \in Devices |-> 0]
    /\ node = [n \in Nodes |-> "absent"]
    /\ adding = Nothing
    /\ peer = [n \in Nodes |-> NoRows]
    /\ wg = Nothing
    /\ beat = Nothing
    /\ phase = "idle"
    /\ kind = "none"
    /\ at = None
    /\ unread = {}
    /\ todo = {}
    /\ put = Nothing
    /\ del = Nothing
    /\ dump = {}
    /\ mem = NoRows
    /\ loadedLife = [u \in Users |-> "none"]
    /\ loadedOver = {}
    /\ loadedRows = [n \in Nodes |-> NoRows]
    /\ loadedTombs = {}
    /\ asked = 0
    /\ raced = {}
    /\ revived = Nothing

-----------------------------------------------------------------------------
(* Rules shared by the handlers.                                           *)

Managed == {n \in Nodes : node[n] = "managed"}

\* devices.vpn_ip is set: the device holds its address.
Reserved(d) == device[d] \in {"live", "tombstoned"}

\* Mutant of Release: a row marked for removal counts as gone.
ReleaseEarly(dev, rows, candidates) ==
    [d \in Devices |->
        IF /\ d \in candidates
           /\ dev[d] = "tombstoned"
           /\ \A n \in Nodes : rows[n][d] \in {"none"} \cup Tombstoned
        THEN "released" ELSE dev[d]]

\* release_device_ip on the named devices, once every peer row is gone.
Release(dev, rows, candidates) ==
    [d \in Devices |->
        IF /\ d \in candidates
           /\ dev[d] = "tombstoned"
           /\ \A n \in Nodes : rows[n][d] \in {"none", "deleted"}
        THEN "released" ELSE dev[d]]

\* desired_status of apply_local_lifecycle_state.
Derived(stored, isConstrained) ==
    IF isConstrained THEN "constrained"
    ELSE IF stored = "blocked" THEN "blocked" ELSE "active"

\* Devices whose deleted_at is set (tombstoned_device_ids).
Deleted == {d \in Devices : device[d] \in {"tombstoned", "released"}}

\* Mutant of Looped: a recovery brings back only rows marked for removal, not the
\* ones a node has already confirmed.
LoopedPartly(r, isDeleted, new) ==
    IF r = "none" THEN "none"
    ELSE IF new # "active" THEN "pending_delete"
    ELSE IF r = "pending_delete" /\ ~isDeleted THEN "pending" ELSE r

\* Mutant of Looped: a recovery does not look at the device's tombstone.
LoopedBlindly(r, isDeleted, new) ==
    IF r = "none" THEN "none"
    ELSE IF new # "active" THEN "pending_delete"
    ELSE IF r \in Tombstoned THEN "pending" ELSE r

\* The peer loop of apply_local_lifecycle_state on one row, for an owner whose
\* status becomes new.
Looped(r, isDeleted, new) ==
    IF r = "none" THEN "none"
    ELSE IF new # "active" THEN "pending_delete"
    ELSE IF r \in Tombstoned /\ ~isDeleted THEN "pending" ELSE r

\* restore_missing_peers_for_user gives live device d a row on node n.
Restores(n, d, old, new) ==
    /\ old # "active" /\ new = "active"
    /\ device[d] = "live" /\ node[n] = "managed"

\* apply_local_lifecycle_state on the current rows of the owners in us, whose
\* status goes from old to new.
Rederived(rows, us, old, new) ==
    [n \in Nodes |-> [d \in Devices |->
        LET u == Owner[d]
            r == rows[n][d]
        IN  IF u \notin us THEN r
            ELSE IF r = "none" /\ Restores(n, d, old[u], new[u]) THEN "pending"
            ELSE Looped(r, d \in Deleted, new[u])]]

\* apply_peer_result for the keys a node reported: "active", unless the row or
\* its device is tombstoned.
Acknowledged(n, seen) ==
    [d \in Devices |->
        IF d \notin seen \/ peer[n][d] \in {"none"} \cup Tombstoned
        THEN peer[n][d]
        ELSE IF device[d] = "live" THEN "active" ELSE "pending_delete"]

\* Owners whose peers a report of node n acknowledges.
AckedOwners(n, seen) == {Owner[d] : d \in {e \in seen : peer[n][e] # "none"}}

\* Mutant of SnapshotPut: only rows the node has acknowledged are sent.
SnapshotPutActive(n) ==
    {d \in Devices : /\ peer[n][d] = "active"
                     /\ Reserved(d)
                     /\ lifecycle[Owner[d]] = "active"}

\* _split_peers over node_snapshot: a released device has no payload.
SnapshotPut(n) ==
    {d \in Devices : /\ peer[n][d] \notin {"none", "pending_delete"}
                     /\ Reserved(d)
                     /\ lifecycle[Owner[d]] = "active"}

\* Mutants of SnapshotDel: only the peers of inactive owners, or only those of
\* deleted devices, are removed.
SnapshotDelInactive(n) ==
    {d \in Devices : /\ peer[n][d] # "none"
                     /\ Reserved(d)
                     /\ lifecycle[Owner[d]] # "active"}

SnapshotDelDeleted(n) ==
    {d \in Devices : /\ peer[n][d] # "none"
                     /\ device[d] = "tombstoned"}

SnapshotDel(n) ==
    {d \in Devices : /\ peer[n][d] # "none"
                     /\ Reserved(d)
                     /\ \/ peer[n][d] = "pending_delete"
                        \/ lifecycle[Owner[d]] # "active"}

-----------------------------------------------------------------------------
(* Requests of the owner and of the administrator.                         *)

\* create_device, under the owner lock: an active owner, the lowest free
\* address, a pending row on every node.  (The device limit only refuses.)
CreateDevice(d) ==
    LET free == Addresses \ {addr[e] : e \in {f \in Devices : Reserved(f)}}
    IN  /\ device[d] = "unborn"
        /\ lifecycle[Owner[d]] = "active" /\ ~constrained[Owner[d]]
        /\ \E a \in free :
              /\ \A b \in free : a <= b
              /\ addr' = [addr EXCEPT ![d] = a]
        /\ device' = [device EXCEPT ![d] = "live"]
        /\ peer' = [n \in Nodes |->
                      IF node[n] = "managed"
                      THEN [peer[n] EXCEPT ![d] = "pending"] ELSE peer[n]]
        /\ UNCHANGED <<lifecycle, constrained, node, adding, raced, copies, wg,
                       beat, jobVars>>

\* delete_device: tombstone, mark the rows, release at once when nothing is left.
DeleteDevice(d) ==
    LET rows == [n \in Nodes |->
                   IF peer[n][d] \in {"pending", "active"}
                   THEN [peer[n] EXCEPT ![d] = "pending_delete"] ELSE peer[n]]
        dev  == [device EXCEPT ![d] = IF @ = "live" THEN "tombstoned" ELSE @]
    IN  /\ device[d] \in {"live", "tombstoned", "released"}
        /\ peer' = rows
        /\ device' = Release(dev, rows, {d})
        /\ UNCHANGED <<lifecycle, constrained, addr, node, adding, raced, copies,
                       wg, beat, jobVars>>

\* The load of api_block_user, api_unblock_user, api_update_local_lifecycle and
\* api_reset_local_traffic: db.get of the account and its peers takes no lock.
LoadUser(u) ==
    /\ loadedLife[u] = "none" /\ lifecycle[u] # "gone"
    /\ asked < MaxRequests /\ asked' = asked + 1
    /\ loadedLife' = [loadedLife EXCEPT ![u] = lifecycle[u]]
    /\ loadedOver' = loadedOver \cup {v \in {u} : constrained[v]}
    /\ loadedRows' = [n \in Nodes |-> [d \in Devices |->
          IF Owner[d] = u THEN peer[n][d] ELSE loadedRows[n][d]]]
    /\ loadedTombs' = loadedTombs \cup {d \in Deleted : Owner[d] = u}
    /\ UNCHANGED <<lifecycle, constrained, device, addr, node, adding, peer,
                   raced, wg, beat, jobVars>>

ForgetUser(u) ==
    /\ loadedLife' = [loadedLife EXCEPT ![u] = "none"]
    /\ loadedOver' = loadedOver \ {u}
    /\ loadedRows' = [n \in Nodes |-> [d \in Devices |->
          IF Owner[d] = u THEN "none" ELSE loadedRows[n][d]]]
    /\ loadedTombs' = {d \in loadedTombs : Owner[d] # u}
    /\ UNCHANGED asked

\* The request is refused (409), cut off, or rolled back because a row it wants
\* to write is gone.
RequestEnds(u) ==
    /\ loadedLife[u] # "none"
    /\ ForgetUser(u)
    /\ UNCHANGED <<lifecycle, constrained, device, addr, node, adding, peer,
                   raced, wg, beat, jobVars>>

\* The copy of u's request misses a change of the account, a row marked or
\* confirmed since, or the deletion of the device.
OutOfDate(u, d) ==
    /\ Owner[d] = u
    /\ \/ loadedLife[u] # lifecycle[u]
       \/ \E n \in Nodes : peer[n][d] \in Tombstoned \ {loadedRows[n][d]}
       \/ d \in Deleted \ loadedTombs

\* The row loaded by u's request is written back because the loop changed it.
Writes(u, n, d, tombs, new) ==
    /\ Owner[d] = u
    /\ Looped(loadedRows[n][d], d \in tombs, new) # loadedRows[n][d]

RowsWritten(u, tombs, new) ==
    [n \in Nodes |-> [d \in Devices |->
        IF Writes(u, n, d, tombs, new)
        THEN Looped(loadedRows[n][d], d \in tombs, new)
        ELSE IF /\ Owner[d] = u /\ peer[n][d] = "none"
                /\ Restores(n, d, loadedLife[u], new) THEN "pending"
        ELSE peer[n][d]]]

\* apply_local_lifecycle_state and the commit of a request about user u, from the
\* copy it has loaded; what the copy already says is not written.  A changed
\* account row is flushed before the tombstones are read, which takes the owner
\* row; otherwise they were read at some moment since the load.
Rederive(u, stored, judged, touched) ==
    LET new     == Derived(stored, judged)
        changed == loadedLife[u] # stored \/ loadedLife[u] # new
    IN  /\ loadedLife[u] # "none" /\ lifecycle[u] # "gone"
        /\ \E tombs \in SUBSET Deleted :
              /\ {d \in loadedTombs : Owner[d] = u} \subseteq tombs
              /\ touched \/ changed => tombs = Deleted
              /\ \A n \in Nodes, d \in Devices :
                    Writes(u, n, d, tombs, new) => peer[n][d] # "none"
              /\ peer' = RowsWritten(u, tombs, new)
        /\ lifecycle' = IF changed THEN [lifecycle EXCEPT ![u] = new] ELSE lifecycle
        /\ raced' = {d \in raced : Owner[d] # u}
                      \cup {d \in Devices : OutOfDate(u, d)}
        /\ ForgetUser(u)
        /\ UNCHANGED <<device, addr, node, adding, wg, beat, jobVars>>

\* The limits as they were when the account was loaded, or as they are now: the
\* total is read at some moment in between.
Judged(u) == {constrained[u], u \in loadedOver}

\* A changed status is flushed before the total is read.
BlockUser(u) ==
    /\ \E judged \in Judged(u) :
          /\ loadedLife[u] # "blocked" => judged = constrained[u]
          /\ Rederive(u, "blocked", judged, FALSE)
    /\ UNCHANGED constrained

\* 409 while the account is expired or over its limit, judged as loaded.
UnblockUser(u) ==
    /\ u \notin loadedOver
    /\ Rederive(u, "active", FALSE, FALSE)
    /\ UNCHANGED constrained

\* New expire_at and traffic limit, or the ones the account had; the stored
\* status is judged again.
UpdateLifecycle(u) ==
    \/ \E c \in BOOLEAN : /\ Rederive(u, loadedLife[u], c, TRUE)
                          /\ constrained' = [constrained EXCEPT ![u] = c]
    \/ \E judged \in Judged(u) :
          /\ Rederive(u, loadedLife[u], judged, FALSE)
          /\ UNCHANGED constrained

\* The counters go to zero; an expired account stays expired.
ResetTraffic(u) ==
    \E c \in {constrained[u], FALSE} :
        /\ Rederive(u, loadedLife[u], c, TRUE)
        /\ constrained' = [constrained EXCEPT ![u] = c]

\* The account passes expire_at or its traffic limit; no handler has run yet.
BecomeConstrained(u) ==
    /\ lifecycle[u] # "gone" /\ ~constrained[u]
    /\ constrained' = [constrained EXCEPT ![u] = TRUE]
    /\ UNCHANGED <<lifecycle, device, addr, node, adding, peer, raced, copies, wg,
                   beat, jobVars>>

\* api_delete_user: the user, its devices and its peer rows, in one transaction.
DeleteUser(u) ==
    /\ u \in DeletableUsers /\ lifecycle[u] # "gone"
    /\ lifecycle' = [lifecycle EXCEPT ![u] = "gone"]
    /\ device' = [d \in Devices |->
                    IF Owner[d] = u /\ device[d] # "unborn" THEN "purged"
                    ELSE device[d]]
    /\ peer' = [n \in Nodes |-> [d \in Devices |->
                    IF Owner[d] = u THEN "none" ELSE peer[n][d]]]
    /\ UNCHANGED <<constrained, addr, node, adding, raced, copies, wg, beat,
                   jobVars>>

\* api_add_node, first half: the devices it will give a row are selected.
AddNodeSelect(n) ==
    /\ node[n] = "absent"
    /\ node' = [node EXCEPT ![n] = "adding"]
    /\ adding' = [adding EXCEPT ![n] =
                    {d \in Devices : /\ device[d] = "live"
                                     /\ lifecycle[Owner[d]] = "active"}]
    /\ UNCHANGED <<lifecycle, constrained, device, addr, peer, raced, copies, wg,
                   beat, jobVars>>

\* Second half: the rows are inserted (a purged device fails its foreign key and
\* is skipped) and the node becomes visible.
AddNodeCommit(n) ==
    /\ node[n] = "adding"
    /\ node' = [node EXCEPT ![n] = "managed"]
    /\ adding' = [adding EXCEPT ![n] = {}]
    /\ peer' = [peer EXCEPT ![n] =
                  [d \in Devices |-> IF d \in adding[n] /\ device[d] # "purged"
                                     THEN "pending" ELSE @[d]]]
    /\ UNCHANGED <<lifecycle, constrained, device, addr, raced, copies, wg, beat,
                   jobVars>>

\* api_delete_node: the rows go with the node; its tunnels stay where they are.
DeleteNode(n) ==
    LET held == {d \in Devices : peer[n][d] # "none"}
        rows == [peer EXCEPT ![n] = NoRows]
    IN  /\ node[n] = "managed"
        /\ node' = [node EXCEPT ![n] = "removed"]
        /\ peer' = rows
        /\ device' = Release(device, rows, held)
        /\ UNCHANGED <<lifecycle, constrained, addr, adding, raced, copies, wg,
                       beat, jobVars>>

-----------------------------------------------------------------------------
(* The worker's node job.  sync_all, sync_node and provision_node share one *)
(* sequential slot.                                                        *)

\* Mutant of EndJob: the slot keeps the node it was working on.
EndJobKeepsNode ==
    /\ phase' = "idle" /\ kind' = "none" /\ at' = at
    /\ unread' = {} /\ todo' = {}
    /\ put' = Nothing /\ del' = Nothing /\ dump' = {} /\ mem' = NoRows
    /\ UNCHANGED revived

EndJob ==
    /\ phase' = "idle" /\ kind' = "none" /\ at' = None
    /\ unread' = {} /\ todo' = {}
    /\ put' = Nothing /\ del' = Nothing /\ dump' = {} /\ mem' = NoRows
    /\ UNCHANGED revived

\* The node at hand is done: _sync_all goes on with its next snapshot.
FinishNode ==
    \/ todo = {} /\ EndJob
    \/ /\ todo # {}
       /\ phase' = "ready" /\ at' = None /\ dump' = {} /\ mem' = NoRows
       /\ put' = [put EXCEPT ![at] = {}] /\ del' = [del EXCEPT ![at] = {}]
       /\ UNCHANGED <<kind, unread, todo, revived>>

ReadSnapshot(n) ==
    /\ put' = [put EXCEPT ![n] = SnapshotPut(n)]
    /\ del' = [del EXCEPT ![n] = SnapshotDel(n)]
    /\ revived' = [revived EXCEPT ![n] =
                     @ \cup {d \in SnapshotPut(n) : peer[n][d] = "deleted"}]

\* sync_all: sync_snapshot lists the nodes and reads them one after the other.
StartSyncAll ==
    /\ phase = "idle" /\ Managed # {}
    /\ phase' = "ready" /\ kind' = "all" /\ unread' = Managed
    /\ UNCHANGED <<dbVars, wg, beat, at, todo, put, del, dump, mem, revived>>

\* A node deleted since the list was read has no peers left.
FetchNext(n) ==
    /\ phase = "ready" /\ n \in unread
    /\ unread' = unread \ {n} /\ todo' = todo \cup {n}
    /\ ReadSnapshot(n)
    /\ UNCHANGED <<dbVars, wg, beat, phase, kind, at, dump, mem>>

\* sync_node and provision_node: the snapshot is read before the node lock.
StartNodeJob(n, k) ==
    /\ phase = "idle" /\ n \in Managed /\ k \in {"node", "provision"}
    /\ phase' = "ready" /\ kind' = k /\ todo' = {n}
    /\ ReadSnapshot(n)
    /\ UNCHANGED <<dbVars, wg, beat, at, unread, dump, mem>>

BeginNode(n) ==
    /\ phase = "ready" /\ unread = {} /\ n \in todo
    /\ phase' = "applying" /\ at' = n /\ todo' = todo \ {n}
    /\ UNCHANGED <<dbVars, wg, beat, kind, unread, put, del, dump, mem, revived>>

Answering == phase = "applying" /\ at \notin Unreachable

\* One PUT of put_peers; a peer that is already there is not sent again.
InstallPeer(d) ==
    /\ Answering
    /\ d \in put[at] \ wg[at]
    /\ wg' = [wg EXCEPT ![at] = @ \cup {d}]
    /\ UNCHANGED <<dbVars, beat, jobVars>>

\* One DELETE, after every PUT.  A key the agent's route does not accept is the
\* subject of NodeAgent.
RemovePeer(d) ==
    /\ Answering
    /\ put[at] \subseteq wg[at]
    /\ d \in del[at] \cap wg[at]
    /\ wg' = [wg EXCEPT ![at] = @ \ {d}]
    /\ UNCHANGED <<dbVars, beat, jobVars>>

TakeDump ==
    /\ Answering
    /\ put[at] \subseteq wg[at] /\ del[at] \cap wg[at] = {}
    /\ phase' = "reporting" /\ dump' = wg[at]
    /\ UNCHANGED <<dbVars, wg, beat, kind, at, unread, todo, put, del, mem,
                   revived>>

\* Any call to the node may fail; what was installed or removed stays so.
ApplyFails ==
    /\ phase = "applying"
    /\ phase' = "failed"
    /\ UNCHANGED <<dbVars, wg, beat, kind, at, unread, todo, put, del, dump, mem,
                   revived>>

\* The failure is reported and raised: the rest of a sync_all is abandoned.
ReportFailure ==
    /\ phase = "failed"
    /\ EndJob
    /\ UNCHANGED <<dbVars, wg, beat>>

\* 404: the node was deleted while the job ran.
ReportRefused ==
    /\ phase = "reporting" /\ node[at] # "managed"
    /\ EndJob
    /\ UNCHANGED <<dbVars, wg, beat>>

\* node_provision_result does not look at the peers.
ReportProvision ==
    /\ phase = "reporting" /\ kind = "provision" /\ node[at] = "managed"
    /\ EndJob
    /\ UNCHANGED <<dbVars, wg, beat>>

\* _apply_peer_results: acknowledge what the node reported, then re-derive the
\* lifecycle of the owners whose counters moved.
LifeAfter(us) ==
    [u \in Users |-> IF u \in us THEN Derived(lifecycle[u], constrained[u])
                     ELSE lifecycle[u]]

\* Their rows are derived from what the transaction itself has locked and read.
RacedAfter(us) == {d \in raced : Owner[d] \notin us}

AckedRows(n, seen) == [peer EXCEPT ![n] = Acknowledged(n, seen)]

RowsAfter(n, seen, us) ==
    Rederived(AckedRows(n, seen), us, lifecycle, LifeAfter(us))

\* Mutant of Confirmed: a removal is confirmed although the node still has it.
ConfirmedUnseen(rows, held, n, seen) ==
    [rows EXCEPT ![n] =
        [d \in Devices |-> IF held[d] = "pending_delete"
                           THEN "deleted" ELSE @[d]]]

\* The tail of node_sync_result over the rows it holds in memory: rows marked
\* for removal that the node no longer reports become deleted.
Confirmed(rows, held, n, seen) ==
    [rows EXCEPT ![n] =
        [d \in Devices |-> IF held[d] = "pending_delete" /\ d \notin seen
                           THEN "deleted" ELSE @[d]]]

\* Mutant of Candidates: the rows confirmed by this very report are left out.
CandidatesLate(held, seen) == {d \in Devices : held[d] = "deleted"}

Candidates(held, seen) ==
    {d \in Devices : \/ held[d] = "deleted"
                     \/ held[d] = "pending_delete" /\ d \notin seen}

\* node_sync_result when no lifecycle changed: one transaction.
ReportSync ==
    /\ phase = "reporting" /\ kind # "provision" /\ node[at] = "managed"
    /\ \E us \in SUBSET AckedOwners(at, dump) :
          LET acked == AckedRows(at, dump)
              rows  == Confirmed(acked, acked[at], at, dump)
          IN  /\ RowsAfter(at, dump, us) = acked
              /\ lifecycle' = LifeAfter(us)
              /\ peer' = rows
              /\ device' = Release(device, rows, Candidates(acked[at], dump))
              /\ raced' = RacedAfter(us)
    /\ FinishNode
    /\ UNCHANGED <<constrained, addr, node, adding, copies, wg, beat>>

\* A lifecycle changed: enqueue_sync_nodes commits what was applied so far,
\* which ends the row locks; the handler goes on with the rows it has loaded.
ReportSyncCommits ==
    /\ phase = "reporting" /\ kind # "provision" /\ node[at] = "managed"
    /\ \E us \in SUBSET AckedOwners(at, dump) :
          LET rows == RowsAfter(at, dump, us)
          IN  /\ rows # AckedRows(at, dump)
              /\ lifecycle' = LifeAfter(us)
              /\ peer' = rows
              /\ mem' = rows[at]
              /\ raced' = RacedAfter(us)
    /\ phase' = "confirming"
    /\ UNCHANGED <<constrained, device, addr, node, adding, copies, wg, beat, kind,
                   at, unread, todo, put, del, dump, revived>>

\* The second transaction of that handler writes from its own copy.
ConfirmSync ==
    LET rows == Confirmed(peer, mem, at, dump)
    IN  /\ phase = "confirming"
        /\ \A d \in Devices :
              mem[d] = "pending_delete" /\ d \notin dump => peer[at][d] # "none"
        /\ peer' = rows
        /\ device' = Release(device, rows, Candidates(mem, dump))
        /\ raced' = raced \cup
              {d \in Devices : /\ mem[d] = "pending_delete" /\ d \notin dump
                               /\ peer[at][d] # "pending_delete"}
        /\ FinishNode
        /\ UNCHANGED <<lifecycle, constrained, addr, node, adding, copies, wg,
                       beat>>

\* A row it wants to write was deleted: the transaction rolls back (500).
ConfirmFails ==
    /\ phase = "confirming"
    /\ \E d \in Devices :
          mem[d] = "pending_delete" /\ d \notin dump /\ peer[at][d] = "none"
    /\ EndJob
    /\ UNCHANGED <<dbVars, wg, beat>>

\* The worker or the backend stops, or a call between them fails.
Abort ==
    /\ Crashes /\ phase # "idle"
    /\ EndJob
    /\ UNCHANGED <<dbVars, wg, beat>>

-----------------------------------------------------------------------------
(* Heartbeats: a dump and, some time later, its report.                    *)

HeartbeatDump(n) ==
    /\ node[n] = "managed" /\ n \notin Unreachable
    /\ beat' = [beat EXCEPT ![n] = wg[n]]
    /\ UNCHANGED <<dbVars, wg, jobVars>>

\* node_heartbeat_result: acknowledges and re-derives, never confirms a removal.
HeartbeatReport(n) ==
    /\ beat[n] # {} /\ node[n] = "managed"
    /\ \E us \in SUBSET AckedOwners(n, beat[n]) :
          /\ lifecycle' = LifeAfter(us)
          /\ peer' = RowsAfter(n, beat[n], us)
          /\ raced' = RacedAfter(us)
    /\ beat' = [beat EXCEPT ![n] = {}]
    /\ UNCHANGED <<constrained, device, addr, node, adding, copies, wg, jobVars>>

HeartbeatLost(n) ==
    /\ beat[n] # {}
    /\ beat' = [beat EXCEPT ![n] = {}]
    /\ UNCHANGED <<dbVars, wg, jobVars>>

-----------------------------------------------------------------------------
Request ==
    \/ \E d \in Devices : CreateDevice(d) \/ DeleteDevice(d)
    \/ \E u \in Users : \/ LoadUser(u) \/ RequestEnds(u)
                        \/ BlockUser(u) \/ UnblockUser(u) \/ UpdateLifecycle(u)
                        \/ ResetTraffic(u) \/ BecomeConstrained(u)
                        \/ DeleteUser(u)
    \/ \E n \in Nodes : AddNodeSelect(n) \/ AddNodeCommit(n) \/ DeleteNode(n)

StartJob ==
    \/ StartSyncAll
    \/ \E n \in Nodes : StartNodeJob(n, "node") \/ StartNodeJob(n, "provision")

JobStep ==
    \/ \E n \in Nodes : FetchNext(n) \/ BeginNode(n)
    \/ \E d \in Devices : InstallPeer(d) \/ RemovePeer(d)
    \/ TakeDump \/ ApplyFails
    \/ ReportFailure \/ ReportRefused \/ ReportProvision
    \/ ReportSync \/ ReportSyncCommits \/ ConfirmSync \/ ConfirmFails

Heartbeat ==
    \E n \in Nodes : HeartbeatDump(n) \/ HeartbeatReport(n) \/ HeartbeatLost(n)

Next == Request \/ StartJob \/ JobStep \/ Abort \/ Heartbeat

Spec == Init /\ [][Next]_vars

-----------------------------------------------------------------------------
(* Properties.                                                             *)

\* While a managed node holds a device's tunnel, the device still holds its
\* address: release_device_ip ran only when no node had it installed, whatever
\* the order of deletions, lifecycle requests, reports and changes of nodes.
\* Excepted are the tunnels of deleted accounts, whose rows go before their
\* tunnels, and those a snapshot asked a node to install after the node itself
\* had confirmed their removal.
ReservedWhileInstalled ==
    \A n \in Managed : \A d \in wg[n] \ revived[n] :
        device[d] # "purged" => Reserved(d)

\* Such tunnels apart, no managed node ever carries two tunnels with the same
\* address, the hazard release_device_ip and allocate_device_ip exclude.
NoSharedAddress ==
    \A n \in Managed : \A d, e \in wg[n] \ revived[n] :
        /\ device[d] # "purged" /\ device[e] # "purged"
        /\ addr[d] = addr[e]
        => d = e

\* release_device_ip: an address is reused only when it is safe, otherwise
\* "reusing its address would put two tunnels on one address".
OneTunnelPerAddress ==
    \A n \in Managed : \A d, e \in wg[n] : addr[d] = addr[e] => d = e

\* A live device of an active owner has no row that is going away: whatever the
\* order of blocks, recoveries and node reports, no report leaves a row behind
\* that apply_local_lifecycle_state had to restore.  Only a request or the tail
\* of node_sync_result that writes from a copy out of date can, and only until
\* the account's rows are derived from current ones again.
ActiveOwnerRowsLive ==
    \A n \in Nodes, d \in Devices \ raced :
        device[d] = "live" /\ lifecycle[Owner[d]] = "active"
            => peer[n][d] \notin Tombstoned

\* A deleted device stays deleted: no report, heartbeat or lifecycle change moves
\* one of its rows from a tombstoned status back to a live one, save a request
\* that writes from a copy out of date.
DeletionIsDurable ==
    [][\A n \in Nodes, d \in Devices :
          /\ device[d] \in {"tombstoned", "released"}
          /\ peer[n][d] \in Tombstoned
          /\ d \notin raced'
          => peer'[n][d] \in Tombstoned \cup {"none"}]_vars

-----------------------------------------------------------------------------
(* Liveness.                                                               *)

\* sync_all is published periodically and the slot is a FIFO semaphore, so it is
\* started again and again; every call of a job has a timeout, so a job goes on
\* until it ends.  Crashes and failing calls do not defeat every attempt: a step
\* of a sync that is attempted again and again succeeds again and again, calls to
\* Unreachable nodes excepted.
SyncsNode(n) == at = n /\ kind # "provision"

Fairness ==
    /\ SF_vars(StartSyncAll)
    /\ WF_vars(JobStep)
    /\ \A n \in Nodes : SF_vars(FetchNext(n))
    /\ SF_vars(kind = "all" /\ \E n \in Nodes : BeginNode(n))
    /\ \A n \in Nodes \ Unreachable :
          /\ \A d \in Devices : /\ SF_vars(SyncsNode(n) /\ InstallPeer(d))
                                /\ SF_vars(SyncsNode(n) /\ RemovePeer(d))
          /\ SF_vars(SyncsNode(n) /\ TakeDump)
          /\ SF_vars(SyncsNode(n) /\ (ReportSync \/ ReportSyncCommits))
          /\ SF_vars(SyncsNode(n) /\ ConfirmSync)

FairSpec == Spec /\ Fairness

\* The address of a deleted device comes back to the pool: some report confirms
\* the removal, whatever blocks, recoveries and heartbeats come in between.  A
\* row that a request has put back to "pending" from a copy out of date is not
\* confirmed as long as its owner stays inactive.
DeletedIsReleased ==
    \A d \in Devices : device[d] = "tombstoned" /\ d \notin raced
                          ~> device[d] # "tombstoned" \/ d \in raced

\* A device that should be served on a node that answers is installed there and
\* acknowledged.  A row last written from a copy out of date may stay "deleted",
\* installed and never acknowledged, until the account is derived again.  The run
\* has one node: behind a node that fails, sync_all never reaches the next one.
Wanted(n, d) ==
    /\ node[n] = "managed" /\ peer[n][d] # "none"
    /\ device[d] = "live" /\ lifecycle[Owner[d]] = "active"
    /\ d \notin raced

WantedIsServed ==
    \A n \in Nodes \ Unreachable, d \in Devices :
        Wanted(n, d) ~> \/ d \in wg[n] /\ peer[n][d] = "active"
                        \/ ~Wanted(n, d)

\* The tunnels of a blocked account are taken down.
Unwanted(n, d) ==
    /\ node[n] = "managed" /\ device[d] = "live"
    /\ lifecycle[Owner[d]] \in {"blocked", "constrained"}

BlockedIsRemoved ==
    \A n \in Nodes \ Unreachable, d \in Devices :
        Unwanted(n, d) ~> \/ d \notin wg[n] \/ ~Unwanted(n, d)

\* The tunnels of a deleted account are taken down: api_delete_user re-syncs the
\* nodes "so the node side removes them".
PurgedIsRemoved ==
    \A n \in Nodes, d \in Devices :
        device[d] = "purged" /\ node[n] = "managed"
            ~> d \notin wg[n] \/ node[n] # "managed"

-----------------------------------------------------------------------------
(* The inductive invariant.                                                *)

\* The worker's slot is consistent.
JobShape ==
    /\ phase = "idle" => todo = {} /\ put = Nothing
    /\ unread # {} => phase = "ready"
    /\ todo \cap unread = {} /\ at \notin todo

\* A node that is still being added has neither tunnels nor jobs.
FreshNodes ==
    \A n \in Nodes : node[n] \in {"absent", "adding"} =>
        n \notin todo \cup unread /\ at # n /\ wg[n] = {} /\ put[n] = {}

\* Only managed nodes and existing devices have rows.
RowsHaveParents ==
    /\ \A n \in Nodes, d \in Devices :
          peer[n][d] # "none" => /\ node[n] = "managed"
                                 /\ device[d] \notin {"unborn", "purged"}
    /\ \A d \in Devices : device[d] = "unborn" =>
          /\ mem[d] = "none"
          /\ \A n \in Nodes : d \notin adding[n]

GoneOwnsNothing ==
    \A d \in Devices :
        lifecycle[Owner[d]] = "gone" => device[d] \in {"unborn", "purged"}

\* A deleted device that still holds its address has a row no node has
\* confirmed: the transaction that removes the last one releases the address, so
\* none is lost to the pool.
NoAddressLeak ==
    \A d \in Devices : device[d] = "tombstoned" =>
        \E n \in Managed : peer[n][d] \notin {"none", "deleted"}

\* The unique index on devices.vpn_ip.
ReservedAddressesDistinct ==
    \A d, e \in Devices :
        Reserved(d) /\ Reserved(e) /\ addr[d] = addr[e] => d = e

\* A tunnel on a managed node has a row that is not confirmed deleted, and so has
\* every peer the job is about to install.
HasRow(n, d) ==
    \/ d \in revived[n] \/ device[d] = "purged"
    \/ Reserved(d) /\ peer[n][d] \notin {"none", "deleted"}

TunnelHasRow == \A n \in Managed : \A d \in wg[n] : HasRow(n, d)

InstallHasRow == \A n \in Managed : \A d \in put[n] : HasRow(n, d)

DumpIsCurrent == phase \in {"reporting", "confirming"} => dump = wg[at]

GeneralInv ==
    /\ TypeOK /\ JobShape /\ FreshNodes /\ RowsHaveParents /\ GoneOwnsNothing
    /\ NoAddressLeak /\ ReservedAddressesDistinct /\ ActiveOwnerRowsLive
    /\ TunnelHasRow /\ InstallHasRow /\ DumpIsCurrent

=============================================================================
