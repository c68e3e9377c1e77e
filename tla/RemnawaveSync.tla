--------------------------- MODULE RemnawaveSync ---------------------------
(***************************************************************************)
(* Accounts imported from Remnawave: the remote users, their mirror rows,  *)
(* the block they impose on the local account and its peers, the webhook,  *)
(* and the worker's full reconcile, single-user sync and disable jobs.     *)
(*                                                                         *)
(* The Remnawave queues are consumed in parallel, so reconciles and        *)
(* single-user syncs overlap.  A job works on what it fetched earlier, and *)
(* the upsert and reconcile-complete requests load their rows without a    *)
(* lock and write back attributes that differ from what they loaded.       *)
(*                                                                         *)
(* An account has at most one device, on one node.  Every status that      *)
(* remnawave_blocked refuses, and an expiry that has passed, is Disabled;  *)
(* Tight is an active profile whose traffic limit any local traffic        *)
(* reaches.                                                                *)
(***************************************************************************)
EXTENDS Naturals, FiniteSets

CONSTANTS
    Users,       \* remnawave uuids, numbered in the order of GET /api/users
    Owners,      \* the users who come to add a device
    Changing,    \* the users whose profile changes or who are synced alone
    Newcomers,   \* the users who are created in Remnawave later
    Passes,      \* the reconciles that may run at once
    Syncs,       \* the single-user syncs that may run at once
    PageSize,    \* PAGE_SIZE
    None,        \* no row, no profile, no total
    MaxChanges   \* bound on remote changes and the administrator's requests

ASSUME RemnawaveAssumption ==
    /\ Users \subseteq Nat /\ IsFiniteSet(Users)
    /\ Owners \cup Changing \cup Newcomers \subseteq Users
    /\ Passes \cap Syncs = {}
    /\ PageSize \in Nat \ {0}
    /\ MaxChanges \in Nat

VARIABLES
    remote,     \* the profile of each remote user, None if it does not exist
    unborn,     \* the users who do not exist yet
    settings,   \* RemnawaveSettings: enabled, and polling_enabled besides
    mirror,     \* RemnawaveUser: profile, sync_status, delete_requested_at
    blocked,    \* users.is_blocked
    device,     \* the account's device: "none", "live", "deleted"
    peer,       \* its peer row on the node, "none" if there is no row
    used,       \* accounts with local AmneziaWG traffic
    node,       \* the node exists
    adding,     \* the accounts api_add_node has selected, None if it does not run
    job,        \* the reconciles and the single-user syncs under way
    queued,     \* users with a remnawave_sync_user message
    disables,   \* users with a remnawave_disable_user message
    raced,      \* history: users changed under a request that had loaded them
    skewed,     \* history: users whose limit was judged on traffic of before a report
    changes

panelVars == <<mirror, blocked, device, peer>>
remoteVars == <<remote, unborn, changes>>
nodeVars == <<node, adding>>
queueVars == <<queued, disables>>
raceVars == <<raced, skewed>>
vars == <<remoteVars, settings, panelVars, used, nodeVars, job, queueVars, raceVars>>

Active == "active"
Disabled == "disabled"
Tight == "tight"
Profiles == {Active, Disabled, Tight}

Live == {"pending", "active"}
Tombstoned == {"pending_delete", "deleted"}

Settings == {"off", "manual", "polling"}
Enabled == settings # "off"

Workers == Passes \cup Syncs

\* page: what was fetched and not yet upserted; loaded: the rows a request loaded;
\* shifted: a remote user was deleted since the job began; born: the users created
\* since then.
NoRows == [u \in {} |-> None]

Idle == [phase |-> "idle", start |-> 0, page |-> NoRows, total |-> None,
         seen |-> {}, loaded |-> NoRows, shifted |-> FALSE,
         born |-> {}]

Rows == [profile : Profiles, sync : {"synced", "stale", "missing"}, del : BOOLEAN]

\* None is none of the profiles and rows.
ASSUME NoneAssumption == None \notin Profiles \cup Rows

TypeOK ==
    /\ remote \in [Users -> Profiles \cup {None}]
    /\ unborn \in SUBSET {u \in Users : remote[u] = None /\ mirror[u] = None}
    /\ settings \in Settings
    /\ mirror \in [Users -> Rows \cup {None}]
    /\ blocked \in [Users -> BOOLEAN]
    /\ device \in [Users -> {"none", "live", "deleted"}]
    /\ peer \in [Users -> Live \cup Tombstoned \cup {"none"}]
    /\ \A u \in Users : mirror[u] = None => device[u] = "none" /\ peer[u] = "none"
    /\ used \in SUBSET Users /\ queued \cup disables \in SUBSET Users
    /\ adding \in {None} \cup (IF node THEN {} ELSE SUBSET {u \in Users : device[u] # "none"})
    /\ \A j \in Workers :
          /\ job[j].phase \in {"idle", "fetch", "load", "write", "end", "complete"}
          /\ job[j].phase \in {"idle", "fetch", "end"} => job[j].loaded = NoRows
          /\ job[j].seen \in SUBSET Users
    /\ changes \in 0..MaxChanges

Init ==
    /\ remote = [u \in Users |-> IF u \in Newcomers THEN None ELSE Active]
    /\ unborn = Newcomers
    /\ settings = "polling"
    /\ mirror = [u \in Users |-> IF u \in Owners \cup Newcomers THEN None
                                 ELSE [profile |-> Active, sync |-> "synced", del |-> FALSE]]
    /\ blocked = [u \in Users |-> FALSE]
    /\ device = [u \in Users |-> "none"] /\ peer = [u \in Users |-> "none"]
    /\ used = {} /\ node = FALSE /\ adding = None
    /\ job = [j \in Workers |-> Idle]
    /\ queued = {} /\ disables = {}
    /\ raced = {} /\ skewed = {} /\ changes = 0

-----------------------------------------------------------------------------
(* Remnawave itself, and the settings page.                                *)

\* The change raises a webhook, which is refused while the integration is disabled.
\* It commits the event row and then publishes remnawave_sync_user: when that fails
\* the redelivery is answered already_processed and the event is lost.
Webhook(u) ==
    \/ UNCHANGED queued
    \/ u \in Changing \cup Newcomers /\ Enabled /\ queued' = queued \cup {u}

Change == changes < MaxChanges /\ changes' = changes + 1

RemoteChange(u) ==
    /\ u \in Changing /\ remote[u] # None
    /\ \E p \in Profiles \ {remote[u]} : remote' = [remote EXCEPT ![u] = p]
    /\ Webhook(u)
    /\ Change
    /\ UNCHANGED <<unborn, settings, panelVars, used, nodeVars, job, disables, raceVars>>

Running(j) == job[j].phase # "idle"

\* Later users move down in the listing, in the middle of a pass too.
RemoteCreate(u) ==
    /\ u \in unborn
    /\ unborn' = unborn \ {u}
    /\ remote' = [remote EXCEPT ![u] = Active]
    /\ Webhook(u)
    /\ job' = [j \in Workers |->
                 IF j \in Passes /\ Running(j)
                 THEN [job[j] EXCEPT !.born = @ \cup {u}] ELSE job[j]]
    /\ Change
    /\ UNCHANGED <<settings, panelVars, used, nodeVars, disables, raceVars>>

\* Later users move up in the listing.
RemoteDelete(u) ==
    /\ remote[u] # None
    /\ remote' = [remote EXCEPT ![u] = None]
    /\ Webhook(u)
    /\ job' = [j \in Workers |->
                 IF j \in Passes /\ Running(j)
                 THEN [job[j] EXCEPT !.shifted = TRUE] ELSE job[j]]
    /\ Change
    /\ UNCHANGED <<unborn, settings, panelVars, used, nodeVars, disables, raceVars>>

\* PUT /settings
UpdateSettings ==
    /\ settings' \in Settings \ {settings}
    /\ Change
    /\ UNCHANGED <<remote, unborn, panelVars, used, nodeVars, job, queueVars, raceVars>>

-----------------------------------------------------------------------------
(* The account: device requests, node sync, traffic.                       *)

\* account_status of an imported account.
AccountActive(u) ==
    /\ ~mirror[u].del /\ mirror[u].sync = "synced"
    /\ mirror[u].profile # Disabled
    /\ ~(mirror[u].profile = Tight /\ u \in used)
    /\ ~blocked[u]

\* The accounts that get a peer row, or another block, while a request of one of
\* these jobs has loaded them.
Raced(js) ==
    {u \in Users :
        /\ \E j \in js : u \in DOMAIN job[j].loaded
        /\ (peer[u] = "none" /\ peer'[u] # "none") \/ blocked'[u] # blocked[u]}

\* create_device: require_active_owner decides under the owner lock.
CreateDevice(u) ==
    /\ u \in Owners /\ mirror[u] # None /\ device[u] = "none"
    /\ AccountActive(u)
    /\ device' = [device EXCEPT ![u] = "live"]
    /\ peer' = [peer EXCEPT ![u] = IF node THEN "pending" ELSE "none"]
    /\ UNCHANGED <<remoteVars, settings, mirror, blocked, used, nodeVars, job, queueVars,
                   skewed>>
    /\ raced' = raced \cup Raced(Workers)

DeleteDevice(u) ==
    /\ device[u] = "live"
    /\ device' = [device EXCEPT ![u] = "deleted"]
    /\ peer' = [peer EXCEPT ![u] = IF @ = "none" THEN @ ELSE "pending_delete"]
    /\ UNCHANGED <<remoteVars, settings, mirror, blocked, used, nodeVars, job, queueVars,
                   raceVars>>

\* create_pending_peers_for_node skips blocked owners and deleted devices.
Provisioned == {u \in Users : device[u] = "live" /\ ~blocked[u]}

\* api_add_node: the selection, and the commit of the node with its peer rows.
SelectForNode ==
    /\ ~node /\ adding = None
    /\ adding' = Provisioned
    /\ UNCHANGED <<remoteVars, settings, panelVars, used, node, job, queueVars, raceVars>>

AddNode ==
    /\ adding # None
    /\ adding' = None /\ node' = TRUE
    /\ peer' = [u \in Users |-> IF u \in adding THEN "pending" ELSE peer[u]]
    /\ UNCHANGED <<remoteVars, settings, mirror, blocked, device, used, job, queueVars,
                   skewed>>
    /\ raced' = raced \cup Raced(Workers)
                  \cup (adding \ Provisioned) \cup (Provisioned \ adding)

\* A sync job and its report, which DevicePeers models step by step.
SyncNode ==
    /\ \E u \in Users : peer[u] \in {"pending", "pending_delete"}
    /\ peer' = [u \in Users |-> CASE peer[u] = "pending" -> "active"
                                  [] peer[u] = "pending_delete" -> "deleted"
                                  [] OTHER -> peer[u]]
    /\ UNCHANGED <<remoteVars, settings, mirror, blocked, device, used, nodeVars, job,
                   queueVars, raceVars>>

Limited(u, profile, traffic) == profile = Tight /\ u \in traffic

\* A report brings the account's first traffic and, under the owner lock,
\* enforces the combined limit; the remote user is to be disabled too.  A report
\* that read the profile before an upsert and commits after it leaves what one
\* that commits before the upsert does.
ReportTraffic(u) ==
    /\ u \notin used /\ peer[u] = "active"
    /\ used' = used \cup {u}
    /\ IF Limited(u, mirror[u].profile, used')
       THEN /\ blocked' = [blocked EXCEPT ![u] = TRUE]
            /\ peer' = [peer EXCEPT ![u] = "pending_delete"]
            /\ disables' = disables \cup {u}
       ELSE UNCHANGED <<blocked, peer, disables>>
    /\ UNCHANGED <<remoteVars, settings, mirror, device, nodeVars, job, queued, raceVars>>

-----------------------------------------------------------------------------
(* The jobs of the worker.                                                 *)

Goto(j, record) == job' = [job EXCEPT ![j] = record]

jobFrame == <<remoteVars, settings, used, nodeVars, raceVars>>

Begin(p) ==
    /\ job[p].phase = "idle" /\ Enabled
    /\ Goto(p, [Idle EXCEPT !.phase = "fetch"])

\* schedule_remnawave_reconcile: polled when due, whether or not a pass is running.
PollReconcile(p) ==
    /\ settings = "polling"
    /\ Begin(p)
    /\ UNCHANGED <<panelVars, jobFrame, queueVars>>

\* Asked for by the administrator, or by a webhook without a user.
TriggerReconcile(p) ==
    /\ Begin(p)
    /\ Change
    /\ UNCHANGED <<remote, unborn, settings, panelVars, used, nodeVars, queueVars, raceVars>>

Listed == {u \in Users : remote[u] # None}

Position(u) == Cardinality({v \in Listed : v <= u})

\* GET /api/users?start=...; a total of zero counts as no total.
FetchPage(p) ==
    LET r == job[p]
        us == {u \in Listed : Position(u) \in r.start + 1 .. r.start + PageSize}
    IN  /\ r.phase = "fetch"
        /\ IF us = {}
           THEN Goto(p, [r EXCEPT !.phase = "end"])
           ELSE Goto(p, [r EXCEPT !.phase = "load", !.page = [u \in us |-> remote[u]],
                           !.seen = @ \cup us, !.start = @ + Cardinality(us),
                           !.total = Cardinality(Listed)])
        /\ UNCHANGED <<panelVars, jobFrame, queueVars>>

\* GET /api/users/{uuid}: a missing user fails the job and changes nothing.
FetchUser(j, u) ==
    /\ job[j].phase = "idle" /\ u \in queued
    /\ queued' = queued \ {u}
    /\ IF Enabled /\ remote[u] # None
       THEN Goto(j, [Idle EXCEPT !.phase = "load", !.page = [v \in {u} |-> remote[v]]])
       ELSE UNCHANGED job
    /\ UNCHANGED <<panelVars, jobFrame, disables>>

\* POST /users/{uuid}/sync
TriggerUserSync(u) ==
    /\ u \in Changing /\ Enabled
    /\ queued' = queued \cup {u}
    /\ Change
    /\ UNCHANGED <<remote, unborn, settings, panelVars, used, nodeVars, job, disables,
                   raceVars>>

Load(us) ==
    [u \in us |-> [blocked |-> blocked[u], peer |-> peer[u], used |-> u \in used]]

\* _upsert_remnawave_users loads the rows with their peers.
LoadRows(j) ==
    /\ job[j].phase = "load"
    /\ Goto(j, [job[j] EXCEPT !.phase = "write",
                  !.loaded = Load({u \in DOMAIN job[j].page : mirror[u] # None})])
    /\ UNCHANGED <<panelVars, jobFrame, queueVars>>

\* Mutant of Transition: the device's tombstone is not consulted.
TransitionBlind(u, was, should) ==
    IF was.peer = "none"
    THEN IF ~should /\ peer[u] = "none" /\ device[u] = "live" /\ node
         THEN "pending" ELSE peer[u]
    ELSE IF should THEN "pending_delete"
    ELSE IF was.peer \in Tombstoned THEN "pending"
    ELSE was.peer

\* Mutant of Transition: only rows a node has acknowledged are taken down.
TransitionActiveOnly(u, was, should) ==
    IF was.peer = "none"
    THEN IF ~should /\ peer[u] = "none" /\ device[u] = "live" /\ node
         THEN "pending" ELSE peer[u]
    ELSE IF should THEN (IF was.peer = "active" THEN "pending_delete" ELSE was.peer)
    ELSE IF was.peer \in Tombstoned /\ device[u] # "deleted" THEN "pending"
    ELSE was.peer

\* Mutant of Transition: missing peers are not restored.
TransitionNoRestore(u, was, should) ==
    IF was.peer = "none"
    THEN peer[u]
    ELSE IF should THEN "pending_delete"
    ELSE IF was.peer \in Tombstoned /\ device[u] # "deleted" THEN "pending"
    ELSE was.peer

\* apply_remnawave_lifecycle on a transition: the peer that was loaded, and on
\* recovery a peer that is missing.  Writing is_blocked has taken the owner's row,
\* so the tombstone is current.
Transition(u, was, should) ==
    IF was.peer = "none"
    THEN IF ~should /\ peer[u] = "none" /\ device[u] = "live" /\ node
         THEN "pending" ELSE peer[u]
    ELSE IF should THEN "pending_delete"
    ELSE IF was.peer \in Tombstoned /\ device[u] # "deleted" THEN "pending"
    ELSE was.peer

\* What the upsert of a known user leaves: the transition the profile asks for,
\* then the limit on the peers as the session knows them.  A column is written
\* when it was assigned a value other than the loaded one.
Outcome(u, was, should, limited) ==
    LET changed == was.blocked # should
        blocked1 == IF changed THEN should ELSE was.blocked
        peer1 == IF changed THEN Transition(u, was, should)
                 ELSE IF was.peer = "none" THEN peer[u] ELSE was.peer
        peer2 == IF limited /\ peer1 # "none" THEN "pending_delete" ELSE peer1
    IN  [blocked |-> IF changed \/ (limited /\ ~blocked1)
                     THEN blocked1 \/ limited ELSE blocked[u],
         peer |-> IF peer1 = was.peer /\ peer2 = was.peer THEN peer[u] ELSE peer2]

\* Mutant of Upserted: the limit is enforced before the profile is applied.
UpsertedEarly(u, profile, was, traffic) ==
    Outcome(u, was, profile = Disabled, Limited(u, mirror[u].profile, traffic))

\* Mutant of Upserted: an account is never unblocked.
UpsertedNoRecovery(u, profile, was, traffic) ==
    Outcome(u, was, was.blocked \/ profile = Disabled, Limited(u, profile, traffic))

Upserted(u, profile, was, traffic) ==
    Outcome(u, was, profile = Disabled, Limited(u, profile, traffic))

\* create_remnawave_local_user: an account without devices.
Created(profile) == [blocked |-> profile = Disabled, peer |-> "none"]

\* Mutant of LastPage: an off-by-one leaves the last page out.
LastPageEarly(r) == r.start + 1 >= r.total

LastPage(r) == r.start >= r.total

\* The accounts that a request may have judged before their traffic came: it reads
\* the total without the owner lock, which only a transition has taken.
Judged(j) ==
    {u \in DOMAIN job[j].loaded \cap used :
        /\ ~job[j].loaded[u].used
        /\ job[j].loaded[u].blocked <=> job[j].page[u] = Disabled}

\* The rest of the request and its commit.
\* A user that another job has created meanwhile violates the unique uuid.
WriteRows(j) ==
    LET r == job[j]
        page == DOMAIN r.page
        known == DOMAIN r.loaded
    IN  r.phase = "write" /\ \E late \in SUBSET Judged(j) :
        LET traffic == used \ late
            new(u) == IF u \in known THEN Upserted(u, r.page[u], r.loaded[u], traffic)
                      ELSE Created(r.page[u])
        IN  /\ {u \in page : mirror[u] # None} = known
            /\ mirror' = [u \in Users |->
                            IF u \in page THEN [profile |-> r.page[u], sync |-> "synced",
                                                del |-> FALSE] ELSE mirror[u]]
            /\ blocked' = [u \in Users |-> IF u \in page THEN new(u).blocked
                                           ELSE blocked[u]]
            /\ peer' = [u \in Users |-> IF u \in page THEN new(u).peer ELSE peer[u]]
            /\ disables' = disables \cup {u \in page : Limited(u, r.page[u], traffic)}
            /\ raced' = raced \cup Raced(Workers \ {j})
            /\ skewed' = (skewed \ page) \cup late
            /\ Goto(j, IF j \in Syncs THEN Idle
                       ELSE [r EXCEPT !.page = NoRows, !.loaded = NoRows,
                               !.phase = IF LastPage(r) THEN "end" ELSE "fetch"])
            /\ UNCHANGED <<remoteVars, settings, device, used, nodeVars, queued>>

\* reconcile_missing_remnawave_users loads the rows that were not seen.
LoadUnseen(p) ==
    LET r == job[p]
    IN  /\ r.phase = "end"
        /\ Goto(p, [r EXCEPT !.phase = "complete",
                      !.loaded = Load({u \in Users \ r.seen : mirror[u] # None})])
        /\ UNCHANGED <<panelVars, jobFrame, queueVars>>

Purged(p) ==
    {u \in Users \ DOMAIN job[p].loaded :
        mirror[u] # None /\ mirror[u].del /\ peer[u] = "deleted"}

\* remnawave_reconcile_complete: the unseen users are stale, and the users whose
\* deletion was requested go once their peers are gone.  A request that has loaded
\* one of them finds its row gone and fails.
Complete(p) ==
    LET stale == DOMAIN job[p].loaded
        was == job[p].loaded
        purged == Purged(p)
    IN  /\ job[p].phase = "complete"
        /\ mirror' = [u \in Users |-> CASE u \in stale -> [mirror[u] EXCEPT !.sync = "stale"]
                                        [] u \in purged -> None
                                        [] OTHER -> mirror[u]]
        /\ blocked' = [u \in Users |-> CASE u \in stale -> blocked[u] \/ ~was[u].blocked
                                         [] u \in purged -> FALSE
                                         [] OTHER -> blocked[u]]
        /\ peer' = [u \in Users |->
                      CASE u \in stale /\ was[u].peer \notin {"none", "pending_delete"}
                             -> "pending_delete"
                        [] u \in purged -> "none"
                        [] OTHER -> peer[u]]
        /\ device' = [u \in Users |-> IF u \in purged THEN "none" ELSE device[u]]
        /\ job' = [j \in Workers |->
                     IF j = p \/ DOMAIN job[j].loaded \cap purged # {} THEN Idle ELSE job[j]]
        /\ used' = used \ purged
        /\ raced' = (raced \cup Raced(Workers \ {p})) \ purged
        /\ skewed' = skewed \ purged
        /\ UNCHANGED <<remoteVars, settings, nodeVars, queueVars>>

\* POST /users/{uuid}/deleted, for a user known to be gone.
MarkDeleted(u) ==
    /\ remote[u] = None /\ mirror[u] # None
    /\ mirror' = [mirror EXCEPT ![u].del = TRUE, ![u].sync = "missing"]
    /\ blocked' = [blocked EXCEPT ![u] = TRUE]
    /\ peer' = [peer EXCEPT ![u] = IF @ \in {"none", "deleted"} THEN @
                                   ELSE "pending_delete"]
    /\ raced' = raced \cup Raced(Workers)
    /\ UNCHANGED <<remoteVars, settings, device, used, nodeVars, job, queueVars, skewed>>

\* remnawave_disable_user; the remote raises a webhook for its own change.
DisableUser(u) ==
    /\ u \in disables
    /\ disables' = disables \ {u}
    /\ IF Enabled /\ remote[u] # None
       THEN remote' = [remote EXCEPT ![u] = Disabled] /\ Webhook(u)
       ELSE UNCHANGED <<remote, queued>>
    /\ UNCHANGED <<unborn, changes, settings, panelVars, used, nodeVars, job, raceVars>>

\* Mutant of JobFails: the rows of the failed request stay in the session.
JobFailsKeepsRows(j) ==
    /\ job[j].phase # "idle"
    /\ Goto(j, [Idle EXCEPT !.loaded = job[j].loaded])
    /\ UNCHANGED <<panelVars, jobFrame, queueVars>>

\* A request or the worker fails: nothing of the request is committed.
JobFails(j) ==
    /\ job[j].phase # "idle"
    /\ Goto(j, Idle)
    /\ UNCHANGED <<panelVars, jobFrame, queueVars>>

\* Two jobs insert one user: the second violates the unique uuid.
JobConflicts(j) ==
    /\ job[j].phase = "write"
    /\ {u \in DOMAIN job[j].page : mirror[u] # None} # DOMAIN job[j].loaded
    /\ Goto(j, Idle)
    /\ UNCHANGED <<panelVars, jobFrame, queueVars>>

-----------------------------------------------------------------------------

Pass(p) == FetchPage(p) \/ LoadUnseen(p) \/ Complete(p)

Job(j) == LoadRows(j) \/ WriteRows(j) \/ JobConflicts(j)

Next ==
    \/ UpdateSettings \/ SelectForNode \/ AddNode \/ SyncNode
    \/ \E u \in Users : \/ RemoteChange(u) \/ RemoteCreate(u) \/ RemoteDelete(u)
                        \/ CreateDevice(u) \/ DeleteDevice(u)
                        \/ ReportTraffic(u) \/ TriggerUserSync(u)
                        \/ MarkDeleted(u) \/ DisableUser(u)
    \/ \E p \in Passes : PollReconcile(p) \/ TriggerReconcile(p) \/ Pass(p)
    \/ \E j \in Syncs, u \in Users : FetchUser(j, u)
    \/ \E j \in Workers : Job(j) \/ JobFails(j)

\* The worker polls every minute and its jobs run on.
Fairness ==
    /\ WF_vars(\E p \in Passes : PollReconcile(p))
    /\ \A p \in Passes : WF_vars(Pass(p))
    /\ \A j \in Workers : WF_vars(Job(j))
    /\ \A u \in Users : WF_vars(DisableUser(u))

Spec == Init /\ [][Next]_vars /\ Fairness

-----------------------------------------------------------------------------
(* Properties.                                                             *)

\* A blocked account has no peer row that a sync would install: whatever block and
\* recovery overlap, apply_remnawave_lifecycle and mark_remnawave_user_stale catch
\* every row, unless the account got the row, or another block, after a request had
\* loaded it or the adding of the node had selected it.
BlockedRowsRemoved ==
    \A u \in Users \ raced : blocked[u] => peer[u] \notin Live

\* Under the same proviso an account that is not blocked has a row for its device on
\* the node, also when the node was added while the account was blocked
\* (restore_missing_peers_for_user).
ActiveIsProvisioned ==
    \A u \in Users \ raced : device[u] = "live" /\ node /\ ~blocked[u] => peer[u] \in Live

\* An account over its combined limit is blocked, whichever of the report, the
\* profile change and the lifecycle transition came last, unless the upsert read
\* the account's traffic before a report committed it and committed after it.
LimitedIsBlocked ==
    \A u \in Users \ skewed :
        mirror[u] # None /\ mirror[u].sync = "synced"
          /\ Limited(u, mirror[u].profile, used) => blocked[u]

\* Deleting a device is durable: no recovery gives a tombstoned peer back.
NoResurrection ==
    [][\A u \in Users : device[u] = "deleted" /\ peer[u] \in Tombstoned
                          => peer'[u] \notin Live]_vars

\* reconcile-complete marks a user stale that Remnawave still has only if another
\* user was deleted during the pass, so that the pages missed one, or if the user
\* was created during the pass and imported by its webhook.
StaleOnlyIfShifted ==
    [][\A p \in Passes : \A u \in DOMAIN job[p].loaded :
          Complete(p) /\ remote[u] # None => job[p].shifted \/ u \in job[p].born]_vars

\* The account agrees with its remote user.
Agrees(u) ==
    IF remote[u] = None
    THEN mirror[u] = None \/ blocked[u]
    ELSE /\ mirror[u] = [profile |-> remote[u], sync |-> "synced", del |-> FALSE]
         /\ blocked[u] <=> remote[u] = Disabled \/ Limited(u, remote[u], used)

\* Remnawave is the source of truth: once the integration stays enabled with its
\* polling and jobs no longer fail, whatever was lost, late or overlapping, every
\* account comes to agree with it and stays so.
Converges ==
    <>[](settings = "polling") /\ <>[][\A j \in Workers : ~JobFails(j)]_vars
        => <>[](\A u \in Users : Agrees(u))

-----------------------------------------------------------------------------
(* The inductive invariant of RemnawaveSyncProofs.                         *)

\* The functions from some of the users to S.
Partial(S) == UNION {[us -> S] : us \in SUBSET Users}

Loaded == [blocked : BOOLEAN, peer : Live \cup Tombstoned \cup {"none"}, used : BOOLEAN]

JobRecords ==
    [phase : {"idle", "fetch", "load", "write", "end", "complete"},
     start : Nat, page : Partial(Profiles), total : Nat \cup {None},
     seen : SUBSET Users, loaded : Partial(Loaded), shifted : BOOLEAN,
     born : SUBSET Users]

JobsTyped ==
    /\ job \in [Workers -> JobRecords]
    /\ node \in BOOLEAN

\* What an account's rows have in common, whatever was loaded when.
RowsFit ==
    \A u \in Users :
        /\ mirror[u] = None => u \notin used
        /\ mirror[u] # None /\ mirror[u].del => blocked[u] /\ remote[u] = None
        /\ peer[u] # "none" => node /\ device[u] # "none"
        /\ device[u] = "deleted" /\ u \notin raced => peer[u] \notin Live

\* A row that a request has loaded is still there; the jobs know nobody unborn.
LoadedExist ==
    \A j \in Workers :
        /\ \A u \in DOMAIN job[j].loaded :
             /\ mirror[u] # None
             /\ job[j].loaded[u].peer # "none" => node /\ device[u] # "none"
             /\ job[j].loaded[u].used => u \in used
        /\ job[j].phase = "write" => DOMAIN job[j].loaded \subseteq DOMAIN job[j].page
        /\ DOMAIN job[j].page \cap unborn = {}

\* What a request loaded about an account is outdated in one way only, unless the
\* account is raced: a report has blocked the account since.
UpToDate(u, was) ==
    /\ was.blocked => blocked[u] /\ was.peer \notin Live
    /\ blocked[u] /\ ~was.blocked => peer[u] \in Tombstoned
    /\ was.peer = "none" <=> peer[u] = "none"
    /\ ~was.blocked /\ was.peer \in Tombstoned => device[u] # "live"

LoadedFit ==
    \A j \in Workers : \A u \in DOMAIN job[j].loaded \ raced : UpToDate(u, job[j].loaded[u])

\* A pass has seen the users up to its position in the listing, and at its end all
\* but those created since it began.
Covered(r) ==
    LET old == Listed \ r.born
    IN  /\ r.phase \in {"fetch", "load", "write"} /\ ~r.shifted =>
              \A u \in old : Position(u) <= r.start => u \in r.seen
        /\ r.phase \in {"load", "write"} /\ ~r.shifted /\ LastPage(r) => old \subseteq r.seen
        /\ r.phase \in {"end", "complete"} /\ ~r.shifted => old \subseteq r.seen
        /\ r.phase = "complete" => DOMAIN r.loaded \cap r.seen = {}

PassCovers == \A p \in Passes : Covered(job[p])

SyncInv ==
    /\ TypeOK /\ JobsTyped /\ RowsFit /\ LoadedExist /\ LoadedFit /\ PassCovers
    /\ BlockedRowsRemoved /\ ActiveIsProvisioned /\ LimitedIsBlocked
=============================================================================
