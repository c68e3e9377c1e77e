------------------------- MODULE TrafficAccounting -------------------------
(***************************************************************************)
(* Local traffic accounting: the counters of the nodes, the reports that   *)
(* bring them to the backend, the ledger with its four aggregate tables,   *)
(* the traffic limit, and what an administrator does: reset the traffic,   *)
(* block, unblock, change the limit, delete a node; and the retention job. *)
(*                                                                         *)
(* A sync job and a heartbeat dump the same node independently, so two     *)
(* reports of one node can be under way at once.  The report handler locks *)
(* the owners of the node's peers one by one, reads the rows and writes    *)
(* back what it computed; the requests of an administrator load the        *)
(* account without a lock and meet its row only when they write.  A        *)
(* transaction that waits for a row is a state here, and any transaction   *)
(* may fail.  Received and sent bytes are counted alike; the model carries *)
(* one counter.  Expiry, which blocks like the limit, is left out.         *)
(***************************************************************************)
EXTENDS Naturals, FiniteSets, Counting

CONSTANTS
    Users,      \* account ids, ordered
    Nodes,
    Peers,      \* peer rows
    UserOf, NodeOf,
    Late,       \* peers whose row is created while reports are under way
    Channels,   \* a sync job or a heartbeat: one report of each can be under way
    Source,     \* the node a channel reports about
    Limit,      \* traffic_limit_bytes of every account at first; 0: no limit
    Limits,     \* the values an administrator changes it to
    All, Ever,  \* an aggregate over all nodes, over all days
    Unset,      \* no value
    MaxBytes,   \* bound on what each tunnel carries
    MaxDumps,   \* bound on the dumps of each node
    MaxDay,     \* bound on the days
    MaxRequests,   \* bound on the administrator's requests for each account
    Attempts,   \* MAX_LOCK_DISCOVERY_ATTEMPTS
    Retentions  \* raw_sample_retention_days the administrator chooses from

ASSUME TrafficAssumption ==
    /\ Users \subseteq Nat /\ IsFiniteSet(Users \cup Nodes \cup Peers)
    /\ UserOf \in [Peers -> Users] /\ NodeOf \in [Peers -> Nodes]
    /\ Late \subseteq Peers
    /\ Source \in [Channels -> Nodes]
    /\ Limit \in Nat /\ Limits \subseteq Nat
    /\ All \notin Nodes /\ Ever \notin Nat /\ Unset \notin Nat
    /\ MaxBytes \in [Peers -> Nat] /\ MaxDumps \in [Nodes -> Nat]
    /\ MaxDay \in Nat /\ MaxRequests \in [Users -> Nat]
    /\ Attempts \in Nat \ {0}
    /\ Retentions \subseteq Nat

VARIABLES
    nodes,      \* nodes that exist
    rows,       \* peer rows that exist
    counter,    \* byte counter of each tunnel, as the node dumps it
    carried,    \* what the tunnel really carried since its row exists
    report,     \* the report under way on each channel
    dumps,      \* dumps taken of each node
    raw,        \* peers.raw_rx / raw_tx: the last counter applied
    newest,     \* the newest dump applied to each peer
    settled,    \* what its tunnel had carried at that dump
    overtaken,  \* peers to which a dump older than newest was applied
    ledger,     \* the rows ever written to local_amneziawg_traffic_deltas; a row is
                \* in the table while its node exists (ON DELETE CASCADE)
    samples,    \* the ledger rows whose peer_traffic_samples row exists
    agg,        \* the aggregate rows, by <<user, node or All, day or Ever>>; 0: no row
    status,     \* users.lifecycle_status, with is_blocked
    limit,      \* users.traffic_limit_bytes
    edit,       \* the block, unblock or lifecycle request under way for each user
    lapsed,     \* the last request saved a state loaded before another commit
    reset,      \* the reset request under way for each user
    resetDay,   \* the day of users.traffic_reset_at
    floor,      \* the clock at the last reset
    raced,      \* a report was committed between the statements of that reset
    requests, clock, today

vars == <<nodes, rows, counter, carried, report, dumps, raw, newest, settled, overtaken,
          ledger, samples, agg, status, limit, edit, lapsed, reset, resetDay, floor, raced,
          requests, clock, today>>

Days == 0..MaxDay
Keys == Users \X (Nodes \cup {All}) \X (Days \cup {Ever})

\* The rows of the four aggregate tables that one delta is added to: user by day,
\* user and node by day, user lifetime, user and node lifetime.
KeysOf(p, day) == {UserOf[p]} \X {NodeOf[p], All} \X {day, Ever}

Counters == [Peers -> Nat \cup {Unset}]

\* counts: the counters that were dumped, Unset for the other peers; carried: what the
\* tunnels had carried then; raw, seen: the rows as the handler has read them.
ReportRecord ==
    [phase : {"idle", "sent", "locking", "writing"}, counts : Counters,
     carried : [Peers -> Nat], stamp : Nat, held : SUBSET Users, batch : SUBSET Users,
     first : SUBSET Users, round : Nat, raw : Counters, seen : [Keys -> Nat]]

Idle == [phase |-> "idle", counts |-> [p \in Peers |-> Unset],
         carried |-> [p \in Peers |-> 0], stamp |-> 0, held |-> {}, batch |-> {},
         first |-> {}, round |-> 0, raw |-> [p \in Peers |-> Unset],
         seen |-> [k \in Keys |-> 0]]

Statuses == {"active", "blocked", "limited"}

ResetRecord ==
    [step : 0..3, gone : SUBSET Keys, loaded : Statuses, raced : BOOLEAN]

NoReset == [step |-> 0, gone |-> {}, loaded |-> "active", raced |-> FALSE]

\* loaded: the status that was loaded; limit: the limit to be saved; dirty: a column was
\* changed before the usage is read; total: the usage that was read without a lock;
\* stale: a report or a reset of the account was committed since the load.
EditRecord ==
    [kind : {"none", "block", "unblock", "lifecycle"}, loaded : Statuses, limit : Nat,
     dirty : BOOLEAN, total : Nat \cup {Unset}, stale : BOOLEAN]

NoEdit == [kind |-> "none", loaded |-> "active", limit |-> 0, dirty |-> FALSE,
           total |-> Unset, stale |-> FALSE]

Row == [peer : Peers, time : Nat, day : Days, bytes : Nat \ {0}]

TypeOK ==
    /\ nodes \in SUBSET Nodes /\ rows \in SUBSET Peers
    /\ counter \in [Peers -> Nat] /\ carried \in [Peers -> Nat]
    /\ report \in [Channels -> ReportRecord] /\ dumps \in [Nodes -> Nat]
    /\ \A c \in Channels : report[c].phase \in {"idle", "sent"} => report[c].held = {}
    /\ raw \in Counters /\ newest \in [Peers -> Nat] /\ settled \in [Peers -> Nat]
    /\ overtaken \in SUBSET Peers
    /\ ledger \in SUBSET Row /\ samples \in SUBSET ledger
    /\ agg \in [Keys -> Nat]
    /\ status \in [Users -> Statuses] /\ limit \in [Users -> Nat]
    /\ edit \in [Users -> EditRecord] /\ lapsed \in [Users -> BOOLEAN]
    /\ reset \in [Users -> ResetRecord] /\ raced \in [Users -> BOOLEAN]
    /\ resetDay \in [Users -> Days] /\ floor \in [Users -> Nat]
    /\ requests \in [Users -> Nat] /\ clock \in Nat /\ today \in Days

\* local_user_limited.
Limited(total, bytes) == bytes > 0 /\ total >= bytes

\* The rows that exist have had two reports: a base and one byte since.
Init ==
    /\ nodes = Nodes
    /\ rows = Peers \ Late
    /\ counter = [p \in Peers |-> IF p \in Late THEN 0 ELSE 1]
    /\ carried = counter
    /\ report = [c \in Channels |-> Idle]
    /\ dumps = [n \in Nodes |-> 0]
    /\ raw = [p \in Peers |-> IF p \in Late THEN Unset ELSE 1]
    /\ newest = [p \in Peers |-> 0] /\ settled = carried /\ overtaken = {}
    /\ ledger = [peer : rows, time : {1}, day : {0}, bytes : {1}]
    /\ samples = ledger
    /\ agg = [k \in Keys |-> Cardinality({p \in rows : k \in KeysOf(p, 0)})]
    /\ limit = [u \in Users |-> Limit] /\ status \in [Users -> Statuses]
    /\ \A u \in Users : status[u] = "limited" <=> Limited(agg[<<u, All, Ever>>], limit[u])
    /\ \A u \in Users : status[u] = "blocked" => MaxRequests[u] > 0
    /\ edit = [u \in Users |-> NoEdit] /\ lapsed = [u \in Users |-> FALSE]
    /\ reset = [u \in Users |-> NoReset]
    /\ resetDay = [u \in Users |-> 0] /\ floor = [u \in Users |-> 0]
    /\ raced = [u \in Users |-> FALSE]
    /\ requests = [u \in Users |-> 0] /\ clock = 1 /\ today = 0

-----------------------------------------------------------------------------
(* Transactions and what they wait for.                                    *)

Holder(u) == {c \in Channels : u \in report[c].held}

\* SELECT ... ORDER BY users.id FOR UPDATE locks the rows of a batch in order.
NextOwner(c) == CHOOSE u \in report[c].batch : \A v \in report[c].batch : u <= v

OwnersOn(n) == {UserOf[p] : p \in {q \in rows : NodeOf[q] = n}}

\* Mutant of CounterDelta: a counter that went back is not noticed as a restart.
CounterDeltaBlind(previous, current) ==
    IF previous = Unset THEN 0
    ELSE IF current < previous THEN previous ELSE current - previous

\* _counter_delta: the first report is the base; a lower counter has restarted.
CounterDelta(previous, current) ==
    IF previous = Unset THEN 0
    ELSE IF current < previous THEN current ELSE current - previous

Dumped(c) == {p \in Peers : report[c].counts[p] # Unset}

\* The peers a report applies to: those of owners it has locked.
Applied(c) == {p \in Dumped(c) : p \in rows /\ UserOf[p] \in report[c].held}

Delta(c, p) == CounterDelta(report[c].raw[p], report[c].counts[p])

\* A peer whose counter did not move gets no sample, no ledger row, no update.
Paid(c) == {p \in Applied(c) : Delta(c, p) > 0}

Written(c) == UNION {KeysOf(p, today) : p \in Paid(c)}

Gone == UNION {reset[u].gone : u \in Users}

\* A report waits for another one that holds the owner row it is to lock next.
Waits(c, d) ==
    /\ c # d /\ report[c].phase = "locking" /\ report[c].batch # {}
    /\ d \in Holder(NextOwner(c))

Circle(D) == D # {} /\ \A c \in D : \E d \in D : Waits(c, d)

-----------------------------------------------------------------------------
(* The nodes.                                                              *)

nodeVars == <<nodes, counter, carried, dumps>>
bookVars == <<raw, newest, settled, overtaken, ledger, samples, agg, clock>>
userVars == <<status, limit, edit, lapsed>>
resetVars == <<reset, resetDay, floor, raced, requests>>

\* The node exists and is dumped again: what happens after its last dump shows nowhere.
Watched(n) == n \in nodes /\ dumps[n] < MaxDumps[n]

Carry(p) ==
    /\ p \in rows /\ Watched(NodeOf[p]) /\ carried[p] < MaxBytes[p]
    /\ counter' = [counter EXCEPT ![p] = @ + 1]
    /\ carried' = [carried EXCEPT ![p] = @ + 1]
    /\ UNCHANGED <<nodes, rows, report, dumps, bookVars, userVars, resetVars, today>>

\* The tunnel container is restarted: its counters start over.
RestartTunnel(n) ==
    /\ Watched(n) /\ \E p \in Peers : NodeOf[p] = n /\ counter[p] > 0
    /\ counter' = [p \in Peers |-> IF NodeOf[p] = n THEN 0 ELSE counter[p]]
    /\ UNCHANGED <<nodes, rows, carried, report, dumps, bookVars, userVars, resetVars,
                   today>>

\* GET /dump; the job posts what it read as sync-result or heartbeat-result.
TakeDump(c) ==
    /\ report[c].phase = "idle" /\ Watched(Source[c])
    /\ dumps' = [dumps EXCEPT ![Source[c]] = @ + 1]
    /\ report' = [report EXCEPT ![c] =
                    [Idle EXCEPT !.phase = "sent", !.stamp = dumps'[Source[c]],
                       !.carried = carried,
                       !.counts = [p \in Peers |->
                                     IF p \in rows /\ NodeOf[p] = Source[c]
                                     THEN counter[p] ELSE Unset]]]
    /\ UNCHANGED <<nodes, rows, counter, carried, bookVars, userVars, resetVars, today>>

\* The post fails or the worker dies before it.
LoseReport(c) ==
    /\ report[c].phase = "sent"
    /\ report' = [report EXCEPT ![c] = Idle]
    /\ UNCHANGED <<rows, nodeVars, bookVars, userVars, resetVars, today>>

-----------------------------------------------------------------------------
(* The report handler.                                                     *)

\* One round of _lock_owner_rows: the owners not locked yet form the next batch.
NextBatch(c) ==
    LET r == report[c]
        found == OwnersOn(Source[c]) \ r.held
    IN  /\ r.phase \in {"sent", "locking"} /\ r.batch = {}
        /\ found # {} /\ r.round < Attempts
        /\ report' = [report EXCEPT ![c].phase = "locking", ![c].batch = found,
                        ![c].first = IF r.round = 0 THEN found ELSE @,
                        ![c].round = @ + 1]
        /\ UNCHANGED <<rows, nodeVars, bookVars, userVars, resetVars, today>>

\* Mutant of LockOwner: the row is read without FOR UPDATE.
LockOwnerNot(c) ==
    /\ report[c].phase = "locking" /\ report[c].batch # {}
    /\ report' = [report EXCEPT ![c].held = @ \cup {NextOwner(c)},
                                ![c].batch = @ \ {NextOwner(c)}]
    /\ UNCHANGED <<rows, nodeVars, bookVars, userVars, resetVars, today>>

\* Mutant of LockOwner: the rows of a batch are locked in any order.
LockOwnerUnordered(c) ==
    /\ report[c].phase = "locking"
    /\ \E u \in report[c].batch :
          /\ Holder(u) = {}
          /\ report' = [report EXCEPT ![c].held = @ \cup {u},
                                      ![c].batch = @ \ {u}]
    /\ UNCHANGED <<rows, nodeVars, bookVars, userVars, resetVars, today>>

LockOwner(c) ==
    /\ report[c].phase = "locking" /\ report[c].batch # {}
    /\ Holder(NextOwner(c)) = {}
    /\ report' = [report EXCEPT ![c].held = @ \cup {NextOwner(c)},
                                ![c].batch = @ \ {NextOwner(c)}]
    /\ UNCHANGED <<rows, nodeVars, bookVars, userVars, resetVars, today>>

\* No new owner, or no attempt left: the peer rows and the aggregates are read.
ReadRows(c) ==
    /\ report[c].phase \in {"sent", "locking"} /\ report[c].batch = {}
    /\ OwnersOn(Source[c]) \subseteq report[c].held \/ report[c].round = Attempts
    /\ report' = [report EXCEPT ![c].phase = "writing", ![c].raw = raw,
                                ![c].seen = agg]
    /\ UNCHANGED <<rows, nodeVars, bookVars, userVars, resetVars, today>>

\* What is added to row k.
Increase(c, k) ==
    Total([p \in {q \in Paid(c) : k \in KeysOf(q, today)} |-> Delta(c, p)])

\* Mutant of Increased: the lifetime row of the node is forgotten.
IncreasedPartly(c) ==
    [k \in Keys |->
        IF k \in Written(c) /\ (k[2] = All \/ k[3] # Ever)
        THEN report[c].seen[k] + Increase(c, k) ELSE agg[k]]

\* _increase_aggregate: the value that was read plus the delta, or a new row.
Increased(c) ==
    [k \in Keys |-> IF k \in Written(c) THEN report[c].seen[k] + Increase(c, k)
                     ELSE agg[k]]

\* The row read as present is still there, the row read as absent still is not.
NotStale(c) == \A k \in Written(c) : report[c].seen[k] > 0 <=> agg[k] > 0

Payers(c) == {UserOf[p] : p \in Paid(c)}

\* apply_local_lifecycle_state: what becomes of a status that was loaded.
Enforced(loaded, total, bytes) ==
    IF Limited(total, bytes) THEN "limited"
    ELSE IF loaded = "blocked" THEN "blocked" ELSE "active"

\* _apply_peer_results and the commit: raw counters, ledger rows with their
\* samples, aggregates, and the limit of every owner that got a sample.
WriteReport(c) ==
    LET r == report[c]
        fresh == {p \in Applied(c) : r.stamp > newest[p]}
        new == {[peer |-> p, time |-> clock + 1, day |-> today,
                 bytes |-> Delta(c, p)] : p \in Paid(c)}
    IN  /\ r.phase = "writing"
        /\ Written(c) \cap Gone = {} /\ NotStale(c)
        /\ raw' = [p \in Peers |-> IF p \in Applied(c) THEN r.counts[p] ELSE raw[p]]
        /\ newest' = [p \in Peers |-> IF p \in fresh THEN r.stamp ELSE newest[p]]
        /\ settled' = [p \in Peers |-> IF p \in fresh THEN r.carried[p] ELSE settled[p]]
        /\ overtaken' = overtaken \cup {p \in Applied(c) : r.stamp < newest[p]}
        /\ ledger' = ledger \cup new
        /\ samples' = samples \cup new
        /\ agg' = Increased(c)
        /\ status' = [u \in Users |->
                        IF u \in Payers(c)
                        THEN Enforced(status[u], agg'[<<u, All, Ever>>], limit[u])
                        ELSE status[u]]
        /\ lapsed' = [u \in Users |-> lapsed[u] /\ u \notin Payers(c)]
        /\ clock' = IF new = {} THEN clock ELSE clock + 1
        /\ reset' = [u \in Users |->
                       IF reset[u].step > 1 /\ u \in Payers(c)
                       THEN [reset[u] EXCEPT !.raced = TRUE] ELSE reset[u]]
        /\ edit' = [u \in Users |->
                      IF edit[u].kind # "none" /\ u \in Payers(c)
                      THEN [edit[u] EXCEPT !.stale = TRUE] ELSE edit[u]]
        /\ report' = [report EXCEPT ![c] = Idle]
        /\ UNCHANGED <<rows, nodeVars, limit, resetDay, floor, raced, requests, today>>

\* Mutant of AbortReport: the rollback forgets the locks of the transaction.
AbortReportKeepsLocks(c) ==
    /\ report[c].phase \in {"locking", "writing"}
    /\ report' = [report EXCEPT ![c] = [Idle EXCEPT !.held = report[c].held]]
    /\ UNCHANGED <<rows, nodeVars, bookVars, userVars, resetVars, today>>

\* The transaction fails (it is the victim of a deadlock, its UPDATE or INSERT meets a
\* row that is not as it was read, the connection breaks): nothing is written.
AbortReport(c) ==
    /\ report[c].phase \in {"locking", "writing"}
    /\ report' = [report EXCEPT ![c] = Idle]
    /\ UNCHANGED <<rows, nodeVars, bookVars, userVars, resetVars, today>>

-----------------------------------------------------------------------------
(* Requests of the administrator and of the owner.                         *)

\* create_device under the owner lock gives the device its peer row.
CreatePeer(p) ==
    /\ p \notin rows /\ NodeOf[p] \in nodes /\ Holder(UserOf[p]) = {}
    /\ rows' = rows \cup {p}
    /\ UNCHANGED <<nodeVars, report, bookVars, userVars, resetVars, today>>

\* api_reset_local_traffic reads the user without a lock.
BeginReset(u) ==
    /\ reset[u].step = 0 /\ requests[u] < MaxRequests[u]
    /\ reset' = [reset EXCEPT ![u] = [step |-> 1, gone |-> {}, loaded |-> status[u],
                                      raced |-> FALSE]]
    /\ requests' = [requests EXCEPT ![u] = @ + 1]
    /\ UNCHANGED <<rows, nodeVars, report, bookVars, userVars, resetDay, floor, raced,
                   today>>

\* Mutant of Statement: the lifetime tables are forgotten.
StatementDaily(u, i) == {u} \X (Nodes \cup {All}) \X (today..MaxDay)

\* The DELETE statements: first the lifetime tables, then the daily ones from today on.
Statement(u, i) ==
    {u} \X (Nodes \cup {All}) \X (IF i = 1 THEN {Ever} ELSE today..MaxDay)

\* The rows stay visible to others until the commit.
DeleteRows(u) ==
    /\ reset[u].step \in 1..2
    /\ reset' = [reset EXCEPT ![u].step = @ + 1,
                   ![u].gone = @ \cup {k \in Statement(u, reset[u].step) : agg[k] > 0}]
    /\ UNCHANGED <<rows, nodeVars, report, bookVars, userVars, resetDay, floor, raced,
                   requests, today>>

\* UPDATE users waits for the owner lock; only attributes that differ from what
\* was loaded are written.  The ledger, the samples and the raw counters stay.
CommitReset(u) ==
    LET r == reset[u]
        derived == Enforced(r.loaded, 0, limit[u])
    IN
    /\ r.step = 3 /\ Holder(u) = {}
    /\ agg' = [k \in Keys |-> IF k \in r.gone THEN 0 ELSE agg[k]]
    /\ status' = [status EXCEPT ![u] = IF derived = r.loaded THEN @ ELSE derived]
    /\ lapsed' = [lapsed EXCEPT ![u] = r.raced]
    /\ edit' = [edit EXCEPT ![u].stale = edit[u].kind # "none"]
    /\ resetDay' = [resetDay EXCEPT ![u] = today]
    /\ floor' = [floor EXCEPT ![u] = clock]
    /\ raced' = [raced EXCEPT ![u] = r.raced]
    /\ reset' = [reset EXCEPT ![u] = NoReset]
    /\ UNCHANGED <<rows, nodeVars, report, raw, newest, settled, overtaken, ledger, samples,
                   clock, limit, requests, today>>

AbortReset(u) ==
    /\ reset[u].step > 0
    /\ reset' = [reset EXCEPT ![u] = NoReset]
    /\ UNCHANGED <<rows, nodeVars, report, bookVars, userVars, resetDay, floor, raced,
                   requests, today>>

\* api_block_user, api_unblock_user and api_update_local_lifecycle load the user
\* without a lock.  One such request of an account is under way at a time.
LoadUser(u) ==
    /\ edit[u].kind = "none" /\ requests[u] < MaxRequests[u]
    /\ \E kind \in {"block", "unblock", "lifecycle"} :
       \E bytes \in {limit[u]} \cup IF kind = "lifecycle" THEN Limits ELSE {} :
          edit' = [edit EXCEPT ![u] =
                     [kind |-> kind, loaded |-> status[u], limit |-> bytes,
                      dirty |-> \/ kind = "block" /\ status[u] # "blocked"
                                \/ kind = "lifecycle" /\ bytes # limit[u],
                      total |-> Unset, stale |-> FALSE]]
    /\ requests' = [requests EXCEPT ![u] = @ + 1]
    /\ UNCHANGED <<rows, nodeVars, report, bookVars, status, limit, lapsed, reset, resetDay,
                   floor, raced, today>>

\* load_local_total_bytes.  Nothing is changed yet, so nothing is flushed: the usage
\* is read without the owner lock.
ReadUsage(u) ==
    /\ edit[u].kind # "none" /\ ~edit[u].dirty /\ edit[u].total = Unset
    /\ edit' = [edit EXCEPT ![u].total = agg[<<u, All, Ever>>]]
    /\ UNCHANGED <<rows, nodeVars, report, bookVars, status, limit, lapsed, resetVars,
                   today>>

\* A changed column is flushed (UPDATE users) before the usage is read, so the request
\* has the owner lock then and the usage is the present one.
Usage(u) == IF edit[u].dirty THEN agg[<<u, All, Ever>>] ELSE edit[u].total

\* apply_local_lifecycle_state and the commit: only attributes that differ from what
\* was loaded are written, so a status is left alone that another commit has changed.
SaveUser(u) ==
    LET e == edit[u]
        set == CASE e.kind = "block" -> "blocked"
                 [] e.kind = "unblock" -> "active"
                 [] OTHER -> e.loaded
        derived == Enforced(set, Usage(u), e.limit)
        writes == derived # e.loaded \/ (e.kind = "block" /\ e.dirty)
    IN  /\ e.kind # "none" /\ (e.dirty \/ e.total # Unset)
        /\ ~(e.kind = "unblock" /\ Limited(Usage(u), e.limit))
        /\ e.dirty \/ writes => Holder(u) = {}
        /\ status' = [status EXCEPT ![u] = IF writes THEN derived ELSE @]
        /\ limit' = [limit EXCEPT ![u] = e.limit]
        /\ lapsed' = [lapsed EXCEPT ![u] = e.stale]
        /\ edit' = [edit EXCEPT ![u] = NoEdit]
        /\ UNCHANGED <<rows, nodeVars, report, bookVars, resetVars, today>>

\* The request is refused (an account at its limit is not unblocked, 409) or fails.
AbortEdit(u) ==
    /\ edit[u].kind # "none"
    /\ edit' = [edit EXCEPT ![u] = NoEdit]
    /\ UNCHANGED <<rows, nodeVars, report, bookVars, status, limit, lapsed, resetVars,
                   today>>

\* api_delete_node: the owners of the node's peers are locked as a report locks them
\* (here at once), then the cascade deletes the peer rows, the samples, the ledger rows
\* and the totals of the node; the account's own totals stay.
DeleteNode(n) ==
    /\ n \in nodes /\ \A u \in OwnersOn(n) : Holder(u) = {}
    /\ \A k \in Gone : k[2] # n
    /\ nodes' = nodes \ {n}
    /\ rows' = {p \in rows : NodeOf[p] # n}
    /\ samples' = {s \in samples : NodeOf[s.peer] # n}
    /\ agg' = [k \in Keys |-> IF k[2] = n THEN 0 ELSE agg[k]]
    /\ UNCHANGED <<counter, carried, dumps, report, raw, newest, settled, overtaken, ledger,
                   clock, userVars, resetVars, today>>

NextDay ==
    /\ today < MaxDay
    /\ today' = today + 1
    /\ UNCHANGED <<rows, nodeVars, report, bookVars, userVars, resetVars>>

\* cleanup_raw_traffic_samples under the retention the administrator has chosen by
\* then (PUT /local-traffic/settings; zero disables it): samples older than the
\* cutoff whose ledger row and four aggregate rows exist.  The samples of the day
\* at the boundary are older or not, by the hour.
CleanupRawSamples ==
    \E retention \in Retentions \ {0}, boundary \in BOOLEAN :
        LET old == {s \in samples :
                      /\ \/ s.day + retention < today
                         \/ boundary /\ s.day + retention = today
                      /\ \A k \in KeysOf(s.peer, s.day) : agg[k] > 0}
        IN  /\ old # {}
            /\ samples' = samples \ old
            /\ UNCHANGED <<rows, nodeVars, report, raw, newest, settled, overtaken, ledger,
                           agg, clock, userVars, resetVars, today>>

-----------------------------------------------------------------------------

Next ==
    \/ \E p \in Peers : Carry(p) \/ CreatePeer(p)
    \/ \E n \in Nodes : RestartTunnel(n) \/ DeleteNode(n)
    \/ \E c \in Channels : \/ TakeDump(c) \/ LoseReport(c) \/ NextBatch(c)
                           \/ LockOwner(c) \/ ReadRows(c) \/ WriteReport(c)
                           \/ AbortReport(c)
    \/ \E u \in Users : \/ BeginReset(u) \/ DeleteRows(u) \/ CommitReset(u)
                        \/ AbortReset(u)
                        \/ LoadUser(u) \/ ReadUsage(u) \/ SaveUser(u) \/ AbortEdit(u)
    \/ NextDay
    \/ CleanupRawSamples

Spec == Init /\ [][Next]_vars

-----------------------------------------------------------------------------
(* Properties.                                                             *)

Bytes(rs) == Total([r \in rs |-> r.bytes])

\* The ledger rows of a user since the last reset: on a node or on all, and on the
\* nodes deleted since.  The ledger rows of a peer.
Since(u, n) == {r \in ledger : /\ UserOf[r.peer] = u /\ n \in {NodeOf[r.peer], All}
                               /\ r.time > floor[u]}
Lost(u) == {r \in Since(u, All) : NodeOf[r.peer] \notin nodes}
Charged(p) == {r \in ledger : r.peer = p}

\* The totals shown by node, and by day since traffic_reset_at.
ByNode(u) == [n \in Nodes |-> agg[<<u, n, Ever>>]]
ByDay(u, n) == [d \in resetDay[u]..MaxDay |-> agg[<<u, n, d>>]]

\* The lifetime totals, of the account and on each node, are what the ledger got since
\* the last reset: with two reports of one owner under way no update is lost
\* (_increase_aggregate writes back a value it read).  A reset overlapped by a report
\* may keep that report.
LifetimeIsLedger ==
    \A u \in Users, n \in nodes \cup {All} :
        ~raced[u] => agg[<<u, n, Ever>>] = Bytes(Since(u, n))

\* The views the panel shows agree: the totals of the nodes add up to the account's, but
\* for what was counted on nodes deleted since the last reset (api_delete_node keeps
\* the account's total); and so do the days since traffic_reset_at, on every node.
ViewsAgree ==
    \A u \in Users : ~raced[u] =>
        /\ Total(ByNode(u)) + Bytes(Lost(u)) = agg[<<u, All, Ever>>]
        /\ \A n \in Nodes \cup {All} : Total(ByDay(u, n)) = agg[<<u, n, Ever>>]

\* No byte is charged twice: a peer is charged at most what its tunnel had carried at
\* the newest dump applied to it, however reports are lost and counters restart, unless
\* a report of an older dump was applied after a newer one.
NoOvercharge ==
    \A p \in Peers \ overtaken : Bytes(Charged(p)) <= settled[p]

\* An account at its limit is blocked, unless the last reset or request of an
\* administrator was overlapped by the commit of a report or of a reset: then its status
\* is wrong until the next report with traffic of the account.
LimitIsEnforced ==
    \A u \in Users : ~lapsed[u] /\ Limited(agg[<<u, All, Ever>>], limit[u])
                        => status[u] # "active"

\* Locking owners in order leaves reports one way to wait for each other in a circle:
\* an owner that got its first peer on the node after the first batch was read.
ReportsWaitInOrder ==
    \A D \in SUBSET Channels :
        Circle(D) => \E c \in D : NextOwner(c) \notin report[c].first

-----------------------------------------------------------------------------
(* The inductive invariant (see TrafficAccountingProofs).                  *)

\* No lock outlives its transaction, and a round of locking has begun.
PhasesFit ==
    \A c \in Channels :
        LET r == report[c]
        IN  /\ r.phase \in {"idle", "sent"} => r.held = {} /\ r.batch = {} /\ r.round = 0
            /\ r.phase = "locking" => r.round > 0

\* An owner row is locked by one report.
LocksExclude ==
    \A c, d \in Channels : c # d => report[c].held \cap report[d].held = {}

\* The first batch is locked in order; a later one has new owners only.
LocksOrdered ==
    \A c \in Channels : report[c].phase = "locking" =>
        LET r == report[c]
        IN  /\ r.first \subseteq r.held \cup r.batch
            /\ \/ r.batch \cap r.first = {}
               \/ /\ r.held \cup r.batch \subseteq r.first
                  /\ \A u \in r.held, v \in r.batch : u < v

\* What a report has read of the owners it has locked is still so.
ReadsFresh ==
    \A c \in Channels : report[c].phase = "writing" =>
        /\ \A p \in Peers : UserOf[p] \in report[c].held => report[c].raw[p] = raw[p]
        /\ \A k \in Keys : k[1] \in report[c].held /\ k[2] \in nodes \cup {All}
                            => report[c].seen[k] = agg[k]

\* What a request has loaded is still so unless it is stale; a limit is changed by
\* a request only.
EditFits ==
    \A u \in Users :
        LET e == edit[u]
        IN  e.kind # "none" =>
              /\ e.dirty \/ e.limit = limit[u]
              /\ e.stale \/ /\ e.loaded = status[u]
                            /\ e.total \in {Unset, agg[<<u, All, Ever>>]}

\* A reset that no report overlapped has deleted what its statements name.
ResetFits ==
    \A u \in Users :
        LET r == reset[u]
            Deleted(ds) == \A n \in Nodes \cup {All}, d \in ds :
                              <<u, n, d>> \in r.gone \/ agg[<<u, n, d>>] = 0
        IN  /\ \A k \in r.gone : k[1] = u
            /\ r.step > 1 /\ ~r.raced => Deleted({Ever})
            /\ r.step > 2 /\ ~r.raced => Deleted(today..MaxDay)

\* The clock of the ledger and the calendar are ahead of what they have stamped.
TimesFit ==
    /\ IsFiniteSet(ledger) /\ \A r \in ledger : r.time <= clock
    /\ \A u \in Users : floor[u] <= clock /\ resetDay[u] <= today

\* A peer row's node exists; a dump covers peers of its node and has a number of its own.
DumpsFit ==
    /\ \A p \in rows : NodeOf[p] \in nodes
    /\ \A c \in Channels, p \in Peers : p \in Dumped(c) =>
          /\ NodeOf[p] = Source[c]
          /\ report[c].phase # "idle" /\ report[c].stamp # newest[p]
    /\ \A c \in Channels : report[c].phase # "idle" => report[c].stamp <= dumps[Source[c]]
    /\ \A p \in Peers : newest[p] <= dumps[NodeOf[p]]
    /\ \A c, d \in Channels :
          /\ c # d /\ Source[c] = Source[d]
          /\ report[c].phase # "idle" /\ report[d].phase # "idle"
          => report[c].stamp # report[d].stamp

\* What a later counter would charge on top of an earlier one is at most what the
\* tunnel carried in between: from the last applied dump to now and to each newer dump
\* under way, from each of those to now and to the next.
Settles ==
    \A p \in Peers \ overtaken :
        /\ settled[p] + CounterDelta(raw[p], counter[p]) <= carried[p]
        /\ \A c \in Channels : p \in Dumped(c) =>
              LET r == report[c]
              IN  /\ r.carried[p] + CounterDelta(r.counts[p], counter[p]) <= carried[p]
                  /\ r.stamp > newest[p] =>
                        settled[p] + CounterDelta(raw[p], r.counts[p]) <= r.carried[p]
        /\ \A c, d \in Channels :
              /\ p \in Dumped(c) /\ p \in Dumped(d)
              /\ report[c].stamp < report[d].stamp
              => report[c].carried[p] + CounterDelta(report[c].counts[p], report[d].counts[p])
                   <= report[d].carried[p]

TrafficInv ==
    /\ TypeOK /\ PhasesFit /\ LocksExclude /\ LocksOrdered /\ ReadsFresh
    /\ EditFits /\ ResetFits /\ TimesFit /\ DumpsFit /\ Settles
    /\ LifetimeIsLedger /\ ViewsAgree /\ NoOvercharge /\ LimitIsEnforced

=============================================================================
