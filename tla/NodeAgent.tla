----------------------------- MODULE NodeAgent -----------------------------
(***************************************************************************)
(* A VPN node: the AmneziaWG interface that is up (live), the saved        *)
(* configuration it is brought up from, and the agent whose handlers       *)
(* change one and then the other; with the worker's sync job that drives   *)
(* the agent from a snapshot of the panel's rows.                          *)
(*                                                                         *)
(* The agent serves requests in a thread pool.  Only the saved file is     *)
(* under a lock (_config_lock), so each handler is two steps, and one the  *)
(* worker has given up on goes on beside the requests of its next job.     *)
(* The tunnel process reads the file and brings the interface up in two    *)
(* steps as well.  All settings of the interface are one version number.   *)
(***************************************************************************)
EXTENDS Naturals

CONSTANTS
    Peers,
    Plain,       \* peers without a preshared key
    Slashed,     \* peers with a "/" in the base64 text of their public key
    None,
    MaxChanges,  \* bound on the changes made in the panel
    MaxFaults    \* bound on crashes, abandoned jobs and failing commands

ASSUME AgentAssumption ==
    /\ Plain \subseteq Peers /\ Slashed \subseteq Peers /\ None \notin Peers \cup Nat
    /\ MaxChanges \in Nat /\ MaxFaults \in Nat

VARIABLES
    row,      \* what the panel wants of each peer
    want,     \* the interface settings it wants
    job,      \* the sync job under way
    req,      \* the agent request it waits for, and one a job gave up on
    up,       \* the interface exists
    boot,     \* what the tunnel process read from the file and is bringing up
    live, liveIf,    \* peers and settings of the interface
    saved, savedIf,  \* peers and settings in the file; 0: cut short, None: no file
    broken,   \* peers of whose blocks the file holds a piece; None: one without its key
    gaveUp,   \* supervisord no longer starts the tunnel process
    torn,     \* peers one of whose requests was cut short or left behind
    changes, faults

panelVars == <<row, want, changes>>
liveVars == <<live, liveIf>>
fileVars == <<saved, savedIf, broken>>
tunnelVars == <<up, boot, gaveUp>>
vars == <<panelVars, job, req, tunnelVars, liveVars, fileVars, torn, faults>>

Versions == 1..(MaxChanges + 1)
Whose == {"job", "left"}
Requests ==
    [peer : {None}, version : Versions, step : {"save", "apply"}]
        \cup [peer : Peers, version : {0}, step : {"set", "persist", "remove", "unpersist"}]
Jobs == [phase : {"interface", "status", "peers", "report"}, version : Versions,
         put : SUBSET Peers, del : SUBSET Peers, dump : SUBSET Peers]

\* None is none of the records.
ASSUME NoneAssumption == None \notin Jobs \cup Requests

\* Only a job has a request, and an interface that is up has a file.
TypeOK ==
    /\ row \in [Peers -> {"wanted", "blocked", "deleting", "released"}]
    /\ want \in Versions
    /\ job \in Jobs \cup {None}
    /\ req \in [Whose -> Requests \cup {None}]
    /\ up \in BOOLEAN
    /\ boot \in [peers : SUBSET Peers, version : Versions \cup {0}] \cup {None}
    /\ live \in SUBSET Peers /\ saved \in SUBSET Peers
    /\ liveIf \in Versions \cup {0} /\ savedIf \in Versions \cup {0, None}
    /\ broken \in SUBSET (Peers \cup {None}) /\ gaveUp \in BOOLEAN
    /\ torn \in SUBSET Peers
    /\ changes \in 0..MaxChanges /\ faults \in 0..MaxFaults
    /\ req["job"] # None => job # None /\ job.phase \in {"interface", "peers"}
    /\ up \/ boot # None => savedIf # None
    /\ ~up => live = {}

Init ==
    /\ row = [p \in Peers |-> "wanted"] /\ want = 1
    /\ job = None /\ req = [w \in Whose |-> None]
    /\ up = FALSE /\ boot = None
    /\ live = {} /\ liveIf = 0
    /\ saved = {} /\ savedIf = None
    /\ broken = {} /\ gaveUp = FALSE /\ torn = {}
    /\ changes = 0 /\ faults = 0

-----------------------------------------------------------------------------
(* The panel.  DevicePeers has the rows in full.                           *)

Change == changes < MaxChanges /\ changes' = changes + 1

ChangePanel ==
    /\ Change
    /\ \/ /\ want' = want + 1 /\ UNCHANGED row
       \/ \E p \in Peers :
             /\ \/ row[p] = "wanted" /\ row' = [row EXCEPT ![p] = "blocked"]
                \/ row[p] = "blocked" /\ row' = [row EXCEPT ![p] = "wanted"]
                \/ row[p] \in {"wanted", "blocked"} /\ row' = [row EXCEPT ![p] = "deleting"]
             /\ UNCHANGED want
    /\ UNCHANGED <<job, req, tunnelVars, liveVars, fileVars, torn, faults>>

-----------------------------------------------------------------------------
(* The worker's job.                                                       *)

jobFrame == <<panelVars, tunnelVars, liveVars, fileVars, torn, faults>>

\* _split_peers; a released device is not in the snapshot.
StartSync ==
    /\ job = None
    /\ job' = [phase |-> "interface", version |-> want,
               put |-> {p \in Peers : row[p] = "wanted"},
               del |-> {p \in Peers : row[p] \in {"blocked", "deleting"}}, dump |-> {}]
    /\ UNCHANGED <<jobFrame, req>>

SendInterface ==
    /\ job # None /\ job.phase = "interface" /\ req["job"] = None
    /\ req' = [req EXCEPT !["job"] = [peer |-> None, version |-> job.version, step |-> "save"]]
    /\ UNCHANGED <<jobFrame, job>>

\* Mutant of Matches: a live peer matches whether or not it was saved.
MatchesLive(p) == p \in live

\* /status shows the preshared key the panel expects: the agent takes it from the
\* saved file (_configured_peers).
KeyShown(p) == p \in Plain \/ p \in saved

\* _peer_matches_current
Matches(p) == p \in live /\ KeyShown(p)

\* GET /status, and _reconcile_peers on its answer.
ReadStatus ==
    /\ job # None /\ job.phase = "status"
    /\ job' = IF up
              THEN [job EXCEPT !.phase = "peers",
                               !.put = {p \in @ : ~Matches(p)},
                               !.del = @ \cap live]
              ELSE None
    /\ UNCHANGED <<jobFrame, req>>

\* put_peers sends the installations first.
SendPut(p) ==
    /\ job # None /\ job.phase = "peers" /\ req["job"] = None
    /\ p \in job.put
    /\ job' = [job EXCEPT !.put = @ \ {p}]
    /\ req' = [req EXCEPT !["job"] = [peer |-> p, version |-> 0, step |-> "set"]]
    /\ UNCHANGED jobFrame

\* The key goes into the URL as it is.  With a "/" in it no route matches; the 404
\* counts as "not present".
Routed(p) == p \notin Slashed

SendDelete(p) ==
    /\ job # None /\ job.phase = "peers" /\ req["job"] = None
    /\ job.put = {} /\ p \in job.del
    /\ job' = [job EXCEPT !.del = @ \ {p}]
    /\ req' = IF Routed(p)
              THEN [req EXCEPT !["job"] = [peer |-> p, version |-> 0, step |-> "remove"]]
              ELSE req
    /\ UNCHANGED jobFrame

\* The second /status, and /dump.
TakeDump ==
    /\ job # None /\ job.phase = "peers" /\ req["job"] = None
    /\ job.put = {} /\ job.del = {}
    /\ job' = IF up THEN [job EXCEPT !.phase = "report", !.dump = live] ELSE None
    /\ UNCHANGED <<jobFrame, req>>

\* node_sync_result confirms the removals the node no longer reports.
Confirmed(p) ==
    IF row[p] = "deleting" /\ p \notin job.dump THEN "released" ELSE row[p]

ReportSync ==
    /\ job # None /\ job.phase = "report"
    /\ row' = [p \in Peers |-> Confirmed(p)]
    /\ job' = None
    /\ UNCHANGED <<want, changes, req, tunnelVars, liveVars, fileVars, torn, faults>>

-----------------------------------------------------------------------------
(* The agent's handlers.                                                   *)

Handler(w, step) ==
    /\ req[w] # None /\ req[w].step = step
    /\ UNCHANGED <<panelVars, tunnelVars, faults>>

Goto(w, step) ==
    /\ req' = [req EXCEPT ![w].step = step]
    /\ UNCHANGED job

Answer(w) ==
    /\ req' = [req EXCEPT ![w] = None]
    /\ job' = IF w = "job" /\ job.phase = "interface" THEN [job EXCEPT !.phase = "status"]
              ELSE job

Refuse(w) ==
    /\ req' = [req EXCEPT ![w] = None]
    /\ job' = IF w = "job" THEN None ELSE job

InFlight(p) == \E w \in Whose : req[w] # None /\ req[w].peer = p
AloneOn(w) == \A x \in Whose \ {w} : req[x] # None => req[x].peer # req[w].peer

\* A request of a job, alone on its peer, overrides what earlier ones left there.
Mends(w) == torn' = IF w = "job" /\ AloneOn(w) THEN torn \ {req[w].peer} ELSE torn

\* Mutant of Unchanged: any file will do, as long as there is one.
AnyFile(v) == savedIf # None

\* The file already holds these settings; nothing is applied.
Unchanged(v) == savedIf = v

SaveInterface(w) ==
    /\ Handler(w, "save")
    /\ \/ /\ Unchanged(req[w].version)
          /\ Answer(w) /\ UNCHANGED savedIf
       \/ /\ ~Unchanged(req[w].version)
          /\ savedIf' = req[w].version
          /\ Goto(w, "apply")
    /\ UNCHANGED <<liveVars, saved, broken, torn>>

\* Without an interface awg set fails, which is only logged: the tunnel will read the
\* file, unless it has already.
ApplyInterface(w) ==
    /\ Handler(w, "apply")
    /\ liveIf' = IF up THEN req[w].version ELSE liveIf
    /\ Answer(w)
    /\ UNCHANGED <<live, fileVars, torn>>

SetPeer(w) ==
    /\ Handler(w, "set")
    /\ \/ up /\ live' = live \cup {req[w].peer} /\ Goto(w, "persist") /\ Mends(w)
       \/ ~up /\ UNCHANGED <<live, torn>> /\ Refuse(w)
    /\ UNCHANGED <<liveIf, fileVars>>

\* Mutant of PersistPeer: only a file without peers gets the new one.
PersistFirst(w) ==
    /\ Handler(w, "persist")
    /\ saved' = IF saved = {} THEN {req[w].peer} ELSE saved
    /\ Answer(w)
    /\ UNCHANGED <<liveVars, savedIf, broken, torn>>

\* The blocks are told apart by their keys: a piece that has its key is replaced.
PersistPeer(w) ==
    /\ Handler(w, "persist")
    /\ saved' = saved \cup {req[w].peer}
    /\ broken' = broken \ {req[w].peer}
    /\ Answer(w)
    /\ UNCHANGED <<liveVars, savedIf, torn>>

RemovePeer(w) ==
    /\ Handler(w, "remove")
    /\ \/ up /\ live' = live \ {req[w].peer} /\ Goto(w, "unpersist") /\ Mends(w)
       \/ ~up /\ UNCHANGED <<live, torn>> /\ Refuse(w)
    /\ UNCHANGED <<liveIf, fileVars>>

\* Mutant of UnpersistPeer: the peer stays in the saved file.
UnpersistNothing(w) ==
    /\ Handler(w, "unpersist")
    /\ Answer(w)
    /\ UNCHANGED <<liveVars, fileVars, torn>>

UnpersistPeer(w) ==
    /\ Handler(w, "unpersist")
    /\ saved' = saved \ {req[w].peer}
    /\ broken' = broken \ {req[w].peer}
    /\ Answer(w)
    /\ UNCHANGED <<liveVars, savedIf, torn>>

-----------------------------------------------------------------------------
(* The tunnel process, and what goes wrong.                                *)

\* Each of these steps of a handler rewrites the file in place, under a lock that the
\* tunnel process does not take.
Writing == \E w \in Whose : req[w] # None /\ req[w].step \in {"save", "persist", "unpersist"}

\* tunnel.sh waits for the file.  A piece of a block stops awg-quick; a file that is
\* being written is read in part.
TunnelReads ==
    /\ ~up /\ boot = None /\ ~gaveUp /\ savedIf # None /\ broken = {}
    /\ \/ boot' = [peers |-> saved, version |-> savedIf] /\ UNCHANGED torn
       \/ /\ Writing
          /\ \E part \in SUBSET saved, v \in {savedIf, 0} :
                /\ v = 0 => part = {}
                /\ boot' = [peers |-> part, version |-> v]
                /\ torn' = torn \cup (saved \ part)
    /\ UNCHANGED <<panelVars, job, req, up, gaveUp, liveVars, fileVars, faults>>

TunnelUp ==
    /\ boot # None
    /\ up' = TRUE /\ boot' = None
    /\ live' = boot.peers /\ liveIf' = boot.version
    /\ UNCHANGED <<panelVars, job, req, gaveUp, fileVars, torn, faults>>

\* After a few attempts that fail at once supervisord starts the process no more.
TunnelGivesUp ==
    /\ ~up /\ boot = None /\ ~gaveUp
    /\ broken # {} \/ savedIf = 0
    /\ gaveUp' = TRUE
    /\ UNCHANGED <<panelVars, job, req, up, boot, liveVars, fileVars, torn, faults>>

Fault == faults < MaxFaults /\ faults' = faults + 1
TornBy(ws) == {p \in Peers : \E w \in ws : req[w] # None /\ req[w].peer = p}

TunnelDies ==
    /\ up /\ Fault
    /\ up' = FALSE /\ live' = {} /\ liveIf' = 0
    /\ torn' = torn \cup TornBy(Whose)
    /\ UNCHANGED <<panelVars, job, req, boot, gaveUp, fileVars>>

\* An awg command fails on an interface that is up.  PUT /interface swallows it, with
\* any part of the settings applied; the handlers of peers refuse.
CommandFails(w) ==
    /\ req[w] # None /\ up /\ Fault
    /\ \/ req[w].step = "apply" /\ Answer(w) /\ liveIf' \in {liveIf, 0}
       \/ req[w].step \in {"set", "remove"} /\ Refuse(w) /\ UNCHANGED liveIf
    /\ UNCHANGED <<panelVars, tunnelVars, live, fileVars, torn>>

\* Mutant of AbandonJob: the worker forgets the job and not its request.
AbandonJobOnly ==
    /\ job # None /\ Fault
    /\ job' = None
    /\ UNCHANGED <<panelVars, req, tunnelVars, liveVars, fileVars, torn>>

\* The worker stops, its client times out or the connection breaks; the request goes on.
AbandonJob ==
    /\ job # None /\ Fault
    /\ req["job"] # None => req["left"] = None
    /\ job' = None
    /\ req' = IF req["job"] = None THEN req ELSE [job |-> None, left |-> req["job"]]
    /\ torn' = torn \cup TornBy({"job"})
    /\ UNCHANGED <<panelVars, tunnelVars, liveVars, fileVars>>

\* The settings a handler was writing, and the peers whose blocks it may have cut.
Written == {req[w].version : w \in {x \in Whose : req[x] # None /\ req[x].step = "save"}}
CutBlocks == (saved \cup TornBy(Whose)) \ saved'

\* A handler that is cut off leaves a part of the file, which may end in a piece of a block.
FileAfterCrash ==
    \/ UNCHANGED fileVars /\ torn' = torn \cup TornBy(Whose)
    \/ /\ Writing
       /\ saved' \in SUBSET saved
       /\ savedIf' \in {savedIf, 0} \cup Written
       /\ \E b \in CutBlocks \cup {None} : broken' \in SUBSET (broken \cup {b})
       /\ savedIf' \in {0, None} => saved' = {} /\ broken' = {}
       /\ torn' = torn \cup TornBy(Whose) \cup (saved \ saved')

AgentDies ==
    /\ Fault
    /\ \E w \in Whose : req[w] # None
    /\ req' = [w \in Whose |-> None]
    /\ job' = IF req["job"] # None THEN None ELSE job
    /\ FileAfterCrash
    /\ UNCHANGED <<panelVars, tunnelVars, liveVars>>

-----------------------------------------------------------------------------

Handle(w) ==
    \/ SaveInterface(w) \/ ApplyInterface(w)
    \/ SetPeer(w) \/ PersistPeer(w)
    \/ RemovePeer(w) \/ UnpersistPeer(w)

JobStep ==
    \/ StartSync \/ SendInterface \/ ReadStatus
    \/ \E p \in Peers : SendPut(p) \/ SendDelete(p)
    \/ TakeDump \/ ReportSync

Tunnel == TunnelReads \/ TunnelUp \/ TunnelGivesUp

Next ==
    \/ ChangePanel
    \/ JobStep
    \/ \E w \in Whose : Handle(w) \/ CommandFails(w)
    \/ Tunnel
    \/ TunnelDies \/ AbandonJob \/ AgentDies

\* Jobs are queued again and again, the agent's threads run, and supervisord restarts the
\* tunnel or gives it up.
Fairness ==
    /\ WF_vars(JobStep)
    /\ \A w \in Whose : WF_vars(Handle(w))
    /\ WF_vars(Tunnel)

Spec == Init /\ [][Next]_vars /\ Fairness

-----------------------------------------------------------------------------
(* Properties.                                                             *)

\* A peer the panel has confirmed as removed, whose address another device may get,
\* does not come back, across restarts of the tunnel from the saved file: unless a
\* request for it was cut short, which the panel cannot see.
DeletedStaysGone == \A p \in Peers \ torn : row[p] = "released" => p \notin live

\* The saved file and the interface hold the same peers whenever no handler is between
\* its halves: a restart of the tunnel loses no peer and brings none back.
RestartKeepsPeers ==
    up => \A p \in Peers \ torn : ~InFlight(p) => (p \in live <=> p \in saved)

\* Whatever was cut off, left behind or written late, sync jobs bring the saved
\* settings to those the panel wants.  That they reach the interface is not promised:
\* settings the file already holds are not applied again.
SettingsAreSaved == <>[](savedIf = want)

Settled(p) ==
    /\ row[p] = "wanted" => p \in live /\ KeyShown(p)
    /\ row[p] = "blocked" => p \notin live
    /\ row[p] # "deleting"

\* Sync jobs repair what crashes, cut files, abandoned requests and tunnel restarts did:
\* once these and the panel's changes stop, peers that are wanted are installed for good,
\* those of blocked accounts are out, and removals are confirmed.  The exception is a
\* tunnel that supervisord gave up on: no job brings the interface back.
PeersConverge == []~gaveUp => \A p \in Peers \ Slashed : <>[]Settled(p)

\* "The node drops them on the next sync": a peer marked for removal leaves the node.
DeletedIsDropped == \A p \in Peers : row[p] = "deleting" ~> p \notin live

-----------------------------------------------------------------------------
(* The inductive invariant of NodeAgentProofs.                             *)

Half(w) == req[w] # None /\ req[w].step \in {"persist", "unpersist"}

\* A request that was left behind has its peer marked.
LeftIsMarked == req["left"] # None => req["left"].peer \in torn \cup {None}

\* Between its halves a handler has changed the interface, which is still up.
HalfDone ==
    \A w \in Whose : Half(w) /\ req[w].peer \notin torn =>
        up /\ (req[w].peer \in live <=> req[w].step = "persist")

\* A peer without a handler between its halves is in the file exactly if it is on
\* the interface, or on the one that is coming up.
StoresAgree ==
    \A p \in Peers \ torn : (\A w \in Whose : Half(w) => req[w].peer # p) =>
        /\ up => (p \in live <=> p \in saved)
        /\ boot # None => (p \in boot.peers <=> p \in saved)

Gone(p) == p \notin live /\ p \notin saved /\ (boot # None => p \notin boot.peers)

\* No job has to do with a released peer, and what a dump did not show is gone.
ReleasedIsGone ==
    /\ \A p \in Peers : row[p] = "released" =>
          /\ job # None => p \notin job.put \cup job.del
          /\ req["job"] # None => req["job"].peer # p
    /\ \A p \in Peers \ torn : row[p] = "released" => Gone(p)
    /\ job # None /\ job.phase = "report" =>
          \A p \in Peers \ (torn \cup job.dump) : Gone(p)

\* The tunnel process does not run beside an interface that is up, and the settings
\* are numbered by the changes.
NodeInv ==
    /\ TypeOK /\ (boot # None => ~up) /\ want <= changes + 1
    /\ LeftIsMarked /\ HalfDone /\ StoresAgree /\ ReleasedIsGone
=============================================================================
