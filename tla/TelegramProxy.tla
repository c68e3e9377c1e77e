--------------------------- MODULE TelegramProxy ---------------------------
(***************************************************************************)
(* The Telegram MTProxy: its settings row, the apply and disable jobs the  *)
(* administrator queues for the primary node, the requests the worker      *)
(* sends to that node's agent, and the agent's configuration file and      *)
(* supervised process.                                                     *)
(*                                                                         *)
(* The queue has a single active consumer, so one job runs at a time, and  *)
(* it runs once: when it fails, or its worker dies, the next delivery      *)
(* finds its operation no longer queued and is skipped (AsyncOperations).  *)
(* Only a delivery that could not start its operation comes back.  The     *)
(* agent serves requests in a thread pool and without a lock: one the      *)
(* worker has given up on goes on beside the next.                         *)
(*                                                                         *)
(* The secret, the port and the TLS domain change together, as a version;  *)
(* version 0 is "no secret", a file without a configuration or a process   *)
(* that does not run.                                                      *)
(***************************************************************************)
EXTENDS Naturals, Sequences

CONSTANTS
    Nodes,
    None,          \* no primary node, no job, no request
    MaxRequests,   \* bound on the administrator's requests
    MaxFaults      \* bound on crashes, lost answers and failing commands

ASSUME ProxyAssumption ==
    /\ None \notin Nodes
    /\ MaxRequests \in Nat /\ MaxFaults \in Nat

VARIABLES
    enabled, primary, version,  \* TelegramProxySettings
    state,      \* TelegramProxyNodeState.status of each node
    queue,      \* amnezia.telegram_proxy_operations
    delayed,    \* queued operations whose message is still to come
    job,        \* the job under way
    req,        \* the agent request it waits for, and one it gave up on
    file,       \* the version in each node's mtproxy/config.json
    proc,       \* the version each node's mtproxy process serves
    unapplied,  \* the settings changed and no apply job was published since
    excused,    \* nodes on which a fault no job has repaired may show
    unreported, \* nodes a job of which was lost and that no job reported on since
    asked, faults

settings == <<enabled, primary, version>>
jobVars == <<queue, delayed, job>>
nodeVars == <<file, proc>>
ghosts == <<excused, unreported>>
bounds == <<asked, faults>>
vars == <<settings, state, jobVars, req, nodeVars, unapplied, ghosts, bounds>>

Versions == 0..MaxRequests
Whose == {"job", "left"}

Messages == [id : 1..MaxRequests, kind : {"apply", "disable"}, node : Nodes]
Jobs == [msg : Messages, phase : {"send", "wait", "report"}, version : Versions,
         result : {"none", "ready", "disabled", "failed"}]
Steps == {"write", "status", "restart", "start", "answer", "stop", "remove"}
Requests == [node : Nodes, version : Versions, step : Steps]

\* None is none of the records.
ASSUME NoneAssumption == None \notin Jobs \cup Requests

\* The job and its request agree: it waits exactly while the agent holds one.
TypeOK ==
    /\ enabled \in BOOLEAN /\ primary \in Nodes \cup {None} /\ version \in Versions
    /\ state \in [Nodes -> {"none", "ready", "disabled", "failed"}]
    /\ queue \in Seq(Messages) /\ delayed \in SUBSET Messages
    /\ job \in Jobs \cup {None}
    /\ req \in [Whose -> Requests \cup {None}]
    /\ file \in [Nodes -> Versions] /\ proc \in [Nodes -> Versions]
    /\ unapplied \in BOOLEAN /\ excused \in SUBSET Nodes /\ unreported \in SUBSET Nodes
    /\ asked \in 0..MaxRequests /\ faults \in 0..MaxFaults
    /\ req["job"] # None <=> (job # None /\ job.phase = "wait")
    /\ req["job"] # None => req["job"].node = job.msg.node

Init ==
    /\ enabled = FALSE /\ primary = None /\ version = 0
    /\ state = [n \in Nodes |-> "none"]
    /\ queue = <<>> /\ delayed = {} /\ job = None
    /\ req = [w \in Whose |-> None]
    /\ file = [n \in Nodes |-> 0] /\ proc = [n \in Nodes |-> 0]
    /\ unapplied = FALSE /\ excused = {} /\ unreported = {}
    /\ asked = 0 /\ faults = 0

Fault == faults < MaxFaults /\ faults' = faults + 1
NoFault == UNCHANGED faults

-----------------------------------------------------------------------------
(* The administrator's requests.                                           *)

Ask ==
    /\ asked < MaxRequests
    /\ asked' = asked + 1
    /\ UNCHANGED <<state, job, req, nodeVars, ghosts>>

\* Saving the settings publishes nothing.
UpdateSettings ==
    /\ Ask
    /\ enabled' \in BOOLEAN
    /\ primary' \in Nodes \cup {None}
    /\ version' \in {version, version + 1}
    /\ unapplied' = TRUE
    /\ UNCHANGED <<queue, delayed>> /\ NoFault

\* The settings are committed first: when the broker is away the change stays.  A
\* backend that stops before it publishes leaves a row the stale sweep publishes later.
Publish(kind) ==
    LET m == [id |-> asked + 1, kind |-> kind, node |-> primary] IN
    \/ queue' = Append(queue, m) /\ UNCHANGED delayed /\ NoFault
    \/ delayed' = delayed \cup {m} /\ UNCHANGED queue /\ Fault
    \/ UNCHANGED <<queue, delayed>> /\ Fault

Published == <<queue, delayed>>' # <<queue, delayed>>

ApplyProxy ==
    /\ enabled /\ version # 0 /\ primary # None
    /\ Ask /\ Publish("apply")
    /\ unapplied' = (unapplied /\ ~Published)
    /\ UNCHANGED settings

DisableProxy ==
    /\ primary # None
    /\ Ask /\ Publish("disable")
    /\ enabled' = FALSE
    /\ UNCHANGED <<primary, version, unapplied>>

\* An apply job is queued even while the proxy is disabled; it will fail.
RotateSecret ==
    /\ primary # None
    /\ Ask /\ Publish("apply")
    /\ version' = version + 1
    /\ unapplied' = ~Published
    /\ UNCHANGED <<enabled, primary>>

-----------------------------------------------------------------------------
(* The worker's jobs.                                                      *)

\* What the snapshot asks for, 0 when there is nothing an apply job may write.
Desired(m) == IF m.kind = "apply" /\ enabled THEN version ELSE 0

Lost(n) == unreported' = unreported \cup {n}

\* The operation is started and the snapshot fetched.  A start that fails leaves the
\* operation queued; after it the job is not run again, and one that fails before it
\* has its snapshot reports nothing.
TakeJob ==
    /\ job = None /\ queue # <<>>
    /\ queue' = Tail(queue)
    /\ LET m == Head(queue) IN
       \/ /\ job' = [msg |-> m, phase |-> "send", version |-> Desired(m), result |-> "none"]
          /\ UNCHANGED <<delayed, unreported>> /\ NoFault
       \/ delayed' = delayed \cup {m} /\ UNCHANGED <<job, unreported>> /\ Fault
       \/ Lost(m.node) /\ UNCHANGED <<job, delayed>> /\ Fault
    /\ UNCHANGED <<settings, state, req, nodeVars, unapplied, excused, asked>>

\* The request a job sends; an apply job without a configuration sends none.
RequestOf(j) ==
    [node |-> j.msg.node, version |-> j.version,
     step |-> IF j.msg.kind = "apply" THEN "write" ELSE "stop"]

Unsendable(j) == j.msg.kind = "apply" /\ j.version = 0

SendRequest ==
    /\ job # None /\ job.phase = "send"
    /\ \/ /\ Unsendable(job) /\ NoFault
          /\ job' = [job EXCEPT !.phase = "report", !.result = "failed"]
          /\ UNCHANGED req
       \/ /\ ~Unsendable(job) /\ Fault    \* the agent cannot be reached
          /\ job' = [job EXCEPT !.phase = "report", !.result = "failed"]
          /\ UNCHANGED req
       \/ /\ ~Unsendable(job) /\ NoFault
          /\ job' = [job EXCEPT !.phase = "wait"]
          /\ req' = [req EXCEPT !["job"] = RequestOf(job)]
    /\ UNCHANGED <<settings, state, queue, delayed, nodeVars, unapplied, ghosts, asked>>

\* Mutant of ReportResult: a failed job ends without telling the backend.
ReportSuccess ==
    /\ job # None /\ job.phase = "report"
    /\ state' = IF job.result = "failed" THEN state
                ELSE [state EXCEPT ![job.msg.node] = job.result]
    /\ unreported' = unreported \ {job.msg.node}
    /\ job' = None
    /\ UNCHANGED <<settings, queue, delayed, req, nodeVars, unapplied, excused, bounds>>

ReportResult ==
    /\ job # None /\ job.phase = "report"
    /\ state' = [state EXCEPT ![job.msg.node] = job.result]
    /\ unreported' = unreported \ {job.msg.node}
    /\ job' = None
    /\ UNCHANGED <<settings, queue, delayed, req, nodeVars, unapplied, excused, bounds>>

\* The report itself fails: the stored status stays as it was.
LoseReport ==
    /\ job # None /\ job.phase = "report" /\ Fault
    /\ Lost(job.msg.node)
    /\ job' = None
    /\ UNCHANGED <<settings, state, queue, delayed, req, nodeVars, unapplied, excused, asked>>

\* The retry queue or the stale sweep delivers the message.
MessageComes(m) ==
    /\ m \in delayed
    /\ delayed' = delayed \ {m}
    /\ queue' = Append(queue, m)
    /\ UNCHANGED <<settings, state, job, req, nodeVars, unapplied, ghosts, bounds>>

\* The request goes on at the agent; at most one is left behind at a time.
LeaveRequest ==
    /\ req["job"] # None => req["left"] = None
    /\ req' = IF req["job"] = None THEN req ELSE [left |-> req["job"], job |-> None]
    /\ excused' = IF req["job"] = None THEN excused ELSE excused \cup {job.msg.node}

\* The worker's HTTP client times out or its connection breaks.
RequestTimesOut ==
    /\ req["job"] # None /\ Fault /\ LeaveRequest
    /\ job' = [job EXCEPT !.phase = "report", !.result = "failed"]
    /\ UNCHANGED <<settings, state, queue, delayed, nodeVars, unapplied, unreported, asked>>

\* The message is delivered again, finds its operation running and is skipped.
WorkerDies ==
    /\ job # None /\ Fault /\ LeaveRequest
    /\ Lost(job.msg.node)
    /\ job' = None
    /\ UNCHANGED <<settings, state, queue, delayed, nodeVars, unapplied, asked>>

-----------------------------------------------------------------------------
(* The agent's handlers.                                                   *)

\* The request of w ends with this result; a job that waits for it goes on.
Answer(w, result) ==
    /\ req' = [req EXCEPT ![w] = None]
    /\ job' = IF w = "job" THEN [job EXCEPT !.phase = "report", !.result = result] ELSE job

Goto(w, step) ==
    /\ req' = [req EXCEPT ![w].step = step]
    /\ UNCHANGED job

Handler(w, step) ==
    /\ req[w] # None /\ req[w].step = step
    /\ UNCHANGED <<settings, state, queue, delayed, unapplied, unreported, asked>>

Alone(w) == \A x \in Whose \ {w} : req[x] # None => req[x].node # req[w].node

\* A job's request, with no other on its node, repairs what earlier faults left.
Repairs(w) ==
    excused' = IF w = "job" /\ Alone(w) THEN excused \ {req[w].node} ELSE excused

\* supervisorctl fails or does not answer in time, whatever it had started.
SupervisorFails(w, outcomes) ==
    /\ Fault /\ Answer(w, "failed")
    /\ \E v \in outcomes : proc' = [proc EXCEPT ![req[w].node] = v]
    /\ UNCHANGED <<file, excused>>

WriteConfig(w) ==
    /\ Handler(w, "write") /\ NoFault
    /\ file' = [file EXCEPT ![req[w].node] = req[w].version]
    /\ Goto(w, "status") /\ Repairs(w)
    /\ UNCHANGED proc

Running(n) == file[n] # 0 /\ proc[n] # 0

\* Mutant of Command: the running process is left as it is.
CommandStart(n) == "start"

\* The command that makes the process serve the file.
Command(n) == IF Running(n) THEN "restart" ELSE "start"

\* A failing "supervisorctl status" reads as "disabled", also when the process runs.
ReadStatus(w) ==
    /\ Handler(w, "status")
    /\ \/ Goto(w, Command(req[w].node)) /\ UNCHANGED <<nodeVars, excused>> /\ NoFault
       \/ /\ Goto(w, "start") /\ Fault
          /\ excused' = excused \cup {req[w].node} /\ UNCHANGED nodeVars
       \/ SupervisorFails(w, {proc[req[w].node]})

\* mtproxy.sh reads the file when it starts, and gives up without one.
Restart(w) ==
    LET n == req[w].node IN
    /\ Handler(w, "restart")
    /\ \/ /\ file[n] # 0 /\ NoFault
          /\ proc' = [proc EXCEPT ![n] = file[n]]
          /\ Goto(w, "answer") /\ UNCHANGED <<file, excused>>
       \/ /\ file[n] = 0 /\ NoFault
          /\ proc' = [proc EXCEPT ![n] = 0]
          /\ Answer(w, "failed") /\ UNCHANGED <<file, excused>>
       \/ SupervisorFails(w, {proc[n], 0, file[n]})

Start(w) ==
    LET n == req[w].node IN
    /\ Handler(w, "start")
    /\ \/ /\ proc[n] # 0 /\ NoFault
          /\ Goto(w, "answer") /\ UNCHANGED <<nodeVars, excused>>
       \/ /\ proc[n] = 0 /\ file[n] # 0 /\ NoFault
          /\ proc' = [proc EXCEPT ![n] = file[n]]
          /\ Goto(w, "answer") /\ UNCHANGED <<file, excused>>
       \/ /\ proc[n] = 0 /\ file[n] = 0 /\ NoFault
          /\ Answer(w, "failed") /\ UNCHANGED <<nodeVars, excused>>
       \/ SupervisorFails(w, {proc[n], file[n]})

AnswerApply(w) ==
    /\ Handler(w, "answer")
    /\ \/ /\ Answer(w, IF Running(req[w].node) THEN "ready" ELSE "disabled")
          /\ UNCHANGED <<nodeVars, excused>> /\ NoFault
       \/ Answer(w, "disabled") /\ UNCHANGED <<nodeVars, excused>> /\ Fault
       \/ SupervisorFails(w, {proc[req[w].node]})

\* Mutant of StopProcess: the file is removed although the process could not be stopped.
StopProcessAnyway(w) ==
    LET n == req[w].node IN
    /\ Handler(w, "stop") /\ Goto(w, "remove") /\ UNCHANGED file
    /\ \/ proc' = [proc EXCEPT ![n] = 0] /\ NoFault /\ Repairs(w)
       \/ Fault /\ UNCHANGED <<proc, excused>>

StopProcess(w) ==
    LET n == req[w].node IN
    /\ Handler(w, "stop")
    /\ \/ /\ proc' = [proc EXCEPT ![n] = 0] /\ NoFault
          /\ Goto(w, "remove") /\ Repairs(w)
          /\ UNCHANGED file
       \/ SupervisorFails(w, {proc[n], 0})

RemoveConfig(w) ==
    /\ Handler(w, "remove") /\ NoFault
    /\ file' = [file EXCEPT ![req[w].node] = 0]
    /\ Answer(w, "disabled")
    /\ UNCHANGED <<proc, excused>>

-----------------------------------------------------------------------------
(* The node.                                                               *)

\* supervisord does not restart the process.
ProcessDies(n) ==
    /\ proc[n] # 0 /\ Fault
    /\ proc' = [proc EXCEPT ![n] = 0]
    /\ excused' = excused \cup {n}
    /\ UNCHANGED <<settings, state, jobVars, req, file, unapplied, unreported, asked>>

On(w, n) == req[w] # None /\ req[w].node = n

\* Mutant of NodeRestarts: the job is not told that its connection is gone.
NodeRestartsSilently(n) ==
    /\ Fault
    /\ \E w \in Whose : On(w, n)
    /\ req' = [w \in Whose |-> IF On(w, n) THEN None ELSE req[w]]
    /\ \E v \in {file[n], 0} : proc' = [proc EXCEPT ![n] = v]
    /\ UNCHANGED <<settings, state, jobVars, file, unapplied, ghosts, asked>>

\* Requests of the node end with the connection; the agent starts the process from
\* the file, and only logs when that fails.
NodeRestarts(n) ==
    /\ Fault
    /\ req' = [w \in Whose |-> IF On(w, n) THEN None ELSE req[w]]
    /\ job' = IF On("job", n) THEN [job EXCEPT !.phase = "report", !.result = "failed"] ELSE job
    /\ \E v \in {file[n], 0} :
          /\ proc' = [proc EXCEPT ![n] = v]
          /\ excused' = IF v # file[n] THEN excused \cup {n} ELSE excused
    /\ UNCHANGED <<settings, state, queue, delayed, file, unapplied, unreported, asked>>

-----------------------------------------------------------------------------

Handle(w) ==
    \/ WriteConfig(w) \/ ReadStatus(w) \/ Restart(w) \/ Start(w) \/ AnswerApply(w)
    \/ StopProcess(w) \/ RemoveConfig(w)

Next ==
    \/ UpdateSettings \/ ApplyProxy \/ DisableProxy \/ RotateSecret
    \/ TakeJob \/ SendRequest \/ ReportResult \/ LoseReport
    \/ \E m \in delayed : MessageComes(m)
    \/ RequestTimesOut \/ WorkerDies
    \/ \E w \in Whose : Handle(w)
    \/ \E n \in Nodes : ProcessDies(n) \/ NodeRestarts(n)

\* The worker goes on with its job, the broker delivers, and the agent's threads run.
Fairness ==
    /\ WF_vars(TakeJob) /\ WF_vars(SendRequest) /\ WF_vars(ReportResult)
    /\ WF_vars(\E m \in delayed : MessageComes(m))
    /\ \A w \in Whose : WF_vars(Handle(w))

Spec == Init /\ [][Next]_vars /\ Fairness

-----------------------------------------------------------------------------
(* Properties.                                                             *)

Pending(n) ==
    \/ job # None /\ job.msg.node = n
    \/ \E i \in 1..Len(queue) : queue[i].node = n
    \/ \E m \in delayed : m.node = n

Quiet(n) == ~Pending(n) /\ \A w \in Whose : ~On(w, n)

\* select_primary_node_state
PrimaryReady == primary # None /\ state[primary] = "ready"

\* _response_links and the public page
LinkShown == enabled /\ version # 0 /\ PrimaryReady

\* The link on the public page combines the stored secret with the status the last
\* job reported.  Once the jobs of the primary node are over, its process serves exactly
\* the configuration the link names; unless settings were saved without applying them, a
\* fault on the node is unrepaired, or a job was lost and nothing reported since: the
\* status is then the one from before that job, which is not run again.
LinkIsServed ==
    LinkShown /\ Quiet(primary) /\ ~unapplied /\ primary \notin excused \cup unreported
        => proc[primary] = version

\* The agent reports a node without a configuration file as disabled whatever runs on
\* it (parse_mtproxy_status).  DELETE /mtproxy stops the process before it removes the
\* file, so no process is ever left that the panel cannot see, whatever fails between.
NoHiddenProcess ==
    \A n \in Nodes \ excused :
        (\A w \in Whose : ~On(w, n)) /\ proc[n] # 0 => file[n] # 0

DisablePending(n) ==
    \/ job # None /\ job.msg.kind = "disable" /\ job.msg.node = n
    \/ \E i \in 1..Len(queue) : queue[i].kind = "disable" /\ queue[i].node = n
    \/ \E m \in delayed : m.kind = "disable" /\ m.node = n

\* A disable job that was queued comes to an end, behind the jobs before it: with the
\* process stopped, with the failure reported, or lost to a dead worker or backend call,
\* which the status does not show (its operation times out).
DisableTakesEffect ==
    \A n \in Nodes :
        DisablePending(n) ~>
            /\ ~DisablePending(n)
            /\ proc[n] = 0 \/ state[n] = "failed" \/ n \in excused \cup unreported

-----------------------------------------------------------------------------
(* The inductive invariant of TelegramProxyProofs.                         *)

\* A request that was left behind has its node marked, and a job's request is alone
\* on any node that is not.
LeftIsExcused == req["left"] # None => req["left"].node \in excused

\* What the request of a job has done so far, on a node where no fault shows.
Progress(r) ==
    /\ r.step \in {"status", "restart", "start", "answer"} => file[r.node] = r.version
    /\ r.step \in {"start", "remove"} => proc[r.node] = 0
    /\ r.step = "answer" => proc[r.node] = r.version

\* A job's request carries the job's version; an apply request never carries 0.
RequestFits ==
    req["job"] # None =>
        /\ req["job"].version = job.version
        /\ IF job.msg.kind = "apply"
           THEN req["job"].step \notin {"stop", "remove"} /\ job.version # 0
           ELSE req["job"].step \in {"stop", "remove"}
        /\ req["job"].node \notin excused => Progress(req["job"])

Serves(n, v) == file[n] = v /\ proc[n] = v

\* Only an apply job ends "ready", and its node serves what the job wrote.
ReadyServes ==
    job # None /\ job.result = "ready" =>
        /\ job.msg.kind = "apply" /\ job.phase = "report"
        /\ job.msg.node \notin excused => Serves(job.msg.node, job.version)

Queued(n) ==
    \/ \E i \in 1..Len(queue) : queue[i].node = n
    \/ \E m \in delayed : m.node = n

Applied == enabled /\ primary # None /\ ~unapplied

\* A job that works on outdated settings is followed by another one.
OutdatedIsFollowed ==
    Applied /\ job # None /\ job.msg.node = primary
        /\ job.msg.kind = "apply" /\ job.version # version => Queued(primary)

\* What a "ready" status stands for when no job is pending.
ReadyIsCurrent ==
    Applied /\ primary \notin excused \cup unreported /\ ~Pending(primary) /\ state[primary] = "ready"
        => Serves(primary, version)

NoneHidden == \A n \in Nodes \ excused : proc[n] # 0 => file[n] # 0

\* Versions are numbered by the administrator's requests.
ProxyInv ==
    /\ TypeOK /\ version <= asked
    /\ LeftIsExcused /\ RequestFits /\ ReadyServes
    /\ OutdatedIsFollowed /\ ReadyIsCurrent /\ NoneHidden
=============================================================================
