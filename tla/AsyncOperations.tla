--------------------------- MODULE AsyncOperations ---------------------------
(***************************************************************************)
(* The life of a tracked background job: the async_operations row the      *)
(* backend commits, the broker message it publishes afterwards, the worker *)
(* tasks that consume the message and call the row's lifecycle endpoints,  *)
(* the retry queues, and the worker loop that recovers stale rows.         *)
(*                                                                         *)
(* A message is the pair <<operation, x-retry-count>>; `queue' counts the  *)
(* copies of it in the operation queue and its retry queues.  A slot is    *)
(* one permit of the consumer's semaphore: the sequential queues have one, *)
(* the parallel queues WORKER_CONCURRENCY.                                 *)
(***************************************************************************)
EXTENDS Integers, FiniteSets, FiniteSetsExt

CONSTANTS
  Operations,       \* the rows that may be created
  Slots,            \* the consumer's concurrent tasks
  None,
  MaxAttempts,      \* RetryPolicy.max_attempts
  MaxCopies,        \* bound: copies of one operation's message in the broker
  MaxFaults         \* bound: worker crashes and failed backend calls

ASSUME ConstantsAssumption ==
  /\ None \notin Operations
  /\ IsFiniteSet(Slots)
  /\ MaxAttempts \in Nat \ {0}
  /\ MaxCopies \in Nat
  /\ MaxFaults \in Nat

VARIABLES
  status,   \* async_operations.status
  unparseable,  \* the rows command_from_operation cannot turn into a command
  stale,    \* the rows whose updated_at has passed the recovery cutoff
  pub,      \* enqueue_operation between its commit and its broker answer
  queue,    \* [message -> number of copies waiting in the broker]
  slot,     \* what each consumer task is doing
  phase,    \* the step of recover_stale_operations
  batch,    \* the rows the recovery loop fetched and has not dealt with
  checked,  \* the row whose timeout request passed _ensure_status
  faults,   \* crashes and failed calls so far
  runs      \* history: how often the command handler was entered for a row

vars == <<status, unparseable, stale, pub, queue, slot, phase, batch, checked, faults, runs>>
recovery == <<phase, batch, checked>>

Contract == INSTANCE OperationContract WITH Operations <- Operations, status <- status

Tries == 0 .. MaxAttempts - 1
Messages == Operations \X Tries
Calls == {"start", "succeed", "fail"}

\* Mutant of Allowed: a start is let through on a running row.
AllowedRestart ==
  [start |-> {"queued", "running"}, succeed |-> {"running"}, fail |-> {"running"}]

\* Mutant of Allowed: a failure may be reported of a row that has succeeded.
AllowedLateFail ==
  [start |-> {"queued"}, succeed |-> {"running"}, fail |-> {"running", "succeeded"}]

\* The statuses from which each lifecycle endpoint lets a row move on.
Allowed == [start |-> {"queued"}, succeed |-> {"running"}, fail |-> {"running"}]

Idle == [op |-> None, tries |-> 0, pc |-> "idle", passed |-> FALSE]

Task == [op : Operations \cup {None}, tries : Tries,
         pc : {"idle", "work", "retry", "ack"} \cup Calls, passed : BOOLEAN]

Init ==
  /\ status = [o \in Operations |-> "absent"]
  /\ unparseable = {}
  /\ stale = {}
  /\ pub = [o \in Operations |-> "none"]
  /\ queue = [m \in Messages |-> 0]
  /\ slot = [s \in Slots |-> Idle]
  /\ phase = "sleep"
  /\ batch = {}
  /\ checked = None
  /\ faults = 0
  /\ runs = [o \in Operations |-> 0]

-----------------------------------------------------------------------------
\* A write of the status column also refreshes updated_at.
SetStatus(o, value) ==
  /\ status' = [status EXCEPT ![o] = value]
  /\ stale' = stale \ {o}

Send(m) == queue' = [queue EXCEPT ![m] = @ + 1]

\* The messages of a row in the broker, delivered and not acknowledged included.
Copies(o) ==
  MapThenSumSet(LAMBDA a : queue[<<o, a>>], Tries)
    + Cardinality({s \in Slots : slot[s].op = o})

\* A request is open in the backend: it has read the row and not written it.
NoOpenRequest == checked = None /\ \A s \in Slots : ~slot[s].passed

Fault == faults < MaxFaults /\ faults' = faults + 1

-----------------------------------------------------------------------------
(* The backend: enqueue_operation.                                         *)

\* The rows of the Telegram routes carry target_type `node', which WorkerCommand
\* refuses for their kinds.
EnqueueOperation(o) ==
  /\ status[o] = "absent"
  /\ SetStatus(o, "queued")
  /\ unparseable' \in {unparseable, unparseable \cup {o}}
  /\ pub' = [pub EXCEPT ![o] = "publishing"]
  /\ UNCHANGED <<queue, slot, recovery, faults, runs>>

Publish(o) ==
  /\ pub[o] = "publishing"
  /\ Copies(o) < MaxCopies
  /\ pub' = [pub EXCEPT ![o] = "sent"]
  /\ Send(<<o, 0>>)
  /\ UNCHANGED <<unparseable, status, stale, slot, recovery, faults, runs>>

PublishConfirmed(o) ==
  /\ pub[o] = "sent"
  /\ pub' = [pub EXCEPT ![o] = "none"]
  /\ UNCHANGED <<unparseable, status, stale, queue, slot, recovery, faults, runs>>

\* The broker call raises, with or without the message having arrived; the
\* except branch writes the status whatever it has become by then.
PublishFails(o) ==
  /\ pub[o] # "none"
  /\ SetStatus(o, "enqueue_failed")
  /\ pub' = [pub EXCEPT ![o] = "none"]
  /\ UNCHANGED <<unparseable, queue, slot, recovery, faults, runs>>

\* The backend dies after the commit and before the broker has answered.
BackendDies(o) ==
  /\ pub[o] # "none"
  /\ pub' = [pub EXCEPT ![o] = "none"]
  /\ UNCHANGED <<unparseable, status, stale, queue, slot, recovery, faults, runs>>

GrowStale(o) ==
  /\ status[o] \in {"queued", "running"}
  /\ o \notin stale
  /\ stale' = stale \cup {o}
  /\ UNCHANGED <<unparseable, status, pub, queue, slot, recovery, faults, runs>>

-----------------------------------------------------------------------------
(* A consumer task: _handle_message, handle, _dispatch and the endpoints.  *)

Goto(s, pc) == slot' = [slot EXCEPT ![s] = [@ EXCEPT !.pc = pc, !.passed = FALSE]]

Calling(s, call) == slot[s].pc = call /\ ~slot[s].passed

Deliver(s, m) ==
  /\ slot[s] = Idle
  /\ queue[m] > 0
  /\ queue' = [queue EXCEPT ![m] = @ - 1]
  /\ slot' = [slot EXCEPT ![s] =
                [op |-> m[1], tries |-> m[2], pc |-> "start", passed |-> FALSE]]
  /\ UNCHANGED <<unparseable, status, stale, pub, recovery, faults, runs>>

\* The endpoint has read the row and _ensure_status let it through.
EnsureStatus(s) ==
  \E call \in Calls :
    /\ Calling(s, call)
    /\ status[slot[s].op] \in Allowed[call]
    /\ slot' = [slot EXCEPT ![s] = [@ EXCEPT !.passed = TRUE]]
    /\ UNCHANGED <<unparseable, status, stale, pub, queue, recovery, faults, runs>>

\* Where an exception of each call leads: handle's except branch reports the
\* failure, and an exception of that report reaches _handle_message.
OnError == [start |-> "fail", succeed |-> "fail", fail |-> "retry"]

\* Where a 409 leads: a refused start is skipped, the others raise.
OnConflict == [OnError EXCEPT !.start = "ack"]

Conflict(s) ==
  \E call \in Calls :
    /\ Calling(s, call)
    /\ status[slot[s].op] \notin Allowed[call]
    /\ Goto(s, OnConflict[call])
    /\ UNCHANGED <<unparseable, status, stale, pub, queue, recovery, faults, runs>>

Unreached(s) ==
  \E call \in Calls :
    /\ Calling(s, call)
    /\ Fault
    /\ Goto(s, OnError[call])
    /\ UNCHANGED <<unparseable, status, stale, pub, queue, recovery, runs>>

\* The endpoint's commit; the answer reaches the worker or is lost.
Commits(s, call, value) ==
  /\ slot[s].passed
  /\ slot[s].pc = call
  /\ SetStatus(slot[s].op, value)

StartOperation(s) ==
  /\ Commits(s, "start", "running")
  /\ Goto(s, "work")
  /\ runs' = [runs EXCEPT ![slot[s].op] = @ + 1]
  /\ UNCHANGED <<unparseable, pub, queue, recovery, faults>>

SucceedOperation(s) ==
  /\ Commits(s, "succeed", "succeeded")
  /\ Goto(s, "ack")
  /\ UNCHANGED <<unparseable, pub, queue, recovery, faults, runs>>

FailOperation(s) ==
  /\ Commits(s, "fail", "failed")
  /\ Goto(s, "ack")
  /\ UNCHANGED <<unparseable, pub, queue, recovery, faults, runs>>

AnswerLost(s) ==
  /\ Fault
  /\ \/ Commits(s, "start", "running")
     \/ Commits(s, "succeed", "succeeded")
     \/ Commits(s, "fail", "failed")
  /\ Goto(s, OnError[slot[s].pc])
  /\ UNCHANGED <<unparseable, pub, queue, recovery, runs>>

\* The command handler itself ends, or raises.
HandlerEnds(s) ==
  /\ slot[s].pc = "work"
  /\ \E next \in {"succeed", "fail"} : Goto(s, next)
  /\ UNCHANGED <<unparseable, status, stale, pub, queue, recovery, faults, runs>>

\* _retry_or_dead_letter; a poisoned message leaves every queue consumed here.
RetryOrDeadLetter(s) ==
  /\ slot[s].pc = "retry"
  /\ IF slot[s].tries + 1 >= MaxAttempts
       THEN UNCHANGED queue
       ELSE Send(<<slot[s].op, slot[s].tries + 1>>)
  /\ Goto(s, "ack")
  /\ UNCHANGED <<unparseable, status, stale, pub, recovery, faults, runs>>

\* Mutant of Ack: the task forgets to let go of its message.
AckKeeps(s) ==
  /\ slot[s].pc = "ack"
  /\ Goto(s, "idle")
  /\ UNCHANGED <<unparseable, status, stale, pub, queue, recovery, faults, runs>>

Ack(s) ==
  /\ slot[s].pc = "ack"
  /\ slot' = [slot EXCEPT ![s] = Idle]
  /\ UNCHANGED <<unparseable, status, stale, pub, queue, recovery, faults, runs>>

-----------------------------------------------------------------------------
(* The worker process ends and is restarted: the broker redelivers what    *)
(* was not acknowledged.  Requests are short: none is open at that moment. *)

Unacked(m) == {s \in Slots : <<slot[s].op, slot[s].tries>> = m}

Restart ==
  /\ NoOpenRequest
  /\ \A o \in Operations : Copies(o) <= MaxCopies
  /\ queue' = [m \in Messages |-> queue[m] + Cardinality(Unacked(m))]
  /\ slot' = [s \in Slots |-> Idle]
  /\ phase' = "sleep"
  /\ batch' = {}
  /\ checked' = None
  /\ UNCHANGED <<unparseable, status, stale, pub, runs>>

WorkerCrash == Fault /\ Restart

-----------------------------------------------------------------------------
(* recover_stale_operations.  An exception in it ends the worker's task    *)
(* group, and with it the process.                                         *)

Stale(value) == {o \in stale : status[o] = value}

FetchQueued ==
  /\ phase = "sleep"
  /\ phase' = "republish"
  /\ batch' = Stale("queued")
  /\ UNCHANGED <<unparseable, status, stale, pub, queue, slot, checked, faults, runs>>

RepublishStale(o) ==
  /\ phase = "republish"
  /\ o \in batch \ unparseable
  /\ Copies(o) < MaxCopies
  /\ Send(<<o, 0>>)
  /\ batch' = batch \ {o}
  /\ UNCHANGED <<unparseable, status, stale, pub, slot, phase, checked, faults, runs>>

RepublishRaises ==
  /\ phase = "republish"
  /\ batch \cap unparseable # {}
  /\ Restart
  /\ UNCHANGED faults

\* Mutant of FetchRunning: no running row is ever found stale.
FetchRunningNone ==
  /\ phase = "republish"
  /\ batch = {}
  /\ phase' = "timeout"
  /\ batch' = {}
  /\ UNCHANGED <<unparseable, status, stale, pub, queue, slot, checked, faults, runs>>

FetchRunning ==
  /\ phase = "republish"
  /\ batch = {}
  /\ phase' = "timeout"
  /\ batch' = Stale("running")
  /\ UNCHANGED <<unparseable, status, stale, pub, queue, slot, checked, faults, runs>>

TimeoutCheck(o) ==
  /\ phase = "timeout"
  /\ o \in batch
  /\ checked = None
  /\ status[o] = "running"
  /\ checked' = o
  /\ UNCHANGED <<unparseable, status, stale, pub, queue, slot, phase, batch, faults, runs>>

TimeoutOperation(o) ==
  /\ checked = o
  /\ SetStatus(o, "failed_by_timeout")
  /\ checked' = None
  /\ batch' = batch \ {o}
  /\ UNCHANGED <<unparseable, pub, queue, slot, phase, faults, runs>>

\* The row left `running' after it was fetched: the 409 is not caught.
TimeoutRaises ==
  /\ phase = "timeout"
  /\ \E o \in batch : status[o] # "running"
  /\ Restart
  /\ UNCHANGED faults

RecoverySleeps ==
  /\ phase = "timeout"
  /\ batch = {}
  /\ phase' = "sleep"
  /\ UNCHANGED <<unparseable, status, stale, pub, queue, slot, batch, checked, faults, runs>>

-----------------------------------------------------------------------------
Publisher(o) == Publish(o) \/ PublishConfirmed(o)

TaskStep(s) ==
  \/ EnsureStatus(s)
  \/ Conflict(s)
  \/ StartOperation(s)
  \/ SucceedOperation(s)
  \/ FailOperation(s)
  \/ HandlerEnds(s)
  \/ RetryOrDeadLetter(s)
  \/ Ack(s)

RecoveryStep ==
  \/ FetchQueued
  \/ \E o \in Operations : RepublishStale(o)
  \/ RepublishRaises
  \/ FetchRunning
  \/ \E o \in Operations : TimeoutCheck(o)
  \/ \E o \in Operations : TimeoutOperation(o)
  \/ TimeoutRaises
  \/ RecoverySleeps

Next ==
  \/ \E o \in Operations : EnqueueOperation(o)
  \/ \E o \in Operations : Publisher(o)
  \/ \E o \in Operations : PublishFails(o)
  \/ \E o \in Operations : BackendDies(o)
  \/ \E o \in Operations : GrowStale(o)
  \/ \E s \in Slots, m \in Messages : Deliver(s, m)
  \/ \E s \in Slots : TaskStep(s)
  \/ \E s \in Slots : Unreached(s)
  \/ \E s \in Slots : AnswerLost(s)
  \/ WorkerCrash
  \/ RecoveryStep

Spec == Init /\ [][Next]_vars

\* Every loop and task of the two processes runs whenever it can, time passes,
\* and the broker delivers in order, so no waiting message is passed over for ever.
Fairness ==
  /\ \A o \in Operations : WF_vars(Publisher(o)) /\ WF_vars(GrowStale(o))
  /\ \A s \in Slots : WF_vars(TaskStep(s))
  /\ \A m \in Messages : SF_vars(\E s \in Slots : Deliver(s, m))
  /\ WF_vars(RecoveryStep)

FairSpec == Spec /\ Fairness

-----------------------------------------------------------------------------
TypeOK ==
  /\ status \in [Operations -> Contract!Statuses]
  /\ unparseable \subseteq Operations
  /\ stale \subseteq Operations
  /\ pub \in [Operations -> {"none", "publishing", "sent"}]
  /\ queue \in [Messages -> Nat]
  /\ slot \in [Slots -> Task]
  /\ \A s \in Slots : slot[s].op = None <=> slot[s].pc = "idle"
  /\ phase \in {"sleep", "republish", "timeout"}
  /\ batch \subseteq Operations
  /\ checked \in IF phase = "timeout" THEN batch \cup {None} ELSE {None}
  /\ faults \in 0 .. MaxFaults
  /\ runs \in [Operations -> Nat]

\* The command handler is entered at most once for an operation, however often
\* its message is duplicated by the recovery loop, retried, or redelivered after
\* a crash: start_operation answers 409 to every later delivery and _dispatch
\* skips it ('operation already handled').
RunsOnce == \A o \in Operations : runs[o] <= 1

\* On a sequential queue the status column moves only as OperationContract says,
\* whatever requests overlap: the worker's report of an operation is replaced by
\* a timeout or by a publish error, never by another report of the worker's, and
\* no row is queued again or, unless its publish failed, run again.
Implements == Contract!Spec

\* A stale queued row that has no command ends every pass of the recovery loop.
Poisoned == Stale("queued") \cap unparseable # {}

\* Every committed operation ends in a finished status, whatever was lost: a
\* stale queued row is republished and a stale running row is timed out, unless
\* a row without a command stops the recovery of all.
OperationFinishes ==
  \A o \in Operations :
    status[o] \in {"queued", "running"} ~> status[o] \in Contract!Finished \/ Poisoned

-----------------------------------------------------------------------------
(* The inductive invariants.                                               *)

\* A sequential queue: its consumer runs one task at a time.
OneSlot == \A s, t \in Slots : s = t

OpenRequests == \A s \in Slots : slot[s].passed => slot[s].pc \in Calls

\* Entering the handler leaves `queued' behind for good, so the start request
\* that has been let through is the first.
StartedIsNotQueued ==
  \A o \in Operations : runs[o] > 0 => status[o] \notin {"absent", "queued"}

LetThroughOnce ==
  \A s \in Slots :
    slot[s].passed /\ slot[s].pc = "start" => runs[slot[s].op] = 0

RunsInv ==
  /\ TypeOK /\ OpenRequests /\ StartedIsNotQueued
  /\ OneSlot => LetThroughOnce /\ RunsOnce

\* What an open request may find when it writes: the status it was decided on,
\* or what a request that overtook it has left.
Overtakable ==
  [start |-> {"queued", "enqueue_failed"},
   succeed |-> {"running", "failed_by_timeout", "enqueue_failed"},
   fail |-> {"running", "failed_by_timeout", "enqueue_failed"}]

WritesAreRecent ==
  /\ \A s \in Slots : slot[s].passed =>
       /\ status[slot[s].op] \in Overtakable[slot[s].pc]
       /\ slot[s].pc = "start" => checked # slot[s].op
  /\ checked # None =>
       status[checked] \in {"running", "enqueue_failed"} \cup Contract!Reported
  /\ \A o \in Operations : status[o] = "absent" => pub[o] = "none"

ContractInv ==
  /\ TypeOK /\ OpenRequests
  /\ OneSlot => WritesAreRecent
=============================================================================
