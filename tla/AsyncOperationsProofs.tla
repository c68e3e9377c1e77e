------------------------ MODULE AsyncOperationsProofs ------------------------
(* Proofs about AsyncOperations, for any set of operations and of slots. *)
EXTENDS AsyncOperations, FiniteSetTheorems, TLAPS

\* A restart puts every unacknowledged message back and leaves the rows alone.
LEMMA RestartEffect ==
  ASSUME TypeOK, Restart
  PROVE  /\ queue' \in [Messages -> Nat]
         /\ slot' = [s \in Slots |-> Idle]
         /\ phase' = "sleep" /\ batch' = {} /\ checked' = None
         /\ UNCHANGED <<unparseable, status, stale, pub, runs>>
<1>1. ASSUME NEW m \in Messages PROVE queue[m] + Cardinality(Unacked(m)) \in Nat
  <2>1. IsFiniteSet(Unacked(m))
    BY FS_Subset, ConstantsAssumption DEF Unacked
  <2>2. Cardinality(Unacked(m)) \in Nat
    BY <2>1, FS_CardinalityType
  <2> QED
    BY <2>2 DEF TypeOK
<1> QED
  BY <1>1 DEF Restart

\* The values a task record takes.
LEMMA TaskFacts ==
  /\ 0 \in Tries
  /\ Idle \in Task
  /\ \A o \in Operations, a \in Tries :
       [op |-> o, tries |-> a, pc |-> "start", passed |-> FALSE] \in Task
  BY ConstantsAssumption DEF Tries, Idle, Task, Calls

\* The variables have their types initially.
LEMMA TypeInit == Init => TypeOK
<1> SUFFICES ASSUME Init PROVE TypeOK
  OBVIOUS
<1>1. slot \in [Slots -> Task]
  BY TaskFacts DEF Init
<1>2. \A s \in Slots : slot[s].op = None <=> slot[s].pc = "idle"
  BY DEF Init, Idle
<1>3. status \in [Operations -> Contract!Statuses]
  BY DEF Init, Contract!Statuses
<1>4. faults \in 0 .. MaxFaults
  BY ConstantsAssumption DEF Init
<1> QED
  BY <1>1, <1>2, <1>3, <1>4 DEF Init, TypeOK

\* Every step keeps the types.
LEMMA TypeStep == TypeOK /\ [Next]_vars => TypeOK'
<1> SUFFICES ASSUME TypeOK, [Next]_vars PROVE TypeOK'
  OBVIOUS
<1> USE ConstantsAssumption
<1>0. ASSUME NEW s \in Slots, NEW t \in Slots, NEW pc \in {"work", "retry", "ack"} \cup Calls,
             Goto(s, pc), slot[s].pc # "idle"
      PROVE  slot' \in [Slots -> Task] /\ (slot'[t].op = None <=> slot'[t].pc = "idle")
  <2>0. slot[s] \in Task
    BY DEF TypeOK
  <2>1. [slot[s] EXCEPT !.pc = pc, !.passed = FALSE] \in Task
    BY <2>0 DEF Task
  <2> QED
    BY <1>0, <2>1 DEF TypeOK, Goto, Calls
<1>1. ASSUME NEW o \in Operations, EnqueueOperation(o) PROVE TypeOK'
  BY <1>1 DEF EnqueueOperation, SetStatus, TypeOK, recovery, Contract!Statuses, Contract!Finished
<1>2. ASSUME NEW o \in Operations, Publish(o) PROVE TypeOK'
  BY <1>2, TaskFacts DEF Publish, Send, TypeOK, recovery, Messages
<1>3. ASSUME NEW o \in Operations, PublishConfirmed(o) PROVE TypeOK'
  BY <1>3 DEF PublishConfirmed, TypeOK, recovery
<1>4. ASSUME NEW o \in Operations, PublishFails(o) PROVE TypeOK'
  BY <1>4 DEF PublishFails, SetStatus, TypeOK, recovery, Contract!Statuses, Contract!Finished
<1>5. ASSUME NEW o \in Operations, BackendDies(o) PROVE TypeOK'
  BY <1>5 DEF BackendDies, TypeOK, recovery
<1>6. ASSUME NEW o \in Operations, GrowStale(o) PROVE TypeOK'
  BY <1>6 DEF GrowStale, TypeOK, recovery
<1>7. ASSUME NEW s \in Slots, NEW m \in Messages, Deliver(s, m) PROVE TypeOK'
  <2>1. m[1] \in Operations /\ m[2] \in Tries
    BY DEF Messages
  <2>2. slot' \in [Slots -> Task]
    BY <1>7, <2>1, TaskFacts DEF Deliver, TypeOK
  <2>3. \A t \in Slots : slot'[t].op = None <=> slot'[t].pc = "idle"
    BY <1>7, <2>1 DEF Deliver, TypeOK
  <2>4. queue' \in [Messages -> Nat]
    BY <1>7 DEF Deliver, TypeOK
  <2> QED
    BY <1>7, <2>2, <2>3, <2>4 DEF Deliver, TypeOK, recovery
<1>8. ASSUME NEW s \in Slots, EnsureStatus(s) PROVE TypeOK'
  <2>0. slot[s] \in Task
    BY DEF TypeOK
  <2>1. [slot[s] EXCEPT !.passed = TRUE] \in Task
    BY <2>0 DEF Task
  <2> QED
    BY <1>8, <2>1 DEF EnsureStatus, TypeOK, recovery
<1>9. ASSUME NEW s \in Slots, Conflict(s) PROVE TypeOK'
  BY <1>9, <1>0 DEF Conflict, Calling, OnConflict, OnError, Calls, TypeOK, recovery
<1>10. ASSUME NEW s \in Slots, Unreached(s) PROVE TypeOK'
  BY <1>10, <1>0 DEF Unreached, Calling, Fault, OnError, Calls, TypeOK, recovery
<1>11. ASSUME NEW s \in Slots, NEW call \in Calls,
              NEW value \in Contract!Statuses, Commits(s, call, value)
       PROVE  status' \in [Operations -> Contract!Statuses] /\ stale' \subseteq Operations
  BY <1>11 DEF Commits, SetStatus, TypeOK
<1>12. {"running", "succeeded", "failed"} \subseteq Contract!Statuses
  BY DEF Contract!Statuses, Contract!Finished, Contract!Reported
<1>13. ASSUME NEW s \in Slots, StartOperation(s) PROVE TypeOK'
  <2>1. slot[s].op \in Operations
    BY <1>13 DEF StartOperation, Commits, TypeOK, Task
  <2>2. runs' \in [Operations -> Nat]
    BY <1>13, <2>1 DEF StartOperation, TypeOK
  <2> QED
    BY <1>13, <1>0, <1>11, <1>12, <2>2 DEF StartOperation, Commits, TypeOK, recovery, Calls
<1>14. ASSUME NEW s \in Slots, SucceedOperation(s) PROVE TypeOK'
  BY <1>14, <1>0, <1>11, <1>12 DEF SucceedOperation, Commits, TypeOK, recovery, Calls
<1>15. ASSUME NEW s \in Slots, FailOperation(s) PROVE TypeOK'
  BY <1>15, <1>0, <1>11, <1>12 DEF FailOperation, Commits, TypeOK, recovery, Calls
<1>16. ASSUME NEW s \in Slots, AnswerLost(s) PROVE TypeOK'
  <2>1. slot[s].pc \in Calls /\ OnError[slot[s].pc] \in {"fail", "retry"}
    BY <1>16 DEF AnswerLost, Commits, OnError, Calls
  <2> QED
    BY <1>16, <2>1, <1>0, <1>11, <1>12
    DEF AnswerLost, Fault, Commits, TypeOK, recovery, Calls
<1>17. ASSUME NEW s \in Slots, HandlerEnds(s) PROVE TypeOK'
  BY <1>17, <1>0 DEF HandlerEnds, TypeOK, recovery, Calls
<1>18. ASSUME NEW s \in Slots, RetryOrDeadLetter(s) PROVE TypeOK'
  <2>1. slot[s].op \in Operations /\ slot[s].tries \in Tries
    BY <1>18 DEF RetryOrDeadLetter, TypeOK, Task
  <2>2. queue' \in [Messages -> Nat]
    <3>1. CASE slot[s].tries + 1 >= MaxAttempts
      BY <1>18, <3>1 DEF RetryOrDeadLetter, TypeOK
    <3>2. CASE ~(slot[s].tries + 1 >= MaxAttempts)
      <4>1. <<slot[s].op, slot[s].tries + 1>> \in Messages
        BY <2>1, <3>2 DEF Messages, Tries
      <4> QED
        BY <1>18, <3>2, <4>1 DEF RetryOrDeadLetter, Send, TypeOK
    <3> QED
      BY <3>1, <3>2
  <2> QED
    BY <1>18, <1>0, <2>2 DEF RetryOrDeadLetter, TypeOK, recovery, Calls
<1>19. ASSUME NEW s \in Slots, Ack(s) PROVE TypeOK'
  <2>1. slot' \in [Slots -> Task]
    BY <1>19, TaskFacts DEF Ack, TypeOK
  <2>2. \A t \in Slots : slot'[t].op = None <=> slot'[t].pc = "idle"
    BY <1>19 DEF Ack, TypeOK, Idle
  <2> QED
    BY <1>19, <2>1, <2>2 DEF Ack, TypeOK, recovery
<1>20. ASSUME Restart, faults' \in 0 .. MaxFaults PROVE TypeOK'
  <2>1. slot' \in [Slots -> Task]
    BY <1>20, RestartEffect, TaskFacts
  <2>2. \A t \in Slots : slot'[t].op = None <=> slot'[t].pc = "idle"
    BY <1>20, RestartEffect DEF Idle
  <2> QED
    BY <1>20, <2>1, <2>2, RestartEffect DEF TypeOK
<1>21. CASE WorkerCrash
  BY <1>20, <1>21 DEF WorkerCrash, Fault, TypeOK
<1>22. CASE RepublishRaises \/ TimeoutRaises
  BY <1>20, <1>22 DEF RepublishRaises, TimeoutRaises, TypeOK
<1>23. CASE FetchQueued \/ FetchRunning \/ RecoverySleeps
  BY <1>23 DEF FetchQueued, FetchRunning, RecoverySleeps, Stale, TypeOK
<1>24. ASSUME NEW o \in Operations, RepublishStale(o) PROVE TypeOK'
  BY <1>24, TaskFacts DEF RepublishStale, Send, TypeOK, Messages
<1>25. ASSUME NEW o \in Operations, TimeoutCheck(o) PROVE TypeOK'
  BY <1>25 DEF TimeoutCheck, TypeOK
<1>26. ASSUME NEW o \in Operations, TimeoutOperation(o) PROVE TypeOK'
  BY <1>26 DEF TimeoutOperation, SetStatus, TypeOK, Contract!Statuses, Contract!Finished
<1>27. CASE UNCHANGED vars
  BY <1>27 DEF vars, TypeOK
<1> QED
  BY <1>1, <1>2, <1>3, <1>4, <1>5, <1>6, <1>7, <1>8, <1>9, <1>10, <1>13, <1>14,
     <1>15, <1>16, <1>17, <1>18, <1>19, <1>21, <1>22, <1>23, <1>24, <1>25,
     <1>26, <1>27
  DEF Next, Publisher, TaskStep, RecoveryStep

\* Type correctness of the operation lifecycle, for any number of operations,
\* consumer slots, attempts, copies and faults.
THEOREM TypeCorrect == Spec => []TypeOK
  BY TypeInit, TypeStep, PTL DEF Spec

-----------------------------------------------------------------------------
\* What Goto does to the task it moves and to the others.
LEMMA GotoEffect ==
  ASSUME TypeOK, NEW s \in Slots, NEW pc, Goto(s, pc)
  PROVE  /\ slot'[s].pc = pc /\ ~slot'[s].passed /\ slot'[s].op = slot[s].op
         /\ \A t \in Slots \ {s} : slot'[t] = slot[t]
  BY DEF Goto, TypeOK, Task

\* What _ensure_status does to the task whose request it lets through.
LEMMA EnsureEffect ==
  ASSUME TypeOK, NEW s \in Slots, EnsureStatus(s)
  PROVE  /\ slot'[s].passed /\ slot'[s].pc = slot[s].pc /\ slot'[s].op = slot[s].op
         /\ slot[s].pc \in Calls /\ slot[s].op \in Operations
         /\ status[slot[s].op] \in Allowed[slot[s].pc]
         /\ \A t \in Slots \ {s} : slot'[t] = slot[t]
         /\ UNCHANGED <<unparseable, status, stale, pub, queue, recovery, faults, runs>>
<1>1. PICK call \in Calls :
        /\ Calling(s, call)
        /\ status[slot[s].op] \in Allowed[call]
        /\ slot' = [slot EXCEPT ![s] = [@ EXCEPT !.passed = TRUE]]
        /\ UNCHANGED <<unparseable, status, stale, pub, queue, recovery, faults, runs>>
  BY DEF EnsureStatus
<1> QED
  BY <1>1 DEF Calling, TypeOK, Task, Calls

\* The effect of an action that only moves one task on, closing its request.
TaskMoves(s) ==
  /\ slot[s].pc # "idle"
  /\ ~slot'[s].passed /\ slot'[s].op \in {slot[s].op, None}
  /\ \A t \in Slots \ {s} : slot'[t] = slot[t]

\* Every action of a task other than EnsureStatus is such a move.
LEMMA TaskEffect ==
  ASSUME TypeOK, NEW s \in Slots,
         \/ Conflict(s) \/ Unreached(s) \/ StartOperation(s)
         \/ SucceedOperation(s) \/ FailOperation(s) \/ AnswerLost(s)
         \/ HandlerEnds(s) \/ RetryOrDeadLetter(s) \/ Ack(s)
  PROVE  TaskMoves(s) /\ UNCHANGED <<pub, recovery>>
<1>1. CASE \/ Conflict(s) \/ Unreached(s)
  BY <1>1, GotoEffect DEF Conflict, Unreached, Calling, Calls, TaskMoves
<1>2. CASE StartOperation(s) \/ SucceedOperation(s) \/ FailOperation(s) \/ AnswerLost(s)
  BY <1>2, GotoEffect
  DEF StartOperation, SucceedOperation, FailOperation, AnswerLost, Commits, TaskMoves
<1>3. CASE HandlerEnds(s) \/ RetryOrDeadLetter(s)
  BY <1>3, GotoEffect DEF HandlerEnds, RetryOrDeadLetter, TaskMoves
<1>4. CASE Ack(s)
  BY <1>4 DEF Ack, Idle, TypeOK, TaskMoves
<1> QED
  BY <1>1, <1>2, <1>3, <1>4

\* What a delivery does: one idle task holds the message, nothing is open in it.
LEMMA DeliverEffect ==
  ASSUME TypeOK, NEW s \in Slots, NEW m \in Messages, Deliver(s, m)
  PROVE  /\ ~slot'[s].passed /\ slot'[s].op = m[1] /\ queue[m] > 0
         /\ \A t \in Slots \ {s} : slot'[t] = slot[t]
         /\ UNCHANGED <<status, stale, pub, recovery, runs>>
  BY DEF Deliver, TypeOK

\* The actions outside the tasks that leave the tasks and the history alone.
Elsewhere ==
  \/ \E o \in Operations :
       \/ EnqueueOperation(o) \/ Publish(o) \/ PublishConfirmed(o)
       \/ PublishFails(o) \/ BackendDies(o) \/ GrowStale(o)
       \/ RepublishStale(o) \/ TimeoutCheck(o) \/ TimeoutOperation(o)
  \/ FetchQueued \/ FetchRunning \/ RecoverySleeps

\* Next, sorted by what its actions do to the tasks.
LEMMA StepKinds ==
  ASSUME [Next]_vars
  PROVE  \/ Elsewhere
         \/ \E s \in Slots, m \in Messages : Deliver(s, m)
         \/ \E s \in Slots : EnsureStatus(s)
         \/ \E s \in Slots :
              \/ Conflict(s) \/ Unreached(s) \/ StartOperation(s)
              \/ SucceedOperation(s) \/ FailOperation(s) \/ AnswerLost(s)
              \/ HandlerEnds(s) \/ RetryOrDeadLetter(s) \/ Ack(s)
         \/ Restart
         \/ UNCHANGED vars
  BY DEF Next, Publisher, TaskStep, RecoveryStep, Elsewhere, WorkerCrash,
         RepublishRaises, TimeoutRaises

\* Elsewhere leaves the tasks and the history alone.
LEMMA ElsewhereEffect == Elsewhere => UNCHANGED <<slot, runs>>
  BY DEF Elsewhere, EnqueueOperation, Publish, PublishConfirmed, PublishFails,
         BackendDies, GrowStale, RepublishStale, TimeoutCheck, TimeoutOperation,
         FetchQueued, FetchRunning, RecoverySleeps

\* Open requests stay inside the lifecycle calls.
LEMMA OpenRequestsStep ==
  ASSUME TypeOK, OpenRequests, [Next]_vars
  PROVE  OpenRequests'
<1>1. CASE Elsewhere \/ UNCHANGED vars
  BY <1>1, ElsewhereEffect DEF OpenRequests, vars
<1>2. ASSUME NEW s \in Slots, NEW m \in Messages, Deliver(s, m) PROVE OpenRequests'
  BY <1>2, DeliverEffect DEF OpenRequests
<1>3. ASSUME NEW s \in Slots, EnsureStatus(s) PROVE OpenRequests'
  BY <1>3, EnsureEffect DEF OpenRequests
<1>4. ASSUME NEW s \in Slots,
             \/ Conflict(s) \/ Unreached(s) \/ StartOperation(s)
             \/ SucceedOperation(s) \/ FailOperation(s) \/ AnswerLost(s)
             \/ HandlerEnds(s) \/ RetryOrDeadLetter(s) \/ Ack(s)
      PROVE  OpenRequests'
  BY <1>4, TaskEffect DEF OpenRequests, TaskMoves
<1>5. CASE Restart
  BY <1>5, RestartEffect DEF OpenRequests, Idle
<1> QED
  BY <1>1, <1>2, <1>3, <1>4, <1>5, StepKinds

-----------------------------------------------------------------------------
\* Who writes the status column, and what.
LEMMA StatusWrites ==
  ASSUME TypeOK, [Next]_vars, NEW o \in Operations, status'[o] # status[o]
  PROVE  \/ status[o] = "absent" /\ status'[o] = "queued"
         \/ status'[o] \in {"running", "succeeded", "failed", "failed_by_timeout",
                            "enqueue_failed"}
<1>1. CASE Elsewhere
  BY <1>1 DEF Elsewhere, EnqueueOperation, Publish, PublishConfirmed, PublishFails,
         BackendDies, GrowStale, RepublishStale, TimeoutCheck, TimeoutOperation,
         FetchQueued, FetchRunning, RecoverySleeps, SetStatus, TypeOK
<1>2. ASSUME NEW s \in Slots,
             \/ Conflict(s) \/ Unreached(s) \/ StartOperation(s)
             \/ SucceedOperation(s) \/ FailOperation(s) \/ AnswerLost(s)
             \/ HandlerEnds(s) \/ RetryOrDeadLetter(s) \/ Ack(s)
      PROVE  status'[o] \in {"running", "succeeded", "failed"}
  BY <1>2 DEF Conflict, Unreached, StartOperation, SucceedOperation, FailOperation,
         AnswerLost, HandlerEnds, RetryOrDeadLetter, Ack, Commits, SetStatus, TypeOK
<1> QED
  BY <1>1, <1>2, StepKinds, DeliverEffect, EnsureEffect, RestartEffect DEF vars

\* The history grows only when a start request that was let through commits.
LEMMA RunsGrow ==
  ASSUME TypeOK, [Next]_vars
  PROVE  \/ runs' = runs
         \/ \E s \in Slots :
              /\ StartOperation(s)
              /\ slot[s].passed /\ slot[s].pc = "start" /\ slot[s].op \in Operations
              /\ runs' = [runs EXCEPT ![slot[s].op] = @ + 1]
              /\ status'[slot[s].op] = "running"
<1>1. ASSUME NEW s \in Slots,
             \/ Conflict(s) \/ Unreached(s)
             \/ SucceedOperation(s) \/ FailOperation(s) \/ AnswerLost(s)
             \/ HandlerEnds(s) \/ RetryOrDeadLetter(s) \/ Ack(s)
      PROVE  runs' = runs
  BY <1>1 DEF Conflict, Unreached, SucceedOperation, FailOperation,
         AnswerLost, HandlerEnds, RetryOrDeadLetter, Ack
<1>2. ASSUME NEW s \in Slots, StartOperation(s)
      PROVE  /\ slot[s].passed /\ slot[s].pc = "start" /\ slot[s].op \in Operations
             /\ runs' = [runs EXCEPT ![slot[s].op] = @ + 1]
             /\ status'[slot[s].op] = "running"
  BY <1>2 DEF StartOperation, Commits, SetStatus, TypeOK, Task
<1> QED
  BY <1>1, <1>2, StepKinds, ElsewhereEffect, DeliverEffect, EnsureEffect,
     RestartEffect DEF vars

\* RunsInv is inductive.
LEMMA RunsStep ==
  ASSUME RunsInv, [Next]_vars
  PROVE  RunsInv'
<1> USE DEF RunsInv
<1>1. TypeOK' /\ OpenRequests'
  BY TypeStep, OpenRequestsStep
<1>2. StartedIsNotQueued'
  <2> SUFFICES ASSUME NEW o \in Operations, runs'[o] > 0
               PROVE  status'[o] \notin {"absent", "queued"}
    BY DEF StartedIsNotQueued
  <2>1. CASE runs[o] > 0
    BY <2>1, StatusWrites DEF StartedIsNotQueued
  <2>2. CASE ~(runs[o] > 0)
    BY <2>2, RunsGrow DEF TypeOK
  <2> QED
    BY <2>1, <2>2
<1>3. ASSUME OneSlot PROVE RunsOnce'
  <2>1. CASE runs' = runs
    BY <1>3, <2>1 DEF RunsOnce
  <2>2. ASSUME NEW s \in Slots,
               slot[s].passed, slot[s].pc = "start", slot[s].op \in Operations,
               runs' = [runs EXCEPT ![slot[s].op] = @ + 1]
        PROVE  RunsOnce'
    BY <1>3, <2>2 DEF RunsOnce, LetThroughOnce, TypeOK
  <2> QED
    BY <2>1, <2>2, RunsGrow
<1>4. ASSUME OneSlot PROVE LetThroughOnce'
  <2> SUFFICES ASSUME NEW t \in Slots, slot'[t].passed, slot'[t].pc = "start"
               PROVE  runs'[slot'[t].op] = 0
    BY DEF LetThroughOnce
  <2>1. CASE Elsewhere \/ UNCHANGED vars
    BY <1>4, <2>1, ElsewhereEffect DEF vars, LetThroughOnce
  <2>2. ASSUME NEW s \in Slots, NEW m \in Messages, Deliver(s, m)
        PROVE  runs'[slot'[t].op] = 0
    BY <1>4, <2>2, DeliverEffect DEF LetThroughOnce
  <2>3. ASSUME NEW s \in Slots, EnsureStatus(s) PROVE runs'[slot'[t].op] = 0
    <3>1. CASE t # s
      BY <1>4, <2>3, <3>1, EnsureEffect DEF LetThroughOnce
    <3>2. CASE t = s
      <4>1. status[slot[s].op] = "queued" /\ slot[s].op \in Operations
        BY <2>3, <3>2, EnsureEffect DEF Allowed
      <4>2. runs[slot[s].op] = 0
        BY <4>1 DEF StartedIsNotQueued, TypeOK
      <4> QED
        BY <2>3, <3>2, <4>2, EnsureEffect
    <3> QED
      BY <3>1, <3>2
  <2>4. ASSUME NEW s \in Slots,
               \/ Conflict(s) \/ Unreached(s) \/ StartOperation(s)
               \/ SucceedOperation(s) \/ FailOperation(s) \/ AnswerLost(s)
               \/ HandlerEnds(s) \/ RetryOrDeadLetter(s) \/ Ack(s)
        PROVE  runs'[slot'[t].op] = 0
    <3>1. t # s /\ slot'[t] = slot[t]
      BY <2>4, TaskEffect DEF TaskMoves
    <3>2. CASE runs' = runs
      BY <1>4, <3>1, <3>2 DEF LetThroughOnce
    <3>3. CASE runs' # runs
      <4>1. PICK r \in Slots : slot[r].passed /\ StartOperation(r)
        BY <3>3, RunsGrow
      <4>2. r = t
        BY <1>4 DEF OneSlot
      <4>3. ~slot'[t].passed
        BY <4>1, <4>2, TaskEffect DEF TaskMoves
      <4> QED
        BY <4>3
    <3> QED
      BY <3>2, <3>3
  <2>5. CASE Restart
    BY <2>5, RestartEffect DEF Idle
  <2> QED
    BY <2>1, <2>2, <2>3, <2>4, <2>5, StepKinds
<1> QED
  BY <1>1, <1>2, <1>3, <1>4 DEF OneSlot

\* The handler of an operation is entered at most once on the sequential queues,
\* for any number of duplicates, retries, crashes and lost answers, and whatever
\* lifecycle requests overlap.
THEOREM HandlerRunsOnce == Spec /\ OneSlot => []RunsOnce
<1>1. Init => RunsInv
  <2> SUFFICES ASSUME Init PROVE RunsInv
    OBVIOUS
  <2>1. \A s \in Slots : ~slot[s].passed
    BY DEF Init, Idle
  <2>2. \A o \in Operations : runs[o] = 0
    BY DEF Init
  <2> QED
    BY TypeInit, <2>1, <2>2
    DEF RunsInv, OpenRequests, StartedIsNotQueued, LetThroughOnce, RunsOnce
<1>2. RunsInv /\ [Next]_vars => RunsInv'
  BY RunsStep
<1>3. Spec => []RunsInv
  BY <1>1, <1>2, PTL DEF Spec
<1>4. CASE OneSlot
  <2>1. RunsInv => RunsOnce
    BY <1>4 DEF RunsInv
  <2> QED
    BY <1>3, <2>1, PTL
<1>5. CASE ~OneSlot
  BY <1>5
<1> QED
  BY <1>4, <1>5

-----------------------------------------------------------------------------
\* WritesAreRecent holds initially.
LEMMA RecentInit == Init => WritesAreRecent
  BY DEF Init, Idle, WritesAreRecent

\* A commit of a task's request, with the status it writes.
LEMMA CommitKinds ==
  ASSUME NEW s \in Slots,
         StartOperation(s) \/ SucceedOperation(s) \/ FailOperation(s) \/ AnswerLost(s)
  PROVE  \E value \in {"running"} \cup Contract!Reported :
           /\ <<slot[s].pc, value>> \in {<<"start", "running">>,
                <<"succeed", "succeeded">>, <<"fail", "failed">>}
           /\ slot[s].passed
           /\ SetStatus(slot[s].op, value)
  BY DEF StartOperation, SucceedOperation, FailOperation, AnswerLost, Commits,
     Contract!Reported

\* On a sequential queue every write finds what WritesAreRecent says.
LEMMA RecentStep ==
  ASSUME OneSlot, TypeOK, OpenRequests, WritesAreRecent, [Next]_vars
  PROVE  WritesAreRecent'
<1>0. \A s \in Slots : slot[s].passed => slot[s].op \in Operations
  BY DEF OpenRequests, TypeOK, Task, Calls
<1>1. ASSUME NEW o \in Operations, EnqueueOperation(o) PROVE WritesAreRecent'
  <2>1. status[o] = "absent" /\ checked # o /\ status'[o] = "queued"
    BY <1>1, ConstantsAssumption
    DEF EnqueueOperation, SetStatus, WritesAreRecent, TypeOK, Contract!Reported
  <2>2. \A s \in Slots : slot[s].passed => slot[s].op # o
    BY <1>0, <2>1 DEF WritesAreRecent, OpenRequests, Overtakable, Calls
  <2>3. \A p \in Operations \ {o} : status'[p] = status[p] /\ pub'[p] = pub[p]
    BY <1>1 DEF EnqueueOperation, SetStatus, TypeOK
  <2>4. slot' = slot /\ checked' = checked /\ (checked # None => checked \in Operations)
    BY <1>1 DEF EnqueueOperation, recovery, TypeOK
  <2> QED
    BY <1>0, <2>1, <2>2, <2>3, <2>4 DEF WritesAreRecent
<1>2. ASSUME NEW o \in Operations, PublishFails(o) PROVE WritesAreRecent'
  <2>1. /\ status' = [status EXCEPT ![o] = "enqueue_failed"]
        /\ slot' = slot /\ checked' = checked
        /\ pub'[o] = "none" /\ \A p \in Operations \ {o} : pub'[p] = pub[p]
    BY <1>2 DEF PublishFails, SetStatus, recovery, TypeOK
  <2>2. \A s \in Slots : slot[s].passed => "enqueue_failed" \in Overtakable[slot[s].pc]
    BY DEF OpenRequests, Calls, Overtakable
  <2>3. \A s \in Slots : slot[s].passed =>
          status'[slot[s].op] \in {status[slot[s].op], "enqueue_failed"}
    BY <1>0, <2>1 DEF TypeOK
  <2> QED
    BY <2>1, <2>2, <2>3 DEF WritesAreRecent, TypeOK
<1>3. ASSUME NEW o \in Operations, TimeoutCheck(o) PROVE WritesAreRecent'
  <2>1. /\ status[o] = "running" /\ checked' = o
        /\ UNCHANGED <<status, slot, pub>>
    BY <1>3 DEF TimeoutCheck
  <2>2. \A s \in Slots : slot[s].passed /\ slot[s].pc = "start" => slot[s].op # o
    BY <2>1 DEF WritesAreRecent, Overtakable
  <2> QED
    BY <2>1, <2>2 DEF WritesAreRecent
<1>4. ASSUME NEW o \in Operations, TimeoutOperation(o) PROVE WritesAreRecent'
  <2>1. /\ status' = [status EXCEPT ![o] = "failed_by_timeout"]
        /\ UNCHANGED <<slot, pub>> /\ checked = o /\ checked' = None
    BY <1>4 DEF TimeoutOperation, SetStatus
  <2>2. ASSUME NEW s \in Slots, slot[s].passed
        PROVE  /\ status'[slot[s].op] \in Overtakable[slot[s].pc]
               /\ None # slot[s].op
    <3>1. slot[s].op \in Operations /\ None # slot[s].op
      BY <1>0, <2>2, ConstantsAssumption
    <3>2. CASE slot[s].op = o
      BY <2>1, <2>2, <3>1, <3>2
      DEF WritesAreRecent, OpenRequests, Calls, Overtakable, TypeOK
    <3>3. CASE slot[s].op # o
      BY <2>1, <2>2, <3>1, <3>3 DEF WritesAreRecent, TypeOK
    <3> QED
      BY <3>1, <3>2, <3>3
  <2> QED
    BY <2>1, <2>2 DEF WritesAreRecent, TypeOK
<1>5. CASE \/ \E o \in Operations : \/ Publish(o) \/ PublishConfirmed(o)
                                    \/ BackendDies(o) \/ GrowStale(o)
                                    \/ RepublishStale(o)
           \/ FetchQueued \/ FetchRunning \/ RecoverySleeps \/ UNCHANGED vars
  <2>1. UNCHANGED <<slot, status, checked>>
    BY <1>5 DEF Publish, PublishConfirmed, BackendDies, GrowStale, RepublishStale,
       FetchQueued, FetchRunning, RecoverySleeps, vars, recovery
  <2>2. \A o \in Operations : pub[o] = "none" => pub'[o] = "none"
    BY <1>5 DEF Publish, PublishConfirmed, BackendDies, GrowStale, RepublishStale,
       FetchQueued, FetchRunning, RecoverySleeps, vars, TypeOK
  <2> QED
    BY <2>1, <2>2 DEF WritesAreRecent
<1>6. ASSUME NEW s \in Slots, NEW m \in Messages, Deliver(s, m) PROVE WritesAreRecent'
  BY <1>6, DeliverEffect DEF WritesAreRecent, recovery
<1>7. ASSUME NEW s \in Slots, EnsureStatus(s) PROVE WritesAreRecent'
  <2>1. /\ status[slot[s].op] \in Overtakable[slot[s].pc]
        /\ slot[s].pc = "start" => checked # slot[s].op
    BY <1>7, EnsureEffect, ConstantsAssumption
    DEF Allowed, Overtakable, Calls, WritesAreRecent, Contract!Reported
  <2> QED
    BY <1>7, <2>1, EnsureEffect DEF WritesAreRecent, recovery
<1>8. ASSUME NEW s \in Slots,
             StartOperation(s) \/ SucceedOperation(s) \/ FailOperation(s) \/ AnswerLost(s)
      PROVE  WritesAreRecent'
  <2>1. PICK value \in {"running"} \cup Contract!Reported :
          /\ <<slot[s].pc, value>> \in {<<"start", "running">>,
               <<"succeed", "succeeded">>, <<"fail", "failed">>}
          /\ slot[s].passed
          /\ SetStatus(slot[s].op, value)
    BY <1>8, CommitKinds
  <2>2. \A t \in Slots : ~slot'[t].passed
    BY <1>8, TaskEffect DEF TaskMoves, OneSlot
  <2>3. checked' = checked /\ pub' = pub
    BY <1>8, TaskEffect DEF recovery
  <2>4. slot[s].op \in Operations /\ status' = [status EXCEPT ![slot[s].op] = value]
    BY <1>0, <2>1 DEF SetStatus
  <2>5. status[slot[s].op] # "absent" /\ value # "absent"
    BY <2>1 DEF WritesAreRecent, Overtakable, Contract!Reported
  <2> QED
    BY <2>1, <2>2, <2>3, <2>4, <2>5 DEF WritesAreRecent, TypeOK
<1>9. ASSUME NEW s \in Slots,
             \/ Conflict(s) \/ Unreached(s) \/ HandlerEnds(s)
             \/ RetryOrDeadLetter(s) \/ Ack(s)
      PROVE  WritesAreRecent'
  <2>1. status' = status
    BY <1>9 DEF Conflict, Unreached, HandlerEnds, RetryOrDeadLetter, Ack
  <2> QED
    BY <1>9, <2>1, TaskEffect DEF TaskMoves, WritesAreRecent, recovery
<1>10. CASE Restart
  BY <1>10, RestartEffect DEF Idle, WritesAreRecent
<1> QED
  BY <1>1, <1>2, <1>3, <1>4, <1>5, <1>6, <1>7, <1>8, <1>9, <1>10, StepKinds
  DEF Elsewhere

\* Every step is a step of OperationContract or leaves the status column alone.
LEMMA StepRefines ==
  ASSUME OneSlot, TypeOK, OpenRequests, WritesAreRecent, [Next]_vars
  PROVE  [Contract!Next]_status
<1> USE DEF Contract!Next, Contract!Listed, Contract!Overtaken, Contract!Reported,
        Contract!Statuses, Contract!Finished
<1>1. ASSUME NEW o \in Operations, EnqueueOperation(o) PROVE Contract!Next
  BY <1>1 DEF EnqueueOperation, SetStatus
<1>2. ASSUME NEW o \in Operations, PublishFails(o) PROVE Contract!Next
  <2>1. status[o] \in Contract!Statuses \ {"absent"}
    BY <1>2 DEF PublishFails, WritesAreRecent, TypeOK
  <2> QED
    BY <1>2, <2>1 DEF PublishFails, SetStatus
<1>3. ASSUME NEW o \in Operations, TimeoutOperation(o) PROVE Contract!Next
  <2>1. status[o] \in {"running", "enqueue_failed"} \cup Contract!Reported
    BY <1>3, ConstantsAssumption DEF TimeoutOperation, WritesAreRecent
  <2> QED
    BY <1>3, <2>1 DEF TimeoutOperation, SetStatus
<1>4. ASSUME NEW s \in Slots,
             StartOperation(s) \/ SucceedOperation(s) \/ FailOperation(s) \/ AnswerLost(s)
      PROVE  Contract!Next
  <2>1. PICK value \in {"running"} \cup Contract!Reported :
          /\ <<slot[s].pc, value>> \in {<<"start", "running">>,
               <<"succeed", "succeeded">>, <<"fail", "failed">>}
          /\ slot[s].passed
          /\ SetStatus(slot[s].op, value)
    BY <1>4, CommitKinds
  <2>2. slot[s].op \in Operations
    BY <2>1 DEF OpenRequests, TypeOK, Task, Calls
  <2>3. <<status[slot[s].op], value>> \in Contract!Listed \cup Contract!Overtaken
    BY <2>1 DEF WritesAreRecent, Overtakable
  <2> QED
    BY <2>1, <2>2, <2>3 DEF SetStatus
<1>5. CASE \/ \E o \in Operations : \/ Publish(o) \/ PublishConfirmed(o)
                                    \/ BackendDies(o) \/ GrowStale(o)
                                    \/ RepublishStale(o) \/ TimeoutCheck(o)
           \/ \E s \in Slots : \/ Conflict(s) \/ Unreached(s) \/ HandlerEnds(s)
                               \/ RetryOrDeadLetter(s) \/ Ack(s)
           \/ FetchQueued \/ FetchRunning \/ RecoverySleeps \/ UNCHANGED vars
  BY <1>5 DEF Publish, PublishConfirmed, BackendDies, GrowStale, RepublishStale,
     TimeoutCheck, Conflict, Unreached, HandlerEnds, RetryOrDeadLetter, Ack,
     FetchQueued, FetchRunning, RecoverySleeps, vars
<1> QED
  BY <1>1, <1>2, <1>3, <1>4, <1>5, StepKinds, DeliverEffect, EnsureEffect,
     RestartEffect DEF Elsewhere

\* On a sequential queue the backend, the broker and the worker together implement
\* OperationContract, for any number of operations, attempts, copies and faults,
\* and whatever lifecycle requests and publish errors overlap.
THEOREM ImplementsContract == Spec /\ OneSlot => Implements
<1>1. Init => ContractInv
  <2> SUFFICES ASSUME Init PROVE ContractInv
    OBVIOUS
  <2>1. \A s \in Slots : ~slot[s].passed
    BY DEF Init, Idle
  <2> QED
    BY <2>1, TypeInit, RecentInit DEF ContractInv, OpenRequests
<1>2. ContractInv /\ [Next]_vars => ContractInv'
  BY TypeStep, OpenRequestsStep, RecentStep DEF ContractInv, OneSlot
<1>3. Spec => []ContractInv
  BY <1>1, <1>2, PTL DEF Spec
<1>4. CASE OneSlot
  <2>1. Init => Contract!Init
    BY DEF Init, Contract!Init
  <2>2. ContractInv /\ [Next]_vars => [Contract!Next]_status
    BY <1>4, StepRefines DEF ContractInv
  <2> QED
    BY <1>3, <2>1, <2>2, PTL DEF Spec, Implements, Contract!Spec
<1>5. CASE ~OneSlot
  BY <1>5
<1> QED
  BY <1>4, <1>5
=============================================================================
