------------------------ MODULE TelegramProxyProofs ------------------------
(***************************************************************************)
(* The safety of the Telegram proxy, proved for any number of nodes,       *)
(* requests and faults.                                                    *)
(***************************************************************************)
EXTENDS TelegramProxy, TLAPS

-----------------------------------------------------------------------------
(* The queue.                                                              *)

\* A message of the sequence q is for node n.
For(q, n) == \E i \in 1..Len(q) : q[i].node = n

\* A message that is published is behind the others.
LEMMA AppendFor ==
    ASSUME NEW q \in Seq(Messages), NEW m \in Messages
    PROVE  /\ Append(q, m) \in Seq(Messages) /\ Append(q, m) # q
           /\ \A n \in Nodes : For(Append(q, m), n) <=> For(q, n) \/ m.node = n
<1>1. Append(q, m) \in Seq(Messages) /\ Len(Append(q, m)) = Len(q) + 1
  OBVIOUS
<1>2. /\ \A i \in 1..Len(q) : Append(q, m)[i] = q[i]
      /\ Append(q, m)[Len(q) + 1] = m
  OBVIOUS
<1>3. Append(q, m) # q
  BY <1>1
<1>4. \A n \in Nodes : For(Append(q, m), n) <=> For(q, n) \/ m.node = n
  <2>1. \A i \in 1..(Len(q) + 1) : i \in 1..Len(q) \/ i = Len(q) + 1
    OBVIOUS
  <2>2. Len(q) + 1 \in 1..(Len(q) + 1) /\ \A i \in 1..Len(q) : i \in 1..(Len(q) + 1)
    OBVIOUS
  <2> QED
    BY <1>1, <1>2, <2>1, <2>2 DEF For
<1> QED
  BY <1>1, <1>3, <1>4

\* The first message is taken.
LEMMA TailFor ==
    ASSUME NEW q \in Seq(Messages), q # <<>>
    PROVE  /\ Head(q) \in Messages /\ Tail(q) \in Seq(Messages)
           /\ \A n \in Nodes : For(q, n) <=> For(Tail(q), n) \/ Head(q).node = n
BY DEF For

-----------------------------------------------------------------------------
(* Requests of the agent.                                                  *)

\* A job that waits, and its request.
LEMMA Waiting ==
    ASSUME TypeOK, req["job"] # None
    PROVE  job \in Jobs /\ job.phase = "wait" /\ req["job"].node = job.msg.node
BY DEF TypeOK

\* A request goes on to another step.
LEMMA GotoShape ==
    ASSUME TypeOK, NEW w \in Whose, req[w] # None, NEW s \in Steps,
           req' = [req EXCEPT ![w].step = s]
    PROVE  /\ req' \in [Whose -> Requests \cup {None}]
           /\ req'[w] # None
           /\ req'[w].step = s /\ req'[w].node = req[w].node /\ req'[w].version = req[w].version
           /\ \A x \in Whose \ {w} : req'[x] = req[x]
<1>1. req[w] \in Requests /\ req \in [Whose -> Requests \cup {None}]
  BY DEF TypeOK
<1>2. req'[w] = [req[w] EXCEPT !.step = s]
  BY <1>1
<1>3. /\ req'[w] \in Requests /\ req'[w].step = s
      /\ req'[w].node = req[w].node /\ req'[w].version = req[w].version
  BY <1>1, <1>2 DEF Requests
<1>4. req'[w] # None
  BY <1>3, NoneAssumption
<1>5. \A x \in Whose \ {w} : req'[x] = req[x]
  BY <1>1
<1>6. req' \in [Whose -> Requests \cup {None}]
  BY <1>1, <1>2, <1>3
<1> QED
  BY <1>3, <1>4, <1>5, <1>6

\* A request ends with a result.
LEMMA AnswerShape ==
    ASSUME TypeOK, NEW w \in Whose, req[w] # None,
           NEW result \in {"ready", "disabled", "failed"}, Answer(w, result)
    PROVE  /\ req' \in [Whose -> Requests \cup {None}]
           /\ req'[w] = None /\ \A x \in Whose \ {w} : req'[x] = req[x]
           /\ w = "left" => job' = job
           /\ w = "job" => /\ job' \in Jobs /\ job' # None
                           /\ job'.phase = "report" /\ job'.result = result
                           /\ job'.msg = job.msg /\ job'.version = job.version
<1>1. req' = [req EXCEPT ![w] = None] /\ req \in [Whose -> Requests \cup {None}]
  BY DEF TypeOK, Answer
<1>2. CASE w = "job"
  <2>1. job' = [job EXCEPT !.phase = "report", !.result = result] /\ job \in Jobs
    BY <1>2, Waiting DEF Answer
  <2>2. /\ job' \in Jobs /\ job'.phase = "report" /\ job'.result = result
        /\ job'.msg = job.msg /\ job'.version = job.version
    BY <2>1 DEF Jobs
  <2> QED
    BY <1>1, <1>2, <2>2, NoneAssumption
<1>3. CASE w = "left"
  BY <1>1, <1>3 DEF Answer
<1> QED
  BY <1>2, <1>3 DEF Whose

\* What waits for a node depends on the queues and on the message of the job.
LEMMA SamePending ==
    ASSUME ProxyInv, UNCHANGED <<settings, queue, delayed, unapplied>>,
           job = None <=> job' = None,
           job # None => job'.msg = job.msg /\ job'.version = job.version
    PROVE  /\ OutdatedIsFollowed'
           /\ \A n \in Nodes : Pending(n)' <=> Pending(n)
<1>1. UNCHANGED <<enabled, primary, version, queue, delayed, unapplied>>
  BY DEF settings
<1>2. \A n \in Nodes : Queued(n)' <=> Queued(n)
  BY <1>1 DEF Queued
<1>3. \A n \in Nodes : Pending(n)' <=> Pending(n)
  BY <1>1 DEF Pending
<1>4. OutdatedIsFollowed'
  <2> QED
    BY <1>1, <1>2 DEF ProxyInv, TypeOK, OutdatedIsFollowed, Applied
<1> QED
  BY <1>3, <1>4

\* A step on a node that has a job pending, or is marked, does not disturb the link.
LEMMA OtherNodes ==
    ASSUME ProxyInv, UNCHANGED <<settings, state, unapplied, unreported>>, NEW n \in Nodes,
           \A k \in Nodes : Pending(k)' <=> Pending(k),
           Pending(n) \/ n \in excused',
           \A k \in Nodes \ {n} : /\ file'[k] = file[k] /\ proc'[k] = proc[k]
                                  /\ k \in excused' <=> k \in excused
    PROVE  ReadyIsCurrent'
<1>1. UNCHANGED <<enabled, primary, version, state, unapplied, unreported>>
  BY DEF settings
<1>2. SUFFICES ASSUME Applied', primary \notin excused' \cup unreported, ~Pending(primary)',
                      state[primary] = "ready"
               PROVE  Serves(primary, version)'
  BY <1>1 DEF ReadyIsCurrent
<1>3. Applied /\ primary \in Nodes
  BY <1>1, <1>2 DEF Applied, ProxyInv, TypeOK
<1>4. ~Pending(primary)
  BY <1>1, <1>2, <1>3
<1>5. primary # n
  BY <1>2, <1>4
<1>6. Serves(primary, version)
  BY <1>2, <1>3, <1>4, <1>5 DEF ProxyInv, ReadyIsCurrent
<1> QED
  BY <1>1, <1>3, <1>5, <1>6 DEF Serves

\* A step of the handler of w leaves its node with the file f and the process p, and
\* marked unless the request is a job's and alone on the node.
HandlerStep(w, f, p) ==
    LET n == req[w].node IN
    /\ req[w] # None /\ f \in Versions /\ p \in Versions
    /\ UNCHANGED <<settings, state, queue, delayed, unapplied, unreported, asked>>
    /\ faults' \in 0..MaxFaults
    /\ file' = [file EXCEPT ![n] = f] /\ proc' = [proc EXCEPT ![n] = p]
    /\ excused' \in {excused, excused \cup {n}, excused \ {n}}
    /\ n \notin excused' => w = "job" /\ Alone(w) /\ (p # 0 => f # 0)

\* A handler that goes on to another step keeps the invariant.
LEMMA GotoKeeps ==
    ASSUME ProxyInv, NEW w \in Whose, NEW f, NEW p, HandlerStep(w, f, p),
           NEW s \in Steps, Goto(w, s),
           s \in {"stop", "remove"} <=> req[w].step \in {"stop", "remove"},
           req[w].node \notin excused' =>
               /\ s \in {"status", "restart", "start", "answer"} => f = req[w].version
               /\ s \in {"start", "remove"} => p = 0
               /\ s = "answer" => p = req[w].version
    PROVE  ProxyInv'
<1> DEFINE n == req[w].node
<1>0. TypeOK /\ req[w] \in Requests /\ n \in Nodes
  BY DEF ProxyInv, TypeOK, HandlerStep, Requests
<1>1. /\ req' \in [Whose -> Requests \cup {None}] /\ req'[w] # None
      /\ req'[w].step = s /\ req'[w].node = n /\ req'[w].version = req[w].version
      /\ \A x \in Whose \ {w} : req'[x] = req[x]
  BY <1>0, GotoShape DEF Goto, HandlerStep
<1>2. job' = job
  BY DEF Goto
<1>3. /\ f \in Versions /\ p \in Versions /\ req[w] # None
      /\ UNCHANGED <<enabled, primary, version, state, queue, delayed, unapplied, unreported, asked>>
      /\ file' = [file EXCEPT ![n] = f] /\ proc' = [proc EXCEPT ![n] = p]
      /\ excused' \in {excused, excused \cup {n}, excused \ {n}} /\ faults' \in 0..MaxFaults
      /\ n \notin excused' => w = "job" /\ Alone(w) /\ (p # 0 => f # 0)
  BY DEF HandlerStep, settings
<1>4. /\ file' \in [Nodes -> Versions] /\ proc' \in [Nodes -> Versions]
      /\ file'[n] = f /\ proc'[n] = p
      /\ \A k \in Nodes \ {n} : /\ file'[k] = file[k] /\ proc'[k] = proc[k]
                                /\ k \in excused' <=> k \in excused
  BY <1>0, <1>3 DEF TypeOK
<1>5. TypeOK' /\ version' <= asked'
  <2>1. excused' \in SUBSET Nodes
    BY <1>0, <1>3 DEF TypeOK
  <2>2. req'["job"] # None <=> req["job"] # None
    BY <1>1, <1>3 DEF Whose
  <2>3. req'["job"] # None => req'["job"].node = req["job"].node
    BY <1>1, <1>3 DEF Whose
  <2> QED
    BY <1>1, <1>2, <1>3, <2>1, <2>2, <2>3 DEF ProxyInv, TypeOK
<1>6. LeftIsExcused'
  <2>1. CASE w = "left"
    BY <1>1, <1>3, <2>1 DEF LeftIsExcused
  <2>2. CASE w = "job"
    <3>1. req'["left"] = req["left"]
      BY <1>1, <2>2 DEF Whose
    <3>2. req["left"] # None /\ req["left"].node = n => n \in excused'
      BY <1>3, <2>2 DEF Alone, Whose
    <3>3. req["left"] # None => req["left"].node \in Nodes
      BY <1>0 DEF TypeOK, Requests, Whose
    <3> QED
      BY <1>4, <3>1, <3>2, <3>3 DEF ProxyInv, LeftIsExcused
  <2> QED
    BY <2>1, <2>2 DEF Whose
<1>7. RequestFits'
  <2>1. CASE w = "job"
    <3>1. /\ req["job"].version = job.version
          /\ IF job.msg.kind = "apply"
             THEN req["job"].step \notin {"stop", "remove"} /\ job.version # 0
             ELSE req["job"].step \in {"stop", "remove"}
      BY <1>3, <2>1 DEF ProxyInv, RequestFits
    <3>2. n \notin excused' => Progress(req["job"])'
      BY <1>1, <1>4, <2>1 DEF Progress
    <3> QED
      BY <1>1, <1>2, <2>1, <3>1, <3>2 DEF RequestFits
  <2>2. CASE w = "left"
    <3>1. req'["job"] = req["job"]
      BY <1>1, <2>2 DEF Whose
    <3>2. req["job"] # None => req["job"].node \in Nodes
      BY <1>0 DEF TypeOK, Requests, Whose
    <3>3. n \in excused'
      BY <1>3, <2>2
    <3>4. req["job"] # None /\ req["job"].node \notin excused' =>
             req["job"].node \in Nodes \ {n} /\ req["job"].node \notin excused
      BY <1>4, <3>2, <3>3
    <3> QED
      BY <1>2, <1>4, <3>1, <3>4 DEF ProxyInv, RequestFits, Progress
  <2> QED
    BY <2>1, <2>2 DEF Whose
<1>8. ReadyServes'
  <2>1. req["job"] # None => job.phase = "wait"
    BY <1>0, Waiting
  <2>2. job # None /\ job.result = "ready" => w = "left"
    BY <1>3, <2>1 DEF ProxyInv, ReadyServes, Whose
  <2>3. job # None /\ job.result = "ready" => job.msg.node \in Nodes
    BY <1>0 DEF TypeOK, Jobs, Messages
  <2>4. w = "left" => n \in excused'
    BY <1>3
  <2> QED
    BY <1>2, <1>4, <2>2, <2>3, <2>4 DEF ProxyInv, ReadyServes, Serves
<1>9. OutdatedIsFollowed' /\ \A k \in Nodes : Pending(k)' <=> Pending(k)
  BY <1>2, SamePending DEF HandlerStep
<1>10. ReadyIsCurrent'
  <2>1. Pending(n) \/ n \in excused'
    BY <1>0, <1>3 DEF Pending, TypeOK
  <2>2. UNCHANGED <<settings, state, unapplied, unreported>>
    BY <1>3 DEF settings
  <2> HIDE DEF n
  <2> QED
    BY <1>0, <1>4, <1>9, <2>1, <2>2, OtherNodes
<1>11. NoneHidden'
  BY <1>0, <1>3, <1>4 DEF ProxyInv, NoneHidden
<1> QED
  BY <1>5, <1>6, <1>7, <1>8, <1>9, <1>10, <1>11 DEF ProxyInv

\* A handler that ends keeps the invariant, if a job's request that ends "ready" was an
\* apply request that has done its work.
LEMMA AnswerKeeps ==
    ASSUME ProxyInv, NEW w \in Whose, NEW f, NEW p, HandlerStep(w, f, p),
           NEW result \in {"ready", "disabled", "failed"}, Answer(w, result),
           result = "ready" =>
               /\ req[w].step = "answer"
               /\ req[w].node \notin excused' => f = req[w].version /\ p = req[w].version
    PROVE  ProxyInv'
<1> DEFINE n == req[w].node
<1>0. TypeOK /\ req[w] \in Requests /\ n \in Nodes
  BY DEF ProxyInv, TypeOK, HandlerStep, Requests
<1>1. /\ req' \in [Whose -> Requests \cup {None}]
      /\ req'[w] = None /\ \A x \in Whose \ {w} : req'[x] = req[x]
      /\ w = "left" => job' = job
      /\ w = "job" => /\ job' \in Jobs /\ job' # None
                      /\ job'.phase = "report" /\ job'.result = result
                      /\ job'.msg = job.msg /\ job'.version = job.version
  BY <1>0, AnswerShape DEF HandlerStep
<1>2. /\ job = None <=> job' = None
      /\ job # None => job'.msg = job.msg /\ job'.version = job.version
  BY <1>0, <1>1, Waiting, NoneAssumption DEF HandlerStep, Whose
<1>3. /\ f \in Versions /\ p \in Versions /\ req[w] # None
      /\ UNCHANGED <<enabled, primary, version, state, queue, delayed, unapplied, unreported, asked>>
      /\ file' = [file EXCEPT ![n] = f] /\ proc' = [proc EXCEPT ![n] = p]
      /\ excused' \in {excused, excused \cup {n}, excused \ {n}} /\ faults' \in 0..MaxFaults
      /\ n \notin excused' => w = "job" /\ Alone(w) /\ (p # 0 => f # 0)
  BY DEF HandlerStep, settings
<1>4. /\ file' \in [Nodes -> Versions] /\ proc' \in [Nodes -> Versions]
      /\ file'[n] = f /\ proc'[n] = p
      /\ \A k \in Nodes \ {n} : /\ file'[k] = file[k] /\ proc'[k] = proc[k]
                                /\ k \in excused' <=> k \in excused
  BY <1>0, <1>3 DEF TypeOK
<1>5. TypeOK' /\ version' <= asked'
  <2>1. excused' \in SUBSET Nodes
    BY <1>0, <1>3 DEF TypeOK
  <2>2. CASE w = "job"
    BY <1>1, <1>3, <2>1, <2>2 DEF ProxyInv, TypeOK
  <2>3. CASE w = "left"
    <3>1. req'["job"] = req["job"] /\ job' = job
      BY <1>1, <2>3 DEF Whose
    <3> QED
      BY <1>1, <1>3, <2>1, <3>1 DEF ProxyInv, TypeOK
  <2> QED
    BY <2>2, <2>3 DEF Whose
<1>6. LeftIsExcused'
  <2>1. CASE w = "left"
    BY <1>1, <2>1 DEF LeftIsExcused
  <2>2. CASE w = "job"
    <3>1. req'["left"] = req["left"]
      BY <1>1, <2>2 DEF Whose
    <3>2. req["left"] # None /\ req["left"].node = n => n \in excused'
      BY <1>3, <2>2 DEF Alone, Whose
    <3>3. req["left"] # None => req["left"].node \in Nodes
      BY <1>0 DEF TypeOK, Requests, Whose
    <3> QED
      BY <1>4, <3>1, <3>2, <3>3 DEF ProxyInv, LeftIsExcused
  <2> QED
    BY <2>1, <2>2 DEF Whose
<1>7. RequestFits'
  <2>1. CASE w = "job"
    BY <1>1, <2>1 DEF RequestFits
  <2>2. CASE w = "left"
    <3>1. req'["job"] = req["job"]
      BY <1>1, <2>2 DEF Whose
    <3>2. req["job"] # None => req["job"].node \in Nodes
      BY <1>0 DEF TypeOK, Requests, Whose
    <3>3. n \in excused'
      BY <1>3, <2>2
    <3>4. req["job"] # None /\ req["job"].node \notin excused' =>
             req["job"].node \in Nodes \ {n} /\ req["job"].node \notin excused
      BY <1>4, <3>2, <3>3
    <3> QED
      BY <1>1, <1>4, <2>2, <3>1, <3>4 DEF ProxyInv, RequestFits, Progress
  <2> QED
    BY <2>1, <2>2 DEF Whose
<1>8. ReadyServes'
  <2>1. CASE w = "job"
    <3>1. req["job"].version = job.version /\ req["job"].node = job.msg.node
      BY <1>0, <1>3, <2>1, Waiting DEF ProxyInv, RequestFits
    <3>2. result = "ready" => job.msg.kind = "apply"
      BY <1>3, <2>1 DEF ProxyInv, RequestFits
    <3> QED
      BY <1>1, <1>4, <2>1, <3>1, <3>2 DEF ReadyServes, Serves
  <2>2. CASE w = "left"
    <3>1. job' = job /\ n \in excused'
      BY <1>1, <1>3, <2>2
    <3>2. job # None => job.msg.node \in Nodes
      BY <1>0 DEF TypeOK, Jobs, Messages
    <3> QED
      BY <1>4, <3>1, <3>2 DEF ProxyInv, ReadyServes, Serves
  <2> QED
    BY <2>1, <2>2 DEF Whose
<1>9. OutdatedIsFollowed' /\ \A k \in Nodes : Pending(k)' <=> Pending(k)
  BY <1>2, SamePending DEF HandlerStep
<1>10. ReadyIsCurrent'
  <2>1. Pending(n) \/ n \in excused'
    BY <1>0, <1>3 DEF Pending, TypeOK
  <2>2. UNCHANGED <<settings, state, unapplied, unreported>>
    BY <1>3 DEF settings
  <2> HIDE DEF n
  <2> QED
    BY <1>0, <1>4, <1>9, <2>1, <2>2, OtherNodes
<1>11. NoneHidden'
  BY <1>0, <1>3, <1>4 DEF ProxyInv, NoneHidden
<1> QED
  BY <1>5, <1>6, <1>7, <1>8, <1>9, <1>10, <1>11 DEF ProxyInv

\* A node that is not marked has at most the request of a job, which has done its part.
LEMMA Unmarked ==
    ASSUME ProxyInv, NEW w \in Whose, req[w] # None, req[w].node \notin excused
    PROVE  w = "job" /\ Alone(w) /\ Progress(req[w])
<1>1. w = "job"
  BY DEF ProxyInv, LeftIsExcused, Whose
<1>2. Alone(w)
  BY <1>1 DEF ProxyInv, LeftIsExcused, Alone, Whose
<1> QED
  BY <1>1, <1>2 DEF ProxyInv, RequestFits

\* The types a handler meets.
LEMMA HandlerTypes ==
    ASSUME ProxyInv, NEW w \in Whose, req[w] # None
    PROVE  /\ req[w].node \in Nodes /\ req[w].version \in Versions
           /\ file[req[w].node] \in Versions /\ proc[req[w].node] \in Versions /\ 0 \in Versions
           /\ file = [file EXCEPT ![req[w].node] = file[req[w].node]]
           /\ proc = [proc EXCEPT ![req[w].node] = proc[req[w].node]]
           /\ faults \in 0..MaxFaults
           /\ Fault => faults' \in 0..MaxFaults
           /\ NoFault => faults' \in 0..MaxFaults
<1>1. req[w] \in Requests
  BY DEF ProxyInv, TypeOK
<1>2. req[w].node \in Nodes /\ req[w].version \in Versions
  BY <1>1 DEF Requests
<1>3. file \in [Nodes -> Versions] /\ proc \in [Nodes -> Versions] /\ faults \in 0..MaxFaults
  BY DEF ProxyInv, TypeOK
<1>4. 0 \in Versions
  BY ProxyAssumption DEF Versions
<1>5. (Fault => faults' \in 0..MaxFaults) /\ (NoFault => faults' \in 0..MaxFaults)
  BY <1>3, ProxyAssumption DEF Fault, NoFault
<1> QED
  BY <1>2, <1>3, <1>4, <1>5

\* supervisorctl fails: the file stays, and the process is as before, gone, or started
\* from the file.
LEMMA SupervisorKeeps ==
    ASSUME ProxyInv, NEW w \in Whose, NEW step, Handler(w, step),
           NEW outcomes, SupervisorFails(w, outcomes),
           outcomes \subseteq {proc[req[w].node], 0, file[req[w].node]}
    PROVE  ProxyInv'
<1>1. PICK v \in outcomes : proc' = [proc EXCEPT ![req[w].node] = v]
  BY DEF SupervisorFails
<1>2. req[w] # None
  BY DEF Handler
<1>3. excused' = excused /\ file' = file /\ Answer(w, "failed") /\ Fault
  BY DEF SupervisorFails
<1>4. HandlerStep(w, file[req[w].node], v)
  <2>1. req[w].node \notin excused /\ v # 0 => file[req[w].node] # 0
    BY <1>1, <1>2, HandlerTypes DEF ProxyInv, NoneHidden
  <2> QED
    BY <1>1, <1>3, <2>1, HandlerTypes, Unmarked DEF HandlerStep, Handler
<1> QED
  BY <1>3, <1>4, AnswerKeeps

\* The file of an apply request is written; a job's request mends the node.
LEMMA WriteConfigKeeps ==
    ASSUME ProxyInv, NEW w \in Whose, WriteConfig(w)
    PROVE  ProxyInv'
<1> DEFINE n == req[w].node
<1>1. req[w] # None /\ req[w].step = "write"
      /\ UNCHANGED <<settings, state, queue, delayed, unapplied, unreported, asked>>
  BY DEF WriteConfig, Handler
<1>2. n \notin excused => w = "job" /\ Alone(w) /\ Progress(req[w])
  BY <1>1, Unmarked
<1>4. w = "job" => IF job.msg.kind = "apply"
                   THEN req[w].step \notin {"stop", "remove"} /\ req[w].version # 0
                   ELSE req[w].step \in {"stop", "remove"}
  BY <1>1 DEF ProxyInv, RequestFits
<1>5. CASE /\ file' = [file EXCEPT ![n] = req[w].version] /\ proc' = proc
           /\ Goto(w, "status") /\ Repairs(w) /\ NoFault
  <2>1. HandlerStep(w, req[w].version, proc[n])
    BY <1>1, <1>2, <1>4, <1>5, HandlerTypes DEF HandlerStep, Repairs
  <2> QED
    BY <1>1, <1>5, <2>1, GotoKeeps DEF Steps
<1> QED
  BY <1>5 DEF WriteConfig, nodeVars

\* The status decides on start or restart.
LEMMA ReadStatusKeeps ==
    ASSUME ProxyInv, NEW w \in Whose, ReadStatus(w)
    PROVE  ProxyInv'
<1> DEFINE n == req[w].node
<1>1. req[w] # None /\ req[w].step = "status"
      /\ UNCHANGED <<settings, state, queue, delayed, unapplied, unreported, asked>>
  BY DEF ReadStatus, Handler
<1>2. n \notin excused => w = "job" /\ Alone(w) /\ Progress(req[w])
  BY <1>1, Unmarked
<1>3. n \notin excused /\ proc[n] # 0 => file[n] # 0
  BY <1>1, HandlerTypes DEF ProxyInv, NoneHidden
<1>4. w = "job" => IF job.msg.kind = "apply"
                   THEN req[w].step \notin {"stop", "remove"} /\ req[w].version # 0
                   ELSE req[w].step \in {"stop", "remove"}
  BY <1>1 DEF ProxyInv, RequestFits
<1>5. CASE Goto(w, Command(n)) /\ file' = file /\ proc' = proc /\ excused' = excused /\ NoFault
  <2>1. HandlerStep(w, file[n], proc[n])
    BY <1>1, <1>2, <1>3, <1>5, HandlerTypes DEF HandlerStep
  <2> QED
    BY <1>1, <1>2, <1>4, <1>5, <2>1, GotoKeeps DEF Steps, Progress, Command, Running
<1>6. CASE /\ Goto(w, "start") /\ Fault /\ excused' = excused \cup {n} /\ file' = file
           /\ proc' = proc
  <2>1. HandlerStep(w, file[n], proc[n])
    BY <1>1, <1>6, HandlerTypes DEF HandlerStep
  <2> QED
    BY <1>1, <1>6, <2>1, GotoKeeps DEF Steps
<1>7. CASE SupervisorFails(w, {proc[req[w].node]})
  BY <1>7, SupervisorKeeps DEF ReadStatus
<1> QED
  BY <1>5, <1>6, <1>7 DEF ReadStatus, nodeVars

\* The process is started again from the file.
LEMMA RestartKeeps ==
    ASSUME ProxyInv, NEW w \in Whose, Restart(w)
    PROVE  ProxyInv'
<1> DEFINE n == req[w].node
<1>1. req[w] # None /\ req[w].step = "restart"
      /\ UNCHANGED <<settings, state, queue, delayed, unapplied, unreported, asked>>
  BY DEF Restart, Handler
<1>2. n \notin excused => w = "job" /\ Alone(w) /\ Progress(req[w])
  BY <1>1, Unmarked
<1>5. CASE /\ NoFault /\ proc' = [proc EXCEPT ![n] = file[n]] /\ Goto(w, "answer")
           /\ file' = file /\ excused' = excused
  <2>1. HandlerStep(w, file[n], file[n])
    BY <1>1, <1>2, <1>5, HandlerTypes DEF HandlerStep
  <2> QED
    BY <1>1, <1>2, <1>5, <2>1, GotoKeeps DEF Steps, Progress
<1>6. CASE /\ NoFault /\ proc' = [proc EXCEPT ![n] = 0] /\ Answer(w, "failed")
           /\ file' = file /\ excused' = excused
  <2>1. HandlerStep(w, file[n], 0)
    BY <1>1, <1>2, <1>6, HandlerTypes DEF HandlerStep
  <2> QED
    BY <1>6, <2>1, AnswerKeeps
<1>7. CASE SupervisorFails(w, {proc[req[w].node], 0, file[req[w].node]})
  BY <1>7, SupervisorKeeps DEF Restart
<1> QED
  BY <1>5, <1>6, <1>7 DEF Restart, nodeVars

\* A process that runs is left as it is, which a job meets only on a marked node.
LEMMA StartKeeps ==
    ASSUME ProxyInv, NEW w \in Whose, Start(w)
    PROVE  ProxyInv'
<1> DEFINE n == req[w].node
<1>1. req[w] # None /\ req[w].step = "start"
      /\ UNCHANGED <<settings, state, queue, delayed, unapplied, unreported, asked>>
  BY DEF Start, Handler
<1>2. n \notin excused => w = "job" /\ Alone(w) /\ Progress(req[w])
  BY <1>1, Unmarked
<1>3. n \notin excused /\ proc[n] # 0 => file[n] # 0
  BY <1>1, HandlerTypes DEF ProxyInv, NoneHidden
<1>5. CASE /\ proc[n] # 0 /\ NoFault /\ Goto(w, "answer") /\ file' = file /\ proc' = proc
           /\ excused' = excused
  <2>1. HandlerStep(w, file[n], proc[n])
    BY <1>1, <1>2, <1>3, <1>5, HandlerTypes DEF HandlerStep
  <2> QED
    BY <1>1, <1>2, <1>5, <2>1, GotoKeeps DEF Steps, Progress
<1>6. CASE /\ NoFault /\ proc' = [proc EXCEPT ![n] = file[n]] /\ Goto(w, "answer")
           /\ file' = file /\ excused' = excused
  <2>1. HandlerStep(w, file[n], file[n])
    BY <1>1, <1>2, <1>6, HandlerTypes DEF HandlerStep
  <2> QED
    BY <1>1, <1>2, <1>6, <2>1, GotoKeeps DEF Steps, Progress
<1>7. CASE NoFault /\ Answer(w, "failed") /\ file' = file /\ proc' = proc /\ excused' = excused
  <2>1. HandlerStep(w, file[n], proc[n])
    BY <1>1, <1>2, <1>3, <1>7, HandlerTypes DEF HandlerStep
  <2> QED
    BY <1>7, <2>1, AnswerKeeps
<1>8. CASE SupervisorFails(w, {proc[req[w].node], file[req[w].node]})
  BY <1>8, SupervisorKeeps DEF Start
<1> QED
  BY <1>5, <1>6, <1>7, <1>8 DEF Start, nodeVars

\* A job's request that ends "ready" has the node serve its version.
LEMMA AnswerApplyKeeps ==
    ASSUME ProxyInv, NEW w \in Whose, AnswerApply(w)
    PROVE  ProxyInv'
<1> DEFINE n == req[w].node
<1>1. req[w] # None /\ req[w].step = "answer"
      /\ UNCHANGED <<settings, state, queue, delayed, unapplied, unreported, asked>>
  BY DEF AnswerApply, Handler
<1>2. n \notin excused => w = "job" /\ Alone(w) /\ Progress(req[w])
  BY <1>1, Unmarked
<1>3. n \notin excused /\ proc[n] # 0 => file[n] # 0
  BY <1>1, HandlerTypes DEF ProxyInv, NoneHidden
<1>5. CASE /\ Answer(w, IF Running(n) THEN "ready" ELSE "disabled") /\ NoFault
           /\ file' = file /\ proc' = proc /\ excused' = excused
  <2>1. HandlerStep(w, file[n], proc[n])
    BY <1>1, <1>2, <1>3, <1>5, HandlerTypes DEF HandlerStep
  <2> QED
    BY <1>1, <1>2, <1>5, <2>1, AnswerKeeps DEF Progress
<1>6. CASE Answer(w, "disabled") /\ Fault /\ file' = file /\ proc' = proc /\ excused' = excused
  <2>1. HandlerStep(w, file[n], proc[n])
    BY <1>1, <1>2, <1>3, <1>6, HandlerTypes DEF HandlerStep
  <2> QED
    BY <1>6, <2>1, AnswerKeeps
<1>7. CASE SupervisorFails(w, {proc[req[w].node]})
  BY <1>7, SupervisorKeeps DEF AnswerApply
<1> QED
  BY <1>5, <1>6, <1>7 DEF AnswerApply, nodeVars

\* The process is stopped before the file goes; a job's request mends the node.
LEMMA StopProcessKeeps ==
    ASSUME ProxyInv, NEW w \in Whose, StopProcess(w)
    PROVE  ProxyInv'
<1> DEFINE n == req[w].node
<1>1. req[w] # None /\ req[w].step = "stop"
      /\ UNCHANGED <<settings, state, queue, delayed, unapplied, unreported, asked>>
  BY DEF StopProcess, Handler
<1>2. n \notin excused => w = "job" /\ Alone(w) /\ Progress(req[w])
  BY <1>1, Unmarked
<1>5. CASE /\ proc' = [proc EXCEPT ![n] = 0] /\ NoFault /\ Goto(w, "remove") /\ Repairs(w)
           /\ file' = file
  <2>1. HandlerStep(w, file[n], 0)
    BY <1>1, <1>2, <1>5, HandlerTypes DEF HandlerStep, Repairs
  <2> QED
    BY <1>1, <1>5, <2>1, GotoKeeps DEF Steps
<1>6. CASE SupervisorFails(w, {proc[req[w].node], 0})
  BY <1>6, SupervisorKeeps DEF StopProcess
<1> QED
  BY <1>5, <1>6 DEF StopProcess, nodeVars

\* The file goes once the process is stopped.
LEMMA RemoveConfigKeeps ==
    ASSUME ProxyInv, NEW w \in Whose, RemoveConfig(w)
    PROVE  ProxyInv'
<1> DEFINE n == req[w].node
<1>1. req[w] # None /\ req[w].step = "remove"
      /\ UNCHANGED <<settings, state, queue, delayed, unapplied, unreported, asked>>
  BY DEF RemoveConfig, Handler
<1>2. n \notin excused => w = "job" /\ Alone(w) /\ Progress(req[w])
  BY <1>1, Unmarked
<1>5. CASE /\ NoFault /\ file' = [file EXCEPT ![n] = 0] /\ Answer(w, "disabled")
           /\ proc' = proc /\ excused' = excused
  <2>1. HandlerStep(w, 0, proc[n])
    BY <1>1, <1>2, <1>5, HandlerTypes DEF HandlerStep, Progress
  <2> QED
    BY <1>5, <2>1, AnswerKeeps
<1> QED
  BY <1>5 DEF RemoveConfig, nodeVars

-----------------------------------------------------------------------------
(* The administrator's requests and the worker's jobs.                     *)

\* What an administrator's request does to the queues, whether or not the broker is there.
LEMMA PublishShape ==
    ASSUME ProxyInv, NEW kind \in {"apply", "disable"}, primary # None,
           UNCHANGED primary, Ask, Publish(kind)
    PROVE  /\ queue' \in Seq(Messages) /\ delayed' \in SUBSET Messages
           /\ faults' \in 0..MaxFaults
           /\ asked' = asked + 1 /\ asked' \in 0..MaxRequests
           /\ \A n \in Nodes : Queued(n) => Queued(n)'
           /\ Published \in BOOLEAN
           /\ Published => Queued(primary)'
<1> DEFINE m == [id |-> asked + 1, kind |-> kind, node |-> primary]
<1>1. /\ asked \in 0..MaxRequests /\ asked < MaxRequests /\ asked' = asked + 1
      /\ queue \in Seq(Messages) /\ delayed \in SUBSET Messages
      /\ primary \in Nodes /\ faults \in 0..MaxFaults
  BY DEF ProxyInv, TypeOK, Ask
<1>2. m \in Messages
  <2>1. asked + 1 \in 1..MaxRequests
    BY <1>1, ProxyAssumption
  <2> QED
    BY <1>1, <2>1 DEF Messages
<1>3. faults' \in 0..MaxFaults
  BY <1>1, ProxyAssumption DEF Publish, Fault, NoFault
<1>4. asked' \in 0..MaxRequests
  BY <1>1, ProxyAssumption
<1>5. m.node = primary
  OBVIOUS
<1>6. \/ queue' = Append(queue, m) /\ delayed' = delayed
      \/ queue' = queue /\ delayed' = delayed \cup {m}
      \/ queue' = queue /\ delayed' = delayed
  BY DEF Publish
<1> HIDE DEF m
<1>p. Published \in BOOLEAN
  BY DEF Published
<1>7. CASE queue' = queue /\ delayed' = delayed
  <2>1. ~Published /\ \A n \in Nodes : Queued(n) => Queued(n)'
    BY <1>7 DEF Queued, Published
  <2> QED
    BY <1>1, <1>3, <1>4, <1>7, <1>p, <2>1
<1>8. CASE queue' = Append(queue, m) /\ delayed' = delayed
  <2>1. queue' \in Seq(Messages)
    BY <1>1, <1>2, <1>8
  <2>2. \A n \in Nodes : For(queue', n) <=> For(queue, n) \/ m.node = n
    BY <1>1, <1>2, <1>8, AppendFor
  <2>3. \A n \in Nodes : (Queued(n)' <=> Queued(n) \/ m.node = n)
    BY <1>8, <2>2 DEF Queued, For
  <2> QED
    BY <1>1, <1>3, <1>4, <1>5, <1>8, <2>1, <2>3, <1>p
<1>9. CASE queue' = queue /\ delayed' = delayed \cup {m}
  <2>1. delayed' \in SUBSET Messages
    BY <1>1, <1>2, <1>9
  <2>2. \A n \in Nodes : (Queued(n)' <=> Queued(n) \/ m.node = n)
    BY <1>9 DEF Queued
  <2> QED
    BY <1>1, <1>3, <1>4, <1>5, <1>9, <1>p, <2>1, <2>2
<1> QED
  BY <1>6, <1>7, <1>8, <1>9

\* A job gives its request up: it is left behind, and its node marked.
LEMMA LeaveShape ==
    ASSUME ProxyInv, job # None, LeaveRequest
    PROVE  /\ req' \in [Whose -> Requests \cup {None}] /\ req'["job"] = None
           /\ excused' \in SUBSET Nodes /\ excused \subseteq excused'
           /\ req["job"] # None => job.msg.node \in excused'
           /\ LeftIsExcused'
<1>1. job \in Jobs /\ job.msg.node \in Nodes /\ req \in [Whose -> Requests \cup {None}]
  BY DEF ProxyInv, TypeOK, Jobs, Messages
<1>2. CASE req["job"] = None
  BY <1>1, <1>2 DEF ProxyInv, TypeOK, LeftIsExcused, LeaveRequest
<1>3. CASE req["job"] # None
  <2>1. req' = [left |-> req["job"], job |-> None] /\ excused' = excused \cup {job.msg.node}
    BY <1>3 DEF LeaveRequest
  <2>2. req["job"] \in Requests /\ req["job"].node = job.msg.node
    BY <1>1, <1>3, Waiting DEF ProxyInv, Whose
  <2>3. /\ req' \in [Whose -> Requests \cup {None}]
        /\ req'["job"] = None /\ req'["left"] = req["job"]
    BY <2>1, <2>2 DEF Whose
  <2> QED
    BY <1>1, <2>1, <2>3 DEF ProxyInv, TypeOK, LeftIsExcused
<1> QED
  BY <1>2, <1>3

\* Saved settings are not applied.
LEMMA UpdateSettingsKeeps ==
    ASSUME ProxyInv, UpdateSettings
    PROVE  ProxyInv'
<1>0. /\ UNCHANGED <<state, queue, delayed, job, req, file, proc, excused, unreported, faults>>
      /\ enabled' \in BOOLEAN /\ primary' \in Nodes \cup {None} /\ unapplied' = TRUE
      /\ asked' \in 0..MaxRequests /\ version' \in Versions /\ version' <= asked'
  BY ProxyAssumption DEF ProxyInv, TypeOK, UpdateSettings, Ask, NoFault, Versions, nodeVars,
     ghosts
<1>1. TypeOK' /\ version' <= asked'
  BY <1>0 DEF ProxyInv, TypeOK
<1>2. LeftIsExcused'
  BY <1>0 DEF ProxyInv, LeftIsExcused
<1>3. RequestFits'
  BY <1>0 DEF ProxyInv, RequestFits, Progress
<1>4. ReadyServes'
  BY <1>0 DEF ProxyInv, ReadyServes, Serves
<1>5. OutdatedIsFollowed'
  BY DEF OutdatedIsFollowed, Applied, UpdateSettings
<1>6. ReadyIsCurrent'
  BY DEF ReadyIsCurrent, Applied, UpdateSettings
<1>7. NoneHidden'
  BY <1>0 DEF ProxyInv, NoneHidden
<1> QED
  BY <1>1, <1>2, <1>3, <1>4, <1>5, <1>6, <1>7 DEF ProxyInv

\* An apply request is queued, or the settings stay as unapplied as they were.
LEMMA ApplyProxyKeeps ==
    ASSUME ProxyInv, ApplyProxy
    PROVE  ProxyInv'
<1>0. /\ queue' \in Seq(Messages) /\ delayed' \in SUBSET Messages
      /\ faults' \in 0..MaxFaults
      /\ asked' = asked + 1 /\ asked' \in 0..MaxRequests
      /\ \A n \in Nodes : Queued(n) => Queued(n)'
      /\ Published \in BOOLEAN /\ (Published => Queued(primary)')
      /\ UNCHANGED <<state, job, req, file, proc, excused, unreported, primary>>
      /\ primary \in Nodes
  <2>1. Ask /\ Publish("apply") /\ primary # None /\ primary' = primary
    BY DEF ApplyProxy, settings
  <2> QED
    BY <2>1, PublishShape DEF ProxyInv, TypeOK, Ask, nodeVars, ghosts
<1>1. TypeOK' /\ version' <= asked'
  <2>1. /\ version' \in Versions /\ version' <= asked' /\ enabled' \in BOOLEAN
        /\ unapplied' \in BOOLEAN
    BY <1>0 DEF ProxyInv, TypeOK, Versions, ApplyProxy, settings
  <2> QED
    BY <1>0, <2>1 DEF ProxyInv, TypeOK
<1>2. LeftIsExcused'
  BY <1>0 DEF ProxyInv, LeftIsExcused
<1>3. RequestFits'
  BY <1>0 DEF ProxyInv, RequestFits, Progress
<1>4. ReadyServes'
  BY <1>0 DEF ProxyInv, ReadyServes, Serves
<1>5. OutdatedIsFollowed'
  BY <1>0 DEF ProxyInv, OutdatedIsFollowed, Applied, ApplyProxy, settings
<1>6. ReadyIsCurrent'
  <2>1. \A n \in Nodes : (Pending(n) => Pending(n)') /\ (Queued(n)' => Pending(n)')
    BY <1>0 DEF Pending, Queued
  <2> QED
    BY <1>0, <2>1 DEF ProxyInv, ReadyIsCurrent, Applied, Serves, ApplyProxy, settings
<1>7. NoneHidden'
  BY <1>0 DEF ProxyInv, NoneHidden
<1> QED
  BY <1>1, <1>2, <1>3, <1>4, <1>5, <1>6, <1>7 DEF ProxyInv

\* A disabled proxy has no link.
LEMMA DisableProxyKeeps ==
    ASSUME ProxyInv, DisableProxy
    PROVE  ProxyInv'
<1>0. /\ queue' \in Seq(Messages) /\ delayed' \in SUBSET Messages
      /\ faults' \in 0..MaxFaults
      /\ asked' = asked + 1 /\ asked' \in 0..MaxRequests
      /\ \A n \in Nodes : Queued(n) => Queued(n)'
      /\ Published \in BOOLEAN /\ (Published => Queued(primary)')
      /\ UNCHANGED <<state, job, req, file, proc, excused, unreported, primary>>
      /\ primary \in Nodes
  <2>1. Ask /\ Publish("disable") /\ primary # None /\ primary' = primary
    BY DEF DisableProxy, settings
  <2> QED
    BY <2>1, PublishShape DEF ProxyInv, TypeOK, Ask, nodeVars, ghosts
<1>1. TypeOK' /\ version' <= asked'
  <2>1. enabled' \in BOOLEAN /\ version' = version /\ unapplied' = unapplied
    BY DEF DisableProxy
  <2>2. version' \in Versions /\ version' <= asked'
    BY <1>0, <2>1, ProxyAssumption DEF ProxyInv, TypeOK, Versions
  <2> QED
    BY <1>0, <2>1, <2>2 DEF ProxyInv, TypeOK
<1>2. LeftIsExcused'
  BY <1>0 DEF ProxyInv, LeftIsExcused
<1>3. RequestFits'
  BY <1>0 DEF ProxyInv, RequestFits, Progress
<1>4. ReadyServes'
  BY <1>0 DEF ProxyInv, ReadyServes, Serves
<1>5. OutdatedIsFollowed'
  BY DEF OutdatedIsFollowed, Applied, DisableProxy
<1>6. ReadyIsCurrent'
  BY DEF ReadyIsCurrent, Applied, DisableProxy
<1>7. NoneHidden'
  BY <1>0 DEF ProxyInv, NoneHidden
<1> QED
  BY <1>1, <1>2, <1>3, <1>4, <1>5, <1>6, <1>7 DEF ProxyInv

\* A new secret is unapplied until a job is queued for it.
LEMMA RotateSecretKeeps ==
    ASSUME ProxyInv, RotateSecret
    PROVE  ProxyInv'
<1>0. /\ queue' \in Seq(Messages) /\ delayed' \in SUBSET Messages
      /\ faults' \in 0..MaxFaults
      /\ asked' = asked + 1 /\ asked' \in 0..MaxRequests
      /\ \A n \in Nodes : Queued(n) => Queued(n)'
      /\ Published \in BOOLEAN /\ (Published => Queued(primary)')
      /\ UNCHANGED <<state, job, req, file, proc, excused, unreported, primary>>
      /\ primary \in Nodes
  <2>1. Ask /\ Publish("apply") /\ primary # None /\ primary' = primary
    BY DEF RotateSecret, settings
  <2> QED
    BY <2>1, PublishShape DEF ProxyInv, TypeOK, Ask, nodeVars, ghosts
<1>1. TypeOK' /\ version' <= asked'
  <2>1. /\ version' \in Versions /\ version' <= asked' /\ enabled' \in BOOLEAN
        /\ unapplied' \in BOOLEAN
    BY <1>0, ProxyAssumption DEF ProxyInv, TypeOK, Versions, RotateSecret
  <2> QED
    BY <1>0, <2>1 DEF ProxyInv, TypeOK
<1>2. LeftIsExcused'
  BY <1>0 DEF ProxyInv, LeftIsExcused
<1>3. RequestFits'
  BY <1>0 DEF ProxyInv, RequestFits, Progress
<1>4. ReadyServes'
  BY <1>0 DEF ProxyInv, ReadyServes, Serves
<1>5. OutdatedIsFollowed'
  BY <1>0 DEF OutdatedIsFollowed, Applied, RotateSecret
<1>6. ReadyIsCurrent'
  BY <1>0 DEF ReadyIsCurrent, Applied, Pending, Queued, RotateSecret
<1>7. NoneHidden'
  BY <1>0 DEF ProxyInv, NoneHidden
<1> QED
  BY <1>1, <1>2, <1>3, <1>4, <1>5, <1>6, <1>7 DEF ProxyInv

\* A job takes the settings of the moment.
LEMMA StartJobKeeps ==
    ASSUME ProxyInv, TakeJob, UNCHANGED <<delayed, unreported>>,
           job' = [msg |-> Head(queue), phase |-> "send", version |-> Desired(Head(queue)),
                   result |-> "none"]
    PROVE  ProxyInv'
<1>0. /\ job = None /\ job' \in Jobs /\ job' # None /\ job'.msg = Head(queue)
      /\ job'.phase = "send" /\ job'.result = "none" /\ job'.version = Desired(Head(queue))
      /\ queue' = Tail(queue) /\ Head(queue) \in Messages /\ Tail(queue) \in Seq(Messages)
      /\ \A n \in Nodes : For(queue, n) <=> For(Tail(queue), n) \/ Head(queue).node = n
      /\ UNCHANGED <<enabled, primary, version, state, delayed, req, file, proc, unapplied,
                      excused, unreported, asked>>
      /\ faults' \in 0..MaxFaults
  <2>1. queue \in Seq(Messages) /\ queue # <<>> /\ job = None /\ queue' = Tail(queue)
    BY DEF ProxyInv, TypeOK, TakeJob
  <2>2. Desired(Head(queue)) \in Versions
    BY ProxyAssumption DEF ProxyInv, TypeOK, Desired, Versions
  <2>3. Head(queue) \in Messages
    BY <2>1, TailFor
  <2>4. job' \in Jobs /\ job'.msg = Head(queue) /\ job'.phase = "send" /\ job'.result = "none"
        /\ job'.version = Desired(Head(queue))
    BY <2>2, <2>3 DEF Jobs
  <2>5. job' # None
    BY <2>4, NoneAssumption
  <2>6. faults' \in 0..MaxFaults
    BY ProxyAssumption DEF ProxyInv, TypeOK, TakeJob, Fault, NoFault
  <2> QED
    BY <2>1, <2>4, <2>5, <2>6, TailFor DEF TakeJob, settings, nodeVars
<1>1. TypeOK' /\ version' <= asked'
  BY <1>0 DEF ProxyInv, TypeOK
<1>2. LeftIsExcused'
  BY <1>0 DEF ProxyInv, LeftIsExcused
<1>3. RequestFits'
  BY <1>0, <1>1 DEF RequestFits, TypeOK
<1>4. ReadyServes'
  BY <1>0 DEF ReadyServes
<1>5. OutdatedIsFollowed'
  BY <1>0 DEF OutdatedIsFollowed, Applied, Desired
<1>6. ReadyIsCurrent'
  <2>1. \A n \in Nodes : Pending(n) => Pending(n)'
    BY <1>0 DEF Pending, For
  <2> QED
    BY <1>0, <2>1 DEF ProxyInv, TypeOK, ReadyIsCurrent, Applied, Serves
<1>7. NoneHidden'
  BY <1>0 DEF ProxyInv, NoneHidden
<1> QED
  BY <1>1, <1>2, <1>3, <1>4, <1>5, <1>6, <1>7 DEF ProxyInv

\* A message that starts no job is to come again, or its node is marked.
LEMMA TakeJobKeeps ==
    ASSUME ProxyInv, TakeJob
    PROVE  ProxyInv'
<1> DEFINE m == Head(queue)
<1>0. /\ queue \in Seq(Messages) /\ queue # <<>> /\ job = None /\ queue' = Tail(queue)
      /\ UNCHANGED <<enabled, primary, version, state, req, file, proc, unapplied, excused, asked>>
      /\ faults' \in 0..MaxFaults /\ delayed \in SUBSET Messages /\ unreported \in SUBSET Nodes
  BY ProxyAssumption DEF ProxyInv, TypeOK, TakeJob, Fault, NoFault, settings, nodeVars
<1>1. /\ m \in Messages /\ Tail(queue) \in Seq(Messages) /\ m.node \in Nodes
      /\ \A n \in Nodes : For(queue, n) <=> For(Tail(queue), n) \/ m.node = n
  BY <1>0, TailFor DEF Messages
<1>2. CASE /\ UNCHANGED job /\ delayed' \in {delayed, delayed \cup {m}}
           /\ unreported' \in {unreported, unreported \cup {m.node}}
           /\ m \in delayed' \/ m.node \in unreported'
  <2>1. TypeOK' /\ version' <= asked'
    <3>1. delayed' \in SUBSET Messages /\ unreported' \in SUBSET Nodes
      BY <1>0, <1>1, <1>2
    <3> QED
      BY <1>0, <1>1, <1>2, <3>1 DEF ProxyInv, TypeOK
  <2>2. LeftIsExcused'
    BY <1>0 DEF ProxyInv, LeftIsExcused
  <2>3. RequestFits' /\ ReadyServes' /\ OutdatedIsFollowed'
    BY <1>0, <1>2, <2>1 DEF RequestFits, ReadyServes, OutdatedIsFollowed, TypeOK
  <2>4. ReadyIsCurrent'
    <3>1. \A n \in Nodes \ unreported' : Pending(n) => Pending(n)'
      BY <1>0, <1>1, <1>2 DEF Pending, For
    <3> QED
      BY <1>0, <1>2, <3>1 DEF ProxyInv, TypeOK, ReadyIsCurrent, Applied, Serves
  <2>5. NoneHidden'
    BY <1>0 DEF ProxyInv, NoneHidden
  <2> QED
    BY <2>1, <2>2, <2>3, <2>4, <2>5 DEF ProxyInv
<1> QED
  BY <1>2, StartJobKeeps DEF TakeJob, Lost

\* The job sends its request, or fails.
LEMMA SendRequestKeeps ==
    ASSUME ProxyInv, SendRequest
    PROVE  ProxyInv'
<1>0. /\ UNCHANGED <<enabled, primary, version, state, queue, delayed, file, proc, unapplied,
                      excused, unreported, asked>>
      /\ faults' \in 0..MaxFaults /\ job \in Jobs /\ job # None /\ req["job"] = None
  BY ProxyAssumption DEF ProxyInv, TypeOK, SendRequest, Fault, NoFault, settings, nodeVars,
     ghosts
<1>a. /\ job' \in Jobs /\ job' # None /\ job'.msg = job.msg /\ job'.version = job.version
      /\ \/ job'.phase = "report" /\ job'.result = "failed" /\ req' = req
         \/ /\ job'.phase = "wait" /\ job'.result = job.result /\ ~Unsendable(job)
            /\ req' = [req EXCEPT !["job"] = RequestOf(job)]
  <2>1. \/ job' = [job EXCEPT !.phase = "report", !.result = "failed"] /\ req' = req
        \/ /\ job' = [job EXCEPT !.phase = "wait"] /\ ~Unsendable(job)
           /\ req' = [req EXCEPT !["job"] = RequestOf(job)]
    BY DEF SendRequest
  <2>2. CASE job' = [job EXCEPT !.phase = "report", !.result = "failed"] /\ req' = req
    <3>1. job' \in Jobs /\ job'.msg = job.msg /\ job'.version = job.version
          /\ job'.phase = "report" /\ job'.result = "failed"
      BY <1>0, <2>2 DEF Jobs
    <3> QED
      BY <2>2, <3>1, NoneAssumption
  <2>3. CASE /\ job' = [job EXCEPT !.phase = "wait"] /\ ~Unsendable(job)
             /\ req' = [req EXCEPT !["job"] = RequestOf(job)]
    <3>1. job' \in Jobs /\ job'.msg = job.msg /\ job'.version = job.version
          /\ job'.phase = "wait" /\ job'.result = job.result
      BY <1>0, <2>3 DEF Jobs
    <3> QED
      BY <2>3, <3>1, NoneAssumption
  <2> QED
    BY <2>1, <2>2, <2>3
<1>b. /\ RequestOf(job) \in Requests /\ RequestOf(job) # None
      /\ RequestOf(job).node = job.msg.node /\ RequestOf(job).version = job.version
      /\ RequestOf(job).step = IF job.msg.kind = "apply" THEN "write" ELSE "stop"
      /\ job.msg.node \in Nodes /\ job.version \in Versions
  <2>1. job.msg.node \in Nodes /\ job.version \in Versions
    BY <1>0 DEF Jobs, Messages
  <2>2. RequestOf(job) \in Requests
    BY <2>1 DEF Requests, RequestOf, Steps
  <2> QED
    BY <2>1, <2>2, NoneAssumption DEF RequestOf
<1>c. req \in [Whose -> Requests \cup {None}]
  BY DEF ProxyInv, TypeOK
<1>d. \/ job'.phase = "report" /\ req'["job"] = None
      \/ job'.phase = "wait" /\ req'["job"] = RequestOf(job) /\ ~Unsendable(job)
  BY <1>0, <1>a, <1>c DEF Whose
<1>e. req' \in [Whose -> Requests \cup {None}] /\ req'["left"] = req["left"]
  BY <1>a, <1>b, <1>c DEF Whose
<1>f. job.result # "ready"
  BY <1>0 DEF ProxyInv, ReadyServes, SendRequest
<1>1. TypeOK' /\ version' <= asked'
  BY <1>0, <1>a, <1>b, <1>d DEF ProxyInv, TypeOK
<1>2. LeftIsExcused'
  BY <1>0, <1>e DEF ProxyInv, LeftIsExcused
<1>3. RequestFits'
  BY <1>a, <1>b, <1>d DEF RequestFits, Progress, Unsendable
<1>4. ReadyServes'
  BY <1>a, <1>f DEF ReadyServes
<1>5. OutdatedIsFollowed'
  BY <1>0, <1>a, SamePending DEF settings
<1>6. ReadyIsCurrent'
  <2>1. \A n \in Nodes : Pending(n)' <=> Pending(n)
    BY <1>0, <1>a, SamePending DEF settings
  <2> QED
    BY <1>0, <2>1 DEF ProxyInv, TypeOK, ReadyIsCurrent, Applied, Serves
<1>7. NoneHidden'
  BY <1>0 DEF ProxyInv, NoneHidden
<1> QED
  BY <1>1, <1>2, <1>3, <1>4, <1>5, <1>6, <1>7 DEF ProxyInv

\* A job that reports "ready" has written the current version, or another is queued behind it.
LEMMA ReportResultKeeps ==
    ASSUME ProxyInv, ReportResult
    PROVE  ProxyInv'
<1>0. /\ UNCHANGED <<enabled, primary, version, queue, req, file, proc, unapplied, asked>>
      /\ faults' \in 0..MaxFaults /\ job \in Jobs /\ job # None /\ req["job"] = None /\ job' = None
      /\ job.phase = "report" /\ job.msg \in Messages /\ job.msg.node \in Nodes
      /\ job.result \in {"none", "ready", "disabled", "failed"}
  <2>1. job \in Jobs
    BY DEF ProxyInv, TypeOK, ReportResult
  <2>2. /\ job.msg \in Messages /\ job.msg.node \in Nodes
        /\ job.result \in {"none", "ready", "disabled", "failed"}
    BY <2>1 DEF Jobs, Messages
  <2> QED
    BY <2>2 DEF ProxyInv, TypeOK, ReportResult, settings, nodeVars, bounds
<1>a. delayed' = delayed /\ unreported' = unreported \ {job.msg.node}
  BY DEF ReportResult
<1>1. TypeOK' /\ version' <= asked'
  <2>1. state' \in [Nodes -> {"none", "ready", "disabled", "failed"}] /\ excused' = excused
    BY <1>0 DEF ProxyInv, TypeOK, ReportResult
  <2> QED
    BY <1>0, <1>a, <2>1 DEF ProxyInv, TypeOK
<1>2. LeftIsExcused'
  BY <1>0 DEF ProxyInv, LeftIsExcused, ReportResult
<1>3. RequestFits'
  BY <1>0 DEF RequestFits
<1>4. ReadyServes'
  BY <1>0 DEF ReadyServes
<1>5. OutdatedIsFollowed'
  BY <1>0 DEF OutdatedIsFollowed
<1>6. ReadyIsCurrent'
  <2>1. /\ excused' = excused /\ state \in [Nodes -> {"none", "ready", "disabled", "failed"}]
        /\ state' = [state EXCEPT ![job.msg.node] = job.result]
    BY DEF ProxyInv, TypeOK, ReportResult
  <2>2. SUFFICES ASSUME Applied, primary \in Nodes, primary \notin excused \cup unreported',
                        ~Pending(primary)', state'[primary] = "ready"
                 PROVE  Serves(primary, version)
    BY <1>0, <2>1 DEF ProxyInv, TypeOK, ReadyIsCurrent, Applied, Serves
  <2>3. ~Queued(primary)
    BY <1>0, <1>a, <2>2 DEF Queued, Pending
  <2>4. CASE job.msg.node = primary
    <3>1. job.result = "ready"
      BY <2>1, <2>2, <2>4
    <3>2. job.msg.kind = "apply" /\ Serves(primary, job.version)
      BY <1>0, <2>2, <2>4, <3>1 DEF ProxyInv, ReadyServes
    <3>3. job.version = version
      BY <1>0, <2>2, <2>3, <2>4, <3>2 DEF ProxyInv, OutdatedIsFollowed
    <3> QED
      BY <3>2, <3>3
  <2>5. CASE job.msg.node # primary
    <3>1. ~Pending(primary) /\ state[primary] = "ready"
      BY <2>1, <2>2, <2>3, <2>5 DEF Pending, Queued
    <3> QED
      BY <1>a, <2>2, <2>5, <3>1 DEF ProxyInv, ReadyIsCurrent
  <2> QED
    BY <2>4, <2>5
<1>7. NoneHidden'
  BY <1>0 DEF ProxyInv, NoneHidden, ReportResult
<1> QED
  BY <1>1, <1>2, <1>3, <1>4, <1>5, <1>6, <1>7 DEF ProxyInv

\* A report is lost and the node marked.
LEMMA LoseReportKeeps ==
    ASSUME ProxyInv, LoseReport
    PROVE  ProxyInv'
<1>0. /\ UNCHANGED <<enabled, primary, version, queue, req, file, proc, unapplied, asked>>
      /\ faults' \in 0..MaxFaults /\ job \in Jobs /\ job # None /\ req["job"] = None /\ job' = None
      /\ job.phase = "report" /\ job.msg \in Messages /\ job.msg.node \in Nodes
      /\ job.result \in {"none", "ready", "disabled", "failed"}
  <2>1. job \in Jobs
    BY DEF ProxyInv, TypeOK, LoseReport
  <2>2. /\ job.msg \in Messages /\ job.msg.node \in Nodes
        /\ job.result \in {"none", "ready", "disabled", "failed"}
    BY <2>1 DEF Jobs, Messages
  <2> QED
    BY <2>2, ProxyAssumption DEF ProxyInv, TypeOK, LoseReport, Fault, settings, nodeVars
<1>b. /\ UNCHANGED <<state, delayed, excused>>
      /\ unreported' = unreported \cup {job.msg.node} /\ unreported' \in SUBSET Nodes
  BY <1>0 DEF ProxyInv, TypeOK, LoseReport, Lost
<1>1. TypeOK' /\ version' <= asked'
  BY <1>0, <1>b DEF ProxyInv, TypeOK
<1>2. LeftIsExcused'
  BY <1>0, <1>b DEF ProxyInv, LeftIsExcused
<1>3. RequestFits'
  BY <1>0 DEF RequestFits
<1>4. ReadyServes'
  BY <1>0 DEF ReadyServes
<1>5. OutdatedIsFollowed'
  BY <1>0 DEF OutdatedIsFollowed
<1>6. ReadyIsCurrent'
  <2>1. \A n \in Nodes \ unreported' : Pending(n) => Pending(n)'
    BY <1>0, <1>b DEF Pending
  <2> QED
    BY <1>0, <1>b, <2>1 DEF ProxyInv, TypeOK, ReadyIsCurrent, Applied, Serves
<1>7. NoneHidden'
  BY <1>0, <1>b DEF ProxyInv, NoneHidden
<1> QED
  BY <1>1, <1>2, <1>3, <1>4, <1>5, <1>6, <1>7 DEF ProxyInv

\* A delayed message is queued again.
LEMMA MessageComesKeeps ==
    ASSUME ProxyInv, NEW m \in delayed, MessageComes(m)
    PROVE  ProxyInv'
<1>0. /\ UNCHANGED <<enabled, primary, version, state, job, req, file, proc, unapplied, excused,
                      unreported, asked, faults>>
      /\ m \in Messages /\ queue' = Append(queue, m) /\ delayed' = delayed \ {m}
  BY DEF ProxyInv, TypeOK, MessageComes, settings, nodeVars, ghosts,
     bounds
<1>a. /\ queue' \in Seq(Messages)
      /\ \A n \in Nodes : For(queue', n) <=> For(queue, n) \/ m.node = n
  BY <1>0, AppendFor DEF ProxyInv, TypeOK
<1>b. \A n \in Nodes : Queued(n) => Queued(n)'
  BY <1>0, <1>a DEF Queued, For
<1>1. TypeOK' /\ version' <= asked'
  BY <1>0, <1>a DEF ProxyInv, TypeOK
<1>2. LeftIsExcused'
  BY <1>0 DEF ProxyInv, LeftIsExcused
<1>3. RequestFits'
  BY <1>0 DEF ProxyInv, RequestFits, Progress
<1>4. ReadyServes'
  BY <1>0 DEF ProxyInv, ReadyServes, Serves
<1>5. OutdatedIsFollowed'
  BY <1>0, <1>b DEF ProxyInv, TypeOK, OutdatedIsFollowed, Applied
<1>6. ReadyIsCurrent'
  <2>1. \A n \in Nodes : Pending(n) => Pending(n)'
    BY <1>0, <1>b DEF Pending, Queued
  <2> QED
    BY <1>0, <2>1 DEF ProxyInv, TypeOK, ReadyIsCurrent, Applied, Serves
<1>7. NoneHidden'
  BY <1>0 DEF ProxyInv, NoneHidden
<1> QED
  BY <1>1, <1>2, <1>3, <1>4, <1>5, <1>6, <1>7 DEF ProxyInv

\* The job fails and its request goes on.
LEMMA RequestTimesOutKeeps ==
    ASSUME ProxyInv, RequestTimesOut
    PROVE  ProxyInv'
<1>0. /\ UNCHANGED <<enabled, primary, version, state, queue, delayed, file, proc, unapplied,
                     unreported, asked>>
      /\ faults' \in 0..MaxFaults
      /\ job \in Jobs /\ job # None /\ job' = [job EXCEPT !.phase = "report", !.result = "failed"]
  BY ProxyAssumption DEF ProxyInv, TypeOK, RequestTimesOut, Fault, settings, nodeVars
<1>a. /\ req' \in [Whose -> Requests \cup {None}] /\ req'["job"] = None
      /\ excused' \in SUBSET Nodes /\ excused \subseteq excused' /\ LeftIsExcused'
  BY <1>0, LeaveShape DEF RequestTimesOut
<1>b. /\ job' \in Jobs /\ job' # None /\ job'.phase = "report" /\ job'.result = "failed"
      /\ job'.msg = job.msg /\ job'.version = job.version
  <2>1. job' \in Jobs /\ job'.phase = "report" /\ job'.result = "failed"
        /\ job'.msg = job.msg /\ job'.version = job.version
    BY <1>0 DEF Jobs
  <2> QED
    BY <2>1, NoneAssumption
<1>1. TypeOK' /\ version' <= asked'
  BY <1>0, <1>a, <1>b DEF ProxyInv, TypeOK
<1>2. LeftIsExcused'
  BY <1>a
<1>3. RequestFits'
  BY <1>a DEF RequestFits
<1>4. ReadyServes'
  BY <1>b DEF ReadyServes
<1>5. OutdatedIsFollowed'
  BY <1>0, <1>b, SamePending DEF settings
<1>6. ReadyIsCurrent'
  <2>1. \A n \in Nodes : Pending(n)' <=> Pending(n)
    BY <1>0, <1>b, SamePending DEF settings
  <2> QED
    BY <1>0, <1>a, <2>1 DEF ProxyInv, TypeOK, ReadyIsCurrent, Applied, Serves
<1>7. NoneHidden'
  BY <1>0, <1>a DEF ProxyInv, NoneHidden
<1> QED
  BY <1>1, <1>2, <1>3, <1>4, <1>5, <1>6, <1>7 DEF ProxyInv

\* The job is lost and the node marked.
LEMMA WorkerDiesKeeps ==
    ASSUME ProxyInv, WorkerDies
    PROVE  ProxyInv'
<1>0. /\ UNCHANGED <<enabled, primary, version, state, queue, delayed, file, proc, unapplied,
                     asked>>
      /\ faults' \in 0..MaxFaults
      /\ job \in Jobs /\ job # None /\ job' = None /\ job.msg \in Messages
      /\ unreported' = unreported \cup {job.msg.node} /\ job.msg.node \in Nodes
  <2>1. job \in Jobs
    BY DEF ProxyInv, TypeOK, WorkerDies
  <2>2. job.msg \in Messages /\ job.msg.node \in Nodes
    BY <2>1 DEF Jobs, Messages
  <2> QED
    BY <2>2, ProxyAssumption DEF ProxyInv, TypeOK, WorkerDies, Lost, Fault, settings,
       nodeVars
<1>a. /\ req' \in [Whose -> Requests \cup {None}] /\ req'["job"] = None
      /\ excused' \in SUBSET Nodes /\ excused \subseteq excused' /\ LeftIsExcused'
  BY <1>0, LeaveShape DEF WorkerDies
<1>1. TypeOK' /\ version' <= asked'
  BY <1>0, <1>a DEF ProxyInv, TypeOK
<1>2. LeftIsExcused'
  BY <1>a
<1>3. RequestFits'
  BY <1>a DEF RequestFits
<1>4. ReadyServes'
  BY <1>0 DEF ReadyServes
<1>5. OutdatedIsFollowed'
  BY <1>0 DEF OutdatedIsFollowed
<1>6. ReadyIsCurrent'
  <2>1. \A n \in Nodes \ unreported' : Pending(n) => Pending(n)'
    BY <1>0 DEF Pending
  <2> QED
    BY <1>0, <1>a, <2>1 DEF ProxyInv, TypeOK, ReadyIsCurrent, Applied, Serves
<1>7. NoneHidden'
  BY <1>0, <1>a DEF ProxyInv, NoneHidden
<1> QED
  BY <1>1, <1>2, <1>3, <1>4, <1>5, <1>6, <1>7 DEF ProxyInv

\* The process dies and the node is marked.
LEMMA ProcessDiesKeeps ==
    ASSUME ProxyInv, NEW n \in Nodes, ProcessDies(n)
    PROVE  ProxyInv'
<1>0. /\ UNCHANGED <<enabled, primary, version, state, queue, delayed, job, req, file, unapplied,
                     unreported, asked>>
      /\ faults' \in 0..MaxFaults /\ 0 \in Versions
      /\ proc' = [proc EXCEPT ![n] = 0] /\ excused' = excused \cup {n}
  BY ProxyAssumption DEF ProxyInv, TypeOK, ProcessDies, Fault, Versions, settings, jobVars
<1>1. TypeOK' /\ version' <= asked'
  BY <1>0 DEF ProxyInv, TypeOK
<1>2. LeftIsExcused'
  BY <1>0 DEF ProxyInv, LeftIsExcused
<1>3. RequestFits'
  BY <1>0 DEF ProxyInv, TypeOK, RequestFits, Progress
<1>4. ReadyServes'
  BY <1>0 DEF ProxyInv, TypeOK, ReadyServes, Serves
<1>5. OutdatedIsFollowed'
  BY <1>0, SamePending DEF settings
<1>6. ReadyIsCurrent'
  BY <1>0 DEF ProxyInv, ReadyIsCurrent, Applied, Pending, Serves
<1>7. NoneHidden'
  BY <1>0 DEF ProxyInv, TypeOK, NoneHidden
<1> QED
  BY <1>1, <1>2, <1>3, <1>4, <1>5, <1>6, <1>7 DEF ProxyInv

\* The node restarts: its requests end, and the process comes from the file or the node
\* is marked.
LEMMA NodeRestartsKeeps ==
    ASSUME ProxyInv, NEW n \in Nodes, NodeRestarts(n)
    PROVE  ProxyInv'
<1>1. PICK v \in {file[n], 0} :
        /\ proc' = [proc EXCEPT ![n] = v]
        /\ excused' = IF v # file[n] THEN excused \cup {n} ELSE excused
  BY DEF NodeRestarts
<1>2. /\ UNCHANGED <<enabled, primary, version, state, queue, delayed, file, unapplied,
                     unreported, asked>>
      /\ faults' \in 0..MaxFaults /\ v \in Versions
      /\ req' = [w \in Whose |-> IF On(w, n) THEN None ELSE req[w]]
      /\ req \in [Whose -> Requests \cup {None}]
  BY ProxyAssumption DEF ProxyInv, TypeOK, NodeRestarts, Fault, Versions, settings
<1>3. /\ req' \in [Whose -> Requests \cup {None}]
      /\ \A w \in Whose : req'[w] # None => req'[w] = req[w] /\ req[w].node # n
      /\ \A w \in Whose : ~On(w, n) => req'[w] = req[w]
      /\ \A w \in Whose : On(w, n) => req'[w] = None
  BY <1>2 DEF On
<1>4. /\ job = None <=> job' = None
      /\ job # None => job'.msg = job.msg /\ job'.version = job.version
      /\ job' \in Jobs \cup {None}
      /\ On("job", n) => job' # None /\ job'.phase = "report" /\ job'.result = "failed"
      /\ ~On("job", n) => job' = job
  <2>1. CASE On("job", n)
    <3>1. job \in Jobs /\ job' = [job EXCEPT !.phase = "report", !.result = "failed"]
      BY <2>1, Waiting DEF ProxyInv, NodeRestarts, On
    <3>2. /\ job' \in Jobs /\ job'.phase = "report" /\ job'.result = "failed"
          /\ job'.msg = job.msg /\ job'.version = job.version
      BY <3>1 DEF Jobs
    <3> QED
      BY <2>1, <3>1, <3>2, NoneAssumption
  <2>2. CASE ~On("job", n)
    BY <2>2 DEF ProxyInv, TypeOK, NodeRestarts
  <2> QED
    BY <2>1, <2>2
<1>5. /\ proc' \in [Nodes -> Versions] /\ proc'[n] = v /\ excused' \in SUBSET Nodes
      /\ excused \subseteq excused' /\ (n \notin excused' => v = file[n])
      /\ \A k \in Nodes \ {n} : proc'[k] = proc[k] /\ (k \in excused' <=> k \in excused)
  BY <1>1, <1>2 DEF ProxyInv, TypeOK
<1>6. TypeOK' /\ version' <= asked'
  <2>1. CASE On("job", n)
    BY <1>2, <1>4, <1>5 DEF ProxyInv, TypeOK, Whose
  <2>2. CASE ~On("job", n)
    BY <1>2, <1>4, <1>5 DEF ProxyInv, TypeOK, Whose
  <2> QED
    BY <2>1, <2>2
<1>7. LeftIsExcused'
  BY <1>3, <1>5 DEF ProxyInv, LeftIsExcused, Whose
<1>8. RequestFits'
  <2>1. CASE req'["job"] = None
    BY <2>1 DEF RequestFits
  <2>2. CASE req'["job"] # None
    <3>1. req'["job"] = req["job"] /\ req["job"].node # n /\ job' = job
      BY <1>3, <1>4, <2>2 DEF Whose, On
    <3>2. req["job"].node \in Nodes
      BY <2>2, <3>1, HandlerTypes DEF Whose
    <3> QED
      BY <1>2, <1>5, <3>1, <3>2 DEF ProxyInv, RequestFits, Progress
  <2> QED
    BY <2>1, <2>2
<1>9. ReadyServes'
  <2>1. job # None => job.msg.node \in Nodes
    BY DEF ProxyInv, TypeOK, Jobs, Messages
  <2> QED
    BY <1>2, <1>4, <1>5, <2>1 DEF ProxyInv, ReadyServes, Serves
<1>10. OutdatedIsFollowed' /\ \A k \in Nodes : Pending(k)' <=> Pending(k)
  BY <1>2, <1>4, SamePending DEF settings
<1>11. ReadyIsCurrent'
  BY <1>2, <1>5, <1>10 DEF ProxyInv, TypeOK, ReadyIsCurrent, Applied, Serves
<1>12. NoneHidden'
  BY <1>2, <1>5 DEF ProxyInv, NoneHidden
<1> QED
  BY <1>6, <1>7, <1>8, <1>9, <1>10, <1>11, <1>12 DEF ProxyInv

-----------------------------------------------------------------------------
(* The theorems.                                                           *)

\* Nothing runs and nothing is configured.
LEMMA InitHolds == Init => ProxyInv
<1> SUFFICES ASSUME Init
             PROVE  ProxyInv
  OBVIOUS
<1>1. 0 \in Versions /\ 0 \in 0..MaxRequests /\ 0 \in 0..MaxFaults
  BY ProxyAssumption DEF Versions
<1>2. req \in [Whose -> Requests \cup {None}] /\ req["job"] = None /\ req["left"] = None
  BY DEF Init, Whose
<1>5. enabled \in BOOLEAN /\ unapplied \in BOOLEAN
  BY Zenon DEF Init
<1>6. TypeOK /\ version <= asked
  BY <1>1, <1>2, <1>5 DEF Init, TypeOK
<1> QED
  BY <1>2, <1>6 DEF Init, ProxyInv, LeftIsExcused, RequestFits, ReadyServes,
     OutdatedIsFollowed, ReadyIsCurrent, Applied, NoneHidden

\* The invariant is inductive.
LEMMA NextKeeps == ProxyInv /\ [Next]_vars => ProxyInv'
<1> SUFFICES ASSUME ProxyInv, [Next]_vars
             PROVE  ProxyInv'
  OBVIOUS
<1>1. ASSUME NEW w \in Whose, Handle(w)
      PROVE  ProxyInv'
  BY <1>1, WriteConfigKeeps, ReadStatusKeeps, RestartKeeps, StartKeeps, AnswerApplyKeeps,
     StopProcessKeeps, RemoveConfigKeeps DEF Handle
<1>2. CASE UNCHANGED vars
  <2>1. UNCHANGED <<enabled, primary, version, state, queue, delayed, job, req, file, proc,
                    unapplied, excused, unreported, asked, faults>>
    BY <1>2 DEF vars, settings, jobVars, nodeVars, ghosts, bounds
  <2>2. TypeOK' /\ version' <= asked'
    BY <2>1 DEF ProxyInv, TypeOK
  <2>3. LeftIsExcused' /\ RequestFits' /\ ReadyServes' /\ NoneHidden'
    BY <2>1 DEF ProxyInv, LeftIsExcused, RequestFits, Progress, ReadyServes, Serves, NoneHidden
  <2>4. OutdatedIsFollowed' /\ ReadyIsCurrent'
    BY <2>1 DEF ProxyInv, OutdatedIsFollowed, ReadyIsCurrent, Applied, Queued, Pending, Serves
  <2> QED
    BY <2>2, <2>3, <2>4 DEF ProxyInv
<1> QED
  BY <1>1, <1>2, UpdateSettingsKeeps, ApplyProxyKeeps, DisableProxyKeeps,
     RotateSecretKeeps, TakeJobKeeps, SendRequestKeeps, ReportResultKeeps, LoseReportKeeps,
     MessageComesKeeps, RequestTimesOutKeeps, WorkerDiesKeeps, ProcessDiesKeeps,
     NodeRestartsKeeps DEF Next

\* The inductive invariant holds in every state, whatever the number of nodes, requests,
\* and faults.
THEOREM ProxyInvariant == Spec => []ProxyInv
BY InitHolds, NextKeeps, PTL DEF Spec

\* Type correctness of the settings, the job queue, the requests and the nodes: a job
\* waits exactly while the agent holds its request.
THEOREM ProxyTypes == Spec => []TypeOK
<1>1. ProxyInv => TypeOK
  BY DEF ProxyInv
<1> QED
  BY <1>1, ProxyInvariant, PTL

\* The link of the public page names the configuration its node serves, once the jobs of
\* the node are over, no settings wait to be applied, no fault is left unrepaired and no
\* job was lost without a report since.
THEOREM LinksAreServed == Spec => []LinkIsServed
<1>1. ProxyInv => LinkIsServed
  BY DEF ProxyInv, ReadyIsCurrent, Applied, Serves, LinkIsServed, LinkShown, PrimaryReady, Quiet
<1> QED
  BY <1>1, ProxyInvariant, PTL

\* No process runs on a node without a configuration, where parse_mtproxy_status would
\* not show it.
THEOREM ProcessesAreVisible == Spec => []NoHiddenProcess
<1>1. ProxyInv => NoHiddenProcess
  BY DEF ProxyInv, NoneHidden, NoHiddenProcess
<1> QED
  BY <1>1, ProxyInvariant, PTL
=============================================================================
