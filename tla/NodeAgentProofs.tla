-------------------------- MODULE NodeAgentProofs --------------------------
(***************************************************************************)
(* The safety of a VPN node, proved for any number of peers, changes in    *)
(* the panel and faults: one lemma per step shows that it keeps NodeInv,   *)
(* and the properties of NodeAgent follow from it.                         *)
(***************************************************************************)
EXTENDS NodeAgent, TLAPS

\* What the step of a request tells about its fields.
LEMMA RequestShape ==
    ASSUME TypeOK, NEW w \in Whose, req[w] # None
    PROVE  /\ req[w] \in Requests
           /\ req[w].step \in {"save", "apply"} =>
                 /\ req[w].peer = None /\ req[w].version \in Versions
                 /\ [req[w] EXCEPT !.step = "apply"] \in Requests
           /\ req[w].step \notin {"save", "apply"} =>
                 /\ req[w].peer \in Peers /\ req[w].peer # None
                 /\ \A s \in {"persist", "unpersist"} : [req[w] EXCEPT !.step = s] \in Requests
<1>1. req[w] \in Requests
  BY DEF TypeOK
<1>2. CASE req[w] \in [peer : {None}, version : Versions, step : {"save", "apply"}]
  BY <1>1, <1>2 DEF Requests
<1>3. CASE req[w] \in [peer : Peers, version : {0}, step : {"set", "persist", "remove", "unpersist"}]
  BY <1>1, <1>3, AgentAssumption DEF Requests
<1> QED
  BY <1>1, <1>2, <1>3 DEF Requests

\* A request is a record, never None.
LEMMA NoneNoRequest == None \notin Requests
BY NoneAssumption

\* The panel changes rows and settings, and releases nothing by itself.
LEMMA ChangePanelKeeps ==
    ASSUME NodeInv, ChangePanel
    PROVE  NodeInv'
<1>1. TypeOK' /\ (boot' # None => ~up') /\ want' <= changes' + 1
  BY AgentAssumption DEF NodeInv, TypeOK, Versions, ChangePanel, Change, tunnelVars, liveVars,
     fileVars
<1>2. LeftIsMarked'
  BY DEF NodeInv, LeftIsMarked, ChangePanel
<1>3. HalfDone'
  BY DEF NodeInv, HalfDone, Half, ChangePanel, tunnelVars, liveVars
<1>4. StoresAgree'
  BY DEF NodeInv, StoresAgree, Half, ChangePanel, tunnelVars, liveVars, fileVars
<1>5. ReleasedIsGone'
  BY DEF NodeInv, TypeOK, ReleasedIsGone, Gone, ChangePanel, tunnelVars, liveVars, fileVars
<1> QED
  BY <1>1, <1>2, <1>3, <1>4, <1>5 DEF NodeInv

\* A job is made from a snapshot of the rows: released peers are not in it.
LEMMA StartSyncKeeps ==
    ASSUME NodeInv, StartSync
    PROVE  NodeInv'
<1>1. TypeOK' /\ (boot' # None => ~up') /\ want' <= changes' + 1
  BY DEF NodeInv, TypeOK, Jobs, StartSync, jobFrame, panelVars, tunnelVars, liveVars,
     fileVars
<1>2. LeftIsMarked'
  BY DEF NodeInv, LeftIsMarked, StartSync, jobFrame
<1>3. HalfDone'
  BY DEF NodeInv, HalfDone, Half, StartSync, jobFrame, tunnelVars, liveVars
<1>4. StoresAgree'
  BY DEF NodeInv, StoresAgree, Half, StartSync, jobFrame, tunnelVars, liveVars, fileVars
<1>5. ReleasedIsGone'
  BY DEF NodeInv, ReleasedIsGone, Gone, StartSync, jobFrame, panelVars, tunnelVars, liveVars,
     fileVars
<1> QED
  BY <1>1, <1>2, <1>3, <1>4, <1>5 DEF NodeInv

\* PUT /interface is sent.
LEMMA SendInterfaceKeeps ==
    ASSUME NodeInv, SendInterface
    PROVE  NodeInv'
<1>1. TypeOK' /\ (boot' # None => ~up') /\ want' <= changes' + 1
  BY DEF NodeInv, TypeOK, Jobs, Requests, SendInterface, jobFrame, panelVars, tunnelVars,
     liveVars, fileVars
<1>2. LeftIsMarked'
  BY DEF NodeInv, LeftIsMarked, SendInterface, jobFrame
<1>3. HalfDone'
  BY DEF NodeInv, HalfDone, Half, SendInterface, jobFrame, tunnelVars, liveVars
<1>4. StoresAgree'
  BY DEF NodeInv, StoresAgree, Half, SendInterface, jobFrame, tunnelVars, liveVars, fileVars
<1>5. ReleasedIsGone'
  BY AgentAssumption DEF NodeInv, ReleasedIsGone, Gone, SendInterface, jobFrame, panelVars,
     tunnelVars, liveVars, fileVars
<1> QED
  BY <1>1, <1>2, <1>3, <1>4, <1>5 DEF NodeInv

\* The answer of /status only narrows what the job still has to do.
LEMMA ReadStatusKeeps ==
    ASSUME NodeInv, ReadStatus
    PROVE  NodeInv'
<1>0. UNCHANGED <<row, want, req, up, boot, live, liveIf, saved, savedIf, broken, gaveUp, torn, changes, faults>>
  BY DEF ReadStatus, jobFrame, panelVars, tunnelVars, liveVars, fileVars
<1>1. TypeOK' /\ (boot' # None => ~up') /\ want' <= changes' + 1
  BY <1>0 DEF NodeInv, TypeOK, Jobs, ReadStatus
<1>2. LeftIsMarked'
  BY <1>0 DEF NodeInv, LeftIsMarked
<1>3. HalfDone'
  BY <1>0 DEF NodeInv, HalfDone, Half
<1>4. StoresAgree'
  BY <1>0 DEF NodeInv, StoresAgree, Half
<1>5. ReleasedIsGone'
  BY <1>0 DEF NodeInv, TypeOK, Jobs, ReleasedIsGone, Gone, ReadStatus
<1> QED
  BY <1>1, <1>2, <1>3, <1>4, <1>5 DEF NodeInv

\* PUT of a peer is sent.
LEMMA SendPutKeeps ==
    ASSUME NodeInv, NEW p \in Peers, SendPut(p)
    PROVE  NodeInv'
<1>1. TypeOK' /\ (boot' # None => ~up') /\ want' <= changes' + 1
  <2>1. [peer |-> p, version |-> 0, step |-> "set"] \in Requests
    BY DEF Requests
  <2>2. [job EXCEPT !.put = @ \ {p}] \in Jobs /\ [job EXCEPT !.put = @ \ {p}].phase = "peers"
    BY DEF NodeInv, TypeOK, Jobs, SendPut
  <2>3. job' \in Jobs /\ job'.phase = "peers"
    BY <2>2 DEF SendPut
  <2>4. req' \in [Whose -> Requests \cup {None}]
    BY <2>1 DEF NodeInv, TypeOK, Whose, SendPut
  <2>5. job' # None
    BY <2>3, NoneAssumption
  <2> QED
    BY <2>3, <2>4, <2>5 DEF NodeInv, TypeOK, SendPut, jobFrame, panelVars, tunnelVars,
       liveVars, fileVars
<1>2. LeftIsMarked'
  BY DEF NodeInv, LeftIsMarked, SendPut, jobFrame
<1>3. HalfDone'
  BY DEF NodeInv, HalfDone, Half, SendPut, jobFrame, tunnelVars, liveVars
<1>4. StoresAgree'
  BY DEF NodeInv, StoresAgree, Half, SendPut, jobFrame, tunnelVars, liveVars, fileVars
<1>5. ReleasedIsGone'
  BY DEF NodeInv, ReleasedIsGone, Gone, SendPut, jobFrame, panelVars, tunnelVars, liveVars,
     fileVars
<1> QED
  BY <1>1, <1>2, <1>3, <1>4, <1>5 DEF NodeInv

\* DELETE of a peer is sent, or lost if no route matches its key.
LEMMA SendDeleteKeeps ==
    ASSUME NodeInv, NEW p \in Peers, SendDelete(p)
    PROVE  NodeInv'
<1>1. TypeOK' /\ (boot' # None => ~up') /\ want' <= changes' + 1
  <2>1. [peer |-> p, version |-> 0, step |-> "remove"] \in Requests
    BY DEF Requests
  <2>2. [job EXCEPT !.del = @ \ {p}] \in Jobs /\ [job EXCEPT !.del = @ \ {p}].phase = "peers"
    BY DEF NodeInv, TypeOK, Jobs, SendDelete
  <2>3. job' \in Jobs /\ job'.phase = "peers"
    BY <2>2 DEF SendDelete
  <2>4. req' \in [Whose -> Requests \cup {None}]
    BY <2>1 DEF NodeInv, TypeOK, Whose, SendDelete
  <2>5. job' # None
    BY <2>3, NoneAssumption
  <2> QED
    BY <2>3, <2>4, <2>5 DEF NodeInv, TypeOK, SendDelete, jobFrame, panelVars, tunnelVars,
       liveVars, fileVars
<1>2. LeftIsMarked'
  BY DEF NodeInv, LeftIsMarked, SendDelete, jobFrame
<1>3. HalfDone'
  BY DEF NodeInv, HalfDone, Half, SendDelete, jobFrame, tunnelVars, liveVars
<1>4. StoresAgree'
  BY DEF NodeInv, StoresAgree, Half, SendDelete, jobFrame, tunnelVars, liveVars, fileVars
<1>5. ReleasedIsGone'
  BY DEF NodeInv, ReleasedIsGone, Gone, SendDelete, jobFrame, panelVars, tunnelVars, liveVars,
     fileVars
<1> QED
  BY <1>1, <1>2, <1>3, <1>4, <1>5 DEF NodeInv

\* No handler of the job is between its halves when the dump is taken, so a peer the
\* dump does not show is not in the file either.
LEMMA TakeDumpKeeps ==
    ASSUME NodeInv, TakeDump
    PROVE  NodeInv'
<1>1. TypeOK' /\ (boot' # None => ~up') /\ want' <= changes' + 1
  BY DEF NodeInv, TypeOK, Jobs, TakeDump, jobFrame, panelVars, tunnelVars, liveVars, fileVars
<1>2. LeftIsMarked'
  BY DEF NodeInv, LeftIsMarked, TakeDump, jobFrame
<1>3. HalfDone'
  BY DEF NodeInv, HalfDone, Half, TakeDump, jobFrame, tunnelVars, liveVars
<1>4. StoresAgree'
  BY DEF NodeInv, StoresAgree, Half, TakeDump, jobFrame, tunnelVars, liveVars, fileVars
<1>5. ReleasedIsGone'
  BY AgentAssumption DEF NodeInv, Whose, ReleasedIsGone, Gone, StoresAgree, LeftIsMarked,
     Half, TakeDump, jobFrame, panelVars, tunnelVars, liveVars, fileVars
<1> QED
  BY <1>1, <1>2, <1>3, <1>4, <1>5 DEF NodeInv

\* The panel releases what the dump did not show, which is still gone.
LEMMA ReportSyncKeeps ==
    ASSUME NodeInv, ReportSync
    PROVE  NodeInv'
<1>1. TypeOK' /\ (boot' # None => ~up') /\ want' <= changes' + 1
  BY DEF NodeInv, TypeOK, ReportSync, Confirmed, tunnelVars, liveVars, fileVars
<1>2. LeftIsMarked'
  BY DEF NodeInv, LeftIsMarked, ReportSync
<1>3. HalfDone'
  BY DEF NodeInv, HalfDone, Half, ReportSync, tunnelVars, liveVars
<1>4. StoresAgree'
  BY DEF NodeInv, StoresAgree, Half, ReportSync, tunnelVars, liveVars, fileVars
<1>5. ReleasedIsGone'
  BY DEF NodeInv, TypeOK, ReleasedIsGone, Gone, ReportSync, Confirmed, tunnelVars, liveVars,
     fileVars
<1> QED
  BY <1>1, <1>2, <1>3, <1>4, <1>5 DEF NodeInv

\* The first half of PUT /interface, or all of it when nothing changed.
LEMMA SaveInterfaceKeeps ==
    ASSUME NodeInv, NEW w \in Whose, SaveInterface(w)
    PROVE  NodeInv'
<1>1. TypeOK' /\ (boot' # None => ~up') /\ want' <= changes' + 1
  <2>0. req[w] # None /\ w \in Whose /\ req[w].version \in Versions
    BY RequestShape DEF NodeInv, SaveInterface, Handler
  <2>1. [req[w] EXCEPT !.step = "apply"] \in Requests
    BY <2>0, RequestShape DEF NodeInv, SaveInterface, Handler
  <2>2. req' \in [Whose -> Requests \cup {None}]
    BY <2>1 DEF NodeInv, TypeOK, SaveInterface, Goto, Answer
  <2>3. job' \in Jobs \cup {None} /\ (job # None => job' # None)
    <3>1. CASE job' = job
      BY <3>1 DEF NodeInv, TypeOK
    <3>2. CASE job' = [job EXCEPT !.phase = "status"] /\ job # None
      <4>1. job' \in Jobs
        BY <3>2 DEF NodeInv, TypeOK, Jobs
      <4> QED
        BY <4>1, NoneAssumption
    <3>3. job' = job \/ (job' = [job EXCEPT !.phase = "status"] /\ job # None)
      BY <2>0 DEF NodeInv, TypeOK, SaveInterface, Goto, Answer
    <3> QED
      BY <3>1, <3>2, <3>3
  <2>4. req'["job"] # None => req["job"] # None /\ job' = job
    BY <2>0 DEF NodeInv, TypeOK, Whose, SaveInterface, Goto, Answer
  <2>5. /\ savedIf' \in Versions \cup {0, None}
        /\ savedIf # None => savedIf' # None
    <3>1. \A v \in Versions : v # None
      BY AgentAssumption DEF Versions
    <3> QED
      BY <2>0, <3>1 DEF NodeInv, TypeOK, SaveInterface, fileVars
  <2> QED
    BY <2>2, <2>3, <2>4, <2>5 DEF NodeInv, TypeOK, SaveInterface, Handler, panelVars,
       tunnelVars, liveVars, fileVars
<1>2. LeftIsMarked'
  BY DEF NodeInv, TypeOK, Requests, Whose, LeftIsMarked, SaveInterface, Handler, Goto, Answer,
     AloneOn
<1>3. HalfDone'
  BY DEF NodeInv, TypeOK, Requests, Whose, HalfDone, Half, SaveInterface, Handler, Goto,
     Answer, tunnelVars, liveVars
<1>4. StoresAgree'
  BY DEF NodeInv, TypeOK, StoresAgree, Half, SaveInterface, Handler, Goto, Answer, tunnelVars,
     liveVars, fileVars
<1>5. ReleasedIsGone'
  BY DEF NodeInv, TypeOK, Jobs, Requests, Whose, ReleasedIsGone, Gone, SaveInterface, Handler,
     Goto, Answer, panelVars, tunnelVars, liveVars, fileVars
<1> QED
  BY <1>1, <1>2, <1>3, <1>4, <1>5 DEF NodeInv

\* The second half: what is applied is what a job has just saved.
LEMMA ApplyInterfaceKeeps ==
    ASSUME NodeInv, NEW w \in Whose, ApplyInterface(w)
    PROVE  NodeInv'
<1>1. TypeOK' /\ (boot' # None => ~up') /\ want' <= changes' + 1
  BY RequestShape DEF NodeInv, TypeOK, Jobs, Whose, ApplyInterface, Handler, Answer,
     panelVars, tunnelVars, fileVars
<1>2. LeftIsMarked'
  BY DEF NodeInv, TypeOK, LeftIsMarked, ApplyInterface, Answer
<1>3. HalfDone'
  BY DEF NodeInv, HalfDone, Half, ApplyInterface, Handler, Answer, tunnelVars
<1>4. StoresAgree'
  BY DEF NodeInv, StoresAgree, Half, ApplyInterface, Handler, Answer, tunnelVars, fileVars
<1>5. ReleasedIsGone'
  BY DEF NodeInv, TypeOK, ReleasedIsGone, Gone, ApplyInterface, Handler, Answer, panelVars,
     tunnelVars, fileVars
<1> QED
  BY <1>1, <1>2, <1>3, <1>4, <1>5 DEF NodeInv

\* The first half of PUT of a peer.  A request beside it for the same peer is the one
\* left behind, so the peer stays marked.
LEMMA SetPeerKeeps ==
    ASSUME NodeInv, NEW w \in Whose, SetPeer(w)
    PROVE  NodeInv'
<1>1. TypeOK' /\ (boot' # None => ~up') /\ want' <= changes' + 1
  BY RequestShape DEF NodeInv, TypeOK, Whose, SetPeer, Handler, Goto, Mends, Refuse,
     panelVars, tunnelVars, fileVars
<1>2. LeftIsMarked'
  BY DEF NodeInv, TypeOK, Requests, Whose, LeftIsMarked, SetPeer, Handler, Goto, Mends,
     AloneOn, Refuse
<1>3. HalfDone' /\ StoresAgree'
  <2>0. req[w] # None /\ req[w].step = "set" /\ req[w].peer \in Peers /\ w \in Whose
    BY RequestShape DEF NodeInv, SetPeer, Handler
  <2>1. up' = up /\ boot' = boot /\ saved' = saved
    BY DEF SetPeer, Handler, tunnelVars, fileVars
  <2>2. req \in [Whose -> Requests \cup {None}]
    BY DEF NodeInv, TypeOK
  <2>3. CASE ~up
    <3>1. req' = [req EXCEPT ![w] = None] /\ live' = live /\ torn' = torn
      BY <2>3 DEF SetPeer, Refuse
    <3>2. \A x \in Whose : req'[x] # None => req'[x] = req[x]
      BY <3>1, <2>2
    <3>3. \A x \in Whose : Half(x) => req'[x] = req[x]
      BY <3>1, <2>0, <2>2 DEF Half
    <3> QED
      BY <2>1, <3>1, <3>2, <3>3 DEF NodeInv, HalfDone, Half, StoresAgree
  <2>4. CASE up
    <3>1. req' = [req EXCEPT ![w].step = "persist"] /\ live' = live \cup {req[w].peer} /\ Mends(w)
      BY <2>4 DEF SetPeer, Goto
    <3>2. req'[w] = [req[w] EXCEPT !.step = "persist"]
      BY <2>0, <2>2, <3>1
    <3>3. req'[w].step = "persist" /\ req'[w].peer = req[w].peer /\ req'[w] # None
      <4>1. req[w] \in Requests
        BY <2>0, RequestShape DEF NodeInv
      <4>2. req'[w].step = "persist" /\ req'[w].peer = req[w].peer
        BY <3>2, <4>1 DEF Requests
      <4>3. req'[w] \in Requests
        BY <2>0, <3>2, RequestShape DEF NodeInv
      <4> QED
        BY <4>2, <4>3, NoneNoRequest
    <3>4. \A x \in Whose : x # w => req'[x] = req[x]
      BY <2>2, <3>1
    <3>5. \A p \in Peers \ torn' : p # req[w].peer => p \notin torn
      BY <3>1 DEF Mends
    <3>6. ASSUME NEW x \in Whose, x # w, Half(x), req[x].peer \notin torn'
          PROVE  req[x].peer # req[w].peer
      <4>1. SUFFICES ASSUME req[x].peer = req[w].peer
                     PROVE  FALSE
        OBVIOUS
      <4>2. torn' = torn
        BY <2>0, <3>1, <3>6, <4>1 DEF Mends, AloneOn, Half
      <4>3. req[w].peer # None
        BY <2>0, AgentAssumption
      <4>4. req["left"] # None /\ req["left"].peer = req[w].peer
        BY <2>0, <3>6, <4>1 DEF Whose, Half
      <4> QED
        BY <3>6, <4>1, <4>2, <4>3, <4>4 DEF NodeInv, LeftIsMarked
    <3>7. ASSUME NEW x \in Whose, Half(x)', req'[x].peer \notin torn'
          PROVE  up' /\ (req'[x].peer \in live' <=> req'[x].step = "persist")
      <4>1. CASE x = w
        BY <2>1, <2>4, <3>1, <3>3, <4>1
      <4>2. CASE x # w
        <5>1. req'[x] = req[x] /\ Half(x)
          BY <3>4, <3>7, <4>2 DEF Half
        <5>2. req[x].peer # req[w].peer
          BY <3>6, <3>7, <4>2, <5>1
        <5>3. req[x].peer \in Peers
          BY <5>1, RequestShape DEF NodeInv, Half
        <5>4. req[x].peer \notin torn
          BY <3>5, <3>7, <5>1, <5>2, <5>3
        <5> QED
          BY <2>1, <2>4, <3>1, <5>1, <5>2, <5>4 DEF NodeInv, HalfDone
      <4> QED
        BY <4>1, <4>2
    <3>8. ASSUME NEW p \in Peers \ torn', \A x \in Whose : Half(x)' => req'[x].peer # p
          PROVE  /\ up' => (p \in live' <=> p \in saved')
                 /\ boot' # None => (p \in boot'.peers <=> p \in saved')
      <4>1. p # req[w].peer
        BY <2>0, <3>3, <3>8 DEF Half
      <4>2. p \notin torn
        BY <3>5, <3>8, <4>1
      <4>3. \A x \in Whose : Half(x) => req[x].peer # p
        BY <2>0, <3>4, <3>8 DEF Half
      <4> QED
        BY <2>1, <3>1, <4>1, <4>2, <4>3 DEF NodeInv, StoresAgree
    <3> QED
      BY <3>7, <3>8 DEF HalfDone, StoresAgree
  <2> QED
    BY <2>3, <2>4 DEF NodeInv, TypeOK
<1>4. ReleasedIsGone'
  BY RequestShape DEF NodeInv, TypeOK, Requests, Whose, ReleasedIsGone, Gone, LeftIsMarked,
     SetPeer, Handler, Goto, Mends, Refuse, panelVars, tunnelVars, fileVars
<1> QED
  BY <1>1, <1>2, <1>3, <1>4 DEF NodeInv

\* The second half of PUT of a peer brings the file to the interface.
LEMMA PersistPeerKeeps ==
    ASSUME NodeInv, NEW w \in Whose, PersistPeer(w)
    PROVE  NodeInv'
<1>1. TypeOK' /\ (boot' # None => ~up') /\ want' <= changes' + 1
  BY RequestShape DEF NodeInv, TypeOK, Jobs, Whose, PersistPeer, Handler, Answer, panelVars,
     tunnelVars, liveVars
<1>2. LeftIsMarked'
  BY DEF NodeInv, LeftIsMarked, PersistPeer, Answer
<1>3. HalfDone'
  BY DEF NodeInv, HalfDone, Half, PersistPeer, Handler, Answer, tunnelVars, liveVars
<1>4. StoresAgree'
  BY DEF NodeInv, StoresAgree, Half, HalfDone, PersistPeer, Handler, Answer, tunnelVars,
     liveVars
<1>5. ReleasedIsGone'
  BY RequestShape DEF NodeInv, TypeOK, Whose, ReleasedIsGone, Gone, LeftIsMarked, PersistPeer,
     Handler, Answer, panelVars, tunnelVars, liveVars
<1> QED
  BY <1>1, <1>2, <1>3, <1>4, <1>5 DEF NodeInv

\* The first half of DELETE of a peer; as SetPeer.
LEMMA RemovePeerKeeps ==
    ASSUME NodeInv, NEW w \in Whose, RemovePeer(w)
    PROVE  NodeInv'
<1>1. TypeOK' /\ (boot' # None => ~up') /\ want' <= changes' + 1
  BY RequestShape DEF NodeInv, TypeOK, Whose, RemovePeer, Handler, Goto, Mends, Refuse,
     panelVars, tunnelVars, fileVars
<1>2. LeftIsMarked'
  BY DEF NodeInv, TypeOK, Requests, Whose, LeftIsMarked, RemovePeer, Handler, Goto, Mends,
     AloneOn, Refuse
<1>3. HalfDone' /\ StoresAgree'
  <2>0. req[w] # None /\ req[w].step = "remove" /\ req[w].peer \in Peers /\ w \in Whose
    BY RequestShape DEF NodeInv, RemovePeer, Handler
  <2>1. up' = up /\ boot' = boot /\ saved' = saved
    BY DEF RemovePeer, Handler, tunnelVars, fileVars
  <2>2. req \in [Whose -> Requests \cup {None}]
    BY DEF NodeInv, TypeOK
  <2>3. CASE ~up
    <3>1. req' = [req EXCEPT ![w] = None] /\ live' = live /\ torn' = torn
      BY <2>3 DEF RemovePeer, Refuse
    <3>2. \A x \in Whose : req'[x] # None => req'[x] = req[x]
      BY <3>1, <2>2
    <3>3. \A x \in Whose : Half(x) => req'[x] = req[x]
      BY <3>1, <2>0, <2>2 DEF Half
    <3> QED
      BY <2>1, <3>1, <3>2, <3>3 DEF NodeInv, HalfDone, Half, StoresAgree
  <2>4. CASE up
    <3>1. req' = [req EXCEPT ![w].step = "unpersist"] /\ live' = live \ {req[w].peer} /\ Mends(w)
      BY <2>4 DEF RemovePeer, Goto
    <3>2. req'[w] = [req[w] EXCEPT !.step = "unpersist"]
      BY <2>0, <2>2, <3>1
    <3>3. req'[w].step = "unpersist" /\ req'[w].peer = req[w].peer /\ req'[w] # None
      <4>1. req[w] \in Requests
        BY <2>0, RequestShape DEF NodeInv
      <4>2. req'[w].step = "unpersist" /\ req'[w].peer = req[w].peer
        BY <3>2, <4>1 DEF Requests
      <4>3. req'[w] \in Requests
        BY <2>0, <3>2, RequestShape DEF NodeInv
      <4> QED
        BY <4>2, <4>3, NoneNoRequest
    <3>4. \A x \in Whose : x # w => req'[x] = req[x]
      BY <2>2, <3>1
    <3>5. \A p \in Peers \ torn' : p # req[w].peer => p \notin torn
      BY <3>1 DEF Mends
    <3>6. ASSUME NEW x \in Whose, x # w, Half(x), req[x].peer \notin torn'
          PROVE  req[x].peer # req[w].peer
      <4>1. SUFFICES ASSUME req[x].peer = req[w].peer
                     PROVE  FALSE
        OBVIOUS
      <4>2. torn' = torn
        BY <2>0, <3>1, <3>6, <4>1 DEF Mends, AloneOn, Half
      <4>3. req[w].peer # None
        BY <2>0, AgentAssumption
      <4>4. req["left"] # None /\ req["left"].peer = req[w].peer
        BY <2>0, <3>6, <4>1 DEF Whose, Half
      <4> QED
        BY <3>6, <4>1, <4>2, <4>3, <4>4 DEF NodeInv, LeftIsMarked
    <3>7. ASSUME NEW x \in Whose, Half(x)', req'[x].peer \notin torn'
          PROVE  up' /\ (req'[x].peer \in live' <=> req'[x].step = "persist")
      <4>1. CASE x = w
        BY <2>1, <2>4, <3>1, <3>3, <4>1
      <4>2. CASE x # w
        <5>1. req'[x] = req[x] /\ Half(x)
          BY <3>4, <3>7, <4>2 DEF Half
        <5>2. req[x].peer # req[w].peer
          BY <3>6, <3>7, <4>2, <5>1
        <5>3. req[x].peer \in Peers
          BY <5>1, RequestShape DEF NodeInv, Half
        <5>4. req[x].peer \notin torn
          BY <3>5, <3>7, <5>1, <5>2, <5>3
        <5> QED
          BY <2>1, <2>4, <3>1, <5>1, <5>2, <5>4 DEF NodeInv, HalfDone
      <4> QED
        BY <4>1, <4>2
    <3>8. ASSUME NEW p \in Peers \ torn', \A x \in Whose : Half(x)' => req'[x].peer # p
          PROVE  /\ up' => (p \in live' <=> p \in saved')
                 /\ boot' # None => (p \in boot'.peers <=> p \in saved')
      <4>1. p # req[w].peer
        BY <2>0, <3>3, <3>8 DEF Half
      <4>2. p \notin torn
        BY <3>5, <3>8, <4>1
      <4>3. \A x \in Whose : Half(x) => req[x].peer # p
        BY <2>0, <3>4, <3>8 DEF Half
      <4> QED
        BY <2>1, <3>1, <4>1, <4>2, <4>3 DEF NodeInv, StoresAgree
    <3> QED
      BY <3>7, <3>8 DEF HalfDone, StoresAgree
  <2> QED
    BY <2>3, <2>4 DEF NodeInv, TypeOK
<1>4. ReleasedIsGone'
  BY DEF NodeInv, TypeOK, Requests, Whose, ReleasedIsGone, Gone, RemovePeer, Handler, Goto,
     Mends, Refuse, panelVars, tunnelVars, fileVars
<1> QED
  BY <1>1, <1>2, <1>3, <1>4 DEF NodeInv

\* The second half of DELETE of a peer brings the file to the interface.
LEMMA UnpersistPeerKeeps ==
    ASSUME NodeInv, NEW w \in Whose, UnpersistPeer(w)
    PROVE  NodeInv'
<1>1. TypeOK' /\ (boot' # None => ~up') /\ want' <= changes' + 1
  BY DEF NodeInv, TypeOK, Jobs, UnpersistPeer, Handler, Answer, panelVars, tunnelVars,
     liveVars
<1>2. LeftIsMarked'
  BY DEF NodeInv, LeftIsMarked, UnpersistPeer, Answer
<1>3. HalfDone'
  BY DEF NodeInv, HalfDone, Half, UnpersistPeer, Handler, Answer, tunnelVars, liveVars
<1>4. StoresAgree'
  BY DEF NodeInv, StoresAgree, Half, HalfDone, UnpersistPeer, Handler, Answer, tunnelVars,
     liveVars
<1>5. ReleasedIsGone'
  BY DEF NodeInv, TypeOK, ReleasedIsGone, Gone, UnpersistPeer, Handler, Answer, panelVars,
     tunnelVars, liveVars
<1> QED
  BY <1>1, <1>2, <1>3, <1>4, <1>5 DEF NodeInv

\* The tunnel process reads the file; no unmarked peer is between its halves then.
LEMMA TunnelReadsKeeps ==
    ASSUME NodeInv, TunnelReads
    PROVE  NodeInv'
<1>1. TypeOK' /\ (boot' # None => ~up') /\ want' <= changes' + 1
  BY DEF NodeInv, TypeOK, TunnelReads, panelVars, liveVars, fileVars
<1>2. LeftIsMarked'
  BY DEF NodeInv, Whose, LeftIsMarked, TunnelReads
<1>3. HalfDone'
  BY DEF NodeInv, HalfDone, Half, TunnelReads
<1>4. StoresAgree'
  BY DEF StoresAgree, TunnelReads, fileVars
<1>5. ReleasedIsGone'
  BY DEF NodeInv, ReleasedIsGone, Gone, TunnelReads, panelVars, liveVars, fileVars
<1> QED
  BY <1>1, <1>2, <1>3, <1>4, <1>5 DEF NodeInv

\* The interface comes up with what was read.
LEMMA TunnelUpKeeps ==
    ASSUME NodeInv, TunnelUp
    PROVE  NodeInv'
<1>1. TypeOK' /\ (boot' # None => ~up') /\ want' <= changes' + 1
  BY DEF NodeInv, TypeOK, TunnelUp, panelVars, fileVars
<1>2. LeftIsMarked'
  BY DEF NodeInv, LeftIsMarked, TunnelUp
<1>3. HalfDone'
  BY DEF NodeInv, HalfDone, Half, TunnelUp
<1>4. StoresAgree'
  BY DEF NodeInv, StoresAgree, HalfDone, TunnelUp, fileVars
<1>5. ReleasedIsGone'
  BY DEF NodeInv, ReleasedIsGone, Gone, TunnelUp, panelVars, fileVars
<1> QED
  BY <1>1, <1>2, <1>3, <1>4, <1>5 DEF NodeInv

\* supervisord gives the tunnel process up.
LEMMA TunnelGivesUpKeeps ==
    ASSUME NodeInv, TunnelGivesUp
    PROVE  NodeInv'
<1>1. TypeOK' /\ (boot' # None => ~up') /\ want' <= changes' + 1
  BY DEF NodeInv, TypeOK, TunnelGivesUp, panelVars, liveVars, fileVars
<1>2. LeftIsMarked' /\ HalfDone'
  BY DEF NodeInv, LeftIsMarked, HalfDone, Half, TunnelGivesUp, liveVars
<1>3. StoresAgree' /\ ReleasedIsGone'
  BY DEF NodeInv, StoresAgree, ReleasedIsGone, Gone, Half, TunnelGivesUp, panelVars, liveVars,
     fileVars
<1> QED
  BY <1>1, <1>2, <1>3 DEF NodeInv

\* A failing command leaves the interface's peers and the file as they are.
LEMMA CommandFailsKeeps ==
    ASSUME NodeInv, NEW w \in Whose, CommandFails(w)
    PROVE  NodeInv'
<1>0. /\ req' = [req EXCEPT ![w] = None]
      /\ \/ job' \in {job, None} /\ (w # "job" => job' = job)
         \/ w = "job" /\ job' = [job EXCEPT !.phase = "status"] /\ job.phase = "interface"
  BY DEF CommandFails, Answer, Refuse
<1>1. TypeOK' /\ (boot' # None => ~up') /\ want' <= changes' + 1
  <2>1. job' \in Jobs \cup {None} /\ (w # "job" => job' = job)
    BY <1>0 DEF NodeInv, TypeOK, Jobs, CommandFails
  <2>2. req' \in [Whose -> Requests \cup {None}] /\ req'["job"] \in {req["job"], None}
    BY <1>0 DEF NodeInv, TypeOK, Whose
  <2>3. faults' \in 0..MaxFaults
    BY AgentAssumption DEF NodeInv, TypeOK, CommandFails, Fault
  <2>4. req'["job"] # None => job' # None /\ job'.phase \in {"interface", "peers"}
    BY <1>0, <2>1, <2>2 DEF NodeInv, TypeOK, Whose
  <2> QED
    BY <2>1, <2>2, <2>3, <2>4 DEF NodeInv, TypeOK, CommandFails, panelVars, tunnelVars,
       fileVars
<1>2. LeftIsMarked' /\ HalfDone'
  BY <1>0 DEF NodeInv, TypeOK, LeftIsMarked, HalfDone, Half, CommandFails, tunnelVars
<1>3. StoresAgree'
  BY <1>0 DEF NodeInv, TypeOK, StoresAgree, Half, CommandFails, tunnelVars, fileVars
<1>4. ReleasedIsGone'
  BY <1>0 DEF NodeInv, TypeOK, Jobs, ReleasedIsGone, Gone, CommandFails, panelVars, tunnelVars,
     fileVars
<1> QED
  BY <1>1, <1>2, <1>3, <1>4 DEF NodeInv

\* The interface is lost: the peers of handlers under way are marked.
LEMMA TunnelDiesKeeps ==
    ASSUME NodeInv, TunnelDies
    PROVE  NodeInv'
<1>1. TypeOK' /\ (boot' # None => ~up') /\ want' <= changes' + 1
  <2>1. torn \cup TornBy(Whose) \in SUBSET Peers
    BY DEF NodeInv, TypeOK, TornBy
  <2>3. faults' \in 0..MaxFaults
    BY AgentAssumption DEF NodeInv, TypeOK, TunnelDies, Fault
  <2> QED
    BY <2>1, <2>3 DEF NodeInv, TypeOK, TunnelDies, panelVars, fileVars
<1>2. LeftIsMarked'
  BY DEF NodeInv, LeftIsMarked, TunnelDies
<1>3. HalfDone'
  BY <1>1 DEF TypeOK, Requests, HalfDone, Half, TunnelDies, TornBy
<1>4. StoresAgree'
  BY DEF NodeInv, StoresAgree, TunnelDies
<1>5. ReleasedIsGone'
  BY DEF NodeInv, ReleasedIsGone, Gone, TunnelDies, panelVars, fileVars
<1> QED
  BY <1>1, <1>2, <1>3, <1>4, <1>5 DEF NodeInv

\* A job is given up: its request is left behind and marked.
LEMMA AbandonJobKeeps ==
    ASSUME NodeInv, AbandonJob
    PROVE  NodeInv'
<1>1. TypeOK' /\ (boot' # None => ~up') /\ want' <= changes' + 1
  BY AgentAssumption DEF NodeInv, TypeOK, Whose, AbandonJob, Fault, TornBy, panelVars,
     tunnelVars, liveVars, fileVars
<1>2. LeftIsMarked'
  BY <1>1 DEF NodeInv, TypeOK, Requests, LeftIsMarked, AbandonJob, TornBy
<1>3. HalfDone'
  BY <1>1 DEF NodeInv, TypeOK, HalfDone, Half, AbandonJob, tunnelVars, liveVars
<1>4. StoresAgree'
  BY <1>1 DEF NodeInv, TypeOK, StoresAgree, Half, AbandonJob, tunnelVars, liveVars, fileVars
<1>5. ReleasedIsGone'
  BY DEF NodeInv, ReleasedIsGone, Gone, AbandonJob, panelVars, tunnelVars, liveVars, fileVars
<1> QED
  BY <1>1, <1>2, <1>3, <1>4, <1>5 DEF NodeInv

\* The agent dies, with the file rewritten in part: what was cut off is marked.
LEMMA AgentDiesKeeps ==
    ASSUME NodeInv, AgentDies
    PROVE  NodeInv'
<1>1. TypeOK' /\ (boot' # None => ~up') /\ want' <= changes' + 1
  <2>1. Written \subseteq Versions
    BY RequestShape DEF NodeInv, Written
  <2>2. saved' \in SUBSET Peers /\ torn' \in SUBSET Peers
    BY DEF NodeInv, TypeOK, AgentDies, FileAfterCrash, TornBy, fileVars
  <2>3. broken' \in SUBSET (Peers \cup {None})
    BY DEF NodeInv, TypeOK, AgentDies, FileAfterCrash, CutBlocks, TornBy, fileVars
  <2>4. savedIf' \in Versions \cup {0, None} /\ (savedIf # None => savedIf' # None)
    <3>1. \A v \in Versions \cup {0} : v # None
      BY AgentAssumption DEF Versions
    <3> QED
      BY <2>1, <3>1 DEF NodeInv, TypeOK, AgentDies, FileAfterCrash, fileVars
  <2>5. faults' \in 0..MaxFaults
    BY AgentAssumption DEF NodeInv, TypeOK, AgentDies, Fault
  <2>6. req' \in [Whose -> Requests \cup {None}] /\ req'["job"] = None
    BY DEF AgentDies, Whose
  <2> QED
    BY <2>2, <2>3, <2>4, <2>5, <2>6 DEF NodeInv, TypeOK, AgentDies, panelVars, tunnelVars,
       liveVars
<1>2. LeftIsMarked'
  BY DEF Whose, LeftIsMarked, AgentDies
<1>3. HalfDone'
  BY DEF HalfDone, Half, AgentDies
<1>4. StoresAgree'
  BY DEF NodeInv, StoresAgree, Half, AgentDies, FileAfterCrash, TornBy, tunnelVars, liveVars,
     fileVars
<1>5. ReleasedIsGone'
  BY DEF NodeInv, Whose, ReleasedIsGone, Gone, AgentDies, FileAfterCrash, panelVars,
     tunnelVars, liveVars, fileVars
<1> QED
  BY <1>1, <1>2, <1>3, <1>4, <1>5 DEF NodeInv

\* A node that was never configured.
LEMMA InitHolds == Init => NodeInv
<1>1. Init => TypeOK
  <2> SUFFICES ASSUME Init
               PROVE  TypeOK
    OBVIOUS
  <2>1. want \in Versions /\ changes \in 0..MaxChanges /\ faults \in 0..MaxFaults
    BY AgentAssumption DEF Init, Versions
  <2>2. req["job"] = None /\ boot = None /\ up = FALSE
    BY DEF Init, Whose
  <2>3. gaveUp \in BOOLEAN /\ up \in BOOLEAN
    BY DEF Init
  <2> QED
    BY <2>1, <2>2, <2>3 DEF Init, TypeOK
<1> QED
  BY <1>1 DEF Init, NodeInv, LeftIsMarked, HalfDone, Half, StoresAgree, ReleasedIsGone, Whose

\* The invariant is inductive.
LEMMA NextKeeps == NodeInv /\ [Next]_vars => NodeInv'
<1> SUFFICES ASSUME NodeInv, [Next]_vars
             PROVE  NodeInv'
  OBVIOUS
<1>1. CASE JobStep
  BY <1>1, StartSyncKeeps, SendInterfaceKeeps, ReadStatusKeeps, SendPutKeeps, SendDeleteKeeps,
     TakeDumpKeeps, ReportSyncKeeps DEF JobStep
<1>2. ASSUME NEW w \in Whose, Handle(w)
      PROVE  NodeInv'
  BY <1>2, SaveInterfaceKeeps, ApplyInterfaceKeeps, SetPeerKeeps, PersistPeerKeeps,
     RemovePeerKeeps, UnpersistPeerKeeps DEF Handle
<1>3. CASE Tunnel
  BY <1>3, TunnelReadsKeeps, TunnelUpKeeps, TunnelGivesUpKeeps DEF Tunnel
<1>4. CASE UNCHANGED vars
  <2>1. UNCHANGED <<row, want, job, req, up, boot, live, liveIf, saved, savedIf, broken, gaveUp, torn, changes, faults>>
    BY <1>4 DEF vars, panelVars, tunnelVars, liveVars, fileVars
  <2>2. TypeOK'
    BY <2>1 DEF NodeInv, TypeOK
  <2>3. LeftIsMarked' /\ HalfDone' /\ StoresAgree'
    BY <2>1 DEF NodeInv, LeftIsMarked, HalfDone, Half, StoresAgree
  <2>4. ReleasedIsGone'
    BY <2>1 DEF NodeInv, ReleasedIsGone, Gone
  <2> QED
    BY <2>1, <2>2, <2>3, <2>4 DEF NodeInv
<1> QED
  BY <1>1, <1>2, <1>3, <1>4, ChangePanelKeeps, CommandFailsKeeps, TunnelDiesKeeps, AbandonJobKeeps,
     AgentDiesKeeps DEF Next

\* The inductive invariant holds in every state, whatever the number of peers, changes
\* in the panel, crashes and abandoned jobs.
THEOREM NodeInvariant == Spec => []NodeInv
BY InitHolds, NextKeeps, PTL DEF Spec

\* Type correctness of the worker's job, the agent's handlers and the two stores.
THEOREM NodeTypes == Spec => []TypeOK
<1>1. NodeInv => TypeOK
  BY DEF NodeInv
<1> QED
  BY <1>1, NodeInvariant, PTL

\* A peer the panel has released is not on the interface again, unless a request for
\* it was cut short: node_sync_result may give its address away.
THEOREM ReleasedPeersStayGone == Spec => []DeletedStaysGone
<1>1. NodeInv => DeletedStaysGone
  BY DEF NodeInv, ReleasedIsGone, Gone, DeletedStaysGone
<1> QED
  BY <1>1, NodeInvariant, PTL

\* The agent's two stores hold the same peers while no handler is at work on them, so
\* that tunnel.sh brings up from the file what was on the interface before.
THEOREM RestartIsHarmless == Spec => []RestartKeepsPeers
<1>1. NodeInv => RestartKeepsPeers
  BY DEF NodeInv, StoresAgree, Half, RestartKeepsPeers, InFlight
<1> QED
  BY <1>1, NodeInvariant, PTL
=============================================================================
