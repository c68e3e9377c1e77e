------------------------- MODULE DevicePeersProofs -------------------------
(***************************************************************************)
(* Theorems about DevicePeers, for every set of users, devices, nodes and  *)
(* addresses.                                                              *)
(***************************************************************************)
EXTENDS DevicePeers, TLAPS

USE DEF Status, Lifecycle, DeviceLife, NodeLife, Phase, Kind, copies

\* The row transformers return rows of the right type.
LEMMA LoopedType ==
    ASSUME NEW r \in Status, NEW b, NEW new
    PROVE  Looped(r, b, new) \in Status
  BY DEF Looped

\* Deriving the current rows of some owners keeps them well typed.
LEMMA RederivedType ==
    ASSUME TypeOK, NEW rows \in [Nodes -> [Devices -> Status]], NEW us, NEW old,
           NEW new
    PROVE  Rederived(rows, us, old, new) \in [Nodes -> [Devices -> Status]]
<1>1. SUFFICES ASSUME NEW n \in Nodes, NEW d \in Devices
               PROVE  Rederived(rows, us, old, new)[n][d] \in Status
  BY DEF Rederived
<1>2. rows[n][d] \in Status
  OBVIOUS
<1> QED  BY <1>2, LoopedType DEF Rederived

\* So does a request that writes from its copy.
LEMMA WrittenType ==
    ASSUME TypeOK, NEW u, NEW tombs, NEW new
    PROVE  RowsWritten(u, tombs, new) \in [Nodes -> [Devices -> Status]]
<1>1. SUFFICES ASSUME NEW n \in Nodes, NEW d \in Devices
               PROVE  RowsWritten(u, tombs, new)[n][d] \in Status
  BY DEF RowsWritten
<1>2. peer[n][d] \in Status /\ loadedRows[n][d] \in Status
  BY DEF TypeOK
<1> QED  BY <1>2, LoopedType DEF RowsWritten

\* An acknowledgement keeps the rows well typed.
LEMMA AckedType ==
    ASSUME TypeOK, NEW n \in Nodes, NEW seen
    PROVE  AckedRows(n, seen) \in [Nodes -> [Devices -> Status]]
<1>1. Acknowledged(n, seen) \in [Devices -> Status]
  BY DEF TypeOK, Acknowledged
<1> QED  BY <1>1 DEF TypeOK, AckedRows

\* So does the confirmation of removals.
LEMMA ConfirmedType ==
    ASSUME NEW rows \in [Nodes -> [Devices -> Status]], NEW n \in Nodes,
           NEW held, NEW seen
    PROVE  Confirmed(rows, held, n, seen) \in [Nodes -> [Devices -> Status]]
  BY DEF Confirmed

\* The re-derived status of every account is a status.
LEMMA LifeAfterType ==
    ASSUME TypeOK, NEW us
    PROVE  LifeAfter(us) \in [Users -> Lifecycle]
  BY DEF TypeOK, LifeAfter, Derived

\* Releasing addresses keeps the life of every device well typed.
LEMMA ReleaseType ==
    ASSUME NEW dev \in [Devices -> DeviceLife], NEW rows, NEW candidates
    PROVE  Release(dev, rows, candidates) \in [Devices -> DeviceLife]
  BY DEF Release

\* Ending a job leaves the slot well typed.
LEMMA EndJobType ==
    ASSUME EndJob
    PROVE  /\ phase' \in {"idle", "ready"} /\ kind' \in Kind /\ at' = None
           /\ unread' \in SUBSET Nodes /\ todo' \in SUBSET Nodes
           /\ put' \in [Nodes -> SUBSET Devices]
           /\ del' \in [Nodes -> SUBSET Devices]
           /\ dump' \in SUBSET Devices /\ mem' \in [Devices -> Status]
           /\ UNCHANGED revived
  BY DEF EndJob, Nothing, NoRows

\* So does going on with the next node.
LEMMA FinishNodeType ==
    ASSUME TypeOK, FinishNode
    PROVE  /\ phase' \in {"idle", "ready"} /\ kind' \in Kind /\ at' = None
           /\ unread' \in SUBSET Nodes /\ todo' \in SUBSET Nodes
           /\ put' \in [Nodes -> SUBSET Devices]
           /\ del' \in [Nodes -> SUBSET Devices]
           /\ dump' \in SUBSET Devices /\ mem' \in [Devices -> Status]
           /\ UNCHANGED revived
<1>1. CASE todo = {} /\ EndJob
  BY <1>1, EndJobType
<1>2. CASE ~(todo = {} /\ EndJob)
  <2>1. /\ phase' = "ready" /\ at' = None /\ dump' = {} /\ mem' = NoRows
        /\ put' = [put EXCEPT ![at] = {}] /\ del' = [del EXCEPT ![at] = {}]
        /\ UNCHANGED <<kind, unread, todo, revived>>
    BY <1>2 DEF FinishNode
  <2>2. put \in [Nodes -> SUBSET Devices] /\ del \in [Nodes -> SUBSET Devices]
    BY DEF TypeOK
  <2>3. /\ put' \in [Nodes -> SUBSET Devices]
        /\ del' \in [Nodes -> SUBSET Devices]
    BY <2>1, <2>2
  <2>4. mem' \in [Devices -> Status]
    BY <2>1 DEF NoRows
  <2>5. kind \in Kind /\ unread \in SUBSET Nodes /\ todo \in SUBSET Nodes
    BY DEF TypeOK
  <2> QED  BY <2>1, <2>3, <2>4, <2>5
<1> QED  BY <1>1, <1>2

\* Every step preserves the types.
LEMMA TypeStep ==
    ASSUME TypeOK, [Next]_vars
    PROVE  TypeOK'
<1> USE ConstantsAssumption
<1>1. ASSUME NEW d \in Devices, CreateDevice(d)  PROVE TypeOK'
  BY <1>1 DEF CreateDevice, TypeOK, jobVars
<1>2. ASSUME NEW d \in Devices, DeleteDevice(d)  PROVE TypeOK'
  <2>1. device' \in [Devices -> DeviceLife]
    BY <1>2, ReleaseType DEF DeleteDevice, TypeOK
  <2> QED  BY <1>2, <2>1 DEF DeleteDevice, TypeOK, jobVars
<1>3. ASSUME NEW u \in Users, NEW s, NEW c, NEW t, Rederive(u, s, c, t),
             constrained' \in [Users -> BOOLEAN]
      PROVE  TypeOK'
  <2>1. peer' \in [Nodes -> [Devices -> Status]]
    BY <1>3, WrittenType DEF Rederive
  <2>2. lifecycle' \in [Users -> Lifecycle]
    BY <1>3 DEF Rederive, TypeOK, Derived
  <2>3. raced' \in SUBSET Devices
    BY <1>3 DEF Rederive, TypeOK
  <2>4. /\ loadedLife' \in [Users -> Lifecycle \cup {"none"}]
        /\ loadedOver' \in SUBSET Users
        /\ loadedRows' \in [Nodes -> [Devices -> Status]]
        /\ loadedTombs' \in SUBSET Devices /\ asked' \in 0..MaxRequests
    BY <1>3 DEF Rederive, ForgetUser, TypeOK
  <2>5. UNCHANGED <<device, addr, node, adding, wg, beat, jobVars>>
    BY <1>3 DEF Rederive
  <2> QED  BY <1>3, <2>1, <2>2, <2>3, <2>4, <2>5 DEF TypeOK, jobVars
<1>4. ASSUME NEW u \in Users,
             \/ BlockUser(u) \/ UnblockUser(u) \/ UpdateLifecycle(u)
             \/ ResetTraffic(u)
      PROVE  TypeOK'
  <2>1. constrained' \in [Users -> BOOLEAN]
    <3>1. \/ UNCHANGED constrained
          \/ \E c \in BOOLEAN : constrained' = [constrained EXCEPT ![u] = c]
      <4>1. {constrained[u], FALSE} \subseteq BOOLEAN
        BY DEF TypeOK
      <4> QED  BY <1>4, <4>1
               DEF BlockUser, UnblockUser, UpdateLifecycle, ResetTraffic
    <3> QED  BY <3>1 DEF TypeOK
  <2> QED  BY <1>3, <1>4, <2>1
           DEF BlockUser, UnblockUser, UpdateLifecycle, ResetTraffic
<1>25. ASSUME NEW u \in Users, LoadUser(u)  PROVE TypeOK'
  <2>1. /\ loadedLife' \in [Users -> Lifecycle \cup {"none"}]
        /\ loadedOver' \in SUBSET Users
        /\ loadedRows' \in [Nodes -> [Devices -> Status]]
        /\ loadedTombs' \in SUBSET Devices /\ asked' \in 0..MaxRequests
    BY <1>25 DEF LoadUser, Deleted, TypeOK
  <2> QED  BY <1>25, <2>1 DEF LoadUser, TypeOK, jobVars
<1>26. ASSUME NEW u \in Users, RequestEnds(u)  PROVE TypeOK'
  <2>1. /\ loadedLife' \in [Users -> Lifecycle \cup {"none"}]
        /\ loadedOver' \in SUBSET Users
        /\ loadedRows' \in [Nodes -> [Devices -> Status]]
        /\ loadedTombs' \in SUBSET Devices /\ asked' \in 0..MaxRequests
    BY <1>26 DEF RequestEnds, ForgetUser, TypeOK
  <2> QED  BY <1>26, <2>1 DEF RequestEnds, TypeOK, jobVars
<1>5. ASSUME NEW u \in Users, BecomeConstrained(u)  PROVE TypeOK'
  BY <1>5 DEF BecomeConstrained, TypeOK, jobVars
<1>6. ASSUME NEW u \in Users, DeleteUser(u)  PROVE TypeOK'
  BY <1>6 DEF DeleteUser, TypeOK, jobVars
<1>7. ASSUME NEW n \in Nodes, AddNodeSelect(n)  PROVE TypeOK'
  BY <1>7 DEF AddNodeSelect, TypeOK, jobVars
<1>8. ASSUME NEW n \in Nodes, AddNodeCommit(n)  PROVE TypeOK'
  BY <1>8 DEF AddNodeCommit, TypeOK, jobVars
<1>9. ASSUME NEW n \in Nodes, DeleteNode(n)  PROVE TypeOK'
  <2>1. device' \in [Devices -> DeviceLife]
    BY <1>9, ReleaseType DEF DeleteNode, TypeOK
  <2> QED  BY <1>9, <2>1 DEF DeleteNode, TypeOK, jobVars, NoRows
<1>10. CASE StartSyncAll
  BY <1>10 DEF StartSyncAll, TypeOK, dbVars, Managed
<1>11. ASSUME NEW n \in Nodes, FetchNext(n)  PROVE TypeOK'
  BY <1>11 DEF FetchNext, TypeOK, dbVars, ReadSnapshot, SnapshotPut, SnapshotDel
<1>12. ASSUME NEW n \in Nodes, NEW k \in {"node", "provision"},
              StartNodeJob(n, k)
       PROVE  TypeOK'
  BY <1>12 DEF StartNodeJob, TypeOK, dbVars, ReadSnapshot, SnapshotPut,
               SnapshotDel
<1>13. ASSUME NEW n \in Nodes, BeginNode(n)  PROVE TypeOK'
  BY <1>13 DEF BeginNode, TypeOK, dbVars
<1>14. ASSUME NEW d \in Devices, InstallPeer(d)  PROVE TypeOK'
  BY <1>14 DEF InstallPeer, Answering, TypeOK, dbVars, jobVars
<1>15. ASSUME NEW d \in Devices, RemovePeer(d)  PROVE TypeOK'
  BY <1>15 DEF RemovePeer, Answering, TypeOK, dbVars, jobVars
<1>16. CASE TakeDump
  <2>1. at \in Nodes /\ dump' \in SUBSET Devices
    BY <1>16 DEF TakeDump, Answering, TypeOK
  <2> QED  BY <1>16, <2>1 DEF TakeDump, Answering, TypeOK, dbVars
<1>17. CASE ApplyFails
  BY <1>17 DEF ApplyFails, TypeOK, dbVars
<1>18. CASE ReportFailure \/ ReportRefused \/ ReportProvision \/ ConfirmFails
            \/ Abort
  BY <1>18, EndJobType DEF ReportFailure, ReportRefused, ReportProvision,
     ConfirmFails, Abort, TypeOK, dbVars
<1>19. CASE ReportSync
  <2>1. at \in Nodes
    BY <1>19 DEF ReportSync, TypeOK
  <2>2. PICK us \in SUBSET AckedOwners(at, dump) :
          LET acked == AckedRows(at, dump)
              rows  == Confirmed(acked, acked[at], at, dump)
          IN  /\ lifecycle' = LifeAfter(us)
              /\ peer' = rows
              /\ device' = Release(device, rows, Candidates(acked[at], dump))
              /\ raced' = RacedAfter(us)
    BY <1>19 DEF ReportSync
  <2>3. peer' \in [Nodes -> [Devices -> Status]]
    BY <2>1, <2>2, AckedType, ConfirmedType
  <2>4. lifecycle' \in [Users -> Lifecycle]
    BY <2>2, LifeAfterType
  <2>5. device' \in [Devices -> DeviceLife]
    BY <2>2, ReleaseType DEF TypeOK
  <2>6. UNCHANGED <<constrained, addr, node, adding, copies, wg, beat>> /\ FinishNode
    BY <1>19 DEF ReportSync
  <2>7. raced' \in SUBSET Devices
    BY <2>2 DEF RacedAfter, TypeOK
  <2> QED  BY <2>3, <2>4, <2>5, <2>6, <2>7, FinishNodeType DEF TypeOK
<1>20. CASE ReportSyncCommits
  <2>1. at \in Nodes
    BY <1>20 DEF ReportSyncCommits, TypeOK
  <2>2. PICK us \in SUBSET AckedOwners(at, dump) :
          /\ lifecycle' = LifeAfter(us)
          /\ peer' = RowsAfter(at, dump, us)
          /\ mem' = RowsAfter(at, dump, us)[at]
          /\ raced' = RacedAfter(us)
    BY <1>20 DEF ReportSyncCommits
  <2>3. peer' \in [Nodes -> [Devices -> Status]] /\ mem' \in [Devices -> Status]
    BY <2>1, <2>2, AckedType, RederivedType DEF RowsAfter
  <2>4. lifecycle' \in [Users -> Lifecycle]
    BY <2>2, LifeAfterType
  <2>5. raced' \in SUBSET Devices
    BY <2>2 DEF RacedAfter, TypeOK
  <2> QED  BY <1>20, <2>1, <2>3, <2>4, <2>5 DEF ReportSyncCommits, TypeOK
<1>21. CASE ConfirmSync
  <2>1. at \in Nodes
    BY <1>21 DEF ConfirmSync, TypeOK
  <2>2. peer' \in [Nodes -> [Devices -> Status]]
    BY <1>21, <2>1, ConfirmedType DEF ConfirmSync, TypeOK
  <2>3. device' \in [Devices -> DeviceLife]
    BY <1>21, ReleaseType DEF ConfirmSync, TypeOK
  <2>4. /\ UNCHANGED <<lifecycle, constrained, addr, node, adding, copies, wg, beat>>
        /\ FinishNode
    BY <1>21 DEF ConfirmSync
  <2>5. raced' \in SUBSET Devices
    BY <1>21 DEF ConfirmSync, TypeOK
  <2> QED  BY <2>2, <2>3, <2>4, <2>5, FinishNodeType DEF TypeOK
<1>22. ASSUME NEW n \in Nodes, HeartbeatDump(n) \/ HeartbeatLost(n)
       PROVE  TypeOK'
  <2>1. beat' \in [Nodes -> SUBSET Devices]
    <3>1. CASE HeartbeatDump(n)  BY <3>1 DEF HeartbeatDump, TypeOK
    <3>2. CASE HeartbeatLost(n)  BY <3>2 DEF HeartbeatLost, TypeOK
    <3> QED  BY <1>22, <3>1, <3>2
  <2>2. UNCHANGED <<dbVars, wg, jobVars>>
    BY <1>22 DEF HeartbeatDump, HeartbeatLost
  <2> QED  BY <2>1, <2>2 DEF TypeOK, dbVars, jobVars
<1>23. ASSUME NEW n \in Nodes, HeartbeatReport(n)  PROVE TypeOK'
  <2>1. PICK us \in SUBSET AckedOwners(n, beat[n]) :
          /\ lifecycle' = LifeAfter(us)
          /\ peer' = RowsAfter(n, beat[n], us)
          /\ raced' = RacedAfter(us)
    BY <1>23 DEF HeartbeatReport
  <2>2. peer' \in [Nodes -> [Devices -> Status]]
    BY <2>1, AckedType, RederivedType DEF RowsAfter
  <2>3. lifecycle' \in [Users -> Lifecycle]
    BY <2>1, LifeAfterType
  <2>4. raced' \in SUBSET Devices
    BY <2>1 DEF RacedAfter, TypeOK
  <2> QED  BY <1>23, <2>2, <2>3, <2>4 DEF HeartbeatReport, TypeOK, jobVars
<1>24. CASE UNCHANGED vars
  BY <1>24 DEF vars, dbVars, jobVars, TypeOK
<1> QED
  BY <1>1, <1>2, <1>4, <1>5, <1>6, <1>7, <1>8, <1>9, <1>10, <1>11, <1>12,
     <1>13, <1>14, <1>15, <1>16, <1>17, <1>18, <1>19, <1>20, <1>21, <1>22,
     <1>23, <1>24, <1>25, <1>26 DEF Next, Request, StartJob, JobStep, Heartbeat

\* Every state of every behaviour is well typed.
THEOREM TypeCorrect == Spec => []TypeOK
<1>1. Init => TypeOK
  BY ConstantsAssumption DEF Init, TypeOK, Nothing, NoRows
<1>2. TypeOK /\ [Next]_vars => TypeOK'
  BY TypeStep
<1> QED  BY <1>1, <1>2, PTL DEF Spec
-----------------------------------------------------------------------------
(* The general invariant.                                                  *)

\* Steps that leave the rows alone.
Quiet ==
    /\ UNCHANGED <<lifecycle, constrained, device, addr, node, adding, peer, raced>>
    /\ mem' \in {mem, NoRows}

\* What a step can be, seen from the database.
LEMMA StepCases ==
    ASSUME [Next]_vars
    PROVE  \/ Quiet
           \/ \E d \in Devices : CreateDevice(d) \/ DeleteDevice(d)
           \/ \E u \in Users : \E s, c, t : Rederive(u, s, c, t)
           \/ \E u \in Users : BecomeConstrained(u) \/ DeleteUser(u)
           \/ \E n \in Nodes : \/ AddNodeSelect(n) \/ AddNodeCommit(n)
                               \/ DeleteNode(n) \/ HeartbeatReport(n)
           \/ ReportSync \/ ReportSyncCommits \/ ConfirmSync
<1> USE DEF dbVars
<1>1. CASE Request
  <2>1. ASSUME NEW u \in Users, LoadUser(u) \/ RequestEnds(u)  PROVE Quiet
    BY <2>1 DEF LoadUser, RequestEnds, Quiet, jobVars
  <2>2. ASSUME NEW u \in Users,
               \/ BlockUser(u) \/ UnblockUser(u) \/ UpdateLifecycle(u)
               \/ ResetTraffic(u)
        PROVE  \E s, c, t : Rederive(u, s, c, t)
    BY <2>2 DEF BlockUser, UnblockUser, UpdateLifecycle, ResetTraffic
  <2> QED  BY <1>1, <2>1, <2>2 DEF Request
<1>2. CASE StartJob
  BY <1>2 DEF StartJob, StartSyncAll, StartNodeJob, Quiet
<1>3. CASE JobStep
  <2>1. ASSUME NEW n \in Nodes, FetchNext(n) \/ BeginNode(n)
        PROVE  Quiet
    BY <2>1 DEF FetchNext, BeginNode, Quiet
  <2>2. ASSUME NEW d \in Devices, InstallPeer(d) \/ RemovePeer(d)
        PROVE  Quiet
    BY <2>2 DEF InstallPeer, RemovePeer, Quiet, jobVars
  <2>3. CASE TakeDump \/ ApplyFails
    BY <2>3 DEF TakeDump, ApplyFails, Quiet
  <2>4. CASE ReportFailure \/ ReportRefused \/ ReportProvision \/ ConfirmFails
    BY <2>4 DEF ReportFailure, ReportRefused, ReportProvision, ConfirmFails,
                EndJob, Quiet
  <2> QED  BY <1>3, <2>1, <2>2, <2>3, <2>4 DEF JobStep
<1>4. CASE Abort
  BY <1>4 DEF Abort, EndJob, Quiet
<1>5. CASE Heartbeat
  <2>1. ASSUME NEW n \in Nodes, HeartbeatDump(n) \/ HeartbeatLost(n)
        PROVE  Quiet
    BY <2>1 DEF HeartbeatDump, HeartbeatLost, Quiet, jobVars
  <2> QED  BY <1>5, <2>1 DEF Heartbeat
<1>6. CASE UNCHANGED vars
  BY <1>6 DEF vars, jobVars, Quiet
<1> QED  BY <1>1, <1>2, <1>3, <1>4, <1>5, <1>6 DEF Next

\* What a report does to one row before it confirms removals.
LEMMA AckEffect ==
    ASSUME TypeOK, NEW n \in Nodes, NEW seen, NEW m \in Nodes, NEW d \in Devices
    PROVE  \/ AckedRows(n, seen)[m][d] = peer[m][d]
           \/ /\ m = n /\ peer[m][d] \in {"pending", "active"}
              /\ AckedRows(n, seen)[m][d] =
                    IF device[d] = "live" THEN "active" ELSE "pending_delete"
  BY DEF TypeOK, AckedRows, Acknowledged, Tombstoned

\* What a report does to one row once the lifecycle is re-derived.
LEMMA RowsAfterEffect ==
    ASSUME TypeOK, NEW n \in Nodes, NEW seen, NEW us, NEW m \in Nodes,
           NEW d \in Devices
    PROVE  LET a == AckedRows(n, seen)[m][d]
               r == RowsAfter(n, seen, us)[m][d]
           IN  \/ /\ r = a
                  /\ /\ Owner[d] \in us /\ LifeAfter(us)[Owner[d]] = "active"
                     /\ device[d] = "live"
                     => a \notin Tombstoned
               \/ a # "none" /\ r = "pending_delete"
                  /\ Owner[d] \in us /\ LifeAfter(us)[Owner[d]] # "active"
               \/ /\ a \in Tombstoned \/ (a = "none" /\ node[m] = "managed"
                                          /\ device[d] = "live")
                  /\ Owner[d] \in us /\ LifeAfter(us)[Owner[d]] = "active"
                  /\ d \notin Deleted /\ r = "pending"
  BY DEF RowsAfter, Rederived, Restores, Looped, Deleted, Tombstoned

\* What a request about user u does to one row.
LEMMA RederiveEffect ==
    ASSUME TypeOK, NEW u \in Users, NEW s, NEW c, NEW t, Rederive(u, s, c, t),
           NEW m \in Nodes, NEW d \in Devices
    PROVE  LET a == peer[m][d]
               r == peer'[m][d]
           IN  /\ UNCHANGED <<device, addr, node, adding, wg, jobVars>>
               /\ \/ r = a
                  \/ a # "none" /\ r = "pending_delete"
                  \/ a # "none" /\ r = "pending" /\ d \notin Deleted \ raced'
                  \/ /\ a = "none" /\ r = "pending"
                     /\ node[m] = "managed" /\ device[d] = "live"
               /\ /\ d \notin raced' /\ device[d] = "live"
                  /\ lifecycle'[Owner[d]] = "active"
                  /\ Owner[d] = u \/ a \notin Tombstoned
                  => r \notin Tombstoned
               /\ Owner[d] # u => /\ r = a
                                  /\ lifecycle'[Owner[d]] = lifecycle[Owner[d]]
                                  /\ d \in raced <=> d \in raced'
<1> DEFINE new == Derived(s, c)
<1>1. PICK tombs \in SUBSET Deleted :
        /\ {e \in loadedTombs : Owner[e] = u} \subseteq tombs
        /\ t \/ loadedLife[u] # s \/ loadedLife[u] # new => tombs = Deleted
        /\ \A n \in Nodes, e \in Devices :
              Writes(u, n, e, tombs, new) => peer[n][e] # "none"
        /\ peer' = RowsWritten(u, tombs, new)
  BY DEF Rederive
<1>2. /\ UNCHANGED <<device, addr, node, adding, wg, jobVars>>
      /\ raced' = {e \in raced : Owner[e] # u} \cup {e \in Devices : OutOfDate(u, e)}
      /\ lifecycle' = IF loadedLife[u] # s \/ loadedLife[u] # new
                      THEN [lifecycle EXCEPT ![u] = new] ELSE lifecycle
  BY DEF Rederive
<1>3. peer'[m][d] = IF Writes(u, m, d, tombs, new)
                    THEN Looped(loadedRows[m][d], d \in tombs, new)
                    ELSE IF /\ Owner[d] = u /\ peer[m][d] = "none"
                            /\ Restores(m, d, loadedLife[u], new) THEN "pending"
                    ELSE peer[m][d]
  BY <1>1 DEF RowsWritten
<1> HIDE DEF new
<1>4. ASSUME Owner[d] = u, Writes(u, m, d, tombs, new)
      PROVE  /\ peer[m][d] # "none"
             /\ \/ peer'[m][d] = "pending_delete" /\ new # "active"
                \/ peer'[m][d] = "pending" /\ d \notin tombs
  BY <1>1, <1>3, <1>4 DEF Writes, Looped
<1>5. d \notin tombs /\ Owner[d] = u => d \notin Deleted \ raced'
  BY <1>1, <1>2 DEF OutOfDate
<1>6. ASSUME Owner[d] = u, d \notin raced', device[d] = "live",
             lifecycle'[u] = "active"
      PROVE  peer'[m][d] \notin Tombstoned
  <2>1. loadedLife[u] = lifecycle[u]
        /\ \A n \in Nodes : peer[n][d] \notin Tombstoned \ {loadedRows[n][d]}
    BY <1>2, <1>6 DEF OutOfDate
  <2>2. new = "active"
    BY <1>2, <1>6, <2>1 DEF TypeOK
  <2>3. d \notin tombs
    BY <1>1, <1>6 DEF Deleted
  <2> QED  BY <1>3, <1>4, <1>6, <2>1, <2>2, <2>3 DEF Writes, Looped, Tombstoned
<1>7. Owner[d] # u => /\ peer'[m][d] = peer[m][d]
                      /\ lifecycle'[Owner[d]] = lifecycle[Owner[d]]
                      /\ d \in raced <=> d \in raced'
  BY <1>2, <1>3, ConstantsAssumption DEF Writes, OutOfDate, TypeOK
<1>8. \/ peer'[m][d] = peer[m][d]
      \/ peer[m][d] # "none" /\ peer'[m][d] = "pending_delete"
      \/ peer[m][d] # "none" /\ peer'[m][d] = "pending" /\ d \notin Deleted \ raced'
      \/ /\ peer[m][d] = "none" /\ peer'[m][d] = "pending"
         /\ node[m] = "managed" /\ device[d] = "live"
  BY <1>3, <1>4, <1>5 DEF Writes, Restores
<1> QED  BY <1>2, <1>6, <1>7, <1>8

\* What the confirmation of removals does to one row.
LEMMA ConfirmEffect ==
    ASSUME NEW rows \in [Nodes -> [Devices -> Status]], NEW n \in Nodes,
           NEW held, NEW seen, NEW m \in Nodes, NEW d \in Devices
    PROVE  LET r == Confirmed(rows, held, n, seen)[m][d]
           IN  IF m = n /\ held[d] = "pending_delete" /\ d \notin seen
               THEN r = "deleted" ELSE r = rows[m][d]
  BY DEF Confirmed

\* A sync report in one transaction, in terms of those effects.
LEMMA ReportSyncFacts ==
    ASSUME TypeOK, ReportSync
    PROVE  \E us : LET acked == AckedRows(at, dump) IN
              /\ at \in Nodes /\ acked \in [Nodes -> [Devices -> Status]]
              /\ RowsAfter(at, dump, us) = acked
              /\ lifecycle' = LifeAfter(us) /\ raced' = RacedAfter(us)
              /\ peer' = Confirmed(acked, acked[at], at, dump)
              /\ device' = Release(device, peer', Candidates(acked[at], dump))
              /\ UNCHANGED <<constrained, addr, node, adding, wg>>
              /\ mem' = NoRows
<1>1. at \in Nodes
  BY DEF ReportSync, TypeOK
<1>2. AckedRows(at, dump) \in [Nodes -> [Devices -> Status]]
  BY <1>1, AckedType
<1>3. mem' = NoRows
  BY DEF ReportSync, FinishNode, EndJob
<1> QED  BY <1>1, <1>2, <1>3 DEF ReportSync

\* The first transaction of a report that changes a lifecycle.
LEMMA CommitsFacts ==
    ASSUME TypeOK, ReportSyncCommits
    PROVE  \E us : /\ at \in Nodes
                   /\ lifecycle' = LifeAfter(us) /\ raced' = RacedAfter(us)
                   /\ peer' = RowsAfter(at, dump, us)
                   /\ mem' = peer'[at]
                   /\ UNCHANGED <<constrained, device, addr, node, adding, wg, at>>
<1>1. at \in Nodes
  BY DEF ReportSyncCommits, TypeOK
<1> QED  BY <1>1 DEF ReportSyncCommits

\* The second transaction of such a report.
LEMMA ConfirmFacts ==
    ASSUME TypeOK, ConfirmSync
    PROVE  /\ at \in Nodes /\ peer \in [Nodes -> [Devices -> Status]]
           /\ peer' = Confirmed(peer, mem, at, dump)
           /\ device' = Release(device, peer', Candidates(mem, dump))
           /\ \A d \in Devices : mem[d] = "pending_delete" /\ d \notin dump
                                    => peer[at][d] # "none"
           /\ UNCHANGED <<lifecycle, constrained, addr, node, adding, wg>>
           /\ raced' = raced \cup
                 {d \in Devices : /\ mem[d] = "pending_delete" /\ d \notin dump
                                  /\ peer[at][d] # "pending_delete"}
           /\ mem' = NoRows
  BY DEF ConfirmSync, TypeOK, FinishNode, EndJob

\* A heartbeat report.
LEMMA HeartbeatFacts ==
    ASSUME TypeOK, NEW n \in Nodes, HeartbeatReport(n)
    PROVE  \E us : /\ lifecycle' = LifeAfter(us) /\ raced' = RacedAfter(us)
                   /\ peer' = RowsAfter(n, beat[n], us)
                   /\ UNCHANGED <<constrained, device, addr, node, adding, wg,
                                  jobVars>>
  BY DEF HeartbeatReport

\* A report cannot mark an account as deleted.
LEMMA LifeAfterGone ==
    ASSUME TypeOK, NEW us, NEW u \in Users, LifeAfter(us)[u] = "gone"
    PROVE  lifecycle[u] = "gone"
  BY DEF LifeAfter, Derived, TypeOK

\* Rows, nodes and devices stay related.
LEMMA ParentsStep ==
    ASSUME GeneralInv, [Next]_vars
    PROVE  RowsHaveParents'
<1> USE ConstantsAssumption DEF GeneralInv
<1>1. CASE Quiet
  BY <1>1 DEF Quiet, RowsHaveParents, NoRows
<1>2. ASSUME NEW d \in Devices, CreateDevice(d)  PROVE RowsHaveParents'
  BY <1>2 DEF CreateDevice, RowsHaveParents, TypeOK, jobVars
<1>3. ASSUME NEW d \in Devices, DeleteDevice(d)  PROVE RowsHaveParents'
  BY <1>3 DEF DeleteDevice, Release, RowsHaveParents, TypeOK, jobVars
<1>4. ASSUME NEW u \in Users, NEW s, NEW c, NEW t, Rederive(u, s, c, t)
      PROVE  RowsHaveParents'
  <2>1. UNCHANGED <<device, addr, node, adding, jobVars>>
    BY <1>4 DEF Rederive
  <2> QED  BY <1>4, <2>1, RederiveEffect DEF RowsHaveParents, Tombstoned, jobVars
<1>5. ASSUME NEW u \in Users, BecomeConstrained(u)  PROVE RowsHaveParents'
  BY <1>5 DEF BecomeConstrained, RowsHaveParents, TypeOK, jobVars
<1>6. ASSUME NEW u \in Users, DeleteUser(u)  PROVE RowsHaveParents'
  BY <1>6 DEF DeleteUser, RowsHaveParents, TypeOK, jobVars
<1>7. ASSUME NEW n \in Nodes, AddNodeSelect(n)  PROVE RowsHaveParents'
  BY <1>7 DEF AddNodeSelect, RowsHaveParents, TypeOK, jobVars
<1>8. ASSUME NEW n \in Nodes, AddNodeCommit(n)  PROVE RowsHaveParents'
  BY <1>8 DEF AddNodeCommit, RowsHaveParents, TypeOK, jobVars
<1>9. ASSUME NEW n \in Nodes, DeleteNode(n)  PROVE RowsHaveParents'
  BY <1>9 DEF DeleteNode, Release, NoRows, RowsHaveParents, TypeOK, jobVars
<1>10. ASSUME NEW n \in Nodes, HeartbeatReport(n)  PROVE RowsHaveParents'
  BY <1>10, HeartbeatFacts, AckEffect, RowsAfterEffect
     DEF RowsHaveParents, Tombstoned, jobVars
<1>11. CASE ReportSync
  BY <1>11, ReportSyncFacts, AckEffect, ConfirmEffect
     DEF RowsHaveParents, Release, NoRows
<1>12. CASE ReportSyncCommits
  BY <1>12, CommitsFacts, AckEffect, RowsAfterEffect
     DEF RowsHaveParents, Tombstoned
<1>13. CASE ConfirmSync
  BY <1>13, ConfirmFacts, ConfirmEffect DEF RowsHaveParents, Release, NoRows
<1> QED
  BY <1>1, <1>2, <1>3, <1>4, <1>5, <1>6, <1>7, <1>8, <1>9, <1>10, <1>11, <1>12,
     <1>13, StepCases

\* A deleted account never owns a device again.
LEMMA GoneStep ==
    ASSUME GeneralInv, [Next]_vars
    PROVE  GoneOwnsNothing'
<1> USE ConstantsAssumption DEF GeneralInv
<1>1. CASE Quiet
  BY <1>1 DEF Quiet, GoneOwnsNothing
<1>2. ASSUME NEW d \in Devices, CreateDevice(d)  PROVE GoneOwnsNothing'
  BY <1>2 DEF CreateDevice, GoneOwnsNothing, TypeOK, jobVars
<1>3. ASSUME NEW d \in Devices, DeleteDevice(d)  PROVE GoneOwnsNothing'
  BY <1>3 DEF DeleteDevice, Release, GoneOwnsNothing, TypeOK, jobVars
<1>4. ASSUME NEW u \in Users, NEW s, NEW c, NEW t, Rederive(u, s, c, t)
      PROVE  GoneOwnsNothing'
  BY <1>4 DEF Rederive, Derived, GoneOwnsNothing, TypeOK
<1>5. ASSUME NEW u \in Users, BecomeConstrained(u)  PROVE GoneOwnsNothing'
  BY <1>5 DEF BecomeConstrained, GoneOwnsNothing, TypeOK, jobVars
<1>6. ASSUME NEW u \in Users, DeleteUser(u)  PROVE GoneOwnsNothing'
  BY <1>6 DEF DeleteUser, GoneOwnsNothing, TypeOK, jobVars
<1>7. ASSUME NEW n \in Nodes, AddNodeSelect(n)  PROVE GoneOwnsNothing'
  BY <1>7 DEF AddNodeSelect, GoneOwnsNothing, TypeOK, jobVars
<1>8. ASSUME NEW n \in Nodes, AddNodeCommit(n)  PROVE GoneOwnsNothing'
  BY <1>8 DEF AddNodeCommit, GoneOwnsNothing, TypeOK, jobVars
<1>9. ASSUME NEW n \in Nodes, DeleteNode(n)  PROVE GoneOwnsNothing'
  BY <1>9 DEF DeleteNode, Release, NoRows, GoneOwnsNothing, TypeOK, jobVars
<1>10. ASSUME NEW n \in Nodes, HeartbeatReport(n)  PROVE GoneOwnsNothing'
  BY <1>10, HeartbeatFacts, AckEffect, RowsAfterEffect, LifeAfterGone
     DEF GoneOwnsNothing, Tombstoned, jobVars
<1>11. CASE ReportSync
  BY <1>11, ReportSyncFacts, AckEffect, ConfirmEffect, LifeAfterGone
     DEF GoneOwnsNothing, Release, NoRows
<1>12. CASE ReportSyncCommits
  BY <1>12, CommitsFacts, AckEffect, RowsAfterEffect, LifeAfterGone
     DEF GoneOwnsNothing, Tombstoned
<1>13. CASE ConfirmSync
  BY <1>13, ConfirmFacts, ConfirmEffect DEF GoneOwnsNothing, Release, NoRows
<1> QED
  BY <1>1, <1>2, <1>3, <1>4, <1>5, <1>6, <1>7, <1>8, <1>9, <1>10, <1>11, <1>12,
     <1>13, StepCases

\* Two devices never reserve the same address.
LEMMA DistinctStep ==
    ASSUME GeneralInv, [Next]_vars
    PROVE  ReservedAddressesDistinct'
<1> USE ConstantsAssumption DEF GeneralInv
<1>1. CASE Quiet
  BY <1>1 DEF Quiet, ReservedAddressesDistinct, Reserved
<1>2. ASSUME NEW d \in Devices, CreateDevice(d)  PROVE ReservedAddressesDistinct'
  BY <1>2 DEF CreateDevice, ReservedAddressesDistinct, Reserved, TypeOK, jobVars
<1>3. ASSUME NEW d \in Devices, DeleteDevice(d)  PROVE ReservedAddressesDistinct'
  BY <1>3 DEF DeleteDevice, Release, ReservedAddressesDistinct, Reserved, TypeOK,
              jobVars
<1>4. ASSUME NEW u \in Users, NEW s, NEW c, NEW t, Rederive(u, s, c, t)
      PROVE  ReservedAddressesDistinct'
  <2>1. UNCHANGED <<device, addr, node, adding, jobVars>>
    BY <1>4 DEF Rederive
  <2> QED  BY <1>4, <2>1, RederiveEffect
           DEF ReservedAddressesDistinct, Reserved, Tombstoned, jobVars
<1>5. ASSUME NEW u \in Users, BecomeConstrained(u)  PROVE ReservedAddressesDistinct'
  BY <1>5 DEF BecomeConstrained, ReservedAddressesDistinct, Reserved, TypeOK, jobVars
<1>6. ASSUME NEW u \in Users, DeleteUser(u)  PROVE ReservedAddressesDistinct'
  BY <1>6 DEF DeleteUser, ReservedAddressesDistinct, Reserved, TypeOK, jobVars
<1>7. ASSUME NEW n \in Nodes, AddNodeSelect(n)  PROVE ReservedAddressesDistinct'
  BY <1>7 DEF AddNodeSelect, ReservedAddressesDistinct, Reserved, TypeOK, jobVars
<1>8. ASSUME NEW n \in Nodes, AddNodeCommit(n)  PROVE ReservedAddressesDistinct'
  BY <1>8 DEF AddNodeCommit, ReservedAddressesDistinct, Reserved, TypeOK, jobVars
<1>9. ASSUME NEW n \in Nodes, DeleteNode(n)  PROVE ReservedAddressesDistinct'
  BY <1>9 DEF DeleteNode, Release, NoRows, ReservedAddressesDistinct, Reserved,
              TypeOK, jobVars
<1>10. ASSUME NEW n \in Nodes, HeartbeatReport(n)  PROVE ReservedAddressesDistinct'
  BY <1>10, HeartbeatFacts, AckEffect, RowsAfterEffect
     DEF ReservedAddressesDistinct, Reserved, Tombstoned, jobVars
<1>11. CASE ReportSync
  BY <1>11, ReportSyncFacts, AckEffect, ConfirmEffect
     DEF ReservedAddressesDistinct, Reserved, Release, NoRows
<1>12. CASE ReportSyncCommits
  BY <1>12, CommitsFacts, AckEffect, RowsAfterEffect
     DEF ReservedAddressesDistinct, Reserved, Tombstoned
<1>13. CASE ConfirmSync
  BY <1>13, ConfirmFacts, ConfirmEffect
     DEF ReservedAddressesDistinct, Reserved, Release, NoRows
<1> QED
  BY <1>1, <1>2, <1>3, <1>4, <1>5, <1>6, <1>7, <1>8, <1>9, <1>10, <1>11, <1>12,
     <1>13, StepCases

\* The transaction that removes a deleted device's last unconfirmed row also
\* releases its address.
LEMMA LeakStep ==
    ASSUME GeneralInv, [Next]_vars
    PROVE  NoAddressLeak'
<1> USE ConstantsAssumption DEF GeneralInv
<1> DEFINE Open(d) == \E m \in Nodes : peer[m][d] \notin {"none", "deleted"}
<1>a. \A d \in Devices : device[d] = "tombstoned" => Open(d)
  BY DEF NoAddressLeak, Managed
<1>b. SUFFICES ASSUME NEW e \in Devices, device'[e] = "tombstoned"
               PROVE  Open(e)'
  BY ParentsStep DEF NoAddressLeak, Managed, RowsHaveParents
<1>1. CASE Quiet
  BY <1>a, <1>b, <1>1 DEF Quiet
<1>2. ASSUME NEW d \in Devices, CreateDevice(d)  PROVE Open(e)'
  BY <1>a, <1>b, <1>2 DEF CreateDevice, TypeOK
<1>3. ASSUME NEW d \in Devices, DeleteDevice(d)  PROVE Open(e)'
  BY <1>a, <1>b, <1>3 DEF DeleteDevice, Release, TypeOK
<1>4. ASSUME NEW u \in Users, NEW s, NEW c, NEW t, Rederive(u, s, c, t)
      PROVE  Open(e)'
  <2>1. device' = device
    BY <1>4 DEF Rederive
  <2> QED  BY <1>a, <1>b, <1>4, <2>1, RederiveEffect DEF Tombstoned
<1>5. ASSUME NEW u \in Users, BecomeConstrained(u)  PROVE Open(e)'
  BY <1>a, <1>b, <1>5 DEF BecomeConstrained
<1>6. ASSUME NEW u \in Users, DeleteUser(u)  PROVE Open(e)'
  BY <1>a, <1>b, <1>6 DEF DeleteUser, TypeOK
<1>7. ASSUME NEW n \in Nodes, AddNodeSelect(n)  PROVE Open(e)'
  BY <1>a, <1>b, <1>7 DEF AddNodeSelect
<1>8. ASSUME NEW n \in Nodes, AddNodeCommit(n)  PROVE Open(e)'
  BY <1>a, <1>b, <1>8 DEF AddNodeCommit, TypeOK
<1>9. ASSUME NEW n \in Nodes, DeleteNode(n)  PROVE Open(e)'
  BY <1>a, <1>b, <1>9 DEF DeleteNode, Release, NoRows, TypeOK
<1>10. ASSUME NEW n \in Nodes, HeartbeatReport(n)  PROVE Open(e)'
  BY <1>a, <1>b, <1>10, HeartbeatFacts, AckEffect, RowsAfterEffect
     DEF Tombstoned
<1>11. CASE ReportSync
  BY <1>a, <1>b, <1>11, ReportSyncFacts, AckEffect, ConfirmEffect
     DEF Release, Candidates
<1>12. CASE ReportSyncCommits
  BY <1>a, <1>b, <1>12, CommitsFacts, AckEffect, RowsAfterEffect DEF Tombstoned
<1>13. CASE ConfirmSync
  BY <1>a, <1>b, <1>13, ConfirmFacts, ConfirmEffect DEF Release, Candidates
<1> QED
  BY <1>1, <1>2, <1>3, <1>4, <1>5, <1>6, <1>7, <1>8, <1>9, <1>10, <1>11, <1>12,
     <1>13, StepCases

\* No step leaves a marked row to a live device of an active owner, unless it
\* writes from a copy out of date.
LEMMA ActiveRowsStep ==
    ASSUME GeneralInv, [Next]_vars
    PROVE  ActiveOwnerRowsLive'
<1> USE ConstantsAssumption DEF GeneralInv
<1>1. CASE Quiet
  BY <1>1 DEF Quiet, ActiveOwnerRowsLive
<1>2. ASSUME NEW d \in Devices, CreateDevice(d)  PROVE ActiveOwnerRowsLive'
  BY <1>2 DEF CreateDevice, ActiveOwnerRowsLive, RowsHaveParents, Tombstoned, TypeOK
<1>3. ASSUME NEW d \in Devices, DeleteDevice(d)  PROVE ActiveOwnerRowsLive'
  BY <1>3 DEF DeleteDevice, Release, ActiveOwnerRowsLive, Tombstoned, TypeOK, jobVars
<1>4. ASSUME NEW u \in Users, NEW s, NEW c, NEW t, Rederive(u, s, c, t)
      PROVE  ActiveOwnerRowsLive'
  <2>1. SUFFICES ASSUME NEW m \in Nodes, NEW d \in Devices, d \notin raced',
                        device'[d] = "live", lifecycle'[Owner[d]] = "active"
                 PROVE  peer'[m][d] \notin Tombstoned
    BY DEF ActiveOwnerRowsLive
  <2>2. device[d] = "live"
    BY <1>4, <2>1 DEF Rederive
  <2>3. CASE Owner[d] = u
    BY <1>4, <2>1, <2>2, <2>3, RederiveEffect
  <2>4. CASE Owner[d] # u
    BY <1>4, <2>1, <2>2, <2>4, RederiveEffect DEF ActiveOwnerRowsLive
  <2> QED  BY <2>3, <2>4
<1>5. ASSUME NEW u \in Users, BecomeConstrained(u)  PROVE ActiveOwnerRowsLive'
  BY <1>5 DEF BecomeConstrained, ActiveOwnerRowsLive, Tombstoned, TypeOK, jobVars
<1>6. ASSUME NEW u \in Users, DeleteUser(u)  PROVE ActiveOwnerRowsLive'
  BY <1>6 DEF DeleteUser, ActiveOwnerRowsLive, Tombstoned, TypeOK, jobVars
<1>7. ASSUME NEW n \in Nodes, AddNodeSelect(n)  PROVE ActiveOwnerRowsLive'
  BY <1>7 DEF AddNodeSelect, ActiveOwnerRowsLive, Tombstoned, TypeOK, jobVars
<1>8. ASSUME NEW n \in Nodes, AddNodeCommit(n)  PROVE ActiveOwnerRowsLive'
  BY <1>8 DEF AddNodeCommit, ActiveOwnerRowsLive, Tombstoned, TypeOK, jobVars
<1>9. ASSUME NEW n \in Nodes, DeleteNode(n)  PROVE ActiveOwnerRowsLive'
  BY <1>9 DEF DeleteNode, Release, NoRows, ActiveOwnerRowsLive, Tombstoned, TypeOK,
              jobVars
<1>a. ASSUME NEW us, lifecycle' = LifeAfter(us), raced' = RacedAfter(us),
             NEW d \in Devices, d \notin raced', lifecycle'[Owner[d]] = "active"
      PROVE  \/ Owner[d] \in us /\ LifeAfter(us)[Owner[d]] = "active"
             \/ d \notin raced /\ lifecycle[Owner[d]] = "active"
  BY <1>a DEF LifeAfter, RacedAfter, TypeOK
<1>b. ASSUME NEW n \in Nodes, NEW seen, NEW us, lifecycle' = LifeAfter(us),
             raced' = RacedAfter(us), NEW m \in Nodes, NEW d \in Devices,
             d \notin raced', device[d] = "live", lifecycle'[Owner[d]] = "active"
      PROVE  RowsAfter(n, seen, us)[m][d] \notin Tombstoned
  <2>1. CASE Owner[d] \in us /\ LifeAfter(us)[Owner[d]] = "active"
    BY <1>b, <2>1, RowsAfterEffect DEF Tombstoned
  <2>2. CASE /\ ~(Owner[d] \in us /\ LifeAfter(us)[Owner[d]] = "active")
             /\ d \notin raced /\ lifecycle[Owner[d]] = "active"
    <3>1. peer[m][d] \notin Tombstoned
      BY <1>b, <2>2 DEF ActiveOwnerRowsLive
    <3>2. AckedRows(n, seen)[m][d] \notin Tombstoned
      BY <1>b, <3>1, AckEffect DEF Tombstoned
    <3>3. Owner[d] \notin us
      BY <1>b, <2>2
    <3> QED  BY <1>b, <3>2, <3>3, RowsAfterEffect
  <2> QED  BY <1>a, <1>b, <2>1, <2>2
<1>10. ASSUME NEW n \in Nodes, HeartbeatReport(n)  PROVE ActiveOwnerRowsLive'
  BY <1>b, <1>10, HeartbeatFacts DEF ActiveOwnerRowsLive
<1>11. CASE ReportSync
  <2>1. PICK us : LET acked == AckedRows(at, dump) IN
              /\ at \in Nodes /\ acked \in [Nodes -> [Devices -> Status]]
              /\ RowsAfter(at, dump, us) = acked
              /\ lifecycle' = LifeAfter(us) /\ raced' = RacedAfter(us)
              /\ peer' = Confirmed(acked, acked[at], at, dump)
              /\ device' = Release(device, peer', Candidates(acked[at], dump))
    BY <1>11, ReportSyncFacts
  <2>2. SUFFICES ASSUME NEW m \in Nodes, NEW d \in Devices, d \notin raced',
                        device'[d] = "live", lifecycle'[Owner[d]] = "active"
                 PROVE  peer'[m][d] \notin Tombstoned
    BY DEF ActiveOwnerRowsLive
  <2>3. device[d] = "live"
    BY <2>1, <2>2 DEF Release
  <2>4. AckedRows(at, dump)[m][d] \notin Tombstoned
    BY <1>b, <2>1, <2>2, <2>3
  <2> QED  BY <2>1, <2>4, ConfirmEffect DEF Tombstoned
<1>12. CASE ReportSyncCommits
  BY <1>b, <1>12, CommitsFacts DEF ActiveOwnerRowsLive
<1>13. CASE ConfirmSync
  BY <1>13, ConfirmFacts, ConfirmEffect
     DEF ActiveOwnerRowsLive, Tombstoned, Release
<1> QED
  BY <1>1, <1>2, <1>3, <1>4, <1>5, <1>6, <1>7, <1>8, <1>9, <1>10, <1>11, <1>12,
     <1>13, StepCases

\* The job's variables stay consistent, and a node being added stays out of it.
LEMMA JobStepInv ==
    ASSUME GeneralInv, [Next]_vars
    PROVE  JobShape' /\ FreshNodes'
<1> DEFINE G == JobShape' /\ FreshNodes'
<1> USE ConstantsAssumption DEF GeneralInv
<1>1. ASSUME UNCHANGED <<jobVars, wg>>,
             \A n \in Nodes : node'[n] \in {"absent", "adding"}
                                 => node[n] \in {"absent", "adding"}
      PROVE  G
  BY <1>1 DEF JobShape, FreshNodes, jobVars
<1>2. CASE Request \/ Heartbeat
  <2>1. ASSUME NEW n \in Nodes,
               AddNodeSelect(n) \/ AddNodeCommit(n) \/ DeleteNode(n)
        PROVE  G
    <3>1. \A m \in Nodes : node'[m] \in {"absent", "adding"}
                              => node[m] \in {"absent", "adding"}
      BY <2>1 DEF AddNodeSelect, AddNodeCommit, DeleteNode, TypeOK
    <3>2. UNCHANGED <<jobVars, wg>>
      BY <2>1 DEF AddNodeSelect, AddNodeCommit, DeleteNode
    <3> QED  BY <1>1, <3>1, <3>2
  <2>2. ASSUME ~\E n \in Nodes : AddNodeSelect(n) \/ AddNodeCommit(n)
                                 \/ DeleteNode(n)
        PROVE  UNCHANGED <<jobVars, wg, node>>
    BY <1>2, <2>2 DEF Request, Heartbeat, CreateDevice, DeleteDevice, LoadUser,
       RequestEnds, BlockUser,
       UnblockUser, UpdateLifecycle, ResetTraffic, Rederive, BecomeConstrained,
       DeleteUser, HeartbeatDump, HeartbeatReport, HeartbeatLost, dbVars
  <2> QED  BY <1>1, <2>1, <2>2
<1>3. CASE StartSyncAll
  BY <1>3 DEF StartSyncAll, JobShape, FreshNodes, Managed, dbVars, TypeOK
<1>4. ASSUME NEW n \in Nodes, NEW k, StartNodeJob(n, k)  PROVE G
  BY <1>4 DEF StartNodeJob, ReadSnapshot, JobShape, FreshNodes, Managed, dbVars,
              TypeOK
<1>5. ASSUME NEW n \in Nodes, FetchNext(n)  PROVE G
  BY <1>5 DEF FetchNext, ReadSnapshot, JobShape, FreshNodes, dbVars, TypeOK
<1>6. ASSUME NEW n \in Nodes, BeginNode(n)  PROVE G
  BY <1>6 DEF BeginNode, JobShape, FreshNodes, dbVars, TypeOK
<1>7. ASSUME NEW d \in Devices, InstallPeer(d) \/ RemovePeer(d)  PROVE G
  BY <1>7 DEF InstallPeer, RemovePeer, Answering, JobShape, FreshNodes, jobVars,
              dbVars, TypeOK
<1>8. CASE TakeDump \/ ApplyFails
  BY <1>8 DEF TakeDump, ApplyFails, Answering, JobShape, FreshNodes, dbVars,
              TypeOK
<1>9. ASSUME EndJob, UNCHANGED <<node, wg>>  PROVE G
  BY <1>9 DEF EndJob, JobShape, FreshNodes, Nothing
<1>10. CASE \/ ReportFailure \/ ReportRefused \/ ReportProvision
            \/ ConfirmFails \/ Abort
  BY <1>9, <1>10 DEF ReportFailure, ReportRefused, ReportProvision, ConfirmFails,
                     Abort, dbVars
<1>11. CASE ReportSync \/ ConfirmSync
  <2>1. FinishNode /\ UNCHANGED <<node, wg>>
    BY <1>11 DEF ReportSync, ConfirmSync
  <2>2. phase \in {"reporting", "confirming"}
    BY <1>11 DEF ReportSync, ConfirmSync
  <2>3. CASE todo = {} /\ EndJob
    BY <1>9, <2>1, <2>3
  <2>4. CASE ~(todo = {} /\ EndJob)
    BY <2>1, <2>2, <2>4 DEF FinishNode, JobShape, FreshNodes, TypeOK
  <2> QED  BY <2>3, <2>4
<1>12. CASE ReportSyncCommits
  BY <1>12 DEF ReportSyncCommits, JobShape, FreshNodes, TypeOK
<1>13. CASE UNCHANGED vars
  BY <1>1, <1>13 DEF vars, dbVars
<1> QED
  BY <1>2, <1>3, <1>4, <1>5, <1>6, <1>7, <1>8, <1>10, <1>11, <1>12, <1>13
  DEF Next, StartJob, JobStep

\* No step forgets that a node was asked to install a confirmed removal again.
LEMMA RevivedGrows ==
    ASSUME TypeOK, [Next]_vars, NEW m \in Nodes
    PROVE  revived[m] \subseteq revived'[m]
<1>1. ASSUME NEW n \in Nodes, ReadSnapshot(n)
      PROVE  revived[m] \subseteq revived'[m]
  BY <1>1 DEF ReadSnapshot, TypeOK
<1>2. CASE UNCHANGED jobVars
  BY <1>2 DEF jobVars
<1>3. CASE Request \/ Heartbeat \/ UNCHANGED vars
  BY <1>2, <1>3 DEF Request, Heartbeat, CreateDevice, DeleteDevice, LoadUser,
     RequestEnds, BlockUser, UnblockUser, UpdateLifecycle, ResetTraffic, Rederive,
     BecomeConstrained, DeleteUser, AddNodeSelect, AddNodeCommit, DeleteNode,
     HeartbeatDump, HeartbeatReport, HeartbeatLost, vars
<1>4. CASE StartJob
  BY <1>1, <1>4 DEF StartJob, StartSyncAll, StartNodeJob
<1>5. CASE JobStep \/ Abort
  BY <1>1, <1>2, <1>5 DEF JobStep, Abort, FetchNext, BeginNode, InstallPeer,
     RemovePeer, TakeDump, ApplyFails, ReportFailure, ReportRefused,
     ReportProvision, ReportSync, ReportSyncCommits, ConfirmSync, ConfirmFails,
     FinishNode, EndJob
<1> QED  BY <1>3, <1>4, <1>5 DEF Next

\* A row that stands for a tunnel keeps standing for it as long as its node is
\* managed and no report of that node says that the tunnel is gone.
LEMMA HasRowKept ==
    ASSUME GeneralInv, [Next]_vars, NEW m \in Nodes, node'[m] = "managed",
           NEW e \in Devices, HasRow(m, e),
           (ReportSync \/ ConfirmSync) /\ m = at => e \in dump
    PROVE  HasRow(m, e)'
<1> USE DEF GeneralInv, HasRow, Reserved
<1>a. e \in revived[m] => HasRow(m, e)'
  BY RevivedGrows
<1>1. CASE Quiet
  BY <1>a, <1>1 DEF Quiet
<1>2. ASSUME NEW d \in Devices, CreateDevice(d)  PROVE HasRow(m, e)'
  BY <1>a, <1>2 DEF CreateDevice, TypeOK
<1>3. ASSUME NEW d \in Devices, DeleteDevice(d)  PROVE HasRow(m, e)'
  BY <1>a, <1>3 DEF DeleteDevice, Release, TypeOK
<1>4. ASSUME NEW u \in Users, NEW s, NEW c, NEW t, Rederive(u, s, c, t)
      PROVE  HasRow(m, e)'
  BY <1>a, <1>4, RederiveEffect
<1>5. ASSUME NEW u \in Users, BecomeConstrained(u) \/ DeleteUser(u)
      PROVE  HasRow(m, e)'
  BY <1>a, <1>5 DEF BecomeConstrained, DeleteUser, TypeOK
<1>6. ASSUME NEW n \in Nodes, AddNodeSelect(n)  PROVE HasRow(m, e)'
  BY <1>a, <1>6 DEF AddNodeSelect
<1>7. ASSUME NEW n \in Nodes, AddNodeCommit(n)  PROVE HasRow(m, e)'
  BY <1>a, <1>7 DEF AddNodeCommit, TypeOK
<1>8. ASSUME NEW n \in Nodes, DeleteNode(n)  PROVE HasRow(m, e)'
  BY <1>a, <1>8 DEF DeleteNode, Release, NoRows, TypeOK
<1>9. ASSUME NEW n \in Nodes, HeartbeatReport(n)  PROVE HasRow(m, e)'
  BY <1>a, <1>9, HeartbeatFacts, AckEffect, RowsAfterEffect DEF Tombstoned
<1>10. CASE ReportSync
  BY <1>a, <1>10, ReportSyncFacts, AckEffect, ConfirmEffect DEF Release
<1>11. CASE ReportSyncCommits
  BY <1>a, <1>11, CommitsFacts, AckEffect, RowsAfterEffect DEF Tombstoned
<1>12. CASE ConfirmSync
  BY <1>a, <1>12, ConfirmFacts, ConfirmEffect DEF Release
<1> QED
  BY <1>1, <1>2, <1>3, <1>4, <1>5, <1>6, <1>7, <1>8, <1>9, <1>10, <1>11, <1>12,
     StepCases

\* A managed node was managed before the step, or is new and empty.
LEMMA ManagedBefore ==
    ASSUME GeneralInv, [Next]_vars, NEW m \in Nodes, node'[m] = "managed"
    PROVE  node[m] = "managed" \/ (wg[m] = {} /\ put[m] = {})
<1> USE DEF GeneralInv
<1>1. node[m] # "removed"
  <2>1. CASE UNCHANGED node  BY <2>1
  <2>2. ASSUME NEW n \in Nodes,
               AddNodeSelect(n) \/ AddNodeCommit(n) \/ DeleteNode(n)
        PROVE  node[m] # "removed"
    BY <2>2 DEF AddNodeSelect, AddNodeCommit, DeleteNode, TypeOK
  <2>3. \/ UNCHANGED node
        \/ \E n \in Nodes : AddNodeSelect(n) \/ AddNodeCommit(n) \/ DeleteNode(n)
    BY StepCases DEF Quiet, CreateDevice, DeleteDevice, Rederive, BecomeConstrained,
       DeleteUser, HeartbeatReport, ReportSync, ReportSyncCommits, ConfirmSync
  <2> QED  BY <2>1, <2>2, <2>3
<1> QED  BY <1>1 DEF FreshNodes, TypeOK

\* What a step does to a tunnel and to a planned installation of a managed node.
LEMMA TunnelsChange ==
    ASSUME GeneralInv, [Next]_vars, NEW m \in Nodes, NEW e
    PROVE  LET settled == (ReportSync \/ ConfirmSync) /\ m = at
           IN  /\ e \in wg'[m] => e \in wg[m] \/ (e \in put[m] /\ ~settled)
               /\ e \in put'[m] =>
                     \/ e \in put[m] /\ ~settled
                     \/ /\ e \in SnapshotPut(m) /\ UNCHANGED dbVars
                        /\ peer[m][e] = "deleted" => e \in revived'[m]
<1> DEFINE settled == (ReportSync \/ ConfirmSync) /\ m = at
           G == /\ e \in wg'[m] => e \in wg[m] \/ (e \in put[m] /\ ~settled)
                /\ e \in put'[m] =>
                      \/ e \in put[m] /\ ~settled
                      \/ /\ e \in SnapshotPut(m) /\ UNCHANGED dbVars
                         /\ peer[m][e] = "deleted" => e \in revived'[m]
<1> USE DEF GeneralInv
<1>1. CASE ReportSync \/ ConfirmSync
  <2>1. UNCHANGED wg /\ FinishNode /\ at \in Nodes
    BY <1>1 DEF ReportSync, ConfirmSync, TypeOK
  <2> QED  BY <2>1 DEF FinishNode, EndJob, Nothing, TypeOK
<1>2. CASE UNCHANGED <<wg, put>>
  BY <1>1, <1>2
<1>3. CASE Request \/ Heartbeat \/ UNCHANGED vars
  <2>1. UNCHANGED <<jobVars, wg>>
    BY <1>3 DEF Request, Heartbeat, CreateDevice, DeleteDevice, LoadUser,
       RequestEnds, BlockUser, UnblockUser, UpdateLifecycle, ResetTraffic, Rederive,
       BecomeConstrained, DeleteUser, AddNodeSelect, AddNodeCommit, DeleteNode,
       HeartbeatDump, HeartbeatReport, HeartbeatLost, vars
  <2> QED  BY <1>2, <2>1 DEF jobVars
<1>4. ASSUME NEW n \in Nodes, ReadSnapshot(n), UNCHANGED <<dbVars, wg>>,
             ~(ReportSync \/ ConfirmSync)
      PROVE  G
  BY <1>4 DEF ReadSnapshot, TypeOK
<1>5. CASE StartJob
  BY <1>1, <1>2, <1>4, <1>5 DEF StartJob, StartSyncAll, StartNodeJob
<1>6. ASSUME NEW n \in Nodes, FetchNext(n) \/ BeginNode(n)  PROVE G
  BY <1>1, <1>2, <1>4, <1>6 DEF FetchNext, BeginNode
<1>7. ASSUME NEW d \in Devices, InstallPeer(d) \/ RemovePeer(d)  PROVE G
  <2>1. at \in Nodes /\ UNCHANGED put /\ ~(ReportSync \/ ConfirmSync)
    BY <1>7 DEF InstallPeer, RemovePeer, Answering, TypeOK, jobVars, ReportSync,
                ConfirmSync
  <2>2. e \in wg'[m] => e \in wg[m] \/ e \in put[m]
    <3>1. \/ wg' = [wg EXCEPT ![at] = @ \cup {d}] /\ d \in put[at]
          \/ wg' = [wg EXCEPT ![at] = @ \ {d}]
      BY <1>7 DEF InstallPeer, RemovePeer
    <3>2. wg \in [Nodes -> SUBSET Devices]
      BY DEF TypeOK
    <3> QED  BY <2>1, <3>1, <3>2
  <2> QED  BY <2>1, <2>2
<1>8. CASE TakeDump \/ ApplyFails \/ ReportSyncCommits
  BY <1>2, <1>8 DEF TakeDump, ApplyFails, ReportSyncCommits
<1>9. CASE \/ ReportFailure \/ ReportRefused \/ ReportProvision \/ ConfirmFails
           \/ Abort
  BY <1>1, <1>9 DEF ReportFailure, ReportRefused, ReportProvision, ConfirmFails,
                    Abort, EndJob, Nothing
<1> QED
  BY <1>1, <1>3, <1>5, <1>6, <1>7, <1>8, <1>9 DEF Next, JobStep

\* What the report handler was told is what the node holds, until it is done.
LEMMA DumpStep ==
    ASSUME GeneralInv, [Next]_vars
    PROVE  DumpIsCurrent'
<1> USE DEF GeneralInv, DumpIsCurrent
<1>1. CASE UNCHANGED <<jobVars, wg>>
  BY <1>1 DEF jobVars
<1>2. CASE Request \/ Heartbeat \/ UNCHANGED vars
  <2>1. UNCHANGED <<jobVars, wg>>
    BY <1>2 DEF Request, Heartbeat, CreateDevice, DeleteDevice, LoadUser,
       RequestEnds, BlockUser, UnblockUser, UpdateLifecycle, ResetTraffic, Rederive,
       BecomeConstrained, DeleteUser, AddNodeSelect, AddNodeCommit, DeleteNode,
       HeartbeatDump, HeartbeatReport, HeartbeatLost, vars
  <2> QED  BY <1>1, <2>1
<1>3. CASE StartJob \/ (\E n \in Nodes : FetchNext(n) \/ BeginNode(n)) \/ ApplyFails
  BY <1>3 DEF StartJob, StartSyncAll, StartNodeJob, FetchNext, BeginNode, ApplyFails
<1>4. ASSUME NEW d \in Devices, InstallPeer(d) \/ RemovePeer(d)  PROVE DumpIsCurrent'
  BY <1>4 DEF InstallPeer, RemovePeer, Answering, jobVars
<1>5. CASE TakeDump \/ ReportSyncCommits
  BY <1>5 DEF TakeDump, ReportSyncCommits
<1>6. CASE \/ ReportFailure \/ ReportRefused \/ ReportProvision \/ ConfirmFails
           \/ Abort \/ ReportSync \/ ConfirmSync
  BY <1>6 DEF ReportFailure, ReportRefused, ReportProvision, ConfirmFails, Abort,
              ReportSync, ConfirmSync, FinishNode, EndJob
<1> QED
  BY <1>2, <1>3, <1>4, <1>5, <1>6 DEF Next, JobStep

\* Tunnels and planned installations keep their rows.
LEMMA TunnelStep ==
    ASSUME GeneralInv, [Next]_vars
    PROVE  TunnelHasRow' /\ InstallHasRow'
<1> USE DEF GeneralInv
<1>1. TypeOK'
  BY TypeStep
<1>2. SUFFICES ASSUME NEW m \in Nodes, node'[m] = "managed", NEW e \in Devices,
                      e \in wg'[m] \/ e \in put'[m]
               PROVE  HasRow(m, e)'
  BY <1>1 DEF TunnelHasRow, InstallHasRow, Managed, TypeOK
<1>3. node[m] = "managed" => /\ e \in wg[m] => HasRow(m, e)
                             /\ e \in put[m] => HasRow(m, e)
  BY DEF TunnelHasRow, InstallHasRow, Managed
<1>4. (ReportSync \/ ConfirmSync) /\ m = at => wg[m] = dump
  BY DEF ReportSync, ConfirmSync, DumpIsCurrent
<1>5. ASSUME e \in wg[m] \/ e \in put[m], HasRow(m, e) => HasRow(m, e)'
      PROVE  HasRow(m, e)'
  BY <1>2, <1>3, <1>5, ManagedBefore
<1>6. CASE e \in wg[m]
  BY <1>2, <1>4, <1>5, <1>6, HasRowKept
<1>7. CASE e \in put[m] /\ ~((ReportSync \/ ConfirmSync) /\ m = at)
  BY <1>2, <1>5, <1>7, HasRowKept
<1>8. CASE /\ e \in SnapshotPut(m) /\ UNCHANGED dbVars
           /\ peer[m][e] = "deleted" => e \in revived'[m]
  BY <1>8 DEF SnapshotPut, HasRow, Reserved, dbVars
<1> QED  BY <1>2, <1>6, <1>7, <1>8, TunnelsChange

\* Every step preserves GeneralInv.
LEMMA GeneralStep ==
    ASSUME GeneralInv, [Next]_vars
    PROVE  GeneralInv'
<1>1. TypeOK'
  BY TypeStep DEF GeneralInv
<1> QED
  BY <1>1, JobStepInv, ParentsStep, GoneStep, LeakStep, DistinctStep,
     ActiveRowsStep, TunnelStep, DumpStep DEF GeneralInv

\* The general invariant holds in every state, whatever the number of nodes.
THEOREM GeneralInvariant == Spec => []GeneralInv
<1>1. Init => GeneralInv
  <2> SUFFICES ASSUME Init PROVE GeneralInv
    OBVIOUS
  <2>1. TypeOK
    BY ConstantsAssumption DEF Init, TypeOK, Nothing, NoRows
  <2>2. /\ JobShape /\ FreshNodes /\ TunnelHasRow /\ InstallHasRow
        /\ DumpIsCurrent
    BY ConstantsAssumption DEF Init, JobShape, FreshNodes, TunnelHasRow,
       InstallHasRow, DumpIsCurrent, Nothing, Managed
  <2>3. /\ RowsHaveParents /\ NoAddressLeak /\ ActiveOwnerRowsLive
        /\ ReservedAddressesDistinct
    BY DEF Init, RowsHaveParents, NoAddressLeak, ActiveOwnerRowsLive,
       ReservedAddressesDistinct, Reserved, Tombstoned, NoRows, Nothing
  <2>4. GoneOwnsNothing
    BY ConstantsAssumption DEF Init, GoneOwnsNothing
  <2> QED  BY <2>1, <2>2, <2>3, <2>4 DEF GeneralInv
<1>2. GeneralInv /\ [Next]_vars => GeneralInv'
  BY GeneralStep
<1> QED  BY <1>1, <1>2, PTL DEF Spec

\* No address is lost: a deleted device that still holds its address has a row on
\* a managed node that no report has confirmed (release_device_ips).
THEOREM AddressesNeverLeak == Spec => []NoAddressLeak
<1>1. GeneralInv => NoAddressLeak
  BY DEF GeneralInv
<1> QED  BY <1>1, GeneralInvariant, PTL

\* For any number of nodes, every row of a live device of an active owner is live
\* (apply_local_lifecycle_state against node_sync_result), unless the last write
\* to the device's rows came from a copy out of date.
THEOREM RecoveryIsKept == Spec => []ActiveOwnerRowsLive
<1>1. GeneralInv => ActiveOwnerRowsLive
  BY DEF GeneralInv
<1> QED  BY <1>1, GeneralInvariant, PTL

\* For any number of nodes, the address of a device is not released while a node
\* holds its tunnel (release_device_ip's "may still be installed on some node"),
\* unless the account was deleted or the node was asked to install the device
\* again after it had confirmed the removal.
THEOREM InstalledIsReserved == Spec => []ReservedWhileInstalled
<1>1. GeneralInv => ReservedWhileInstalled
  BY DEF GeneralInv, TunnelHasRow, HasRow, ReservedWhileInstalled, Managed, TypeOK
<1> QED  BY <1>1, GeneralInvariant, PTL

\* With the same exceptions no node carries two tunnels on one address, for any
\* number of devices, nodes and addresses.
THEOREM AddressesAreNotShared == Spec => []NoSharedAddress
<1>1. GeneralInv => NoSharedAddress
  <2>1. GeneralInv => ReservedWhileInstalled
    BY DEF GeneralInv, TunnelHasRow, HasRow, ReservedWhileInstalled, Managed, TypeOK
  <2> QED  BY <2>1 DEF GeneralInv, ReservedWhileInstalled,
              ReservedAddressesDistinct, NoSharedAddress, Managed, TypeOK
<1> QED  BY <1>1, GeneralInvariant, PTL

\* A deleted device stays deleted for any number of nodes and any interleaving of
\* reports, heartbeats and lifecycle requests, save a request that writes from a
\* copy out of date.
THEOREM DurableDeletion == Spec => DeletionIsDurable
<1> DEFINE Durable == \A n \in Nodes, d \in Devices :
              /\ device[d] \in {"tombstoned", "released"}
              /\ peer[n][d] \in Tombstoned
              /\ d \notin raced'
              => peer'[n][d] \in Tombstoned \cup {"none"}
<1>1. GeneralInv /\ [Next]_vars => [Durable]_vars
  <2> SUFFICES ASSUME GeneralInv, [Next]_vars, NEW m \in Nodes, NEW e \in Devices,
                      device[e] \in {"tombstoned", "released"},
                      peer[m][e] \in Tombstoned, e \notin raced'
               PROVE  peer'[m][e] \in Tombstoned \cup {"none"}
    OBVIOUS
  <2> USE DEF GeneralInv, Tombstoned
  <2>1. CASE Quiet
    BY <2>1 DEF Quiet
  <2>2. ASSUME NEW d \in Devices, CreateDevice(d) \/ DeleteDevice(d)
        PROVE  peer'[m][e] \in Tombstoned \cup {"none"}
    <3>1. CASE CreateDevice(d)  BY <3>1 DEF CreateDevice, TypeOK
    <3>2. CASE DeleteDevice(d)  BY <3>2 DEF DeleteDevice, TypeOK
    <3> QED  BY <2>2, <3>1, <3>2
  <2>3. ASSUME NEW u \in Users, NEW s, NEW c, NEW t, Rederive(u, s, c, t)
        PROVE  peer'[m][e] \in Tombstoned \cup {"none"}
    BY <2>3, RederiveEffect DEF Deleted
  <2>4. ASSUME NEW u \in Users, BecomeConstrained(u) \/ DeleteUser(u)
        PROVE  peer'[m][e] \in Tombstoned \cup {"none"}
    BY <2>4 DEF BecomeConstrained, DeleteUser, TypeOK
  <2>5. ASSUME NEW n \in Nodes, AddNodeSelect(n) \/ AddNodeCommit(n)
        PROVE  peer'[m][e] \in Tombstoned \cup {"none"}
    <3>1. CASE AddNodeSelect(n)  BY <3>1 DEF AddNodeSelect
    <3>2. CASE AddNodeCommit(n)
      <4>1. n # m
        BY <3>2 DEF AddNodeCommit, RowsHaveParents
      <4> QED  BY <3>2, <4>1 DEF AddNodeCommit, TypeOK
    <3> QED  BY <2>5, <3>1, <3>2
  <2>6. ASSUME NEW n \in Nodes, DeleteNode(n)
        PROVE  peer'[m][e] \in Tombstoned \cup {"none"}
    BY <2>6 DEF DeleteNode, NoRows, TypeOK
  <2>7. ASSUME NEW n \in Nodes, HeartbeatReport(n)
        PROVE  peer'[m][e] \in Tombstoned \cup {"none"}
    BY <2>7, HeartbeatFacts, AckEffect, RowsAfterEffect DEF Deleted
  <2>8. CASE ReportSync
    BY <2>8, ReportSyncFacts, AckEffect, ConfirmEffect
  <2>9. CASE ReportSyncCommits
    BY <2>9, CommitsFacts, AckEffect, RowsAfterEffect DEF Deleted
  <2>10. CASE ConfirmSync
    BY <2>10, ConfirmFacts, ConfirmEffect
  <2> QED  BY <2>1, <2>2, <2>3, <2>4, <2>5, <2>6, <2>7, <2>8, <2>9, <2>10,
              StepCases
<1> QED  BY <1>1, GeneralInvariant, PTL DEF Spec, DeletionIsDurable

=============================================================================
