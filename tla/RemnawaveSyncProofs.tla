------------------------ MODULE RemnawaveSyncProofs ------------------------
(***************************************************************************)
(* Proofs about RemnawaveSync, for any set of remote users, page size,     *)
(* number of changes and of overlapping jobs: the invariants of the rows,  *)
(* that a deleted device stays deleted, and that a pass without a deletion *)
(* misses no user who was there when it began.                             *)
(***************************************************************************)
EXTENDS RemnawaveSync, CountingTheorems

-----------------------------------------------------------------------------
(* The listing.                                                            *)

\* The listing is finite, and positions count from 1 to its length.
LEMMA Positions ==
    /\ Listed \subseteq Nat /\ IsFiniteSet(Listed) /\ Cardinality(Listed) \in Nat
    /\ \A u \in Listed : /\ u \in Nat /\ IsFiniteSet({v \in Listed : v <= u})
                         /\ Position(u) \in Nat /\ Position(u) # 0
                         /\ Position(u) <= Cardinality(Listed)
<1>1. Listed \subseteq Nat /\ IsFiniteSet(Listed)
  BY RemnawaveAssumption, FS_Subset DEF Listed
<1>2. Cardinality(Listed) \in Nat
  BY <1>1, FS_CardinalityType
<1>3. ASSUME NEW u \in Listed
      PROVE  /\ u \in Nat /\ IsFiniteSet({v \in Listed : v <= u})
             /\ Position(u) \in Nat /\ Position(u) # 0
             /\ Position(u) <= Cardinality(Listed)
  <2> DEFINE T == {v \in Listed : v <= u}
  <2>1. IsFiniteSet(T) /\ Cardinality(T) <= Cardinality(Listed)
    BY <1>1, FS_Subset
  <2>2. T # {}
    BY <1>1
  <2>3. Cardinality(T) \in Nat /\ Cardinality(T) # 0
    BY <2>1, <2>2, FS_CardinalityType, FS_EmptySet
  <2> QED
    BY <1>1, <2>1, <2>3 DEF Position
<1> QED
  BY <1>1, <1>2, <1>3

\* A later user has a later position.
LEMMA PositionsGrow ==
    ASSUME NEW u \in Listed, NEW v \in Listed, u < v
    PROVE  Position(u) < Position(v)
<1> DEFINE S == {w \in Listed : w <= u}
           T == {w \in Listed : w <= v}
<1>0. u \in Nat /\ v \in Nat /\ \A w \in Listed : w \in Nat
  BY Positions
<1>1. IsFiniteSet(T)
  BY Positions
<1>2. S \subseteq T /\ v \in T /\ v \notin S
  <2>1. \A w \in Listed : w <= u => w <= v
    BY <1>0
  <2>2. v <= v /\ ~(v <= u)
    BY <1>0
  <2> QED
    BY <2>1, <2>2
<1>3. Cardinality(S) <= Cardinality(T) /\ (Cardinality(S) = Cardinality(T) => S = T)
  BY <1>1, <1>2, FS_Subset
<1>4. Position(u) = Cardinality(S) /\ Position(v) = Cardinality(T)
  BY DEF Position
<1>5. Position(u) \in Nat /\ Position(v) \in Nat
  BY Positions
<1> QED
  BY <1>2, <1>3, <1>4, <1>5

\* A page has at most as many users as it has positions.
LEMMA PageFits ==
    ASSUME NEW start \in Nat
    PROVE  LET us == {u \in Listed : Position(u) \in start + 1 .. start + PageSize}
           IN  IsFiniteSet(us) /\ Cardinality(us) \in Nat /\ Cardinality(us) <= PageSize
<1> DEFINE us == {u \in Listed : Position(u) \in start + 1 .. start + PageSize}
           I == start + 1 .. start + PageSize
           f == [u \in us |-> Position(u)]
<1>2. f \in [us -> I]
  OBVIOUS
<1>3. ASSUME NEW u \in us, NEW v \in us, f[u] = f[v]
      PROVE  u = v
  <2>1. Position(u) = Position(v) /\ Position(u) \in Nat
    BY <1>3, Positions
  <2>2. u \in Nat /\ v \in Nat /\ u \in Listed /\ v \in Listed
    BY Positions
  <2>3. ~(u < v) /\ ~(v < u)
    BY <2>1, <2>2, PositionsGrow
  <2> HIDE DEF us, f
  <2> QED
    BY <2>2, <2>3
<1>4. f \in Injection(us, I)
  <2> HIDE DEF f, us, I
  <2> QED
    BY <1>2, <1>3 DEF Injection, IsInjective
<1>5. IsFiniteSet(I) /\ Cardinality(I) = PageSize
  <2>1. PageSize \in Nat /\ PageSize # 0
    BY RemnawaveAssumption
  <2> QED
    BY <2>1, FS_Interval
<1>6. IsFiniteSet(us) /\ Cardinality(us) <= Cardinality(I)
  BY <1>4, <1>5, FS_Injection
<1> QED
  BY <1>5, <1>6, FS_CardinalityType

\* A page that is empty lies behind the last user.
LEMMA EmptyPage ==
    ASSUME NEW start \in Nat,
           \A u \in Listed : Position(u) \notin start + 1 .. start + PageSize
    PROVE  \A u \in Listed : Position(u) <= start
<1> DEFINE B == {u \in Listed : Position(u) > start}
<1> SUFFICES ASSUME B # {}
             PROVE  FALSE
  <2>1. \A u \in Listed : Position(u) \in Nat
    BY Positions
  <2> QED
    BY <2>1
<1>0. \A u \in Listed : u \in Nat /\ Position(u) \in Nat
  BY Positions
<1>1. PICK u \in B : \A v \in B : u <= v
  BY <1>0, Least
<1> DEFINE T == {v \in Listed : v < u}
<1>2. T # {} => Cardinality(T) <= start
  <2> SUFFICES ASSUME T # {}
               PROVE  Cardinality(T) <= start
    OBVIOUS
  <2>1. T \in SUBSET Nat /\ u \in Nat /\ \A x \in T : x <= u
    BY <1>0, <1>1
  <2>2. PICK w \in T : \A y \in T : y <= w
    BY <2>1, Greatest
  <2>3. T = {v \in Listed : v <= w}
    BY <1>0, <1>1, <2>2
  <2>4. Position(w) <= start
    BY <1>0, <1>1, <2>2
  <2> QED
    BY <2>3, <2>4 DEF Position
<1>3. T = {} => Cardinality(T) = 0
  BY FS_EmptySet
<1>4. Position(u) = Cardinality(T) + 1 /\ Cardinality(T) \in Nat
  <2>1. T = {v \in Listed : v <= u} \ {u} /\ u \in {v \in Listed : v <= u}
    BY <1>0, <1>1
  <2>2. IsFiniteSet({v \in Listed : v <= u})
    BY <1>1, Positions
  <2>3. IsFiniteSet(T) /\ Cardinality(T) = Position(u) - 1
    BY <2>1, <2>2, FS_RemoveElement DEF Position
  <2> QED
    BY <1>0, <1>1, <2>3, FS_CardinalityType
<1>5. Position(u) <= start + 1
  BY <1>2, <1>3, <1>4
<1>6. PageSize \in Nat /\ PageSize >= 1
  BY RemnawaveAssumption
<1> QED
  BY <1>0, <1>1, <1>5, <1>6

-----------------------------------------------------------------------------
(* The jobs.                                                               *)

\* The members of Partial(S) take some of the users to S.
LEMMA PartialDef ==
    ASSUME NEW S, NEW p
    PROVE  p \in Partial(S) <=> DOMAIN p \subseteq Users /\ p \in [DOMAIN p -> S]
<1>1. ASSUME p \in Partial(S)
      PROVE  DOMAIN p \subseteq Users /\ p \in [DOMAIN p -> S]
  <2>1. PICK us \in SUBSET Users : p \in [us -> S]
    BY <1>1 DEF Partial
  <2> QED
    BY <2>1
<1>2. ASSUME DOMAIN p \subseteq Users, p \in [DOMAIN p -> S]
      PROVE  p \in Partial(S)
  BY <1>2 DEF Partial
<1> QED
  BY <1>1, <1>2

\* What a job has fetched and loaded.
LEMMA JobTypes ==
    ASSUME JobsTyped, NEW j \in Workers
    PROVE  /\ job[j] \in JobRecords
           /\ DOMAIN job[j].page \subseteq Users
           /\ \A u \in DOMAIN job[j].page : job[j].page[u] \in Profiles
           /\ DOMAIN job[j].loaded \subseteq Users
           /\ \A u \in DOMAIN job[j].loaded : job[j].loaded[u] \in Loaded
<1>1. job[j] \in JobRecords
  BY DEF JobsTyped
<1>2. job[j].page \in Partial(Profiles) /\ job[j].loaded \in Partial(Loaded)
  BY <1>1 DEF JobRecords
<1>3. job[j].page \in [DOMAIN job[j].page -> Profiles] /\ DOMAIN job[j].page \subseteq Users
  BY <1>2, PartialDef
<1>4. job[j].loaded \in [DOMAIN job[j].loaded -> Loaded] /\ DOMAIN job[j].loaded \subseteq Users
  BY <1>2, PartialDef
<1> QED
  BY <1>1, <1>3, <1>4

\* An idle job has fetched and loaded nothing.
LEMMA IdleTypes ==
    /\ DOMAIN NoRows = {} /\ NoRows \in Partial(Profiles) /\ NoRows \in Partial(Loaded)
    /\ Idle \in JobRecords /\ Idle.loaded = NoRows /\ Idle.page = NoRows
<1>1. DOMAIN NoRows = {}
  BY DEF NoRows
<1>2. NoRows \in [DOMAIN NoRows -> Profiles] /\ NoRows \in [DOMAIN NoRows -> Loaded]
  BY DEF NoRows
<1>3. NoRows \in Partial(Profiles) /\ NoRows \in Partial(Loaded)
  BY <1>1, <1>2, PartialDef
<1> QED
  BY <1>1, <1>3 DEF Idle, JobRecords

\* A step that leaves the accounts alone, and no job with a row it had not loaded.
PanelKept == UNCHANGED <<mirror, blocked, device, peer, used, node, raced, skewed>>

\* Remote users go, or they are created and unborn no more.
RemoteKept ==
    /\ remote' \in [Users -> Profiles \cup {None}]
    /\ unborn' \subseteq unborn
    /\ \A u \in Users : remote[u] = None => remote'[u] = None \/ u \in unborn \ unborn'
    /\ \A u \in unborn' : remote'[u] = None

Forgets(i) ==
    \/ job'[i].loaded = NoRows
    \/ /\ job'[i].loaded = job[i].loaded /\ job'[i].phase = job[i].phase
       /\ job'[i].page = job[i].page

\* The variables that are only typed.
OthersTyped ==
    /\ settings' \in Settings /\ queued' \cup disables' \in SUBSET Users
    /\ changes' \in 0..MaxChanges

\* Such a step keeps the invariant, if the passes are still covered.
LEMMA QuietStep ==
    ASSUME SyncInv, PanelKept, RemoteKept, OthersTyped, PassCovers',
           job' \in [Workers -> JobRecords],
           adding' = adding \/ (~node /\ adding' \subseteq {u \in Users : device[u] # "none"}),
           \A i \in Workers : Forgets(i),
           \A i \in Workers : \A u \in DOMAIN job'[i].page :
               u \in DOMAIN job[i].page \/ remote[u] # None
    PROVE  SyncInv'
<1>0. UNCHANGED <<mirror, blocked, device, peer, used, node, raced, skewed>>
  BY DEF PanelKept
<1>1. \A i \in Workers : /\ job[i] \in JobRecords /\ job'[i] \in JobRecords
                         /\ DOMAIN job[i].loaded \subseteq Users
  BY JobTypes DEF SyncInv
<1>2. TypeOK'
  <2>1. \A i \in Workers : /\ job'[i].phase \in {"idle", "fetch", "load", "write", "end",
                                                 "complete"}
                           /\ job'[i].seen \in SUBSET Users
    BY <1>1 DEF JobRecords
  <2>2. \A i \in Workers : job'[i].phase \in {"idle", "fetch", "end"} => job'[i].loaded = NoRows
    BY DEF Forgets, SyncInv, TypeOK
  <2>3. unborn' \in SUBSET {u \in Users : remote'[u] = None /\ mirror'[u] = None}
    BY <1>0 DEF SyncInv, TypeOK, RemoteKept
  <2>4. adding' \in {None} \cup (IF node THEN {} ELSE SUBSET {u \in Users : device[u] # "none"})
    BY DEF SyncInv, TypeOK
  <2> QED
    BY <1>0, <2>1, <2>2, <2>3, <2>4 DEF SyncInv, TypeOK, RemoteKept, OthersTyped
<1>3. JobsTyped'
  BY <1>0 DEF SyncInv, JobsTyped
<1>4. RowsFit'
  BY <1>0 DEF SyncInv, TypeOK, RowsFit, RemoteKept
<1>5. \A i \in Workers : \A u \in DOMAIN job'[i].loaded :
         u \in DOMAIN job[i].loaded /\ job'[i].loaded[u] = job[i].loaded[u]
  BY IdleTypes DEF Forgets
<1>6. LoadedExist'
  <2>1. \A i \in Workers : /\ DOMAIN job'[i].page \cap unborn' = {}
                           /\ DOMAIN job[i].page \subseteq Users
    BY JobTypes DEF SyncInv, TypeOK, LoadedExist, RemoteKept
  <2>2. \A i \in Workers : job'[i].phase = "write" =>
                               DOMAIN job'[i].loaded \subseteq DOMAIN job'[i].page
    BY IdleTypes DEF SyncInv, LoadedExist, Forgets
  <2> QED
    BY <1>0, <1>5, <2>1, <2>2 DEF SyncInv, LoadedExist
<1>7. LoadedFit'
  BY <1>0, <1>5 DEF SyncInv, LoadedFit, UpToDate
<1>8. BlockedRowsRemoved' /\ ActiveIsProvisioned' /\ LimitedIsBlocked'
  BY <1>0 DEF SyncInv, BlockedRowsRemoved, ActiveIsProvisioned, LimitedIsBlocked, Limited
<1> QED
  BY <1>2, <1>3, <1>4, <1>6, <1>7, <1>8 DEF SyncInv

\* The listing stays as it was.
LEMMA SameListing ==
    ASSUME \A u \in Users : remote'[u] = None <=> remote[u] = None
    PROVE  Listed' = Listed /\ \A u \in Listed : Position(u)' = Position(u)
<1>1. Listed' = Listed
  BY DEF Listed
<1> QED
  BY <1>1 DEF Position

\* A pass that stays as it was, or ends, is covered while the listing stays as it was.
LEMMA PassKept ==
    ASSUME PassCovers, \A u \in Users : remote'[u] = None <=> remote[u] = None,
           NEW i \in Passes, job'[i] = job[i] \/ job'[i].phase = "idle"
    PROVE  Covered(job[i])'
<1>1. Listed' = Listed /\ \A u \in Listed : Position(u)' = Position(u)
  BY SameListing
<1>2. CASE job'[i] = job[i]
  BY <1>1, <1>2 DEF PassCovers, Covered, LastPage
<1>3. CASE job'[i].phase = "idle"
  BY <1>3 DEF Covered
<1> QED
  BY <1>2, <1>3

\* The passes stay as they were, or end.
LEMMA SamePass ==
    ASSUME PassCovers, \A u \in Users : remote'[u] = None <=> remote[u] = None,
           \A i \in Passes : job'[i] = job[i] \/ job'[i].phase = "idle"
    PROVE  PassCovers'
BY PassKept DEF PassCovers

\* One pass goes on to a record that covers the listing.
LEMMA OnePass ==
    ASSUME PassCovers, \A u \in Users : remote'[u] = None <=> remote[u] = None,
           NEW p \in Passes, NEW s, job'[p] = s, Covered(s),
           \A i \in Passes \ {p} : job'[i] = job[i]
    PROVE  PassCovers'
<1>1. Listed' = Listed /\ \A u \in Listed : Position(u)' = Position(u)
  BY SameListing
<1>2. Covered(job[p])'
  BY <1>1 DEF Covered, LastPage
<1> QED
  BY <1>2, PassKept DEF PassCovers

\* A step that leaves the remote users alone.
LEMMA SameRemote ==
    ASSUME SyncInv, UNCHANGED <<remote, unborn>>
    PROVE  RemoteKept /\ \A u \in Users : remote'[u] = None <=> remote[u] = None
BY DEF SyncInv, TypeOK, RemoteKept

\* A step that counts a change.
LEMMA ChangeTyped ==
    ASSUME SyncInv, Change
    PROVE  changes' \in 0..MaxChanges
BY RemnawaveAssumption DEF Change, SyncInv, TypeOK

\* Remote changes, settings and requests of the administrator leave the jobs alone.
LEMMA OutsideStep ==
    ASSUME SyncInv, PanelKept, RemoteKept, OthersTyped, UNCHANGED <<job, adding>>,
           \A u \in Users : remote'[u] = None <=> remote[u] = None
    PROVE  SyncInv'
<1>1. PassCovers'
  BY SamePass DEF SyncInv
<1>2. job' \in [Workers -> JobRecords] /\ \A i \in Workers : Forgets(i)
  BY DEF SyncInv, JobsTyped, Forgets
<1> QED
  BY <1>1, <1>2, QuietStep

\* The settings decide only which jobs begin.
LEMMA UpdateSettingsKeeps ==
    ASSUME SyncInv, UpdateSettings
    PROVE  SyncInv'
<1>1. PanelKept /\ UNCHANGED <<remote, unborn, adding, job, queued, disables>>
  BY DEF UpdateSettings, PanelKept, panelVars, queueVars, nodeVars, raceVars
<1>2. OthersTyped
  BY <1>1, ChangeTyped DEF UpdateSettings, OthersTyped, SyncInv, TypeOK
<1> QED
  BY <1>1, <1>2, SameRemote, OutsideStep

\* A profile change shows in the panel only once a job has fetched it.
LEMMA RemoteChangeKeeps ==
    ASSUME SyncInv, NEW u \in Users, RemoteChange(u)
    PROVE  SyncInv'
<1>1. PanelKept /\ UNCHANGED <<job, unborn, adding, disables, settings>>
  BY DEF RemoteChange, PanelKept, panelVars, nodeVars, raceVars
<1>2. OthersTyped
  BY <1>1, ChangeTyped DEF RemoteChange, Webhook, OthersTyped, SyncInv, TypeOK
<1>4. PICK p \in Profiles : remote' = [remote EXCEPT ![u] = p] /\ remote[u] # None
  BY DEF RemoteChange
<1>5. RemoteKept /\ \A v \in Users : remote'[v] = None <=> remote[v] = None
  BY <1>1, <1>4, NoneAssumption DEF RemoteKept, SyncInv, TypeOK
<1> QED
  BY <1>1, <1>2, <1>5, OutsideStep

\* A request of the administrator only queues a job.
LEMMA TriggerUserSyncKeeps ==
    ASSUME SyncInv, NEW u \in Users, TriggerUserSync(u)
    PROVE  SyncInv'
<1>1. PanelKept /\ UNCHANGED <<remote, unborn, adding, job, settings, disables>>
  BY DEF TriggerUserSync, PanelKept, panelVars, nodeVars, raceVars
<1>2. OthersTyped
  BY <1>1, ChangeTyped DEF TriggerUserSync, OthersTyped, SyncInv, TypeOK
<1> QED
  BY <1>1, <1>2, SameRemote, OutsideStep

\* The remote user that is disabled stays in the listing.
LEMMA DisableUserKeeps ==
    ASSUME SyncInv, NEW u \in Users, DisableUser(u)
    PROVE  SyncInv'
<1>1. PanelKept /\ UNCHANGED <<job, unborn, adding, settings, changes>>
  BY DEF DisableUser, PanelKept, panelVars, nodeVars, raceVars
<1>2. OthersTyped
  BY <1>1 DEF DisableUser, Webhook, OthersTyped, SyncInv, TypeOK
<1>3. RemoteKept /\ \A v \in Users : remote'[v] = None <=> remote[v] = None
  <2>1. Disabled \in Profiles /\ Disabled # None
    BY NoneAssumption DEF Profiles
  <2> QED
    BY <1>1, <2>1 DEF DisableUser, RemoteKept, SyncInv, TypeOK
<1> QED
  BY <1>1, <1>2, <1>3, OutsideStep

\* api_add_node reads the devices.
LEMMA SelectForNodeKeeps ==
    ASSUME SyncInv, SelectForNode
    PROVE  SyncInv'
<1>1. /\ PanelKept /\ UNCHANGED <<remote, unborn, job, settings, changes, queued, disables>>
      /\ ~node /\ adding' = Provisioned
  BY DEF SelectForNode, PanelKept, panelVars, remoteVars, queueVars, raceVars
<1>2. OthersTyped
  BY <1>1 DEF OthersTyped, SyncInv, TypeOK
<1>3. adding' \subseteq {u \in Users : device[u] # "none"}
  BY <1>1 DEF Provisioned
<1>4. job' \in [Workers -> JobRecords] /\ \A i \in Workers : Forgets(i)
  BY <1>1 DEF SyncInv, JobsTyped, Forgets
<1>5. PassCovers'
  BY <1>1, SamePass DEF SyncInv
<1> QED
  BY <1>1, <1>2, <1>3, <1>4, <1>5, SameRemote, QuietStep

\* A deletion shifts the passes under way.
LEMMA RemoteDeleteKeeps ==
    ASSUME SyncInv, NEW u \in Users, RemoteDelete(u)
    PROVE  SyncInv'
<1> DEFINE s(j) == [job[j] EXCEPT !.shifted = TRUE]
<1>1. /\ PanelKept /\ UNCHANGED <<unborn, adding, disables, settings>>
      /\ job' = [j \in Workers |-> IF j \in Passes /\ Running(j) THEN s(j) ELSE job[j]]
  BY DEF RemoteDelete, PanelKept, panelVars, nodeVars, raceVars
<1>2. OthersTyped
  BY <1>1, ChangeTyped DEF RemoteDelete, Webhook, OthersTyped, SyncInv, TypeOK
<1>3. RemoteKept
  BY <1>1 DEF RemoteDelete, RemoteKept, SyncInv, TypeOK
<1>4. ASSUME NEW j \in Workers
      PROVE  /\ s(j) \in JobRecords /\ s(j).page = job[j].page /\ s(j).loaded = job[j].loaded
             /\ s(j).phase = job[j].phase /\ s(j).seen = job[j].seen /\ s(j).shifted
             /\ job[j] \in JobRecords
  <2>1. job[j] \in JobRecords
    BY JobTypes DEF SyncInv
  <2> QED
    BY <2>1 DEF JobRecords
<1>5. \A j \in Workers : job'[j] = IF j \in Passes /\ Running(j) THEN s(j) ELSE job[j]
  BY <1>1
<1>6. job' \in [Workers -> JobRecords]
  <2> HIDE DEF s
  <2> QED
    BY <1>1, <1>4
<1> HIDE DEF s
<1>7. \A i \in Workers : Forgets(i) /\ job'[i].page = job[i].page
  BY <1>4, <1>5 DEF Forgets
<1>8. PassCovers'
  <2> SUFFICES ASSUME NEW p \in Passes
               PROVE  Covered(job[p])'
    BY DEF PassCovers
  <2>1. CASE Running(p)
    <3>1. /\ job'[p].shifted /\ job'[p].phase = job[p].phase /\ job'[p].seen = job[p].seen
          /\ job'[p].loaded = job[p].loaded
      BY <1>4, <1>5, <2>1 DEF Workers
    <3> QED
      BY <3>1 DEF Covered, SyncInv, PassCovers
  <2>2. CASE ~Running(p)
    BY <1>5, <2>2 DEF Covered, Running, Workers
  <2> QED
    BY <2>1, <2>2
<1> QED
  BY <1>1, <1>2, <1>3, <1>6, <1>7, <1>8, QuietStep

\* A user who is created has no rows, and only moves others down in the listing.
LEMMA RemoteCreateKeeps ==
    ASSUME SyncInv, NEW u \in Users, RemoteCreate(u)
    PROVE  SyncInv'
<1> DEFINE s(j) == [job[j] EXCEPT !.born = job[j].born \cup {u}]
<1>1. /\ PanelKept /\ UNCHANGED <<adding, disables, settings>>
      /\ job' = [j \in Workers |-> IF j \in Passes /\ Running(j) THEN s(j) ELSE job[j]]
      /\ u \in unborn /\ unborn' = unborn \ {u} /\ remote' = [remote EXCEPT ![u] = Active]
  BY DEF RemoteCreate, PanelKept, panelVars, nodeVars, raceVars
<1>2. OthersTyped
  BY <1>1, ChangeTyped DEF RemoteCreate, Webhook, OthersTyped, SyncInv, TypeOK
<1>3. Active \in Profiles /\ Active # None
  BY NoneAssumption DEF Profiles
<1>4. RemoteKept
  BY <1>1, <1>3 DEF RemoteKept, SyncInv, TypeOK
<1>5. ASSUME NEW j \in Workers
      PROVE  /\ s(j) \in JobRecords /\ s(j).page = job[j].page /\ s(j).loaded = job[j].loaded
             /\ s(j).phase = job[j].phase /\ s(j).seen = job[j].seen
             /\ s(j).shifted = job[j].shifted /\ s(j).start = job[j].start
             /\ s(j).total = job[j].total /\ s(j).born = job[j].born \cup {u}
             /\ job[j] \in JobRecords
  <2>1. job[j] \in JobRecords
    BY JobTypes DEF SyncInv
  <2> QED
    BY <2>1 DEF JobRecords
<1>6. \A j \in Workers : job'[j] = IF j \in Passes /\ Running(j) THEN s(j) ELSE job[j]
  BY <1>1
<1>7. job' \in [Workers -> JobRecords]
  <2> HIDE DEF s
  <2> QED
    BY <1>1, <1>5
<1> HIDE DEF s
<1>8. \A i \in Workers : Forgets(i) /\ job'[i].page = job[i].page
  BY <1>5, <1>6 DEF Forgets
<1>9. Listed' = Listed \cup {u} /\ u \notin Listed
  BY <1>1, <1>3 DEF Listed, SyncInv, TypeOK
<1>10. ASSUME NEW v \in Listed
       PROVE  Position(v) \in Nat /\ Position(v)' \in Nat /\ Position(v) <= Position(v)'
  <2> DEFINE S == {w \in Listed : w <= v}
             T == {w \in Listed' : w <= v}
  <2>1. IsFiniteSet(Listed')
    BY <1>9, Positions, FS_AddElement
  <2>2. IsFiniteSet(T) /\ S \subseteq T
    BY <1>9, <2>1, FS_Subset
  <2>3. Cardinality(S) <= Cardinality(T)
    BY <2>2, FS_Subset
  <2>4. Cardinality(T) \in Nat
    BY <2>2, FS_CardinalityType
  <2>5. Position(v) = Cardinality(S) /\ Position(v)' = Cardinality(T)
    BY DEF Position
  <2> QED
    BY <2>3, <2>4, <2>5, Positions
<1>11. PassCovers'
  <2> SUFFICES ASSUME NEW p \in Passes
               PROVE  Covered(job[p])'
    BY DEF PassCovers
  <2>1. CASE Running(p)
    <3> DEFINE r == job[p]
               q == job'[p]
    <3>0. Covered(job[p]) /\ r \in JobRecords
      BY <1>5 DEF SyncInv, PassCovers, Workers
    <3>1. /\ q.shifted = r.shifted /\ q.phase = r.phase /\ q.seen = r.seen
          /\ q.loaded = r.loaded /\ q.start = r.start /\ q.total = r.total
          /\ q.born = r.born \cup {u}
      BY <1>5, <1>6, <2>1 DEF Workers
    <3>2. Listed' \ q.born = Listed \ r.born
      BY <1>9, <3>1
    <3>3. LastPage(job[p])' <=> LastPage(job[p])
      BY <3>1 DEF LastPage
    <3>4. \A v \in Listed : Position(v)' <= r.start => Position(v) <= r.start
      <4>1. r.start \in Nat
        BY <3>0 DEF JobRecords
      <4> QED
        BY <1>10, <4>1
    <3> QED
      BY <3>0, <3>1, <3>2, <3>3, <3>4 DEF Covered
  <2>2. CASE ~Running(p)
    BY <1>6, <2>2 DEF Covered, Running, Workers
  <2> QED
    BY <2>1, <2>2
<1> QED
  BY <1>1, <1>2, <1>4, <1>7, <1>8, <1>11, QuietStep

\* The job that works on gets a record without rows; the others stay as they are.
LEMMA GotoStep ==
    ASSUME SyncInv, NEW j \in Workers, NEW r \in JobRecords, Goto(j, r),
           PanelKept, UNCHANGED <<remote, unborn, adding>>, OthersTyped,
           r.loaded = NoRows,
           \A u \in DOMAIN r.page : u \in DOMAIN job[j].page \/ remote[u] # None,
           j \in Passes => Covered(r)
    PROVE  SyncInv'
<1>1. job' \in [Workers -> JobRecords] /\ job'[j] = r /\ \A i \in Workers \ {j} : job'[i] = job[i]
  BY DEF Goto, SyncInv, JobsTyped
<1>2. \A i \in Workers : Forgets(i)
  BY <1>1 DEF Forgets
<1>3. \A i \in Workers : \A u \in DOMAIN job'[i].page :
          u \in DOMAIN job[i].page \/ remote[u] # None
  BY <1>1
<1>4. PassCovers'
  <2>1. CASE j \in Passes
    BY <1>1, <2>1, SameRemote, OnePass DEF SyncInv, Workers
  <2>2. CASE j \notin Passes
    BY <1>1, <2>2, SameRemote, SamePass DEF SyncInv, Workers
  <2> QED
    BY <2>1, <2>2
<1> QED
  BY <1>1, <1>2, <1>3, <1>4, SameRemote, QuietStep

\* A step of a job that leaves everything else alone.
LEMMA JobFrame ==
    ASSUME SyncInv, UNCHANGED <<panelVars, jobFrame, disables>>, queued' \subseteq queued
    PROVE  PanelKept /\ UNCHANGED <<remote, unborn, adding>> /\ OthersTyped
BY DEF PanelKept, OthersTyped, panelVars, jobFrame, remoteVars, nodeVars, raceVars, SyncInv, TypeOK

\* A job that ends, whatever the reason.
LEMMA StopStep ==
    ASSUME SyncInv, NEW j \in Workers, Goto(j, Idle),
           UNCHANGED <<panelVars, jobFrame, queueVars>>
    PROVE  SyncInv'
<1>1. PanelKept /\ UNCHANGED <<remote, unborn, adding>> /\ OthersTyped
  BY JobFrame DEF queueVars
<1>2. Covered(Idle)
  BY DEF Covered, Idle
<1> QED
  BY <1>1, <1>2, IdleTypes, GotoStep

\* A failing request commits nothing.
LEMMA JobFailsKeeps ==
    ASSUME SyncInv, NEW j \in Workers, JobFails(j)
    PROVE  SyncInv'
BY StopStep DEF JobFails

\* Nor does one that violates the unique uuid.
LEMMA JobConflictsKeeps ==
    ASSUME SyncInv, NEW j \in Workers, JobConflicts(j)
    PROVE  SyncInv'
BY StopStep DEF JobConflicts

\* A pass begins at position 0, before every user.
LEMMA BeginKeeps ==
    ASSUME SyncInv, NEW p \in Passes, Begin(p), PanelKept, UNCHANGED <<remote, unborn, adding>>,
           OthersTyped
    PROVE  SyncInv'
<1> DEFINE r == [Idle EXCEPT !.phase = "fetch"]
<1>1. Goto(p, r)
  BY DEF Begin
<1>2. /\ r \in JobRecords /\ r.loaded = NoRows /\ r.page = NoRows
      /\ r.phase = "fetch" /\ r.start = 0
  BY IdleTypes DEF Idle, JobRecords
<1> HIDE DEF r
<1>3. Covered(r)
  <2>1. \A u \in Listed : Position(u) \in Nat /\ Position(u) # 0
    BY Positions
  <2>2. \A u \in Listed : ~(Position(u) <= 0)
    BY <2>1
  <2> QED
    BY <1>2, <2>2 DEF Covered
<1> QED
  BY <1>1, <1>2, <1>3, IdleTypes, GotoStep DEF Workers

\* Passes that are due.
LEMMA PollReconcileKeeps ==
    ASSUME SyncInv, NEW p \in Passes, PollReconcile(p)
    PROVE  SyncInv'
<1>1. PanelKept /\ UNCHANGED <<remote, unborn, adding>> /\ OthersTyped
  BY JobFrame DEF PollReconcile, queueVars
<1> QED
  BY <1>1, BeginKeeps DEF PollReconcile

\* Passes that are asked for.
LEMMA TriggerReconcileKeeps ==
    ASSUME SyncInv, NEW p \in Passes, TriggerReconcile(p)
    PROVE  SyncInv'
<1>1. PanelKept /\ UNCHANGED <<remote, unborn, adding, settings, queued, disables>>
  BY DEF TriggerReconcile, PanelKept, panelVars, nodeVars, raceVars, queueVars
<1>2. OthersTyped
  BY <1>1, ChangeTyped DEF TriggerReconcile, OthersTyped, SyncInv, TypeOK
<1> QED
  BY <1>1, <1>2, BeginKeeps DEF TriggerReconcile

\* A single-user sync fetches one profile, or gives up.
LEMMA FetchUserKeeps ==
    ASSUME SyncInv, NEW j \in Syncs, NEW u \in Users, FetchUser(j, u)
    PROVE  SyncInv'
<1>1. /\ PanelKept /\ UNCHANGED <<remote, unborn, adding>> /\ OthersTyped
      /\ j \in Workers /\ j \notin Passes
  BY JobFrame, RemnawaveAssumption DEF FetchUser, Workers
<1>2. CASE UNCHANGED job
  BY <1>1, <1>2, SameRemote, OutsideStep
<1>3. CASE remote[u] # None /\ Goto(j, [Idle EXCEPT !.phase = "load",
                                          !.page = [v \in {u} |-> remote[v]]])
  <2> DEFINE p == [v \in {u} |-> remote[v]]
             r == [Idle EXCEPT !.phase = "load", !.page = p]
  <2>1. remote[u] \in Profiles
    BY <1>3 DEF SyncInv, TypeOK
  <2>2. p \in Partial(Profiles)
    BY <2>1, PartialDef
  <2>3. r \in JobRecords /\ r.loaded = NoRows /\ DOMAIN r.page = {u}
    BY <2>2, IdleTypes DEF Idle, JobRecords
  <2> HIDE DEF r
  <2> QED
    BY <1>1, <1>3, <2>3, GotoStep DEF r
<1> QED
  BY <1>2, <1>3 DEF FetchUser

\* A page brings the users up to its last position; an empty one, the end.
LEMMA FetchPageKeeps ==
    ASSUME SyncInv, NEW q \in Passes, FetchPage(q)
    PROVE  SyncInv'
<1> DEFINE r == job[q]
           us == {u \in Listed : Position(u) \in r.start + 1 .. r.start + PageSize}
           p == [u \in us |-> remote[u]]
           e == [r EXCEPT !.phase = "end"]
           l == [r EXCEPT !.phase = "load", !.page = p, !.seen = r.seen \cup us,
                          !.start = r.start + Cardinality(us), !.total = Cardinality(Listed)]
<1>0. q \in Workers
  BY DEF Workers
<1>1. PanelKept /\ UNCHANGED <<remote, unborn, adding>> /\ OthersTyped
  BY JobFrame DEF FetchPage, queueVars
<1>2. /\ r.phase = "fetch" /\ (us = {} => Goto(q, e))
      /\ us # {} => Goto(q, l)
  BY Zenon DEF FetchPage
<1>3. r \in JobRecords /\ r.start \in Nat /\ r.loaded = NoRows
  BY <1>0, <1>2, JobTypes DEF SyncInv, TypeOK, JobRecords
<1>4. Cardinality(us) \in Nat /\ Cardinality(us) <= PageSize
  BY <1>3, PageFits
<1>5. us \subseteq Users /\ \A u \in us : remote[u] \in Profiles /\ remote[u] # None
  BY DEF Listed, SyncInv, TypeOK
<1>7. \A u \in Listed : Position(u) \in Nat
  BY Positions
<1>8. ~r.shifted => \A u \in Listed \ r.born : Position(u) <= r.start => u \in r.seen
  BY <1>2 DEF SyncInv, PassCovers, Covered
<1>9. CASE us = {} /\ Goto(q, e)
  <2>1. /\ e \in JobRecords /\ e.loaded = NoRows /\ e.page = r.page /\ e.phase = "end"
        /\ e.shifted = r.shifted /\ e.seen = r.seen /\ e.born = r.born
    BY <1>3 DEF JobRecords
  <2>2. \A u \in Listed : Position(u) <= r.start
    BY <1>3, <1>9, EmptyPage
  <2> HIDE DEF e
  <2>4. Covered(e)
    BY <1>8, <2>1, <2>2 DEF Covered
  <2> QED
    BY <1>0, <1>1, <1>9, <2>1, <2>4, GotoStep
<1>10. CASE Goto(q, l)
  <2>1. p \in Partial(Profiles) /\ DOMAIN p = us
    BY <1>5, PartialDef
  <2> HIDE DEF p
  <2>2. r.start + Cardinality(us) \in Nat /\ r.seen \cup us \in SUBSET Users
        /\ Cardinality(Listed) \in Nat
    BY <1>3, <1>4, <1>5, Positions DEF JobRecords
  <2>3. /\ l \in JobRecords /\ l.loaded = NoRows /\ l.page = p /\ l.phase = "load"
        /\ l.shifted = r.shifted /\ l.seen = r.seen \cup us /\ l.born = r.born
        /\ l.start = r.start + Cardinality(us) /\ l.total = Cardinality(Listed)
    BY <1>3, <2>1, <2>2 DEF JobRecords
  <2>5. ASSUME ~r.shifted, NEW u \in Listed \ r.born, Position(u) <= r.start + Cardinality(us)
        PROVE  u \in r.seen \cup us
    <3>1. PageSize \in Nat
      BY RemnawaveAssumption
    <3>2. Position(u) <= r.start \/ Position(u) \in r.start + 1 .. r.start + PageSize
      BY <1>3, <1>4, <1>7, <2>5, <3>1
    <3> QED
      BY <1>8, <2>5, <3>2
  <2>6. ASSUME ~r.shifted, r.start + Cardinality(us) >= Cardinality(Listed)
        PROVE  Listed \ r.born \subseteq r.seen \cup us
    <3>1. \A u \in Listed : Position(u) <= r.start + Cardinality(us)
      <4>1. \A u \in Listed : Position(u) \in Nat /\ Position(u) <= Cardinality(Listed)
        BY Positions
      <4> HIDE DEF us, r
      <4> QED
        BY <2>2, <2>6, <4>1
    <3> QED
      BY <2>5, <2>6, <3>1
  <2> HIDE DEF l, us
  <2>7. Covered(l)
    BY <2>3, <2>5, <2>6 DEF Covered, LastPage
  <2> QED
    BY <1>0, <1>1, <1>5, <1>10, <2>1, <2>3, <2>7, GotoStep
<1> QED
  BY <1>2, <1>9, <1>10

\* A request loads rows of accounts as they are: what holds of the accounts makes what
\* it has loaded up to date.
LEMMA LoadStep ==
    ASSUME SyncInv, NEW j \in Workers, NEW r \in JobRecords, Goto(j, r),
           UNCHANGED <<panelVars, jobFrame, queueVars>>,
           NEW us \in SUBSET Users, \A u \in us : mirror[u] # None,
           r.loaded = Load(us), r.phase \notin {"idle", "fetch", "end"},
           r.page = job[j].page, r.phase = "write" => us \subseteq DOMAIN r.page,
           j \in Passes => Covered(r)
    PROVE  SyncInv'
<1>0. UNCHANGED <<mirror, blocked, device, peer, used, node, adding, raced, skewed, remote,
                  unborn, settings, disables, changes, queued>>
  BY DEF panelVars, jobFrame, remoteVars, nodeVars, raceVars, queueVars
<1>1. job' \in [Workers -> JobRecords] /\ job'[j] = r /\ \A i \in Workers \ {j} : job'[i] = job[i]
  BY DEF Goto, SyncInv, JobsTyped
<1>2. /\ DOMAIN r.loaded = us
      /\ \A u \in us : /\ r.loaded[u].blocked = blocked[u] /\ r.loaded[u].peer = peer[u]
                       /\ r.loaded[u].used => u \in used
  <2>1. DOMAIN r.loaded = us
    BY DEF Load
  <2>2. ASSUME NEW u \in us
        PROVE  /\ r.loaded[u].blocked = blocked[u] /\ r.loaded[u].peer = peer[u]
               /\ r.loaded[u].used = (u \in used)
    <3> DEFINE b == u \in used
    <3>1. r.loaded[u] = [blocked |-> blocked[u], peer |-> peer[u], used |-> b]
      BY Zenon DEF Load
    <3> HIDE DEF b
    <3>2. /\ r.loaded[u].blocked = blocked[u] /\ r.loaded[u].peer = peer[u]
          /\ r.loaded[u].used = b
      BY <3>1
    <3> QED
      BY <3>2 DEF b
  <2> QED
    BY <2>1, <2>2, Zenon
<1>3. TypeOK'
  <2>1. \A i \in Workers : /\ job'[i].phase \in {"idle", "fetch", "load", "write", "end",
                                                 "complete"}
                           /\ job'[i].seen \in SUBSET Users
    BY <1>1 DEF JobRecords
  <2>2. \A i \in Workers : job'[i].phase \in {"idle", "fetch", "end"} => job'[i].loaded = NoRows
    BY <1>1 DEF SyncInv, TypeOK
  <2> QED
    BY <1>0, <2>1, <2>2 DEF SyncInv, TypeOK
<1>4. JobsTyped'
  BY <1>0, <1>1 DEF SyncInv, JobsTyped
<1>5. RowsFit' /\ BlockedRowsRemoved' /\ ActiveIsProvisioned' /\ LimitedIsBlocked'
  BY <1>0 DEF SyncInv, RowsFit, BlockedRowsRemoved, ActiveIsProvisioned, LimitedIsBlocked
<1>6. LoadedExist'
  <2>2. \A u \in us : peer[u] # "none" => node /\ device[u] # "none"
    BY DEF SyncInv, RowsFit
  <2>3. \A i \in Workers : DOMAIN job'[i].page = DOMAIN job[i].page
    BY <1>1
  <2>4. \A i \in Workers : \A u \in DOMAIN job'[i].loaded :
            /\ mirror[u] # None
            /\ job'[i].loaded[u].peer # "none" => node /\ device[u] # "none"
            /\ job'[i].loaded[u].used => u \in used
    BY <1>1, <1>2, <2>2 DEF SyncInv, LoadedExist
  <2>5. \A i \in Workers : job'[i].phase = "write" =>
                               DOMAIN job'[i].loaded \subseteq DOMAIN job'[i].page
    BY <1>1, <1>2 DEF SyncInv, LoadedExist
  <2> QED
    BY <1>0, <2>3, <2>4, <2>5 DEF SyncInv, LoadedExist
<1>7. LoadedFit'
  <2>1. ASSUME NEW u \in us \ raced
        PROVE  UpToDate(u, r.loaded[u])
    <3>1. /\ blocked[u] => peer[u] \notin Live
          /\ device[u] = "live" /\ node /\ ~blocked[u] => peer[u] \in Live
      BY DEF SyncInv, BlockedRowsRemoved, ActiveIsProvisioned
    <3>2. peer[u] # "none" => node
      BY DEF SyncInv, RowsFit
    <3> QED
      BY <1>2, <3>1, <3>2 DEF UpToDate, Live, Tombstoned
  <2> QED
    BY <1>0, <1>1, <1>2, <2>1 DEF SyncInv, LoadedFit, UpToDate
<1>8. PassCovers'
  <2>1. CASE j \in Passes
    BY <1>0, <1>1, <2>1, OnePass DEF SyncInv, Workers
  <2>2. CASE j \notin Passes
    BY <1>0, <1>1, <2>2, SamePass DEF SyncInv, Workers
  <2> QED
    BY <2>1, <2>2
<1> QED
  BY <1>3, <1>4, <1>5, <1>6, <1>7, <1>8 DEF SyncInv

\* A set of loaded rows has the type of the rows.
LEMMA LoadTypes ==
    ASSUME SyncInv, NEW us \in SUBSET Users
    PROVE  Load(us) \in Partial(Loaded)
<1>1. DOMAIN Load(us) = us
  BY DEF Load
<1>2. \A u \in us : [blocked |-> blocked[u], peer |-> peer[u], used |-> u \in used] \in Loaded
  BY DEF Loaded, SyncInv, TypeOK
<1>3. Load(us) \in [us -> Loaded]
  BY <1>2 DEF Load
<1> QED
  BY <1>1, <1>3, PartialDef

\* The upsert loads the rows of its page.
LEMMA LoadRowsKeeps ==
    ASSUME SyncInv, NEW j \in Workers, LoadRows(j)
    PROVE  SyncInv'
<1> DEFINE us == {u \in DOMAIN job[j].page : mirror[u] # None}
           r == [job[j] EXCEPT !.phase = "write", !.loaded = Load(us)]
<1>1. /\ Goto(j, r) /\ UNCHANGED <<panelVars, jobFrame, queueVars>>
      /\ job[j].phase = "load"
  BY DEF LoadRows
<1>2. us \subseteq Users /\ job[j] \in JobRecords
  BY JobTypes DEF SyncInv
<1>3. Load(us) \in Partial(Loaded)
  BY <1>2, LoadTypes
<1>4. /\ r \in JobRecords /\ r.loaded = Load(us) /\ r.phase = "write" /\ r.page = job[j].page
      /\ r.seen = job[j].seen /\ r.start = job[j].start /\ r.total = job[j].total
      /\ r.shifted = job[j].shifted /\ r.born = job[j].born
  BY <1>2, <1>3 DEF JobRecords
<1>5. (\A u \in us : mirror[u] # None) /\ us \subseteq DOMAIN r.page
  BY <1>4
<1> HIDE DEF r, us
<1>6. j \in Passes => Covered(r)
  BY <1>1, <1>4 DEF SyncInv, PassCovers, Covered, LastPage
<1> QED
  BY <1>1, <1>2, <1>4, <1>5, <1>6, LoadStep

\* The completion of a pass loads the users that no page has brought.
LEMMA LoadUnseenKeeps ==
    ASSUME SyncInv, NEW p \in Passes, LoadUnseen(p)
    PROVE  SyncInv'
<1> DEFINE us == {u \in Users \ job[p].seen : mirror[u] # None}
           r == [job[p] EXCEPT !.phase = "complete", !.loaded = Load(us)]
<1>1. /\ Goto(p, r) /\ UNCHANGED <<panelVars, jobFrame, queueVars>>
      /\ job[p].phase = "end" /\ p \in Workers
  BY DEF LoadUnseen, Workers
<1>2. job[p] \in JobRecords
  BY <1>1, JobTypes DEF SyncInv
<1>3. Load(us) \in Partial(Loaded) /\ DOMAIN Load(us) = us
  BY LoadTypes DEF Load
<1>4. /\ r \in JobRecords /\ r.loaded = Load(us) /\ r.phase = "complete"
      /\ r.page = job[p].page /\ r.born = job[p].born
      /\ r.seen = job[p].seen /\ r.shifted = job[p].shifted
  BY <1>2, <1>3 DEF JobRecords
<1>5. us \subseteq Users /\ (\A u \in us : mirror[u] # None) /\ us \cap r.seen = {}
  BY <1>4
<1> HIDE DEF r, us
<1>6. Covered(r)
  BY <1>1, <1>3, <1>4, <1>5 DEF SyncInv, PassCovers, Covered
<1> QED
  BY <1>1, <1>4, <1>5, <1>6, LoadStep

-----------------------------------------------------------------------------
(* The accounts.                                                           *)

\* The changes of an account under which what a request loaded stays up to date.
Kept(u) ==
    /\ blocked[u] => blocked'[u]
    /\ blocked'[u] /\ (blocked[u] => peer[u] \in Tombstoned) => peer'[u] \in Tombstoned
    /\ peer'[u] = "none" <=> peer[u] = "none"
    /\ device'[u] = "live" => device[u] = "live" \/ peer[u] = "none"

\* Under such changes, and with no other row loaded, everything loaded stays up to date.
LEMMA KeptFits ==
    ASSUME SyncInv, \A i \in Workers : Forgets(i),
           \A i \in Workers : \A u \in DOMAIN job'[i].loaded \ raced' :
               u \notin raced /\ Kept(u)
    PROVE  LoadedFit'
<1>1. ASSUME NEW i \in Workers, NEW u \in DOMAIN job'[i].loaded \ raced'
      PROVE  UpToDate(u, job[i].loaded[u])'
  <2> DEFINE was == job[i].loaded[u]
  <2>1. u \in DOMAIN job[i].loaded /\ job'[i].loaded[u] = was /\ u \notin raced
    BY IdleTypes DEF Forgets
  <2>2. UpToDate(u, was) /\ Kept(u)
    BY <2>1 DEF SyncInv, LoadedFit
  <2> HIDE DEF was
  <2>3. /\ was.blocked => blocked'[u] /\ was.peer \notin Live
        /\ blocked'[u] /\ ~was.blocked => peer'[u] \in Tombstoned
        /\ was.peer = "none" <=> peer'[u] = "none"
        /\ ~was.blocked /\ was.peer \in Tombstoned => device'[u] # "live"
    BY <2>2 DEF UpToDate, Kept, Tombstoned
  <2> QED
    BY <2>1, <2>3 DEF UpToDate
<1> QED
  BY <1>1 DEF LoadedFit

\* A step of the panel that leaves the jobs and the set of accounts as they are.
LEMMA AccountStep ==
    ASSUME SyncInv, UNCHANGED <<remote, unborn, job>>, OthersTyped,
           used' \in SUBSET Users, used \subseteq used',
           mirror' \in [Users -> Rows \cup {None}], blocked' \in [Users -> BOOLEAN],
           device' \in [Users -> {"none", "live", "deleted"}],
           peer' \in [Users -> Live \cup Tombstoned \cup {"none"}],
           node' \in BOOLEAN, node => node', adding' = None \/ UNCHANGED <<adding, node>>,
           \A u \in Users : /\ mirror'[u] = None <=> mirror[u] = None
                            /\ mirror'[u] = None => device'[u] = "none" /\ peer'[u] = "none"
                            /\ device[u] # "none" => device'[u] # "none",
           raced \subseteq raced',
           \A i \in Workers : \A u \in DOMAIN job[i].loaded \ raced' : Kept(u),
           RowsFit', BlockedRowsRemoved', ActiveIsProvisioned', LimitedIsBlocked'
    PROVE  SyncInv'
<1>1. TypeOK' /\ JobsTyped'
  <2>1. unborn' \in SUBSET {u \in Users : remote'[u] = None /\ mirror'[u] = None}
    BY DEF SyncInv, TypeOK
  <2>2. adding' \in {None} \cup (IF node' THEN {} ELSE SUBSET {u \in Users : device'[u] # "none"})
    BY DEF SyncInv, TypeOK
  <2> QED
    BY <2>1, <2>2 DEF SyncInv, TypeOK, JobsTyped, OthersTyped
<1>2. LoadedExist'
  <2>1. \A i \in Workers : DOMAIN job[i].loaded \subseteq Users
    BY JobTypes DEF SyncInv
  <2> QED
    BY <2>1 DEF SyncInv, LoadedExist
<1>3. LoadedFit'
  BY KeptFits DEF Forgets
<1>4. PassCovers'
  BY SamePass DEF SyncInv
<1> QED
  BY <1>1, <1>2, <1>3, <1>4 DEF SyncInv

\* A device is given to an active account; a job that has loaded the account is raced.
LEMMA CreateDeviceKeeps ==
    ASSUME SyncInv, NEW u \in Users, CreateDevice(u)
    PROVE  SyncInv'
<1>1. /\ UNCHANGED <<remote, unborn, mirror, blocked, used, node, adding, job, skewed>>
      /\ raced' = raced \cup Raced(Workers)
      /\ mirror[u] # None /\ device[u] = "none" /\ ~blocked[u]
      /\ device' = [device EXCEPT ![u] = "live"]
      /\ peer' = [peer EXCEPT ![u] = IF node THEN "pending" ELSE "none"]
  BY DEF CreateDevice, AccountActive, remoteVars, nodeVars, raceVars
<1>2. peer[u] = "none"
  BY <1>1 DEF SyncInv, RowsFit
<1>3. /\ device' \in [Users -> {"none", "live", "deleted"}]
      /\ peer' \in [Users -> Live \cup Tombstoned \cup {"none"}]
  BY <1>1 DEF SyncInv, TypeOK, Live
<1>4. RowsFit'
  BY <1>1 DEF SyncInv, TypeOK, RowsFit
<1>5. BlockedRowsRemoved' /\ ActiveIsProvisioned' /\ LimitedIsBlocked'
  BY <1>1 DEF SyncInv, TypeOK, BlockedRowsRemoved, ActiveIsProvisioned, LimitedIsBlocked, Live
<1>6. ASSUME NEW i \in Workers, NEW v \in DOMAIN job[i].loaded \ raced'
      PROVE  Kept(v)
  <2>1. v \in Users /\ mirror[v] # None
    BY <1>1, <1>6, JobTypes DEF SyncInv, LoadedExist
  <2>2. ~(peer[v] = "none" /\ peer'[v] # "none")
    BY <1>1, <1>6, <2>1 DEF Raced
  <2> QED
    BY <1>1, <1>2, <2>1, <2>2 DEF Kept
<1>19. OthersTyped
  BY DEF CreateDevice, OthersTyped, remoteVars, queueVars, SyncInv, TypeOK
<1> QED
  BY <1>1, <1>3, <1>4, <1>5, <1>6, <1>19, AccountStep DEF SyncInv, TypeOK, JobsTyped

\* A deleted device takes its peer row with it.
LEMMA DeleteDeviceKeeps ==
    ASSUME SyncInv, NEW u \in Users, DeleteDevice(u)
    PROVE  SyncInv'
<1>1. /\ UNCHANGED <<remote, unborn, mirror, blocked, used, node, adding, job, raced, skewed>>
      /\ device[u] = "live" /\ device' = [device EXCEPT ![u] = "deleted"]
      /\ peer' = [peer EXCEPT ![u] = IF peer[u] = "none" THEN "none" ELSE "pending_delete"]
  BY DEF DeleteDevice, remoteVars, nodeVars, raceVars
<1>2. /\ device' \in [Users -> {"none", "live", "deleted"}]
      /\ peer' \in [Users -> Live \cup Tombstoned \cup {"none"}]
  BY <1>1 DEF SyncInv, TypeOK, Tombstoned
<1>3. RowsFit'
  BY <1>1 DEF SyncInv, TypeOK, RowsFit, Live
<1>4. BlockedRowsRemoved' /\ ActiveIsProvisioned' /\ LimitedIsBlocked'
  BY <1>1 DEF SyncInv, TypeOK, BlockedRowsRemoved, ActiveIsProvisioned, LimitedIsBlocked, Live
<1>5. ASSUME NEW i \in Workers, NEW v \in DOMAIN job[i].loaded \ raced'
      PROVE  Kept(v)
  <2>1. v \in Users /\ mirror[v] # None
    BY <1>1, <1>5, JobTypes DEF SyncInv, LoadedExist
  <2> QED
    BY <1>1, <2>1 DEF Kept, SyncInv, TypeOK, Tombstoned
<1>19. OthersTyped
  BY DEF DeleteDevice, OthersTyped, remoteVars, queueVars, SyncInv, TypeOK
<1> QED
  BY <1>1, <1>2, <1>3, <1>4, <1>5, <1>19, AccountStep DEF SyncInv, TypeOK, JobsTyped

\* A new node gets rows for the devices that were selected; an account that was blocked,
\* or unblocked, or whose device was deleted since then is raced.
LEMMA AddNodeKeeps ==
    ASSUME SyncInv, AddNode
    PROVE  SyncInv'
<1>1. /\ UNCHANGED <<remote, unborn, mirror, blocked, device, used, job, skewed>>
      /\ raced' = raced \cup Raced(Workers) \cup (adding \ Provisioned) \cup (Provisioned \ adding)
      /\ adding # None /\ adding' = None /\ node' = TRUE
      /\ peer' = [u \in Users |-> IF u \in adding THEN "pending" ELSE peer[u]]
  BY DEF AddNode, remoteVars, raceVars
<1>2. ~node /\ adding \subseteq Users /\ \A u \in adding : device[u] # "none"
  BY <1>1 DEF SyncInv, TypeOK
<1>3. \A u \in Users : peer[u] = "none"
  BY <1>2 DEF SyncInv, RowsFit
<1>4. peer' \in [Users -> Live \cup Tombstoned \cup {"none"}]
  BY <1>1 DEF SyncInv, TypeOK, Live
<1>5. \A u \in Users \ raced' : u \notin raced /\ (u \in adding <=> device[u] = "live" /\ ~blocked[u])
  BY <1>1 DEF Provisioned
<1>6. \A u \in Users : peer'[u] = IF u \in adding THEN "pending" ELSE "none"
  BY <1>1, <1>3
<1>7. RowsFit'
  <2> SUFFICES ASSUME NEW u \in Users
               PROVE  /\ mirror[u] = None => u \notin used
                      /\ mirror[u] # None /\ mirror[u].del => blocked[u] /\ remote[u] = None
                      /\ peer'[u] # "none" => device[u] # "none"
                      /\ device[u] = "deleted" /\ u \notin raced' => peer'[u] \notin Live
    BY <1>1 DEF RowsFit
  <2> QED
    BY <1>2, <1>5, <1>6 DEF SyncInv, RowsFit, Live
<1>8. BlockedRowsRemoved' /\ ActiveIsProvisioned' /\ LimitedIsBlocked'
  BY <1>1, <1>5, <1>6 DEF SyncInv, BlockedRowsRemoved, ActiveIsProvisioned, LimitedIsBlocked, Live
<1>9. ASSUME NEW i \in Workers, NEW v \in DOMAIN job[i].loaded \ raced'
      PROVE  Kept(v)
  <2>1. v \in Users /\ mirror[v] # None
    BY <1>1, <1>9, JobTypes DEF SyncInv, LoadedExist
  <2>2. peer'[v] = "none"
    BY <1>1, <1>3, <1>9, <2>1 DEF Raced
  <2>3. ~blocked[v] \/ ~(blocked[v] => peer[v] \in Tombstoned)
    BY <1>3, <2>1 DEF Tombstoned
  <2> QED
    BY <1>1, <1>3, <2>1, <2>2, <2>3 DEF Kept
<1>10. \A u \in Users : mirror[u] = None => peer'[u] = "none"
  BY <1>2, <1>6 DEF SyncInv, TypeOK
<1>19. OthersTyped
  BY DEF AddNode, OthersTyped, remoteVars, queueVars, SyncInv, TypeOK
<1> QED
  BY <1>1, <1>2, <1>4, <1>7, <1>8, <1>9, <1>10, <1>19, AccountStep DEF SyncInv, TypeOK

\* A sync acknowledges rows, it does not bring back or remove any.
LEMMA SyncNodeKeeps ==
    ASSUME SyncInv, SyncNode
    PROVE  SyncInv'
<1>1. UNCHANGED <<remote, unborn, mirror, blocked, device, used, node, adding, job, raced,
                  skewed>>
  BY DEF SyncNode, remoteVars, nodeVars, raceVars
<1>2. \A u \in Users : /\ peer'[u] \in Live <=> peer[u] \in Live
                       /\ peer'[u] \in Tombstoned <=> peer[u] \in Tombstoned
                       /\ peer'[u] = "none" <=> peer[u] = "none"
  BY DEF SyncNode, Live, Tombstoned, SyncInv, TypeOK
<1>3. peer' \in [Users -> Live \cup Tombstoned \cup {"none"}]
  BY DEF SyncNode, Live, Tombstoned, SyncInv, TypeOK
<1>4. RowsFit'
  BY <1>1, <1>2 DEF SyncInv, RowsFit
<1>5. BlockedRowsRemoved' /\ ActiveIsProvisioned' /\ LimitedIsBlocked'
  BY <1>1, <1>2 DEF SyncInv, BlockedRowsRemoved, ActiveIsProvisioned, LimitedIsBlocked
<1>6. ASSUME NEW i \in Workers, NEW v \in DOMAIN job[i].loaded \ raced'
      PROVE  Kept(v)
  <2>1. v \in Users /\ mirror[v] # None
    BY <1>1, <1>6, JobTypes DEF SyncInv, LoadedExist
  <2> QED
    BY <1>1, <1>2, <2>1 DEF Kept
<1>19. OthersTyped
  BY DEF SyncNode, OthersTyped, remoteVars, queueVars, SyncInv, TypeOK
<1> QED
  BY <1>1, <1>2, <1>3, <1>4, <1>5, <1>6, <1>19, AccountStep DEF SyncInv, TypeOK, JobsTyped

\* The first traffic of an account under a tight limit blocks it, with its row.
LEMMA ReportTrafficKeeps ==
    ASSUME SyncInv, NEW u \in Users, ReportTraffic(u)
    PROVE  SyncInv'
<1>1. /\ UNCHANGED <<remote, unborn, mirror, device, node, adding, job, raced, skewed>>
      /\ peer[u] = "active" /\ used' = used \cup {u}
  BY DEF ReportTraffic, remoteVars, nodeVars, raceVars
<1>2. /\ blocked' \in [Users -> BOOLEAN] /\ disables' \subseteq disables \cup {u}
      /\ peer' \in [Users -> Live \cup Tombstoned \cup {"none"}]
  BY DEF ReportTraffic, SyncInv, TypeOK, Tombstoned
<1>3. \A v \in Users : v = u \/ (blocked'[v] = blocked[v] /\ peer'[v] = peer[v])
  BY DEF ReportTraffic, SyncInv, TypeOK
<1>4. \/ blocked'[u] = blocked[u] /\ peer'[u] = "active" /\ ~Limited(u, mirror[u].profile, used')
      \/ blocked'[u] /\ peer'[u] = "pending_delete"
  BY <1>1 DEF ReportTraffic, SyncInv, TypeOK
<1>5. mirror[u] # None /\ device[u] # "none" /\ node
  BY <1>1 DEF SyncInv, TypeOK, RowsFit
<1>6. RowsFit'
  BY <1>1, <1>3, <1>4, <1>5 DEF SyncInv, RowsFit, Live
<1>7. BlockedRowsRemoved' /\ ActiveIsProvisioned'
  BY <1>1, <1>3, <1>4 DEF SyncInv, BlockedRowsRemoved, ActiveIsProvisioned, Live
<1>8. LimitedIsBlocked'
  <2> QED
    BY <1>1, <1>3, <1>4 DEF SyncInv, LimitedIsBlocked, Limited
<1>9. ASSUME NEW i \in Workers, NEW v \in DOMAIN job[i].loaded \ raced'
      PROVE  Kept(v)
  <2>1. v \in Users /\ mirror[v] # None
    BY <1>1, <1>9, JobTypes DEF SyncInv, LoadedExist
  <2> QED
    BY <1>1, <1>3, <1>4, <2>1 DEF Kept, Tombstoned
<1>19. OthersTyped
  BY DEF ReportTraffic, OthersTyped, remoteVars, queueVars, SyncInv, TypeOK
<1> QED
  BY <1>1, <1>2, <1>3, <1>5, <1>6, <1>7, <1>8, <1>9, <1>19, AccountStep DEF SyncInv, TypeOK

\* A user known to be gone is blocked, with its row.
LEMMA MarkDeletedKeeps ==
    ASSUME SyncInv, NEW u \in Users, MarkDeleted(u)
    PROVE  SyncInv'
<1>1. /\ UNCHANGED <<remote, unborn, device, used, node, adding, job, skewed>>
      /\ remote[u] = None /\ mirror[u] # None /\ raced' = raced \cup Raced(Workers)
      /\ blocked' = [blocked EXCEPT ![u] = TRUE]
      /\ peer' = [peer EXCEPT ![u] = IF peer[u] \in {"none", "deleted"} THEN peer[u]
                                     ELSE "pending_delete"]
  BY DEF MarkDeleted, remoteVars, nodeVars
<1>2. mirror' = [mirror EXCEPT ![u] = [[mirror[u] EXCEPT !.del = TRUE] EXCEPT !.sync = "missing"]]
  BY <1>1 DEF MarkDeleted, SyncInv, TypeOK, Rows
<1>3. /\ mirror[u] \in Rows /\ mirror'[u] \in Rows /\ mirror'[u].sync = "missing"
      /\ \A v \in Users \ {u} : mirror'[v] = mirror[v]
  <2> DEFINE m == [[mirror[u] EXCEPT !.del = TRUE] EXCEPT !.sync = "missing"]
  <2>1. mirror[u] \in Rows
    BY <1>1 DEF SyncInv, TypeOK
  <2>2. m \in Rows /\ m.sync = "missing"
    BY <2>1 DEF Rows
  <2> HIDE DEF m
  <2>3. mirror'[u] = m /\ \A v \in Users \ {u} : mirror'[v] = mirror[v]
    BY <1>2 DEF SyncInv, TypeOK, m
  <2> QED
    BY <2>1, <2>2, <2>3
<1>4. mirror' \in [Users -> Rows \cup {None}] /\ blocked' \in [Users -> BOOLEAN]
      /\ peer' \in [Users -> Live \cup Tombstoned \cup {"none"}]
  BY <1>1, <1>2, <1>3 DEF SyncInv, TypeOK, Tombstoned
<1>5. mirror'[u] # None
  BY <1>3, NoneAssumption
<1>6. RowsFit'
  BY <1>1, <1>3, <1>5 DEF SyncInv, TypeOK, RowsFit, Live
<1>7. BlockedRowsRemoved' /\ ActiveIsProvisioned'
  BY <1>1 DEF SyncInv, TypeOK, BlockedRowsRemoved, ActiveIsProvisioned, Live
<1>8. LimitedIsBlocked'
  BY <1>1, <1>3 DEF SyncInv, TypeOK, LimitedIsBlocked, Limited
<1>9. ASSUME NEW i \in Workers, NEW v \in DOMAIN job[i].loaded \ raced'
      PROVE  Kept(v)
  <2>1. v \in Users /\ mirror[v] # None
    BY <1>1, <1>9, JobTypes DEF SyncInv, LoadedExist
  <2>2. blocked'[v] = blocked[v]
    BY <1>1, <1>9, <2>1 DEF Raced
  <2> QED
    BY <1>1, <1>3, <1>5, <2>1, <2>2 DEF Kept, SyncInv, TypeOK, Tombstoned
<1>19. OthersTyped
  BY DEF MarkDeleted, OthersTyped, remoteVars, queueVars, SyncInv, TypeOK
<1> QED
  BY <1>1, <1>3, <1>4, <1>5, <1>6, <1>7, <1>8, <1>9, <1>19, AccountStep DEF SyncInv, TypeOK, JobsTyped

-----------------------------------------------------------------------------
(* The upsert and the completion of a pass.                                *)

PeerStates == Live \cup Tombstoned \cup {"none"}

\* What an upsert leaves of a row, whatever happened since it was loaded.
LEMMA OutcomeShape ==
    ASSUME NEW u, NEW was \in Loaded, NEW should \in BOOLEAN, NEW limited \in BOOLEAN,
           limited => ~should, blocked[u] \in BOOLEAN, peer[u] \in PeerStates,
           NEW o, o = Outcome(u, was, should, limited)
    PROVE  /\ o.blocked \in BOOLEAN /\ o.peer \in PeerStates
           /\ limited => o.blocked
           /\ peer[u] # "none" => o.peer # "none"
           /\ o.peer # "none" => \/ peer[u] # "none" \/ was.peer # "none"
                                 \/ device[u] = "live" /\ node
           /\ o.peer \in Live => peer[u] \in Live \/ device[u] # "deleted"
<1>1. was.blocked \in BOOLEAN /\ was.peer \in PeerStates
  BY DEF Loaded, PeerStates
<1>3. o.blocked = IF was.blocked # should \/ (limited /\ ~was.blocked)
                  THEN (IF was.blocked # should THEN should ELSE was.blocked) \/ limited
                  ELSE blocked[u]
  BY <1>1 DEF Outcome
<1>4. o.blocked \in BOOLEAN /\ (limited => o.blocked)
  BY <1>1, <1>3
<1> DEFINE p == IF was.blocked # should THEN Transition(u, was, should)
                ELSE IF was.peer = "none" THEN peer[u] ELSE was.peer
<1>5. o.peer = IF p = was.peer /\ (limited /\ p # "none" => was.peer = "pending_delete")
               THEN peer[u] ELSE IF limited /\ p # "none" THEN "pending_delete" ELSE p
  BY DEF Outcome
<1>6. \/ p = was.peer
      \/ p = peer[u] /\ was.peer = "none"
      \/ p = "pending" /\ device[u] = "live" /\ node
      \/ p = "pending" /\ device[u] # "deleted" /\ was.peer # "none"
      \/ p = "pending_delete" /\ was.peer # "none"
  BY DEF Transition, Tombstoned
<1> HIDE DEF p
<1>7. /\ o.peer \in {peer[u], p, "pending_delete"}
      /\ p = was.peer => o.peer \in {peer[u], "pending_delete"}
  BY <1>5
<1>8. o.peer \in PeerStates
  BY <1>1, <1>6, <1>7 DEF PeerStates, Live, Tombstoned
<1>9. peer[u] # "none" => o.peer # "none"
  BY <1>5, <1>6
<1>10. o.peer # "none" => \/ peer[u] # "none" \/ was.peer # "none"
                          \/ device[u] = "live" /\ node
  BY <1>5, <1>6
<1>11. o.peer \in Live => peer[u] \in Live \/ device[u] # "deleted"
  BY <1>6, <1>7 DEF Live
<1> QED
  BY <1>4, <1>8, <1>9, <1>10, <1>11

\* An upsert of an up-to-date row takes every peer of an account it blocks, and gives
\* the device of an account it unblocks its peer back.
LEMMA OutcomeFits ==
    ASSUME NEW u, NEW was \in Loaded, NEW should \in BOOLEAN, NEW limited \in BOOLEAN,
           limited => ~should, blocked[u] \in BOOLEAN, peer[u] \in PeerStates,
           UpToDate(u, was), device[u] \in {"none", "live", "deleted"},
           peer[u] # "none" => device[u] # "none",
           device[u] = "deleted" => peer[u] \notin Live,
           blocked[u] => peer[u] \notin Live,
           device[u] = "live" /\ node /\ ~blocked[u] => peer[u] \in Live,
           NEW o, o = Outcome(u, was, should, limited)
    PROVE  /\ o.blocked => o.peer \notin Live
           /\ device[u] = "live" /\ node /\ ~o.blocked => o.peer \in Live
<1>1. was.blocked \in BOOLEAN /\ was.peer \in PeerStates
  BY DEF Loaded, PeerStates
<1>2. o.blocked = IF was.blocked # should \/ (limited /\ ~was.blocked)
                  THEN (IF was.blocked # should THEN should ELSE was.blocked) \/ limited
                  ELSE blocked[u]
  BY <1>1 DEF Outcome
<1> DEFINE p == IF was.blocked # should THEN Transition(u, was, should)
                ELSE IF was.peer = "none" THEN peer[u] ELSE was.peer
<1>3. o.peer = IF p = was.peer /\ (limited /\ p # "none" => was.peer = "pending_delete")
               THEN peer[u] ELSE IF limited /\ p # "none" THEN "pending_delete" ELSE p
  BY DEF Outcome
<1>5. CASE ~was.blocked /\ should
  <2>1. p = IF was.peer = "none" THEN peer[u] ELSE "pending_delete"
    BY <1>5 DEF Transition
  <2> QED
    BY <1>2, <1>3, <1>5, <2>1 DEF UpToDate, Live, Tombstoned
<1>6. CASE was.blocked /\ ~should
  <2>1. was.peer = "none" => peer[u] = "none" /\ p = IF device[u] = "live" /\ node
                                                     THEN "pending" ELSE "none"
    BY <1>6 DEF Transition, UpToDate
  <2>2. was.peer # "none" => was.peer \in Tombstoned /\ p = IF device[u] # "deleted"
                                                          THEN "pending" ELSE was.peer
    BY <1>1, <1>6 DEF Transition, UpToDate, PeerStates
  <2> HIDE DEF p
  <2>3. o.blocked = limited
    BY <1>2, <1>6
  <2>4. CASE was.peer = "none"
    BY <1>3, <2>1, <2>3, <2>4 DEF Live
  <2>5. CASE was.peer # "none"
    BY <1>3, <2>2, <2>3, <2>5 DEF Live, Tombstoned
  <2> QED
    BY <2>4, <2>5
<1>7. CASE was.blocked = should
  <2>1. p = IF was.peer = "none" THEN "none" ELSE was.peer
    BY <1>7 DEF UpToDate
  <2> HIDE DEF p
  <2>2. was.blocked => blocked[u] /\ ~limited
    BY <1>7 DEF UpToDate
  <2>3. limited => ~was.blocked
    BY <2>2
  <2>4. CASE ~limited
    BY <1>2, <1>3, <1>7, <2>1, <2>4 DEF UpToDate
  <2>5. CASE limited
    <3>1. /\ o.blocked
          /\ \/ o.peer = peer[u] /\ was.peer \in {"none", "pending_delete"}
             \/ o.peer = "pending_delete"
      BY <1>2, <1>3, <1>7, <2>1, <2>3, <2>5
    <3> QED
      BY <3>1 DEF UpToDate, Live, Tombstoned
  <2> QED
    BY <2>4, <2>5
<1> QED
  BY <1>1, <1>5, <1>6, <1>7

\* The effect of an upsert that has read this traffic on each account.
WriteEffect(j, u, traffic) ==
    LET r == job[j]
        o == Outcome(u, r.loaded[u], r.page[u] = Disabled, Limited(u, r.page[u], traffic))
    IN  /\ u \notin DOMAIN r.page =>
              mirror'[u] = mirror[u] /\ blocked'[u] = blocked[u] /\ peer'[u] = peer[u]
        /\ u \in DOMAIN r.page =>
              mirror'[u] = [profile |-> r.page[u], sync |-> "synced", del |-> FALSE]
        /\ u \in DOMAIN r.loaded =>
              /\ u \in DOMAIN r.page /\ mirror[u] # None
              /\ blocked'[u] = o.blocked /\ peer'[u] = o.peer
        /\ u \in DOMAIN r.page \ DOMAIN r.loaded =>
              mirror[u] = None /\ blocked'[u] = (r.page[u] = Disabled) /\ peer'[u] = "none"

\* The upsert writes the accounts of its page.
LEMMA WriteRowsEffect ==
    ASSUME SyncInv, NEW j \in Workers, WriteRows(j)
    PROVE  \E late \in SUBSET used :
             /\ \A u \in Users : WriteEffect(j, u, used \ late)
             /\ skewed' = (skewed \ DOMAIN job[j].page) \cup late
             /\ disables' \subseteq disables \cup DOMAIN job[j].page
<1> DEFINE r == job[j]
           new(u, t) == IF u \in DOMAIN r.loaded THEN Upserted(u, r.page[u], r.loaded[u], t)
                        ELSE Created(r.page[u])
<1>0. Judged(j) \subseteq used
  BY DEF Judged
<1>1. {u \in DOMAIN r.page : mirror[u] # None} = DOMAIN r.loaded
  BY DEF WriteRows
<1>2. PICK late \in SUBSET Judged(j) :
      /\ mirror' = [u \in Users |-> IF u \in DOMAIN r.page
                                    THEN [profile |-> r.page[u], sync |-> "synced", del |-> FALSE]
                                    ELSE mirror[u]]
      /\ blocked' = [u \in Users |-> IF u \in DOMAIN r.page THEN new(u, used \ late).blocked
                                     ELSE blocked[u]]
      /\ peer' = [u \in Users |-> IF u \in DOMAIN r.page THEN new(u, used \ late).peer
                                  ELSE peer[u]]
      /\ disables' = disables \cup {u \in DOMAIN r.page : Limited(u, r.page[u], used \ late)}
      /\ skewed' = (skewed \ DOMAIN r.page) \cup late
  BY DEF WriteRows
<1>3. ASSUME NEW u \in Users
      PROVE  WriteEffect(j, u, used \ late)
  BY <1>1, <1>2 DEF WriteEffect, Upserted, Created
<1>4. disables' \subseteq disables \cup DOMAIN r.page
  BY <1>2
<1> QED
  BY <1>0, <1>2, <1>3, <1>4

\* What an upsert makes of one account.
LEMMA WrittenAccount ==
    ASSUME SyncInv, NEW j \in Workers, NEW u \in Users, NEW late \in SUBSET used,
           WriteEffect(j, u, used \ late)
    PROVE  /\ mirror'[u] \in Rows \cup {None} /\ blocked'[u] \in BOOLEAN /\ peer'[u] \in PeerStates
           /\ mirror'[u] = None => mirror[u] = None /\ peer'[u] = "none"
           /\ mirror'[u] # None /\ mirror[u] = None => u \in DOMAIN job[j].page
           /\ mirror'[u] # None /\ mirror'[u].del => mirror'[u] = mirror[u] /\ blocked'[u]
           /\ peer[u] # "none" => peer'[u] # "none"
           /\ peer'[u] # "none" => node /\ device[u] # "none"
           /\ device[u] = "deleted" /\ peer[u] \notin Live => peer'[u] \notin Live
           /\ u \notin late /\ (u \notin skewed \/ u \in DOMAIN job[j].page)
                /\ mirror'[u] # None /\ mirror'[u].sync = "synced"
                /\ Limited(u, mirror'[u].profile, used) => blocked'[u]
           /\ u \notin raced => /\ blocked'[u] => peer'[u] \notin Live
                                /\ device[u] = "live" /\ node /\ ~blocked'[u] => peer'[u] \in Live
<1> DEFINE r == job[j]
<1>0. /\ blocked[u] \in BOOLEAN /\ peer[u] \in PeerStates /\ mirror[u] \in Rows \cup {None}
      /\ device[u] \in {"none", "live", "deleted"}
      /\ mirror[u] = None => device[u] = "none" /\ peer[u] = "none" /\ u \notin used
      /\ mirror[u] # None /\ mirror[u].del => blocked[u]
      /\ peer[u] # "none" => node /\ device[u] # "none"
  BY DEF SyncInv, TypeOK, RowsFit, PeerStates
<1>1. /\ u \notin raced => /\ blocked[u] => peer[u] \notin Live
                           /\ device[u] = "live" /\ node /\ ~blocked[u] => peer[u] \in Live
                           /\ device[u] = "deleted" => peer[u] \notin Live
      /\ u \notin skewed /\ mirror[u] # None /\ mirror[u].sync = "synced"
           /\ Limited(u, mirror[u].profile, used) => blocked[u]
  BY DEF SyncInv, RowsFit, BlockedRowsRemoved, ActiveIsProvisioned, LimitedIsBlocked
<1>2. CASE u \notin DOMAIN r.page
  <2>1. mirror'[u] = mirror[u] /\ blocked'[u] = blocked[u] /\ peer'[u] = peer[u]
    BY <1>2 DEF WriteEffect
  <2> QED
    BY <1>0, <1>1, <1>2, <2>1
<1>3. ASSUME u \in DOMAIN r.page
      PROVE  /\ r.page[u] \in Profiles /\ mirror'[u] \in Rows /\ mirror'[u] # None
             /\ mirror'[u].profile = r.page[u] /\ ~mirror'[u].del
  <2>1. r.page[u] \in Profiles
    BY <1>3, JobTypes DEF SyncInv
  <2>2. mirror'[u] = [profile |-> r.page[u], sync |-> "synced", del |-> FALSE]
    BY <1>3 DEF WriteEffect
  <2>3. mirror'[u] \in Rows /\ mirror'[u].profile = r.page[u] /\ ~mirror'[u].del
    BY <2>1, <2>2 DEF Rows
  <2> QED
    BY <2>1, <2>3, NoneAssumption
<1>4. CASE u \in DOMAIN r.page \ DOMAIN r.loaded
  <2>1. mirror[u] = None /\ blocked'[u] = (r.page[u] = Disabled) /\ peer'[u] = "none"
    BY <1>4 DEF WriteEffect
  <2> QED
    BY <1>0, <1>3, <1>4, <2>1 DEF Live, Limited
<1>5. CASE u \in DOMAIN r.loaded
  <2> DEFINE was == r.loaded[u]
             should == r.page[u] = Disabled
             limited == Limited(u, r.page[u], used \ late)
             o == Outcome(u, was, should, limited)
  <2>1. u \in DOMAIN r.page /\ mirror[u] # None /\ blocked'[u] = o.blocked /\ peer'[u] = o.peer
    BY <1>5 DEF WriteEffect
  <2>2. was \in Loaded
    BY <1>5, JobTypes DEF SyncInv
  <2>3. should \in BOOLEAN /\ limited \in BOOLEAN
    BY Zenon DEF Limited
  <2>4. limited => ~should
    BY DEF Limited, Tight, Disabled
  <2>5. was.peer # "none" => node /\ device[u] # "none"
    BY <1>5, <2>1 DEF SyncInv, LoadedExist
  <2>6. u \notin raced => UpToDate(u, was)
    BY <1>5 DEF SyncInv, LoadedFit
  <2>7. u \notin late /\ Limited(u, mirror'[u].profile, used) => limited
    BY <1>3, <2>1 DEF Limited
  <2> HIDE DEF was, should, limited, o
  <2>8. /\ o.blocked \in BOOLEAN /\ o.peer \in PeerStates
        /\ limited => o.blocked
        /\ peer[u] # "none" => o.peer # "none"
        /\ o.peer # "none" => \/ peer[u] # "none" \/ was.peer # "none"
                              \/ device[u] = "live" /\ node
        /\ o.peer \in Live => peer[u] \in Live \/ device[u] # "deleted"
    <3>1. o = Outcome(u, was, should, limited)
      BY DEF o
    <3> QED
      BY <1>0, <2>2, <2>3, <2>4, <3>1, OutcomeShape
  <2>9. u \notin raced => /\ o.blocked => o.peer \notin Live
                          /\ device[u] = "live" /\ node /\ ~o.blocked => o.peer \in Live
    <3>1. o = Outcome(u, was, should, limited)
      BY DEF o
    <3> QED
      BY <1>0, <1>1, <2>2, <2>3, <2>4, <2>6, <3>1, OutcomeFits
  <2> QED
    BY <1>0, <1>3, <2>1, <2>5, <2>7, <2>8, <2>9
<1> QED
  BY <1>2, <1>4, <1>5

\* The single-user sync ends, or the pass goes on to its next page or its end.
LEMMA WriteRowsPass ==
    ASSUME SyncInv, NEW j \in Workers, WriteRows(j)
    PROVE  /\ job' \in [Workers -> JobRecords] /\ job'[j].loaded = NoRows
           /\ \A i \in Workers \ {j} : job'[i] = job[i]
           /\ job'[j].page = NoRows /\ PassCovers'
<1> DEFINE r == job[j]
           p == IF LastPage(r) THEN "end" ELSE "fetch"
           n == [r EXCEPT !.page = NoRows, !.loaded = NoRows, !.phase = p]
<1>1. r \in JobRecords /\ r.phase = "write" /\ Goto(j, IF j \in Syncs THEN Idle ELSE n)
  BY JobTypes DEF SyncInv, WriteRows
<1>2. /\ n \in JobRecords /\ n.loaded = NoRows /\ n.page = NoRows /\ n.born = r.born
      /\ n.phase = p /\ n.start = r.start /\ n.seen = r.seen /\ n.shifted = r.shifted
  BY <1>1, IdleTypes DEF JobRecords
<1> HIDE DEF n
<1>3. /\ job' \in [Workers -> JobRecords] /\ job'[j] = IF j \in Syncs THEN Idle ELSE n
      /\ \A i \in Workers \ {j} : job'[i] = job[i]
  BY <1>1, <1>2, IdleTypes DEF Goto, SyncInv, JobsTyped
<1>4. UNCHANGED remote
  BY DEF WriteRows, remoteVars
<1>5. CASE j \in Syncs
  <2>1. PassCovers'
    BY <1>3, <1>4, <1>5, SamePass, RemnawaveAssumption DEF SyncInv, Workers
  <2> QED
    BY <1>3, <1>5, <2>1, IdleTypes
<1>6. CASE j \in Passes
  <2>1. job'[j] = n
    BY <1>3, <1>6, RemnawaveAssumption
  <2>2. Covered(r)
    BY <1>6 DEF SyncInv, PassCovers
  <2>3. Covered(n)
    BY <1>1, <1>2, <2>2 DEF Covered
  <2>4. PassCovers'
    BY <1>3, <1>4, <1>6, <2>1, <2>3, OnePass DEF SyncInv, Workers
  <2> QED
    BY <1>2, <1>3, <2>1, <2>4
<1> QED
  BY <1>5, <1>6 DEF Workers

\* The upsert keeps the invariant, also for what the other job has loaded.
LEMMA WriteRowsKeeps ==
    ASSUME SyncInv, NEW j \in Workers, WriteRows(j)
    PROVE  SyncInv'
<1>1. /\ UNCHANGED <<remote, unborn, changes, settings, device, used, node, adding, queued>>
      /\ raced' = raced \cup Raced(Workers \ {j})
  BY DEF WriteRows, remoteVars, nodeVars
<1>2. PICK late \in SUBSET used :
        /\ \A u \in Users : WriteEffect(j, u, used \ late)
        /\ skewed' = (skewed \ DOMAIN job[j].page) \cup late
        /\ disables' \subseteq disables \cup DOMAIN job[j].page
  BY WriteRowsEffect
<1>3. /\ job' \in [Workers -> JobRecords] /\ job'[j].loaded = NoRows
      /\ \A i \in Workers \ {j} : job'[i] = job[i]
      /\ job'[j].page = NoRows /\ PassCovers'
  BY WriteRowsPass
<1>4. disables' \subseteq Users
  <2>1. DOMAIN job[j].page \subseteq Users
    BY JobTypes DEF SyncInv
  <2> QED
    BY <1>2, <2>1 DEF SyncInv, TypeOK
<1>5. /\ mirror' \in [Users -> Rows \cup {None}] /\ blocked' \in [Users -> BOOLEAN]
      /\ peer' \in [Users -> PeerStates]
  <2>1. \A u \in Users : /\ mirror'[u] \in Rows \cup {None} /\ blocked'[u] \in BOOLEAN
                         /\ peer'[u] \in PeerStates
    BY <1>2, WrittenAccount
  <2>2. /\ mirror' = [u \in Users |-> mirror'[u]] /\ blocked' = [u \in Users |-> blocked'[u]]
        /\ peer' = [u \in Users |-> peer'[u]]
    BY DEF WriteRows
  <2> QED
    BY <2>1, <2>2
<1>6. TypeOK' /\ JobsTyped'
  <2>1. \A i \in Workers : /\ job'[i].phase \in {"idle", "fetch", "load", "write", "end",
                                                 "complete"}
                           /\ job'[i].seen \in SUBSET Users
    BY <1>3 DEF JobRecords
  <2>3. \A u \in Users : mirror'[u] = None => device'[u] = "none" /\ peer'[u] = "none"
    BY <1>1, <1>2, WrittenAccount DEF SyncInv, TypeOK
  <2>4. unborn' \in SUBSET {u \in Users : remote'[u] = None /\ mirror'[u] = None}
    <3>1. ASSUME NEW u \in unborn
          PROVE  u \in Users /\ remote[u] = None /\ mirror'[u] = None
      <4>1. u \in Users /\ remote[u] = None /\ mirror[u] = None /\ u \notin DOMAIN job[j].page
        BY DEF SyncInv, TypeOK, LoadedExist
      <4> QED
        BY <1>2, <4>1, WrittenAccount
    <3> QED
      BY <1>1, <3>1
  <2> QED
    BY <1>1, <1>3, <1>4, <1>5, <2>1, <2>3, <2>4 DEF SyncInv, TypeOK, JobsTyped, PeerStates
<1>7. RowsFit'
  <2> SUFFICES ASSUME NEW u \in Users
               PROVE  /\ mirror'[u] = None => u \notin used
                      /\ mirror'[u] # None /\ mirror'[u].del => blocked'[u] /\ remote[u] = None
                      /\ peer'[u] # "none" => node /\ device[u] # "none"
                      /\ device[u] = "deleted" /\ u \notin raced' => peer'[u] \notin Live
    BY <1>1 DEF RowsFit
  <2> QED
    BY <1>1, <1>2, WrittenAccount DEF SyncInv, RowsFit
<1>8. BlockedRowsRemoved' /\ ActiveIsProvisioned'
  BY <1>1, <1>2, WrittenAccount DEF BlockedRowsRemoved, ActiveIsProvisioned
<1>9. LimitedIsBlocked'
  BY <1>1, <1>2, WrittenAccount DEF LimitedIsBlocked, Limited
<1>10. LoadedExist'
  <2>1. \A i \in Workers : \A u \in DOMAIN job'[i].loaded :
            i # j /\ u \in Users /\ u \in DOMAIN job[i].loaded /\ job'[i] = job[i]
    BY <1>3, IdleTypes, JobTypes DEF SyncInv
  <2>2. \A u \in Users : mirror[u] # None => mirror'[u] # None
    BY <1>2, WrittenAccount
  <2>3. \A i \in Workers : /\ DOMAIN job'[i].page \subseteq DOMAIN job[i].page
                           /\ job'[i].phase = "write" =>
                                DOMAIN job'[i].loaded \subseteq DOMAIN job'[i].page
    BY <1>3, IdleTypes DEF SyncInv, LoadedExist
  <2> QED
    BY <1>1, <2>1, <2>2, <2>3 DEF SyncInv, LoadedExist
<1>11. LoadedFit'
  <2>1. \A i \in Workers : Forgets(i)
    BY <1>3 DEF Forgets
  <2>2. ASSUME NEW i \in Workers, NEW u \in DOMAIN job'[i].loaded \ raced'
        PROVE  Kept(u)
    <3>1. i # j /\ u \in DOMAIN job[i].loaded /\ u \notin raced
      BY <1>1, <1>3, <2>2, IdleTypes
    <3>2. u \in Users /\ mirror[u] # None
      BY <3>1, JobTypes DEF SyncInv, LoadedExist
    <3>3. blocked'[u] = blocked[u] /\ ~(peer[u] = "none" /\ peer'[u] # "none")
      BY <1>1, <2>2, <3>1, <3>2 DEF Raced
    <3>4. /\ mirror'[u] # None /\ (peer[u] # "none" => peer'[u] # "none")
          /\ peer'[u] \in PeerStates /\ (blocked'[u] => peer'[u] \notin Live)
      BY <1>2, <3>1, <3>2, WrittenAccount
    <3> QED
      BY <1>1, <3>3, <3>4 DEF Kept, PeerStates, Tombstoned
  <2> QED
    BY <1>1, <2>1, <2>2, KeptFits
<1> QED
  BY <1>3, <1>6, <1>7, <1>8, <1>9, <1>10, <1>11 DEF SyncInv

\* The completion of a pass: unseen users are blocked with their rows, and the users
\* whose deletion was requested go; a request that has loaded one of those ends.
LEMMA CompleteKeeps ==
    ASSUME SyncInv, NEW p \in Passes, Complete(p)
    PROVE  SyncInv'
<1> DEFINE was == job[p].loaded
           stale == DOMAIN was
           purged == Purged(p)
           ends(j) == j = p \/ DOMAIN job[j].loaded \cap purged # {}
<1>0. p \in Workers
  BY DEF Workers
<1>1. /\ UNCHANGED <<remote, unborn, changes, settings, node, adding, queued, disables>>
      /\ used' = used \ purged /\ skewed' = skewed \ purged
      /\ raced' = (raced \cup Raced(Workers \ {p})) \ purged
      /\ job' = [j \in Workers |-> IF ends(j) THEN Idle ELSE job[j]]
  BY DEF Complete, remoteVars, nodeVars, queueVars
<1>2. /\ stale \subseteq Users /\ purged \subseteq Users /\ purged \cap stale = {}
      /\ \A u \in stale : was[u] \in Loaded
      /\ \A u \in purged : mirror[u] # None /\ peer[u] = "deleted"
  BY <1>0, JobTypes DEF SyncInv, Purged
<1>3. \A u \in Users :
         /\ u \in stale => /\ mirror'[u] = [mirror[u] EXCEPT !.sync = "stale"]
                           /\ blocked'[u] = (blocked[u] \/ ~was[u].blocked)
                           /\ peer'[u] = IF was[u].peer \notin {"none", "pending_delete"}
                                         THEN "pending_delete" ELSE peer[u]
                           /\ device'[u] = device[u]
         /\ u \in purged => /\ mirror'[u] = None /\ blocked'[u] = FALSE
                            /\ peer'[u] = "none" /\ device'[u] = "none"
         /\ u \notin stale \cup purged =>
              /\ mirror'[u] = mirror[u] /\ blocked'[u] = blocked[u]
              /\ peer'[u] = peer[u] /\ device'[u] = device[u]
  BY <1>2 DEF Complete
<1>4. \A u \in stale : mirror[u] # None /\ mirror[u] \in Rows
  BY <1>0, <1>2 DEF SyncInv, LoadedExist, TypeOK
<1>5. \A u \in stale : /\ mirror'[u] \in Rows /\ mirror'[u] # None
                       /\ mirror'[u].del = mirror[u].del /\ mirror'[u].sync = "stale"
  <2> TAKE u \in stale
  <2>1. mirror[u] \in Rows /\ mirror'[u] = [mirror[u] EXCEPT !.sync = "stale"]
    BY <1>2, <1>3, <1>4
  <2>2. /\ mirror'[u] \in Rows
        /\ mirror'[u].del = mirror[u].del /\ mirror'[u].sync = "stale"
    BY <2>1 DEF Rows
  <2> QED
    BY <2>2, NoneAssumption
<1>6. /\ job' \in [Workers -> JobRecords] /\ job'[p] = Idle
      /\ \A j \in Workers : job'[j] = Idle \/ (job'[j] = job[j] /\ ~ends(j))
  BY <1>0, <1>1, IdleTypes DEF SyncInv, JobsTyped
<1>7. PassCovers'
  <2>1. \A j \in Passes : job'[j] = job[j] \/ job'[j].phase = "idle"
    BY <1>6 DEF Idle, Workers
  <2> QED
    BY <1>1, <2>1, SamePass DEF SyncInv
<1>8. TypeOK' /\ JobsTyped'
  <2>1. \A u \in Users : /\ mirror'[u] \in Rows \cup {None} /\ peer'[u] \in PeerStates
                         /\ device'[u] \in {"none", "live", "deleted"}
                         /\ mirror'[u] = None => device'[u] = "none" /\ peer'[u] = "none"
                         /\ mirror[u] = None => mirror'[u] = None
    <3> TAKE u \in Users
    <3>1. /\ mirror[u] \in Rows \cup {None} /\ peer[u] \in PeerStates
          /\ device[u] \in {"none", "live", "deleted"}
          /\ mirror[u] = None => device[u] = "none" /\ peer[u] = "none"
      BY DEF SyncInv, TypeOK, PeerStates
    <3>2. CASE u \in stale
      BY <1>3, <1>4, <1>5, <3>1, <3>2 DEF PeerStates, Tombstoned
    <3>3. CASE u \in purged
      BY <1>3, <3>3 DEF PeerStates
    <3>4. CASE u \notin stale \cup purged
      BY <1>3, <3>1, <3>4
    <3> QED
      BY <3>2, <3>3, <3>4
  <2>2. \A u \in Users : blocked'[u] \in BOOLEAN
    BY <1>2, <1>3 DEF SyncInv, TypeOK
  <2>3. /\ mirror' = [u \in Users |-> mirror'[u]] /\ blocked' = [u \in Users |-> blocked'[u]]
        /\ peer' = [u \in Users |-> peer'[u]] /\ device' = [u \in Users |-> device'[u]]
    BY DEF Complete
  <2>4. \A i \in Workers : /\ job'[i].phase \in {"idle", "fetch", "load", "write", "end",
                                                 "complete"}
                           /\ job'[i].seen \in SUBSET Users
    BY <1>6 DEF JobRecords
  <2>5. \A i \in Workers : job'[i].phase \in {"idle", "fetch", "end"} => job'[i].loaded = NoRows
    BY <1>6, IdleTypes DEF SyncInv, TypeOK
  <2>6. /\ mirror' \in [Users -> Rows \cup {None}] /\ blocked' \in [Users -> BOOLEAN]
        /\ peer' \in [Users -> PeerStates] /\ device' \in [Users -> {"none", "live", "deleted"}]
    BY <2>1, <2>2, <2>3
  <2>7. unborn' \in SUBSET {u \in Users : remote'[u] = None /\ mirror'[u] = None}
    BY <1>1, <2>1 DEF SyncInv, TypeOK
  <2>8. adding' \in {None} \cup (IF node' THEN {} ELSE SUBSET {u \in Users : device'[u] # "none"})
    <3>1. purged = {} \/ node
      BY <1>2 DEF SyncInv, RowsFit
    <3>2. \A u \in Users \ purged : device'[u] = device[u]
      BY <1>3
    <3> HIDE DEF purged
    <3> QED
      BY <1>1, <3>1, <3>2 DEF SyncInv, TypeOK
  <2> QED
    BY <1>1, <1>6, <2>1, <2>4, <2>5, <2>6, <2>7, <2>8 DEF SyncInv, TypeOK, JobsTyped, PeerStates
<1>9. ASSUME NEW u \in stale
      PROVE  /\ peer'[u] # "none" => node /\ device[u] # "none"
             /\ u \notin raced /\ device[u] = "deleted" => peer'[u] \notin Live
             /\ blocked[u] => blocked'[u]
             /\ u \notin raced => blocked'[u] /\ peer'[u] \notin Live
             /\ peer[u] # "none" => peer'[u] # "none"
  <2>1. u \in Users /\ was[u] \in Loaded /\ was[u].blocked \in BOOLEAN /\ was[u].peer \in PeerStates
    BY <1>2 DEF Loaded, PeerStates
  <2>2. was[u].peer # "none" => node /\ device[u] # "none"
    BY <1>0, <1>4 DEF SyncInv, LoadedExist
  <2>3. u \notin raced => UpToDate(u, was[u])
    BY <1>0 DEF SyncInv, LoadedFit
  <2>4. /\ peer[u] # "none" => node /\ device[u] # "none"
        /\ u \notin raced /\ device[u] = "deleted" => peer[u] \notin Live
        /\ u \notin raced /\ blocked[u] => peer[u] \notin Live
        /\ device[u] \in {"none", "live", "deleted"}
    BY <2>1 DEF SyncInv, RowsFit, BlockedRowsRemoved, TypeOK
  <2> HIDE DEF was
  <2>5. u \notin raced => blocked'[u] /\ peer'[u] \notin Live
    BY <1>3, <2>1, <2>3, <2>4 DEF UpToDate, Live, Tombstoned
  <2> QED
    BY <1>3, <2>1, <2>2, <2>4, <2>5 DEF Live
<1>10. \A u \in Users \ raced' : u \in purged \/ u \notin raced
  BY <1>1
<1>11. RowsFit'
  <2> SUFFICES ASSUME NEW u \in Users
               PROVE  /\ mirror'[u] = None => u \notin used'
                      /\ mirror'[u] # None /\ mirror'[u].del => blocked'[u] /\ remote[u] = None
                      /\ peer'[u] # "none" => node /\ device'[u] # "none"
                      /\ device'[u] = "deleted" /\ u \notin raced' => peer'[u] \notin Live
    BY <1>1 DEF RowsFit
  <2>1. CASE u \in stale
    BY <1>2, <1>3, <1>4, <1>5, <1>9, <1>10, <2>1 DEF SyncInv, RowsFit
  <2>2. CASE u \in purged
    BY <1>1, <1>3, <2>2
  <2>3. CASE u \notin stale \cup purged
    <3>1. /\ mirror'[u] = mirror[u] /\ blocked'[u] = blocked[u]
          /\ peer'[u] = peer[u] /\ device'[u] = device[u]
      BY <1>3, <2>3
    <3>2. (u \in used' => u \in used) /\ (u \notin raced' => u \notin raced)
      BY <1>1, <1>10, <2>3
    <3> QED
      BY <3>1, <3>2 DEF SyncInv, RowsFit
  <2> QED
    BY <2>1, <2>2, <2>3
<1>12. BlockedRowsRemoved' /\ ActiveIsProvisioned'
  <2> SUFFICES ASSUME NEW u \in Users, u \notin raced'
               PROVE  /\ blocked'[u] => peer'[u] \notin Live
                      /\ device'[u] = "live" /\ node /\ ~blocked'[u] => peer'[u] \in Live
    BY <1>1 DEF BlockedRowsRemoved, ActiveIsProvisioned
  <2>1. CASE u \in stale
    BY <1>2, <1>9, <1>10, <2>1
  <2>2. CASE u \in purged
    BY <1>3, <2>2
  <2>3. CASE u \notin stale \cup purged
    BY <1>3, <1>10, <2>3 DEF SyncInv, BlockedRowsRemoved, ActiveIsProvisioned
  <2> QED
    BY <2>1, <2>2, <2>3
<1>13. LimitedIsBlocked'
  <2>1. ASSUME NEW u \in Users, mirror'[u] # None, mirror'[u].sync = "synced"
        PROVE  mirror'[u] = mirror[u] /\ blocked'[u] = blocked[u] /\ u \notin purged
    BY <1>3, <1>5, <2>1
  <2>2. used' \subseteq used /\ \A u \in Users \ skewed' : u \in purged \/ u \notin skewed
    BY <1>1
  <2> HIDE DEF purged
  <2> QED
    BY <2>1, <2>2 DEF SyncInv, LimitedIsBlocked, Limited
<1>14. \A i \in Workers : \A u \in DOMAIN job'[i].loaded :
          /\ i # p /\ u \in Users /\ job'[i] = job[i] /\ u \in DOMAIN job[i].loaded
          /\ u \notin purged /\ mirror[u] # None
  <2>1. \A i \in Workers : \A u \in DOMAIN job'[i].loaded :
          job'[i] = job[i] /\ ~ends(i) /\ u \in DOMAIN job[i].loaded
    BY <1>6, IdleTypes
  <2>2. \A i \in Workers : \A u \in DOMAIN job[i].loaded : u \in Users /\ mirror[u] # None
    BY JobTypes DEF SyncInv, LoadedExist
  <2> QED
    BY <2>1, <2>2
<1>15. LoadedExist'
  <2>1. \A i \in Workers : /\ DOMAIN job'[i].page \subseteq DOMAIN job[i].page
                           /\ job'[i].phase = "write" =>
                                DOMAIN job'[i].loaded \subseteq DOMAIN job'[i].page
    BY <1>6, IdleTypes DEF SyncInv, LoadedExist
  <2>2. \A i \in Workers : \A u \in DOMAIN job'[i].loaded :
          /\ mirror'[u] # None
          /\ job'[i].loaded[u].peer # "none" => node /\ device'[u] # "none"
          /\ job'[i].loaded[u].used => u \in used'
    <3> SUFFICES ASSUME NEW i \in Workers, NEW u \in DOMAIN job'[i].loaded
                 PROVE  /\ mirror'[u] # None
                        /\ job[i].loaded[u].peer # "none" => node /\ device'[u] # "none"
                        /\ job[i].loaded[u].used => u \in used'
      BY <1>14
    <3>1. /\ job[i].loaded[u].peer # "none" => node /\ device[u] # "none"
          /\ job[i].loaded[u].used => u \in used
      BY <1>14 DEF SyncInv, LoadedExist
    <3> QED
      BY <1>1, <1>3, <1>5, <1>14, <3>1
  <2> QED
    BY <1>1, <2>1, <2>2 DEF SyncInv, LoadedExist
<1>16. LoadedFit'
  <2>1. \A i \in Workers : Forgets(i)
    BY <1>6, IdleTypes DEF Forgets
  <2>2. ASSUME NEW i \in Workers, NEW u \in DOMAIN job'[i].loaded \ raced'
        PROVE  u \notin raced /\ Kept(u)
    <3>1. i # p /\ u \in Users /\ u \in DOMAIN job[i].loaded /\ u \notin purged /\ u \notin raced
      BY <1>1, <1>14, <2>2
    <3>2. blocked'[u] = blocked[u] /\ ~(peer[u] = "none" /\ peer'[u] # "none")
      BY <1>1, <2>2, <3>1 DEF Raced
    <3>3. CASE u \in stale
      BY <1>3, <1>8, <1>9, <3>1, <3>2, <3>3 DEF Kept, TypeOK
    <3>4. CASE u \notin stale
      BY <1>3, <3>1, <3>4 DEF Kept
    <3> QED
      BY <3>1, <3>3, <3>4
  <2> QED
    BY <2>1, <2>2, KeptFits
<1> QED
  BY <1>7, <1>8, <1>11, <1>12, <1>13, <1>15, <1>16 DEF SyncInv

-----------------------------------------------------------------------------
(* The theorems.                                                           *)

\* Accounts without devices, and no job.
LEMMA InitHolds == Init => SyncInv
<1> SUFFICES ASSUME Init
             PROVE  SyncInv
  OBVIOUS
<1>1. \A j \in Workers : job[j] = Idle
  BY DEF Init
<1>2. [profile |-> Active, sync |-> "synced", del |-> FALSE] \in Rows
  BY DEF Rows, Profiles
<1>4. /\ remote \in [Users -> Profiles \cup {None}] /\ mirror \in [Users -> Rows \cup {None}]
      /\ device \in [Users -> {"none", "live", "deleted"}]
      /\ peer \in [Users -> Live \cup Tombstoned \cup {"none"}]
  BY <1>2, RemnawaveAssumption DEF Init, Profiles
<1>6. job \in [Workers -> JobRecords]
  BY IdleTypes DEF Init
<1>7. TypeOK /\ JobsTyped
  <2>1. changes \in 0..MaxChanges
    BY RemnawaveAssumption DEF Init
  <2>2. unborn \in SUBSET {u \in Users : remote[u] = None /\ mirror[u] = None}
    BY RemnawaveAssumption DEF Init
  <2> QED
    BY <1>4, <1>6, <2>1, <2>2 DEF Init, TypeOK, JobsTyped, Idle, Settings
<1>8. RowsFit /\ BlockedRowsRemoved /\ ActiveIsProvisioned /\ LimitedIsBlocked
  BY DEF Init, RowsFit, BlockedRowsRemoved, ActiveIsProvisioned, LimitedIsBlocked, Limited
<1>9. LoadedExist /\ LoadedFit
  BY <1>1, IdleTypes DEF LoadedExist, LoadedFit
<1>10. PassCovers
  BY <1>1 DEF PassCovers, Covered, Workers, Idle
<1> QED
  BY <1>7, <1>8, <1>9, <1>10 DEF SyncInv

\* The invariant is inductive.
LEMMA NextKeeps == SyncInv /\ [Next]_vars => SyncInv'
<1> SUFFICES ASSUME SyncInv, [Next]_vars
             PROVE  SyncInv'
  OBVIOUS
<1>1. CASE UNCHANGED vars
  <2>1. PanelKept /\ UNCHANGED <<job, remote, unborn, adding>> /\ OthersTyped
    BY <1>1 DEF PanelKept, OthersTyped, vars, panelVars, remoteVars, nodeVars, raceVars,
       queueVars, SyncInv, TypeOK
  <2> QED
    BY <2>1, SameRemote, OutsideStep
<1>2. ASSUME NEW p \in Passes, PollReconcile(p) \/ TriggerReconcile(p) \/ Pass(p)
      PROVE  SyncInv'
  BY <1>2, PollReconcileKeeps, TriggerReconcileKeeps, FetchPageKeeps, LoadUnseenKeeps,
     CompleteKeeps DEF Pass
<1>3. ASSUME NEW j \in Workers, Job(j) \/ JobFails(j)
      PROVE  SyncInv'
  BY <1>3, LoadRowsKeeps, WriteRowsKeeps, JobConflictsKeeps, JobFailsKeeps DEF Job
<1> QED
  BY <1>1, <1>2, <1>3, UpdateSettingsKeeps, SelectForNodeKeeps, AddNodeKeeps, SyncNodeKeeps,
     RemoteChangeKeeps, RemoteCreateKeeps, RemoteDeleteKeeps, CreateDeviceKeeps, DeleteDeviceKeeps, ReportTrafficKeeps,
     TriggerUserSyncKeeps, FetchUserKeeps, MarkDeletedKeeps, DisableUserKeeps DEF Next

\* The inductive invariant holds in every state, whatever the users, the page size, the
\* number of changes and the number of jobs that overlap.
THEOREM SyncInvariant == Spec => []SyncInv
BY InitHolds, NextKeeps, PTL DEF Spec

\* Type correctness of the remote users, the mirror, the accounts and the jobs.
THEOREM SyncTypes == Spec => []TypeOK
<1>1. SyncInv => TypeOK
  BY DEF SyncInv
<1> QED
  BY <1>1, SyncInvariant, PTL

\* However reconcile, single-user sync, webhook, deletion and traffic reports overlap, a
\* blocked account that is not raced has no peer row a sync would install.
THEOREM BlockedAreRemoved == Spec => []BlockedRowsRemoved
<1>1. SyncInv => BlockedRowsRemoved
  BY DEF SyncInv
<1> QED
  BY <1>1, SyncInvariant, PTL

\* Under the same proviso an account that is not blocked has the row of its device.
THEOREM ActiveAreProvisioned == Spec => []ActiveIsProvisioned
<1>1. SyncInv => ActiveIsProvisioned
  BY DEF SyncInv
<1> QED
  BY <1>1, SyncInvariant, PTL

\* An account over its combined limit is blocked, whichever of the report, the profile
\* change and the lifecycle transition came last, unless the upsert judged the limit on
\* traffic of before a report.
THEOREM LimitedAreBlocked == Spec => []LimitedIsBlocked
<1>1. SyncInv => LimitedIsBlocked
  BY DEF SyncInv
<1> QED
  BY <1>1, SyncInvariant, PTL

\* A node is added before any peer row exists.
LEMMA NodeIsNew ==
    ASSUME SyncInv, AddNode
    PROVE  \A u \in Users : peer[u] = "none"
<1>1. ~node
  BY DEF AddNode, SyncInv, TypeOK
<1> QED
  BY <1>1 DEF SyncInv, RowsFit

\* No step gives the peer of a deleted device back.
LEMMA TombstoneStays ==
    ASSUME SyncInv, [Next]_vars, NEW u \in Users, device[u] = "deleted", peer[u] \in Tombstoned
    PROVE  peer'[u] \notin Live
<1>0. peer[u] \notin Live /\ peer[u] # "none" /\ peer[u] # "active"
  BY DEF Live, Tombstoned
<1>1. ASSUME NEW j \in Workers, WriteRows(j)
      PROVE  peer'[u] \notin Live
  BY <1>0, <1>1, WriteRowsEffect, WrittenAccount
<1>2. ASSUME NEW p \in Passes, Complete(p)
      PROVE  peer'[u] \notin Live
  BY <1>0, <1>2 DEF Complete, Live
<1>3. ASSUME NEW v \in Users,
             CreateDevice(v) \/ DeleteDevice(v) \/ ReportTraffic(v) \/ MarkDeleted(v)
      PROVE  peer'[u] \notin Live
  BY <1>0, <1>3 DEF CreateDevice, DeleteDevice, ReportTraffic, MarkDeleted, SyncInv, TypeOK, Live
<1>4. CASE SyncNode
  BY <1>0, <1>4 DEF SyncNode, Live, Tombstoned
<1>5. CASE AddNode
  BY <1>0, <1>5, NodeIsNew
<1>6. CASE UNCHANGED peer
  BY <1>0, <1>6
<1>7. \/ UNCHANGED peer \/ SyncNode \/ AddNode
      \/ \E j \in Workers : WriteRows(j)
      \/ \E p \in Passes : Complete(p)
      \/ \E v \in Users : CreateDevice(v) \/ DeleteDevice(v) \/ ReportTraffic(v) \/ MarkDeleted(v)
  BY DEF Next, Pass, Job, UpdateSettings, SelectForNode, PollReconcile, TriggerReconcile,
     FetchPage, LoadUnseen, RemoteChange, RemoteCreate, RemoteDelete, TriggerUserSync, FetchUser,
     DisableUser, LoadRows, JobConflicts, JobFails, vars, panelVars
<1> QED
  BY <1>1, <1>2, <1>3, <1>4, <1>5, <1>6, <1>7

\* Deleting a device is durable: no recovery, retry or late upsert, and no node that is
\* added, gives its peer back once the row carries the tombstone.
THEOREM DeletionIsDurable == Spec => NoResurrection
<1>1. ASSUME SyncInv, [Next]_vars
      PROVE  [\A u \in Users : device[u] = "deleted" /\ peer[u] \in Tombstoned
                                 => peer'[u] \notin Live]_vars
  BY <1>1, TombstoneStays
<1> QED
  BY <1>1, SyncInvariant, PTL DEF Spec, NoResurrection

\* A pass during which no remote user was deleted marks no user stale that Remnawave
\* still has, but for those created during the pass: the pages leave no gap.
THEOREM PassesMissNobody == Spec => StaleOnlyIfShifted
<1>1. ASSUME SyncInv
      PROVE  [\A p \in Passes : \A u \in DOMAIN job[p].loaded :
                 Complete(p) /\ remote[u] # None => job[p].shifted \/ u \in job[p].born]_vars
  <2>1. ASSUME NEW p \in Passes, NEW u \in DOMAIN job[p].loaded, Complete(p), remote[u] # None
        PROVE  job[p].shifted \/ u \in job[p].born
    <3>1. u \in Users
      BY <1>1, JobTypes DEF SyncInv, Workers
    <3> QED
      BY <1>1, <2>1, <3>1 DEF SyncInv, PassCovers, Covered, Complete, Listed
  <2> QED
    BY <2>1
<1> QED
  BY <1>1, SyncInvariant, PTL DEF StaleOnlyIfShifted
=============================================================================
