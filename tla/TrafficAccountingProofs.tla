---------------------- MODULE TrafficAccountingProofs ----------------------
(***************************************************************************)
(* Proofs about TrafficAccounting, for any accounts, nodes, peers,         *)
(* channels and bounds: the books balance and agree, nobody is charged     *)
(* twice, the limit is enforced unless a request was overlapped, and       *)
(* reports wait in a circle only over an owner found late.  TrafficInv is  *)
(* the inductive invariant; the commit of a report (WriteReportStep) is    *)
(* where its parts meet.                                                   *)
(***************************************************************************)
EXTENDS TrafficAccounting, CountingTheorems

-----------------------------------------------------------------------------
(* Constants, keys and frames.                                             *)

\* The constants, as the proofs use them.
LEMMA Constants ==
    /\ IsFiniteSet(Users) /\ IsFiniteSet(Nodes) /\ IsFiniteSet(Peers)
    /\ \A u \in Users : u \in Nat
    /\ \A p \in Peers : UserOf[p] \in Users /\ NodeOf[p] \in Nodes
    /\ \A c \in Channels : Source[c] \in Nodes
    /\ MaxDay \in Nat /\ Limit \in Nat /\ Limits \subseteq Nat /\ Unset \notin Nat
    /\ 0 \in Days /\ \A d : d \in Days <=> d \in Nat /\ d <= MaxDay
<1>1. IsFiniteSet(Users) /\ IsFiniteSet(Nodes) /\ IsFiniteSet(Peers)
  BY TrafficAssumption, FS_Subset
<1> QED
  BY <1>1, TrafficAssumption DEF Days

\* The keys of the aggregate rows.
LEMMA KeyTypes ==
    /\ \A u \in Users, n \in Nodes \cup {All}, d \in Days \cup {Ever} : <<u, n, d>> \in Keys
    /\ \A k \in Keys : /\ k = <<k[1], k[2], k[3]>> /\ k[1] \in Users
                       /\ k[2] \in Nodes \cup {All} /\ k[3] \in Days \cup {Ever}
  BY DEF Keys

\* The four rows that a peer's bytes are added to belong to its owner.
LEMMA KeysOfPeer ==
    ASSUME NEW p \in Peers, NEW d \in Days
    PROVE  /\ \A k \in KeysOf(p, d) :
                 k \in Keys /\ k[1] = UserOf[p] /\ k[2] \in {NodeOf[p], All}
           /\ \A u, n, e : <<u, n, e>> \in KeysOf(p, d) <=>
                 u = UserOf[p] /\ n \in {NodeOf[p], All} /\ e \in {d, Ever}
  BY Constants DEF KeysOf, Keys

\* A report, a reset and a request that are not under way have their types.
LEMMA IdleTypes ==
    Idle \in ReportRecord /\ NoReset \in ResetRecord /\ NoEdit \in EditRecord
  BY DEF Idle, NoReset, NoEdit, ReportRecord, ResetRecord, EditRecord, Statuses, Counters

\* The properties of the books speak of these variables only.
LEMMA BooksStay ==
    ASSUME LifetimeIsLedger, ViewsAgree, NoOvercharge,
           UNCHANGED <<nodes, ledger, floor, agg, resetDay, raced, overtaken, settled>>
    PROVE  (LifetimeIsLedger /\ ViewsAgree /\ NoOvercharge)'
<1>1. \A u, n : Since(u, n)' = Since(u, n)
  BY DEF Since
<1>2. \A p : Charged(p)' = Charged(p)
  BY DEF Charged
<1>3. \A u, n : ByNode(u)' = ByNode(u) /\ ByDay(u, n)' = ByDay(u, n) /\ Lost(u)' = Lost(u)
  BY <1>1 DEF ByNode, ByDay, Lost
<1>4. LifetimeIsLedger'
  BY <1>1 DEF LifetimeIsLedger
<1>5. ViewsAgree'
  BY <1>3 DEF ViewsAgree
<1>6. NoOvercharge'
  BY <1>2 DEF NoOvercharge
<1> QED
  BY <1>4, <1>5, <1>6

\* A step of one report that changes nothing else: the report keeps its dump or ends.
LEMMA ReportSteps ==
    ASSUME TrafficInv, NEW c \in Channels,
           UNCHANGED <<rows, nodeVars, bookVars, userVars, resetVars, today>>,
           report' \in [Channels -> ReportRecord],
           \A d \in Channels : d # c => report'[d] = report[d],
           \/ /\ report[c].phase # "idle" /\ report'[c].phase # "idle"
              /\ report'[c].counts = report[c].counts
              /\ report'[c].carried = report[c].carried
              /\ report'[c].stamp = report[c].stamp
           \/ report'[c] = Idle
    PROVE  /\ (EditFits /\ ResetFits /\ TimesFit /\ DumpsFit /\ Settles)'
           /\ (LifetimeIsLedger /\ ViewsAgree /\ NoOvercharge /\ LimitIsEnforced)'
<1>1. UNCHANGED <<nodes, rows, counter, carried, dumps, raw, newest, settled, overtaken,
                  ledger, samples, agg, status, limit, edit, lapsed, clock, reset,
                  resetDay, floor, raced, requests, today>>
  BY DEF nodeVars, bookVars, userVars, resetVars
<1>2. (LifetimeIsLedger /\ ViewsAgree /\ NoOvercharge /\ LimitIsEnforced)'
  BY <1>1, BooksStay DEF TrafficInv, LimitIsEnforced
<1>3. EditFits' /\ ResetFits'
  BY <1>1 DEF TrafficInv, EditFits, ResetFits
<1>4. TimesFit'
  BY <1>1 DEF TrafficInv, TimesFit
<1>5. \A d \in Channels :
        /\ Dumped(d)' \subseteq Dumped(d)
        /\ report'[d].phase # "idle" => /\ report[d].phase # "idle"
                                       /\ report'[d].stamp = report[d].stamp
        /\ \A p \in Dumped(d)' : /\ report'[d].phase # "idle"
                                  /\ report'[d].counts = report[d].counts
                                  /\ report'[d].carried = report[d].carried
                                  /\ report'[d].stamp = report[d].stamp
  <2> TAKE d \in Channels
  <2>1. CASE report'[d].counts = report[d].counts
    <3> QED
      BY DEF Idle, Dumped, TrafficInv, DumpsFit
  <2>2. CASE report'[d] = Idle
    <3>1. Dumped(d)' = {}
      BY <2>2 DEF Dumped, Idle
    <3> QED
      BY <2>2, <3>1 DEF Idle
  <2> QED
    BY <2>1, <2>2
<1>6. DumpsFit'
  BY <1>1, <1>5 DEF TrafficInv, DumpsFit
<1>7. Settles'
  BY <1>1, <1>5 DEF TrafficInv, Settles
<1> QED
  BY <1>2, <1>3, <1>4, <1>6, <1>7

-----------------------------------------------------------------------------
(* The steps of a report up to its commit.                                 *)

\* The row that a report locks next is the first of its batch.
LEMMA NextOwnerIsFirst ==
    ASSUME TypeOK, NEW c \in Channels, report[c].batch # {}
    PROVE  /\ NextOwner(c) \in report[c].batch
           /\ \A v \in report[c].batch : NextOwner(c) <= v
<1>1. report[c].batch \in SUBSET Nat
  BY Constants DEF TypeOK, ReportRecord
<1>2. \E u \in report[c].batch : \A v \in report[c].batch : u <= v
  BY <1>1, Least
<1> QED
  BY <1>2, Zenon DEF NextOwner

\* TypeOK with a new report.
LEMMA ReportTyped ==
    ASSUME TypeOK, UNCHANGED <<rows, nodeVars, bookVars, userVars, resetVars, today>>,
           report' \in [Channels -> ReportRecord],
           \A c \in Channels : report'[c].phase \in {"idle", "sent"} => report'[c].held = {}
    PROVE  TypeOK'
  BY DEF TypeOK, nodeVars, bookVars, userVars, resetVars

\* A report that ends without a commit (LoseReport, AbortReport).
LEMMA EndReport ==
    ASSUME TrafficInv, NEW c \in Channels, report' = [report EXCEPT ![c] = Idle],
           UNCHANGED <<rows, nodeVars, bookVars, userVars, resetVars, today>>
    PROVE  TrafficInv'
<1>1. /\ report' \in [Channels -> ReportRecord] /\ report'[c] = Idle
      /\ \A d \in Channels : d # c => report'[d] = report[d]
  BY IdleTypes DEF TrafficInv, TypeOK
<1>2. UNCHANGED <<nodes, raw, agg>>
  BY DEF nodeVars, bookVars
<1>3. /\ Idle.phase = "idle" /\ Idle.held = {} /\ Idle.batch = {} /\ Idle.round = 0
  BY DEF Idle
<1>4. TypeOK'
  BY <1>1, <1>3, ReportTyped DEF TrafficInv, TypeOK
<1>5. PhasesFit' /\ LocksExclude' /\ LocksOrdered'
  BY <1>3 DEF TrafficInv, PhasesFit, LocksExclude, LocksOrdered
<1>6. ReadsFresh'
  BY <1>2, <1>3 DEF TrafficInv, ReadsFresh
<1> QED
  BY <1>1, <1>4, <1>5, <1>6, ReportSteps DEF TrafficInv

\* A round of owners that are not locked yet keeps the locks in order.
LEMMA NextBatchStep ==
    ASSUME TrafficInv, NEW c \in Channels, NextBatch(c)
    PROVE  TrafficInv'
<1> DEFINE found == OwnersOn(Source[c]) \ report[c].held
<1>0. rows \in SUBSET Peers /\ report \in [Channels -> ReportRecord]
  BY DEF TrafficInv, TypeOK
<1>1. /\ report[c] \in ReportRecord /\ found \in SUBSET Users
      /\ report[c].phase \in {"sent", "locking"} /\ report[c].batch = {}
      /\ report[c].round \in Nat
  <2>1. \A u \in OwnersOn(Source[c]) : u \in Users
    BY <1>0, Constants DEF OwnersOn
  <2>2. report[c] \in ReportRecord
    BY <1>0
  <2> QED
    BY <2>1, <2>2 DEF NextBatch, ReportRecord
<1>2. /\ report' \in [Channels -> ReportRecord]
      /\ \A d \in Channels : d # c => report'[d] = report[d]
      /\ report'[c].phase = "locking" /\ report'[c].batch = found
      /\ report'[c].held = report[c].held /\ report'[c].round = report[c].round + 1
      /\ report'[c].first = IF report[c].round = 0 THEN found ELSE report[c].first
      /\ report'[c].counts = report[c].counts /\ report'[c].carried = report[c].carried
      /\ report'[c].stamp = report[c].stamp
  <2> DEFINE first == IF report[c].round = 0 THEN found ELSE report[c].first
  <2>1. /\ report' = [report EXCEPT ![c].phase = "locking", ![c].batch = found,
                        ![c].first = first, ![c].round = @ + 1]
    BY DEF NextBatch
  <2> HIDE DEF found, first
  <2>3. /\ report' \in [Channels -> ReportRecord]
        /\ \A d \in Channels : d # c => report'[d] = report[d]
    BY <1>0, <2>1 DEF ReportRecord
  <2>4. /\ report'[c].phase = "locking" /\ report'[c].batch = found
        /\ report'[c].held = report[c].held /\ report'[c].round = report[c].round + 1
        /\ report'[c].first = first
        /\ report'[c].counts = report[c].counts /\ report'[c].carried = report[c].carried
        /\ report'[c].stamp = report[c].stamp
    BY <1>0, <1>1, <2>1 DEF ReportRecord
  <2> QED
    BY <2>3, <2>4 DEF first
<1>3. UNCHANGED <<rows, nodeVars, bookVars, userVars, resetVars, today>>
  BY DEF NextBatch
<1>4. UNCHANGED <<nodes, raw, agg>>
  BY <1>3 DEF nodeVars, bookVars
<1>5. TypeOK'
  BY <1>2, <1>3, ReportTyped DEF TrafficInv, TypeOK
<1>6. PhasesFit' /\ LocksExclude'
  <2> HIDE DEF found
  <2>1. PhasesFit'
    BY <1>1, <1>2 DEF TrafficInv, PhasesFit
  <2>2. LocksExclude'
    BY <1>2 DEF TrafficInv, LocksExclude
  <2> QED
    BY <2>1, <2>2
<1>7. LocksOrdered'
  <2>1. report[c].round = 0 => report[c].held = {}
    BY <1>1 DEF TrafficInv, PhasesFit
  <2>2. report[c].round # 0 => report[c].first \subseteq report[c].held
    BY <1>1 DEF TrafficInv, LocksOrdered, PhasesFit
  <2> QED
    BY <1>2, <2>1, <2>2 DEF TrafficInv, LocksOrdered
<1>8. ReadsFresh'
  BY <1>2, <1>4 DEF TrafficInv, ReadsFresh
<1> QED
  BY <1>1, <1>2, <1>3, <1>5, <1>6, <1>7, <1>8, ReportSteps DEF TrafficInv

\* Locking the first free owner of the batch keeps the locks exclusive and in order.
LEMMA LockOwnerStep ==
    ASSUME TrafficInv, NEW c \in Channels, LockOwner(c)
    PROVE  TrafficInv'
<1> DEFINE o == NextOwner(c)
<1>1. /\ report[c] \in ReportRecord /\ report[c].phase = "locking"
      /\ o \in report[c].batch /\ \A v \in report[c].batch : o <= v
      /\ Holder(o) = {}
  BY NextOwnerIsFirst DEF TrafficInv, TypeOK, LockOwner
<1> HIDE DEF o
<1>2. /\ report' \in [Channels -> ReportRecord]
      /\ \A d \in Channels : d # c => report'[d] = report[d]
      /\ report'[c].phase = "locking" /\ report'[c].batch = report[c].batch \ {o}
      /\ report'[c].held = report[c].held \cup {o}
      /\ report'[c].round = report[c].round /\ report'[c].first = report[c].first
      /\ report'[c].counts = report[c].counts /\ report'[c].carried = report[c].carried
      /\ report'[c].stamp = report[c].stamp
  BY <1>1 DEF TrafficInv, TypeOK, LockOwner, ReportRecord, o
<1>3. UNCHANGED <<rows, nodeVars, bookVars, userVars, resetVars, today>>
  BY DEF LockOwner
<1>4. UNCHANGED <<nodes, raw, agg>>
  BY <1>3 DEF nodeVars, bookVars
<1>5. TypeOK'
  BY <1>2, <1>3, ReportTyped DEF TrafficInv, TypeOK
<1>6. PhasesFit'
  BY <1>1, <1>2 DEF TrafficInv, PhasesFit
<1>7. LocksExclude'
  BY <1>1, <1>2 DEF TrafficInv, LocksExclude, Holder
<1>8. LocksOrdered'
  <2>1. \A u \in report[c].held \cup report[c].batch : u \in Nat
    BY <1>1, Constants DEF ReportRecord
  <2> QED
    BY <1>1, <1>2, <2>1 DEF TrafficInv, LocksOrdered
<1>9. ReadsFresh'
  BY <1>2, <1>4 DEF TrafficInv, ReadsFresh
<1> QED
  BY <1>1, <1>2, <1>3, <1>5, <1>6, <1>7, <1>8, <1>9, ReportSteps DEF TrafficInv

\* What a report reads under its locks is fresh.
LEMMA ReadRowsStep ==
    ASSUME TrafficInv, NEW c \in Channels, ReadRows(c)
    PROVE  TrafficInv'
<1>1. report[c] \in ReportRecord /\ report[c].phase \in {"sent", "locking"}
  BY DEF TrafficInv, TypeOK, ReadRows
<1>2. /\ report' \in [Channels -> ReportRecord]
      /\ \A d \in Channels : d # c => report'[d] = report[d]
      /\ report'[c].phase = "writing" /\ report'[c].held = report[c].held
      /\ report'[c].raw = raw /\ report'[c].seen = agg
      /\ report'[c].counts = report[c].counts /\ report'[c].carried = report[c].carried
      /\ report'[c].stamp = report[c].stamp
  BY <1>1 DEF TrafficInv, TypeOK, ReadRows, ReportRecord
<1>3. UNCHANGED <<rows, nodeVars, bookVars, userVars, resetVars, today>>
  BY DEF ReadRows
<1>4. UNCHANGED <<nodes, raw, agg>>
  BY <1>3 DEF nodeVars, bookVars
<1>5. TypeOK'
  BY <1>2, <1>3, ReportTyped DEF TrafficInv, TypeOK
<1>6. PhasesFit' /\ LocksExclude' /\ LocksOrdered'
  BY <1>2 DEF TrafficInv, PhasesFit, LocksExclude, LocksOrdered
<1>7. ReadsFresh'
  BY <1>2, <1>4 DEF TrafficInv, ReadsFresh
<1> QED
  BY <1>1, <1>2, <1>3, <1>5, <1>6, <1>7, ReportSteps DEF TrafficInv

\* A new dump has a new number, and its counters are the present ones.
LEMMA TakeDumpStep ==
    ASSUME TrafficInv, NEW c \in Channels, TakeDump(c)
    PROVE  TrafficInv'
<1> DEFINE n == Source[c]
<1>0. /\ report \in [Channels -> ReportRecord] /\ dumps \in [Nodes -> Nat]
      /\ n \in Nodes /\ report[c].phase = "idle" /\ rows \in SUBSET Peers
      /\ counter \in [Peers -> Nat] /\ carried \in [Peers -> Nat]
  BY Constants DEF TrafficInv, TypeOK, TakeDump
<1>1. UNCHANGED <<nodes, rows, counter, carried, raw, newest, settled, overtaken, ledger,
                  samples, agg, status, limit, edit, lapsed, clock, reset, resetDay, floor,
                  raced, requests, today>>
  BY DEF TakeDump, bookVars, userVars, resetVars
<1>2. /\ dumps' \in [Nodes -> Nat] /\ dumps'[n] = dumps[n] + 1
      /\ \A m \in Nodes : m # n => dumps'[m] = dumps[m]
  BY <1>0 DEF TakeDump
<1>3. /\ report'[c].phase = "sent" /\ report'[c].stamp = dumps[n] + 1
      /\ report'[c].carried = carried /\ report'[c].held = {}
      /\ report'[c].batch = {} /\ report'[c].round = 0
      /\ report'[c].counts =
            [p \in Peers |-> IF p \in rows /\ NodeOf[p] = n THEN counter[p] ELSE Unset]
      /\ report' \in [Channels -> ReportRecord]
      /\ \A d \in Channels : d # c => report'[d] = report[d]
  <2> DEFINE counts == [p \in Peers |-> IF p \in rows /\ NodeOf[p] = n THEN counter[p]
                                        ELSE Unset]
             r == [Idle EXCEPT !.phase = "sent", !.stamp = dumps'[n],
                               !.carried = carried, !.counts = counts]
  <2>1. report' = [report EXCEPT ![c] = r]
    BY DEF TakeDump
  <2>2. counts \in Counters
    BY <1>0 DEF Counters
  <2> HIDE DEF counts
  <2>3. /\ r.phase = "sent" /\ r.stamp = dumps'[n] /\ r.carried = carried
        /\ r.counts = counts /\ r.held = {} /\ r.batch = {} /\ r.round = 0
    BY DEF Idle
  <2>4. r \in ReportRecord
    BY <1>0, <1>2, <2>2, IdleTypes DEF ReportRecord
  <2> HIDE DEF r
  <2> QED
    BY <1>0, <1>2, <2>1, <2>3, <2>4 DEF counts
<1>4. TypeOK'
  BY <1>1, <1>2, <1>3 DEF TrafficInv, TypeOK
<1>5. PhasesFit' /\ LocksExclude' /\ LocksOrdered'
  BY <1>3 DEF TrafficInv, PhasesFit, LocksExclude, LocksOrdered
<1>6. ReadsFresh'
  BY <1>1, <1>3 DEF TrafficInv, ReadsFresh
<1>7. EditFits' /\ ResetFits' /\ TimesFit'
  BY <1>1 DEF TrafficInv, EditFits, ResetFits, TimesFit
<1>8. (LifetimeIsLedger /\ ViewsAgree /\ NoOvercharge /\ LimitIsEnforced)'
  BY <1>1, BooksStay DEF TrafficInv, LimitIsEnforced
<1>9. /\ \A d \in Channels : d # c => Dumped(d)' = Dumped(d)
      /\ \A p \in Dumped(c)' : /\ p \in Peers /\ p \in rows /\ NodeOf[p] = n
                               /\ report'[c].counts[p] = counter[p]
  BY <1>3 DEF Dumped
<1>10. DumpsFit'
  <2>1. \A d \in Channels : Source[d] \in Nodes
    BY Constants
  <2>2. \A p \in Peers : NodeOf[p] \in Nodes
    BY Constants
  <2>3. \A d \in Channels : report[d].stamp \in Nat
    BY <1>0 DEF ReportRecord
  <2>4. \A p \in Peers : newest[p] \in Nat
    BY DEF TrafficInv, TypeOK
  <2>5. \A m \in Nodes : dumps[m] \in Nat /\ dumps[m] <= dumps'[m]
    BY <1>0, <1>2
  <2>6. \A d \in Channels : d # c /\ Source[d] = n /\ report[d].phase # "idle" =>
            report[d].stamp < dumps[n] + 1
    BY <2>1, <2>3, <2>5 DEF TrafficInv, DumpsFit
  <2>7. \A p \in Peers : NodeOf[p] = n => newest[p] < dumps[n] + 1
    BY <2>2, <2>4, <2>5 DEF TrafficInv, DumpsFit
  <2>8. \A d \in Channels, p \in Peers : p \in Dumped(d)' =>
          /\ NodeOf[p] = Source[d] /\ report'[d].phase # "idle"
          /\ report'[d].stamp # newest'[p]
    BY <1>1, <1>3, <1>9, <2>4, <2>7 DEF TrafficInv, DumpsFit
  <2>9. \A d \in Channels : report'[d].phase # "idle" =>
            report'[d].stamp <= dumps'[Source[d]]
    BY <1>2, <1>3, <2>1, <2>3, <2>5 DEF TrafficInv, DumpsFit
  <2>10. \A p \in Peers : newest'[p] <= dumps'[NodeOf[p]]
    <3>1. \A p \in Peers : newest[p] <= dumps[NodeOf[p]]
      BY DEF TrafficInv, DumpsFit
    <3>2. \A m \in Nodes : dumps'[m] \in Nat
      BY <1>2
    <3> QED
      BY <1>1, <2>2, <2>4, <2>5, <3>1, <3>2
  <2>11. \A d, e \in Channels :
            /\ d # e /\ Source[d] = Source[e]
            /\ report'[d].phase # "idle" /\ report'[e].phase # "idle"
            => report'[d].stamp # report'[e].stamp
    BY <1>3, <2>3, <2>6 DEF TrafficInv, DumpsFit
  <2>12. \A p \in rows' : NodeOf[p] \in nodes'
    BY <1>1 DEF TrafficInv, DumpsFit
  <2> QED
    BY <2>8, <2>9, <2>10, <2>11, <2>12 DEF DumpsFit
<1>11. Settles'
  <2> SUFFICES ASSUME NEW p \in Peers \ overtaken
               PROVE  /\ settled[p] + CounterDelta(raw[p], counter[p]) <= carried[p]
                      /\ \A d \in Channels : p \in Dumped(d)' =>
                            /\ report'[d].carried[p]
                                 + CounterDelta(report'[d].counts[p], counter[p]) <= carried[p]
                            /\ report'[d].stamp > newest[p] =>
                                 settled[p] + CounterDelta(raw[p], report'[d].counts[p])
                                    <= report'[d].carried[p]
                      /\ \A d, e \in Channels :
                            /\ p \in Dumped(d)' /\ p \in Dumped(e)'
                            /\ report'[d].stamp < report'[e].stamp
                            => report'[d].carried[p]
                                + CounterDelta(report'[d].counts[p], report'[e].counts[p])
                                  <= report'[e].carried[p]
    BY <1>1 DEF Settles
  <2>1. settled[p] + CounterDelta(raw[p], counter[p]) <= carried[p]
    BY DEF TrafficInv, Settles
  <2>2. carried[p] + CounterDelta(counter[p], counter[p]) <= carried[p]
    BY <1>0 DEF CounterDelta
  <2>3. \A d \in Channels : d # c /\ p \in Dumped(d)' =>
            report[d].carried[p] + CounterDelta(report[d].counts[p], counter[p]) <= carried[p]
    BY <1>9 DEF TrafficInv, Settles
  <2>4. \A d \in Channels : d # c /\ p \in Dumped(d)' /\ p \in Dumped(c)' =>
            ~(report'[c].stamp < report[d].stamp)
    <3> SUFFICES ASSUME NEW d \in Channels, d # c, p \in Dumped(d)', p \in Dumped(c)'
                 PROVE  ~(report'[c].stamp < report[d].stamp)
      OBVIOUS
    <3>1. Source[d] = n /\ report[d].phase # "idle"
      BY <1>9 DEF TrafficInv, DumpsFit
    <3>2. report[d].stamp <= dumps[n] /\ report[d].stamp \in Nat /\ dumps[n] \in Nat
      BY <1>0, <3>1 DEF TrafficInv, DumpsFit, ReportRecord
    <3> QED
      BY <1>3, <3>2
  <2>5. ~(report'[c].stamp < report'[c].stamp)
    BY <1>0, <1>3
  <2> QED
    BY <1>3, <1>9, <2>1, <2>2, <2>3, <2>4, <2>5 DEF TrafficInv, Settles
<1> QED
  BY <1>4, <1>5, <1>6, <1>7, <1>8, <1>10, <1>11 DEF TrafficInv

-----------------------------------------------------------------------------
(* The nodes and the calendar.                                             *)

\* A counter that moves by a byte charges at most a byte more; one that starts over
\* charges nothing.
LEMMA CounterMoves ==
    ASSUME NEW x \in Nat \cup {Unset}, NEW y \in Nat
    PROVE  /\ CounterDelta(x, y) \in Nat
           /\ CounterDelta(x, y + 1) <= CounterDelta(x, y) + 1
           /\ CounterDelta(x, 0) = 0
  BY Constants DEF CounterDelta

\* A step of the tunnels.
LEMMA TunnelSteps ==
    ASSUME TrafficInv, counter' \in [Peers -> Nat], carried' \in [Peers -> Nat],
           UNCHANGED <<nodes, rows, report, dumps, bookVars, userVars, resetVars, today>>,
           \A p \in Peers : \/ counter'[p] = counter[p] /\ carried'[p] = carried[p]
                            \/ counter'[p] = counter[p] + 1 /\ carried'[p] = carried[p] + 1
                            \/ counter'[p] = 0 /\ carried'[p] = carried[p]
    PROVE  TrafficInv'
<1>1. UNCHANGED <<nodes, rows, report, dumps, raw, newest, settled, overtaken, ledger,
                  samples, agg, status, limit, edit, lapsed, clock, reset, resetDay, floor,
                  raced, requests, today>>
  BY DEF bookVars, userVars, resetVars
<1>2. TypeOK'
  BY <1>1 DEF TrafficInv, TypeOK
<1>3. PhasesFit' /\ LocksExclude' /\ LocksOrdered'
  BY DEF TrafficInv, PhasesFit, LocksExclude, LocksOrdered
<1>4. ReadsFresh' /\ EditFits' /\ ResetFits' /\ TimesFit'
  BY <1>1 DEF TrafficInv, ReadsFresh, EditFits, ResetFits, TimesFit
<1>5. \A c : Dumped(c)' = Dumped(c)
  BY <1>1 DEF Dumped
<1>6. DumpsFit'
  BY <1>1, <1>5 DEF TrafficInv, DumpsFit
<1>7. (LifetimeIsLedger /\ ViewsAgree /\ NoOvercharge /\ LimitIsEnforced)'
  BY <1>1, BooksStay DEF TrafficInv, LimitIsEnforced
<1>8. ASSUME NEW p \in Peers, NEW x \in Nat \cup {Unset}, NEW s \in Nat,
             s + CounterDelta(x, counter[p]) <= carried[p]
      PROVE  s + CounterDelta(x, counter'[p]) <= carried'[p]
  <2>1. counter[p] \in Nat /\ carried[p] \in Nat
    BY DEF TrafficInv, TypeOK
  <2>2. /\ CounterDelta(x, counter[p]) \in Nat
        /\ CounterDelta(x, counter[p] + 1) \in Nat
        /\ CounterDelta(x, counter[p] + 1) <= CounterDelta(x, counter[p]) + 1
        /\ CounterDelta(x, 0) = 0
    <3>1. counter[p] + 1 \in Nat
      BY <2>1
    <3> QED
      BY <2>1, <3>1, CounterMoves
  <2>3. CASE counter'[p] = counter[p] /\ carried'[p] = carried[p]
    BY <1>8, <2>3
  <2>4. CASE counter'[p] = counter[p] + 1 /\ carried'[p] = carried[p] + 1
    BY <1>8, <2>1, <2>2, <2>4
  <2>5. CASE counter'[p] = 0 /\ carried'[p] = carried[p]
    BY <1>8, <2>1, <2>2, <2>5
  <2> QED
    BY <2>3, <2>4, <2>5
<1>9. Settles'
  <2>1. \A p \in Peers : raw[p] \in Nat \cup {Unset} /\ settled[p] \in Nat
    BY DEF TrafficInv, TypeOK, Counters
  <2>2. \A p \in Peers, c \in Channels : /\ report[c].counts[p] \in Nat \cup {Unset}
                                         /\ report[c].carried[p] \in Nat
    BY DEF TrafficInv, TypeOK, ReportRecord, Counters
  <2> QED
    BY <1>1, <1>5, <1>8, <2>1, <2>2 DEF TrafficInv, Settles
<1> QED
  BY <1>2, <1>3, <1>4, <1>6, <1>7, <1>9 DEF TrafficInv

\* A byte moves the counter and what the tunnel carried alike.
LEMMA CarryStep ==
    ASSUME TrafficInv, NEW p \in Peers, Carry(p)
    PROVE  TrafficInv'
<1>1. counter \in [Peers -> Nat] /\ carried \in [Peers -> Nat]
  BY DEF TrafficInv, TypeOK
<1>2. counter' \in [Peers -> Nat] /\ carried' \in [Peers -> Nat]
  BY <1>1 DEF Carry
<1>3. \A q \in Peers : \/ counter'[q] = counter[q] /\ carried'[q] = carried[q]
                       \/ counter'[q] = counter[q] + 1 /\ carried'[q] = carried[q] + 1
  BY <1>1 DEF Carry
<1>4. UNCHANGED <<nodes, rows, report, dumps, bookVars, userVars, resetVars, today>>
  BY DEF Carry
<1> QED
  BY <1>2, <1>3, <1>4, TunnelSteps

\* A restarted counter charges nothing.
LEMMA RestartTunnelStep ==
    ASSUME TrafficInv, NEW n \in Nodes, RestartTunnel(n)
    PROVE  TrafficInv'
<1>1. counter \in [Peers -> Nat] /\ carried \in [Peers -> Nat]
  BY DEF TrafficInv, TypeOK
<1>2. /\ counter' \in [Peers -> Nat] /\ carried' = carried
      /\ \A q \in Peers : counter'[q] = counter[q] \/ counter'[q] = 0
  BY <1>1 DEF RestartTunnel
<1>3. UNCHANGED <<nodes, rows, report, dumps, bookVars, userVars, resetVars, today>>
  BY DEF RestartTunnel
<1> QED
  BY <1>1, <1>2, <1>3, TunnelSteps

\* A new peer row is in no dump yet.
LEMMA CreatePeerStep ==
    ASSUME TrafficInv, NEW p \in Peers, CreatePeer(p)
    PROVE  TrafficInv'
<1>1. UNCHANGED <<nodes, report, counter, carried, dumps, raw, newest, settled, overtaken,
                  ledger, samples, agg, status, limit, edit, lapsed, clock, reset,
                  resetDay, floor, raced, requests, today>>
  BY DEF CreatePeer, nodeVars, bookVars, userVars, resetVars
<1>2. TypeOK'
  BY <1>1 DEF TrafficInv, TypeOK, CreatePeer
<1>3. PhasesFit' /\ LocksExclude' /\ LocksOrdered'
  BY <1>1 DEF TrafficInv, PhasesFit, LocksExclude, LocksOrdered
<1>4. ReadsFresh' /\ EditFits' /\ ResetFits' /\ TimesFit'
  BY <1>1 DEF TrafficInv, ReadsFresh, EditFits, ResetFits, TimesFit
<1>5. \A c : Dumped(c)' = Dumped(c)
  BY <1>1 DEF Dumped
<1>6. DumpsFit'
  BY <1>1, <1>5 DEF TrafficInv, DumpsFit, CreatePeer
<1>7. Settles'
  BY <1>1, <1>5 DEF TrafficInv, Settles
<1>8. (LifetimeIsLedger /\ ViewsAgree /\ NoOvercharge /\ LimitIsEnforced)'
  BY <1>1, BooksStay DEF TrafficInv, LimitIsEnforced
<1> QED
  BY <1>2, <1>3, <1>4, <1>6, <1>7, <1>8 DEF TrafficInv

\* Steps that leave the tunnels, the reports, the aggregates and the ledger alone: of a
\* reset before it commits, of the other requests, of the calendar, of the retention job.
LEMMA QuietSteps ==
    ASSUME TrafficInv, TypeOK', EditFits', ResetFits', TimesFit', LimitIsEnforced',
           UNCHANGED <<rows, nodeVars, report, raw, newest, settled, overtaken, ledger,
                       agg, resetDay, floor, raced>>
    PROVE  TrafficInv'
<1>1. UNCHANGED <<nodes, rows, counter, carried, dumps, report, raw, newest, settled,
                  overtaken, ledger, agg, resetDay, floor, raced>>
  BY DEF nodeVars
<1>2. PhasesFit' /\ LocksExclude' /\ LocksOrdered' /\ ReadsFresh'
  BY <1>1 DEF TrafficInv, PhasesFit, LocksExclude, LocksOrdered, ReadsFresh
<1>3. \A c : Dumped(c)' = Dumped(c)
  BY <1>1 DEF Dumped
<1>4. DumpsFit'
  BY <1>1, <1>3 DEF TrafficInv, DumpsFit
<1>5. Settles'
  BY <1>1, <1>3 DEF TrafficInv, Settles
<1>6. (LifetimeIsLedger /\ ViewsAgree /\ NoOvercharge)'
  BY <1>1, BooksStay DEF TrafficInv
<1> QED
  BY <1>2, <1>4, <1>5, <1>6 DEF TrafficInv

\* A reset that is under way at midnight has deleted the days to come.
LEMMA NextDayStep ==
    ASSUME TrafficInv, NextDay
    PROVE  TrafficInv'
<1>1. /\ UNCHANGED <<rows, nodeVars, report, raw, newest, settled, overtaken, ledger,
                     samples, agg, status, limit, edit, lapsed, clock, reset, resetDay,
                     floor, raced, requests>>
      /\ today' = today + 1 /\ today < MaxDay
  BY DEF NextDay, bookVars, userVars, resetVars
<1>2. today \in Nat /\ MaxDay \in Nat /\ today' \in Days
  BY <1>1, Constants DEF TrafficInv, TypeOK
<1>3. TypeOK'
  BY <1>1, <1>2 DEF TrafficInv, TypeOK, nodeVars
<1>4. \A d \in today'..MaxDay : d \in today..MaxDay
  BY <1>1, <1>2
<1>5. ResetFits' /\ EditFits' /\ LimitIsEnforced'
  BY <1>1, <1>4 DEF TrafficInv, ResetFits, EditFits, LimitIsEnforced
<1>6. TimesFit'
  <2>1. \A u \in Users : resetDay[u] \in Nat
    BY Constants DEF TrafficInv, TypeOK
  <2> QED
    BY <1>1, <1>2, <2>1 DEF TrafficInv, TimesFit
<1> QED
  BY <1>1, <1>3, <1>5, <1>6, QuietSteps

\* The retention job deletes samples only.
LEMMA CleanupStep ==
    ASSUME TrafficInv, CleanupRawSamples
    PROVE  TrafficInv'
<1>1. /\ UNCHANGED <<rows, nodeVars, report, raw, newest, settled, overtaken, ledger, agg,
                     status, limit, edit, lapsed, clock, resetVars, today>>
      /\ samples' \subseteq samples
  BY DEF CleanupRawSamples, userVars
<1>2. UNCHANGED <<reset, resetDay, floor, raced, requests>>
  BY <1>1 DEF resetVars
<1>3. TypeOK'
  BY <1>1, <1>2 DEF TrafficInv, TypeOK, nodeVars
<1>4. EditFits' /\ ResetFits' /\ TimesFit' /\ LimitIsEnforced'
  BY <1>1, <1>2 DEF TrafficInv, EditFits, ResetFits, TimesFit, LimitIsEnforced
<1> QED
  BY <1>1, <1>2, <1>3, <1>4, QuietSteps

-----------------------------------------------------------------------------
(* The reset.                                                              *)

\* A reset begins with nothing deleted.
LEMMA BeginResetStep ==
    ASSUME TrafficInv, NEW u \in Users, BeginReset(u)
    PROVE  TrafficInv'
<1>1. UNCHANGED <<rows, nodeVars, report, raw, newest, settled, overtaken, ledger, samples,
                  agg, status, limit, edit, lapsed, clock, resetDay, floor, raced, today>>
  BY DEF BeginReset, bookVars, userVars
<1>2. /\ reset' \in [Users -> ResetRecord]
      /\ \A v \in Users : v # u => reset'[v] = reset[v]
      /\ reset'[u].step = 1 /\ reset'[u].gone = {}
      /\ requests' \in [Users -> Nat]
  <2> DEFINE r == [step |-> 1, gone |-> {}, loaded |-> status[u], raced |-> FALSE]
  <2>1. /\ reset' = [reset EXCEPT ![u] = r] /\ requests' = [requests EXCEPT ![u] = @ + 1]
        /\ reset \in [Users -> ResetRecord] /\ requests \in [Users -> Nat]
        /\ status[u] \in Statuses
    BY DEF TrafficInv, TypeOK, BeginReset
  <2>2. r.step = 1 /\ r.gone = {}
    OBVIOUS
  <2>3. r \in ResetRecord
    BY <2>1 DEF ResetRecord
  <2> HIDE DEF r
  <2> QED
    BY <2>1, <2>2, <2>3
<1>3. TypeOK'
  BY <1>1, <1>2 DEF TrafficInv, TypeOK, nodeVars
<1>4. ResetFits'
  BY <1>1, <1>2 DEF TrafficInv, ResetFits
<1>5. TimesFit' /\ EditFits' /\ LimitIsEnforced'
  BY <1>1 DEF TrafficInv, TimesFit, EditFits, LimitIsEnforced
<1> QED
  BY <1>1, <1>3, <1>4, <1>5, QuietSteps

\* A reset that is rolled back has deleted nothing.
LEMMA AbortResetStep ==
    ASSUME TrafficInv, NEW u \in Users, AbortReset(u)
    PROVE  TrafficInv'
<1>1. UNCHANGED <<rows, nodeVars, report, raw, newest, settled, overtaken, ledger, samples,
                  agg, status, limit, edit, lapsed, clock, resetDay, floor, raced,
                  requests, today>>
  BY DEF AbortReset, bookVars, userVars
<1>2. /\ reset' \in [Users -> ResetRecord]
      /\ \A v \in Users : v # u => reset'[v] = reset[v]
      /\ reset'[u].step = 0 /\ reset'[u].gone = {}
  BY IdleTypes DEF TrafficInv, TypeOK, AbortReset, NoReset
<1>3. TypeOK'
  BY <1>1, <1>2 DEF TrafficInv, TypeOK, nodeVars
<1>4. ResetFits'
  BY <1>1, <1>2 DEF TrafficInv, ResetFits
<1>5. TimesFit' /\ EditFits' /\ LimitIsEnforced'
  BY <1>1 DEF TrafficInv, TimesFit, EditFits, LimitIsEnforced
<1> QED
  BY <1>1, <1>3, <1>4, <1>5, QuietSteps

\* A statement of the reset deletes every row it names.
LEMMA DeleteRowsStep ==
    ASSUME TrafficInv, NEW u \in Users, DeleteRows(u)
    PROVE  TrafficInv'
<1> DEFINE stmt == Statement(u, reset[u].step)
           del == {k \in stmt : agg[k] > 0}
<1>1. UNCHANGED <<rows, nodeVars, report, raw, newest, settled, overtaken, ledger, samples,
                  agg, status, limit, edit, lapsed, clock, resetDay, floor, raced,
                  requests, today>>
  BY DEF DeleteRows, bookVars, userVars
<1>2. /\ reset \in [Users -> ResetRecord] /\ reset[u].step \in 1..2 /\ today \in Days
      /\ agg \in [Keys -> Nat]
  BY DEF TrafficInv, TypeOK, DeleteRows
<1>3. /\ \A k \in stmt : k \in Keys /\ k[1] = u
      /\ \A n \in Nodes \cup {All} :
            \A d \in (IF reset[u].step = 1 THEN {Ever} ELSE today..MaxDay) :
               <<u, n, d>> \in stmt
  BY <1>2, Constants DEF Statement, Keys
<1> HIDE DEF stmt
<1>4. \A k : k \in del => k \in Keys /\ k[1] = u
  BY <1>3
<1>5. reset' = [reset EXCEPT ![u].step = @ + 1, ![u].gone = @ \cup del]
  BY DEF DeleteRows, stmt
<1>6. \A k \in stmt : k \notin del => agg[k] = 0
  BY <1>2, <1>3
<1> HIDE DEF del
<1>7. /\ reset' \in [Users -> ResetRecord]
      /\ \A v \in Users : v # u => reset'[v] = reset[v]
      /\ reset'[u].step = reset[u].step + 1 /\ reset'[u].gone = reset[u].gone \cup del
      /\ reset'[u].raced = reset[u].raced
  <2>1. /\ reset[u] \in ResetRecord /\ reset[u].step + 1 \in 0..3
        /\ reset[u].gone \cup del \in SUBSET Keys
    BY <1>2, <1>4 DEF ResetRecord
  <2>2. /\ \A v \in Users : v # u => reset'[v] = reset[v]
        /\ reset'[u].step = reset[u].step + 1 /\ reset'[u].gone = reset[u].gone \cup del
        /\ reset'[u].raced = reset[u].raced
    BY <1>2, <1>5, <2>1 DEF ResetRecord
  <2>3. reset' \in [Users -> ResetRecord]
    BY <1>2, <1>5, <2>1 DEF ResetRecord
  <2> QED
    BY <2>2, <2>3
<1>8. TypeOK'
  BY <1>1, <1>7 DEF TrafficInv, TypeOK, nodeVars
<1>9. ResetFits'
  <2>1. \A k \in reset'[u].gone : k[1] = u
    BY <1>4, <1>7 DEF TrafficInv, ResetFits
  <2>2. ASSUME NEW n \in Nodes \cup {All}, reset'[u].step > 1, ~reset'[u].raced
        PROVE  <<u, n, Ever>> \in reset'[u].gone \/ agg'[<<u, n, Ever>>] = 0
    <3>1. CASE reset[u].step = 1
      BY <1>1, <1>3, <1>6, <1>7, <3>1
    <3>2. CASE reset[u].step = 2
      BY <1>1, <1>7, <2>2, <3>2 DEF TrafficInv, ResetFits
    <3> QED
      BY <1>2, <3>1, <3>2
  <2>3. ASSUME NEW n \in Nodes \cup {All}, NEW d \in today..MaxDay, reset'[u].step > 2
        PROVE  <<u, n, d>> \in reset'[u].gone \/ agg'[<<u, n, d>>] = 0
    <3>1. reset[u].step # 1
      BY <1>2, <1>7, <2>3
    <3> QED
      BY <1>1, <1>3, <1>6, <1>7, <3>1
  <2> QED
    BY <1>1, <1>7, <2>1, <2>2, <2>3 DEF TrafficInv, ResetFits
<1>10. TimesFit' /\ EditFits' /\ LimitIsEnforced'
  BY <1>1 DEF TrafficInv, TimesFit, EditFits, LimitIsEnforced
<1> QED
  BY <1>1, <1>8, <1>9, <1>10, QuietSteps

\* No rows, no bytes.
LEMMA BytesOfNone == Bytes({}) = 0
<1>1. [r \in {} |-> r.bytes] \in [{} -> Nat]
  OBVIOUS
<1> QED
  BY <1>1, TotalZero DEF Bytes

\* A reset that no report overlapped leaves no total, so the ledger is counted from now.
LEMMA CommitResetStep ==
    ASSUME TrafficInv, NEW u \in Users, CommitReset(u)
    PROVE  TrafficInv'
<1>0. /\ reset \in [Users -> ResetRecord] /\ reset[u].step = 3 /\ agg \in [Keys -> Nat]
      /\ status \in [Users -> Statuses] /\ lapsed \in [Users -> BOOLEAN]
      /\ edit \in [Users -> EditRecord] /\ raced \in [Users -> BOOLEAN] /\ today \in Days
      /\ resetDay \in [Users -> Days] /\ floor \in [Users -> Nat] /\ clock \in Nat
      /\ Holder(u) = {}
  BY DEF TrafficInv, TypeOK, CommitReset
<1>1. UNCHANGED <<nodes, rows, counter, carried, dumps, report, raw, newest, settled,
                  overtaken, ledger, samples, clock, limit, requests, today>>
  BY DEF CommitReset, nodeVars
<1>2. /\ agg' \in [Keys -> Nat]
      /\ \A k \in Keys : k \in reset[u].gone => agg'[k] = 0
      /\ \A k \in Keys : k \notin reset[u].gone => agg'[k] = agg[k]
      /\ \A k \in Keys : k[1] # u => agg'[k] = agg[k]
  BY <1>0 DEF CommitReset, TrafficInv, ResetFits
<1>3. /\ reset' \in [Users -> ResetRecord] /\ reset'[u].step = 0 /\ reset'[u].gone = {}
      /\ \A v \in Users : v # u => reset'[v] = reset[v]
  BY <1>0, IdleTypes DEF CommitReset, NoReset
<1>4. /\ raced' \in [Users -> BOOLEAN] /\ raced'[u] = reset[u].raced
      /\ \A v \in Users : v # u => raced'[v] = raced[v]
  <2>1. reset[u].raced \in BOOLEAN
    BY <1>0 DEF ResetRecord
  <2> QED
    BY <1>0, <2>1, Zenon DEF CommitReset
<1>5. /\ status' \in [Users -> Statuses] /\ lapsed' \in [Users -> BOOLEAN]
      /\ edit' \in [Users -> EditRecord] /\ lapsed'[u] = reset[u].raced
      /\ edit'[u].kind # "none" => edit'[u].stale
      /\ edit'[u].kind = edit[u].kind /\ edit'[u].dirty = edit[u].dirty
      /\ edit'[u].limit = edit[u].limit
      /\ \A v \in Users : v # u => /\ status'[v] = status[v] /\ lapsed'[v] = lapsed[v]
                                  /\ edit'[v] = edit[v]
  <2> DEFINE b == edit[u].kind # "none"
             s == IF Enforced(reset[u].loaded, 0, limit[u]) = reset[u].loaded
                  THEN status[u] ELSE Enforced(reset[u].loaded, 0, limit[u])
  <2>1. reset[u].raced \in BOOLEAN /\ edit[u] \in EditRecord
    BY <1>0 DEF ResetRecord
  <2>2. b \in BOOLEAN /\ (edit[u].kind # "none" => b)
    OBVIOUS
  <2>3. s \in Statuses
    BY <1>0 DEF Enforced, Statuses
  <2>4. /\ status' = [status EXCEPT ![u] = s] /\ lapsed' = [lapsed EXCEPT ![u] = reset[u].raced]
        /\ edit' = [edit EXCEPT ![u].stale = b]
    BY DEF CommitReset
  <2> HIDE DEF b, s
  <2>5. /\ status' \in [Users -> Statuses]
        /\ \A v \in Users : v # u => status'[v] = status[v]
    BY <1>0, <2>3, <2>4
  <2>6. /\ lapsed' \in [Users -> BOOLEAN] /\ lapsed'[u] = reset[u].raced
        /\ \A v \in Users : v # u => lapsed'[v] = lapsed[v]
    BY <1>0, <2>1, <2>4, Zenon
  <2>7. /\ edit'[u].kind = edit[u].kind /\ edit'[u].dirty = edit[u].dirty
        /\ edit'[u].limit = edit[u].limit /\ edit'[u].stale = b
        /\ edit' \in [Users -> EditRecord]
        /\ \A v \in Users : v # u => edit'[v] = edit[v]
    BY <1>0, <2>1, <2>2, <2>4 DEF EditRecord
  <2> QED
    BY <2>2, <2>5, <2>6, <2>7
<1>6. /\ resetDay' \in [Users -> Days] /\ resetDay'[u] = today
      /\ floor' \in [Users -> Nat] /\ floor'[u] = clock
      /\ \A v \in Users : v # u => resetDay'[v] = resetDay[v] /\ floor'[v] = floor[v]
  BY <1>0 DEF CommitReset
<1>7. \A v \in Users, n \in Nodes \cup {All}, d \in Days \cup {Ever} :
        <<v, n, d>> \in Keys /\ (v # u => agg'[<<v, n, d>>] = agg[<<v, n, d>>])
  BY <1>2, KeyTypes
<1>8. \A d \in today..MaxDay : d \in Days
  BY <1>0, Constants
<1>9. ~raced'[u] => /\ \A n \in Nodes \cup {All} : agg'[<<u, n, Ever>>] = 0
                    /\ \A n \in Nodes \cup {All}, d \in today..MaxDay : agg'[<<u, n, d>>] = 0
  <2> HAVE ~raced'[u]
  <2>1. ~reset[u].raced /\ reset[u].step > 1 /\ reset[u].step > 2
    BY <1>0, <1>4
  <2>2. \A n \in Nodes \cup {All} : <<u, n, Ever>> \in reset[u].gone \/ agg[<<u, n, Ever>>] = 0
    BY <2>1 DEF TrafficInv, ResetFits
  <2>3. \A n \in Nodes \cup {All}, d \in today..MaxDay :
           <<u, n, d>> \in reset[u].gone \/ agg[<<u, n, d>>] = 0
    BY <2>1 DEF TrafficInv, ResetFits
  <2>4. \A k \in Keys : k \in reset[u].gone \/ agg[k] = 0 => agg'[k] = 0
    BY <1>2
  <2>5. \A n \in Nodes \cup {All} : agg'[<<u, n, Ever>>] = 0
    BY <1>7, <2>2, <2>4
  <2>6. \A n \in Nodes \cup {All}, d \in today..MaxDay : agg'[<<u, n, d>>] = 0
    BY <1>7, <1>8, <2>3, <2>4
  <2> QED
    BY <2>5, <2>6
<1>10. TypeOK'
  BY <1>1, <1>2, <1>3, <1>4, <1>5, <1>6 DEF TrafficInv, TypeOK
<1>11. PhasesFit' /\ LocksExclude' /\ LocksOrdered'
  BY <1>1 DEF TrafficInv, PhasesFit, LocksExclude, LocksOrdered
<1>12. ReadsFresh'
  BY <1>0, <1>1, <1>2 DEF TrafficInv, ReadsFresh, Holder
<1>13. ResetFits'
  BY <1>1, <1>3, <1>7, <1>8 DEF TrafficInv, ResetFits
<1>14. TimesFit'
  BY <1>1, <1>6, Constants DEF TrafficInv, TimesFit
<1>15. \A c : Dumped(c)' = Dumped(c)
  BY <1>1 DEF Dumped
<1>16. DumpsFit'
  BY <1>1, <1>15 DEF TrafficInv, DumpsFit
<1>17. Settles'
  BY <1>1, <1>15 DEF TrafficInv, Settles
<1>18. NoOvercharge'
  <2>1. \A p : Charged(p)' = Charged(p)
    BY <1>1 DEF Charged
  <2> QED
    BY <1>1, <2>1 DEF TrafficInv, NoOvercharge
<1>19. LimitIsEnforced' /\ EditFits'
  <2>1. \A v \in Users : limit[v] \in Nat /\ agg[<<v, All, Ever>>] \in Nat
    BY <1>0, <1>7 DEF TrafficInv, TypeOK
  <2>2. ~lapsed'[u] => ~Limited(agg'[<<u, All, Ever>>], limit[u])
    BY <1>4, <1>5, <1>9, <2>1 DEF Limited
  <2>3. \A v \in Users : v # u => agg'[<<v, All, Ever>>] = agg[<<v, All, Ever>>]
    BY <1>7
  <2>4. LimitIsEnforced'
    BY <1>1, <1>5, <2>2, <2>3 DEF TrafficInv, LimitIsEnforced
  <2>5. EditFits'
    BY <1>1, <1>5, <2>3 DEF TrafficInv, EditFits
  <2> QED
    BY <2>4, <2>5
<1>20. LifetimeIsLedger'
  <2>1. \A v \in Users : \A n : v # u => Since(v, n)' = Since(v, n)
    BY <1>1, <1>6 DEF Since
  <2>2. \A n : Since(u, n)' = {}
    <3>1. \A r \in ledger : r.time \in Nat /\ r.time <= clock
      BY DEF TrafficInv, TypeOK, TimesFit, Row
    <3> QED
      BY <1>1, <1>6, <3>1 DEF Since
  <2>3. nodes' = nodes /\ nodes \subseteq Nodes
    BY <1>1 DEF TrafficInv, TypeOK
  <2>4. \A n \in nodes \cup {All} : ~raced'[u] => agg'[<<u, n, Ever>>] = Bytes(Since(u, n)')
    BY <1>9, <2>2, <2>3, BytesOfNone
  <2>5. \A v \in Users, n \in nodes \cup {All} : v # u /\ ~raced'[v] =>
            agg'[<<v, n, Ever>>] = Bytes(Since(v, n)')
    BY <1>4, <1>7, <2>1, <2>3 DEF TrafficInv, LifetimeIsLedger
  <2> QED
    BY <2>3, <2>4, <2>5 DEF LifetimeIsLedger
<1>21. ViewsAgree'
  <2>1. ASSUME NEW v \in Users, v # u
        PROVE  /\ ByNode(v)' = ByNode(v) /\ Lost(v)' = Lost(v)
               /\ \A n \in Nodes \cup {All} : ByDay(v, n)' = ByDay(v, n)
    <3>1. \A d \in resetDay[v]..MaxDay : d \in Days
      BY <1>0, Constants
    <3>2. Lost(v)' = Lost(v)
      BY <1>1, <1>6, <2>1 DEF Lost, Since
    <3> QED
      BY <1>6, <1>7, <2>1, <3>1, <3>2 DEF ByNode, ByDay
  <2>2. ~raced'[u] => Total(ByNode(u)') = 0
    <3>1. ~raced'[u] => /\ ByNode(u)' \in [Nodes -> Nat]
                        /\ \A n \in Nodes : ByNode(u)'[n] = 0
      BY <1>9 DEF ByNode
    <3> QED
      BY <3>1, TotalZero
  <2>3. ASSUME NEW n \in Nodes \cup {All}, ~raced'[u]
        PROVE  Total(ByDay(u, n)') = 0
    <3>1. /\ ByDay(u, n)' \in [today..MaxDay -> Nat]
          /\ \A d \in today..MaxDay : ByDay(u, n)'[d] = 0
      BY <1>6, <1>9, <2>3 DEF ByDay
    <3> QED
      BY <3>1, TotalZero
  <2>4. Bytes(Lost(u)') = 0
    <3>1. \A r \in ledger : r.time \in Nat /\ r.time <= clock
      BY DEF TrafficInv, TypeOK, TimesFit, Row
    <3>2. Lost(u)' = {}
      BY <1>1, <1>6, <3>1 DEF Lost, Since
    <3> QED
      BY <3>2, BytesOfNone
  <2>5. ASSUME NEW v \in Users, ~raced'[v]
        PROVE  /\ Total(ByNode(v)') + Bytes(Lost(v)') = agg'[<<v, All, Ever>>]
               /\ \A n \in Nodes \cup {All} : Total(ByDay(v, n)') = agg'[<<v, n, Ever>>]
    <3>1. CASE v = u
      BY <1>9, <2>2, <2>3, <2>4, <2>5, <3>1
    <3>2. CASE v # u
      BY <1>4, <1>7, <2>1, <2>5, <3>2 DEF TrafficInv, ViewsAgree
    <3> QED
      BY <3>1, <3>2
  <2> QED
    BY <2>5 DEF ViewsAgree
<1> QED
  BY <1>10, <1>11, <1>12, <1>13, <1>14, <1>16, <1>17, <1>18, <1>19, <1>20, <1>21 DEF TrafficInv

-----------------------------------------------------------------------------
(* The commit of a report.                                                 *)

\* The bytes of disjoint sets of rows add up.
LEMMA BytesUnion ==
    ASSUME NEW old, IsFiniteSet(old), NEW new, IsFiniteSet(new), old \cap new = {}
    PROVE  (\A r \in old \cup new : r.bytes \in Nat)
              => Bytes(old \cup new) = Bytes(old) + Bytes(new)
<1> DEFINE f == [r \in old \cup new |-> r.bytes]
<1>1. \A g \in [old \cup new -> Nat] :
         Total(g) = Total([r \in old |-> g[r]]) + Total([r \in new |-> g[r]])
  BY TotalUnion
<1> HAVE \A r \in old \cup new : r.bytes \in Nat
<1>2. f \in [old \cup new -> Nat]
  OBVIOUS
<1>3. /\ Bytes(old \cup new) = Total(f)
      /\ Bytes(old) = Total([r \in old |-> f[r]])
      /\ Bytes(new) = Total([r \in new |-> f[r]])
  BY DEF Bytes
<1> HIDE DEF f
<1> QED
  BY <1>1, <1>2, <1>3, Zenon

\* Rows of the ledger have a number of bytes.
LEMMA LedgerBytes ==
    ASSUME TrafficInv, NEW rs, rs \subseteq ledger
    PROVE  IsFiniteSet(rs) /\ Bytes(rs) \in Nat
<1> DEFINE f == [r \in rs |-> r.bytes]
<1>1. rs \in SUBSET ledger /\ IsFiniteSet(ledger)
  BY DEF TrafficInv, TimesFit
<1>2. IsFiniteSet(rs)
  BY <1>1, FS_Subset
<1>3. f \in [rs -> Nat]
  BY <1>1 DEF TrafficInv, TypeOK, Row
<1> HIDE DEF f
<1>4. Total(f) \in Nat
  BY <1>2, <1>3, TotalType
<1> QED
  BY <1>2, <1>4 DEF f, Bytes

\* What a report adds for a user: the deltas of the user's peers.
Income(c, u) == Total([p \in {q \in Paid(c) : UserOf[q] = u} |-> Delta(c, p)])

\* What a report that is writing applies to, and from which values.
LEMMA Writing ==
    ASSUME TrafficInv, NEW c \in Channels, report[c].phase = "writing"
    PROVE  /\ \A p \in Applied(c) :
                 /\ p \in Peers /\ p \in Dumped(c) /\ NodeOf[p] = Source[c]
                 /\ NodeOf[p] \in nodes
                 /\ UserOf[p] \in report[c].held /\ report[c].counts[p] \in Nat
                 /\ Delta(c, p) = CounterDelta(raw[p], report[c].counts[p])
                 /\ Delta(c, p) \in Nat
           /\ IsFiniteSet(Paid(c)) /\ Paid(c) \subseteq Applied(c)
           /\ \A k \in Written(c) : /\ k \in Keys /\ k[1] \in report[c].held
                                    /\ report[c].seen[k] = agg[k]
                                    /\ \E p \in Paid(c) : k[1] = UserOf[p]
<1>1. report[c] \in ReportRecord /\ raw \in Counters /\ today \in Days
  BY DEF TrafficInv, TypeOK
<1>2. ASSUME NEW p \in Applied(c)
      PROVE  /\ p \in Peers /\ p \in Dumped(c) /\ NodeOf[p] = Source[c]
             /\ NodeOf[p] \in nodes
             /\ UserOf[p] \in report[c].held /\ report[c].counts[p] \in Nat
             /\ Delta(c, p) = CounterDelta(raw[p], report[c].counts[p])
             /\ Delta(c, p) \in Nat
  <2>1. p \in Peers /\ p \in Dumped(c) /\ UserOf[p] \in report[c].held
    BY DEF Applied, Dumped
  <2>2. NodeOf[p] = Source[c] /\ NodeOf[p] \in nodes
    BY <2>1 DEF TrafficInv, DumpsFit, Applied
  <2>3. report[c].counts[p] \in Nat /\ raw[p] \in Nat \cup {Unset}
    BY <1>1, <2>1 DEF Dumped, ReportRecord, Counters
  <2>4. report[c].raw[p] = raw[p]
    BY <2>1 DEF TrafficInv, ReadsFresh
  <2> QED
    BY <2>1, <2>2, <2>3, <2>4, CounterMoves DEF Delta
<1>3. Paid(c) \subseteq Applied(c)
  BY DEF Paid
<1>4. IsFiniteSet(Paid(c))
  <2>1. Paid(c) \in SUBSET Peers
    BY <1>2, <1>3
  <2> QED
    BY <2>1, Constants, FS_Subset
<1>5. ASSUME NEW k \in Written(c)
      PROVE  /\ k \in Keys /\ k[1] \in report[c].held /\ report[c].seen[k] = agg[k]
             /\ \E p \in Paid(c) : k[1] = UserOf[p]
  <2>1. PICK p \in Paid(c) : k \in KeysOf(p, today)
    BY DEF Written
  <2>2. /\ k \in Keys /\ k[1] = UserOf[p] /\ UserOf[p] \in report[c].held
        /\ k[2] \in nodes \cup {All}
    BY <1>1, <1>2, <1>3, <2>1, KeysOfPeer
  <2>3. report[c].seen[k] = agg[k]
    BY <2>2 DEF TrafficInv, ReadsFresh
  <2> QED
    BY <2>1, <2>2, <2>3
<1> QED
  BY <1>2, <1>3, <1>4, <1>5

\* The same income goes to the account and the node, to the day and the lifetime row,
\* and to no other row.
LEMMA Increases ==
    ASSUME TrafficInv, NEW c \in Channels, report[c].phase = "writing"
    PROVE  /\ \A u \in Users : /\ Income(c, u) \in Nat
                               /\ (\A p \in Paid(c) : UserOf[p] # u) => Income(c, u) = 0
           /\ \A u \in Users, n \in Nodes \cup {All}, d \in Days \cup {Ever} :
                 Increased(c)[<<u, n, d>>] = agg[<<u, n, d>>] +
                     IF n \in {Source[c], All} /\ d \in {today, Ever} THEN Income(c, u) ELSE 0
<1> DEFINE Of(u) == {q \in Paid(c) : UserOf[q] = u}
           D(u) == [p \in Of(u) |-> Delta(c, p)]
<1>1. \A p \in Paid(c) : /\ p \in Peers /\ NodeOf[p] = Source[c] /\ Delta(c, p) \in Nat
  BY Writing
<1>2. ASSUME NEW u \in Users
      PROVE  /\ IsFiniteSet(Of(u)) /\ D(u) \in [Of(u) -> Nat]
  <2>1. Of(u) \in SUBSET Paid(c) /\ IsFiniteSet(Paid(c))
    BY Writing
  <2>2. D(u) \in [Of(u) -> Nat]
    BY <1>1
  <2> QED
    BY <2>1, <2>2, FS_Subset
<1>3. ASSUME NEW u \in Users PROVE Income(c, u) = Total(D(u))
  BY DEF Income
<1> HIDE DEF D
<1>4. \A u \in Users : Income(c, u) \in Nat
  BY <1>2, <1>3, TotalType
<1>5. ASSUME NEW u \in Users, \A p \in Paid(c) : UserOf[p] # u
      PROVE  Income(c, u) = 0
  <2>1. \A p \in Of(u) : D(u)[p] = 0
    BY <1>5
  <2> QED
    BY <1>2, <1>3, <2>1, TotalZero
<1>6. ASSUME NEW u \in Users, NEW n \in Nodes \cup {All}, NEW d \in Days \cup {Ever}
      PROVE  Increased(c)[<<u, n, d>>] = agg[<<u, n, d>>] +
                     IF n \in {Source[c], All} /\ d \in {today, Ever} THEN Income(c, u) ELSE 0
  <2> DEFINE k == <<u, n, d>>
  <2>1. k \in Keys
    BY KeyTypes
  <2>2. agg[k] \in Nat
    BY <2>1 DEF TrafficInv, TypeOK
  <2>3. \A p \in Paid(c) : k \in KeysOf(p, today) <=>
            u = UserOf[p] /\ n \in {Source[c], All} /\ d \in {today, Ever}
    <3>1. today \in Days
      BY DEF TrafficInv, TypeOK
    <3> QED
      BY <1>1, <3>1, KeysOfPeer
  <2>4. k \in Written(c) <=> \E p \in Paid(c) : k \in KeysOf(p, today)
    BY DEF Written
  <2>5. Increased(c)[k] = IF k \in Written(c) THEN agg[k] + Increase(c, k) ELSE agg[k]
    BY <2>1, Writing DEF Increased
  <2>6. CASE n \in {Source[c], All} /\ d \in {today, Ever}
    <3>1. {q \in Paid(c) : k \in KeysOf(q, today)} = Of(u)
      BY <2>3, <2>6
    <3>2. Increase(c, k) = Income(c, u)
      BY <3>1, Zenon DEF Increase, Income
    <3>3. k \notin Written(c) => Income(c, u) = 0
      BY <1>5, <2>3, <2>4, <2>6
    <3> QED
      BY <2>2, <2>5, <2>6, <3>2, <3>3
  <2>7. CASE ~(n \in {Source[c], All} /\ d \in {today, Ever})
    <3>1. k \notin Written(c)
      BY <2>3, <2>4, <2>7
    <3> QED
      BY <2>2, <2>5, <2>7, <3>1
  <2> QED
    BY <2>6, <2>7
<1> QED
  BY <1>4, <1>5, <1>6

\* The rows that a report adds to the ledger.
NewRows(c) == {[peer |-> p, time |-> clock + 1, day |-> today, bytes |-> Delta(c, p)] :
                  p \in Paid(c)}

\* What the commit changes, in terms of the state before it.
LEMMA Commit ==
    ASSUME TrafficInv, NEW c \in Channels, WriteReport(c)
    PROVE  /\ UNCHANGED <<nodes, rows, counter, carried, dumps, resetDay, floor, raced,
                          limit, requests, today>>
           /\ report[c].phase = "writing" /\ report' \in [Channels -> ReportRecord]
           /\ report'[c] = Idle /\ \A d \in Channels : d # c => report'[d] = report[d]
           /\ raw' \in Counters /\ newest' \in [Peers -> Nat] /\ settled' \in [Peers -> Nat]
           /\ \A p \in Applied(c) :
                 /\ raw'[p] = report[c].counts[p]
                 /\ report[c].stamp < newest[p] => p \in overtaken'
                 /\ report[c].stamp > newest[p] => /\ newest'[p] = report[c].stamp
                                                  /\ settled'[p] = report[c].carried[p]
                 /\ ~(report[c].stamp > newest[p]) => /\ newest'[p] = newest[p]
                                                     /\ settled'[p] = settled[p]
           /\ \A p \in Peers : p \notin Applied(c) => /\ raw'[p] = raw[p]
                                                     /\ newest'[p] = newest[p]
                                                     /\ settled'[p] = settled[p]
           /\ overtaken \subseteq overtaken' /\ overtaken' \subseteq Peers
           /\ ledger' = ledger \cup NewRows(c) /\ samples' \subseteq ledger'
           /\ agg' = Increased(c)
           /\ clock' \in {clock, clock + 1} /\ (Paid(c) # {} => clock' = clock + 1)
<1>0. /\ report \in [Channels -> ReportRecord] /\ report[c] \in ReportRecord
      /\ raw \in Counters /\ newest \in [Peers -> Nat] /\ settled \in [Peers -> Nat]
      /\ overtaken \subseteq Peers /\ samples \subseteq ledger
  BY DEF TrafficInv, TypeOK
<1>1. report[c].phase = "writing" /\ \A p \in Applied(c) : /\ p \in Peers
                                                         /\ report[c].counts[p] \in Nat
  BY Writing DEF WriteReport
<1>2. UNCHANGED <<nodes, rows, counter, carried, dumps, resetDay, floor, raced, limit,
                  requests, today>>
  BY DEF WriteReport, nodeVars
<1>3. /\ report' \in [Channels -> ReportRecord] /\ report'[c] = Idle
      /\ \A d \in Channels : d # c => report'[d] = report[d]
  BY <1>0, IdleTypes DEF WriteReport
<1>4. /\ raw' = [p \in Peers |-> IF p \in Applied(c) THEN report[c].counts[p] ELSE raw[p]]
      /\ newest' = [p \in Peers |-> IF p \in Applied(c) /\ report[c].stamp > newest[p]
                                    THEN report[c].stamp ELSE newest[p]]
      /\ settled' = [p \in Peers |-> IF p \in Applied(c) /\ report[c].stamp > newest[p]
                                     THEN report[c].carried[p] ELSE settled[p]]
      /\ overtaken' = overtaken \cup {p \in Applied(c) : report[c].stamp < newest[p]}
  BY DEF WriteReport
<1>5. raw' \in Counters /\ newest' \in [Peers -> Nat] /\ settled' \in [Peers -> Nat]
  <2>1. report[c].stamp \in Nat /\ report[c].carried \in [Peers -> Nat]
    BY <1>0 DEF ReportRecord
  <2> QED
    BY <1>0, <1>1, <1>4, <2>1 DEF Counters
<1>7. /\ ledger' = ledger \cup NewRows(c) /\ samples' = samples \cup NewRows(c)
      /\ agg' = Increased(c)
      /\ clock' = IF NewRows(c) = {} THEN clock ELSE clock + 1
  BY Zenon DEF WriteReport, NewRows
<1>8. Paid(c) # {} => NewRows(c) # {}
  BY DEF NewRows
<1> QED
  BY <1>0, <1>1, <1>2, <1>3, <1>4, <1>5, <1>7, <1>8

\* The rows of a commit count for their users and their peers.
LEMMA NewBytes ==
    ASSUME TrafficInv, NEW c \in Channels, WriteReport(c)
    PROVE  /\ \A r \in NewRows(c) : r \in Row /\ r.time = clock + 1 /\ r.peer \in Paid(c)
           /\ IsFiniteSet(NewRows(c))
           /\ \A u \in Users, n \in Nodes \cup {All} :
                 Bytes(Since(u, n)') = Bytes(Since(u, n)) +
                     IF n \in {Source[c], All} THEN Income(c, u) ELSE 0
           /\ \A u \in Users : Lost(u)' = Lost(u)
           /\ \A p \in Peers : /\ p \in Paid(c) =>
                                    Bytes(Charged(p)') = Bytes(Charged(p)) + Delta(c, p)
                               /\ p \notin Paid(c) => Charged(p)' = Charged(p)
<1> DEFINE R(p) == [peer |-> p, time |-> clock + 1, day |-> today, bytes |-> Delta(c, p)]
<1>0. /\ clock \in Nat /\ today \in Days /\ IsFiniteSet(ledger) /\ ledger \subseteq Row
      /\ \A r \in ledger : r.time <= clock /\ r.time \in Nat /\ r.bytes \in Nat
      /\ \A u \in Users : floor[u] \in Nat /\ floor[u] <= clock
  BY DEF TrafficInv, TypeOK, TimesFit, Row
<1>1. /\ ledger' = ledger \cup NewRows(c) /\ floor' = floor /\ report[c].phase = "writing"
      /\ nodes' = nodes
  BY Commit
<1>2. /\ IsFiniteSet(Paid(c)) /\ Paid(c) \subseteq Applied(c)
      /\ \A p \in Paid(c) : /\ p \in Peers /\ Delta(c, p) \in Nat \ {0}
                             /\ NodeOf[p] = Source[c] /\ NodeOf[p] \in nodes
  BY <1>1, Writing DEF Paid
<1>3. \A p \in Paid(c) : R(p) \in Row /\ R(p).time = clock + 1 /\ R(p).peer = p
  BY <1>0, <1>2 DEF Row
<1>4. \A r : r \in NewRows(c) <=> \E p \in Paid(c) : r = R(p)
  BY DEF NewRows
<1>5. IsFiniteSet(NewRows(c))
  <2> DEFINE h == [p \in Paid(c) |-> R(p)]
  <2>1. h \in Surjection(Paid(c), NewRows(c))
    BY <1>4 DEF Surjection
  <2> QED
    BY <1>2, <2>1, FS_Surjection
<1>6. \A r \in ledger : r.time # clock + 1
  BY <1>0
<1>7. ASSUME NEW old, old \subseteq ledger, NEW Q, Q \subseteq Paid(c)
      PROVE  Bytes(old \cup {R(p) : p \in Q}) =
                Bytes(old) + Total([p \in Q |-> Delta(c, p)])
  <2> DEFINE D == [p \in Q |-> Delta(c, p)]
             new == {R(p) : p \in Q}
             h == [p \in Q |-> R(p)]
             e == [r \in new |-> r.bytes]
  <2>1. IsFiniteSet(old) /\ IsFiniteSet(Q)
    BY <1>0, <1>2, <1>7, FS_Subset
  <2>2. D \in [Q -> Nat]
    BY <1>2, <1>7
  <2>3. \A p \in Q : R(p).peer = p /\ R(p).time = clock + 1 /\ R(p).bytes = D[p]
    OBVIOUS
  <2>4. \A r \in new : r.time = clock + 1 /\ r.bytes \in Nat
    BY <2>2, <2>3
  <2>5. e \in [new -> Nat] /\ \A p \in Q : h[p] \in new /\ e[h[p]] = D[p]
    BY <2>3, <2>4
  <2>6. Bytes(new) = Total(e)
    BY DEF Bytes
  <2>7. h \in Bijection(Q, new)
    <3> HIDE DEF R
    <3> QED
      BY <2>3 DEF Bijection, Injection, Surjection, IsInjective
  <2>8. IsFiniteSet(new)
    BY <2>1, <2>7, FS_Bijection DEF ExistsBijection
  <2> HIDE DEF D, new, h, e
  <2>9. old \cap new = {}
    BY <1>6, <1>7, <2>4
  <2>10. \A r \in old \cup new : r.bytes \in Nat
    BY <1>0, <1>7, <2>4
  <2>11. Bytes(old \cup new) = Bytes(old) + Bytes(new)
    BY <2>1, <2>8, <2>9, <2>10, BytesUnion
  <2>12. Total(D) = Total(e)
    BY <2>1, <2>2, <2>5, <2>7, TotalRename
  <2> QED
    BY <2>6, <2>11, <2>12 DEF D, new
<1>8. ASSUME NEW u \in Users, NEW n \in Nodes \cup {All}
      PROVE  Bytes(Since(u, n)') = Bytes(Since(u, n)) +
                IF n \in {Source[c], All} THEN Income(c, u) ELSE 0
  <2> DEFINE Q == {q \in Paid(c) : UserOf[q] = u}
  <2>1. \A p \in Paid(c) : R(p).peer = p /\ R(p).time > floor[u]
    BY <1>0, <1>3
  <2> HIDE DEF R
  <2>2. CASE n \in {Source[c], All}
    <3>1. \A r : r \in Since(u, n)' <=> r \in Since(u, n) \/ \E p \in Q : r = R(p)
      BY <1>1, <1>2, <1>4, <2>1, <2>2 DEF Since
    <3>2. Since(u, n)' = Since(u, n) \cup {R(p) : p \in Q}
      BY <3>1
    <3>3. Since(u, n) \subseteq ledger /\ Q \subseteq Paid(c)
      BY DEF Since
    <3>4. Income(c, u) = Total([p \in Q |-> Delta(c, p)])
      BY DEF Income
    <3> HIDE DEF Q
    <3> QED
      BY <1>7, <2>2, <3>2, <3>3, <3>4
  <2>3. CASE n \notin {Source[c], All}
    <3>1. Since(u, n)' = Since(u, n)
      BY <1>1, <1>2, <1>4, <2>1, <2>3 DEF Since
    <3>2. Bytes(Since(u, n)) \in Nat
      BY LedgerBytes DEF Since
    <3> QED
      BY <2>3, <3>1, <3>2
  <2> QED
    BY <2>2, <2>3
<1>10. ASSUME NEW u \in Users PROVE Lost(u)' = Lost(u)
  <2>1. \A p \in Paid(c) : R(p).peer = p
    BY <1>3
  <2> HIDE DEF R
  <2> QED
    BY <1>1, <1>2, <1>4, <2>1 DEF Lost, Since
<1>9. ASSUME NEW p \in Peers
      PROVE  /\ p \in Paid(c) => Bytes(Charged(p)') = Bytes(Charged(p)) + Delta(c, p)
             /\ p \notin Paid(c) => Charged(p)' = Charged(p)
  <2> DEFINE Q == {q \in Paid(c) : q = p}
             D == [q \in Q |-> Delta(c, q)]
  <2>1. \A r : r \in Charged(p)' <=> r \in Charged(p) \/ \E q \in Q : r = R(q)
    <3> HIDE DEF R
    <3> QED
      BY <1>1, <1>3, <1>4 DEF Charged
  <2>2. Charged(p)' = Charged(p) \cup {R(q) : q \in Q}
    BY <2>1
  <2>3. Charged(p) \subseteq ledger /\ Q \subseteq Paid(c)
    BY DEF Charged
  <2>4. Bytes(Charged(p)') = Bytes(Charged(p)) + Total(D)
    <3> HIDE DEF Q, R
    <3> QED
      BY <1>7, <2>2, <2>3, Zenon
  <2>5. p \in Paid(c) => Total(D) = Delta(c, p)
    <3> HAVE p \in Paid(c)
    <3>1. Q = {p}
      OBVIOUS
    <3>2. D \in [{p} -> Nat] /\ D[p] = Delta(c, p)
      BY <1>2, <3>1
    <3> HIDE DEF D
    <3> QED
      BY <3>2, TotalSingle
  <2>6. p \notin Paid(c) => Charged(p)' = Charged(p)
    BY <2>2
  <2> QED
    BY <2>4, <2>5, <2>6
<1> QED
  BY <1>3, <1>4, <1>5, <1>8, <1>9, <1>10

\* The commit of a report: the ledger and the four aggregates grow by the same income.
LEMMA WriteReportStep ==
    ASSUME TrafficInv, NEW c \in Channels, WriteReport(c)
    PROVE  TrafficInv'
<1> DEFINE Pays(u) == \E p \in Paid(c) : UserOf[p] = u
<1>1. /\ UNCHANGED <<nodes, rows, counter, carried, dumps, resetDay, floor, raced, limit,
                     requests, today>>
      /\ report[c].phase = "writing" /\ report' \in [Channels -> ReportRecord]
      /\ report'[c] = Idle /\ \A d \in Channels : d # c => report'[d] = report[d]
  BY Commit
<1>2. /\ ledger' = ledger \cup NewRows(c) /\ samples' \subseteq ledger' /\ agg' = Increased(c)
      /\ clock' \in {clock, clock + 1} /\ (Paid(c) # {} => clock' = clock + 1)
      /\ raw' \in Counters /\ newest' \in [Peers -> Nat] /\ settled' \in [Peers -> Nat]
      /\ overtaken \subseteq overtaken' /\ overtaken' \subseteq Peers
  BY Commit
<1>3. /\ Idle.phase = "idle" /\ Idle.held = {} /\ Idle.batch = {} /\ Idle.round = 0
      /\ Idle.counts = [p \in Peers |-> Unset]
  BY DEF Idle
<1>4. /\ \A u \in Users : Income(c, u) \in Nat /\ (~Pays(u) => Income(c, u) = 0)
      /\ \A u \in Users, n \in Nodes \cup {All}, d \in Days \cup {Ever} :
            agg'[<<u, n, d>>] = agg[<<u, n, d>>] +
                IF n \in {Source[c], All} /\ d \in {today, Ever} THEN Income(c, u) ELSE 0
  BY <1>1, <1>2, Increases
<1>5. \A k \in Keys : agg[k] \in Nat
  BY DEF TrafficInv, TypeOK
<1>6. /\ agg' \in [Keys -> Nat]
      /\ \A k \in Keys : ~Pays(k[1]) => agg'[k] = agg[k]
  <2>1. DOMAIN agg' = Keys /\ agg' = [k \in Keys |-> agg'[k]]
    BY <1>2 DEF Increased
  <2>2. \A k \in Keys : agg'[k] \in Nat /\ (~Pays(k[1]) => agg'[k] = agg[k])
    <3> TAKE k \in Keys
    <3>1. /\ k = <<k[1], k[2], k[3]>> /\ k[1] \in Users
          /\ k[2] \in Nodes \cup {All} /\ k[3] \in Days \cup {Ever}
      BY KeyTypes
    <3>2. agg[k] \in Nat /\ Income(c, k[1]) \in Nat
      BY <1>4, <1>5, <3>1
    <3>3. agg'[k] = agg[k] \/ agg'[k] = agg[k] + Income(c, k[1])
      BY <1>4, <3>1, <3>2
    <3> QED
      BY <1>4, <3>1, <3>2, <3>3
  <2> QED
    BY <2>1, <2>2
<1>7. /\ reset' \in [Users -> ResetRecord]
      /\ \A u \in Users : /\ reset'[u].step = reset[u].step /\ reset'[u].gone = reset[u].gone
                          /\ reset'[u].step > 1 /\ ~reset'[u].raced =>
                                ~reset[u].raced /\ ~Pays(u)
  <2>1. /\ reset \in [Users -> ResetRecord]
        /\ reset' = [u \in Users |-> IF reset[u].step > 1 /\ Pays(u)
                                    THEN [reset[u] EXCEPT !.raced = TRUE] ELSE reset[u]]
    BY DEF TrafficInv, TypeOK, WriteReport, Payers
  <2> HIDE DEF Pays
  <2>2. \A u \in Users : LET r == [reset[u] EXCEPT !.raced = TRUE]
                        IN  r \in ResetRecord /\ r.step = reset[u].step
                            /\ r.gone = reset[u].gone /\ r.raced
    BY <2>1 DEF ResetRecord
  <2> QED
    BY <2>1, <2>2
<1>8. /\ status' \in [Users -> Statuses] /\ edit' \in [Users -> EditRecord]
      /\ lapsed' \in [Users -> BOOLEAN]
      /\ \A u \in Users :
           /\ Pays(u) => /\ status'[u] = Enforced(status[u], agg'[<<u, All, Ever>>], limit[u])
                         /\ edit'[u].kind # "none" => edit'[u].stale
           /\ ~Pays(u) => /\ status'[u] = status[u] /\ edit'[u] = edit[u]
                          /\ lapsed'[u] = lapsed[u]
           /\ edit'[u].kind = edit[u].kind /\ edit'[u].dirty = edit[u].dirty
           /\ edit'[u].limit = edit[u].limit
  <2>1. /\ status \in [Users -> Statuses] /\ edit \in [Users -> EditRecord]
        /\ lapsed \in [Users -> BOOLEAN]
        /\ status' = [u \in Users |->
              IF Pays(u) THEN Enforced(status[u], agg'[<<u, All, Ever>>], limit[u])
              ELSE status[u]]
        /\ edit' = [u \in Users |-> IF edit[u].kind # "none" /\ Pays(u)
                                     THEN [edit[u] EXCEPT !.stale = TRUE] ELSE edit[u]]
    BY DEF TrafficInv, TypeOK, WriteReport, Payers
  <2>2. lapsed' = [u \in Users |-> lapsed[u] /\ ~Pays(u)]
    BY DEF WriteReport, Payers
  <2> HIDE DEF Pays
  <2>3. /\ lapsed' \in [Users -> BOOLEAN]
        /\ \A u \in Users : ~Pays(u) => lapsed'[u] = lapsed[u]
    BY <2>1, <2>2, Zenon
  <2>4. \A u \in Users :
           LET e == [edit[u] EXCEPT !.stale = TRUE]
           IN  /\ e \in EditRecord /\ e.stale /\ e.kind = edit[u].kind
               /\ e.dirty = edit[u].dirty /\ e.limit = edit[u].limit
    BY <2>1 DEF EditRecord
  <2>5. \A s, t, b : Enforced(s, t, b) \in Statuses
    BY DEF Enforced, Statuses
  <2> QED
    BY <2>1, <2>3, <2>4, <2>5
<1>9. TypeOK'
  <2>1. ledger' \subseteq Row /\ clock' \in Nat
    BY <1>2, NewBytes DEF TrafficInv, TypeOK
  <2>2. \A d \in Channels : report'[d].phase \in {"idle", "sent"} => report'[d].held = {}
    BY <1>1, <1>3 DEF TrafficInv, TypeOK
  <2> QED
    BY <1>1, <1>2, <1>6, <1>7, <1>8, <2>1, <2>2 DEF TrafficInv, TypeOK
<1>10. PhasesFit' /\ LocksExclude' /\ LocksOrdered'
  BY <1>1, <1>3 DEF TrafficInv, PhasesFit, LocksExclude, LocksOrdered
<1>11. ReadsFresh'
  <2> SUFFICES ASSUME NEW d \in Channels, report'[d].phase = "writing"
               PROVE  /\ \A p \in Peers : UserOf[p] \in report'[d].held =>
                                             report'[d].raw[p] = raw'[p]
                      /\ \A k \in Keys : k[1] \in report'[d].held /\ k[2] \in nodes \cup {All}
                                             => report'[d].seen[k] = agg'[k]
    BY <1>1 DEF ReadsFresh
  <2>1. d # c /\ report'[d] = report[d]
    BY <1>1, <1>3
  <2>2. \A p \in Peers : UserOf[p] \in report[d].held => p \notin Applied(c)
    BY <2>1 DEF TrafficInv, LocksExclude, Applied
  <2>3. \A p \in Peers : p \notin Applied(c) => raw'[p] = raw[p]
    BY Commit
  <2>4. \A k \in Keys : k[1] \in report[d].held => ~Pays(k[1])
    BY <2>2, <1>1, Writing
  <2> QED
    BY <1>6, <2>1, <2>2, <2>3, <2>4 DEF TrafficInv, ReadsFresh
<1>12. ResetFits'
  <2> HIDE DEF Pays
  <2>1. \A u \in Users, n \in Nodes \cup {All}, d \in Days \cup {Ever} :
            ~Pays(u) => agg'[<<u, n, d>>] = agg[<<u, n, d>>]
    BY <1>6, KeyTypes
  <2>2. \A d \in today..MaxDay : d \in Days
    BY Constants DEF TrafficInv, TypeOK
  <2>3. \A u \in Users : \A k \in reset'[u].gone : k[1] = u
    BY <1>7 DEF TrafficInv, ResetFits
  <2>4. ASSUME NEW u \in Users, reset'[u].step > 1, ~reset'[u].raced, NEW n \in Nodes \cup {All}
        PROVE  <<u, n, Ever>> \in reset'[u].gone \/ agg'[<<u, n, Ever>>] = 0
    <3>1. ~Pays(u) /\ ~reset[u].raced /\ reset[u].step > 1
      BY <1>7, <2>4
    <3>2. <<u, n, Ever>> \in reset[u].gone \/ agg[<<u, n, Ever>>] = 0
      BY <3>1 DEF TrafficInv, ResetFits
    <3>3. agg'[<<u, n, Ever>>] = agg[<<u, n, Ever>>]
      BY <2>1, <3>1
    <3> QED
      BY <1>7, <3>2, <3>3
  <2>5. ASSUME NEW u \in Users, reset'[u].step > 2, ~reset'[u].raced,
               NEW n \in Nodes \cup {All}, NEW d \in today..MaxDay
        PROVE  <<u, n, d>> \in reset'[u].gone \/ agg'[<<u, n, d>>] = 0
    <3>1. reset'[u].step \in Nat
      BY <1>7 DEF ResetRecord
    <3>2. ~Pays(u) /\ ~reset[u].raced /\ reset[u].step > 2
      BY <1>7, <2>5, <3>1
    <3>3. <<u, n, d>> \in reset[u].gone \/ agg[<<u, n, d>>] = 0
      BY <3>2 DEF TrafficInv, ResetFits
    <3>4. agg'[<<u, n, d>>] = agg[<<u, n, d>>]
      BY <2>1, <2>2, <3>2
    <3> QED
      BY <1>7, <3>3, <3>4
  <2> QED
    BY <1>1, <2>3, <2>4, <2>5 DEF ResetFits
<1>13. TimesFit'
  <2>1. clock \in Nat /\ \A r \in ledger : r.time \in Nat
    BY DEF TrafficInv, TypeOK, Row
  <2>2. IsFiniteSet(ledger')
    BY <1>2, NewBytes, FS_Union DEF TrafficInv, TimesFit
  <2>3. \A u \in Users : floor[u] \in Nat
    BY DEF TrafficInv, TypeOK
  <2>4. \A r \in ledger' : r.time <= clock'
    BY <1>2, <2>1, NewBytes DEF TrafficInv, TimesFit
  <2> QED
    BY <1>1, <1>2, <2>1, <2>2, <2>3, <2>4 DEF TrafficInv, TimesFit
<1>14. LifetimeIsLedger'
  <2> SUFFICES ASSUME NEW u \in Users, NEW n \in nodes \cup {All}, ~raced[u]
               PROVE  agg'[<<u, n, Ever>>] = Bytes(Since(u, n)')
    BY <1>1 DEF LifetimeIsLedger
  <2>1. n \in Nodes \cup {All}
    BY DEF TrafficInv, TypeOK
  <2>2. agg[<<u, n, Ever>>] = Bytes(Since(u, n))
    BY DEF TrafficInv, LifetimeIsLedger
  <2> QED
    BY <1>4, <2>1, <2>2, NewBytes
<1>15. LimitIsEnforced' /\ EditFits'
  <2>1. \A u \in Users : ~Pays(u) => agg'[<<u, All, Ever>>] = agg[<<u, All, Ever>>]
    BY <1>6, KeyTypes
  <2> HIDE DEF Pays
  <2>2. \A s, t, b : Limited(t, b) => Enforced(s, t, b) # "active"
    BY DEF Enforced
  <2>3. LimitIsEnforced'
    BY <1>1, <1>8, <2>1, <2>2 DEF TrafficInv, LimitIsEnforced
  <2>4. EditFits'
    BY <1>1, <1>8, <2>1 DEF TrafficInv, EditFits
  <2> QED
    BY <2>3, <2>4
<1>16. ViewsAgree'
  <2> SUFFICES ASSUME NEW u \in Users, ~raced[u]
               PROVE  /\ Total(ByNode(u)') + Bytes(Lost(u)') = agg'[<<u, All, Ever>>]
                      /\ \A n \in Nodes \cup {All} :
                            Total(ByDay(u, n)') = agg'[<<u, n, Ever>>]
    BY <1>1 DEF ViewsAgree
  <2>1. agg'[<<u, All, Ever>>] = agg[<<u, All, Ever>>] + Income(c, u)
    BY <1>4
  <2>2. /\ Total(ByNode(u)) + Bytes(Lost(u)) = agg[<<u, All, Ever>>]
        /\ \A n \in Nodes \cup {All} : Total(ByDay(u, n)) = agg[<<u, n, Ever>>]
    BY DEF TrafficInv, ViewsAgree
  <2>3. Income(c, u) \in Nat
    BY <1>4
  <2>4. Total(ByNode(u)') = Total(ByNode(u)) + Income(c, u) /\ Total(ByNode(u)) \in Nat
    <3>1. \A n \in Nodes : agg[<<u, n, Ever>>] \in Nat /\ agg'[<<u, n, Ever>>] \in Nat
      BY <1>5, <1>6, KeyTypes
    <3>2. ByNode(u) \in [Nodes -> Nat] /\ ByNode(u)' \in [Nodes -> Nat]
      BY <3>1 DEF ByNode
    <3>3. Source[c] \in Nodes /\ All \notin Nodes /\ IsFiniteSet(Nodes)
      BY Constants, TrafficAssumption
    <3>4. ByNode(u)'[Source[c]] = ByNode(u)[Source[c]] + Income(c, u)
      BY <1>4, <3>3 DEF ByNode
    <3>5. \A n \in Nodes : n # Source[c] => ByNode(u)'[n] = ByNode(u)[n]
      BY <1>4, <3>1, <3>3 DEF ByNode
    <3> QED
      BY <2>3, <3>2, <3>3, <3>4, <3>5, TotalRaise, TotalType
  <2>5. ASSUME NEW n \in Nodes \cup {All}
        PROVE  Total(ByDay(u, n)') = agg'[<<u, n, Ever>>]
    <3> DEFINE S == resetDay[u]..MaxDay
               i == IF n \in {Source[c], All} THEN Income(c, u) ELSE 0
    <3>1. /\ today \in Days /\ resetDay[u] \in Nat /\ resetDay[u] <= today
          /\ MaxDay \in Nat
      BY Constants DEF TrafficInv, TypeOK, TimesFit
    <3>2. today \in S /\ IsFiniteSet(S) /\ \A d \in S : d \in Days /\ d # Ever
      <4>1. IsFiniteSet(S)
        BY <3>1, FS_Interval
      <4>2. Ever \notin Nat
        BY TrafficAssumption
      <4>3. \A d : d \in Days <=> d \in Nat /\ d <= MaxDay
        BY Constants
      <4> QED
        BY <3>1, <4>1, <4>2, <4>3
    <3>3. \A d \in S : agg[<<u, n, d>>] \in Nat /\ agg'[<<u, n, d>>] \in Nat
      BY <1>5, <1>6, <3>2, KeyTypes
    <3>4. /\ ByDay(u, n) = [d \in S |-> agg[<<u, n, d>>]]
          /\ ByDay(u, n)' = [d \in S |-> agg'[<<u, n, d>>]]
      BY <1>1 DEF ByDay
    <3> HIDE DEF S
    <3>5. ByDay(u, n) \in [S -> Nat] /\ ByDay(u, n)' \in [S -> Nat]
      BY <3>3, <3>4
    <3>6. i \in Nat
      BY <2>3
    <3>7. ByDay(u, n)'[today] = ByDay(u, n)[today] + i
      BY <1>4, <3>2, <3>4
    <3>8. \A d \in S : d # today => ByDay(u, n)'[d] = ByDay(u, n)[d]
      BY <1>4, <3>2, <3>3, <3>4
    <3>9. agg'[<<u, n, Ever>>] = agg[<<u, n, Ever>>] + i
      BY <1>4
    <3> HIDE DEF i
    <3>10. Total(ByDay(u, n)') = Total(ByDay(u, n)) + i
      BY <3>2, <3>5, <3>6, <3>7, <3>8, TotalRaise
    <3> QED
      BY <2>2, <3>9, <3>10
  <2>6. Lost(u)' = Lost(u) /\ Bytes(Lost(u)) \in Nat
    BY NewBytes, LedgerBytes DEF Lost, Since
  <2> QED
    BY <2>1, <2>2, <2>3, <2>4, <2>5, <2>6
<1>17. /\ \A d \in Channels : d # c => Dumped(d)' = Dumped(d)
       /\ Dumped(c)' = {}
  BY <1>1, <1>3 DEF Dumped
<1>18. \A d \in Channels, p \in Peers : p \in Dumped(d)' =>
          /\ d # c /\ report'[d] = report[d] /\ p \in Dumped(d)
          /\ p \in Applied(c) => report[d].stamp # report[c].stamp
  BY <1>1, <1>17, Writing DEF TrafficInv, DumpsFit
<1>19. report[c].stamp \in Nat /\ \A p \in Peers : newest[p] \in Nat
  BY DEF TrafficInv, TypeOK, ReportRecord
<1>20. DumpsFit'
  <2>1. ASSUME NEW p \in Peers
        PROVE  \/ newest'[p] = newest[p]
               \/ p \in Applied(c) /\ newest'[p] = report[c].stamp
    <3>1. CASE p \in Applied(c)
      BY <3>1, Commit
    <3>2. CASE p \notin Applied(c)
      BY <3>2, Commit
    <3> QED
      BY <3>1, <3>2
  <2>2. \A p \in Applied(c) : report[c].stamp <= dumps[NodeOf[p]]
    BY <1>1, Writing DEF TrafficInv, DumpsFit
  <2>3. \A p \in Peers : newest'[p] <= dumps[NodeOf[p]]
    BY <2>1, <2>2 DEF TrafficInv, DumpsFit
  <2>4. \A d \in Channels : report'[d].phase # "idle" => d # c
    BY <1>1, <1>3
  <2>5. \A d \in Channels, p \in Peers : p \in Dumped(d)' =>
          /\ NodeOf[p] = Source[d]
          /\ report'[d].phase # "idle" /\ report'[d].stamp # newest'[p]
    BY <1>18, <2>1 DEF TrafficInv, DumpsFit
  <2> QED
    BY <1>1, <2>3, <2>4, <2>5 DEF TrafficInv, DumpsFit
<1>21. ASSUME NEW p \in Peers, p \notin overtaken'
       PROVE  /\ p \notin overtaken
              /\ p \in Applied(c) =>
                   /\ report[c].stamp > newest[p] /\ raw'[p] = report[c].counts[p]
                   /\ newest'[p] = report[c].stamp /\ settled'[p] = report[c].carried[p]
                   /\ p \in Dumped(c)
              /\ p \notin Applied(c) => /\ raw'[p] = raw[p] /\ newest'[p] = newest[p]
                                        /\ settled'[p] = settled[p]
  <2>1. p \notin overtaken
    BY <1>2, <1>21
  <2>2. p \in Applied(c) => p \in Dumped(c) /\ report[c].stamp # newest[p]
    BY <1>1, Writing DEF TrafficInv, DumpsFit
  <2>3. p \in Applied(c) => ~(report[c].stamp < newest[p])
    BY <1>21, Commit
  <2>4. p \in Applied(c) => report[c].stamp > newest[p]
    BY <1>19, <2>2, <2>3
  <2> QED
    BY <2>1, <2>2, <2>4, Commit
<1>22. NoOvercharge'
  <2> SUFFICES ASSUME NEW p \in Peers, p \notin overtaken'
               PROVE  Bytes(Charged(p)') <= settled'[p]
    BY DEF NoOvercharge
  <2>1. Bytes(Charged(p)) <= settled[p]
    BY <1>21 DEF TrafficInv, NoOvercharge
  <2>2. CASE p \in Applied(c)
    <3>1. settled[p] + Delta(c, p) <= report[c].carried[p] /\ Delta(c, p) \in Nat
      BY <1>1, <1>21, <2>2, Writing DEF TrafficInv, Settles
    <3>2. \/ Bytes(Charged(p)') = Bytes(Charged(p))
          \/ Bytes(Charged(p)') = Bytes(Charged(p)) + Delta(c, p)
      BY NewBytes
    <3>3. settled[p] \in Nat /\ report[c].carried[p] \in Nat
      BY DEF TrafficInv, TypeOK, ReportRecord
    <3>4. Bytes(Charged(p)) \in Nat
      BY LedgerBytes DEF Charged
    <3> QED
      BY <1>21, <2>1, <2>2, <3>1, <3>2, <3>3, <3>4
  <2>3. CASE p \notin Applied(c)
    BY <1>21, <2>1, <2>3, NewBytes DEF Paid
  <2> QED
    BY <2>2, <2>3
<1>23. Settles'
  <2> SUFFICES ASSUME NEW p \in Peers, p \notin overtaken'
               PROVE  /\ settled'[p] + CounterDelta(raw'[p], counter[p]) <= carried[p]
                      /\ \A d \in Channels : p \in Dumped(d)' =>
                            /\ report[d].carried[p]
                                 + CounterDelta(report[d].counts[p], counter[p]) <= carried[p]
                            /\ report[d].stamp > newest'[p] =>
                                 settled'[p] + CounterDelta(raw'[p], report[d].counts[p])
                                    <= report[d].carried[p]
                      /\ \A d, e \in Channels :
                            /\ p \in Dumped(d)' /\ p \in Dumped(e)'
                            /\ report[d].stamp < report[e].stamp
                            => report[d].carried[p]
                                + CounterDelta(report[d].counts[p], report[e].counts[p])
                                  <= report[e].carried[p]
    BY <1>1, <1>18 DEF Settles
  <2>1. p \in Peers \ overtaken
    BY <1>21
  <2>2. settled'[p] + CounterDelta(raw'[p], counter[p]) <= carried[p]
    BY <1>21, <2>1 DEF TrafficInv, Settles
  <2>3. \A d \in Channels : p \in Dumped(d)' /\ report[d].stamp > newest'[p] =>
            settled'[p] + CounterDelta(raw'[p], report[d].counts[p]) <= report[d].carried[p]
    <3> SUFFICES ASSUME NEW d \in Channels, p \in Dumped(d)', report[d].stamp > newest'[p]
                 PROVE  settled'[p] + CounterDelta(raw'[p], report[d].counts[p])
                           <= report[d].carried[p]
      OBVIOUS
    <3>1. p \in Dumped(d)
      BY <1>18
    <3>3. CASE p \in Applied(c)
      <4> QED
        BY <1>21, <3>1 DEF TrafficInv, Settles
    <3>4. CASE p \notin Applied(c)
      BY <1>21, <3>1 DEF TrafficInv, Settles
    <3> QED
      BY <3>3, <3>4
  <2> QED
    BY <1>18, <2>1, <2>2, <2>3 DEF TrafficInv, Settles
<1> QED
  BY <1>9, <1>10, <1>11, <1>12, <1>13, <1>14, <1>15, <1>16, <1>20, <1>22, <1>23 DEF TrafficInv

-----------------------------------------------------------------------------
(* The other requests of the administrator.                                *)

\* A step of a block, unblock or lifecycle request that has saved nothing.
LEMMA EditSteps ==
    ASSUME TrafficInv, NEW u \in Users, NEW e \in EditRecord,
           edit' = [edit EXCEPT ![u] = e],
           e.kind # "none" => /\ e.dirty \/ e.limit = limit[u]
                              /\ e.stale \/ /\ e.loaded = status[u]
                                            /\ e.total \in {Unset, agg[<<u, All, Ever>>]},
           requests' \in [Users -> Nat],
           UNCHANGED <<rows, nodeVars, report, bookVars, status, limit, lapsed, reset,
                       resetDay, floor, raced, today>>
    PROVE  TrafficInv'
<1>1. UNCHANGED <<raw, newest, settled, overtaken, ledger, samples, agg, clock>>
  BY DEF bookVars
<1>2. /\ edit' \in [Users -> EditRecord] /\ edit'[u] = e
      /\ \A v \in Users : v # u => edit'[v] = edit[v]
  BY DEF TrafficInv, TypeOK
<1>3. TypeOK'
  BY <1>1, <1>2 DEF TrafficInv, TypeOK, nodeVars
<1>4. EditFits'
  BY <1>1, <1>2 DEF TrafficInv, EditFits
<1>5. TimesFit' /\ ResetFits' /\ LimitIsEnforced'
  BY <1>1 DEF TrafficInv, TimesFit, ResetFits, LimitIsEnforced
<1> QED
  BY <1>1, <1>3, <1>4, <1>5, QuietSteps

\* A request has loaded the present state of the account.
LEMMA LoadUserStep ==
    ASSUME TrafficInv, NEW u \in Users, LoadUser(u)
    PROVE  TrafficInv'
<1>1. PICK kind \in {"block", "unblock", "lifecycle"}, bytes \in {limit[u]} \cup Limits :
          /\ kind = "lifecycle" \/ bytes = limit[u]
          /\ edit' = [edit EXCEPT ![u] =
                     [kind |-> kind, loaded |-> status[u], limit |-> bytes,
                      dirty |-> \/ kind = "block" /\ status[u] # "blocked"
                                \/ kind = "lifecycle" /\ bytes # limit[u],
                      total |-> Unset, stale |-> FALSE]]
  BY DEF LoadUser
<1>2. /\ limit[u] \in Nat /\ status[u] \in Statuses /\ requests' \in [Users -> Nat]
      /\ bytes \in Nat
  BY Constants DEF TrafficInv, TypeOK, LoadUser
<1> DEFINE dirty == \/ kind = "block" /\ status[u] # "blocked"
                    \/ kind = "lifecycle" /\ bytes # limit[u]
           e == [kind |-> kind, loaded |-> status[u], limit |-> bytes, dirty |-> dirty,
                 total |-> Unset, stale |-> FALSE]
<1>3. edit' = [edit EXCEPT ![u] = e]
  BY <1>1
<1>4. dirty \in BOOLEAN /\ (dirty \/ bytes = limit[u])
  BY <1>1
<1> HIDE DEF dirty
<1>5. e \in EditRecord
  BY <1>2, <1>4 DEF EditRecord
<1>6. (e.dirty \/ e.limit = limit[u]) /\ e.loaded = status[u] /\ e.total = Unset
  BY <1>4
<1> HIDE DEF e
<1> QED
  BY <1>2, <1>3, <1>5, <1>6, EditSteps DEF LoadUser

\* The usage that is read is the present one, and no commit is missed by what was loaded.
LEMMA ReadUsageStep ==
    ASSUME TrafficInv, NEW u \in Users, ReadUsage(u)
    PROVE  TrafficInv'
<1> DEFINE e == [edit[u] EXCEPT !.total = agg[<<u, All, Ever>>]]
<1>1. /\ edit \in [Users -> EditRecord] /\ edit[u] \in EditRecord
      /\ agg[<<u, All, Ever>>] \in Nat /\ edit' = [edit EXCEPT ![u] = e]
      /\ requests' \in [Users -> Nat]
  BY KeyTypes DEF TrafficInv, TypeOK, ReadUsage, resetVars
<1>2. /\ e \in EditRecord /\ e.kind = edit[u].kind /\ e.dirty = edit[u].dirty
      /\ e.limit = edit[u].limit /\ e.stale = edit[u].stale /\ e.loaded = edit[u].loaded
      /\ e.total = agg[<<u, All, Ever>>]
  BY <1>1 DEF EditRecord
<1> HIDE DEF e
<1>3. e.kind # "none" => /\ e.dirty \/ e.limit = limit[u]
                         /\ e.stale \/ e.loaded = status[u]
  BY <1>2 DEF TrafficInv, EditFits
<1> QED
  BY <1>1, <1>2, <1>3, EditSteps DEF ReadUsage, resetVars

\* A request that fails has saved nothing.
LEMMA AbortEditStep ==
    ASSUME TrafficInv, NEW u \in Users, AbortEdit(u)
    PROVE  TrafficInv'
<1>1. NoEdit \in EditRecord /\ NoEdit.kind = "none"
  BY IdleTypes DEF NoEdit
<1>2. requests' \in [Users -> Nat]
  BY DEF TrafficInv, TypeOK, AbortEdit, resetVars
<1> QED
  BY <1>1, <1>2, EditSteps DEF AbortEdit, resetVars

\* A request that no commit overlapped saves a status that fits the limit it saves.
LEMMA SaveUserStep ==
    ASSUME TrafficInv, NEW u \in Users, SaveUser(u)
    PROVE  TrafficInv'
<1> DEFINE e == edit[u]
           total == agg[<<u, All, Ever>>]
           set == CASE e.kind = "block" -> "blocked"
                    [] e.kind = "unblock" -> "active"
                    [] OTHER -> e.loaded
           derived == Enforced(set, Usage(u), e.limit)
           writes == derived # e.loaded \/ (e.kind = "block" /\ e.dirty)
           s == IF writes THEN derived ELSE status[u]
<1>1. /\ edit \in [Users -> EditRecord] /\ e \in EditRecord
      /\ status \in [Users -> Statuses] /\ limit \in [Users -> Nat]
      /\ lapsed \in [Users -> BOOLEAN]
  BY DEF TrafficInv, TypeOK
<1>2. /\ e.kind # "none" /\ (e.dirty \/ e.total # Unset)
      /\ status' = [status EXCEPT ![u] = s] /\ limit' = [limit EXCEPT ![u] = e.limit]
      /\ lapsed' = [lapsed EXCEPT ![u] = e.stale] /\ edit' = [edit EXCEPT ![u] = NoEdit]
  BY DEF SaveUser
<1>3. UNCHANGED <<rows, nodeVars, report, raw, newest, settled, overtaken, ledger, samples,
                  agg, clock, reset, resetDay, floor, raced, requests, today>>
  BY DEF SaveUser, bookVars, resetVars
<1>4. s \in Statuses /\ e.limit \in Nat /\ e.stale \in BOOLEAN
  BY <1>1 DEF Enforced, Statuses, EditRecord
<1>5. ~e.stale => e.loaded = status[u] /\ (e.dirty \/ e.total = total)
  BY <1>2 DEF TrafficInv, EditFits
<1>6. ~e.stale /\ Limited(total, e.limit) => s # "active"
  <2> HAVE ~e.stale /\ Limited(total, e.limit)
  <2>1. Usage(u) = total
    BY <1>5 DEF Usage
  <2>2. derived = "limited"
    BY <2>1 DEF Enforced
  <2> QED
    BY <1>5, <2>2
<1> HIDE DEF s, e
<1>7. /\ status' \in [Users -> Statuses] /\ status'[u] = s
      /\ limit' \in [Users -> Nat] /\ limit'[u] = e.limit
      /\ edit' \in [Users -> EditRecord] /\ edit'[u].kind = "none"
      /\ \A v \in Users : v # u => /\ status'[v] = status[v] /\ limit'[v] = limit[v]
                                  /\ edit'[v] = edit[v]
  BY <1>1, <1>2, <1>4, IdleTypes DEF NoEdit
<1>8. /\ lapsed' \in [Users -> BOOLEAN] /\ lapsed'[u] = e.stale
      /\ \A v \in Users : v # u => lapsed'[v] = lapsed[v]
  BY <1>1, <1>2, <1>4, Zenon
<1>9. TypeOK'
  BY <1>3, <1>7, <1>8 DEF TrafficInv, TypeOK, nodeVars
<1>10. EditFits'
  BY <1>3, <1>7 DEF TrafficInv, EditFits
<1>11. LimitIsEnforced'
  BY <1>3, <1>6, <1>7, <1>8 DEF TrafficInv, LimitIsEnforced
<1>12. TimesFit' /\ ResetFits'
  BY <1>3 DEF TrafficInv, TimesFit, ResetFits
<1> QED
  BY <1>3, <1>9, <1>10, <1>11, <1>12, QuietSteps

\* The deletion of a node moves its part of the account's total to the lost rows.
LEMMA DeleteNodeStep ==
    ASSUME TrafficInv, NEW n \in Nodes, DeleteNode(n)
    PROVE  TrafficInv'
<1>1. UNCHANGED <<counter, carried, dumps, report, raw, newest, settled, overtaken, ledger,
                  clock, status, limit, edit, lapsed, reset, resetDay, floor, raced,
                  requests, today>>
  BY DEF DeleteNode, userVars, resetVars
<1>2. /\ n \in nodes /\ nodes' = nodes \ {n} /\ nodes \subseteq Nodes
      /\ rows' = {p \in rows : NodeOf[p] # n} /\ samples' \subseteq samples
      /\ All \notin Nodes /\ IsFiniteSet(Nodes)
  BY TrafficAssumption, Constants DEF TrafficInv, TypeOK, DeleteNode
<1>3. /\ agg \in [Keys -> Nat] /\ agg' \in [Keys -> Nat]
      /\ \A k \in Keys : agg'[k] = IF k[2] = n THEN 0 ELSE agg[k]
  BY DEF TrafficInv, TypeOK, DeleteNode
<1>4. \A u \in Users, m \in Nodes \cup {All}, d \in Days \cup {Ever} :
        agg[<<u, m, d>>] \in Nat /\ agg'[<<u, m, d>>] = IF m = n THEN 0 ELSE agg[<<u, m, d>>]
  BY <1>3, KeyTypes
<1>5. \A u \in Users : agg'[<<u, All, Ever>>] = agg[<<u, All, Ever>>]
  BY <1>2, <1>4
<1>6. TypeOK'
  BY <1>1, <1>2, <1>3 DEF TrafficInv, TypeOK
<1>7. PhasesFit' /\ LocksExclude' /\ LocksOrdered'
  BY <1>1 DEF TrafficInv, PhasesFit, LocksExclude, LocksOrdered
<1>8. ReadsFresh'
  BY <1>1, <1>2, <1>3 DEF TrafficInv, ReadsFresh
<1>9. EditFits' /\ LimitIsEnforced'
  BY <1>1, <1>5 DEF TrafficInv, EditFits, LimitIsEnforced
<1>10. ResetFits'
  <2>1. \A d \in today..MaxDay : d \in Days
    BY Constants DEF TrafficInv, TypeOK
  <2> QED
    BY <1>1, <1>4, <2>1 DEF TrafficInv, ResetFits
<1>11. TimesFit'
  BY <1>1 DEF TrafficInv, TimesFit
<1>12. \A c : Dumped(c)' = Dumped(c)
  BY <1>1 DEF Dumped
<1>13. DumpsFit'
  BY <1>1, <1>2, <1>12 DEF TrafficInv, DumpsFit
<1>14. Settles'
  BY <1>1, <1>12 DEF TrafficInv, Settles
<1>15. \A u, m : Since(u, m)' = Since(u, m)
  BY <1>1 DEF Since
<1>16. LifetimeIsLedger'
  BY <1>1, <1>2, <1>4, <1>15 DEF TrafficInv, LifetimeIsLedger
<1>17. NoOvercharge'
  <2>1. \A p : Charged(p)' = Charged(p)
    BY <1>1 DEF Charged
  <2> QED
    BY <1>1, <2>1 DEF TrafficInv, NoOvercharge
<1>18. ViewsAgree'
  <2> SUFFICES ASSUME NEW u \in Users, ~raced[u]
               PROVE  /\ Total(ByNode(u)') + Bytes(Lost(u)') = agg'[<<u, All, Ever>>]
                      /\ \A m \in Nodes \cup {All} :
                            Total(ByDay(u, m)') = agg'[<<u, m, Ever>>]
    BY <1>1 DEF ViewsAgree
  <2>1. /\ Total(ByNode(u)) + Bytes(Lost(u)) = agg[<<u, All, Ever>>]
        /\ \A m \in Nodes \cup {All} : Total(ByDay(u, m)) = agg[<<u, m, Ever>>]
        /\ agg[<<u, n, Ever>>] = Bytes(Since(u, n))
    BY <1>2 DEF TrafficInv, ViewsAgree, LifetimeIsLedger
  <2>2. Total(ByNode(u)) = Total(ByNode(u)') + Bytes(Since(u, n)) /\ Total(ByNode(u)') \in Nat
    <3>1. ByNode(u) \in [Nodes -> Nat] /\ ByNode(u)' \in [Nodes -> Nat]
      BY <1>4 DEF ByNode
    <3>2. /\ ByNode(u)[n] = ByNode(u)'[n] + Bytes(Since(u, n)) /\ Bytes(Since(u, n)) \in Nat
          /\ \A m \in Nodes : m # n => ByNode(u)[m] = ByNode(u)'[m]
      BY <1>4, <2>1 DEF ByNode
    <3> QED
      BY <1>2, <3>1, <3>2, TotalRaise, TotalType
  <2>3. Bytes(Lost(u)') = Bytes(Lost(u)) + Bytes(Since(u, n))
    <3>1. \A r \in ledger : r.bytes \in Nat /\ NodeOf[r.peer] \in Nodes
      BY Constants DEF TrafficInv, TypeOK, Row
    <3>2. Lost(u)' = Lost(u) \cup Since(u, n)
      BY <1>1, <1>2, <3>1 DEF Lost, Since
    <3>3. Lost(u) \cap Since(u, n) = {}
      BY <1>2 DEF Lost, Since
    <3>4. IsFiniteSet(Lost(u)) /\ IsFiniteSet(Since(u, n))
      BY LedgerBytes DEF Lost, Since
    <3>5. \A r \in Lost(u) \cup Since(u, n) : r.bytes \in Nat
      BY <3>1 DEF Lost, Since
    <3> QED
      BY <3>2, <3>3, <3>4, <3>5, BytesUnion
  <2>4. Bytes(Lost(u)) \in Nat /\ Bytes(Since(u, n)) \in Nat
    BY LedgerBytes DEF Lost, Since
  <2>5. ASSUME NEW m \in Nodes \cup {All}
        PROVE  Total(ByDay(u, m)') = agg'[<<u, m, Ever>>]
    <3>1. \A d \in resetDay[u]..MaxDay : d \in Days
      BY Constants DEF TrafficInv, TypeOK
    <3>2. CASE m # n
      <4>1. ByDay(u, m)' = ByDay(u, m)
        BY <1>1, <1>4, <3>1, <3>2 DEF ByDay
      <4> QED
        BY <1>4, <2>1, <3>2, <4>1
    <3>3. CASE m = n
      <4>1. /\ ByDay(u, m)' \in [resetDay[u]..MaxDay -> Nat]
            /\ \A d \in resetDay[u]..MaxDay : ByDay(u, m)'[d] = 0
        BY <1>1, <1>4, <3>1, <3>3 DEF ByDay
      <4> QED
        BY <1>4, <3>3, <4>1, TotalZero
    <3> QED
      BY <3>2, <3>3
  <2> QED
    BY <1>5, <2>1, <2>2, <2>3, <2>4, <2>5
<1> QED
  BY <1>6, <1>7, <1>8, <1>9, <1>10, <1>11, <1>13, <1>14, <1>16, <1>17, <1>18 DEF TrafficInv

-----------------------------------------------------------------------------
(* The initial state.                                                      *)

\* The first ledger has one row of one byte for each peer row.
LEMMA FirstRows ==
    ASSUME Init, NEW S, S \subseteq rows
    PROVE  LET old == {r \in ledger : r.peer \in S}
           IN  IsFiniteSet(S) /\ IsFiniteSet(old) /\ Bytes(old) = Cardinality(S)
<1> DEFINE R(p) == [peer |-> p, time |-> 1, day |-> 0, bytes |-> 1]
           old == {r \in ledger : r.peer \in S}
           h == [p \in S |-> R(p)]
           f == [r \in old |-> r.bytes]
<1>1. IsFiniteSet(S)
  <2>1. S \in SUBSET Peers
    BY DEF Init
  <2> QED
    BY <2>1, Constants, FS_Subset
<1>2. \A r : r \in old <=> \E p \in S : r = R(p)
  BY DEF Init
<1>3. \A p \in S : R(p).peer = p /\ R(p).bytes = 1
  OBVIOUS
<1>4. h \in Bijection(S, old)
  <2> HIDE DEF R, old
  <2> QED
    BY <1>2, <1>3 DEF Bijection, Injection, Surjection, IsInjective
<1>5. IsFiniteSet(old) /\ Cardinality(old) = Cardinality(S)
  <2> HIDE DEF old, h
  <2> QED
    BY <1>1, <1>4, FS_Bijection DEF ExistsBijection
<1>6. \A r \in old : r.bytes = 1
  BY <1>2
<1>7. f \in [old -> Nat] /\ \A r \in old : f[r] = 1
  BY <1>6
<1>8. Bytes(old) = Total(f)
  BY DEF Bytes
<1> HIDE DEF old, f
<1>9. Total(f) = Cardinality(old)
  BY <1>5, <1>7, TotalOnes
<1> QED
  BY <1>1, <1>5, <1>8, <1>9 DEF old

\* The aggregates of the initial state count the peer rows.
LEMMA FirstCounts ==
    ASSUME Init, NEW u \in Users, NEW n \in Nodes \cup {All}
    PROVE  LET mine == {p \in rows : UserOf[p] = u /\ n \in {NodeOf[p], All}}
           IN  /\ agg[<<u, n, Ever>>] = Cardinality(mine)
               /\ agg[<<u, n, 0>>] = Cardinality(mine)
               /\ \A d \in Days : d # 0 => agg[<<u, n, d>>] = 0
<1> DEFINE mine == {p \in rows : UserOf[p] = u /\ n \in {NodeOf[p], All}}
           On(k) == {p \in rows : k \in KeysOf(p, 0)}
<1>1. \A k \in Keys : agg[k] = Cardinality(On(k))
  BY DEF Init
<1>2. \A p \in rows : p \in Peers
  BY DEF Init
<1>3. \A p \in rows : \A d : <<u, n, d>> \in KeysOf(p, 0) <=>
          u = UserOf[p] /\ n \in {NodeOf[p], All} /\ d \in {0, Ever}
  BY <1>2, KeysOfPeer, Constants
<1>4. Ever \notin Nat /\ 0 \in Days /\ \A d \in Days : d \in Nat
  BY TrafficAssumption, Constants
<1>5. On(<<u, n, Ever>>) = mine /\ On(<<u, n, 0>>) = mine
  BY <1>3
<1>6. ASSUME NEW d \in Days, d # 0
      PROVE  On(<<u, n, d>>) = {}
  BY <1>3, <1>4, <1>6
<1>7. \A d \in Days \cup {Ever} : <<u, n, d>> \in Keys
  BY KeyTypes
<1> HIDE DEF On
<1>8. agg[<<u, n, Ever>>] = Cardinality(mine) /\ agg[<<u, n, 0>>] = Cardinality(mine)
  BY <1>1, <1>4, <1>5, <1>7
<1>9. \A d \in Days : d # 0 => agg[<<u, n, d>>] = 0
  BY <1>1, <1>6, <1>7, FS_EmptySet
<1> QED
  BY <1>8, <1>9

\* The initial state, in which every peer row has one byte.
LEMMA InitInv ==
    ASSUME Init
    PROVE  TrafficInv
<1>1. /\ \A c \in Channels : report[c] = Idle
      /\ \A u \in Users : reset[u] = NoReset /\ edit[u] = NoEdit
      /\ rows \subseteq Peers /\ carried = counter /\ settled = counter
      /\ \A p \in Peers : counter[p] = IF p \in rows THEN 1 ELSE 0
      /\ counter \in [Peers -> Nat]
  BY DEF Init
<1>2. /\ Idle.phase = "idle" /\ Idle.held = {} /\ Idle.batch = {} /\ Idle.round = 0
      /\ Idle.counts = [p \in Peers |-> Unset]
      /\ NoReset.step = 0 /\ NoReset.gone = {} /\ NoEdit.kind = "none"
  BY DEF Idle, NoReset, NoEdit
<1>3. agg \in [Keys -> Nat]
  <2>1. IsFiniteSet(rows)
    BY FirstRows
  <2>2. \A k : Cardinality({p \in rows : k \in KeysOf(p, 0)}) \in Nat
    <3> TAKE k
    <3>1. {p \in rows : k \in KeysOf(p, 0)} \in SUBSET rows
      OBVIOUS
    <3> QED
      BY <2>1, <3>1, FS_Subset, FS_CardinalityType
  <2> QED
    BY <2>2 DEF Init
<1>4. TypeOK
  <2>1. /\ report \in [Channels -> ReportRecord] /\ reset \in [Users -> ResetRecord]
        /\ edit \in [Users -> EditRecord]
    BY IdleTypes DEF Init
  <2>2. ledger \subseteq Row
    BY <1>1, Constants DEF Init, Row
  <2>4. raw \in Counters
    BY DEF Init, Counters
  <2> QED
    BY <1>2, <1>3, <2>1, <2>2, <2>4, Constants DEF Init, TypeOK
<1>5. PhasesFit /\ LocksExclude /\ LocksOrdered /\ ReadsFresh
  BY <1>1, <1>2 DEF PhasesFit, LocksExclude, LocksOrdered, ReadsFresh
<1>6. ResetFits /\ EditFits
  BY <1>1, <1>2 DEF ResetFits, EditFits
<1>7. TimesFit
  <2>1. IsFiniteSet(ledger)
    <3>1. IsFiniteSet({r \in ledger : r.peer \in rows})
      BY FirstRows
    <3>2. {r \in ledger : r.peer \in rows} = ledger
      BY DEF Init
    <3> QED
      BY <3>1, <3>2
  <2> QED
    BY <2>1 DEF Init, TimesFit
<1>8. \A c \in Channels : Dumped(c) = {}
  BY <1>1, <1>2 DEF Dumped
<1>9. DumpsFit
  BY <1>2, <1>8, Constants DEF Init, DumpsFit
<1>10. Settles
  <2>1. \A p \in Peers : CounterDelta(raw[p], counter[p]) = 0
    BY Constants DEF Init, CounterDelta
  <2> QED
    BY <1>1, <1>8, <2>1 DEF Settles
<1>11. LifetimeIsLedger
  <2> SUFFICES ASSUME NEW u \in Users, NEW n \in Nodes \cup {All}
               PROVE  agg[<<u, n, Ever>>] = Bytes(Since(u, n))
    BY DEF LifetimeIsLedger, Init
  <2> DEFINE mine == {p \in rows : UserOf[p] = u /\ n \in {NodeOf[p], All}}
  <2>1. Since(u, n) = {r \in ledger : r.peer \in mine}
    BY DEF Init, Since
  <2>2. mine \subseteq rows
    OBVIOUS
  <2>3. agg[<<u, n, Ever>>] = Cardinality(mine)
    BY FirstCounts
  <2> HIDE DEF mine
  <2> QED
    BY <2>1, <2>2, <2>3, FirstRows
<1>12. ViewsAgree
  <2> SUFFICES ASSUME NEW u \in Users
               PROVE  /\ Total(ByNode(u)) + Bytes(Lost(u)) = agg[<<u, All, Ever>>]
                      /\ \A n \in Nodes \cup {All} :
                            Total(ByDay(u, n)) = agg[<<u, n, Ever>>]
    BY DEF ViewsAgree
  <2>1. Bytes(Lost(u)) = 0
    <3>1. \A r \in ledger : NodeOf[r.peer] \in nodes
      BY <1>1, Constants DEF Init
    <3>2. Lost(u) = {}
      BY <3>1 DEF Lost, Since
    <3> QED
      BY <3>2, BytesOfNone
  <2>2. Total(ByNode(u)) = agg[<<u, All, Ever>>] /\ Total(ByNode(u)) \in Nat
    <3> DEFINE mine == {p \in rows : UserOf[p] = u}
               h == [p \in mine |-> NodeOf[p]]
    <3>1. All \notin Nodes
      BY TrafficAssumption
    <3>2. agg[<<u, All, Ever>>] = Cardinality(mine)
      <4>1. mine = {p \in rows : UserOf[p] = u /\ All \in {NodeOf[p], All}}
        OBVIOUS
      <4> QED
        BY <4>1, FirstCounts
    <3>3. h \in [mine -> Nodes] /\ mine \subseteq rows
      BY <1>1, Constants
    <3>4. ASSUME NEW n \in Nodes
          PROVE  agg[<<u, n, Ever>>] = Cardinality({p \in mine : h[p] = n})
      <4>1. {p \in mine : h[p] = n} = {p \in rows : UserOf[p] = u /\ n \in {NodeOf[p], All}}
        BY <3>1
      <4> HIDE DEF mine, h
      <4> QED
        BY <4>1, FirstCounts
    <3>5. IsFiniteSet(mine) /\ Cardinality(mine) \in Nat
      BY <3>3, FirstRows, FS_CardinalityType
    <3> HIDE DEF mine, h
    <3>6. ByNode(u) = [n \in Nodes |-> Cardinality({p \in mine : h[p] = n})]
      BY <3>4 DEF ByNode
    <3>7. Total(ByNode(u)) = Cardinality(mine)
      BY <3>3, <3>5, <3>6, TotalClasses
    <3> QED
      BY <3>2, <3>5, <3>7
  <2>3. ASSUME NEW n \in Nodes \cup {All}
        PROVE  Total(ByDay(u, n)) = agg[<<u, n, Ever>>]
    <3> DEFINE zero == [d \in Days |-> 0]
               i == agg[<<u, n, Ever>>]
    <3>1. IsFiniteSet(Days) /\ 0 \in Days
      BY Constants, FS_Interval DEF Days
    <3>2. /\ agg[<<u, n, 0>>] = i /\ i \in Nat
          /\ \A d \in Days : d # 0 => agg[<<u, n, d>>] = 0
      BY <1>3, FirstCounts, KeyTypes
    <3>3. ByDay(u, n) = [d \in Days |-> agg[<<u, n, d>>]]
      BY DEF ByDay, Init, Days
    <3>4. ByDay(u, n) \in [Days -> Nat] /\ zero \in [Days -> Nat]
      BY <3>2, <3>3
    <3>5. /\ ByDay(u, n)[0] = zero[0] + i
          /\ \A d \in Days : d # 0 => ByDay(u, n)[d] = zero[d]
      BY <3>1, <3>2, <3>3
    <3>6. \A d \in Days : zero[d] = 0
      OBVIOUS
    <3> HIDE DEF zero, i
    <3>7. Total(ByDay(u, n)) = Total(zero) + i /\ Total(zero) = 0
      BY <3>1, <3>2, <3>4, <3>5, <3>6, TotalRaise, TotalZero
    <3> QED
      BY <3>2, <3>7 DEF i
  <2> QED
    BY <2>1, <2>2, <2>3
<1>13. NoOvercharge
  <2> SUFFICES ASSUME NEW p \in Peers
               PROVE  Bytes(Charged(p)) <= settled[p]
    BY DEF NoOvercharge
  <2> DEFINE S == rows \cap {p}
  <2>1. Charged(p) = {r \in ledger : r.peer \in S}
    BY DEF Init, Charged
  <2>2. S \subseteq rows
    OBVIOUS
  <2>3. p \in rows => S = {p}
    OBVIOUS
  <2>4. p \notin rows => S = {}
    OBVIOUS
  <2>5. Cardinality(S) = IF p \in rows THEN 1 ELSE 0
    BY <2>3, <2>4, FS_Singleton, FS_EmptySet
  <2> HIDE DEF S
  <2>6. Bytes(Charged(p)) = Cardinality(S)
    BY <2>1, <2>2, FirstRows
  <2> QED
    BY <1>1, <2>5, <2>6
<1>14. LimitIsEnforced
  BY Zenon DEF Init, LimitIsEnforced
<1> QED
  BY <1>4, <1>5, <1>6, <1>7, <1>9, <1>10, <1>11, <1>12, <1>13, <1>14 DEF TrafficInv

-----------------------------------------------------------------------------
(* Deadlocks.                                                              *)

\* In a circle of reports that each wait for an owner of their first batch, the owner
\* waited for grows along the circle: the holder has locked it and waits for a later one.
LEMMA OwnersGrow ==
    ASSUME TrafficInv, NEW c \in Channels, NEW d \in Channels,
           c # d, d \in Holder(NextOwner(c)),
           report[d].phase = "locking", report[d].batch # {},
           NextOwner(d) \in report[d].first
    PROVE  NextOwner(c) < NextOwner(d)
<1>1. NextOwner(d) \in report[d].batch
  BY NextOwnerIsFirst DEF TrafficInv
<1>2. NextOwner(c) \in report[d].held
  BY DEF Holder
<1> QED
  BY <1>1, <1>2 DEF TrafficInv, LocksOrdered

\* Owners are finite in number, so no such circle closes.
LEMMA CirclesNeedLateOwners ==
    ASSUME TrafficInv
    PROVE  ReportsWaitInOrder
<1> SUFFICES ASSUME NEW D \in SUBSET Channels, Circle(D),
                    \A c \in D : NextOwner(c) \in report[c].first
             PROVE  FALSE
  BY DEF ReportsWaitInOrder
<1> DEFINE Later(c) == {v \in Users : v > NextOwner(c)}
           ranks == {Cardinality(Later(c)) : c \in D}
<1>1. \A c \in D : /\ c \in Channels
                   /\ report[c].phase = "locking" /\ report[c].batch # {}
                   /\ \E d \in D : c # d /\ d \in Holder(NextOwner(c))
  BY DEF Circle, Waits
<1>2. \A c \in D : NextOwner(c) \in Users
  <2> TAKE c \in D
  <2> QED
    BY DEF TrafficInv, TypeOK, ReportRecord
<1>3. \A c \in D : \E d \in D : NextOwner(c) < NextOwner(d)
  BY <1>1, OwnersGrow
<1>4. \A c \in D : IsFiniteSet(Later(c)) /\ Cardinality(Later(c)) \in Nat
  <2> TAKE c \in D
  <2>1. Later(c) \in SUBSET Users
    OBVIOUS
  <2> QED
    BY <2>1, Constants, FS_Subset, FS_CardinalityType
<1>5. \A c, d \in D :
         NextOwner(c) < NextOwner(d) => Cardinality(Later(d)) < Cardinality(Later(c))
  <2> SUFFICES ASSUME NEW c \in D, NEW d \in D, NextOwner(c) < NextOwner(d)
               PROVE  Cardinality(Later(d)) < Cardinality(Later(c))
    OBVIOUS
  <2>1. NextOwner(c) \in Nat /\ NextOwner(d) \in Nat /\ \A v \in Users : v \in Nat
    BY <1>2, Constants
  <2>2. /\ Later(d) \in SUBSET Later(c)
        /\ NextOwner(d) \in Later(c) /\ NextOwner(d) \notin Later(d)
    BY <1>2, <2>1
  <2> HIDE DEF Later
  <2>3. Cardinality(Later(d)) <= Cardinality(Later(c))
    BY <1>4, <2>2, FS_Subset
  <2>4. Cardinality(Later(d)) # Cardinality(Later(c))
    BY <1>4, <2>2, FS_Subset
  <2> QED
    BY <1>4, <2>3, <2>4
<1> HIDE DEF Later
<1>6. ranks \in SUBSET Nat /\ ranks # {}
  BY <1>4 DEF Circle
<1>7. PICK m \in ranks : \A k \in ranks : m <= k
  BY <1>6, Least
<1>8. PICK c \in D : m = Cardinality(Later(c))
  BY <1>7
<1>9. PICK d \in D : NextOwner(c) < NextOwner(d)
  BY <1>3
<1>10. Cardinality(Later(d)) < m /\ m <= Cardinality(Later(d))
  BY <1>5, <1>7, <1>8, <1>9
<1> QED
  BY <1>4, <1>8, <1>10

-----------------------------------------------------------------------------
(* The theorems.                                                           *)

\* Every step keeps the invariant.
LEMMA NextInv ==
    ASSUME TrafficInv, Next
    PROVE  TrafficInv'
<1>1. ASSUME NEW p \in Peers, Carry(p) \/ CreatePeer(p) PROVE TrafficInv'
  BY <1>1, CarryStep, CreatePeerStep
<1>2. ASSUME NEW n \in Nodes, RestartTunnel(n) \/ DeleteNode(n) PROVE TrafficInv'
  BY <1>2, RestartTunnelStep, DeleteNodeStep
<1>3. ASSUME NEW c \in Channels, LoseReport(c) \/ AbortReport(c) PROVE TrafficInv'
  BY <1>3, EndReport DEF LoseReport, AbortReport
<1>4. ASSUME NEW c \in Channels,
             \/ TakeDump(c) \/ NextBatch(c) \/ LockOwner(c) \/ ReadRows(c)
             \/ WriteReport(c)
      PROVE  TrafficInv'
  BY <1>4, TakeDumpStep, NextBatchStep, LockOwnerStep, ReadRowsStep, WriteReportStep
<1>5. ASSUME NEW u \in Users,
             BeginReset(u) \/ DeleteRows(u) \/ CommitReset(u) \/ AbortReset(u)
      PROVE  TrafficInv'
  BY <1>5, BeginResetStep, DeleteRowsStep, CommitResetStep, AbortResetStep
<1>6. ASSUME NEW u \in Users,
             LoadUser(u) \/ ReadUsage(u) \/ SaveUser(u) \/ AbortEdit(u)
      PROVE  TrafficInv'
  BY <1>6, LoadUserStep, ReadUsageStep, SaveUserStep, AbortEditStep
<1> QED
  BY <1>1, <1>2, <1>3, <1>4, <1>5, <1>6, NextDayStep, CleanupStep DEF Next

\* So does a step that changes nothing.
LEMMA StutterInv ==
    ASSUME TrafficInv, UNCHANGED vars
    PROVE  TrafficInv'
<1>1. UNCHANGED <<nodes, rows, counter, carried, report, dumps, bookVars, userVars,
                  resetVars, today>>
  BY DEF vars, bookVars, userVars, resetVars
<1>2. counter' \in [Peers -> Nat] /\ carried' \in [Peers -> Nat]
  BY <1>1 DEF TrafficInv, TypeOK
<1> QED
  BY <1>1, <1>2, TunnelSteps

\* The invariant holds of every behaviour.
THEOREM AccountingInvariant == Spec => []TrafficInv
<1>1. Init => TrafficInv
  BY InitInv
<1>2. TrafficInv /\ [Next]_vars => TrafficInv'
  BY NextInv, StutterInv
<1> QED
  BY <1>1, <1>2, PTL DEF Spec

\* Every variable of the accounting keeps its type.
THEOREM AccountingTypes == Spec => []TypeOK
<1>1. TrafficInv => TypeOK
  BY DEF TrafficInv
<1> QED
  BY <1>1, AccountingInvariant, PTL

\* The lifetime totals of _increase_aggregate, of an account and on each of its nodes, are
\* what the ledger got since the last reset.
THEOREM LifetimesAreLedgers == Spec => []LifetimeIsLedger
<1>1. TrafficInv => LifetimeIsLedger
  BY DEF TrafficInv
<1> QED
  BY <1>1, AccountingInvariant, PTL

\* The totals by day add up to the account's and each node's, and the totals by node to
\* the account's but for the nodes deleted since the last reset.
THEOREM ViewsAlwaysAgree == Spec => []ViewsAgree
<1>1. TrafficInv => ViewsAgree
  BY DEF TrafficInv
<1> QED
  BY <1>1, AccountingInvariant, PTL

\* _counter_delta charges no byte twice, through lost reports and restarted tunnels.
THEOREM NobodyIsOvercharged == Spec => []NoOvercharge
<1>1. TrafficInv => NoOvercharge
  BY DEF TrafficInv
<1> QED
  BY <1>1, AccountingInvariant, PTL

\* An account at its limit is blocked, unless the last reset, block, unblock or lifecycle
\* request of it was overlapped by a commit.
THEOREM LimitsAreEnforced == Spec => []LimitIsEnforced
<1>1. TrafficInv => LimitIsEnforced
  BY DEF TrafficInv
<1> QED
  BY <1>1, AccountingInvariant, PTL

\* Reports wait for each other in a circle only over an owner that _lock_owner_rows
\* found in a later round.
THEOREM ReportsAreOrdered == Spec => []ReportsWaitInOrder
<1>1. TrafficInv => ReportsWaitInOrder
  BY CirclesNeedLateOwners
<1> QED
  BY <1>1, AccountingInvariant, PTL
=============================================================================
