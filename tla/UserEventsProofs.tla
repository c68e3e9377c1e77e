-------------------------- MODULE UserEventsProofs --------------------------
(***************************************************************************)
(* Proofs about UserEvents for any number of accounts and streams.         *)
(***************************************************************************)
EXTENDS UserEvents, FiniteSetTheorems, TLAPS

\* What Set, the update of several streams at once, returns.
LEMMA SetType ==
    ASSUME NEW R, NEW f \in [Streams -> R], NEW S, NEW v \in R
    PROVE  /\ Set(f, S, v) \in [Streams -> R]
           /\ \A s \in Streams : Set(f, S, v)[s] = IF s \in S THEN v ELSE f[s]
BY DEF Set

\* A notification that is sent adds its account to those on the wire.
LEMMA AccountsAppend ==
    ASSUME NEW w \in Seq(Users \X Reasons), NEW e \in Users \X Reasons
    PROVE  Accounts(w) \subseteq Accounts(Append(w, e)) /\ e[1] \in Accounts(Append(w, e))
<1>1. /\ Len(Append(w, e)) = Len(w) + 1
      /\ \A i \in 1..Len(w) : Append(w, e)[i] = w[i]
      /\ Append(w, e)[Len(w) + 1] = e
  OBVIOUS
<1>2. Len(w) \in Nat
  OBVIOUS
<1> QED
  BY <1>1, <1>2 DEF Accounts

\* Taking the first notification leaves the accounts of the others.
LEMMA AccountsTail ==
    ASSUME NEW w \in Seq(Users \X Reasons), w # <<>>
    PROVE  Accounts(w) \subseteq Accounts(Tail(w)) \cup {Head(w)[1]}
<1>1. /\ Len(w) \in Nat \ {0}
      /\ Len(Tail(w)) = Len(w) - 1
      /\ \A i \in 1..Len(Tail(w)) : Tail(w)[i] = w[i + 1]
      /\ Head(w) = w[1]
  OBVIOUS
<1>2. SUFFICES ASSUME NEW i \in 1..Len(w)
               PROVE  w[i][1] \in Accounts(Tail(w)) \cup {Head(w)[1]}
  BY DEF Accounts
<1>3. CASE i = 1
  BY <1>1, <1>3
<1>4. CASE i # 1
  <2>1. i - 1 \in 1..Len(Tail(w)) /\ Tail(w)[i - 1] = w[i]
    BY <1>1, <1>4
  <2> QED
    BY <2>1 DEF Accounts
<1> QED
  BY <1>3, <1>4

\* A cut splits the accounts between what is kept and what is lost.
LEMMA AccountsCut ==
    ASSUME NEW w \in Seq(Users \X Reasons), NEW k \in 0..Len(w)
    PROVE  Accounts(w) \subseteq Accounts(SubSeq(w, 1, k))
                                 \cup Accounts(SubSeq(w, k + 1, Len(w)))
<1>1. /\ Len(w) \in Nat /\ k \in Nat /\ k <= Len(w)
      /\ Len(SubSeq(w, 1, k)) = k
      /\ \A i \in 1..k : SubSeq(w, 1, k)[i] = w[i]
  OBVIOUS
<1>2. /\ Len(SubSeq(w, k + 1, Len(w))) = Len(w) - k
      /\ \A i \in 1..(Len(w) - k) : SubSeq(w, k + 1, Len(w))[i] = w[k + i]
  BY <1>1
<1>3. SUFFICES ASSUME NEW i \in 1..Len(w)
               PROVE  w[i][1] \in Accounts(SubSeq(w, 1, k))
                                  \cup Accounts(SubSeq(w, k + 1, Len(w)))
  BY DEF Accounts
<1>4. CASE i <= k
  <2>1. i \in 1..Len(SubSeq(w, 1, k)) /\ SubSeq(w, 1, k)[i] = w[i]
    BY <1>1, <1>4
  <2> QED
    BY <2>1 DEF Accounts
<1>5. CASE i > k
  <2>1. /\ i - k \in 1..Len(SubSeq(w, k + 1, Len(w)))
        /\ SubSeq(w, k + 1, Len(w))[i - k] = w[i]
    BY <1>1, <1>2, <1>5
  <2> QED
    BY <2>1 DEF Accounts
<1> QED
  BY <1>1, <1>4, <1>5

\* The wire keeps its type when it is appended to, read from or cut.
LEMMA WireType ==
    ASSUME TypeOK
    PROVE  /\ \A u \in Users, r \in Reasons : Len(wire) < MaxWire =>
                 Append(wire, <<u, r>>) \in Seq(Users \X Reasons)
                 /\ Len(Append(wire, <<u, r>>)) <= MaxWire
           /\ wire # <<>> => /\ Tail(wire) \in Seq(Users \X Reasons)
                             /\ Len(Tail(wire)) <= MaxWire
                             /\ Head(wire)[1] \in Users
           /\ \A k \in 0..Len(wire) :
                 /\ SubSeq(wire, 1, k) \in Seq(Users \X Reasons)
                 /\ Len(SubSeq(wire, 1, k)) <= MaxWire
<1> DEFINE T == Users \X Reasons
<1>1. wire \in Seq(T) /\ Len(wire) <= MaxWire /\ MaxWire \in Nat
  BY ConstantsAssumption DEF TypeOK
<1>2. ASSUME NEW u \in Users, NEW r \in Reasons, Len(wire) < MaxWire
      PROVE  /\ Append(wire, <<u, r>>) \in Seq(T)
             /\ Len(Append(wire, <<u, r>>)) <= MaxWire
  <2>1. <<u, r>> \in T
    OBVIOUS
  <2> HIDE DEF T
  <2> QED
    BY <1>1, <1>2, <2>1
<1>3. ASSUME wire # <<>>
      PROVE  Tail(wire) \in Seq(T) /\ Len(Tail(wire)) <= MaxWire /\ Head(wire) \in T
  <2> HIDE DEF T
  <2> QED
    BY <1>1, <1>3
<1>4. ASSUME NEW k \in 0..Len(wire)
      PROVE  SubSeq(wire, 1, k) \in Seq(T) /\ Len(SubSeq(wire, 1, k)) <= MaxWire
  <2> HIDE DEF T
  <2> QED
    BY <1>1
<1> QED
  BY <1>2, <1>3, <1>4

\* What StreamInv says of one stream, and what it says of the places.
Kept(s) ==
    /\ page[s] = "stale" => UnderWay(s)
    /\ s \in subs => Open(s) /\ slot[s] # "terminated"
    /\ Open(s) /\ s \notin subs => slot[s] = "terminated"
    /\ ~Open(s) => slot[s] = "empty" /\ page[s] = "fresh"

Places == IsFiniteSet(subs) /\ Cardinality(subs) <= MaxSubscriptions

\* The invariant, stream by stream.
LEMMA InvByStream ==
    StreamInv <=> TypeOK /\ Places /\ \A s \in Streams : Kept(s)
BY DEF StreamInv, Places, Kept, OnlyKnownLosses, PlacesAreReturned, ClosedIsClean

\* The same of the next state.
LEMMA InvByStreamNext ==
    TypeOK' /\ Places' /\ (\A s \in Streams : Kept(s)') => StreamInv'
BY DEF StreamInv, Places, Kept, OnlyKnownLosses, PlacesAreReturned, ClosedIsClean

\* Registering one more stream below the limit, or dropping one, keeps the limit.
LEMMA PlacesStep ==
    ASSUME Places, NEW s
    PROVE  /\ Cardinality(subs) < MaxSubscriptions =>
                 /\ IsFiniteSet(subs \cup {s})
                 /\ Cardinality(subs \cup {s}) <= MaxSubscriptions
           /\ IsFiniteSet(subs \ {s}) /\ Cardinality(subs \ {s}) <= MaxSubscriptions
<1>1. /\ IsFiniteSet(subs \cup {s})
      /\ \/ Cardinality(subs \cup {s}) = Cardinality(subs)
         \/ Cardinality(subs \cup {s}) = Cardinality(subs) + 1
  BY FS_AddElement DEF Places
<1>2. /\ IsFiniteSet(subs \ {s})
      /\ \/ Cardinality(subs \ {s}) = Cardinality(subs)
         \/ Cardinality(subs \ {s}) = Cardinality(subs) - 1
  BY FS_RemoveElement DEF Places
<1>3. Cardinality(subs) \in Nat /\ MaxSubscriptions \in Nat
  BY FS_CardinalityType, ConstantsAssumption DEF Places
<1> QED
  BY <1>1, <1>2, <1>3 DEF Places

\* A commit: every open stream is stale and its notification on the wire, or the
\* listener is away.
LEMMA CommitStep ==
    ASSUME StreamInv, NEW u \in Users, NEW r \in Reasons, Commit(u, r)
    PROVE  StreamInv'
<1> USE DEF hubVars, fanVars, streamVars
<1>0. TypeOK /\ Places /\ \A s \in Streams : Kept(s)
  BY InvByStream
<1> DEFINE behind == {s \in Of(u) : Open(s)}
           fresh  == {s \in behind : page[s] = "fresh"}
<1>1. /\ \/ wire' = Append(wire, <<u, r>>) /\ Len(wire) < MaxWire
            /\ page' = Set(page, fresh, "stale")
         \/ wire' = wire /\ page' = Set(page, behind, "outage")
      /\ UNCHANGED <<stopping, listener, subs, window, trailing, state, slot, token>>
  BY DEF Commit
<1>2. TypeOK'
  <2>1. wire' \in Seq(Users \X Reasons) /\ Len(wire') <= MaxWire
    BY <1>0, <1>1, WireType DEF TypeOK
  <2>2. page' \in [Streams -> Page]
    BY <1>0, <1>1 DEF TypeOK, Set, Page
  <2> QED
    BY <1>0, <1>1, <2>1, <2>2 DEF TypeOK
<1>3. ASSUME NEW s \in Streams PROVE Kept(s)'
  <2>1. /\ page[s] \in Page
        /\ page'[s] # page[s] => s \in behind
        /\ page'[s] = "stale" => page[s] = "stale" \/ wire' = Append(wire, <<u, r>>)
    BY <1>0, <1>1 DEF TypeOK, Set, Page
  <2>2. page'[s] = "stale" /\ page[s] # "stale" => UserOf[s] \in Accounts(wire')
    BY <1>0, <1>1, <2>1, AccountsAppend DEF TypeOK, Of
  <2>3. Accounts(wire) \subseteq Accounts(wire')
    BY <1>0, <1>1, AccountsAppend DEF TypeOK
  <2>4. (UnderWay(s) => UnderWay(s)') /\ (Open(s)' <=> Open(s))
    BY <1>1, <2>3 DEF UnderWay, Open
  <2>5. page'[s] = "stale" => UnderWay(s)'
    BY <1>0, <2>2, <2>4 DEF Kept, UnderWay
  <2>6. s \in behind => Open(s)
    OBVIOUS
  <2> QED
    BY <1>0, <1>1, <2>1, <2>4, <2>5, <2>6 DEF Kept
<1>4. Places'
  BY <1>0, <1>1 DEF Places
<1> QED
  BY <1>2, <1>3, <1>4, InvByStreamNext

\* The listener's own steps: only a lost connection loses notifications, and it
\* marks the pages they were for.
LEMMA ListenerStep ==
    ASSUME StreamInv, Attach \/ NoticeLoss \/ LoseConnection
    PROVE  StreamInv'
<1> USE DEF hubVars, fanVars, streamVars
<1>0. TypeOK /\ Places /\ \A s \in Streams : Kept(s)
  BY InvByStream
<1>1. CASE Attach \/ NoticeLoss
  <2>1. /\ listener' \in Listener
        /\ UNCHANGED <<wire, stopping, fanVars, streamVars, page>>
    BY <1>1 DEF Attach, NoticeLoss, Listener
  <2>2. TypeOK' /\ Places'
    BY <1>0, <2>1 DEF TypeOK, Places
  <2>3. \A s \in Streams : Kept(s)'
    BY <1>0, <2>1 DEF Kept, UnderWay, Open
  <2> QED
    BY <2>2, <2>3, InvByStreamNext
<1>2. CASE LoseConnection
  <2>1. PICK k \in 0..Len(wire) :
           LET lost == Accounts(SubSeq(wire, k + 1, Len(wire)))
           IN  /\ wire' = SubSeq(wire, 1, k)
               /\ page' = Set(page, {s \in Streams : Open(s) /\ UserOf[s] \in lost},
                              "outage")
    BY <1>2 DEF LoseConnection
  <2> DEFINE lost == Accounts(SubSeq(wire, k + 1, Len(wire)))
             hit  == {s \in Streams : Open(s) /\ UserOf[s] \in lost}
  <2>2. /\ wire' = SubSeq(wire, 1, k) /\ page' = Set(page, hit, "outage")
        /\ listener' = "dead" /\ UNCHANGED <<stopping, fanVars, streamVars>>
    BY <1>2, <2>1 DEF LoseConnection
  <2>3. TypeOK'
    <3>1. wire' \in Seq(Users \X Reasons) /\ Len(wire') <= MaxWire
      BY <1>0, <2>2, WireType
    <3>2. page' \in [Streams -> Page]
      BY <1>0, <2>2 DEF TypeOK, Set, Page
    <3> QED
      BY <1>0, <2>2, <3>1, <3>2 DEF TypeOK, Listener
  <2>4. ASSUME NEW s \in Streams PROVE Kept(s)'
    <3>1. /\ page'[s] = IF s \in hit THEN "outage" ELSE page[s]
          /\ Open(s)' <=> Open(s)
      BY <1>0, <2>2 DEF TypeOK, Set, Open
    <3>2. Accounts(wire) \subseteq Accounts(wire') \cup lost
      BY <1>0, <2>2, AccountsCut DEF TypeOK
    <3>3. page'[s] = "stale" => Open(s) /\ UserOf[s] \notin lost /\ page[s] = "stale"
      BY <1>0, <3>1 DEF Kept
    <3>4. page'[s] = "stale" => UnderWay(s)'
      BY <1>0, <2>2, <3>2, <3>3 DEF Kept, UnderWay
    <3>5. s \in hit => Open(s)
      OBVIOUS
    <3> QED
      BY <1>0, <2>2, <3>1, <3>4, <3>5 DEF Kept
  <2>5. Places'
    BY <1>0, <2>2 DEF Places
  <2> QED
    BY <2>3, <2>4, <2>5, InvByStreamNext
<1> QED
  BY <1>1, <1>2

\* A delivery to account u: each of its streams ends up with a reason in its slot,
\* or had its timer there.
LEMMA DeliverStep ==
    ASSUME StreamInv, NEW u \in Users, DeliverTo(u),
           UNCHANGED <<listener, stopping>>,
           wire' \in Seq(Users \X Reasons), Len(wire') <= MaxWire,
           Accounts(wire) \subseteq Accounts(wire') \cup {u}
    PROVE  StreamInv'
<1>0. TypeOK /\ Places /\ \A s \in Streams : Kept(s)
  BY InvByStream
<1> DEFINE mine  == subs \cap Of(u)
           empty == {s \in mine : slot[s] = "empty"}
           timed == {s \in mine : slot[s] = "timer" /\ page[s] = "stale"}
<1>1. /\ trailing' = [trailing EXCEPT ![u] = FALSE]
      /\ window' = [window EXCEPT ![u] = TRUE]
      /\ slot' = Set(slot, empty, "reason") /\ page' = Set(page, timed, "collided")
      /\ UNCHANGED <<subs, state, token>>
  BY DEF DeliverTo
<1>2. TypeOK'
  <2>1. slot' \in [Streams -> Slot] /\ page' \in [Streams -> Page]
    BY <1>0, <1>1 DEF TypeOK, Set, Slot, Page
  <2> QED
    BY <1>0, <1>1, <2>1 DEF TypeOK
<1>3. ASSUME NEW s \in Streams PROVE Kept(s)'
  <2>1. /\ slot'[s] = (IF s \in empty THEN "reason" ELSE slot[s])
        /\ page'[s] = (IF s \in timed THEN "collided" ELSE page[s])
        /\ slot[s] \in Slot
        /\ Open(s)' <=> Open(s)
    BY <1>0, <1>1 DEF TypeOK, Set, Open
  <2>2. CASE UserOf[s] = u
    <3>1. Open(s) => \/ slot'[s] \in {"reason", "terminated"}
                     \/ slot[s] = "timer" /\ s \in subs
      BY <1>0, <2>1, <2>2 DEF Kept, Of, Slot
    <3>2. page'[s] = "stale" => UnderWay(s)'
      BY <1>0, <2>1, <2>2, <3>1 DEF Kept, Of, UnderWay
    <3> QED
      BY <1>0, <1>1, <2>1, <3>2 DEF Kept, Open
  <2>3. CASE UserOf[s] # u
    <3>1. slot'[s] = slot[s] /\ page'[s] = page[s]
      BY <2>1, <2>3 DEF Of
    <3>2. UserOf[s] \in Users /\ trailing'[UserOf[s]] = trailing[UserOf[s]]
      BY <1>0, <1>1, <2>3, ConstantsAssumption DEF TypeOK
    <3>3. UnderWay(s) => UnderWay(s)'
      BY <1>1, <2>3, <3>1, <3>2 DEF UnderWay
    <3> QED
      BY <1>0, <1>1, <2>1, <3>1, <3>3 DEF Kept
  <2> QED
    BY <2>2, <2>3
<1>4. Places'
  BY <1>0, <1>1 DEF Places
<1> QED
  BY <1>2, <1>3, <1>4, InvByStreamNext

\* The fan-out of one notification, and the two timers of an account.
LEMMA FanOutStep ==
    ASSUME StreamInv, FanOut \/ \E u \in Users : WindowEnds(u) \/ TrailingFires(u)
    PROVE  StreamInv'
<1> USE DEF hubVars, fanVars, streamVars
<1>0. TypeOK /\ Places /\ \A s \in Streams : Kept(s)
  BY InvByStream
<1>1. CASE FanOut
  <2> DEFINE u == Head(wire)[1]
  <2>1. /\ wire # <<>> /\ wire' = Tail(wire) /\ UNCHANGED <<listener, stopping>>
        /\ u \in Users
        /\ wire' \in Seq(Users \X Reasons) /\ Len(wire') <= MaxWire
    BY <1>0, <1>1, WireType DEF FanOut
  <2>2. Accounts(wire) \subseteq Accounts(wire') \cup {u}
    BY <1>0, <2>1, AccountsTail DEF TypeOK
  <2>3. CASE DeliverTo(u)
    BY <2>1, <2>2, <2>3, DeliverStep
  <2>4. CASE /\ UNCHANGED <<subs, window, streamVars, page>>
             /\ \/ subs \cap Of(u) = {} /\ trailing' = trailing
                \/ trailing' = [trailing EXCEPT ![u] = TRUE]
    <3>1. TypeOK' /\ Places'
      BY <1>0, <2>1, <2>4 DEF TypeOK, Places
    <3>2. ASSUME NEW s \in Streams PROVE Kept(s)'
      <4>1. /\ UserOf[s] \in Users
            /\ trailing[UserOf[s]] => trailing'[UserOf[s]]
        BY <1>0, <2>4, ConstantsAssumption DEF TypeOK
      <4>2. UserOf[s] = u => \/ s \notin subs
                             \/ trailing'[u]
        BY <1>0, <2>1, <2>4 DEF TypeOK, Of
      <4>3. page[s] = "stale" => UnderWay(s)'
        BY <1>0, <2>2, <2>4, <4>1, <4>2 DEF Kept, UnderWay, Open
      <4> QED
        BY <1>0, <2>4, <4>3 DEF Kept, Open
    <3> QED
      BY <3>1, <3>2, InvByStreamNext
  <2> QED
    BY <1>1, <2>3, <2>4 DEF FanOut, BookTrailing
<1>2. ASSUME NEW u \in Users, WindowEnds(u) PROVE StreamInv'
  <2>1. TypeOK' /\ Places'
    BY <1>0, <1>2 DEF WindowEnds, TypeOK, Places
  <2>2. \A s \in Streams : Kept(s)'
    BY <1>0, <1>2 DEF WindowEnds, Kept, UnderWay, Open
  <2> QED
    BY <2>1, <2>2, InvByStreamNext
<1>3. ASSUME NEW u \in Users, TrailingFires(u) PROVE StreamInv'
  BY <1>0, <1>3, DeliverStep DEF TrailingFires, TypeOK
<1> QED
  BY <1>1, <1>2, <1>3

\* A stream that ends leaves the other streams of its account their trailing
\* delivery.
LEMMA EndStep ==
    ASSUME StreamInv, NEW s \in Streams, End(s), UNCHANGED hubVars
    PROVE  StreamInv'
<1>0. TypeOK /\ Places /\ \A x \in Streams : Kept(x)
  BY InvByStream
<1> DEFINE u == UserOf[s]
<1>1. /\ state' = [state EXCEPT ![s] = "closed"] /\ slot' = [slot EXCEPT ![s] = "empty"]
      /\ token' = [token EXCEPT ![s] = "valid"] /\ page' = [page EXCEPT ![s] = "fresh"]
      /\ subs' = subs \ {s} /\ UNCHANGED <<wire, listener, stopping>>
      /\ window' = [window EXCEPT ![u] = @ /\ subs' \cap Of(u) # {}]
      /\ trailing' = [trailing EXCEPT ![u] = @ /\ subs' \cap Of(u) # {}]
  BY DEF End, Without, hubVars
<1>2. u \in Users
  BY ConstantsAssumption
<1>3. TypeOK'
  <2>1. /\ state' \in [Streams -> State] /\ slot' \in [Streams -> Slot]
        /\ token' \in [Streams -> Token] /\ page' \in [Streams -> Page]
        /\ subs' \in SUBSET Streams
    BY <1>0, <1>1 DEF TypeOK, State, Slot, Token, Page
  <2>2. window' \in [Users -> BOOLEAN] /\ trailing' \in [Users -> BOOLEAN]
    BY <1>0, <1>1, <1>2 DEF TypeOK
  <2> QED
    BY <1>0, <1>1, <2>1, <2>2 DEF TypeOK
<1>4. ASSUME NEW x \in Streams PROVE Kept(x)'
  <2>1. CASE x = s
    BY <1>0, <1>1, <2>1 DEF TypeOK, Kept, Open
  <2>2. CASE x # s
    <3>1. /\ state'[x] = state[x] /\ slot'[x] = slot[x] /\ page'[x] = page[x]
          /\ x \in subs' <=> x \in subs
      BY <1>0, <1>1, <2>2 DEF TypeOK
    <3>2. UserOf[x] \in Users
      BY ConstantsAssumption
    <3>3. x \in subs /\ trailing[UserOf[x]] => trailing'[UserOf[x]]
      BY <1>0, <1>1, <1>2, <2>2, <3>2 DEF TypeOK, Of
    <3>4. page[x] = "stale" => UnderWay(x)'
      BY <1>0, <1>1, <3>1, <3>3 DEF Kept, UnderWay, Open
    <3> QED
      BY <1>0, <3>1, <3>4 DEF Kept, Open
  <2> QED
    BY <2>1, <2>2
<1>5. Places'
  BY <1>0, <1>1, PlacesStep DEF Places
<1> QED
  BY <1>3, <1>4, <1>5, InvByStreamNext

\* The other steps of one stream touch that stream alone.
LEMMA OneStreamStep ==
    ASSUME StreamInv, NEW s \in Streams,
           \/ Subscribe(s) \/ Connected(s) \/ TickerFires(s) \/ AuthComesDue(s)
           \/ TakeItem(s) \/ Continue(s) \/ Revoke(s)
    PROVE  StreamInv'
<1> USE DEF hubVars, fanVars
<1>0. TypeOK /\ Places /\ \A x \in Streams : Kept(x)
  BY InvByStream
<1>1. /\ UNCHANGED <<wire, listener, stopping, window, trailing>>
      /\ subs' \in {subs, subs \cup {s}}
      /\ state' \in {state} \cup {[state EXCEPT ![s] = v] : v \in State}
      /\ slot' \in {slot} \cup {[slot EXCEPT ![s] = v] : v \in Slot}
      /\ token' \in {token} \cup {[token EXCEPT ![s] = v] : v \in Token}
      /\ page' \in {page, [page EXCEPT ![s] = "fresh"]}
  BY DEF Subscribe, Connected, TickerFires, AuthComesDue, TakeItem, Continue, Revoke,
         PageReads, State, Slot, Token
<1>2. TypeOK'
  <2>1. state' \in [Streams -> State] /\ slot' \in [Streams -> Slot]
    BY <1>0, <1>1 DEF TypeOK
  <2>2. token' \in [Streams -> Token] /\ page' \in [Streams -> Page]
    BY <1>0, <1>1 DEF TypeOK, Page
  <2> QED
    BY <1>0, <1>1, <2>1, <2>2 DEF TypeOK
<1>3. ASSUME NEW x \in Streams PROVE Kept(x)'
  <2>1. CASE x # s
    <3>1. /\ state'[x] = state[x] /\ slot'[x] = slot[x] /\ page'[x] = page[x]
          /\ x \in subs' <=> x \in subs
      BY <1>0, <1>1, <2>1 DEF TypeOK
    <3> QED
      BY <1>0, <1>1, <3>1 DEF Kept, UnderWay, Open
  <2>2. CASE x = s
    <3> USE <1>0, <2>2 DEF TypeOK, Kept, UnderWay, Open
    <3>1. CASE Subscribe(s)
      BY <3>1 DEF Subscribe
    <3>2. CASE Connected(s)
      BY <3>2 DEF Connected, PageReads
    <3>3. CASE TickerFires(s)
      BY <3>3 DEF TickerFires
    <3>4. CASE AuthComesDue(s)
      BY <3>4 DEF AuthComesDue
    <3>5. CASE TakeItem(s)
      BY <3>5 DEF TakeItem, PageReads
    <3>6. CASE Continue(s)
      BY <3>6 DEF Continue
    <3>7. CASE Revoke(s)
      BY <3>7 DEF Revoke
    <3> QED
      BY <3>1, <3>2, <3>3, <3>4, <3>5, <3>6, <3>7
  <2> QED
    BY <2>1, <2>2
<1>4. Places'
  <2>1. CASE Subscribe(s)
    BY <1>0, <2>1, PlacesStep DEF Subscribe, Places
  <2>2. CASE ~Subscribe(s)
    BY <1>0, <2>2 DEF Places, Connected, TickerFires, AuthComesDue, TakeItem, Continue,
                      Revoke
  <2> QED
    BY <2>1, <2>2
<1> QED
  BY <1>2, <1>3, <1>4, InvByStreamNext

\* Shutdown: every registered stream gets the sentinel.
LEMMA StopStep ==
    ASSUME StreamInv, Stop \/ StopFinishes
    PROVE  StreamInv'
<1> USE DEF hubVars, fanVars, streamVars
<1>0. TypeOK /\ Places /\ \A s \in Streams : Kept(s)
  BY InvByStream
<1>1. CASE Stop
  <2>1. TypeOK' /\ Places'
    BY <1>0, <1>1 DEF Stop, TypeOK, Places
  <2>2. \A s \in Streams : Kept(s)'
    BY <1>0, <1>1 DEF Stop, Kept, UnderWay, Open
  <2> QED
    BY <2>1, <2>2, InvByStreamNext
<1>2. CASE StopFinishes
  <2>1. /\ listener' = "stopped" /\ wire' = <<>>
        /\ slot' = Set(slot, subs, "terminated")
        /\ subs' = {} /\ window' = NoUser /\ trailing' = NoUser
        /\ UNCHANGED <<stopping, state, token, page>>
    BY <1>2 DEF StopFinishes, Terminated
  <2>2. TypeOK'
    <3>1. slot' \in [Streams -> Slot]
      BY <1>0, <2>1 DEF TypeOK, Set, Slot
    <3>2. wire' \in Seq(Users \X Reasons) /\ Len(wire') <= MaxWire
      BY <2>1, ConstantsAssumption
    <3> QED
      BY <1>0, <2>1, <3>1, <3>2 DEF TypeOK, Listener, NoUser
  <2>3. ASSUME NEW s \in Streams PROVE Kept(s)'
    <3>1. slot'[s] = (IF s \in subs THEN "terminated" ELSE slot[s]) /\ state'[s] = state[s]
      BY <1>0, <2>1 DEF TypeOK, Set
    <3> QED
      BY <1>0, <2>1, <3>1 DEF Kept, UnderWay, Open
  <2>4. Places'
    <3>1. IsFiniteSet({}) /\ Cardinality({}) = 0
      BY FS_EmptySet
    <3> QED
      BY <2>1, <3>1, ConstantsAssumption DEF Places
  <2> QED
    BY <2>2, <2>3, <2>4, InvByStreamNext
<1> QED
  BY <1>1, <1>2

\* StreamInv is an invariant of the hub and its streams, whatever their number:
\* it is what the two theorems below are read off from.
THEOREM StreamInvariant == Spec => []StreamInv
<1>1. Init => StreamInv
  <2> SUFFICES ASSUME Init PROVE StreamInv
    OBVIOUS
  <2>1. TypeOK
    <3>1. wire \in Seq(Users \X Reasons) /\ Len(wire) <= MaxWire
      BY ConstantsAssumption DEF Init
    <3> QED
      BY <3>1 DEF Init, TypeOK, Listener, State, Slot, Token, Page, NoUser
  <2>2. \A s \in Streams : Kept(s)
    BY DEF Init, Kept, Open, UnderWay
  <2>3. Places
    BY FS_EmptySet, ConstantsAssumption DEF Init, Places
  <2> QED
    BY <2>1, <2>2, <2>3, InvByStream
<1>2. StreamInv /\ [Next]_vars => StreamInv'
  <2> SUFFICES ASSUME StreamInv, [Next]_vars PROVE StreamInv'
    OBVIOUS
  <2>1. ASSUME NEW u \in Users, NEW r \in Reasons, Commit(u, r) PROVE StreamInv'
    BY <2>1, CommitStep
  <2>2. CASE Hub
    BY <2>2, ListenerStep, FanOutStep DEF Hub
  <2>3. ASSUME NEW u \in Users, WindowEnds(u) \/ TrailingFires(u) PROVE StreamInv'
    BY <2>3, FanOutStep
  <2>4. ASSUME NEW s \in Streams,
               \/ Subscribe(s) \/ StreamStep(s) \/ AuthComesDue(s)
               \/ Disconnect(s) \/ Revoke(s)
        PROVE  StreamInv'
    <3>1. CASE TakeTerminated(s) \/ Unauthorized(s) \/ Disconnect(s)
      BY <3>1, EndStep DEF TakeTerminated, Unauthorized, Disconnect
    <3>2. CASE ~(TakeTerminated(s) \/ Unauthorized(s) \/ Disconnect(s))
      BY <2>4, <3>2, OneStreamStep DEF StreamStep
    <3> QED
      BY <3>1, <3>2
  <2>5. CASE Stop \/ StopFinishes
    BY <2>5, StopStep
  <2>6. CASE UNCHANGED vars
    <3>1. TypeOK' /\ Places'
      BY <2>6, InvByStream DEF vars, hubVars, fanVars, streamVars, TypeOK, Places
    <3>2. \A s \in Streams : Kept(s)'
      BY <2>6, InvByStream DEF vars, hubVars, fanVars, streamVars, Kept, UnderWay, Open
    <3> QED
      BY <3>1, <3>2, InvByStreamNext
  <2> QED
    BY <2>1, <2>2, <2>3, <2>4, <2>5, <2>6 DEF Next
<1> QED
  BY <1>1, <1>2, PTL DEF Spec

\* A committed change is lost to an open stream only by an outage of the listener
\* or by meeting the stream's own timer in its slot.
THEOREM LossesAreKnown == Spec => []OnlyKnownLosses
<1>1. StreamInv => OnlyKnownLosses
  BY DEF StreamInv
<1> QED
  BY <1>1, StreamInvariant, PTL

\* No stream that ended holds a place, and the limit is kept.
THEOREM NoPlaceLeaks == Spec => []PlacesAreReturned
<1>1. StreamInv => PlacesAreReturned
  BY DEF StreamInv
<1> QED
  BY <1>1, StreamInvariant, PTL

=============================================================================
