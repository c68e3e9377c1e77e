----------------------------- MODULE UserEvents -----------------------------
(***************************************************************************)
(* The change notifications behind the public page (services/events.py and *)
(* routers/user_events.py).                                                *)
(*                                                                         *)
(* A transaction that changes an account records a notification, which     *)
(* PostgreSQL sends to the hub's LISTEN connection when it commits.  The    *)
(* hub fans it out to the account's open event streams: each has a queue   *)
(* of one slot, heartbeats are coalesced into one trailing delivery.  A    *)
(* stream waits for its slot, which its own timer fills too; on `connected`*)
(* and `changed` the page reads the whole state again.  The hub, the       *)
(* timers and the streams share one event loop: a step here is what runs   *)
(* between two awaits.                                                     *)
(***************************************************************************)
EXTENDS Naturals, Sequences, FiniteSets

CONSTANTS
    Users, Streams,
    UserOf,            \* the account a stream is opened for
    MaxSubscriptions,  \* MAX_SUBSCRIPTIONS
    MaxWire            \* bound on the notifications on their way to the hub

ASSUME ConstantsAssumption ==
    /\ UserOf \in [Streams -> Users]
    /\ MaxSubscriptions \in Nat
    /\ MaxWire \in Nat \ {0}

VARIABLES
    wire,      \* notifications sent by PostgreSQL and not fanned out yet
    listener,  \* the LISTEN connection; hub.available is "listening" or "dead"
    stopping,  \* the hub was asked to stop
    subs,      \* the subscriptions the hub has registered
    window,    \* the account had a delivery less than COALESCE_SECONDS ago
    trailing,  \* a trailing delivery is booked for the account
    state,     \* where each stream's generator stands
    slot,      \* the one item of each stream's queue
    token,     \* the token the stream was opened with; "due": it no longer
               \* resolves and the next authorization check is due
    page       \* what the page shows: "fresh", or "stale" since a commit, with
               \* the way the notification of that commit was lost, if it was

hubVars    == <<wire, listener, stopping>>
fanVars    == <<subs, window, trailing>>
streamVars == <<state, slot, token>>
vars       == <<hubVars, fanVars, streamVars, page>>

Reasons  == {"change", "heartbeat"}   \* COALESCED_REASONS = {"heartbeat"}
Listener == {"down", "listening", "dead", "stopped"}
State    == {"closed", "opening", "reading", "checking"}
Slot     == {"empty", "reason", "timer", "terminated"}
Token    == {"valid", "revoked", "due"}
Page     == {"fresh", "stale", "outage", "collided"}

TypeOK ==
    /\ wire \in Seq(Users \X Reasons) /\ Len(wire) <= MaxWire
    /\ listener \in Listener
    /\ stopping \in BOOLEAN
    /\ subs \in SUBSET Streams
    /\ window \in [Users -> BOOLEAN]
    /\ trailing \in [Users -> BOOLEAN]
    /\ state \in [Streams -> State]
    /\ slot \in [Streams -> Slot]
    /\ token \in [Streams -> Token]
    /\ page \in [Streams -> Page]

NoUser == [u \in Users |-> FALSE]

\* UserEventHub.start has created the listening task.
Init ==
    /\ wire = <<>>
    /\ listener = "down"
    /\ stopping = FALSE
    /\ subs = {}
    /\ window = NoUser
    /\ trailing = NoUser
    /\ state = [s \in Streams |-> "closed"]
    /\ slot = [s \in Streams |-> "empty"]
    /\ token = [s \in Streams |-> "valid"]
    /\ page = [s \in Streams |-> "fresh"]

Of(u)   == {s \in Streams : UserOf[s] = u}
Open(s) == state[s] # "closed"

\* f with the value v for every stream in S.
Set(f, S, v) == [s \in Streams |-> IF s \in S THEN v ELSE f[s]]

\* The accounts of the notifications in w.
Accounts(w) == {w[i][1] : i \in 1..Len(w)}

-----------------------------------------------------------------------------
(* Committed changes and the listener.                                     *)

\* A transaction that called notify_user_changes commits.  Without a listening
\* connection PostgreSQL has nobody to send the notification to.
Commit(u, reason) ==
    LET behind == {s \in Of(u) : Open(s)}
    IN  \/ /\ listener = "listening" /\ Len(wire) < MaxWire
           /\ wire' = Append(wire, <<u, reason>>)
           /\ page' = Set(page, {s \in behind : page[s] = "fresh"}, "stale")
           /\ UNCHANGED <<listener, stopping, fanVars, streamVars>>
        \/ /\ listener # "listening"
           /\ page' = Set(page, behind, "outage")
           /\ UNCHANGED <<hubVars, fanVars, streamVars>>

\* _listen_forever: connect and add_listener succeed.
Attach ==
    /\ listener = "down" /\ ~stopping
    /\ listener' = "listening"
    /\ UNCHANGED <<wire, stopping, fanVars, streamVars, page>>

\* The connection dies; what it had not handed to the loop is lost.
LoseConnection ==
    /\ listener = "listening"
    /\ listener' = "dead"
    /\ \E k \in 0..Len(wire) :
          LET lost == Accounts(SubSeq(wire, k + 1, Len(wire)))
          IN  /\ wire' = SubSeq(wire, 1, k)
              /\ page' = Set(page, {s \in Streams : Open(s) /\ UserOf[s] \in lost},
                             "outage")
    /\ UNCHANGED <<stopping, fanVars, streamVars>>

\* _wait_for_loss polls is_closed; the loop then connects again.
NoticeLoss ==
    /\ listener = "dead" /\ ~stopping
    /\ listener' = "down"
    /\ UNCHANGED <<wire, stopping, fanVars, streamVars, page>>

-----------------------------------------------------------------------------
(* Fan-out.                                                                *)

\* _deliver: every stream of the account whose queue is not full.
DeliverTo(u) ==
    LET mine == subs \cap Of(u)
    IN  /\ trailing' = [trailing EXCEPT ![u] = FALSE]
        /\ window' = [window EXCEPT ![u] = TRUE]
        /\ slot' = Set(slot, {s \in mine : slot[s] = "empty"}, "reason")
        /\ page' = Set(page, {s \in mine : slot[s] = "timer" /\ page[s] = "stale"},
                       "collided")
        /\ UNCHANGED <<subs, state, token>>

\* Mutant of BookTrailing: a heartbeat inside the window is dropped.
BookNothing(u) == UNCHANGED trailing

\* One trailing delivery stands for every heartbeat of the window.
BookTrailing(u) == trailing' = [trailing EXCEPT ![u] = TRUE]

\* deliver_payload and _fan_out: a heartbeat inside the window books a trailing
\* delivery, anything else is delivered at once; without a stream nothing is done.
FanOut ==
    /\ wire # <<>>
    /\ wire' = Tail(wire)
    /\ LET u == Head(wire)[1]
           coalesced == Head(wire)[2] = "heartbeat" /\ window[u]
       IN  \/ /\ subs \cap Of(u) = {}
              /\ UNCHANGED <<fanVars, streamVars, page>>
           \/ /\ subs \cap Of(u) # {} /\ ~coalesced
              /\ DeliverTo(u)
           \/ /\ subs \cap Of(u) # {} /\ coalesced
              /\ BookTrailing(u)
              /\ UNCHANGED <<subs, window, streamVars, page>>
    /\ UNCHANGED <<listener, stopping>>

WindowEnds(u) ==
    /\ window[u]
    /\ window' = [window EXCEPT ![u] = FALSE]
    /\ UNCHANGED <<hubVars, subs, trailing, streamVars, page>>

TrailingFires(u) ==
    /\ trailing[u]
    /\ DeliverTo(u)
    /\ UNCHANGED hubVars

-----------------------------------------------------------------------------
(* Subscriptions and streams.                                              *)

\* Mutant of Without: a stream that never started keeps its place.
WithoutStarted(s) ==
    LET u    == UserOf[s]
        left == IF state[s] = "opening" THEN subs ELSE subs \ {s}
    IN  /\ subs' = left
        /\ window' = [window EXCEPT ![u] = @ /\ left \cap Of(u) # {}]
        /\ trailing' = [trailing EXCEPT ![u] = @ /\ left \cap Of(u) # {}]

\* unsubscribe: the account's coalescing state goes with its last stream.
Without(s) ==
    LET u    == UserOf[s]
        left == subs \ {s}
    IN  /\ subs' = left
        /\ window' = [window EXCEPT ![u] = @ /\ left \cap Of(u) # {}]
        /\ trailing' = [trailing EXCEPT ![u] = @ /\ left \cap Of(u) # {}]

\* The generator returns or is closed: its finally unsubscribes.
End(s) ==
    /\ state' = [state EXCEPT ![s] = "closed"]
    /\ slot' = [slot EXCEPT ![s] = "empty"]
    /\ token' = [token EXCEPT ![s] = "valid"]
    /\ page' = [page EXCEPT ![s] = "fresh"]
    /\ Without(s)

\* pub_user_events: 503 when the hub is stopping or full.
Subscribe(s) ==
    /\ ~Open(s) /\ ~stopping /\ Cardinality(subs) < MaxSubscriptions
    /\ subs' = subs \cup {s}
    /\ state' = [state EXCEPT ![s] = "opening"]
    /\ UNCHANGED <<hubVars, window, trailing, slot, token, page>>

\* The page reads /info again when a frame arrives.
PageReads(s) == page' = [page EXCEPT ![s] = "fresh"]

\* The first frame, `connected`.
Connected(s) ==
    /\ state[s] = "opening"
    /\ state' = [state EXCEPT ![s] = "reading"]
    /\ PageReads(s)
    /\ UNCHANGED <<hubVars, fanVars, slot, token>>

\* _put_after: the ticker that runs beside queue.get.
TickerFires(s) ==
    /\ state[s] = "reading" /\ slot[s] = "empty"
    /\ slot' = [slot EXCEPT ![s] = "timer"]
    /\ UNCHANGED <<hubVars, fanVars, state, token, page>>

\* next_auth passes.  A check of a token that resolves changes nothing.
AuthComesDue(s) ==
    /\ token[s] = "revoked"
    /\ token' = [token EXCEPT ![s] = "due"]
    /\ UNCHANGED <<hubVars, fanVars, state, slot, page>>

\* Mutant of TakeItem: what ended the wait is not looked at.
TakeItemSilently(s) ==
    /\ state[s] = "reading" /\ slot[s] \in {"reason", "timer"}
    /\ state' = [state EXCEPT ![s] = "checking"]
    /\ slot' = [slot EXCEPT ![s] = "empty"]
    /\ UNCHANGED <<hubVars, fanVars, token, page>>

\* queue.get returns the timer or a reason; a reason is sent as `changed`.
TakeItem(s) ==
    /\ state[s] = "reading" /\ slot[s] \in {"reason", "timer"}
    /\ state' = [state EXCEPT ![s] = "checking"]
    /\ slot' = [slot EXCEPT ![s] = "empty"]
    /\ IF slot[s] = "reason" THEN PageReads(s) ELSE UNCHANGED page
    /\ UNCHANGED <<hubVars, fanVars, token>>

TakeTerminated(s) ==
    /\ state[s] = "reading" /\ slot[s] = "terminated"
    /\ End(s)
    /\ UNCHANGED hubVars

\* Mutant of Continue: the answer of the check is not looked at.
ContinueAnyway(s) ==
    /\ state[s] = "checking"
    /\ state' = [state EXCEPT ![s] = "reading"]
    /\ UNCHANGED <<hubVars, fanVars, slot, token, page>>

\* No check is due, or the token still resolves.
Continue(s) ==
    /\ state[s] = "checking" /\ token[s] # "due"
    /\ state' = [state EXCEPT ![s] = "reading"]
    /\ UNCHANGED <<hubVars, fanVars, slot, token, page>>

\* The last frame, `unauthorized`.
Unauthorized(s) ==
    /\ state[s] = "checking" /\ token[s] = "due"
    /\ End(s)
    /\ UNCHANGED hubVars

\* The client is gone: noticed by is_disconnected, by the server closing the
\* generator, or, before the first frame, by the response's background task.
Disconnect(s) ==
    /\ Open(s)
    /\ End(s)
    /\ UNCHANGED hubVars

\* The token is regenerated or the account removed.
Revoke(s) ==
    /\ Open(s) /\ token[s] = "valid"
    /\ token' = [token EXCEPT ![s] = "revoked"]
    /\ UNCHANGED <<hubVars, fanVars, state, slot, page>>

-----------------------------------------------------------------------------
(* Shutdown.                                                               *)

\* stop, up to its await of the cancelled listening task.
Stop ==
    /\ ~stopping
    /\ stopping' = TRUE
    /\ UNCHANGED <<wire, listener, fanVars, streamVars, page>>

\* Mutant of Terminated: a full queue keeps its item.
TerminatedIfEmpty ==
    Set(slot, {s \in subs : slot[s] = "empty"}, "terminated")

\* terminate on every subscription: the unread item makes room for the sentinel.
Terminated == Set(slot, subs, "terminated")

\* The rest of stop: the connection is closed, every stream is woken to end.
StopFinishes ==
    /\ stopping /\ listener # "stopped"
    /\ listener' = "stopped" /\ wire' = <<>>
    /\ slot' = Terminated
    /\ subs' = {} /\ window' = NoUser /\ trailing' = NoUser
    /\ UNCHANGED <<stopping, state, token, page>>

-----------------------------------------------------------------------------
Hub == Attach \/ LoseConnection \/ NoticeLoss \/ FanOut

StreamStep(s) ==
    \/ Connected(s) \/ TickerFires(s) \/ TakeItem(s) \/ TakeTerminated(s)
    \/ Continue(s) \/ Unauthorized(s)

Next ==
    \/ \E u \in Users, r \in Reasons : Commit(u, r)
    \/ Hub
    \/ \E u \in Users : WindowEnds(u) \/ TrailingFires(u)
    \/ \E s \in Streams : \/ Subscribe(s) \/ StreamStep(s) \/ AuthComesDue(s)
                          \/ Disconnect(s) \/ Revoke(s)
    \/ Stop \/ StopFinishes

Spec == Init /\ [][Next]_vars

\* The event loop runs every callback, timer and task that is ready; time goes
\* on, so windows end and checks come due.  Nothing is assumed of the clients,
\* of the administrator or of the connection.
Fairness ==
    /\ WF_vars(FanOut)
    /\ WF_vars(StopFinishes)
    /\ \A u \in Users : WF_vars(TrailingFires(u))
    /\ \A s \in Streams : WF_vars(StreamStep(s)) /\ WF_vars(AuthComesDue(s))

FairSpec == Spec /\ Fairness

-----------------------------------------------------------------------------
(* Properties.                                                             *)

\* A `changed` frame for the stream's account is under way.
UnderWay(s) ==
    \/ UserOf[s] \in Accounts(wire)
    \/ trailing[UserOf[s]]
    \/ slot[s] \in {"reason", "terminated"}
    \/ state[s] = "opening"

\* The ways a committed change can stay unannounced on an open stream are the
\* listener being away and a delivery that meets the stream's own timer in the
\* slot; coalescing, the full queue and streams that end lose nothing.
OnlyKnownLosses ==
    \A s \in Streams :
        page[s] = "stale" => UnderWay(s)

\* What _deliver says of a full queue: "an unread event is already waiting",
\* so dropping the item "loses nothing".
FullQueueLosesNothing ==
    \A s \in Streams : page[s] \in {"stale", "collided"} => UnderWay(s)

\* The hub's registrations are the open streams, until stop clears them: a stream
\* that ends, or never starts, gives its place under MAX_SUBSCRIPTIONS back, and a
\* stream that is no longer registered has been told to end.
PlacesAreReturned ==
    /\ \A s \in Streams :
          /\ s \in subs => Open(s) /\ slot[s] # "terminated"
          /\ Open(s) /\ s \notin subs => slot[s] = "terminated"
    /\ Cardinality(subs) <= MaxSubscriptions

\* What a closed stream leaves behind: an empty queue and no page to refresh.
ClosedIsClean ==
    \A s \in Streams : ~Open(s) => slot[s] = "empty" /\ page[s] = "fresh"

\* The inductive invariant.
StreamInv ==
    /\ TypeOK /\ OnlyKnownLosses /\ PlacesAreReturned /\ ClosedIsClean
    /\ IsFiniteSet(subs)

\* A change is announced: a page behind an open stream is brought up to date again and
\* again, however heartbeats are coalesced and streams come and go, once notifications
\* are no longer lost to the listener's outages and to collisions with the timer.
ChangeIsAnnounced ==
    \A s \in Streams :
        <>[](page[s] \in {"fresh", "stale"}) => []<>(page[s] = "fresh")

\* A stream whose token stopped resolving is closed.
RevokedStreamEnds ==
    \A s \in Streams : token[s] # "valid" ~> ~Open(s)

\* A stopped hub leaves no stream open.
StopEndsStreams == stopping ~> \A s \in Streams : ~Open(s)

=============================================================================
