------------------------------ MODULE KdsStream ------------------------------
(***************************************************************************)
(* One kitchen display and the realtime server that feeds it from the       *)
(* outbox of its branch: WebSocket subscriptions with a cursor, reconnects  *)
(* with backoff, short polling as the fallback, and revocation of the       *)
(* device token.  Server and display are event loops: an action is the code *)
(* between two awaits, timers or socket events.                             *)
(*                                                                          *)
(* A connection has two ends that open and close apart from each other, a   *)
(* subscribe message on its way up and frames of events on their way down.  *)
(***************************************************************************)
EXTENDS Integers, Sequences, FiniteSets, FiniteSetsExt

CONSTANTS
  MaxSockets,   \* bound: connections that exist at once
  MaxEvents,    \* bound: events ever published
  Limit,        \* events the server returns at most (maxLimit)
  MaxRetries,   \* maxWebSocketRetries
  MaxStarts,    \* bound: calls of start
  MaxFaults     \* bound: failed requests, queries and connections

ASSUME StreamAssumption ==
  /\ MaxSockets \in Nat \ {0} /\ MaxEvents \in Nat /\ Limit \in Nat \ {0}
  /\ MaxRetries \in Nat /\ MaxStarts \in Nat /\ MaxFaults \in Nat

VARIABLES
  published,    \* sequence ids in the outbox of the branch
  token,        \* "active", "revoked" (in the table), "killed" (connections dropped too)
  display,      \* the fields of the client object
  applied,      \* events handed to onEvent, one entry for each call
  conn,         \* the WebSocket connections
  loop,         \* the poll loops
  starts, faults

vars == <<published, token, display, applied, conn, loop, starts, faults>>

Ids == 1 .. MaxEvents

Sockets == 1 .. MaxSockets

(* Polling is left by stop() alone, so a call of start begins at most one   *)
(* poll loop; the loop is named after the call.                             *)
Loops == 1 .. MaxStarts

None == 0

Unused == [client |-> "none", server |-> "none", up |-> {}, cursor |-> 0,
           pump |-> "off", fresh |-> FALSE, batch |-> {}, down |-> << >>]

(* client, server: the readyState of the two ends; pump: what the rounds of *)
(* the subscription wait for (the token probe, the outbox read, the event   *)
(* loop with the batch in hand, or the timer).                              *)
Connection ==
  [client: {"none", "connecting", "open", "closing", "closed"},
   server: {"none", "open", "closed"},
   up: SUBSET (0 .. MaxEvents),     \* the subscribe message under way
   cursor: 0 .. MaxEvents,          \* subscription.lastSequenceId
   pump: {"off", "probe", "read", "send", "timer"},
   fresh: BOOLEAN,                  \* revalidated less than revalidationMs ago
   batch: SUBSET Ids,               \* what readEvents returned
   down: Seq(SUBSET Ids)]           \* frames under way

Resting == [phase |-> "off", after |-> 0, events |-> {}]

Loop == [phase: {"off", "asked", "verified", "answered", "timer"},
         after: 0 .. MaxEvents, events: SUBSET Ids]

Display ==
  [state: {"idle", "connecting", "streaming", "backing-off", "polling", "stopped"},
   socket: Sockets \cup {None},
   wsFailures: 0 .. MaxRetries,
   last: 0 .. MaxEvents,            \* lastSequenceId
   pendingTimer: BOOLEAN,
   pollTimer: Loops \cup {None}]

TypeOK ==
  /\ published \subseteq Ids
  /\ token \in {"active", "revoked", "killed"}
  /\ display \in Display
  /\ applied \in Seq(Ids)
  /\ conn \in [Sockets -> Connection]
  /\ loop \in [Loops -> Loop]
  /\ starts \in 0 .. MaxStarts /\ faults \in 0 .. MaxFaults

Init ==
  /\ published = {} /\ token = "active" /\ applied = << >>
  /\ display = [state |-> "idle", socket |-> None, wsFailures |-> 0, last |-> 0,
                pendingTimer |-> FALSE, pollTimer |-> None]
  /\ conn = [i \in Sockets |-> Unused]
  /\ loop = [j \in Loops |-> Resting]
  /\ starts = 0 /\ faults = 0

(* A request, query or connection fails, within the budget. *)
Fault == faults < MaxFaults /\ faults' = faults + 1

(* Order mutations append to the outbox, see EventOutbox. *)
Publish ==
  /\ Cardinality(published) < MaxEvents
  /\ published' = published \cup {Cardinality(published) + 1}
  /\ UNCHANGED <<token, display, applied, conn, loop, starts, faults>>

(* Slip: the event at the cursor is read again. *)
EventsFromCursor(after) ==
  {e \in published :
     e >= after /\ Cardinality({d \in published : after <= d /\ d < e}) < Limit}

(* readEvents: the first Limit events after the cursor. *)
EventsAfter(after) ==
  {e \in published :
     e > after /\ Cardinality({d \in published : after < d /\ d < e}) < Limit}

(* A connection of which nothing is left can be forgotten. *)
Settled(c) ==
  IF c.client = "closed" /\ c.server \in {"none", "closed"} /\ c.pump = "off"
  THEN Unused ELSE c

-----------------------------------------------------------------------------
(* The display *)

(* Slip: one attempt too many. *)
ReconnectOnceMore(d) ==
  IF d.wsFailures > MaxRetries
  THEN /\ display' = [d EXCEPT !.state = "polling"]
       /\ loop' = [loop EXCEPT ![starts'].phase = "asked", ![starts'].after = d.last]
  ELSE /\ display' = [d EXCEPT !.state = "backing-off", !.pendingTimer = TRUE,
                               !.wsFailures = @ + 1]
       /\ UNCHANGED loop

(* scheduleReconnect: wait for the backoff, or switch to polling for good,  *)
(* the first request going out at once.                                     *)
ScheduleReconnect(d) ==
  IF d.wsFailures >= MaxRetries
  THEN /\ display' = [d EXCEPT !.state = "polling"]
       /\ loop' = [loop EXCEPT ![starts'].phase = "asked", ![starts'].after = d.last]
  ELSE /\ display' = [d EXCEPT !.state = "backing-off", !.pendingTimer = TRUE,
                               !.wsFailures = @ + 1]
       /\ UNCHANGED loop

(* connectWebSocket; the constructor of the socket may throw. *)
ConnectWebSocket(d) ==
  \/ LET free == {i \in Sockets : conn[i] = Unused} IN
     /\ free # {}
     /\ conn' = [conn EXCEPT ![Min(free)].client = "connecting"]
     /\ display' = [d EXCEPT !.state = "connecting", !.socket = Min(free)]
     /\ UNCHANGED <<loop, faults>>
  \/ Fault /\ ScheduleReconnect(d) /\ UNCHANGED conn

Start ==
  /\ display.state \in {"idle", "stopped"}
  /\ starts < MaxStarts
  /\ starts' = starts + 1
  /\ ConnectWebSocket([display EXCEPT !.wsFailures = 0])
  /\ UNCHANGED <<published, token, applied>>

(* socket.close() on the display's socket, if it has one. *)
CloseSocket ==
  conn' = [i \in Sockets |-> IF i = display.socket
                             THEN [conn[i] EXCEPT !.client = "closing"] ELSE conn[i]]

(* stop: both timers are cleared and the socket is closed; a poll that      *)
(* waits for its response is left alone.                                    *)
Stop ==
  /\ display.state # "stopped"
  /\ display' = [display EXCEPT !.state = "stopped", !.socket = None,
                                !.pendingTimer = FALSE, !.pollTimer = None]
  /\ loop' = [j \in Loops |-> IF j = display.pollTimer THEN Resting ELSE loop[j]]
  /\ CloseSocket
  /\ UNCHANGED <<published, token, applied, starts, faults>>

(* forceDrop: the socket stays the display's own, so that its close event   *)
(* starts the reconnection.                                                 *)
ForceDrop ==
  /\ display.socket # None /\ conn[display.socket].client \in {"connecting", "open"}
  /\ Fault
  /\ CloseSocket
  /\ UNCHANGED <<published, token, display, applied, loop, starts>>

(* The backoff timer fires. *)
BackoffOver ==
  /\ display.pendingTimer
  /\ UNCHANGED <<published, token, applied, starts>>
  /\ IF display.state = "stopped"
     THEN /\ display' = [display EXCEPT !.pendingTimer = FALSE]
          /\ UNCHANGED <<conn, loop, faults>>
     ELSE ConnectWebSocket([display EXCEPT !.pendingTimer = FALSE])

(* 'open': subscribe from the last sequence id. *)
Opened(i) ==
  /\ conn[i].client = "connecting" /\ conn[i].server = "open"
  /\ display.socket = i
  /\ display' = [display EXCEPT !.wsFailures = 0, !.state = "streaming"]
  /\ conn' = [conn EXCEPT ![i].client = "open", ![i].up = {display.last}]
  /\ UNCHANGED <<published, token, applied, loop, starts, faults>>

(* applyEvent for each event of a frame or response, in ascending order. *)
InOrder(events) ==
  [k \in 1 .. Cardinality(events) |->
     CHOOSE e \in events : Cardinality({d \in events : d <= e}) = k]

(* Slip: the server is trusted to send nothing twice. *)
Taken(events) == events

(* The defensive de-dup against lastSequenceId. *)
New(events) == {e \in events : e > display.last}

WithLast(events) == [display EXCEPT !.last = Max({@} \cup New(events))]

(* 'message', on any socket, current or not. *)
Message(i) ==
  /\ conn[i].client \in {"open", "closing"} /\ conn[i].down # << >>
  /\ applied' = applied \o InOrder(New(Head(conn[i].down)))
  /\ display' = WithLast(Head(conn[i].down))
  /\ conn' = [conn EXCEPT ![i].down = Tail(@)]
  /\ UNCHANGED <<published, token, loop, starts, faults>>

(* handleSocketFailure, on the first of 'close' and 'error'; what was under *)
(* way to the display is lost.                                              *)
HandleSocketFailure(i) ==
  /\ conn[i].client \in {"connecting", "open", "closing"}
  /\ conn' = [conn EXCEPT ![i] = Settled([@ EXCEPT !.client = "closed", !.down = << >>])]
  /\ UNCHANGED starts
  /\ IF display.state # "stopped" /\ display.socket = i
     THEN ScheduleReconnect([display EXCEPT !.socket = None])
     ELSE UNCHANGED <<display, loop>>
  /\ UNCHANGED <<published, token, applied>>

(* The other end has closed, or the closing handshake is over ... *)
Closed(i) ==
  /\ conn[i].server = "closed" \/ conn[i].client = "closing"
  /\ HandleSocketFailure(i)
  /\ UNCHANGED faults

(* ... or the network drops the connection. *)
Dropped(i) == Fault /\ HandleSocketFailure(i)

(* scheduleNextPoll, when a round of loop j is over. *)
RoundOver(d, j) ==
  IF d.state = "polling"
  THEN /\ display' = [d EXCEPT !.pollTimer = j]
       /\ loop' = [loop EXCEPT ![j] = [Resting EXCEPT !.phase = "timer"]]
  ELSE /\ display' = d
       /\ loop' = [loop EXCEPT ![j] = Resting]

(* The response of a poll is applied, whatever the display does by then.    *)
PollAnswered(j) ==
  /\ loop[j].phase = "answered"
  /\ applied' = applied \o InOrder(New(loop[j].events))
  /\ RoundOver(WithLast(loop[j].events), j)
  /\ UNCHANGED <<published, token, conn, starts, faults>>

(* The request fails on the way, or is answered 503. *)
PollFailed(j) ==
  /\ loop[j].phase \in {"asked", "verified", "answered"}
  /\ Fault
  /\ RoundOver(display, j)
  /\ UNCHANGED <<published, token, applied, conn, starts>>

(* The poll timer fires; it forgets whichever timer is remembered. *)
PollTimer(j) ==
  /\ loop[j].phase = "timer"
  /\ display' = [display EXCEPT !.pollTimer = None]
  /\ loop' = [loop EXCEPT ![j] =
                IF display.state = "polling"
                THEN [Resting EXCEPT !.phase = "asked", !.after = display.last]
                ELSE Resting]
  /\ UNCHANGED <<published, token, applied, conn, starts, faults>>

-----------------------------------------------------------------------------
(* The server *)

ServerOnly == UNCHANGED <<published, token, display, applied, loop, starts>>

(* handleUpgrade: the token is verified, or the handshake is refused ... *)
Upgrade(i) ==
  /\ conn[i].client = "connecting" /\ conn[i].server = "none"
  /\ conn' = [conn EXCEPT ![i].server = IF token = "active" THEN "open" ELSE "closed"]
  /\ UNCHANGED faults
  /\ ServerOnly

(* ... or verification fails: 503. *)
UpgradeFails(i) ==
  /\ conn[i].client = "connecting" /\ conn[i].server = "none"
  /\ Fault
  /\ conn' = [conn EXCEPT ![i].server = "closed"]
  /\ ServerOnly

(* Slip: the handshake counts as the first revalidation. *)
SubscribeFresh(i) ==
  /\ conn[i].server = "open" /\ conn[i].up # {}
  /\ \E n \in conn[i].up :
       conn' = [conn EXCEPT ![i].up = {}, ![i].cursor = n, ![i].pump = "read",
                            ![i].fresh = TRUE]
  /\ UNCHANGED faults
  /\ ServerOnly

(* The subscribe message; the first pump always revalidates. *)
Subscribe(i) ==
  /\ conn[i].server = "open" /\ conn[i].up # {}
  /\ \E n \in conn[i].up :
       conn' = [conn EXCEPT ![i].up = {}, ![i].cursor = n, ![i].pump = "probe"]
  /\ UNCHANGED faults
  /\ ServerOnly

(* scheduleNextPump, when a round is over. *)
NextPump(c) ==
  Settled([c EXCEPT !.batch = {}, !.pump = IF c.server = "open" THEN "timer" ELSE "off"])

(* dropSubscription, or 'close' on the server's socket: no further round,   *)
(* but the one under way goes on.                                           *)
Shut(c) ==
  Settled([c EXCEPT !.server = "closed", !.up = {}, !.fresh = FALSE,
                    !.pump = IF @ = "timer" THEN "off" ELSE @])

(* Slip: a probe that finds the token inactive only skips the round. *)
ProbeSkipping(i) ==
  /\ conn[i].pump = "probe"
  /\ conn' = [conn EXCEPT ![i] = IF token = "active"
                                 THEN [@ EXCEPT !.fresh = TRUE, !.pump = "read"]
                                 ELSE NextPump(@)]
  /\ UNCHANGED faults
  /\ ServerOnly

(* pump, first half: isTokenHashActive. *)
Probe(i) ==
  /\ conn[i].pump = "probe"
  /\ conn' = [conn EXCEPT ![i] = IF token = "active"
                                 THEN [@ EXCEPT !.fresh = (conn[i].server = "open"),
                                                !.pump = "read"]
                                 ELSE NextPump(Shut(@))]
  /\ UNCHANGED faults
  /\ ServerOnly

(* pump, second half: readEvents ... *)
Read(i) ==
  /\ conn[i].pump = "read"
  /\ conn' = [conn EXCEPT ![i].pump = "send", ![i].batch = EventsAfter(conn[i].cursor)]
  /\ UNCHANGED faults
  /\ ServerOnly

(* ... and send, which does nothing on a socket that is no longer open. *)
Send(i) ==
  /\ conn[i].pump = "send"
  /\ LET c == conn[i]
         sent == c.batch # {} /\ c.server = "open" /\ c.client # "closed"
     IN conn' = [conn EXCEPT ![i] =
                   NextPump([c EXCEPT !.cursor = Max({@} \cup c.batch),
                                      !.down = IF sent THEN Append(@, c.batch) ELSE @])]
  /\ UNCHANGED faults
  /\ ServerOnly

(* The probe or the read fails: the next round tries again. *)
PumpFails(i) ==
  /\ conn[i].pump \in {"probe", "read"}
  /\ Fault
  /\ conn' = [conn EXCEPT ![i] = NextPump(@)]
  /\ ServerOnly

(* The pump timer fires. *)
PumpTimer(i) ==
  /\ conn[i].pump = "timer"
  /\ conn' = [conn EXCEPT ![i].pump = IF conn[i].fresh THEN "read" ELSE "probe"]
  /\ UNCHANGED faults
  /\ ServerOnly

(* revalidationMs pass. *)
RevalidationDue(i) ==
  /\ conn[i].fresh
  /\ conn' = [conn EXCEPT ![i].fresh = FALSE]
  /\ UNCHANGED faults
  /\ ServerOnly

(* 'close' on the server's socket: the display has gone ... *)
HangUp(i) ==
  /\ conn[i].server = "open" /\ conn[i].client \in {"closing", "closed"}
  /\ conn' = [conn EXCEPT ![i] = Shut(@)]
  /\ UNCHANGED faults
  /\ ServerOnly

(* ... or the socket fails, or the server is stopped. *)
ServerCloses(i) ==
  /\ conn[i].server = "open"
  /\ Fault
  /\ conn' = [conn EXCEPT ![i] = Shut(@)]
  /\ ServerOnly

(* handlePolling: verification, then the read. *)
PollVerify(j) ==
  /\ loop[j].phase = "asked"
  /\ IF token = "active"
     THEN loop' = [loop EXCEPT ![j].phase = "verified"] /\ UNCHANGED display
     ELSE RoundOver(display, j)
  /\ UNCHANGED <<published, token, applied, conn, starts, faults>>

PollRead(j) ==
  /\ loop[j].phase = "verified"
  /\ loop' = [loop EXCEPT ![j].phase = "answered", ![j].events = EventsAfter(loop[j].after)]
  /\ UNCHANGED <<published, token, display, applied, conn, starts, faults>>

(* revokeDeviceToken commits ... *)
Revoke ==
  /\ token = "active"
  /\ token' = "revoked"
  /\ UNCHANGED <<published, display, applied, conn, loop, starts, faults>>

(* ... and the deployment may have revokeConnectionsForTokenHash follow. *)
Kill ==
  /\ token = "revoked"
  /\ token' = "killed"
  /\ conn' = [i \in Sockets |->
                IF conn[i].server = "open" /\ conn[i].pump # "off" THEN Shut(conn[i])
                ELSE conn[i]]
  /\ UNCHANGED <<published, display, applied, loop, starts, faults>>

-----------------------------------------------------------------------------
(* What server, network and event loops do by themselves *)
SocketStep(i) ==
  \/ Opened(i) \/ Message(i) \/ Closed(i)
  \/ Upgrade(i) \/ Subscribe(i) \/ HangUp(i)

PumpStep(i) == Probe(i) \/ Read(i) \/ Send(i) \/ PumpTimer(i)

PollStep(j) == PollVerify(j) \/ PollRead(j) \/ PollAnswered(j) \/ PollTimer(j)

Failure ==
  \/ \E i \in Sockets : Dropped(i) \/ UpgradeFails(i) \/ PumpFails(i) \/ ServerCloses(i)
  \/ \E j \in Loops : PollFailed(j)
  \/ ForceDrop

Next ==
  \/ Publish \/ Start \/ Stop \/ Revoke \/ Kill
  \/ BackoffOver
  \/ \E i \in Sockets : SocketStep(i) \/ PumpStep(i) \/ RevalidationDue(i)
  \/ \E j \in Loops : PollStep(j)
  \/ Failure

Spec == Init /\ [][Next]_vars

(* Timers fire, promises settle and both ends of a connection learn of its  *)
(* end; nobody has to start or stop the display, publish or revoke.         *)
Fairness ==
  /\ WF_vars(BackoffOver)
  /\ \A i \in Sockets :
       /\ WF_vars(Opened(i)) /\ WF_vars(Message(i)) /\ WF_vars(Closed(i))
       /\ WF_vars(Upgrade(i)) /\ WF_vars(Subscribe(i)) /\ WF_vars(HangUp(i))
       /\ WF_vars(PumpStep(i)) /\ WF_vars(RevalidationDue(i))
  /\ \A j \in Loops : WF_vars(PollStep(j))

FairSpec == Spec /\ Fairness

-----------------------------------------------------------------------------
(* The display is an implementation of the feed: whatever is lost, retried  *)
(* or answered twice, the calls of onEvent are for events 1, 2, 3, ..., each *)
(* once and in that order, and none before it was published (applyEvent,    *)
(* the cursors and the ascending read together).                            *)
Feed == INSTANCE OrderFeed WITH delivered <- applied

DisplayImplementsFeed == Feed!Spec

(* Once a token is revoked and its connections are dropped, nothing more is *)
(* sent on any socket opened with it, not even on one whose handshake was   *)
(* over and whose subscribe message came later (pump, dropSubscription).    *)
NothingSentAfterKill ==
  [][token = "killed" =>
       \A i \in Sockets : Len(conn'[i].down) <= Len(conn[i].down)]_vars

(* A display that keeps running with a valid token is handed everything     *)
(* that is published, over the socket or over polling.                      *)
CatchesUp ==
  <>[](token = "active" /\ display.state \notin {"idle", "stopped"})
    => []<>(Len(applied) = Cardinality(published))

(* Without the instant kill, revalidation ends every stream of a revoked    *)
(* token (pump's backstop).                                                 *)
RevocationEndsStreams ==
  [](token # "active" => <>[](\A i \in Sockets : conn[i].pump = "off"))
=============================================================================
