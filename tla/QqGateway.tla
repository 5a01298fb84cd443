----------------------------- MODULE QqGateway -----------------------------
(***************************************************************************)
(* The QQ Gateway event source: run_gateway and run_connection of          *)
(* mutsuki-bot-service-host-integration/src/event_source.rs around the     *)
(* pump of QqGatewayPump, with the QQ Gateway server and the network as    *)
(* its environment.                                                        *)
(*                                                                         *)
(* The client is one task; phase is the await it stands at.  wire is what  *)
(* lies between the server and the select loop: the socket, the reader     *)
(* task and the bounded mpsc queue, one FIFO.  Every client step runs up   *)
(* to the next await, and the server and the host move in between.         *)
(***************************************************************************)
EXTENDS QqGatewayPump

CONSTANTS
  MaxEvents,    \* bound on the events published in one behaviour
  MaxFaults,    \* bound on the faults of server, network and credentials, and on
                \* the restarts of a source that has ended
  MaxRejects,   \* bound on the tasks Core rejects
  Overlap       \* how many log entries before the resume point are sent again

ASSUME GatewayAssumption ==
  {MaxEvents, MaxFaults, MaxRejects, Overlap} \subseteq Nat

VARIABLES
  \* the client
  phase,        \* where run_gateway stands
  stop,         \* the stop watch or the host token has fired
  health,       \* the connected and identified flags of the health snapshot, and, a
                \* history, orphan: nobody has marked it since its task was aborted
  attempt,      \* reconnect_attempt
  awaitingAck,  \* awaiting_ack_since.is_some()
  current,      \* the opcode of the frame being worked off
  token,        \* the cached access token, None or the number of its issue
  connToken,    \* access_token of this run_connection
  \* the environment
  conn,         \* the server's end: down, open (not authenticated), live, gone
  wire,         \* frames on their way to the client, oldest first
  session,      \* the session the server keeps, None when it has expired
  sessions,     \* how many sessions the server has opened
  log,          \* the dispatches of the session; the index is the sequence number
  published,    \* how many events were published
  issued,       \* how many access tokens were issued
  condemned,    \* the tokens the client was told to refresh, by a close code
  faults, rejects

clientVars == <<phase, stop, health, attempt, awaitingAck, current, token, connToken>>
sessionVars == <<session, sessions, log, published>>
network == <<conn, wire>>
tokenServer == <<issued, condemned>>
serverVars == <<network, sessionVars, tokenServer>>
bounds == <<faults, rejects>>
gatewayVars == <<pumpVars, clientVars, serverVars, bounds>>

Phases == {"loop", "credentials", "connect", "hello", "auth", "read", "drain",
           "backoff", "stopped", "failed"}
Ended == {"stopped", "failed"}
CloseClasses == {"Permanent", "RefreshToken", "Reidentify", "RateLimited", "Resume"}

Unconnected == [connected |-> FALSE, identified |-> FALSE, orphan |-> FALSE]

Close(class) == [op |-> "close", class |-> class]

Event(s, kind, id) == Dispatch(kind, s, id, None, FALSE)
Ready(s) == Dispatch("READY", 1, None, s, TRUE)
Resumed(s) == Dispatch("RESUMED", s, None, None, FALSE)

Published(e) == [kind |-> e.t, id |-> e.id]

\* The numbers of D, smallest first.
Ascending(D) == [n \in 1..Cardinality(D) |-> CHOOSE i \in D : Cardinality({j \in D : j <= i}) = n]

-----------------------------------------------------------------------------
(* The server and the network, as far as the client's steps reach them.    *)

OnIdentify ==
  LET ready == Ready(sessions + 1) IN
  /\ session' = sessions + 1
  /\ sessions' = sessions + 1
  /\ log' = <<Published(ready)>>
  /\ conn' = "live"
  /\ wire' = Append(wire, ready)
  /\ UNCHANGED published

\* The events after the client's sequence number, and Overlap entries before it,
\* are sent again, then RESUMED, which takes a sequence number of its own.
OnResume(s, sequence) ==
  LET missed == Ascending({i \in 1..Len(log) : i > sequence - Overlap /\ log[i].id # None})
      again == [n \in 1..Len(missed) |-> Event(missed[n], log[missed[n]].kind, log[missed[n]].id)]
      resumed == Resumed(Len(log) + 1)
  IN \/ /\ s = session
        /\ wire' = Append(wire \o again, resumed)
        /\ log' = Append(log, Published(resumed))
        /\ conn' = "live"
        /\ UNCHANGED <<session, sessions, published>>
     \/ /\ s # session
        /\ wire' = Append(wire, Control("invalid", FALSE))
        /\ UNCHANGED <<conn, sessionVars>>

Alive == conn \in {"open", "live"}
Lost == ~Alive /\ UNCHANGED <<network, sessionVars>>

\* What is written to a connection the server still has arrives at once: a later
\* arrival cannot be told from a later write.  What is written to a dead
\* connection is lost, or the write fails.
SendAuth(action) ==
  \/ Alive /\ action = "Identify" /\ OnIdentify
  \/ Alive /\ action = "Resume" /\ OnResume(sessionId, lastSequence)
  \/ Lost

SendHeartbeat ==
  \/ /\ Alive
     /\ wire' = Append(wire, Control("ack", FALSE))
     /\ UNCHANGED <<conn, sessionVars>>
  \/ Lost

\* The client drops its socket; what is still on the way is lost.
HangUp ==
  /\ conn' = "down"
  /\ wire' = <<>>
  /\ UNCHANGED sessionVars

TakeFrame == wire' = Tail(wire) /\ UNCHANGED <<conn, sessionVars>>

Fault ==
  /\ faults < MaxFaults
  /\ faults' = faults + 1
  /\ UNCHANGED rejects

-----------------------------------------------------------------------------
(* How a connection ends, as run_gateway takes it.                         *)

\* The locals of run_connection die with it.
DropLocals ==
  /\ awaitingAck' = FALSE
  /\ current' = "other"
  /\ connToken' = None

\* The task ends, and the lease of the credentials goes with it.
EndUnmarked(p) ==
  /\ phase' = p
  /\ token' = None
  /\ HangUp /\ DropLocals
  /\ UNCHANGED <<stop, attempt, health>>
End(p) ==
  /\ phase' = p
  /\ health' = Unconnected
  /\ token' = None
  /\ HangUp /\ DropLocals
  /\ UNCHANGED <<stop, attempt>>

\* ConnectionEnd::Reconnect, Recoverable and RateLimited: only the delay differs.
Retry ==
  /\ phase' = "backoff"
  /\ health' = Unconnected
  /\ attempt' = attempt + 1
  /\ HangUp /\ DropLocals
  /\ UNCHANGED stop

-----------------------------------------------------------------------------
(* run_gateway and run_connection, one action per stretch between awaits.  *)

LoopTop ==
  /\ phase = "loop"
  /\ \/ stop /\ End("stopped")
     \/ /\ ~stop
        /\ phase' = "credentials"
        /\ UNCHANGED <<stop, health, attempt, awaitingAck, current, token, connToken,
                       network, sessionVars>>
  /\ UNCHANGED <<pumpVars, tokenServer, bounds>>

\* gateway_credentials runs to its end: no select watches the stop signal here.
FetchCredentials ==
  /\ phase = "credentials"
  /\ phase' = "connect"
  /\ \/ token # None /\ UNCHANGED <<token, issued>>
     \/ token = None /\ token' = issued + 1 /\ issued' = issued + 1
  /\ connToken' = token'
  /\ UNCHANGED <<stop, health, attempt, awaitingAck, current, pumpVars, network,
                 sessionVars, condemned, bounds>>

\* classify_api_error, and a resume or gateway URL that does not validate.
CredentialsFail ==
  /\ phase = "credentials"
  /\ Fault
  /\ \/ Retry /\ UNCHANGED token
     \/ End("failed")
  /\ UNCHANGED <<pumpVars, tokenServer>>

Connect ==
  /\ phase = "connect"
  /\ phase' = "hello"
  /\ health' = [Unconnected EXCEPT !.connected = TRUE]
  /\ conn' = "open"
  /\ wire' = <<Control("hello", FALSE)>>
  /\ UNCHANGED <<stop, attempt, awaitingAck, current, token, connToken, pumpVars,
                 sessionVars, tokenServer, bounds>>

ConnectFails ==
  /\ phase = "connect"
  /\ Fault
  /\ Retry
  /\ UNCHANGED <<token, pumpVars, tokenServer>>

StopWhileConnecting ==
  /\ phase \in {"connect", "hello"}
  /\ stop
  /\ End("stopped")
  /\ UNCHANGED <<pumpVars, tokenServer, bounds>>

\* The awaited first frame: HELLO goes through the pump.
ReceiveHello ==
  /\ phase = "hello"
  /\ wire # <<>>
  /\ HandleFrame(Head(wire))
  /\ TakeFrame
  /\ phase' = "auth"
  /\ UNCHANGED <<stop, health, attempt, awaitingAck, current, token, connToken,
                 tokenServer, bounds>>

\* No HELLO in time, or the connection is closed before it came ...
HelloFails ==
  /\ phase = "hello"
  /\ ~Alive /\ wire = <<>>
  /\ Retry
  /\ UNCHANGED <<token, pumpVars, tokenServer, bounds>>

\* ... or the first frame is not a HELLO.
HelloRefused ==
  /\ phase = "hello"
  /\ Fault
  /\ End("failed")
  /\ UNCHANGED <<pumpVars, tokenServer>>

\* send_auth_action: the oldest queued action, Identify for want of any.
Authenticate ==
  /\ phase = "auth"
  /\ LET action == IF actions = <<>> THEN "Identify" ELSE Head(actions)
         auth == IF action = "Resume" /\ sessionId # None THEN "Resume" ELSE "Identify"
     IN \/ /\ SendAuth(auth)
           /\ phase' = "read"
           /\ UNCHANGED <<stop, health, attempt, awaitingAck, current, connToken>>
        \/ ~Alive /\ Retry
  /\ actions' = IF actions = <<>> THEN <<>> ELSE Tail(actions)
  /\ UNCHANGED <<resumePoint, window, task, accepted, token, tokenServer, bounds>>

\* The branches of the select: the stop signal ...
StopNotWatched == FALSE
StopWhileReading ==
  /\ phase = "read"
  /\ stop
  /\ End("stopped")
  /\ UNCHANGED <<pumpVars, tokenServer, bounds>>

\* ... the deadline of the ACK, early if the server or the queue is slow ...
AckTimeout ==
  /\ phase = "read"
  /\ awaitingAck
  /\ \/ ~Alive /\ UNCHANGED bounds
     \/ Alive /\ Fault
  /\ Retry
  /\ UNCHANGED <<token, pumpVars, tokenServer>>

AckNotAwaited == UNCHANGED awaitingAck
AwaitAck == awaitingAck' = TRUE

\* ... the heartbeat, skipped while an ACK is outstanding ...
HeartbeatTick ==
  /\ phase = "read"
  /\ ~awaitingAck
  /\ SendHeartbeat
  /\ AwaitAck
  /\ UNCHANGED <<phase, stop, health, attempt, current, token, connToken, pumpVars,
                 tokenServer, bounds>>

\* ... whose write may fail ...
HeartbeatFails ==
  /\ phase = "read"
  /\ ~awaitingAck
  /\ ~Alive
  /\ Retry
  /\ UNCHANGED <<token, pumpVars, tokenServer, bounds>>

\* ... the end of the stream or an error from it ...
StreamEnds ==
  /\ phase = "read"
  /\ conn = "down" /\ wire = <<>>
  /\ Retry
  /\ UNCHANGED <<token, pumpVars, tokenServer, bounds>>

\* The close codes that make the client drop its access token.
InvalidatesToken4004Only(class) == class = "RefreshToken"
InvalidatesToken(class) == class \in {"RefreshToken", "Reidentify"}

\* ... or a message: a close frame ...
ReceiveClose ==
  /\ phase = "read"
  /\ wire # <<>> /\ Head(wire).op = "close"
  /\ LET class == Head(wire).class
     IN /\ \/ class = "Permanent" /\ End("failed")
           \/ /\ class # "Permanent"
              /\ Retry
              /\ token' = IF InvalidatesToken(class) THEN None ELSE token
        /\ IF class = "Reidentify" THEN ClearSession ELSE UNCHANGED resumePoint
        /\ condemned' = IF class \in {"RefreshToken", "Reidentify"}
                        THEN condemned \cup {connToken} ELSE condemned
  /\ UNCHANGED <<window, actions, task, accepted, issued, bounds>>

\* ... a heartbeat ACK, which bypasses the pump ...
ReceiveAck ==
  /\ phase = "read"
  /\ wire # <<>> /\ Head(wire).op = "ack"
  /\ TakeFrame
  /\ awaitingAck' = FALSE
  /\ UNCHANGED <<phase, stop, health, attempt, current, token, connToken, pumpVars,
                 tokenServer, bounds>>

\* ... or any other frame: the pump handles it, READY and RESUMED identify.
ReceiveFrame ==
  /\ phase = "read"
  /\ wire # <<>> /\ Head(wire).op \notin {"close", "ack"}
  /\ LET f == Head(wire)
         identifies == f.t \in {"READY", "RESUMED"}
     IN /\ HandleFrame(f)
        /\ current' = f.op
        /\ health' = [health EXCEPT !.identified = @ \/ identifies]
        /\ attempt' = IF identifies THEN 0 ELSE attempt
  /\ TakeFrame
  /\ phase' = "drain"
  /\ UNCHANGED <<stop, awaitingAck, token, connToken, tokenServer, bounds>>

\* The while loop over pop_action, one action at a time; a send that fails ends
\* the connection, whatever is left of the frame's work.
DrainAction ==
  /\ phase = "drain"
  /\ PopAction
  /\ LET action == Head(actions)
         keep == UNCHANGED <<phase, stop, health, attempt, awaitingAck, current, connToken>>
     IN \/ /\ action \in {"Identify", "Resume"}
           /\ SendAuth(action) /\ keep
           /\ UNCHANGED task
        \/ /\ action = "Heartbeat"
           /\ SendHeartbeat /\ keep
           /\ UNCHANGED task
        \/ /\ action \in {"Identify", "Resume", "Heartbeat"}
           /\ ~Alive /\ Retry
           /\ task' = NoTask
        \/ /\ action \in {"Reconnect", "DispatchTask", "UnknownOpcode", "UnknownEvent"}
           /\ keep
           /\ UNCHANGED <<network, sessionVars, task>>
  /\ UNCHANGED <<resumePoint, window, accepted, token, tokenServer, bounds>>

\* Opcode 7 ends the connection, once its action is popped.
ReconnectRequested ==
  /\ phase = "drain" /\ actions = <<>>
  /\ current = "reconnect"
  /\ Retry
  /\ task' = NoTask
  /\ UNCHANGED <<resumePoint, window, actions, accepted, token, tokenServer, bounds>>

\* submit_one: Core takes the task, if there is one ...
SubmitTask ==
  /\ phase = "drain" /\ actions = <<>>
  /\ current # "reconnect"
  /\ IF task = NoTask THEN UNCHANGED pumpVars ELSE Accept
  /\ phase' = "read"
  /\ current' = "other"
  /\ UNCHANGED <<stop, health, attempt, awaitingAck, token, connToken, serverVars, bounds>>

\* ... or rejects it, which gives the reservation back and ends the connection.
SubmitRejected ==
  /\ phase = "drain" /\ actions = <<>>
  /\ current # "reconnect"
  /\ rejects < MaxRejects
  /\ rejects' = rejects + 1
  /\ Reject
  /\ Retry
  /\ UNCHANGED <<token, tokenServer, faults>>

BackoffOver ==
  /\ phase = "backoff"
  /\ \/ stop /\ End("stopped")
     \/ /\ phase' = "loop"
        /\ UNCHANGED <<stop, health, attempt, awaitingAck, current, token, connToken,
                       network, sessionVars>>
  /\ UNCHANGED <<pumpVars, tokenServer, bounds>>

-----------------------------------------------------------------------------
(* The host.                                                               *)

Shutdown ==
  /\ ~stop /\ phase \notin Ended
  /\ stop' = TRUE
  /\ UNCHANGED <<phase, health, attempt, awaitingAck, current, token, connToken, pumpVars,
                 serverVars, bounds>>

\* The host drops the future of shutdown() while it waits: AbortHandleOnDrop aborts the
\* task at its await, and nothing marks the health.  The lease goes with the task, but a
\* request for a token goes on and may store its answer.  (With a Core task in hand the
\* drain loop does not await.)
AbortTask ==
  /\ stop /\ phase \notin Ended
  /\ phase = "drain" => task = NoTask
  /\ phase' = "failed"
  /\ health' = [health EXCEPT !.orphan = health.connected]
  /\ \/ token' = None /\ UNCHANGED issued
     \/ phase = "credentials" /\ token = None /\ token' = issued + 1 /\ issued' = issued + 1
  /\ actions' = <<>>
  /\ HangUp /\ DropLocals
  /\ UNCHANGED <<stop, attempt, resumePoint, window, task, accepted, condemned, bounds>>

\* start() once more: a new pump, and a new loop with a fresh attempt counter.
Restart ==
  /\ phase \in Ended
  /\ Fault
  /\ phase' = "loop"
  /\ stop' = FALSE
  /\ attempt' = 0
  /\ ClearSession
  /\ seen' = {} /\ order' = <<>> /\ actions' = <<>> /\ task' = NoTask
  /\ UNCHANGED <<accepted, health, awaitingAck, current, token, connToken, serverVars>>

-----------------------------------------------------------------------------
(* The environment on its own.                                             *)

Push2Client(f) == wire' = IF conn = "live" THEN Append(wire, f) ELSE wire

PublishEvent ==
  /\ session # None
  /\ published < MaxEvents
  /\ published' = published + 1
  /\ \E kind \in {"EVENT", "UNKNOWN"} :
       LET e == Event(Len(log) + 1, kind, published + 1)
       IN log' = Append(log, Published(e)) /\ Push2Client(e)
  /\ UNCHANGED <<pumpVars, clientVars, conn, session, sessions, tokenServer, bounds>>

\* Some frames of the server: opcodes 1 and 7, and one the pump does not know.
SendControl ==
  /\ conn = "live"
  /\ Fault
  /\ \E op \in {"heartbeat", "reconnect", "other"} : Push2Client(Control(op, FALSE))
  /\ UNCHANGED <<pumpVars, clientVars, conn, sessionVars, tokenServer>>

\* Opcode 9: the client must authenticate again, with the old session if it is
\* resumable, and the server keeps no other.
InvalidateSession ==
  /\ conn = "live"
  /\ Fault
  /\ \E resumable \in BOOLEAN :
       /\ wire' = Append(wire, Control("invalid", resumable))
       /\ session' = IF resumable THEN session ELSE None
       /\ log' = IF resumable THEN log ELSE <<>>
  /\ conn' = "open"
  /\ UNCHANGED <<pumpVars, clientVars, sessions, published, tokenServer>>

CloseConnection ==
  /\ Alive
  /\ Fault
  /\ \E class \in CloseClasses :
       /\ wire' = Append(wire, Close(class))
       /\ session' = IF class = "Reidentify" THEN None ELSE session
       /\ log' = IF class = "Reidentify" THEN <<>> ELSE log
  /\ conn' = "down"
  /\ UNCHANGED <<pumpVars, clientVars, sessions, published, tokenServer>>

\* The network loses the connection and the end of what was on the way: "gone"
\* is a loss nobody is told of.
LoseConnection ==
  /\ Alive
  /\ Fault
  /\ conn' \in {"down", "gone"}
  /\ \E n \in 0..Len(wire) : wire' = SubSeq(wire, 1, n)
  /\ UNCHANGED <<pumpVars, clientVars, sessionVars, tokenServer>>

\* A session nobody is connected to expires.
ExpireSession ==
  /\ session # None /\ conn # "live"
  /\ Fault
  /\ session' = None
  /\ log' = <<>>
  /\ UNCHANGED <<pumpVars, clientVars, network, sessions, published, tokenServer>>

-----------------------------------------------------------------------------
GatewayInit ==
  /\ PumpInit
  /\ phase = "loop" /\ stop = FALSE
  /\ health = Unconnected
  /\ attempt = 0 /\ awaitingAck = FALSE /\ current = "other"
  /\ token = None /\ connToken = None
  /\ conn = "down" /\ wire = <<>>
  /\ session = None /\ sessions = 0 /\ log = <<>> /\ published = 0
  /\ issued = 0 /\ condemned = {}
  /\ faults = 0 /\ rejects = 0

\* Steps the client takes by itself ...
ClientStep ==
  \/ LoopTop \/ FetchCredentials \/ Connect \/ StopWhileConnecting
  \/ ReceiveHello \/ HelloFails \/ Authenticate
  \/ StopWhileReading \/ HeartbeatTick \/ StreamEnds
  \/ ReceiveClose \/ ReceiveAck \/ ReceiveFrame
  \/ DrainAction \/ ReconnectRequested \/ SubmitTask \/ BackoffOver

\* ... and those somebody else decides on.
EnvironmentStep ==
  \/ CredentialsFail \/ ConnectFails \/ HelloRefused \/ HeartbeatFails
  \/ SubmitRejected
  \/ Shutdown \/ AbortTask \/ Restart
  \/ PublishEvent \/ SendControl \/ InvalidateSession
  \/ CloseConnection \/ LoseConnection \/ ExpireSession

GatewayNext == ClientStep \/ AckTimeout \/ EnvironmentStep

GatewaySpec == GatewayInit /\ [][GatewayNext]_gatewayVars

\* The tokio task runs while it can; the select picks among its ready branches at
\* random, so a stop signal that stays is picked; the ACK deadline is a timer.
\* The server, the network and the host owe nothing.
Fairness ==
  /\ WF_gatewayVars(ClientStep)
  /\ WF_gatewayVars(StopWhileReading)
  /\ WF_gatewayVars(AckTimeout /\ ~Alive)

FairGatewaySpec == GatewaySpec /\ Fairness

-----------------------------------------------------------------------------
(* Properties.                                                             *)

\* The numbers of the events Core accepted: READY and RESUMED carry no id.
Delivered ==
  LET events == Ascending({i \in 1..Len(accepted) : accepted[i][1] = "id"})
  IN [n \in 1..Len(events) |-> accepted[events[n]][2]]

\* The source implements the event channel: Core sees the events in the order
\* they were published and none twice, whatever is replayed after a Resume.
Channel == INSTANCE EventChannel WITH delivered <- Delivered
DeliversInOrder == Channel!ChannelSpec

\* Nothing before the resume point is missing: a Resume asks for what follows
\* last_sequence, so an event up to it that Core does not have, in the session
\* the server still keeps, is lost.  (While a task waits for submit_one its
\* sequence number is already taken.)
ResumePointCovered ==
  sessionId # None /\ sessionId = session /\ task = NoTask =>
    \A i \in 1..lastSequence :
      i \in DOMAIN log /\ log[i].kind = "EVENT" => log[i].id \in ToSet(Delivered)

\* The health snapshot follows the connection on every way out of it but the abort of
\* the task, after which it says what it said until the next task marks it: by then
\* the snapshot may show a connection that is gone, and that is the only time it does.
HealthTracksPhase ==
  /\ health.connected <=> phase \in {"hello", "auth", "read", "drain"} \/ health.orphan
  /\ health.identified => phase \in {"read", "drain"} \/ health.orphan
  /\ health.orphan => phase \notin {"hello", "auth", "read", "drain"}

\* A frame leaves no action and no task behind for the next one: send_auth_action
\* and the drain loop take the oldest action for the answer to their own frame.
NothingLeftOver ==
  /\ phase # "drain" => task = NoTask
  /\ phase \notin {"auth", "drain"} => actions = <<>>

\* A token the server has refused by close code authenticates no later connection.
CondemnedTokenNotReused == phase = "connect" => connToken \notin condemned

\* A connection that is gone without a word is noticed, by the missing ACK.
DeadConnectionNoticed == phase = "read" /\ conn = "gone" ~> phase # "read"

\* A stop signal ends the task, wherever it finds it.
StopEnds == stop ~> phase \in Ended

\* Every event the session still holds gets to Core, or Core rejects one, or the
\* source ends.
Pending(e) ==
  /\ \E i \in 1..Len(log) : log[i] = [kind |-> "EVENT", id |-> e]
  /\ e \notin ToSet(Delivered)
EventsArrive ==
  \A e \in 1..MaxEvents : Pending(e) ~> (~Pending(e) \/ rejects > 0 \/ phase \in Ended)
=============================================================================
