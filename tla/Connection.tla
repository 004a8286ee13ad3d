----------------------------- MODULE Connection -----------------------------
(***************************************************************************)
(* The connection loop of the client driver: `run` and the loops it runs   *)
(* while idle, connecting, connected and waiting to reconnect, with the    *)
(* socket's own requests (connect, disconnect, shutdown, ping) and the     *)
(* automatic heartbeat.  What the same loops do to channels is in Driver.  *)
(*                                                                         *)
(* select_biased! polls the lifecycle queue first; then a connection       *)
(* result or the end of the wait before a command; and, once connected,    *)
(* commands before frames and frames before the heartbeat timer.           *)
(*                                                                         *)
(* A frame is sent and a transport is closed by an await: until it returns *)
(* the driver polls nothing, neither a queue nor a timer, while the rest   *)
(* of the program goes on.  No transport bounds these waits.               *)
(***************************************************************************)
EXTENDS Naturals, Sequences, FiniteSets, SequencesExt, FiniteSetsExt

CONSTANTS
  Connects, Disconnects, Shutdowns, Pings,  \* request ids, by method
  ConnectOnStart,    \* Options.connect_on_start
  CustomPolicy,      \* Options.reconnect_policy is set
  MaxHeartbeats,     \* bound on the references heartbeats may take
  AttemptCap         \* where the attempt counter saturates (u32::MAX)

Controls == Connects \cup Disconnects \cup Shutdowns
Ids == Controls \cup Pings

ASSUME ConnectionAssumption ==
  /\ Connects \cap Disconnects = {} /\ Controls \cap Pings = {}
  /\ (Connects \cup Disconnects) \cap Shutdowns = {}
  /\ ConnectOnStart \in BOOLEAN /\ CustomPolicy \in BOOLEAN
  /\ MaxHeartbeats \in Nat /\ AttemptCap \in Nat \ {0}

P == INSTANCE ProtocolOps WITH Topics <- {}

VARIABLES
  phase,                \* which loop the driver is in
  attempt,              \* failures since the last connection
  status,               \* SocketStatus, as Socket::status shows it
  proto,                \* the Protocol struct
  heartbeat_reference,  \* the heartbeat not acknowledged yet, 0 if none
  pending_pings,        \* pings sent and not answered
  reason,               \* why the connection or the attempt ended
  ending,               \* the disconnect or shutdown that is answered once
                        \* the transport is closed, if there is one
  commands,             \* the command queue, as request ids
  lifecycle,            \* pings whose Cancel is in the lifecycle queue
  caller,               \* the task of each request
  answer,               \* the response each request was given
  dropped,              \* every handle is gone
  disconnected,         \* history: of connects and disconnects, a disconnect
                        \* was answered last
  owed,                 \* heartbeats the server has not acknowledged
  inbox                 \* acknowledgements that have arrived

vars == <<phase, attempt, status, proto, heartbeat_reference, pending_pings,
          reason, ending, commands, lifecycle, caller, answer, dropped,
          disconnected, owed, inbox>>

tasks   == <<caller, dropped>>
network == <<owed, inbox>>

Retryable == {"Connect", "Transport", "HeartbeatTimeout", "Protocol", "Closed"}
Final     == {"ClosedCleanly", "DriverStopped"}

(* The loops, and what the driver awaits outside them.                     *)
Polling  == {"idle", "connecting", "connected", "backoff"}
Awaiting == {"sending", "closing"}

Init ==
  /\ phase = IF ConnectOnStart THEN "connecting" ELSE "idle"
  /\ status = IF ConnectOnStart THEN "Connecting" ELSE "Disconnected"
  /\ attempt = 0
  /\ proto = P!NewProtocol
  /\ heartbeat_reference = 0
  /\ pending_pings = {}
  /\ reason = "none"
  /\ ending = {}
  /\ commands = <<>>
  /\ lifecycle = <<>>
  /\ caller = [id \in Ids |-> "idle"]
  /\ answer = [id \in Ids |-> "none"]
  /\ dropped = FALSE
  /\ disconnected = FALSE
  /\ owed = {}
  /\ inbox = <<>>

Answered(requests, result) ==
  [id \in Ids |-> IF id \in requests THEN result ELSE answer[id]]

---------------------------------------------------------------------------
(* Application tasks.  A stopped driver has dropped the queue and every    *)
(* response in it: a request fails at once.                                *)

Request(id) ==
  /\ ~dropped
  /\ caller[id] = "idle"
  /\ caller' = [caller EXCEPT ![id] = "waiting"]
  /\ IF phase = "stopped"
       THEN answer' = Answered({id}, "stopped") /\ UNCHANGED commands
       ELSE commands' = Append(commands, id) /\ UNCHANGED answer
  /\ UNCHANGED <<phase, attempt, status, proto, heartbeat_reference,
                 pending_pings, reason, ending, lifecycle, dropped,
                 disconnected, network>>

(* A ping times out or its future is dropped: the guard sends Cancel.      *)
GiveUp(id) ==
  /\ id \in Pings /\ caller[id] = "waiting" /\ answer[id] = "none"
  /\ caller' = [caller EXCEPT ![id] = "gone"]
  /\ lifecycle' = Append(lifecycle, id)
  /\ UNCHANGED <<phase, attempt, status, proto, heartbeat_reference,
                 pending_pings, reason, ending, commands, answer, dropped,
                 disconnected, network>>

(* The last handle goes.  A request in progress borrows one.               *)
DropHandles ==
  /\ ~dropped
  /\ \A id \in Ids : caller[id] = "waiting" => answer[id] # "none"
  /\ dropped' = TRUE
  /\ UNCHANGED <<phase, attempt, status, proto, heartbeat_reference,
                 pending_pings, reason, ending, commands, lifecycle, caller,
                 answer, disconnected, network>>

---------------------------------------------------------------------------
(* Ends of connections and attempts.                                       *)

(* on_disconnect: pings are interrupted; `given` are the answers the       *)
(* handler gave besides.                                                   *)
Interrupted == {ping.id : ping \in pending_pings}

(* run_connected returns: the transport is closed before anything else,    *)
(* and the caller of a disconnect or shutdown is answered after that.      *)
EndConnection(why, request) ==
  /\ phase' = "closing"
  /\ reason' = why /\ ending' = request
  /\ UNCHANGED <<status, attempt, proto, heartbeat_reference, pending_pings,
                 answer, disconnected, network>>

(* What on_disconnect and the end of run_connected forget.                 *)
ForgetConnection ==
  /\ proto' = P!ResetConnection(proto)
  /\ heartbeat_reference' = 0
  /\ pending_pings' = {}
  /\ owed' = {} /\ inbox' = <<>>

(* The driver returns: everything it owns is dropped, with the responses   *)
(* of every request it had not answered.                                   *)
Stop(given) ==
  /\ phase' = "stopped" /\ status' = "Closed"
  /\ ForgetConnection
  /\ commands' = <<>> /\ lifecycle' = <<>>
  /\ answer' = [id \in Ids |->
                  CASE id \in given -> "ok"
                    [] id \notin given /\ answer[id] # "none" -> answer[id]
                    [] OTHER -> IF id \in ToSet(commands) \cup Interrupted
                                  THEN "stopped" ELSE "none"]
  /\ UNCHANGED <<attempt, reason, disconnected>>

(* Mutation: the attempt counter wraps instead of saturating.              *)
ContinueUncapped(why) ==
  /\ reason' = why
  /\ attempt' = attempt + 1
  /\ phase' = "backoff" /\ status' = "WaitingToReconnect"

(* The reconnect policy, or its default, decides what follows a failure.   *)
Continue(why) ==
  /\ reason' = why
  /\ attempt' = Min({attempt + 1, AttemptCap})
  /\ \/ /\ CustomPolicy \/ why \in Retryable
        /\ phase' = "backoff" /\ status' = "WaitingToReconnect"
     \/ /\ CustomPolicy \/ why \in Final
        /\ phase' = "idle" /\ status' = "Disconnected"

(* The transport of a connection that was lost is closed.                  *)
Lose(why) ==
  /\ UNCHANGED disconnected
  /\ Continue(why)
  /\ ForgetConnection
  /\ answer' = Answered(Interrupted, "interrupted")

(* Mutation: wait_offline goes on retrying after a disconnect.             *)
DisconnectAndRetry(id) ==
  /\ phase' = "connecting" /\ status' = "Connecting"
  /\ ForgetConnection
  /\ answer' = [Answered(Interrupted, "interrupted") EXCEPT ![id] = "ok"]
  /\ reason' = "Requested" /\ disconnected' = TRUE
  /\ UNCHANGED attempt

(* Mutation: the response of the disconnect is dropped.                    *)
DisconnectSilently(id) ==
  /\ phase' = "idle" /\ status' = "Disconnected"
  /\ ForgetConnection
  /\ answer' = Answered(Interrupted, "interrupted")
  /\ reason' = "Requested" /\ disconnected' = TRUE
  /\ UNCHANGED attempt

(* A disconnect is answered, anywhere but in wait_idle: the transport, if  *)
(* there was one, is closed.                                               *)
Disconnect(id) ==
  /\ phase' = "idle" /\ status' = "Disconnected"
  /\ ForgetConnection
  /\ answer' = [Answered(Interrupted, "interrupted") EXCEPT ![id] = "ok"]
  /\ reason' = "Requested" /\ disconnected' = TRUE
  /\ UNCHANGED attempt

---------------------------------------------------------------------------
(* Queues.                                                                 *)

(* A heartbeat frame is handed to the transport: the server may have it    *)
(* before the send returns.                                                *)
SendHeartbeat ==
  /\ phase' = "sending"
  /\ proto' = P!Heartbeat(proto)
  /\ owed' = owed \cup {P!NextRef(proto)}
  /\ UNCHANGED <<status, attempt, reason, ending, inbox>>

(* Mutation: the protocol goes on waiting for a ping that was cancelled.   *)
CancelPingOfDriver(id) ==
  /\ pending_pings' = {ping \in pending_pings : ping.id # id}
  /\ UNCHANGED proto

(* cancel, for a ping: one not sent yet is not found.                      *)
CancelPing(id) ==
  IF id \in Interrupted
    THEN \E ping \in pending_pings :
           /\ ping.id = id
           /\ pending_pings' = pending_pings \ {ping}
           /\ proto' = P!Forget(proto, "Heartbeat", ping.ref)
    ELSE UNCHANGED <<pending_pings, proto>>

HandleLifecycle ==
  /\ phase \in Polling
  /\ lifecycle # <<>>
  /\ lifecycle' = Tail(lifecycle)
  /\ CancelPing(Head(lifecycle))
  /\ UNCHANGED <<phase, attempt, status, heartbeat_reference, reason, ending,
                 commands, tasks, answer, disconnected, network>>

(* Mutation: only run_connected notices the end of the queue.              *)
HandleEndConnected ==
  /\ phase = "connected"
  /\ dropped /\ lifecycle = <<>>
  /\ EndConnection("DriverStopped", {})
  /\ UNCHANGED <<commands, lifecycle, tasks>>

(* The lifecycle queue ends when it is empty and no handle is left.        *)
HandleEnd ==
  /\ phase \in Polling
  /\ dropped /\ lifecycle = <<>>
  /\ IF phase = "connected"
       THEN /\ EndConnection("DriverStopped", {})
            /\ UNCHANGED <<commands, lifecycle>>
       ELSE Stop({}) /\ UNCHANGED ending
  /\ UNCHANGED tasks

(* connect, or a disconnect with nothing to disconnect, is accepted.       *)
Accept(id) ==
  /\ answer' = Answered({id}, "ok")
  /\ disconnected' = (id \in Disconnects)

(* ping fails at once without a connection.                                *)
RefusePing(id) ==
  /\ answer' = Answered({id}, "not connected")
  /\ UNCHANGED disconnected

TakeCommand(id) ==
  /\ lifecycle = <<>> /\ ~dropped
  /\ commands # <<>> /\ id = Head(commands)
  /\ UNCHANGED tasks

(* wait_idle                                                               *)
IdleCommand(id) ==
  /\ phase = "idle"
  /\ TakeCommand(id)
  /\ \/ /\ id \in Connects
        /\ phase' = "connecting" /\ status' = "Connecting" /\ attempt' = 0
        /\ Accept(id)
     \/ /\ id \in Disconnects
        /\ Accept(id)
        /\ UNCHANGED <<phase, status, attempt>>
     \/ /\ id \in Pings
        /\ RefusePing(id)
        /\ UNCHANGED <<phase, status, attempt>>
  /\ commands' = Tail(commands)
  /\ UNCHANGED <<proto, heartbeat_reference, pending_pings, reason, ending,
                 lifecycle, network>>

(* The attempt in progress, and wait_offline.                              *)
OfflineCommand(id) ==
  /\ phase \in {"connecting", "backoff"}
  /\ TakeCommand(id)
  /\ \/ /\ \/ id \in Connects /\ Accept(id)
           \/ id \in Pings /\ RefusePing(id)
        /\ UNCHANGED <<phase, status, attempt, reason, proto,
                       heartbeat_reference, pending_pings, network>>
     \/ id \in Disconnects /\ Disconnect(id)
  /\ commands' = Tail(commands)
  /\ UNCHANGED <<ending, lifecycle>>

(* A ping is tracked before it is sent.                                    *)
SendPing(id) ==
  /\ pending_pings' = pending_pings \cup {[id |-> id, ref |-> P!NextRef(proto)]}
  /\ SendHeartbeat
  /\ UNCHANGED <<heartbeat_reference, answer, disconnected>>

(* run_connected                                                           *)
ConnectedCommand(id) ==
  /\ phase = "connected"
  /\ TakeCommand(id)
  /\ \/ /\ id \in Connects
        /\ Accept(id)
        /\ UNCHANGED <<phase, status, attempt, reason, proto,
                       ending, heartbeat_reference, pending_pings, network>>
     \/ id \in Disconnects /\ EndConnection("Requested", {id})
     \/ id \in Pings /\ SendPing(id)
  /\ commands' = Tail(commands)
  /\ UNCHANGED lifecycle

(* In every loop.                                                          *)
ShutdownCommand(id) ==
  /\ phase \in Polling
  /\ id \in Shutdowns
  /\ TakeCommand(id)
  /\ IF phase = "connected"
       THEN /\ EndConnection(reason, {id})
            /\ commands' = Tail(commands) /\ UNCHANGED lifecycle
       ELSE Stop({id}) /\ UNCHANGED ending

---------------------------------------------------------------------------
(* The connection.                                                         *)

ConnectResult ==
  /\ phase = "connecting"
  /\ lifecycle = <<>> /\ ~dropped
  /\ \/ /\ phase' = "connected" /\ status' = "Connected" /\ attempt' = 0
        /\ reason' = "none"
     \/ Continue("Connect")
  /\ UNCHANGED <<proto, heartbeat_reference, pending_pings, ending, commands,
                 lifecycle, tasks, answer, disconnected, network>>

Retry ==
  /\ phase = "backoff"
  /\ lifecycle = <<>> /\ ~dropped
  /\ phase' = "connecting" /\ status' = "Connecting"
  /\ UNCHANGED <<attempt, reason, proto, heartbeat_reference, pending_pings,
                 ending, commands, lifecycle, tasks, answer, disconnected, network>>

(* Nothing is queued: what the transport has delivered comes next, and     *)
(* timers only after it.                                                   *)
Quiet ==
  /\ phase = "connected"
  /\ lifecycle = <<>> /\ ~dropped /\ commands = <<>>
  /\ UNCHANGED <<commands, lifecycle, tasks>>

(* An acknowledgement settles the heartbeat or a ping, by its reference.   *)
HandleAck ==
  /\ Quiet
  /\ inbox # <<>>
  /\ inbox' = Tail(inbox)
  /\ LET ref == Head(inbox)
         frame == [event |-> "phx_reply", topic |-> P!PhoenixTopic,
                   join_ref |-> 0, ref |-> ref, status |-> "ok"]
         over == {ping \in pending_pings : ping.ref = ref}
     IN  /\ proto' = P!Receive(proto, frame)
         /\ IF P!EventKind(proto, frame) # "HeartbeatAck"
              THEN UNCHANGED <<heartbeat_reference, pending_pings, answer>>
              ELSE IF heartbeat_reference = ref
                THEN /\ heartbeat_reference' = 0
                     /\ UNCHANGED <<pending_pings, answer>>
                ELSE /\ pending_pings' = pending_pings \ over
                     /\ answer' = Answered({ping.id : ping \in over}, "ok")
                     /\ UNCHANGED heartbeat_reference
  /\ UNCHANGED <<phase, status, attempt, reason, ending, disconnected, owed>>

(* The close notification, an error of the transport or a frame that does  *)
(* not decode; not every transport delivers the frames before it first.    *)
TransportEnds ==
  /\ Quiet
  /\ \E why \in {"Closed", "ClosedCleanly", "Transport", "Protocol"} :
       EndConnection(why, {})

(* Mutation: the timer is polled before the transport.                     *)
TimerFiresFirst == Quiet

(* The heartbeat timer expires: the interval if none is outstanding, the   *)
(* timeout of the one that is.                                             *)
TimerFires ==
  /\ Quiet
  /\ inbox = <<>>

HeartbeatDue ==
  /\ TimerFires
  /\ heartbeat_reference = 0
  /\ proto.next_reference < MaxHeartbeats
  /\ SendHeartbeat
  /\ heartbeat_reference' = P!NextRef(proto)
  /\ UNCHANGED <<pending_pings, answer, disconnected>>

HeartbeatTimeout ==
  /\ TimerFires
  /\ heartbeat_reference # 0
  /\ EndConnection("HeartbeatTimeout", {})

(* The transport has sent the frame, or fails; or the frame did not encode.*)
SendReturns ==
  /\ phase = "sending"
  /\ \/ /\ phase' = "connected"
        /\ UNCHANGED <<status, attempt, reason, ending, proto,
                       heartbeat_reference, pending_pings, answer, disconnected,
                       network>>
     \/ \E why \in {"Transport", "Protocol"} : EndConnection(why, {})
  /\ UNCHANGED <<commands, lifecycle, tasks>>

(* The transport is closed, with success or not: the rest of what ends the *)
(* connection happens.                                                     *)
CloseReturns ==
  /\ phase = "closing"
  /\ \/ /\ ending = {}
        /\ Lose(reason) /\ UNCHANGED <<commands, lifecycle>>
     \/ \E id \in ending \cap Disconnects :
          Disconnect(id) /\ UNCHANGED <<commands, lifecycle>>
     \/ \E id \in ending \cap Shutdowns : Stop({id})
  /\ ending' = {}
  /\ UNCHANGED tasks

(* The server acknowledges a heartbeat; the frame reaches the transport.   *)
Acknowledge ==
  /\ \E ref \in owed :
       /\ owed' = owed \ {ref}
       /\ inbox' = Append(inbox, ref)
  /\ UNCHANGED <<phase, attempt, status, proto, heartbeat_reference,
                 pending_pings, reason, ending, commands, lifecycle, tasks,
                 answer, disconnected>>

HandleCommand ==
  \E id \in Ids : \/ IdleCommand(id) \/ OfflineCommand(id)
                  \/ ConnectedCommand(id) \/ ShutdownCommand(id)

Next ==
  \/ \E id \in Ids : Request(id) \/ GiveUp(id)
  \/ DropHandles
  \/ HandleLifecycle \/ HandleEnd \/ HandleCommand
  \/ ConnectResult \/ Retry
  \/ HandleAck \/ TransportEnds \/ HeartbeatDue \/ HeartbeatTimeout
  \/ SendReturns \/ CloseReturns
  \/ Acknowledge

(* The host polls the driver continuously, as the documentation of Driver  *)
(* demands, connect_timeout ends every attempt, and every timer expires.   *)
(* Nothing is asked of the application, nor of the transport: SendReturns  *)
(* and CloseReturns may never come, as with a server that stops reading.   *)
Fairness ==
  /\ WF_vars(HandleLifecycle) /\ WF_vars(HandleEnd) /\ WF_vars(HandleCommand)
  /\ WF_vars(ConnectResult) /\ WF_vars(Retry)
  /\ WF_vars(HandleAck) /\ WF_vars(HeartbeatTimeout)

Spec == Init /\ [][Next]_vars /\ Fairness

---------------------------------------------------------------------------
(* Every variable has its type.                                            *)
TypeOK ==
  /\ phase \in Polling \cup Awaiting \cup {"stopped"}
  /\ status \in {"Disconnected", "Connecting", "Connected",
                "WaitingToReconnect", "Closed"}
  /\ attempt \in 0..AttemptCap
  /\ proto \in P!ProtocolState
  /\ heartbeat_reference \in 0..MaxHeartbeats
  /\ pending_pings \subseteq [id : Pings, ref : Nat]
  /\ reason \in Retryable \cup Final \cup {"none", "Requested"}
  /\ ending \subseteq Disconnects \cup Shutdowns
  /\ commands \in Seq(Ids) /\ lifecycle \in Seq(Pings)
  /\ caller \in [Ids -> {"idle", "waiting", "gone"}]
  /\ answer \in
       [Ids -> {"none", "ok", "not connected", "interrupted", "stopped"}]
  /\ dropped \in BOOLEAN /\ disconnected \in BOOLEAN
  /\ owed \subseteq Nat /\ inbox \in Seq(Nat)

(* Every heartbeat the protocol waits for is either the automatic one or   *)
(* a ping somebody waits for, and no two are the same: an acknowledgement  *)
(* settles what it acknowledges and never passes for another's, and a      *)
(* cancelled ping, or one of an earlier connection, leaves nothing behind. *)
(* Nor is a caller left behind: whoever waits for a ping is in the command *)
(* queue or in pending_pings, through every change of loop.                *)
HeartbeatsAccounted ==
  LET tracked == {e.ref : e \in proto.pending}
      pinged  == {ping.ref : ping \in pending_pings}
  IN  /\ tracked = pinged \cup ({heartbeat_reference} \ {0})
      /\ heartbeat_reference \notin pinged
      /\ \A p, q \in pending_pings : p.ref = q.ref => p = q
      /\ \A id \in Pings :
           caller[id] = "waiting" /\ answer[id] = "none" =>
             (id \in ToSet(commands) <=> id \notin Interrupted)

(* A connection is taken for dead only if its heartbeat is unanswered: an  *)
(* acknowledgement that has arrived always wins against the timer.         *)
TimeoutMeansSilence ==
  [][reason' = "HeartbeatTimeout" /\ phase = "connected" /\ phase' # "connected"
       => heartbeat_reference \in owed]_vars

(* The status follows what Socket documents, through every loop and every  *)
(* way out of it.  In particular no attempt is made after a disconnect was *)
(* answered until a connect is.                                            *)
Lifecycle == INSTANCE SocketLifecycle
ImplementsLifecycle == Lifecycle!Spec

(* The assumption on the transport: every send and every close returns, if *)
(* only with an error.  Neither the driver nor the native transport puts a *)
(* bound on them, so a server that stops reading can break it.             *)
TransportReturns == []<>(phase \notin Awaiting)

(* connect, disconnect and shutdown have no timeout: as long as the        *)
(* transport returns, the driver answers them whatever loop it is in and   *)
(* whatever frames the server sends or withholds.  Nor does a heartbeat    *)
(* then stay outstanding: it is acknowledged, or the connection is given   *)
(* up; a silent server is noticed.                                         *)
NothingWaitsForever ==
  TransportReturns =>
    /\ \A id \in Controls : caller[id] = "waiting" ~> answer[id] # "none"
    /\ \A ref \in 1..MaxHeartbeats :
         heartbeat_reference = ref ~> heartbeat_reference # ref

(* A driver nobody holds a handle of ends, whatever the policy wants, as   *)
(* long as the transport returns.                                          *)
AbandonedDriverEnds ==
  TransportReturns => (dropped ~> phase = "stopped")
=============================================================================
