-------------------------- MODULE ConnectionProofs --------------------------
(***************************************************************************)
(* What is proved about Connection, for any requests and any bounds: its   *)
(* types, that every heartbeat is accounted for, that a connection is      *)
(* given up as dead only when it is silent, and that its status follows    *)
(* the lifecycle Socket documents.                                         *)
(***************************************************************************)
EXTENDS Connection, TLAPS

---------------------------------------------------------------------------
(* Queues.                                                                 *)

(* A queue with one more element at its end.                               *)
LEMMA Queued ==
  ASSUME NEW S, NEW s \in Seq(S), NEW c \in S
  PROVE  /\ Append(s, c) \in Seq(S) /\ Append(s, c) # <<>>
         /\ ToSet(Append(s, c)) = ToSet(s) \cup {c}
         /\ IsInjective(s) /\ c \notin ToSet(s) => IsInjective(Append(s, c))
<1> DEFINE t == Append(s, c)
<1>1. /\ t \in Seq(S) /\ Len(s) \in Nat /\ t # <<>>
      /\ DOMAIN s = 1..Len(s) /\ DOMAIN t = 1..(Len(s) + 1)
      /\ t[Len(s) + 1] = c /\ \A i \in 1..Len(s) : t[i] = s[i]
  OBVIOUS
<1>2. DOMAIN t = DOMAIN s \cup {Len(s) + 1} /\ Len(s) + 1 \notin DOMAIN s
  BY <1>1
<1> HIDE DEF t
<1> QED BY <1>1, <1>2 DEF ToSet, IsInjective, t

(* A queue whose first element is taken.                                   *)
LEMMA Taken ==
  ASSUME NEW S, NEW s \in Seq(S), s # <<>>
  PROVE  /\ Tail(s) \in Seq(S) /\ Head(s) \in S
         /\ ToSet(s) = ToSet(Tail(s)) \cup {Head(s)}
         /\ IsInjective(s) =>
              IsInjective(Tail(s)) /\ Head(s) \notin ToSet(Tail(s))
<1> DEFINE t == Tail(s)
<1>1. /\ t \in Seq(S) /\ Len(s) \in Nat \ {0} /\ Head(s) \in S
      /\ DOMAIN s = 1..Len(s) /\ DOMAIN t = 1..(Len(s) - 1)
      /\ Head(s) = s[1] /\ \A i \in 1..(Len(s) - 1) : t[i] = s[i + 1]
  OBVIOUS
<1> HIDE DEF t
<1>2. /\ 1 \in DOMAIN s
      /\ \A i \in DOMAIN s : i = 1 \/ (i - 1 \in DOMAIN t /\ t[i - 1] = s[i])
      /\ \A i \in DOMAIN t : i \in Nat /\ i + 1 \in DOMAIN s /\ t[i] = s[i + 1]
                             /\ i + 1 # 1
  BY <1>1
<1>3. ToSet(s) = ToSet(t) \cup {Head(s)}
  BY <1>1, <1>2 DEF ToSet
<1>4. ASSUME IsInjective(s)
      PROVE  IsInjective(t) /\ Head(s) \notin ToSet(t)
  <2>1. ASSUME NEW i \in DOMAIN t, NEW j \in DOMAIN t, t[i] = t[j]
        PROVE  i = j
    <3>1. i + 1 = j + 1
      BY <1>2, <1>4, <2>1 DEF IsInjective
    <3> QED BY <1>2, <3>1
  <2>2. ASSUME NEW i \in DOMAIN t
        PROVE  t[i] # s[1]
    BY <1>2, <1>4 DEF IsInjective
  <2> QED BY <1>1, <2>1, <2>2 DEF ToSet, IsInjective
<1> QED BY <1>1, <1>3, <1>4 DEF t

(* An empty queue.                                                         *)
LEMMA NothingQueued ==
  ASSUME NEW S
  PROVE  <<>> \in Seq(S) /\ ToSet(<<>>) = {} /\ IsInjective(<<>>)
BY DEF ToSet, IsInjective

---------------------------------------------------------------------------
(* The protocol state of a socket without channels.                        *)

(* The pending requests are heartbeats that were numbered.                 *)
Beating(p) == \A e \in p.pending : /\ e.kind = "Heartbeat"
                                   /\ e.ref \in 1..p.next_reference

(* heartbeat                                                               *)
LEMMA HeartbeatEffect ==
  ASSUME NEW p \in P!ProtocolState, Beating(p)
  PROVE  /\ P!Heartbeat(p) \in P!ProtocolState /\ Beating(P!Heartbeat(p))
         /\ P!NextRef(p) \in Nat /\ P!NextRef(p) = p.next_reference + 1
         /\ P!Heartbeat(p).next_reference = P!NextRef(p)
         /\ {e.ref : e \in P!Heartbeat(p).pending} =
              {e.ref : e \in p.pending} \cup {P!NextRef(p)}
<1> DEFINE new == P!Pending("Heartbeat", P!PhoenixTopic, P!NextRef(p))
<1>1. /\ P!NextRef(p) \in Nat /\ P!NextRef(p) = p.next_reference + 1
      /\ p.next_reference \in Nat /\ \A e \in p.pending : e.ref \in Nat
  BY DEF P!ProtocolState, P!NextRef, P!PendingRecord
<1>2. /\ P!Heartbeat(p).next_reference = P!NextRef(p)
      /\ P!Heartbeat(p).channels = p.channels
      /\ P!Heartbeat(p).pending = p.pending \cup {new}
  BY DEF P!Heartbeat, P!ProtocolState
<1>3. new \in P!PendingRecord /\ new.kind = "Heartbeat"
      /\ new.ref = P!NextRef(p)
  BY <1>1 DEF P!Pending, P!PendingRecord
<1>4. P!Heartbeat(p) \in P!ProtocolState
  BY <1>1, <1>3 DEF P!Heartbeat, P!ProtocolState
<1> HIDE DEF new
<1>5. Beating(P!Heartbeat(p))
  BY <1>1, <1>2, <1>3 DEF Beating
<1> QED BY <1>1, <1>2, <1>3, <1>4, <1>5

(* reset_connection                                                        *)
LEMMA ResetEffect ==
  ASSUME NEW p \in P!ProtocolState
  PROVE  /\ P!ResetConnection(p) \in P!ProtocolState
         /\ P!ResetConnection(p).pending = {}
BY DEF P!ResetConnection, P!ProtocolState

(* forget_heartbeat                                                        *)
LEMMA ForgetEffect ==
  ASSUME NEW p \in P!ProtocolState, Beating(p), NEW r
  PROVE  LET q == P!Forget(p, "Heartbeat", r)
         IN  /\ q \in P!ProtocolState /\ Beating(q)
             /\ q.next_reference = p.next_reference
             /\ {e.ref : e \in q.pending} = {e.ref : e \in p.pending} \ {r}
BY DEF P!Forget, P!ProtocolState, Beating

(* The acknowledgement of a heartbeat.                                     *)
Ack(r) == [event |-> "phx_reply", topic |-> P!PhoenixTopic,
           join_ref |-> 0, ref |-> r, status |-> "ok"]

(* receive, for an acknowledgement: it acknowledges just what is pending.  *)
LEMMA AckEffect ==
  ASSUME NEW p \in P!ProtocolState, Beating(p), NEW r
  PROVE  /\ P!EventKind(p, Ack(r)) = "HeartbeatAck"
              <=> r \in {e.ref : e \in p.pending}
         /\ LET q == P!Receive(p, Ack(r))
            IN  /\ q \in P!ProtocolState /\ Beating(q)
                /\ q.next_reference = p.next_reference
                /\ {e.ref : e \in q.pending} = {e.ref : e \in p.pending} \ {r}
<1> DEFINE f == Ack(r)
           e == CHOOSE e \in P!Matching(p, f) : TRUE
<1>1. /\ f.event = "phx_reply" /\ f.topic \notin {} /\ f.ref = r
      /\ f.status = "ok"
  BY DEF Ack
<1> HIDE DEF f
<1>2. ~P!IsStale(p, f)
  BY <1>1 DEF P!IsStale
<1>3. P!Matching(p, f) = {g \in p.pending : g.ref = r}
  BY <1>1 DEF P!Matching
<1>4. CASE P!Matching(p, f) = {}
  <2>1. P!EventKind(p, f) = "UnmatchedReply"
    BY <1>1, <1>2, <1>4 DEF P!EventKind
  <2>2. P!Receive(p, f) = p
    BY <2>1 DEF P!Receive
  <2> QED BY <1>3, <1>4, <2>1, <2>2 DEF f
<1>5. CASE P!Matching(p, f) # {}
  <2>1. e \in P!Matching(p, f) /\ e.kind = "Heartbeat"
    BY <1>3, <1>5 DEF Beating
  <2>2. P!EventKind(p, f) = "HeartbeatAck"
    BY <1>1, <1>2, <1>5, <2>1 DEF P!EventKind
  <2>3. P!Receive(p, f) = P!Take(p, f)
    BY <2>2 DEF P!Receive
  <2>4. /\ P!Take(p, f).next_reference = p.next_reference
        /\ P!Take(p, f).channels = p.channels
        /\ P!Take(p, f).pending = {g \in p.pending : g.ref # r}
        /\ P!Take(p, f) \in P!ProtocolState
    BY <1>3 DEF P!Take, P!ProtocolState
  <2> QED BY <1>3, <1>5, <2>2, <2>3, <2>4 DEF Beating, f
<1> QED BY <1>4, <1>5

(* saturating_add                                                          *)
LEMMA Saturates ==
  ASSUME NEW n \in 0..AttemptCap
  PROVE  Min({n + 1, AttemptCap}) \in 0..AttemptCap
<1>1. AttemptCap \in Nat \ {0} /\ n \in Nat /\ n <= AttemptCap
  BY ConnectionAssumption
<1>2. \E x \in {n + 1, AttemptCap} : \A y \in {n + 1, AttemptCap} : x =< y
  BY <1>1
<1>3. /\ Min({n + 1, AttemptCap}) \in {n + 1, AttemptCap}
      /\ \A y \in {n + 1, AttemptCap} : Min({n + 1, AttemptCap}) =< y
  BY <1>2 DEF Min
<1> QED BY <1>1, <1>3

---------------------------------------------------------------------------
(***************************************************************************)
(* The inductive invariant.  HeartbeatsAccounted does not say that the     *)
(* heartbeat somebody waits for is on its way, so that a timeout might be  *)
(* another's fault; nor that a ping is queued once, and cancelled only     *)
(* when its caller has gone, so that taking it from a queue might lose its *)
(* caller; nor what the loops know of the status and of a disconnect.      *)
(***************************************************************************)
StatusOf(p) ==
  CASE p = "idle"       -> "Disconnected"
    [] p = "connecting" -> "Connecting"
    [] p \in {"connected", "sending", "closing"} -> "Connected"
    [] p = "backoff"    -> "WaitingToReconnect"
    [] p = "stopped"    -> "Closed"

Accord ==
  /\ status = StatusOf(phase)
  /\ disconnected => phase \in {"idle", "stopped"}
  /\ phase \in {"connected", "sending"} => reason = "none"
  /\ phase = "closing" /\ ending = {} => reason \in Retryable \cup Final

Beats ==
  /\ Beating(proto)
  /\ heartbeat_reference # 0 =>
       heartbeat_reference \in owed \cup ToSet(inbox)

Queues ==
  /\ IsInjective(commands)
  /\ \A id \in ToSet(commands) \cup Interrupted : caller[id] # "idle"
  /\ \A id \in ToSet(lifecycle) : caller[id] = "gone"

IInv == TypeOK /\ Accord /\ Beats /\ Queues /\ HeartbeatsAccounted

---------------------------------------------------------------------------
(* Type correctness, in four parts a step may disturb apart.               *)

Phases == Polling \cup Awaiting \cup {"stopped"}
Results == {"none", "ok", "not connected", "interrupted", "stopped"}
Reasons == Retryable \cup Final \cup {"none", "Requested"}

LoopType ==
  /\ phase \in Phases
  /\ status \in {"Disconnected", "Connecting", "Connected",
                 "WaitingToReconnect", "Closed"}
  /\ attempt \in 0..AttemptCap
  /\ reason \in Reasons
  /\ ending \subseteq Disconnects \cup Shutdowns

HeartbeatType ==
  /\ proto \in P!ProtocolState
  /\ heartbeat_reference \in 0..MaxHeartbeats
  /\ pending_pings \subseteq [id : Pings, ref : Nat]
  /\ owed \subseteq Nat /\ inbox \in Seq(Nat)

QueueType == commands \in Seq(Ids) /\ lifecycle \in Seq(Pings)

TaskType ==
  /\ caller \in [Ids -> {"idle", "waiting", "gone"}]
  /\ answer \in [Ids -> Results]
  /\ dropped \in BOOLEAN /\ disconnected \in BOOLEAN

(* The parts make the whole, before a step and after it.                   *)
LEMMA Types ==
  /\ TypeOK <=> LoopType /\ HeartbeatType /\ QueueType /\ TaskType
  /\ TypeOK' <=> LoopType' /\ HeartbeatType' /\ QueueType' /\ TaskType'
<1>1. TypeOK <=> LoopType /\ HeartbeatType /\ QueueType /\ TaskType
  BY DEF TypeOK, LoopType, HeartbeatType, QueueType, TaskType, Phases, Results,
         Reasons
<1>2. TypeOK' <=> LoopType' /\ HeartbeatType' /\ QueueType' /\ TaskType'
  BY DEF TypeOK, LoopType, HeartbeatType, QueueType, TaskType, Phases, Results,
         Reasons
<1> QED BY <1>1, <1>2

(* A number of requests is answered.                                       *)
LEMMA AnsweredType ==
  ASSUME TaskType, NEW requests, NEW result \in Results
  PROVE  Answered(requests, result) \in [Ids -> Results]
BY DEF Answered, TaskType

(* What the end of a connection leaves.                                    *)
LEMMA ForgetType ==
  ASSUME HeartbeatType, ForgetConnection
  PROVE  /\ HeartbeatType' /\ proto'.pending = {} /\ heartbeat_reference' = 0
         /\ pending_pings' = {} /\ owed' = {} /\ inbox' = <<>>
<1>1. /\ proto' \in P!ProtocolState /\ proto'.pending = {}
  BY ResetEffect DEF ForgetConnection, HeartbeatType
<1>2. /\ heartbeat_reference' = 0 /\ pending_pings' = {}
      /\ owed' = {} /\ inbox' = <<>>
  BY DEF ForgetConnection
<1>3. 0 \in 0..MaxHeartbeats
  BY ConnectionAssumption
<1> QED BY <1>1, <1>2, <1>3, NothingQueued DEF HeartbeatType

(* The reconnect policy.                                                   *)
LEMMA ContinueType ==
  ASSUME LoopType, NEW why \in Retryable \cup Final, Continue(why),
         ending' \in {{}, ending}
  PROVE  /\ LoopType' /\ phase' \in {"backoff", "idle"}
         /\ status' = StatusOf(phase') /\ reason' = why
<1>1. attempt' \in 0..AttemptCap
  BY Saturates DEF Continue, LoopType
<1>2. /\ phase' \in {"backoff", "idle"} /\ status' = StatusOf(phase')
      /\ reason' = why
      /\ status' \in {"Disconnected", "WaitingToReconnect"}
  BY DEF Continue, StatusOf
<1> QED BY <1>1, <1>2 DEF LoopType, Phases, Reasons, Polling

(* run_connected returns.                                                  *)
LEMMA EndType ==
  ASSUME LoopType, HeartbeatType, NEW why \in Reasons,
         NEW request \in SUBSET (Disconnects \cup Shutdowns),
         EndConnection(why, request)
  PROVE  LoopType' /\ HeartbeatType'
BY DEF EndConnection, LoopType, HeartbeatType, Phases, Awaiting, network

(* The transport of a connection that was lost is closed.                  *)
LEMMA LoseType ==
  ASSUME TypeOK, NEW why \in Retryable \cup Final, Lose(why), ending' = {},
         UNCHANGED <<commands, lifecycle, tasks>>
  PROVE  TypeOK'
<1> LoopType /\ HeartbeatType /\ QueueType /\ TaskType
  BY Types
<1>1. answer' \in [Ids -> Results]
  BY AnsweredType DEF Lose, Results
<1>2. TaskType'
  BY <1>1 DEF Lose, TaskType, tasks
<1>3. LoopType' /\ HeartbeatType'
  BY ContinueType, ForgetType DEF Lose
<1>4. QueueType'
  BY DEF QueueType
<1> QED BY <1>2, <1>3, <1>4, Types

(* The driver returns.                                                     *)
LEMMA StopType ==
  ASSUME TypeOK, NEW given, Stop(given), UNCHANGED tasks,
         ending' \in {{}, ending}
  PROVE  TypeOK'
<1> LoopType /\ HeartbeatType /\ QueueType /\ TaskType
  BY Types
<1>1. answer' \in [Ids -> Results]
  BY DEF Stop, TaskType, Results
<1>2. TaskType'
  BY <1>1 DEF Stop, TaskType, tasks
<1>3. QueueType'
  BY NothingQueued DEF Stop, QueueType
<1>4. LoopType'
  BY DEF Stop, LoopType, Phases
<1> QED BY <1>2, <1>3, <1>4, Types, ForgetType DEF Stop

(* A command is taken.                                                     *)
LEMMA CommandType ==
  ASSUME QueueType, NEW id, TakeCommand(id), commands' = Tail(commands)
  PROVE  /\ commands' \in Seq(Ids) /\ id \in Ids
         /\ UNCHANGED tasks /\ lifecycle = <<>> /\ commands # <<>>
         /\ UNCHANGED lifecycle => QueueType'
<1>1. commands \in Seq(Ids) /\ commands # <<>> /\ id = Head(commands)
  BY DEF TakeCommand, QueueType
<1>2. Tail(commands) \in Seq(Ids) /\ id \in Ids
  BY <1>1, Taken
<1> QED BY <1>1, <1>2 DEF TakeCommand, QueueType

(* A disconnect is answered.                                               *)
LEMMA DisconnectType ==
  ASSUME TypeOK, NEW id \in Ids, Disconnect(id), QueueType', UNCHANGED tasks,
         ending' \in {{}, ending}
  PROVE  TypeOK'
<1> LoopType /\ HeartbeatType /\ QueueType /\ TaskType
  BY Types
<1>1. Answered(Interrupted, "interrupted") \in [Ids -> Results]
  BY AnsweredType DEF Results
<1>2. answer' \in [Ids -> Results] /\ disconnected' \in BOOLEAN
  BY <1>1 DEF Disconnect, Results
<1>3. TaskType'
  BY <1>2 DEF TaskType, tasks
<1>4. LoopType'
  BY DEF Disconnect, LoopType, Phases, Polling, Reasons
<1> QED BY <1>3, <1>4, ForgetType, Types DEF Disconnect

(* A request is accepted or refused.                                       *)
LEMMA AcceptType ==
  ASSUME TaskType, NEW id, Accept(id) \/ RefusePing(id)
  PROVE  answer' \in [Ids -> Results] /\ disconnected' \in BOOLEAN
<1>1. CASE Accept(id)
  <2>1. (id \in Disconnects) \in BOOLEAN
    OBVIOUS
  <2>2. disconnected' \in BOOLEAN
    BY <1>1, <2>1 DEF Accept
  <2> QED BY <1>1, <2>2, AnsweredType DEF Accept, Results
<1>2. CASE RefusePing(id)
  BY <1>2, AnsweredType DEF RefusePing, Results, TaskType
<1> QED BY <1>1, <1>2

(* Every step of a command.                                                *)
LEMMA CommandStepType ==
  ASSUME TypeOK, Beating(proto), HandleCommand
  PROVE  TypeOK'
<1> LoopType /\ HeartbeatType /\ QueueType /\ TaskType
  BY Types
<1> PICK id \in Ids : \/ IdleCommand(id) \/ OfflineCommand(id)
                      \/ ConnectedCommand(id) \/ ShutdownCommand(id)
  BY DEF HandleCommand
<1>1. ASSUME TakeCommand(id), commands' = Tail(commands), UNCHANGED lifecycle
      PROVE  QueueType' /\ UNCHANGED tasks
  BY <1>1, CommandType
<1>2. ASSUME UNCHANGED tasks, Accept(id) \/ RefusePing(id)
      PROVE  TaskType'
  BY <1>2, AcceptType DEF TaskType, tasks
<1>3. ASSUME UNCHANGED <<proto, heartbeat_reference, pending_pings, network>>
      PROVE  HeartbeatType'
  BY <1>3 DEF HeartbeatType, network
<1>4. ASSUME UNCHANGED <<phase, status, attempt, reason, ending>>
      PROVE  LoopType'
  BY <1>4 DEF LoopType
<1>5. CASE IdleCommand(id)
  <2>1. HeartbeatType' /\ QueueType' /\ TaskType'
    BY <1>1, <1>2, <1>3, <1>5 DEF IdleCommand
  <2>2. LoopType'
    BY <1>5, ConnectionAssumption DEF IdleCommand, LoopType, Phases, Polling
  <2> QED BY <2>1, <2>2, Types
<1>6. CASE OfflineCommand(id)
  <2>1. CASE ~Disconnect(id)
    <3>1. HeartbeatType' /\ QueueType' /\ TaskType' /\ LoopType'
      BY <1>1, <1>2, <1>3, <1>4, <1>6, <2>1 DEF OfflineCommand
    <3> QED BY <3>1, Types
  <2> QED BY <1>1, <1>6, <2>1, DisconnectType DEF OfflineCommand
<1>7. CASE ConnectedCommand(id)
  <2>1. TakeCommand(id) /\ commands' = Tail(commands) /\ UNCHANGED lifecycle
    BY <1>7 DEF ConnectedCommand
  <2>2. QueueType' /\ UNCHANGED tasks
    BY <1>1, <2>1
  <2>3. CASE /\ Accept(id)
             /\ UNCHANGED <<phase, status, attempt, reason, proto, ending,
                            heartbeat_reference, pending_pings, network>>
    BY <1>2, <1>3, <1>4, <2>2, <2>3, Types
  <2>4. CASE id \in Pings /\ SendPing(id)
    <3>1. /\ proto' \in P!ProtocolState /\ P!NextRef(proto) \in Nat
      BY <2>4, HeartbeatEffect DEF SendPing, SendHeartbeat, HeartbeatType
    <3>2. [id |-> id, ref |-> P!NextRef(proto)] \in [id : Pings, ref : Nat]
      BY <2>4, <3>1
    <3>3. /\ pending_pings' \subseteq [id : Pings, ref : Nat]
          /\ owed' \subseteq Nat
      BY <2>4, <3>1, <3>2 DEF SendPing, SendHeartbeat, HeartbeatType
    <3>4. HeartbeatType'
      BY <2>4, <3>1, <3>3 DEF SendPing, SendHeartbeat, HeartbeatType
    <3>5. LoopType' /\ TaskType'
      BY <2>2, <2>4 DEF SendPing, SendHeartbeat, LoopType, Phases, Awaiting,
                        TaskType, tasks
    <3> QED BY <2>2, <3>4, <3>5, Types
  <2>5. CASE id \in Disconnects /\ EndConnection("Requested", {id})
    <3>1. LoopType' /\ HeartbeatType'
      BY <2>5, EndType DEF Reasons
    <3>2. TaskType'
      BY <2>2, <2>5 DEF EndConnection, TaskType, tasks
    <3> QED BY <2>2, <3>1, <3>2, Types
  <2> QED BY <1>7, <2>1, <2>3, <2>4, <2>5 DEF ConnectedCommand
<1>8. CASE ShutdownCommand(id)
  <2>1. UNCHANGED tasks
    BY <1>8 DEF ShutdownCommand, TakeCommand
  <2>2. CASE phase = "connected"
    <3>1. /\ EndConnection(reason, {id}) /\ id \in Shutdowns
          /\ TakeCommand(id) /\ commands' = Tail(commands) /\ UNCHANGED lifecycle
      BY <1>8, <2>2 DEF ShutdownCommand
    <3>2. LoopType' /\ HeartbeatType'
      BY <3>1, EndType DEF LoopType
    <3>3. TaskType' /\ QueueType'
      BY <1>1, <2>1, <3>1 DEF EndConnection, TaskType, tasks
    <3> QED BY <3>2, <3>3, Types
  <2> QED BY <1>8, <2>1, <2>2, StopType DEF ShutdownCommand
<1> QED BY <1>5, <1>6, <1>7, <1>8

(* A cancelled ping is forgotten, if it is found.                          *)
LEMMA CancelEffect ==
  ASSUME HeartbeatType, Beating(proto), NEW id, CancelPing(id)
  PROVE  /\ proto' \in P!ProtocolState /\ Beating(proto')
         /\ proto'.next_reference = proto.next_reference
         /\ \/ /\ \E ping \in pending_pings :
                    /\ ping.id = id
                    /\ pending_pings' = pending_pings \ {ping}
                    /\ {e.ref : e \in proto'.pending} =
                         {e.ref : e \in proto.pending} \ {ping.ref}
            \/ id \notin Interrupted /\ UNCHANGED <<pending_pings, proto>>
<1>1. CASE id \in Interrupted
  <2> PICK ping \in pending_pings :
             /\ ping.id = id
             /\ pending_pings' = pending_pings \ {ping}
             /\ proto' = P!Forget(proto, "Heartbeat", ping.ref)
    BY <1>1 DEF CancelPing
  <2> QED BY ForgetEffect DEF HeartbeatType
<1>2. CASE id \notin Interrupted
  BY <1>2 DEF CancelPing, HeartbeatType
<1> QED BY <1>1, <1>2

(* Every step keeps the types.                                             *)
LEMMA StepTypes ==
  ASSUME TypeOK, Accord, Beating(proto), [Next]_vars
  PROVE  TypeOK'
<1> LoopType /\ HeartbeatType /\ QueueType /\ TaskType
  BY Types
<1> USE DEF tasks, network
<1>1. ASSUME NEW id \in Ids, Request(id)
      PROVE  TypeOK'
  <2>1. Append(commands, id) \in Seq(Ids)
    BY Queued DEF QueueType
  <2>2. Answered({id}, "stopped") \in [Ids -> Results]
    BY AnsweredType DEF Results
  <2>3. TaskType'
    BY <1>1, <2>2 DEF Request, TaskType
  <2>4. LoopType' /\ HeartbeatType'
    BY <1>1 DEF Request, LoopType, HeartbeatType
  <2>5. QueueType'
    BY <1>1, <2>1 DEF Request, QueueType
  <2> QED BY <2>3, <2>4, <2>5, Types
<1>2. ASSUME NEW id \in Ids, GiveUp(id)
      PROVE  TypeOK'
  <2>1. Append(lifecycle, id) \in Seq(Pings)
    BY <1>2, Queued DEF QueueType, GiveUp
  <2>2. TaskType' /\ LoopType' /\ HeartbeatType' /\ QueueType'
    BY <1>2, <2>1 DEF GiveUp, TaskType, LoopType, HeartbeatType, QueueType
  <2> QED BY <2>2, Types
<1>3. CASE DropHandles
  <2>1. TaskType' /\ LoopType' /\ HeartbeatType' /\ QueueType'
    BY <1>3 DEF DropHandles, TaskType, LoopType, HeartbeatType, QueueType
  <2> QED BY <2>1, Types
<1>4. CASE HandleLifecycle
  <2>1. Tail(lifecycle) \in Seq(Pings)
    BY <1>4, Taken DEF HandleLifecycle, QueueType
  <2>2. proto' \in P!ProtocolState /\ pending_pings' \subseteq pending_pings
    BY <1>4, CancelEffect DEF HandleLifecycle
  <2>3. TaskType' /\ LoopType' /\ HeartbeatType' /\ QueueType'
    BY <1>4, <2>1, <2>2
       DEF HandleLifecycle, TaskType, LoopType, HeartbeatType, QueueType
  <2> QED BY <2>3, Types
<1>e. ASSUME NEW why \in Reasons, EndConnection(why, {}),
             UNCHANGED <<commands, lifecycle, tasks>>
      PROVE  TypeOK'
  <2>1. LoopType' /\ HeartbeatType'
    BY <1>e, EndType
  <2>2. TaskType' /\ QueueType'
    BY <1>e DEF EndConnection, TaskType, QueueType
  <2> QED BY <2>1, <2>2, Types
<1>r. Retryable \cup Final \subseteq Reasons
  BY DEF Reasons
<1>5. CASE HandleEnd
  BY <1>5, <1>e, <1>r, StopType DEF HandleEnd, Final
<1>6. CASE HandleCommand
  BY <1>6, CommandStepType
<1>7. CASE ConnectResult
  <2>1. "Connect" \in Retryable \cup Final
    BY DEF Retryable
  <2>2. LoopType'
    <3>1. CASE Continue("Connect")
      BY <1>7, <2>1, <3>1, ContinueType DEF ConnectResult
    <3>2. CASE ~Continue("Connect")
      BY <1>7, <3>2, ConnectionAssumption
         DEF ConnectResult, LoopType, Phases, Polling, Reasons
    <3> QED BY <3>1, <3>2
  <2>3. TaskType' /\ HeartbeatType' /\ QueueType'
    BY <1>7 DEF ConnectResult, TaskType, HeartbeatType, QueueType
  <2> QED BY <2>2, <2>3, Types
<1>8. CASE Retry
  <2>1. TaskType' /\ LoopType' /\ HeartbeatType' /\ QueueType'
    BY <1>8 DEF Retry, TaskType, LoopType, HeartbeatType, QueueType, Phases,
                Polling
  <2> QED BY <2>1, Types
<1>9. CASE HandleAck
  <2> DEFINE over == {ping \in pending_pings : ping.ref = Head(inbox)}
  <2>1. Tail(inbox) \in Seq(Nat) /\ inbox' = Tail(inbox)
    BY <1>9, Taken DEF HandleAck, HeartbeatType
  <2>2. proto' \in P!ProtocolState
    BY <1>9, AckEffect DEF HandleAck, HeartbeatType, Ack
  <2>3. Answered({ping.id : ping \in over}, "ok") \in [Ids -> Results]
    BY AnsweredType DEF Results
  <2>4. answer' \in [Ids -> Results] /\ pending_pings' \subseteq pending_pings
        /\ heartbeat_reference' \in {0, heartbeat_reference}
    BY <1>9, <2>3 DEF HandleAck, TaskType
  <2>5. HeartbeatType'
    BY <1>9, <2>1, <2>2, <2>4, ConnectionAssumption
       DEF HandleAck, HeartbeatType
  <2>6. TaskType' /\ LoopType' /\ QueueType'
    BY <1>9, <2>4 DEF HandleAck, Quiet, TaskType, LoopType, QueueType
  <2> QED BY <2>5, <2>6, Types
<1>10. CASE TransportEnds
  BY <1>10, <1>e, <1>r DEF TransportEnds, Quiet, Retryable, Final
<1>11. CASE HeartbeatDue
  <2>1. UNCHANGED <<commands, lifecycle, tasks>>
    BY <1>11 DEF HeartbeatDue, TimerFires, Quiet
  <2>2. /\ proto' \in P!ProtocolState /\ P!NextRef(proto) \in Nat
        /\ P!NextRef(proto) = proto.next_reference + 1
        /\ proto.next_reference \in Nat
    BY <1>11, HeartbeatEffect
       DEF HeartbeatDue, SendHeartbeat, HeartbeatType, P!ProtocolState
  <2>3. heartbeat_reference' \in 0..MaxHeartbeats
    BY <1>11, <2>2, ConnectionAssumption DEF HeartbeatDue
  <2>4. HeartbeatType'
    BY <1>11, <2>2, <2>3 DEF HeartbeatDue, SendHeartbeat, HeartbeatType
  <2>5. TaskType' /\ LoopType' /\ QueueType'
    BY <1>11, <2>1
       DEF HeartbeatDue, SendHeartbeat, TaskType, LoopType, QueueType, Phases,
           Awaiting
  <2> QED BY <2>4, <2>5, Types
<1>12. CASE HeartbeatTimeout
  BY <1>12, <1>e, <1>r DEF HeartbeatTimeout, TimerFires, Quiet, Retryable
<1>13. CASE Acknowledge
  <2>1. \A ref \in owed : Append(inbox, ref) \in Seq(Nat)
    BY Queued DEF HeartbeatType
  <2>2. TaskType' /\ LoopType' /\ HeartbeatType' /\ QueueType'
    BY <1>13, <2>1
       DEF Acknowledge, TaskType, LoopType, HeartbeatType, QueueType
  <2> QED BY <2>2, Types
<1>14. CASE SendReturns
  <2>1. CASE \E why \in {"Transport", "Protocol"} : EndConnection(why, {})
    BY <1>14, <1>e, <1>r, <2>1 DEF SendReturns, Retryable
  <2>2. CASE phase' = "connected" /\ ~\E why \in {"Transport", "Protocol"} :
                                        EndConnection(why, {})
    <3>1. TaskType' /\ LoopType' /\ HeartbeatType' /\ QueueType'
      BY <1>14, <2>2 DEF SendReturns, TaskType, LoopType, HeartbeatType,
                         QueueType, Phases, Polling
    <3> QED BY <3>1, Types
  <2> QED BY <1>14, <2>1, <2>2 DEF SendReturns
<1>15. CASE CloseReturns
  <2>1. CASE ending = {} /\ Lose(reason)
    BY <1>15, <2>1, LoseType DEF CloseReturns, Accord
  <2>2. ASSUME NEW id \in ending \cap Disconnects, Disconnect(id),
               UNCHANGED <<commands, lifecycle>>
        PROVE  TypeOK'
    <3>1. id \in Ids
      BY DEF Ids, Controls
    <3> QED BY <1>15, <2>2, <3>1, DisconnectType DEF CloseReturns, QueueType
  <2>3. ASSUME NEW id \in ending \cap Shutdowns, Stop({id})
        PROVE  TypeOK'
    BY <1>15, <2>3, StopType DEF CloseReturns
  <2> QED BY <1>15, <2>1, <2>2, <2>3 DEF CloseReturns
<1>16. CASE UNCHANGED vars
  BY <1>16 DEF vars, TypeOK
<1> QED BY <1>1, <1>2, <1>3, <1>4, <1>5, <1>6, <1>7, <1>8, <1>9, <1>10, <1>11,
           <1>12, <1>13, <1>14, <1>15, <1>16 DEF Next

---------------------------------------------------------------------------
(* What the loops know of the status and of a disconnect.                  *)

(* run_connected returns, and has a reason unless a request ended it.      *)
LEMMA EndAccord ==
  ASSUME Accord, phase \in {"connected", "sending"}, NEW why, NEW request,
         request = {} => why \in Retryable \cup Final,
         EndConnection(why, request)
  PROVE  Accord'
BY DEF EndConnection, Accord, StatusOf

(* The transport of a connection that was lost is closed.                  *)
LEMMA LoseAccord ==
  ASSUME IInv, phase = "closing", NEW why \in Retryable \cup Final, Lose(why),
         ending' = {}
  PROVE  Accord'
<1>1. ~disconnected /\ LoopType
  BY Types DEF IInv, Accord
<1>2. phase' \in {"backoff", "idle"} /\ status' = StatusOf(phase')
  BY <1>1, ContinueType DEF Lose
<1> QED BY <1>1, <1>2 DEF Accord, Lose

(* The driver returns.                                                     *)
LEMMA StopAccord ==
  ASSUME NEW given, Stop(given)
  PROVE  Accord'
BY DEF Stop, Accord, StatusOf

(* A disconnect is answered.                                               *)
LEMMA DisconnectAccord ==
  ASSUME NEW id, Disconnect(id)
  PROVE  Accord'
BY DEF Disconnect, Accord, StatusOf

(* A request is handled.                                                   *)
LEMMA CommandAccord ==
  ASSUME IInv, HandleCommand
  PROVE  Accord'
<1> Accord /\ LoopType
  BY Types DEF IInv
<1> PICK id \in Ids : \/ IdleCommand(id) \/ OfflineCommand(id)
                      \/ ConnectedCommand(id) \/ ShutdownCommand(id)
  BY DEF HandleCommand
<1>1. Connects \cap Disconnects = {}
  BY ConnectionAssumption
<1>2. CASE IdleCommand(id)
  <2>1. CASE id \in Connects /\ Accept(id) /\ phase' = "connecting"
             /\ status' = "Connecting"
    BY <1>1, <2>1 DEF Accept, Accord, StatusOf
  <2>2. CASE phase' = phase /\ status' = status
    BY <1>2, <2>2 DEF IdleCommand, Accord
  <2> QED BY <1>2, <2>1, <2>2 DEF IdleCommand
<1>3. CASE OfflineCommand(id)
  <2>1. CASE id \in Connects /\ Accept(id) /\ UNCHANGED <<phase, status, reason, ending>>
    BY <1>1, <2>1 DEF Accept, Accord
  <2>2. CASE RefusePing(id) /\ UNCHANGED <<phase, status, reason, ending>>
    BY <2>2 DEF RefusePing, Accord
  <2> QED BY <1>3, <2>1, <2>2, DisconnectAccord DEF OfflineCommand
<1>4. CASE ConnectedCommand(id)
  <2>1. CASE id \in Connects /\ Accept(id) /\ UNCHANGED <<phase, status, reason, ending>>
    BY <1>1, <2>1 DEF Accept, Accord
  <2>2. CASE SendPing(id)
    BY <1>4, <2>2
       DEF ConnectedCommand, SendPing, SendHeartbeat, Accord, StatusOf
  <2>3. CASE EndConnection("Requested", {id})
    BY <1>4, <2>3, EndAccord DEF ConnectedCommand
  <2> QED BY <1>4, <2>1, <2>2, <2>3 DEF ConnectedCommand
<1>5. CASE ShutdownCommand(id)
  BY <1>5, EndAccord, StopAccord DEF ShutdownCommand
<1> QED BY <1>2, <1>3, <1>4, <1>5

(* Every step keeps status, loop and disconnect in accord.                 *)
LEMMA StepAccord ==
  ASSUME IInv, [Next]_vars
  PROVE  Accord'
<1> Accord /\ LoopType
  BY Types DEF IInv
<1>1. {"Connect", "Transport", "DriverStopped", "HeartbeatTimeout", "Closed",
       "ClosedCleanly", "Protocol"} \subseteq Retryable \cup Final
  BY DEF Retryable, Final
<1>2. ASSUME UNCHANGED <<phase, status, reason, ending, disconnected>>
      PROVE  Accord'
  BY <1>2 DEF Accord
<1>3. ASSUME NEW id \in Ids, Request(id) \/ GiveUp(id)
      PROVE  Accord'
  BY <1>2, <1>3 DEF Request, GiveUp
<1>4. CASE DropHandles \/ HandleLifecycle \/ HandleAck \/ Acknowledge
  BY <1>2, <1>4 DEF DropHandles, HandleLifecycle, HandleAck, Acknowledge
<1>5. CASE HandleEnd
  BY <1>1, <1>5, EndAccord, StopAccord DEF HandleEnd
<1>6. CASE HandleCommand
  BY <1>6, CommandAccord
<1>7. CASE ConnectResult
  <2>1. CASE Continue("Connect")
    <3>1. phase' \in {"backoff", "idle"} /\ status' = StatusOf(phase')
      BY <1>1, <1>7, <2>1, ContinueType DEF ConnectResult
    <3> QED BY <1>7, <3>1 DEF ConnectResult, Accord
  <2> QED BY <1>7, <2>1 DEF ConnectResult, Accord, StatusOf
<1>8. CASE Retry
  BY <1>8 DEF Retry, Accord, StatusOf
<1>9. CASE TransportEnds
  BY <1>1, <1>9, EndAccord DEF TransportEnds, Quiet
<1>10. CASE HeartbeatDue
  BY <1>10
     DEF HeartbeatDue, TimerFires, Quiet, SendHeartbeat, Accord, StatusOf
<1>11. CASE HeartbeatTimeout
  BY <1>1, <1>11, EndAccord DEF HeartbeatTimeout, TimerFires, Quiet
<1>12. CASE SendReturns
  <2>1. CASE \E why \in {"Transport", "Protocol"} : EndConnection(why, {})
    BY <1>1, <1>12, <2>1, EndAccord DEF SendReturns
  <2>2. CASE phase' = "connected" /\ UNCHANGED <<status, reason, disconnected>>
    <3>1. phase = "sending"
      BY <1>12 DEF SendReturns
    <3> QED BY <2>2, <3>1 DEF Accord, StatusOf
  <2> QED BY <1>12, <2>1, <2>2 DEF SendReturns
<1>13. CASE CloseReturns
  <2>1. CASE ending = {} /\ Lose(reason)
    <3>1. reason \in Retryable \cup Final
      BY <1>13, <2>1 DEF CloseReturns, Accord
    <3> QED BY <1>13, <2>1, <3>1, LoseAccord DEF CloseReturns
  <2> QED BY <1>13, <2>1, DisconnectAccord, StopAccord DEF CloseReturns
<1>14. CASE UNCHANGED vars
  BY <1>2, <1>14 DEF vars
<1> QED BY <1>3, <1>4, <1>5, <1>6, <1>7, <1>8, <1>9, <1>10, <1>11, <1>12, <1>13,
           <1>14 DEF Next

---------------------------------------------------------------------------
(* The heartbeats.                                                         *)

(* HeartbeatsAccounted, in the part about references and the one about     *)
(* callers.                                                                *)
References ==
  LET tracked == {e.ref : e \in proto.pending}
      pinged  == {ping.ref : ping \in pending_pings}
  IN  /\ tracked = pinged \cup ({heartbeat_reference} \ {0})
      /\ heartbeat_reference \notin pinged
      /\ \A p, q \in pending_pings : p.ref = q.ref => p = q

Callers ==
  \A id \in Pings :
    caller[id] = "waiting" /\ answer[id] = "none" =>
      (id \in ToSet(commands) <=> id \notin Interrupted)

(* The parts make the whole.                                               *)
LEMMA Parts ==
  /\ HeartbeatsAccounted <=> References /\ Callers
  /\ HeartbeatsAccounted' <=> References' /\ Callers'
BY DEF HeartbeatsAccounted, References, Callers

(* Nothing of a connection is left.                                        *)
LEMMA ForgetBeats ==
  ASSUME HeartbeatType, ForgetConnection
  PROVE  Beats' /\ References'
<1>1. /\ proto'.pending = {} /\ heartbeat_reference' = 0 /\ pending_pings' = {}
  BY ForgetType
<1> QED BY <1>1 DEF Beats, Beating, References

(* A heartbeat is sent, and a ping with it or none.                        *)
LEMMA SendBeats ==
  ASSUME IInv, SendHeartbeat,
         \/ /\ heartbeat_reference = 0
            /\ heartbeat_reference' = P!NextRef(proto)
            /\ UNCHANGED pending_pings
         \/ \E id \in Pings :
              /\ pending_pings' =
                   pending_pings \cup {[id |-> id, ref |-> P!NextRef(proto)]}
              /\ UNCHANGED heartbeat_reference
  PROVE  Beats' /\ References'
<1> DEFINE new == P!NextRef(proto)
<1>1. HeartbeatType /\ Beats /\ References
  BY Types, Parts DEF IInv
<1>2. /\ Beating(proto') /\ new \in Nat /\ new = proto.next_reference + 1
      /\ proto.next_reference \in Nat
      /\ {e.ref : e \in proto'.pending} = {e.ref : e \in proto.pending} \cup {new}
  BY <1>1, HeartbeatEffect
     DEF SendHeartbeat, HeartbeatType, Beats, P!ProtocolState
<1>3. \A e \in proto.pending : e.ref # new /\ e.ref # 0
  BY <1>1, <1>2 DEF Beats, Beating
<1>4. new \notin {e.ref : e \in proto.pending} /\ new # 0
      /\ 0 \notin {e.ref : e \in proto.pending}
  BY <1>2, <1>3
<1>5. owed' = owed \cup {new} /\ inbox' = inbox
  BY DEF SendHeartbeat
<1> HIDE DEF new
<1>6. Beats'
  BY <1>1, <1>2, <1>5 DEF Beats, new
<1>7. CASE /\ heartbeat_reference = 0 /\ heartbeat_reference' = new
           /\ UNCHANGED pending_pings
  <2>1. {ping.ref : ping \in pending_pings} = {e.ref : e \in proto.pending}
    BY <1>1, <1>7 DEF References
  <2> QED BY <1>1, <1>2, <1>4, <1>6, <1>7, <2>1 DEF References
<1>8. CASE \E id \in Pings :
              /\ pending_pings' = pending_pings \cup {[id |-> id, ref |-> new]}
              /\ UNCHANGED heartbeat_reference
  <2> PICK id \in Pings :
              /\ pending_pings' = pending_pings \cup {[id |-> id, ref |-> new]}
              /\ UNCHANGED heartbeat_reference
    BY <1>8
  <2> DEFINE sent == [id |-> id, ref |-> new]
  <2>0. sent.ref = new /\ pending_pings' = pending_pings \cup {sent}
    OBVIOUS
  <2> HIDE DEF sent
  <2>1. {ping.ref : ping \in pending_pings'} =
          {ping.ref : ping \in pending_pings} \cup {new}
    BY <2>0
  <2>2. \A ping \in pending_pings : ping.ref # new
    BY <1>1, <1>4 DEF References
  <2>3. \A p, q \in pending_pings' : p.ref = q.ref => p = q
    BY <1>1, <2>0, <2>2 DEF References
  <2>4. heartbeat_reference # new
    BY <1>1, <1>4 DEF References
  <2>5. heartbeat_reference \notin {ping.ref : ping \in pending_pings'}
    BY <1>1, <2>1, <2>4 DEF References
  <2>6. {e.ref : e \in proto'.pending} =
          {ping.ref : ping \in pending_pings'} \cup ({heartbeat_reference} \ {0})
    BY <1>1, <1>2, <2>1 DEF References
  <2> QED BY <1>6, <2>3, <2>5, <2>6 DEF References
<1> QED BY <1>7, <1>8 DEF new

(* An acknowledgement settles just what it acknowledges.                   *)
LEMMA AckBeats ==
  ASSUME IInv, HandleAck
  PROVE  Beats' /\ References'
<1> DEFINE ref == Head(inbox)
           over == {ping \in pending_pings : ping.ref = ref}
<1>1. HeartbeatType /\ Beats /\ References
  BY Types, Parts DEF IInv
<1>2. /\ ToSet(inbox) = ToSet(Tail(inbox)) \cup {ref}
      /\ inbox' = Tail(inbox) /\ owed' = owed
  BY <1>1, Taken DEF HandleAck, HeartbeatType
<1>3. proto' = P!Receive(proto, Ack(ref))
  BY DEF HandleAck, Ack
<1>4. /\ Beating(proto')
      /\ {e.ref : e \in proto'.pending} = {e.ref : e \in proto.pending} \ {ref}
      /\ P!EventKind(proto, Ack(ref)) = "HeartbeatAck"
           <=> ref \in {e.ref : e \in proto.pending}
  BY <1>1, <1>3, AckEffect DEF HeartbeatType, Beats
<1>5. \/ /\ ref \notin {e.ref : e \in proto.pending}
         /\ UNCHANGED <<heartbeat_reference, pending_pings>>
      \/ /\ heartbeat_reference = ref /\ heartbeat_reference' = 0
         /\ UNCHANGED pending_pings
      \/ /\ heartbeat_reference # ref /\ UNCHANGED heartbeat_reference
         /\ pending_pings' = pending_pings \ over
  BY <1>4 DEF HandleAck, Ack
<1>6. 0 \notin {e.ref : e \in proto.pending}
  BY <1>1 DEF Beats, Beating
<1> HIDE DEF ref
<1>7. heartbeat_reference' # 0 =>
        heartbeat_reference' = heartbeat_reference /\ heartbeat_reference # ref
  BY <1>1, <1>5 DEF References
<1>8. Beats'
  BY <1>1, <1>2, <1>4, <1>7 DEF Beats
<1>9. CASE /\ ref \notin {e.ref : e \in proto.pending}
           /\ UNCHANGED <<heartbeat_reference, pending_pings>>
  BY <1>1, <1>4, <1>8, <1>9 DEF References
<1>10. CASE /\ heartbeat_reference = ref /\ heartbeat_reference' = 0
            /\ UNCHANGED pending_pings
  BY <1>1, <1>4, <1>6, <1>8, <1>10 DEF References
<1>11. CASE /\ heartbeat_reference # ref /\ UNCHANGED heartbeat_reference
            /\ pending_pings' = pending_pings \ over
  <2>1. {ping.ref : ping \in pending_pings'} =
          {ping.ref : ping \in pending_pings} \ {ref}
    BY <1>11
  <2>2. \A p, q \in pending_pings' : p.ref = q.ref => p = q
    BY <1>1, <1>11 DEF References
  <2> HIDE DEF over
  <2> QED BY <1>1, <1>4, <1>8, <1>11, <2>1, <2>2 DEF References
<1> QED BY <1>5, <1>9, <1>10, <1>11

(* A ping is cancelled.                                                    *)
LEMMA CancelBeats ==
  ASSUME IInv, HandleLifecycle
  PROVE  Beats' /\ References'
<1>1. HeartbeatType /\ Beats /\ References
  BY Types, Parts DEF IInv
<1>2. /\ CancelPing(Head(lifecycle))
      /\ UNCHANGED <<heartbeat_reference, owed, inbox>>
  BY DEF HandleLifecycle, network
<1>3. CASE UNCHANGED <<pending_pings, proto>>
  BY <1>1, <1>2, <1>3 DEF Beats, References
<1>4. CASE \E ping \in pending_pings :
             /\ pending_pings' = pending_pings \ {ping}
             /\ {e.ref : e \in proto'.pending} =
                  {e.ref : e \in proto.pending} \ {ping.ref}
  <2> PICK ping \in pending_pings :
             /\ pending_pings' = pending_pings \ {ping}
             /\ {e.ref : e \in proto'.pending} =
                  {e.ref : e \in proto.pending} \ {ping.ref}
    BY <1>4
  <2>1. {p.ref : p \in pending_pings'} =
          {p.ref : p \in pending_pings} \ {ping.ref}
    BY <1>1 DEF References
  <2>2. ping.ref # heartbeat_reference
    BY <1>1 DEF References
  <2>3. \A p, q \in pending_pings' : p.ref = q.ref => p = q
    BY <1>1 DEF References
  <2>4. References'
    BY <1>1, <1>2, <2>1, <2>2, <2>3 DEF References
  <2>5. Beating(proto')
    BY <1>1, <1>2, CancelEffect DEF Beats
  <2> QED BY <1>1, <1>2, <2>4, <2>5 DEF Beats
<1> QED BY <1>1, <1>2, <1>3, <1>4, CancelEffect DEF Beats

(* Every step keeps the heartbeats accounted for.                          *)
LEMMA StepBeats ==
  ASSUME IInv, [Next]_vars
  PROVE  Beats' /\ References'
<1> HeartbeatType /\ Beats /\ References
  BY Types, Parts DEF IInv
<1> USE DEF network
<1>1. ASSUME UNCHANGED <<proto, heartbeat_reference, pending_pings, network>>
      PROVE  Beats' /\ References'
  BY <1>1 DEF Beats, References
<1>2. ASSUME NEW id \in Ids, Request(id) \/ GiveUp(id)
      PROVE  Beats' /\ References'
  BY <1>1, <1>2 DEF Request, GiveUp
<1>3. CASE DropHandles \/ ConnectResult \/ Retry
  BY <1>1, <1>3 DEF DropHandles, ConnectResult, Retry
<1>4. CASE HandleLifecycle
  BY <1>4, CancelBeats
<1>5. CASE HandleEnd
  BY <1>1, <1>5, ForgetBeats DEF HandleEnd, EndConnection, Stop
<1>6. CASE HandleCommand
  <2> PICK id \in Ids : \/ IdleCommand(id) \/ OfflineCommand(id)
                        \/ ConnectedCommand(id) \/ ShutdownCommand(id)
    BY <1>6 DEF HandleCommand
  <2>1. CASE IdleCommand(id)
    BY <1>1, <2>1 DEF IdleCommand
  <2>2. CASE OfflineCommand(id)
    BY <1>1, <2>2, ForgetBeats DEF OfflineCommand, Disconnect
  <2>3. CASE ConnectedCommand(id)
    BY <1>1, <2>3, SendBeats DEF ConnectedCommand, EndConnection, SendPing
  <2>4. CASE ShutdownCommand(id)
    BY <1>1, <2>4, ForgetBeats DEF ShutdownCommand, EndConnection, Stop
  <2> QED BY <2>1, <2>2, <2>3, <2>4
<1>7. CASE HandleAck
  BY <1>7, AckBeats
<1>8. CASE TransportEnds \/ HeartbeatTimeout \/ SendReturns
  BY <1>1, <1>8
     DEF TransportEnds, HeartbeatTimeout, SendReturns, EndConnection
<1>9. CASE HeartbeatDue
  BY <1>9, SendBeats DEF HeartbeatDue
<1>10. CASE Acknowledge
  <2> PICK ref \in owed : owed' = owed \ {ref} /\ inbox' = Append(inbox, ref)
    BY <1>10 DEF Acknowledge
  <2>1. ToSet(inbox') = ToSet(inbox) \cup {ref}
    <3>1. inbox \in Seq(Nat) /\ ref \in Nat
      BY DEF HeartbeatType
    <3> QED BY <3>1, Queued
  <2> QED BY <1>10, <2>1 DEF Acknowledge, Beats, References
<1>11. CASE CloseReturns
  BY <1>11, ForgetBeats DEF CloseReturns, Lose, Disconnect, Stop
<1>12. CASE UNCHANGED vars
  BY <1>1, <1>12 DEF vars
<1> QED BY <1>2, <1>3, <1>4, <1>5, <1>6, <1>7, <1>8, <1>9, <1>10, <1>11, <1>12
        DEF Next

---------------------------------------------------------------------------
(* The callers.                                                            *)

(* A command is taken, and is nowhere else in the queue.                   *)
LEMMA CommandTaken ==
  ASSUME IInv, NEW id, TakeCommand(id), commands' = Tail(commands)
  PROVE  /\ IsInjective(commands') /\ id \in Ids /\ id \notin ToSet(commands')
         /\ ToSet(commands) = ToSet(commands') \cup {id}
         /\ caller[id] # "idle" /\ caller' = caller
<1>1. /\ QueueType /\ Queues
  BY Types DEF IInv
<1>2. commands \in Seq(Ids) /\ commands # <<>> /\ id = Head(commands)
  BY <1>1 DEF TakeCommand, QueueType
<1>3. /\ Tail(commands) \in Seq(Ids) /\ id \in Ids
      /\ ToSet(commands) = ToSet(commands') \cup {id}
      /\ IsInjective(commands') /\ id \notin ToSet(commands')
  BY <1>1, <1>2, Taken DEF Queues
<1> QED BY <1>1, <1>3 DEF Queues, TakeCommand, tasks

(* Nobody waits for a ping of a connection that is lost.                   *)
LEMMA Interrupts ==
  ASSUME IInv, NEW more, pending_pings' = {}, UNCHANGED <<caller, lifecycle>>,
         ToSet(commands) = ToSet(commands') \cup more, IsInjective(commands'),
         \A id \in Ids : id \in Interrupted \cup more => answer'[id] # "none",
         \A id \in Ids : answer'[id] = "none" => answer[id] = "none"
  PROVE  Queues' /\ Callers'
<1>1. Queues /\ Callers
  BY Parts DEF IInv
<1>2. Interrupted' = {}
  BY DEF Interrupted
<1>3. Queues'
  BY <1>1, <1>2 DEF Queues
<1>4. ASSUME NEW id \in Pings, caller'[id] = "waiting", answer'[id] = "none"
      PROVE  id \in ToSet(commands')
  <2>1. id \in Ids
    BY DEF Ids
  <2>2. id \notin Interrupted /\ id \notin more /\ answer[id] = "none"
    BY <1>4, <2>1
  <2>3. id \in ToSet(commands)
    BY <1>1, <1>4, <2>2 DEF Callers
  <2> QED BY <2>2, <2>3
<1> QED BY <1>2, <1>3, <1>4 DEF Callers

(* A number of requests is answered, and no other.                         *)
LEMMA Answers ==
  ASSUME TaskType, NEW requests, NEW result \in Results \ {"none"},
         NEW id \in Ids
  PROVE  /\ id \in requests => Answered(requests, result)[id] # "none"
         /\ id \notin requests => Answered(requests, result)[id] = answer[id]
BY DEF Answered, TaskType, Results

(* A connection is lost.                                                   *)
LEMMA LoseCallers ==
  ASSUME IInv, NEW why, Lose(why), UNCHANGED <<commands, lifecycle, tasks>>
  PROVE  Queues' /\ Callers'
<1>1. TaskType /\ Queues /\ HeartbeatType
  BY Types DEF IInv
<1>2. "interrupted" \in Results \ {"none"}
  BY DEF Results
<1>3. /\ answer' = Answered(Interrupted, "interrupted")
      /\ pending_pings' = {} /\ caller' = caller
  BY DEF Lose, ForgetConnection, tasks
<1>4. \A id \in Ids :
        /\ id \in Interrupted => answer'[id] # "none"
        /\ answer'[id] = "none" => answer[id] = "none"
  BY <1>1, <1>2, <1>3, Answers
<1> DEFINE more == {}
<1>5. ToSet(commands) = ToSet(commands') \cup more /\ IsInjective(commands')
  BY <1>1 DEF Queues
<1> QED BY <1>3, <1>4, <1>5, Interrupts

(* The driver returns.                                                     *)
LEMMA StopCallers ==
  ASSUME IInv, NEW given, Stop(given), UNCHANGED tasks
  PROVE  Queues' /\ Callers'
<1>1. TaskType /\ Queues /\ Callers
  BY Types, Parts DEF IInv
<1>2. /\ commands' = <<>> /\ lifecycle' = <<>> /\ pending_pings' = {}
      /\ caller' = caller
  BY DEF Stop, ForgetConnection, tasks
<1>3. ToSet(commands') = {} /\ ToSet(lifecycle') = {} /\ IsInjective(commands')
  BY <1>2, NothingQueued
<1>4. Interrupted' = {}
  BY <1>2 DEF Interrupted
<1>5. ASSUME NEW id \in Pings, caller'[id] = "waiting", answer'[id] = "none"
      PROVE  FALSE
  <2>1. id \in Ids
    BY DEF Ids
  <2>2. id \notin ToSet(commands) \cup Interrupted /\ answer[id] = "none"
    BY <1>1, <1>5, <2>1 DEF Stop, TaskType
  <2> QED BY <1>1, <1>2, <1>5, <2>2 DEF Callers
<1> QED BY <1>2, <1>3, <1>4, <1>5 DEF Queues, Callers

(* A request is answered without a ping being sent or interrupted.         *)
LEMMA AcceptCallers ==
  ASSUME IInv, NEW id, TakeCommand(id), commands' = Tail(commands),
         Accept(id) \/ RefusePing(id), UNCHANGED <<pending_pings, lifecycle>>
  PROVE  Queues' /\ Callers'
<1>1. TaskType /\ Queues /\ Callers
  BY Types, Parts DEF IInv
<1>2. /\ IsInjective(commands') /\ id \in Ids
      /\ ToSet(commands) = ToSet(commands') \cup {id} /\ caller' = caller
  BY CommandTaken
<1>3. {"ok", "not connected"} \subseteq Results \ {"none"}
  BY DEF Results
<1>4. /\ answer'[id] # "none"
      /\ \A other \in Ids \ {id} : answer'[other] = answer[other]
  <2> PICK result \in Results \ {"none"} : answer' = Answered({id}, result)
    BY <1>3 DEF Accept, RefusePing
  <2> QED BY <1>1, <1>2, Answers
<1>5. Interrupted' = Interrupted
  BY DEF Interrupted
<1>6. Queues'
  BY <1>1, <1>2, <1>5 DEF Queues
<1> QED BY <1>1, <1>2, <1>4, <1>5, <1>6 DEF Callers, Ids

(* A disconnect is answered after the pings, before or after its command   *)
(* has left the queue.                                                     *)
LEMMA DisconnectCallers ==
  ASSUME IInv, NEW id \in Ids, Disconnect(id), UNCHANGED <<caller, lifecycle>>,
         \/ TakeCommand(id) /\ commands' = Tail(commands)
         \/ UNCHANGED commands
  PROVE  Queues' /\ Callers'
<1>1. TaskType /\ Queues
  BY Types DEF IInv
<1>2. IsInjective(commands') /\ \E more \in SUBSET {id} :
                                 ToSet(commands) = ToSet(commands') \cup more
  <2>1. CASE TakeCommand(id) /\ commands' = Tail(commands)
    BY <2>1, CommandTaken
  <2>2. CASE UNCHANGED commands
    <3>1. ToSet(commands) = ToSet(commands') \cup {} /\ {} \in SUBSET {id}
      BY <2>2
    <3> QED BY <1>1, <2>2, <3>1 DEF Queues
  <2> QED BY <2>1, <2>2
<1>3. pending_pings' = {} /\ "interrupted" \in Results \ {"none"}
  BY DEF Disconnect, ForgetConnection, Results
<1> DEFINE base == Answered(Interrupted, "interrupted")
<1>4. base \in [Ids -> Results] /\ answer' = [base EXCEPT ![id] = "ok"]
  BY <1>1, AnsweredType DEF Disconnect, Results
<1>5. \A other \in Ids :
        /\ other \in Interrupted => base[other] # "none"
        /\ base[other] = "none" => answer[other] = "none"
  BY <1>1, <1>3, Answers
<1> HIDE DEF base
<1>6. \A other \in Ids :
        /\ other \in Interrupted \cup {id} => answer'[other] # "none"
        /\ answer'[other] = "none" => answer[other] = "none"
  BY <1>4, <1>5
<1> PICK more \in SUBSET {id} : ToSet(commands) = ToSet(commands') \cup more
  BY <1>2
<1>7. \A other \in Ids : other \in Interrupted \cup more => answer'[other] # "none"
  BY <1>6
<1> QED BY <1>2, <1>3, <1>6, <1>7, Interrupts

(* run_connected returns, with no command or after the one it ends by.     *)
LEMMA EndCallers ==
  ASSUME IInv, NEW why, NEW request, EndConnection(why, request),
         UNCHANGED <<caller, lifecycle>>,
         \/ UNCHANGED commands
         \/ \E id \in Controls :
              TakeCommand(id) /\ commands' = Tail(commands)
  PROVE  Queues' /\ Callers'
<1>1. Queues /\ Callers
  BY Parts DEF IInv
<1>2. UNCHANGED answer /\ Interrupted' = Interrupted
  BY DEF EndConnection, Interrupted
<1>3. CASE UNCHANGED commands
  BY <1>1, <1>2, <1>3 DEF Queues, Callers
<1>4. ASSUME NEW id \in Controls, TakeCommand(id), commands' = Tail(commands)
      PROVE  Queues' /\ Callers'
  <2>1. /\ IsInjective(commands')
        /\ ToSet(commands) = ToSet(commands') \cup {id}
    BY <1>4, CommandTaken
  <2>2. id \notin Pings
    BY ConnectionAssumption
  <2> QED BY <1>1, <1>2, <2>1, <2>2 DEF Queues, Callers
<1> QED BY <1>3, <1>4

(* A ping goes from the queue to the pings sent.                           *)
LEMMA SendCallers ==
  ASSUME IInv, NEW id, TakeCommand(id), commands' = Tail(commands),
         SendPing(id), UNCHANGED lifecycle
  PROVE  Queues' /\ Callers'
<1>1. Queues /\ Callers
  BY Parts DEF IInv
<1>2. /\ IsInjective(commands') /\ id \in Ids /\ id \notin ToSet(commands')
      /\ ToSet(commands) = ToSet(commands') \cup {id}
      /\ caller[id] # "idle" /\ caller' = caller
  BY CommandTaken
<1> DEFINE sent == [id |-> id, ref |-> P!NextRef(proto)]
<1>3. sent.id = id /\ pending_pings' = pending_pings \cup {sent}
      /\ answer' = answer
  BY DEF SendPing
<1> HIDE DEF sent
<1>4. Interrupted' = Interrupted \cup {id}
  BY <1>3 DEF Interrupted
<1>5. Queues'
  BY <1>1, <1>2, <1>4 DEF Queues
<1> QED BY <1>1, <1>2, <1>3, <1>4, <1>5 DEF Callers

(* An acknowledged ping is answered.                                       *)
LEMMA AckCallers ==
  ASSUME IInv, HandleAck
  PROVE  Queues' /\ Callers'
<1> DEFINE over == {ping \in pending_pings : ping.ref = Head(inbox)}
           settled == {ping.id : ping \in over}
<1>1. TaskType /\ Queues /\ Callers
  BY Types, Parts DEF IInv
<1>2. UNCHANGED <<commands, lifecycle, caller>>
  BY DEF HandleAck, Quiet, tasks
<1>3. CASE UNCHANGED <<pending_pings, answer>>
  BY <1>1, <1>2, <1>3 DEF Queues, Callers, Interrupted
<1>4. CASE /\ pending_pings' = pending_pings \ over
           /\ answer' = Answered(settled, "ok")
  <2>1. "ok" \in Results \ {"none"}
    BY DEF Results
  <2>2. /\ \A id \in Interrupted' : id \in Interrupted
        /\ \A id \in Interrupted : id \in settled \/ id \in Interrupted'
    BY <1>4 DEF Interrupted
  <2> HIDE DEF settled, over
  <2>3. \A id \in Ids : /\ id \in settled => answer'[id] # "none"
                        /\ id \notin settled => answer'[id] = answer[id]
    BY <1>1, <1>4, <2>1, Answers
  <2>4. Queues'
    BY <1>1, <1>2, <2>2 DEF Queues
  <2>5. ASSUME NEW id \in Pings, caller'[id] = "waiting", answer'[id] = "none"
        PROVE  id \in ToSet(commands') <=> id \notin Interrupted'
    <3>1. id \notin settled /\ answer[id] = "none"
      BY <2>3, <2>5 DEF Ids
    <3>2. id \in Interrupted <=> id \in Interrupted'
      BY <2>2, <3>1
    <3> QED BY <1>1, <1>2, <2>5, <3>1, <3>2 DEF Callers
  <2> QED BY <2>4, <2>5 DEF Callers
<1> QED BY <1>3, <1>4 DEF HandleAck

(* A ping is cancelled only when its caller has gone.                      *)
LEMMA CancelCallers ==
  ASSUME IInv, HandleLifecycle
  PROVE  Queues' /\ Callers'
<1> DEFINE id == Head(lifecycle)
<1>1. QueueType /\ HeartbeatType /\ Queues /\ Callers /\ Beating(proto)
  BY Types, Parts DEF IInv, Beats
<1>2. /\ UNCHANGED <<commands, caller, answer>> /\ CancelPing(id)
      /\ ToSet(lifecycle) = ToSet(lifecycle') \cup {id}
  BY <1>1, Taken DEF HandleLifecycle, tasks, QueueType
<1>3. caller[id] = "gone"
  BY <1>1, <1>2 DEF Queues
<1> HIDE DEF id
<1>4. /\ \A other \in Interrupted' : other \in Interrupted
      /\ \A other \in Interrupted : other = id \/ other \in Interrupted'
  BY <1>1, <1>2, CancelEffect DEF Interrupted
<1>5. Queues'
  BY <1>1, <1>2, <1>4 DEF Queues
<1>6. ASSUME NEW other \in Pings, caller'[other] = "waiting",
             answer'[other] = "none"
      PROVE  other \in ToSet(commands') <=> other \notin Interrupted'
  <2>1. other # id
    BY <1>2, <1>3, <1>6
  <2>2. other \in Interrupted <=> other \in Interrupted'
    BY <1>4, <2>1
  <2> QED BY <1>1, <1>2, <1>6, <2>2 DEF Callers
<1> QED BY <1>5, <1>6 DEF Callers

(* A request is queued once, by a caller that waits for it.                *)
LEMMA RequestCallers ==
  ASSUME IInv, NEW id \in Ids, Request(id)
  PROVE  Queues' /\ Callers'
<1>1. TaskType /\ QueueType /\ Queues /\ Callers
  BY Types, Parts DEF IInv
<1>2. /\ caller[id] = "idle" /\ caller'[id] = "waiting"
      /\ \A other \in Ids \ {id} : caller'[other] = caller[other]
  BY <1>1 DEF Request, TaskType
<1>3. id \notin ToSet(commands) \cup Interrupted \cup ToSet(lifecycle)
  BY <1>1, <1>2 DEF Queues
<1>4. lifecycle' = lifecycle /\ Interrupted' = Interrupted
  BY DEF Request, Interrupted
<1>5. CASE answer' = Answered({id}, "stopped") /\ UNCHANGED commands
  <2>1. "stopped" \in Results \ {"none"}
    BY DEF Results
  <2>2. /\ answer'[id] # "none"
        /\ \A other \in Ids \ {id} : answer'[other] = answer[other]
    BY <1>1, <1>5, <2>1, Answers
  <2>3. Queues'
    <3>1. \A other \in ToSet(commands) \cup Interrupted \cup ToSet(lifecycle) :
            caller'[other] = caller[other]
      BY <1>1, <1>2, <1>3 DEF Request, TaskType
    <3> QED BY <1>1, <1>4, <1>5, <3>1 DEF Queues
  <2> QED BY <1>1, <1>2, <1>4, <1>5, <2>2, <2>3 DEF Callers, Ids
<1>6. CASE commands' = Append(commands, id) /\ UNCHANGED answer
  <2>1. ToSet(commands') = ToSet(commands) \cup {id} /\ IsInjective(commands')
    BY <1>1, <1>3, <1>6, Queued DEF QueueType, Queues
  <2>2. Queues'
    <3>1. \A other \in ToSet(commands) \cup Interrupted \cup ToSet(lifecycle) :
            caller'[other] = caller[other]
      BY <1>1, <1>2, <1>3 DEF Request, TaskType
    <3> QED BY <1>1, <1>2, <1>4, <2>1, <3>1 DEF Queues
  <2> QED BY <1>1, <1>2, <1>3, <1>4, <1>6, <2>1, <2>2 DEF Callers, Ids
<1> QED BY <1>5, <1>6 DEF Request

(* A caller gives up.                                                      *)
LEMMA GiveUpCallers ==
  ASSUME IInv, NEW id \in Ids, GiveUp(id)
  PROVE  Queues' /\ Callers'
<1>1. TaskType /\ QueueType /\ Queues /\ Callers
  BY Types, Parts DEF IInv
<1>2. /\ caller'[id] = "gone" /\ id \in Pings
      /\ \A other \in Ids \ {id} : caller'[other] = caller[other]
  BY <1>1 DEF GiveUp, TaskType
<1>3. /\ UNCHANGED <<commands, answer>> /\ Interrupted' = Interrupted
      /\ lifecycle' = Append(lifecycle, id)
  BY DEF GiveUp, Interrupted
<1>4. ToSet(lifecycle') = ToSet(lifecycle) \cup {id}
  BY <1>1, <1>2, <1>3, Queued DEF QueueType
<1>5. \A other : caller'[other] = caller[other] \/ other = id
  BY <1>1, <1>2 DEF GiveUp, TaskType
<1>6. Queues'
  BY <1>1, <1>2, <1>3, <1>4, <1>5 DEF Queues
<1> QED BY <1>1, <1>2, <1>3, <1>5, <1>6 DEF Callers

(* Every step keeps the callers accounted for.                             *)
LEMMA StepCallers ==
  ASSUME IInv, [Next]_vars
  PROVE  Queues' /\ Callers'
<1> Queues /\ Callers
  BY Parts DEF IInv
<1> USE DEF tasks
<1>1. ASSUME UNCHANGED <<pending_pings, commands, lifecycle, caller, answer>>
      PROVE  Queues' /\ Callers'
  BY <1>1 DEF Queues, Callers, Interrupted
<1>2. ASSUME NEW id \in Ids, Request(id) \/ GiveUp(id)
      PROVE  Queues' /\ Callers'
  BY <1>2, RequestCallers, GiveUpCallers
<1>3. CASE DropHandles \/ ConnectResult \/ Retry \/ Acknowledge
  BY <1>1, <1>3 DEF DropHandles, ConnectResult, Retry, Acknowledge
<1>4. CASE HandleLifecycle
  BY <1>4, CancelCallers
<1>5. CASE HandleEnd
  BY <1>5, EndCallers, StopCallers DEF HandleEnd
<1>6. CASE HandleCommand
  <2> PICK id \in Ids : \/ IdleCommand(id) \/ OfflineCommand(id)
                        \/ ConnectedCommand(id) \/ ShutdownCommand(id)
    BY <1>6 DEF HandleCommand
  <2>1. CASE IdleCommand(id)
    BY <2>1, AcceptCallers DEF IdleCommand
  <2>2. CASE OfflineCommand(id)
    BY <2>2, AcceptCallers, DisconnectCallers DEF OfflineCommand, TakeCommand
  <2>3. CASE ConnectedCommand(id)
    BY <2>3, AcceptCallers, EndCallers, SendCallers
       DEF ConnectedCommand, TakeCommand, Controls
  <2>4. CASE ShutdownCommand(id)
    <3>1. id \in Controls /\ TakeCommand(id) /\ UNCHANGED tasks
      BY <2>4 DEF ShutdownCommand, TakeCommand, Controls
    <3>2. CASE phase = "connected"
      BY <2>4, <3>1, <3>2, EndCallers DEF ShutdownCommand
    <3> QED BY <2>4, <3>1, <3>2, StopCallers DEF ShutdownCommand
  <2> QED BY <2>1, <2>2, <2>3, <2>4
<1>7. CASE HandleAck
  BY <1>7, AckCallers
<1>8. CASE TransportEnds \/ HeartbeatTimeout
  BY <1>8, EndCallers DEF TransportEnds, HeartbeatTimeout, TimerFires, Quiet
<1>9. CASE HeartbeatDue
  BY <1>1, <1>9 DEF HeartbeatDue, TimerFires, Quiet
<1>10. CASE SendReturns
  BY <1>1, <1>10, EndCallers DEF SendReturns
<1>11. CASE CloseReturns
  <2>1. ASSUME NEW id \in ending \cap Disconnects, Disconnect(id),
               UNCHANGED <<commands, lifecycle>>
        PROVE  Queues' /\ Callers'
    <3>1. id \in Ids
      BY DEF Ids, Controls
    <3> QED BY <1>11, <2>1, <3>1, DisconnectCallers DEF CloseReturns
  <2> QED BY <1>11, <2>1, LoseCallers, StopCallers DEF CloseReturns
<1>12. CASE UNCHANGED vars
  BY <1>1, <1>12 DEF vars
<1> QED BY <1>2, <1>3, <1>4, <1>5, <1>6, <1>7, <1>8, <1>9, <1>10, <1>11, <1>12
        DEF Next

---------------------------------------------------------------------------
(* The theorems.                                                           *)

(* The strengthened invariant holds of every behaviour.                    *)
THEOREM Inductive == Spec => []IInv
<1>1. Init => IInv
  <2> SUFFICES ASSUME Init PROVE IInv
    OBVIOUS
  <2>1. proto \in P!ProtocolState /\ proto.pending = {}
    BY DEF Init, P!NewProtocol, P!ProtocolState, P!Absent, P!ChannelRecord
  <2>2. commands \in Seq(Ids) /\ lifecycle \in Seq(Pings) /\ inbox \in Seq(Nat)
        /\ ToSet(commands) = {} /\ ToSet(lifecycle) = {} /\ IsInjective(commands)
    BY NothingQueued DEF Init
  <2>3. LoopType /\ QueueType
    BY <2>2, ConnectionAssumption
       DEF Init, LoopType, QueueType, Phases, Polling, Reasons
  <2>4. HeartbeatType
    BY <2>1, <2>2, ConnectionAssumption DEF Init, HeartbeatType
  <2>5. TaskType
    BY DEF Init, TaskType, Results
  <2>6. Accord /\ Beats
    BY <2>1 DEF Init, Accord, StatusOf, Beats, Beating
  <2>7. Queues /\ References /\ Callers
    BY <2>1, <2>2 DEF Init, Queues, Interrupted, References, Callers, Ids
  <2> QED BY <2>3, <2>4, <2>5, <2>6, <2>7, Types, Parts DEF IInv
<1>2. ASSUME IInv, [Next]_vars
      PROVE  IInv'
  BY <1>2, StepTypes, StepAccord, StepBeats, StepCallers, Parts DEF IInv, Beats
<1> QED BY <1>1, <1>2, PTL DEF Spec

(* TypeOK: every variable has its type.                                    *)
THEOREM TypeCorrectness == Spec => []TypeOK
BY Inductive, PTL DEF IInv

(* HeartbeatsAccounted: every heartbeat the protocol waits for is the      *)
(* automatic one or a ping somebody waits for, each with a reference of    *)
(* its own, and whoever waits for a ping finds it in the queue or among    *)
(* the pings sent, never in both and never in neither.                     *)
THEOREM Accounted == Spec => []HeartbeatsAccounted
BY Inductive, PTL DEF IInv

(* TimeoutMeansSilence: when run_connected gives a connection up for a     *)
(* heartbeat, the server has not acknowledged that heartbeat.              *)
THEOREM TimeoutIsSilence == Spec => TimeoutMeansSilence
<1>1. ASSUME IInv, [Next]_vars, reason' = "HeartbeatTimeout",
             phase = "connected", phase' # "connected"
      PROVE  heartbeat_reference \in owed
  <2>1. reason = "none" /\ Beats /\ HeartbeatType
    BY <1>1, Types DEF IInv, Accord
  <2>2. CASE HeartbeatTimeout
    <3>1. heartbeat_reference # 0 /\ inbox = <<>>
      BY <2>2 DEF HeartbeatTimeout, TimerFires
    <3> QED BY <2>1, <3>1, NothingQueued DEF Beats
  <2>3. CASE HandleCommand
    <3> PICK id \in Ids : \/ IdleCommand(id) \/ OfflineCommand(id)
                          \/ ConnectedCommand(id) \/ ShutdownCommand(id)
      BY <2>3 DEF HandleCommand
    <3> QED BY <1>1, <2>1
            DEF IdleCommand, OfflineCommand, ConnectedCommand, ShutdownCommand,
                Stop, EndConnection, SendPing, SendHeartbeat
  <2>4. CASE HandleEnd \/ TransportEnds \/ HeartbeatDue
    BY <1>1, <2>1, <2>4
       DEF HandleEnd, TransportEnds, HeartbeatDue, EndConnection, SendHeartbeat
  <2>5. CASE \/ UNCHANGED vars \/ DropHandles \/ HandleLifecycle \/ HandleAck
             \/ Acknowledge \/ \E id \in Ids : Request(id) \/ GiveUp(id)
    BY <1>1, <2>5
       DEF vars, DropHandles, HandleLifecycle, HandleAck, Acknowledge, Request,
           GiveUp
  <2>6. CASE ConnectResult \/ Retry \/ SendReturns \/ CloseReturns
    BY <1>1, <2>6 DEF ConnectResult, Retry, SendReturns, CloseReturns
  <2> QED BY <1>1, <2>2, <2>3, <2>4, <2>5, <2>6 DEF Next
<1>2. [Next]_vars /\ IInv
        => [reason' = "HeartbeatTimeout" /\ phase = "connected"
              /\ phase' # "connected" => heartbeat_reference \in owed]_vars
  BY <1>1
<1> QED BY <1>2, Inductive, PTL DEF Spec, TimeoutMeansSilence

(* ImplementsLifecycle: the status follows what Socket documents; the two  *)
(* variables of the abstract specification are read off the loop's.        *)
THEOREM LifecycleImplemented == Spec => ImplementsLifecycle
<1> USE DEF Lifecycle!Connect, Lifecycle!Disconnect, Lifecycle!Establish,
            Lifecycle!Lose, Lifecycle!Retry, Lifecycle!Close, Lifecycle!Next,
            Lifecycle!vars
<1>1. Init => Lifecycle!Init
  BY DEF Init, Lifecycle!Init
<1>2. ASSUME IInv, [Next]_vars
      PROVE  [Lifecycle!Next]_(Lifecycle!vars)
  <2>1. Accord /\ LoopType
    BY <1>2, Types DEF IInv
  <2>2. ASSUME UNCHANGED <<status, disconnected>>
        PROVE  [Lifecycle!Next]_(Lifecycle!vars)
    BY <2>2
  <2>3. ASSUME phase \in {"connecting", "closing"}, UNCHANGED disconnected,
               NEW why, Continue(why)
        PROVE  Lifecycle!Lose
    BY <2>1, <2>3 DEF Continue, Accord, StatusOf
  <2>4. ASSUME NEW given, Stop(given)
        PROVE  Lifecycle!Close
    BY <2>4 DEF Stop
  <2>d. ASSUME phase \in {"connecting", "closing", "backoff"}, NEW id,
               Disconnect(id)
        PROVE  Lifecycle!Disconnect
    BY <2>1, <2>d DEF Disconnect, Accord, StatusOf
  <2>5. CASE HandleCommand
    <3> PICK id \in Ids : \/ IdleCommand(id) \/ OfflineCommand(id)
                          \/ ConnectedCommand(id) \/ ShutdownCommand(id)
      BY <2>5 DEF HandleCommand
    <3>1. ASSUME Accept(id)
          PROVE  /\ id \in Connects => disconnected' = FALSE
                 /\ id \in Disconnects => disconnected' = TRUE
      <4>1. /\ (id \in Disconnects) \in BOOLEAN
            /\ id \in Connects => id \notin Disconnects
        BY ConnectionAssumption
      <4>2. disconnected' = (id \in Disconnects)
        BY <3>1 DEF Accept
      <4> QED BY <4>1, <4>2, Zenon
    <3>3. ASSUME phase \in {"connecting", "connected", "backoff"},
                 id \in Connects, Accept(id), UNCHANGED status
          PROVE  Lifecycle!Connect
      BY <2>1, <3>1, <3>3 DEF Accord, StatusOf
    <3>4. CASE IdleCommand(id)
      <4>1. CASE id \in Connects /\ Accept(id) /\ status' = "Connecting"
        BY <2>1, <3>1, <3>4, <4>1 DEF IdleCommand, Accord, StatusOf
      <4>2. CASE id \in Disconnects /\ Accept(id) /\ UNCHANGED status
        BY <2>1, <3>1, <3>4, <4>2 DEF IdleCommand, Accord, StatusOf
      <4>3. CASE RefusePing(id) /\ UNCHANGED status
        BY <2>2, <4>3 DEF RefusePing
      <4> QED BY <3>4, <4>1, <4>2, <4>3 DEF IdleCommand
    <3>5. CASE OfflineCommand(id)
      BY <2>2, <2>d, <3>3, <3>5 DEF OfflineCommand, RefusePing
    <3>6. CASE ConnectedCommand(id)
      BY <2>2, <3>3, <3>6
         DEF ConnectedCommand, SendPing, SendHeartbeat, EndConnection
    <3>7. CASE ShutdownCommand(id)
      BY <2>2, <2>4, <3>7 DEF ShutdownCommand, EndConnection
    <3> QED BY <3>4, <3>5, <3>6, <3>7
  <2>6. CASE HandleEnd
    BY <2>2, <2>4, <2>6 DEF HandleEnd, EndConnection
  <2>7. CASE ConnectResult
    BY <2>1, <2>3, <2>7 DEF ConnectResult, Accord, StatusOf
  <2>8. CASE Retry
    BY <2>1, <2>8 DEF Retry, Accord, StatusOf
  <2>9. CASE TransportEnds \/ HeartbeatDue \/ HeartbeatTimeout \/ SendReturns
    BY <2>2, <2>9
       DEF TransportEnds, HeartbeatDue, HeartbeatTimeout, SendReturns,
           SendHeartbeat, EndConnection
  <2>10. CASE \/ UNCHANGED vars \/ DropHandles \/ HandleLifecycle \/ HandleAck
              \/ Acknowledge \/ \E id \in Ids : Request(id) \/ GiveUp(id)
    BY <2>2, <2>10
       DEF vars, DropHandles, HandleLifecycle, HandleAck, Acknowledge, Request,
           GiveUp
  <2>11. CASE CloseReturns
    BY <2>3, <2>4, <2>d, <2>11 DEF CloseReturns, Lose
  <2> QED BY <1>2, <2>5, <2>6, <2>7, <2>8, <2>9, <2>10, <2>11 DEF Next
<1> QED BY <1>1, <1>2, Inductive, PTL
        DEF Spec, ImplementsLifecycle, Lifecycle!Spec
=============================================================================
