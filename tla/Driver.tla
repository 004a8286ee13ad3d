------------------------------- MODULE Driver -------------------------------
(***************************************************************************)
(* The client driver at work on one topic: application tasks that make     *)
(* requests through a channel handle and give up on them, the two queues   *)
(* between them and the driver, the driver's select loop, and a Phoenix    *)
(* server behind a transport that may fail at any time.                    *)
(*                                                                         *)
(* run_connected polls its sources with select_biased!, lifecycle first,   *)
(* then commands, then everything else, and a queued item is ready at      *)
(* once: a command is taken only when no lifecycle command waits, and a    *)
(* frame, a payload or a timer only when neither queue holds anything.     *)
(* The application and the driver share a thread and a handler that waits  *)
(* for the transport holds the loop, so a handler is one step; the         *)
(* application runs between steps.  Every timer may expire at any moment.  *)
(***************************************************************************)
EXTENDS DriverOps, FiniteSets

CONSTANTS
  MaxConnections,  \* bound on the connections an execution establishes
  Workloads        \* what it may consist of: the requests that may be made,
                   \* bounds on the handles created for the topic and on the
                   \* references allocated, the configured push_buffer_capacity

ASSUME DriverBounds ==
  /\ MaxConnections \in Nat
  /\ Workloads \subseteq [requests : SUBSET Ids, handles : Nat,
                          references : Nat, capacity : Nat]

VARIABLES
  workload,     \* the one of this execution
  driver,       \* DriverState, for the topic
  connected,    \* the driver is in run_connected
  connections,  \* how many times it has been
  commands,     \* the bounded command queue, as request ids
  lifecycle,    \* the unbounded lifecycle queue
  caller,       \* the task of each request
  handles,      \* how many handles have been created for the topic
  live_handle,  \* the last of them has not been dropped
  unanswered,   \* requests the server owes an answer on this connection
  live,         \* join references the server may still speak for
  ending        \* join references left: the server owes them their close

vars == <<workload, driver, connected, connections, commands, lifecycle, caller,
          handles, live_handle, unanswered, live, ending>>

serverVars == <<unanswered, live, ending>>
driverVars == <<workload, driver, connected, connections, serverVars>>
handleVars == <<workload, caller, handles, live_handle>>

LifecycleCommands ==
  [kind : {"Register", "Unregister"}] \cup [kind : {"Cancel"}, id : Ids]

Init ==
  /\ workload \in Workloads
  /\ driver = NewDriver(workload.capacity)
  /\ connected = FALSE
  /\ connections = 0
  /\ commands = <<>>
  /\ lifecycle = <<>>
  /\ caller = [i \in Ids |-> "idle"]
  /\ handles = 0
  /\ live_handle = FALSE
  /\ unanswered = {}
  /\ live = {}
  /\ ending = {}

---------------------------------------------------------------------------
(* Application tasks.                                                      *)

(* Socket::channel; a second handle of the topic is refused while one is   *)
(* live.                                                                   *)
CreateHandle ==
  /\ ~live_handle
  /\ handles < workload.handles
  /\ handles' = handles + 1
  /\ live_handle' = TRUE
  /\ lifecycle' = Append(lifecycle, [kind |-> "Register"])
  /\ UNCHANGED <<driverVars, commands, caller>>

(* join, call, cast or leave: the command is queued and its answer awaited.*)
Request(id) ==
  /\ live_handle
  /\ id \in workload.requests /\ caller[id] = "idle"
  /\ caller' = [caller EXCEPT ![id] = "waiting"]
  /\ commands' = Append(commands, id)
  /\ UNCHANGED <<driverVars, lifecycle, handles, live_handle>>

(* The timeout of the request expires, or its future is dropped: the armed *)
(* guard sends Cancel.  (After an answer Cancel would find nothing.)       *)
GiveUp(id) ==
  /\ caller[id] = "waiting" /\ driver.answer[id] = "none"
  /\ caller' = [caller EXCEPT ![id] = "gone"]
  /\ lifecycle' = Append(lifecycle, [kind |-> "Cancel", id |-> id])
  /\ UNCHANGED <<driverVars, commands, handles, live_handle>>

(* Drop of the handle, which closes its status at once.  Requests borrow   *)
(* it, so none is still waiting.                                           *)
Abandoned == [kind |-> "Unregister"] \in ToSet(lifecycle)

DropHandle ==
  /\ live_handle
  /\ \A id \in Ids : caller[id] = "waiting" => driver.answer[id] # "none"
  /\ live_handle' = FALSE
  /\ driver' = IF Abandoned THEN driver ELSE SetStatus(driver, "Closed")
  /\ lifecycle' = Append(lifecycle, [kind |-> "Unregister"])
  /\ UNCHANGED <<workload, connected, connections, serverVars, commands, caller,
                 handles>>

---------------------------------------------------------------------------
(* Steps of the driver.                                                    *)

(* The handler left the driver in state d.  If it sent frames, the server  *)
(* has them now, or the transport failed and the connection is over.       *)
Handled(d, ok) ==
  /\ d.proto.next_reference <= workload.references
  /\ ok \/ d.wire # {}
  /\ driver' = IF ok THEN [d EXCEPT !.wire = {}]
                     ELSE Disconnected([d EXCEPT !.wire = {}])
  /\ connected' = ok
  /\ UNCHANGED connections

Owed(d) == {q \in d.wire : q.kind # "Cast"}

JoinsSent(d) == {q.ref : q \in {q \in d.wire : q.kind = "Join"}}

(* What the server holds, and has lost with the connection unless `ok`.    *)
Server(owed, speaking, closing, ok) ==
  /\ unanswered' = IF ok THEN owed ELSE {}
  /\ live' = IF ok THEN speaking ELSE {}
  /\ ending' = IF ok THEN closing ELSE {}

(* A step that is no frame of the server: the server gains what was sent.  *)
DriverStep(d, ok) ==
  /\ Handled(d, ok)
  /\ Server(unanswered \cup Owed(d), live \cup JoinsSent(d), ending, ok)

LifecycleEffect(command) ==
  CASE command.kind = "Register" -> Register(driver)
    [] command.kind = "Unregister" ->
         IF connected THEN ConnectedUnregister(driver) ELSE Unregister(driver)
    [] command.kind = "Cancel" -> Cancel(driver, command.id)

HandleLifecycle ==
  /\ lifecycle # <<>>
  /\ lifecycle' = Tail(lifecycle)
  /\ LET d == LifecycleEffect(Head(lifecycle))
     IN  IF connected
           THEN \E ok \in BOOLEAN : DriverStep(d, ok)
           ELSE driver' = d /\ UNCHANGED <<connected, connections, serverVars>>
  /\ UNCHANGED <<commands, handleVars>>

ConnectedEffect(id, ok) ==
  CASE id \in Joins  -> JoinCommand(driver, id)
    [] id \in Leaves -> LeaveCommand(driver, id)
    [] id \in Pushes -> PushCommand(driver, id, ok)

OfflineEffect(id) ==
  CASE id \in Joins  -> OfflineJoin(driver, id)
    [] id \in Leaves -> OfflineLeave(driver, id)
    [] id \in Pushes -> Queue(driver, id)

TakeCommand ==
  /\ lifecycle = <<>> /\ commands # <<>>
  /\ commands' = Tail(commands)
  /\ UNCHANGED <<lifecycle, handleVars>>

HandleCommand ==
  /\ connected
  /\ TakeCommand
  /\ \E ok \in BOOLEAN : DriverStep(ConnectedEffect(Head(commands), ok), ok)

HandleOfflineCommand ==
  /\ ~connected
  /\ TakeCommand
  /\ driver' = OfflineEffect(Head(commands))
  /\ UNCHANGED <<connected, connections, serverVars>>

(* Both queues are empty: the other sources of the loop get their turn.    *)
Idle ==
  /\ connected
  /\ lifecycle = <<>> /\ commands = <<>>
  /\ UNCHANGED <<commands, lifecycle, handleVars>>

HandlePayload ==
  /\ Idle
  /\ \E id \in driver.loads, loaded, ok \in BOOLEAN :
       DriverStep(PayloadLoaded(driver, id, loaded), ok)

HandleRejoin ==
  /\ Idle
  /\ driver.rejoins > 0
  /\ DriverStep(RejoinDue(driver), TRUE)

HandleOperationTimeout ==
  /\ Idle
  /\ \E timeout \in driver.op_timeouts : DriverStep(TimedOut(driver, timeout), TRUE)

---------------------------------------------------------------------------
(* The connection.                                                         *)

(* The transport closes or fails, the heartbeat is not answered, or the    *)
(* application disconnects, by a command that others may follow.           *)
LoseConnection ==
  /\ connected /\ lifecycle = <<>>
  /\ driver' = Disconnected(driver)
  /\ connected' = FALSE
  /\ Server({}, {}, {}, FALSE)
  /\ UNCHANGED <<connections, commands, lifecycle, handleVars>>

(* A connection attempt succeeds; only pending lifecycle commands go first.*)
Connect ==
  /\ ~connected /\ lifecycle = <<>>
  /\ connections < MaxConnections
  /\ connections' = connections + 1
  /\ driver' = Connected(driver)
  /\ connected' = TRUE
  /\ UNCHANGED <<commands, lifecycle, handleVars, serverVars>>

(* Frames of the server, as in Protocol: a request is answered at most     *)
(* once, a join not after its generation ended.  A generation that was     *)
(* left closes after the reply, at any later moment.                       *)
Frame(kind, join_ref, ref, status) ==
  [event |-> kind, topic |-> Topic, join_ref |-> join_ref, ref |-> ref,
   status |-> status]

Reply(q, status) == Frame("phx_reply", q.join_ref, q.ref, status)

(* A frame is handled; the rest is what the server is left with.           *)
HandleFrame(f, n, ok, owed, speaking, closing) ==
  LET d == Incoming(driver, f, n, ok)
  IN  /\ Handled(d, ok)
      /\ Server(owed \cup Owed(d), speaking, closing, ok)

(* How far a flush may get: to the end, or to a push that is not taken.    *)
FlushExtent(n, ok) ==
  IF ok THEN n = Len(driver.queued)
        ELSE n > 0 => driver.queued[n] \notin BinaryRefused

(* A refused join and an answered leave end their generation.              *)
HandleReply ==
  /\ Idle
  /\ \E q \in unanswered, status \in {"ok", "error"}, ok \in BOOLEAN,
        n \in 0..Len(driver.queued) :
       /\ FlushExtent(n, ok)
       /\ HandleFrame(Reply(q, status), n, ok, unanswered \ {q},
            IF q.kind = "Leave" \/ (q.kind = "Join" /\ status = "error")
              THEN live \ {q.join_ref} ELSE live,
            IF q.kind = "Leave" THEN ending \cup (live \cap {q.join_ref})
                                ELSE ending)

(* A reply that does not decode ends the connection, like any other error  *)
(* of the protocol.                                                        *)
HandleInvalidReply ==
  /\ Idle
  /\ \E q \in unanswered :
       driver' = Disconnected([driver EXCEPT
                   !.proto = P!Receive(@, Reply(q, "invalid"))])
  /\ connected' = FALSE
  /\ Server({}, {}, {}, FALSE)
  /\ UNCHANGED connections

HandleTermination ==
  /\ Idle
  /\ \E g \in live, kind \in {"phx_close", "phx_error"} :
       HandleFrame(Frame(kind, g, 0, "none"), 0, TRUE,
                   {q \in unanswered : q.kind # "Join" \/ q.ref # g},
                   live \ {g}, ending)

HandleFinalClose ==
  /\ Idle
  /\ \E g \in ending :
       HandleFrame(Frame("phx_close", g, 0, "none"), 0, TRUE,
                   unanswered, live, ending \ {g})

Next ==
  \/ CreateHandle \/ DropHandle
  \/ \E id \in Ids : Request(id) \/ GiveUp(id)
  \/ HandleLifecycle \/ HandleCommand \/ HandleOfflineCommand
  \/ HandlePayload \/ HandleRejoin \/ HandleOperationTimeout
  \/ HandleReply \/ HandleInvalidReply
  \/ HandleTermination \/ HandleFinalClose
  \/ Connect \/ LoseConnection

Spec == Init /\ [][Next]_vars

---------------------------------------------------------------------------
References == 1..workload.references

(* Every variable has its type; the push buffer keeps its capacity and an  *)
(* unregistered topic has no record.                                       *)
TypeOK ==
  /\ workload \in Workloads /\ driver.capacity = workload.capacity
  /\ driver.proto \in P!ProtocolState
  /\ \A b \in {driver.registered, driver.desired, driver.ever_joined,
               driver.rejoin_scheduled, connected, live_handle} : b \in BOOLEAN
  /\ driver.active_payload \in driver.loads \cup {0}
  /\ driver.join_waiters \subseteq Joins
  /\ driver.queued \in Seq(Pushes) /\ driver.sent \in Seq(Pushes)
  /\ ~driver.registered => driver = FreshRecord(driver)
  /\ driver.deferred_leave \in [id : Leaves, open : BOOLEAN] \cup {NoLeave}
  /\ driver.status \in {"WaitingForSocket", "WaitingToJoin", "Joining",
                        "Joined", "Leaving", "Left", "Errored", "Closed"}
  /\ driver.pending_joins \subseteq References
  /\ driver.pending_calls \subseteq [ref : References, id : Calls]
  /\ driver.pending_leaves \subseteq
       [ref : References, id : Leaves, open : BOOLEAN]
  /\ driver.loads \subseteq Nat
  /\ driver.rejoins \in Nat
  /\ driver.op_timeouts \subseteq [kind : {"Join", "Leave"}, ref : References]
  /\ driver.answer \in
       [Ids -> {"none", "ok", "failed", "interrupted"}]
  /\ driver.wire = {}
  /\ commands \in Seq(Ids) /\ lifecycle \in Seq(LifecycleCommands)
  /\ caller \in [Ids -> {"idle", "waiting", "gone"}]
  /\ connections \in 0..MaxConnections /\ handles \in 0..workload.handles
  /\ unanswered \subseteq [kind : {"Join", "Leave", "Push"},
                          ref : References, join_ref : References]
  /\ live \cup ending \subseteq References

(* Where the response of a request is held.                                *)
Holders(id) ==
  {p \in {"commands", "waiters", "queued", "calls", "deferred", "leaves"} :
     CASE p = "commands" -> id \in ToSet(commands)
       [] p = "waiters"  -> id \in driver.join_waiters
       [] p = "queued"   -> id \in ToSet(driver.queued)
       [] p = "calls"    -> \E call \in driver.pending_calls : call.id = id
       [] p = "deferred" -> id \in OpenLeave(driver.deferred_leave)
       [] p = "leaves"   -> id \in OpenLeaves(driver)}

(* No request is lost or held twice.  Through queueing, transmission,      *)
(* leaves put off until a join ends, rejoins, timeouts, cancellations and  *)
(* lost connections, the response a caller waits for is in exactly one     *)
(* place until it is answered, and in none afterwards: no caller is left   *)
(* with a response nobody will send.  (Types hold as well.)                *)
EveryRequestHeldOnce ==
  /\ TypeOK
  /\ \A id \in Ids :
       /\ caller[id] = "waiting" /\ driver.answer[id] = "none" =>
            Cardinality(Holders(id)) = 1
       /\ driver.answer[id] # "none" => Holders(id) = {}

(* README.md: the client "returns `ClientError::Interrupted` for a         *)
(* transmitted call whose connection is lost instead of sending it twice". *)
(* No push, call or cast, is put on the wire twice, over any number of     *)
(* connections and interrupted flushes of the push buffer.                 *)
SentAtMostOnce == Cardinality(ToSet(driver.sent)) = Len(driver.sent)

(* A channel that waits for a reply has its watchdog: the timeout of the   *)
(* join or leave it waits for is running, and the driver will still act on *)
(* it when it expires.  A reply that never comes cannot wedge the channel. *)
WaitingHasWatchdog ==
  /\ State(driver) = "Joining" =>
       /\ JoinRef(driver) \in driver.pending_joins
       /\ [kind |-> "Join", ref |-> JoinRef(driver)] \in driver.op_timeouts
  /\ State(driver) = "Leaving" =>
       \E pending \in driver.pending_leaves :
         /\ pending.ref > JoinRef(driver)
         /\ [kind |-> "Leave", ref |-> pending.ref] \in driver.op_timeouts

(* The status an application observes says Joined exactly while the        *)
(* protocol would let it push, as long as it holds the handle.             *)
StatusIsJoinedWhenJoined ==
  driver.registered /\ ~Abandoned =>
    (driver.status = "Joined" <=> State(driver) = "Joined")

(* A joined channel has nothing left in its push buffer: the flush leaves  *)
(* no push behind, so none waits for ever and none is overtaken by a later *)
(* one, which is sent at once.  Nor does it ever exceed its capacity, also *)
(* when an interrupted flush returns what it did not send.                 *)
BufferWithinLimits ==
  Len(driver.queued) <=
    IF State(driver) = "Joined" THEN 0 ELSE workload.capacity

(* A reply the protocol still correlates has a caller: a push in the       *)
(* protocol's table has its response in the driver's.                      *)
TrackedPushesHaveCallers ==
  \A e \in driver.proto.pending :
    e.kind = "Push" => \E call \in driver.pending_calls : call.ref = e.ref

(* A channel that is wanted while the socket is connected is joined or on  *)
(* its way: a payload is being loaded, a join or leave is under way with   *)
(* its watchdog running, or a rejoin is due.                               *)
Progresses ==
  \/ driver.active_payload \in driver.loads
  \/ State(driver) \in {"Joining", "Leaving"}
  \/ driver.rejoins > 0

WantedChannelProgresses ==
  connected /\ driver.desired /\ State(driver) # "Joined" => Progresses

(* The same, but for the case that WantedChannelProgresses fails in: a join*)
(* that timed out with a leave waiting for it, which leaves the status at  *)
(* Left although a later join wants the channel.                           *)
WantedUnlessLeftProgresses ==
  driver.status # "Left" /\ ~Abandoned => WantedChannelProgresses

(* The timeout of a join that is over does nothing to a later generation   *)
(* of its channel.  (But it may in two cases: under a second handle, since *)
(* unregister leaves the join of the first one pending, although           *)
(* mod.rs:719 has it that "Dropping the handle unregisters the topic and   *)
(* its pending operations"; and when a leave timed out while a later join  *)
(* was under way, which it discards but leaves pending.)                   *)
LeaveGivenUp ==
  \E id \in Leaves : caller[id] = "gone" \/ driver.answer[id] = "failed"

OldTimeoutSparesNewJoin ==
  [][\A timeout \in driver.op_timeouts \ driver'.op_timeouts :
       handles = 1 /\ ~LeaveGivenUp /\ connected' /\ timeout.kind = "Join"
         /\ timeout.ref # JoinRef(driver) =>
         State(driver') = State(driver)]_vars

(* tests.rs:1580 queues_a_rejoin_requested_while_leave_is_in_flight: a     *)
(* join made while a leave is in flight goes through.  The close of the    *)
(* generation that was left does not interrupt it.                         *)
OldCloseSparesNewJoin ==
  [][connected' /\ (\E g \in ending : ending' = ending \ {g}) =>
       \A id \in driver.join_waiters : driver'.answer[id] # "interrupted"]_vars
============================================================================
