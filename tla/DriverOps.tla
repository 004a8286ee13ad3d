------------------------------ MODULE DriverOps ------------------------------
(***************************************************************************)
(* What the client driver does to one channel: the methods of DriverState  *)
(* in crates/phoenix-channel-client/src/client/mod.rs, as operators on a   *)
(* driver state.  Only the driver task touches that state, a handler runs  *)
(* to its end before the next one starts, and a handler calls several of   *)
(* these methods, so each is an operator from the state before to the      *)
(* state after.                                                            *)
(*                                                                         *)
(* One topic: the driver never lets one topic's record influence another,  *)
(* except through the shared reference counter, whose values mean nothing. *)
(* Requests are model values; their responses are the oneshot channels of  *)
(* the code.  Payload contents, event names, the event stream (EventStream *)
(* models it) and telemetry are left out; join_attempt and join_timeout    *)
(* only choose delays, and a delay is any time here.                       *)
(***************************************************************************)
EXTENDS Naturals, Sequences, FiniteSets, SequencesExt

CONSTANTS
  Topic,               \* the topic
  Joins, Leaves,       \* request ids, by the method that makes them
  Calls, Casts,
  BinaryRefused        \* pushes with a payload the transport cannot carry

Pushes == Calls \cup Casts
Ids    == Joins \cup Leaves \cup Pushes

ASSUME DriverAssumption ==
  /\ Joins \cap Leaves = {} /\ Calls \cap Casts = {}
  /\ (Joins \cup Leaves) \cap Pushes = {}
  /\ BinaryRefused \subseteq Pushes
  /\ "none" \notin Leaves

P == INSTANCE ProtocolOps WITH Topics <- {Topic}

NoLeave == [id |-> "none", open |-> FALSE]

(***************************************************************************)
(* The driver state: `proto`; the ChannelRecord of the topic, whose fields *)
(* rest at their initial values while `registered` is FALSE;               *)
(* pending_joins, pending_calls and pending_leaves, by reference; what the *)
(* connection task waits for (payload loads, rejoin timers, operation      *)
(* timeouts); the push_buffer_capacity of its Options; and the answers     *)
(* given so far, a timeout among the failed.                               *)
(* `wire` collects the frames one handler sends; `sent` is the history of  *)
(* pushes put on the wire.                                                 *)
(* A leave whose caller is gone stays pending with its response taken:     *)
(* `open` is FALSE.                                                        *)
(***************************************************************************)
FreshRecord(d) ==
  [d EXCEPT !.desired = FALSE, !.ever_joined = FALSE, !.active_payload = 0,
            !.rejoin_scheduled = FALSE, !.join_waiters = {}, !.queued = <<>>,
            !.deferred_leave = NoLeave, !.status = "Closed"]

NewDriver(capacity) ==
  [proto |-> P!NewProtocol,
   registered |-> FALSE, desired |-> FALSE, ever_joined |-> FALSE,
   active_payload |-> 0, rejoin_scheduled |-> FALSE, join_waiters |-> {},
   queued |-> <<>>, deferred_leave |-> NoLeave, status |-> "Closed",
   pending_joins |-> {}, pending_calls |-> {}, pending_leaves |-> {},
   loads |-> {}, rejoins |-> 0, op_timeouts |-> {}, capacity |-> capacity,
   answer |-> [i \in Ids |-> "none"],
   wire |-> {}, sent |-> <<>>]

State(d) == P!ChannelState(d.proto, Topic)

JoinRef(d) == d.proto.channels[Topic].join_ref

Answer(d, requests, result) ==
  [d EXCEPT !.answer = [i \in Ids |-> IF i \in requests THEN result ELSE @[i]]]

(* The requests a pending leave still answers.                             *)
OpenLeave(pending) == IF pending.open THEN {pending.id} ELSE {}

OpenLeaves(d) == UNION {OpenLeave(pending) : pending \in d.pending_leaves}

Send(d, kind, ref) ==
  [d EXCEPT !.wire = @ \cup {[kind |-> kind, ref |-> ref,
                              join_ref |-> d.proto.channels[Topic].join_ref]}]

---------------------------------------------------------------------------
(* Helpers the handlers share.                                             *)

(* Mutations: a deferred leave, or the queued pushes, are overlooked.      *)
HeldButLeave(d) == d.join_waiters \cup ToSet(d.queued)

HeldButPushes(d) == OpenLeave(d.deferred_leave) \cup d.join_waiters

(* The requests the ChannelRecord itself keeps waiting.                    *)
Held(d) ==
  OpenLeave(d.deferred_leave) \cup d.join_waiters \cup ToSet(d.queued)

StopChannel(d) ==
  Answer([d EXCEPT !.desired = FALSE, !.active_payload = 0,
                   !.rejoin_scheduled = FALSE, !.deferred_leave = NoLeave,
                   !.join_waiters = {}, !.queued = <<>>],
         Held(d), "interrupted")

SetStatus(d, status) == IF d.registered THEN [d EXCEPT !.status = status] ELSE d

(* The ids of payload loads serve to tell loads under way apart.           *)
FreshPayload(d) ==
  CHOOSE id \in 1 .. Cardinality(d.loads) + 1 : id \notin d.loads

LoadPayload(d) ==
  IF /\ d.registered /\ d.desired /\ d.active_payload = 0
     /\ State(d) \notin P!ActiveStates
    THEN [d EXCEPT !.status = "WaitingToJoin",
                   !.active_payload = FreshPayload(d),
                   !.loads = @ \cup {FreshPayload(d)}]
    ELSE d

ScheduleRejoin(d) ==
  IF d.registered /\ d.desired /\ ~d.rejoin_scheduled
    THEN [d EXCEPT !.rejoin_scheduled = TRUE, !.rejoins = @ + 1]
    ELSE d

(* The frame of a leave, its entry in pending_leaves and its timeout.      *)
StartLeave(d, pending) ==
  LET ref == P!NextRef(d.proto)
  IN  Send([d EXCEPT
              !.proto = P!Leave(@, Topic),
              !.pending_leaves = @ \cup
                {[ref |-> ref, id |-> pending.id, open |-> pending.open]},
              !.op_timeouts = @ \cup {[kind |-> "Leave", ref |-> ref]}],
           "Leave", ref)

(* A push on a joined channel; `ok` says whether the transport took it.    *)
SendPush(d, id, ok) ==
  IF id \in BinaryRefused THEN Answer(d, {id}, "failed")
  ELSE IF id \in Calls
    THEN LET ref == P!NextRef(d.proto)
         IN  Send([d EXCEPT !.proto = P!Push(@, Topic),
                            !.pending_calls = @ \cup {[ref |-> ref, id |-> id]},
                            !.sent = Append(@, id)], "Push", ref)
    ELSE Send(Answer([d EXCEPT !.sent = Append(@, id)], {id},
                     IF ok THEN "ok" ELSE "interrupted"), "Cast", 0)

(* Mutation: a push stays queued while it is sent.                         *)
FlushKeepingQueue(d, n, ok) ==
  LET flushed[k \in 0..n] ==
        IF k = 0 THEN d ELSE SendPush(flushed[k - 1], d.queued[k], ok \/ k < n)
  IN  flushed[n]

(* The first n queued pushes in order; the n-th is the one `ok` is about.  *)
Flush(d, n, ok) ==
  LET flushed[k \in 0..n] ==
        IF k = 0 THEN d
        ELSE SendPush([flushed[k - 1] EXCEPT !.queued = Tail(@)],
                      d.queued[k], ok \/ k < n)
  IN  flushed[n]

Queue(d, id) ==
  IF ~d.registered THEN Answer(d, {id}, "interrupted")
  ELSE IF \/ d.ever_joined /\ ~d.desired
          \/ Len(d.queued) >= d.capacity
    THEN Answer(d, {id}, "failed")
    ELSE [d EXCEPT !.queued = Append(@, id)]

---------------------------------------------------------------------------
(* Commands of the application, connected and offline.                     *)

JoinCommand(d, id) ==
  IF ~d.registered THEN Answer(d, {id}, "failed")
  ELSE IF State(d) = "Joined"
    THEN Answer([d EXCEPT !.desired = TRUE, !.status = "Joined"], {id}, "failed")
    ELSE LoadPayload([d EXCEPT !.desired = TRUE, !.status = "WaitingToJoin",
                               !.join_waiters = @ \cup {id}])

OfflineJoin(d, id) ==
  IF ~d.registered THEN Answer(d, {id}, "failed")
  ELSE [d EXCEPT !.desired = TRUE, !.status = "WaitingForSocket",
                 !.join_waiters = @ \cup {id}]

(* Mutation: every push goes through the buffer.                           *)
PushThroughBuffer(d, id, ok) == Queue(d, id)

PushCommand(d, id, ok) ==
  IF State(d) = "Joined" THEN SendPush(d, id, ok) ELSE Queue(d, id)

LeaveCommand(d, id) ==
  LET pending == [id |-> id, open |-> TRUE]
      stopped == StopChannel(SetStatus(d,
                   IF State(d) \in {"Joined", "Joining"} THEN "Leaving"
                                                         ELSE "Left"))
  IN  CASE State(d) = "Joined" -> StartLeave(stopped, pending)
        [] State(d) = "Joining" /\ d.registered ->
             [stopped EXCEPT !.deferred_leave = pending]
        [] OTHER -> Answer(stopped, {id}, "ok")

OfflineLeave(d, id) == Answer(StopChannel(SetStatus(d, "Left")), {id}, "ok")

---------------------------------------------------------------------------
(* Lifecycle commands.                                                     *)

Register(d) == IF d.registered THEN d
               ELSE [FreshRecord(d) EXCEPT !.registered = TRUE]

Unregister(d) ==
  [FreshRecord(StopChannel(d)) EXCEPT !.registered = FALSE,
                                      !.proto = P!Discard(@, Topic)]

(* A joined channel is left on the wire first; nobody awaits the reply.    *)
ConnectedUnregister(d) ==
  IF State(d) = "Joined"
    THEN Unregister(Send([d EXCEPT !.proto = P!Leave(@, Topic)],
                         "Leave", P!NextRef(d.proto)))
    ELSE Unregister(d)

(* A first join that nobody waits for any more is given up.                *)
AbandonJoin(d) ==
  [d EXCEPT !.desired = FALSE, !.active_payload = 0, !.status = "Left",
            !.pending_joins = {}, !.proto = P!Discard(@, Topic)]

CancelJoin(d, id) ==
  LET left == [d EXCEPT !.join_waiters = @ \ {id}]
  IN  IF left.join_waiters = {} /\ ~d.ever_joined THEN AbandonJoin(left)
                                                 ELSE left

(* Mutation: the protocol goes on waiting for the reply.                   *)
CancelCallOfDriver(d, call) == [d EXCEPT !.pending_calls = @ \ {call}]

CancelCall(d, call) ==
  [d EXCEPT !.pending_calls = @ \ {call},
            !.proto = P!Forget(@, "Push", call.ref)]

(* Mutation: a leave nobody waits for is not waited for either.            *)
CancelWholeLeave(d, id) ==
  [d EXCEPT !.pending_leaves = {pending \in @ : pending.id # id}]

(* Only the response of a pending leave is taken.                          *)
CancelLeave(d, id) ==
  [d EXCEPT !.pending_leaves =
     {IF pending.id = id THEN [pending EXCEPT !.open = FALSE] ELSE pending :
        pending \in @}]

(* cancel: a request is found where it waits, if it still waits anywhere.  *)
Cancel(d, id) ==
  LET calls == {call \in d.pending_calls : call.id = id}
  IN  CASE id \in d.join_waiters -> CancelJoin(d, id)
        [] d.deferred_leave.id = id -> [d EXCEPT !.deferred_leave.open = FALSE]
        [] id \in ToSet(d.queued) ->
             [d EXCEPT !.queued = RemoveAt(@, CHOOSE k \in DOMAIN @ : @[k] = id)]
        [] calls # {} -> CancelCall(d, CHOOSE call \in calls : TRUE)
        [] OTHER -> CancelLeave(d, id)

---------------------------------------------------------------------------
(* What the connection task waits for.                                     *)

(* A payload load ends, with a payload or an error.  A load the record no  *)
(* longer waits for is ignored.                                            *)
PayloadLoaded(e, id, loaded) ==
  LET d == [e EXCEPT !.loads = @ \ {id}]
      idle == [d EXCEPT !.active_payload = 0]
      ref == P!NextRef(d.proto)
  IN  CASE d.active_payload # id -> d
        [] d.active_payload = id /\ ~d.desired -> idle
        [] d.active_payload = id /\ d.desired /\ ~loaded ->
             Answer([idle EXCEPT !.desired = FALSE, !.status = "Errored",
                                 !.join_waiters = {}], d.join_waiters, "failed")
        [] OTHER ->
             IF State(d) \in P!ActiveStates THEN idle
             ELSE Send([idle EXCEPT
                          !.proto = P!Rejoin(@, Topic),
                          !.status = "Joining",
                          !.pending_joins = @ \cup {ref},
                          !.op_timeouts = @ \cup {[kind |-> "Join", ref |-> ref]}],
                       "Join", ref)

(* Mutation: the timer that expired still counts as scheduled.             *)
RejoinDueOnce(e) == LoadPayload([e EXCEPT !.rejoins = @ - 1])

RejoinDue(e) ==
  LoadPayload([e EXCEPT !.rejoins = @ - 1, !.rejoin_scheduled = FALSE])

JoinTimedOut(d, ref) ==
  LET out == [d EXCEPT !.pending_joins = @ \ {ref},
                       !.proto = P!Discard(@, Topic), !.active_payload = 0]
  IN  CASE ref \notin d.pending_joins -> d
        [] ref \in d.pending_joins /\ d.deferred_leave # NoLeave ->
             Answer([out EXCEPT !.deferred_leave = NoLeave, !.status = "Left"],
                    OpenLeave(d.deferred_leave), "failed")
        [] ref \in d.pending_joins /\ d.deferred_leave = NoLeave /\ d.desired ->
             ScheduleRejoin(
               Answer([out EXCEPT !.status = "Errored", !.join_waiters = {}],
                      d.join_waiters, "failed"))
        [] OTHER -> SetStatus(out, "Left")

(* A leave is over: its channel is left, unless a join came after it.      *)
AfterLeave(d) ==
  IF d.desired THEN LoadPayload(SetStatus(d, "WaitingToJoin"))
               ELSE SetStatus(d, "Left")

LeaveTimedOut(d, ref) ==
  LET late == {pending \in d.pending_leaves : pending.ref = ref}
  IN  IF late = {} THEN d
      ELSE AfterLeave(
             Answer([d EXCEPT !.pending_leaves = @ \ late,
                              !.proto = P!Discard(@, Topic)],
                    UNION {OpenLeave(pending) : pending \in late}, "failed"))

TimedOut(e, timeout) ==
  LET d == [e EXCEPT !.op_timeouts = @ \ {timeout}]
  IN  IF timeout.kind = "Join" THEN JoinTimedOut(d, timeout.ref)
                               ELSE LeaveTimedOut(d, timeout.ref)

---------------------------------------------------------------------------
(* Incoming frames: handle_incoming, by the event the protocol reports.    *)

(* A join was accepted: it is left again if a leave was waiting for it,    *)
(* and otherwise the first n queued pushes go out (all, if ok).            *)
JoinAccepted(d, ref, n, ok) ==
  LET deferred == d.deferred_leave
      joined == [d EXCEPT !.pending_joins = @ \ {ref}, !.ever_joined = TRUE,
                          !.rejoin_scheduled = FALSE, !.deferred_leave = NoLeave,
                          !.join_waiters = {}, !.status = "Joined"]
      answered == Answer(joined, d.join_waiters, "ok")
  IN  IF ~d.registered THEN [d EXCEPT !.pending_joins = @ \ {ref}]
      ELSE IF deferred # NoLeave
        THEN StartLeave([answered EXCEPT !.status = "Leaving"], deferred)
        ELSE Flush(answered, n, ok)

JoinRefused(d, ref) ==
  LET deferred == d.deferred_leave
      refused == [d EXCEPT !.pending_joins = @ \ {ref},
                           !.deferred_leave = NoLeave, !.join_waiters = {}]
  IN  ScheduleRejoin(
        SetStatus(Answer(Answer(refused, OpenLeave(deferred), "ok"),
                         d.join_waiters, "failed"),
                  IF deferred = NoLeave THEN "Errored" ELSE "Left"))

LeaveAnswered(d, ref) ==
  LET over == {pending \in d.pending_leaves : pending.ref = ref}
  IN  AfterLeave(Answer([d EXCEPT !.pending_leaves = @ \ over],
                        UNION {OpenLeave(pending) : pending \in over}, "ok"))

CallAnswered(d, ref) ==
  LET over == {call \in d.pending_calls : call.ref = ref}
  IN  Answer([d EXCEPT !.pending_calls = @ \ over],
             {call.id : call \in over}, "ok")

(* Mutation: the status is left as it was.                                 *)
ChannelErroredSilently(d) == ScheduleRejoin([d EXCEPT !.pending_joins = {}])

ChannelErrored(d) ==
  ScheduleRejoin(SetStatus([d EXCEPT !.pending_joins = {}], "Errored"))

(* Mutation: joins that were under way stay pending.                       *)
ChannelClosedWhilePending(d) == StopChannel(SetStatus(d, "Closed"))

ChannelClosed(d) ==
  StopChannel(SetStatus([d EXCEPT !.pending_joins = {}], "Closed"))

Incoming(e, f, n, ok) ==
  LET kind == P!EventKind(e.proto, f)
      d == [e EXCEPT !.proto = P!Receive(@, f)]
  IN  CASE kind = "Joined"        -> JoinAccepted(d, f.ref, n, ok)
        [] kind = "JoinError"     -> JoinRefused(d, f.ref)
        [] kind = "Left"          -> LeaveAnswered(d, f.ref)
        [] kind = "Reply"         -> CallAnswered(d, f.ref)
        [] kind = "ChannelError"  -> ChannelErrored(d)
        [] kind = "ChannelClosed" -> ChannelClosed(d)
        [] OTHER                  -> d

---------------------------------------------------------------------------
(* Connections.                                                            *)

(* run_connected begins: every wanted channel starts to join.              *)
Connected(d) == LoadPayload([d EXCEPT !.rejoin_scheduled = FALSE])

(* on_disconnect, and the end of run_connected, which drops what it was    *)
(* waiting for.                                                            *)
Disconnected(d) ==
  LET lost == [d EXCEPT
                 !.proto = P!ResetConnection(@),
                 !.pending_joins = {}, !.pending_calls = {},
                 !.pending_leaves = {}, !.deferred_leave = NoLeave,
                 !.active_payload = 0, !.rejoin_scheduled = FALSE,
                 !.loads = {}, !.rejoins = 0, !.op_timeouts = {}]
  IN  SetStatus(
        Answer(lost, {call.id : call \in d.pending_calls} \cup OpenLeaves(d)
                       \cup OpenLeave(d.deferred_leave), "interrupted"),
        IF d.desired THEN "WaitingForSocket" ELSE "Left")
============================================================================
