------------------------------ MODULE Protocol ------------------------------
(***************************************************************************)
(* protocol.rs run by a caller that may make any of its public calls at    *)
(* any time, against a Phoenix server on one connection after another.     *)
(* The server is not part of the repository: of it only this is assumed,   *)
(* what the code, its tests and the Phoenix v2 wire format rely on.  It    *)
(* answers a request at most once and with the request's join_ref, speaks  *)
(* for a generation it was asked to join until it closes or fails it, and  *)
(* nothing of a lost connection arrives on the next one.  It may answer in *)
(* any order, late or never.                                               *)
(***************************************************************************)
EXTENDS ProtocolOps

CONSTANT MaxReference  \* bound on the references one execution allocates

ASSUME MaxReferenceAssumption == MaxReference \in Nat

VARIABLES
  proto,       \* the Protocol struct
  event,       \* what the last call returned, and for which frame
  unanswered,  \* requests sent on this connection that the server owes
  live,        \* generations the server may still speak for
  faulty,      \* `receive` has returned an error since the last reset
  gone         \* generations removed by discard_channel so far

vars == <<proto, event, unanswered, live, faulty, gone>>

RequestRecord == [kind : {"Join", "Leave", "Push", "Heartbeat"},
                  topic : Topics \cup {PhoenixTopic},
                  ref : Nat, join_ref : Nat]

Generation == [topic : Topics, join_ref : Nat]

ReceivedKinds == {"StaleMessage", "ChannelClosed", "ChannelError", "Message",
                  "UnmatchedReply", "InvalidReply", "Joined", "JoinError",
                  "Left", "Reply", "HeartbeatAck"}

EventKinds == {"none", "Called", "Failed"} \cup ReceivedKinds

Events == [kind : EventKinds, topic : Topics \cup {PhoenixTopic},
           of : {"none", "phx_reply", "phx_close", "phx_error", "message"},
           join_ref : Nat, ref : Nat]

NoEvent(kind) == [kind |-> kind, topic |-> PhoenixTopic, of |-> "none",
                  join_ref |-> 0, ref |-> 0]

Init ==
  /\ proto = NewProtocol
  /\ event = NoEvent("none")
  /\ unanswered = {}
  /\ live = {}
  /\ faulty = FALSE
  /\ gone = {}

HasReference == proto.next_reference < MaxReference

(* A request of `kind` with the reference just taken is on the wire.       *)
Sent(kind, t, join_ref) ==
  /\ event' = NoEvent("Called")
  /\ unanswered' = unanswered \cup
       {[kind |-> kind, topic |-> t, ref |-> NextRef(proto),
         join_ref |-> join_ref]}

Generations(p, t) ==
  IF ChannelState(p, t) = "Absent"
    THEN {}
    ELSE {[topic |-> t, join_ref |-> p.channels[t].join_ref]}

---------------------------------------------------------------------------
(* Calls of the application.                                               *)

CallJoin(t) ==
  /\ HasReference
  /\ CanJoin(proto, t)
  /\ proto' = Join(proto, t)
  /\ Sent("Join", t, NextRef(proto))
  /\ live' = live \cup {[topic |-> t, join_ref |-> NextRef(proto)]}
  /\ UNCHANGED <<faulty, gone>>

CallRejoin(t) ==
  /\ HasReference
  /\ CanJoin(proto, t)
  /\ proto' = Rejoin(proto, t)
  /\ Sent("Join", t, NextRef(proto))
  /\ live' = live \cup {[topic |-> t, join_ref |-> NextRef(proto)]}
  /\ gone' = gone \cup Generations(proto, t)
  /\ UNCHANGED faulty

(* join and rejoin of an active topic fail and change nothing, as does a   *)
(* push on a topic that is not joined; leave fails after it took its       *)
(* reference.                                                              *)
CallFails(t) ==
  /\ \/ ~CanJoin(proto, t) /\ UNCHANGED proto
     \/ ~CanPush(proto, t) /\ UNCHANGED proto
     \/ HasReference /\ ~CanLeave(proto, t) /\ proto' = FailedLeave(proto)
  /\ event' = NoEvent("Failed")
  /\ UNCHANGED <<unanswered, live, faulty, gone>>

CallLeave(t) ==
  /\ HasReference
  /\ CanLeave(proto, t)
  /\ proto' = Leave(proto, t)
  /\ Sent("Leave", t, proto.channels[t].join_ref)
  /\ UNCHANGED <<live, faulty, gone>>

CallPush(t) ==
  /\ HasReference
  /\ CanPush(proto, t)
  /\ proto' = Push(proto, t)
  /\ Sent("Push", t, proto.channels[t].join_ref)
  /\ UNCHANGED <<live, faulty, gone>>

CallHeartbeat ==
  /\ HasReference
  /\ proto' = Heartbeat(proto)
  /\ Sent("Heartbeat", PhoenixTopic, 0)
  /\ UNCHANGED <<live, faulty, gone>>

CallForget ==
  /\ \E e \in proto.pending :
       /\ e.kind \in {"Push", "Heartbeat"}
       /\ proto' = Forget(proto, e.kind, e.ref)
  /\ event' = NoEvent("Called")
  /\ UNCHANGED <<unanswered, live, faulty, gone>>

CallDiscard(t) ==
  /\ proto' = Discard(proto, t)
  /\ gone' = gone \cup Generations(proto, t)
  /\ event' = NoEvent("Called")
  /\ UNCHANGED <<unanswered, live, faulty>>

(* Every topic of `again` is joined anew, each with its reference, the     *)
(* last of which is `last`.                                                *)
RejoinEach(again, ref, last) ==
  /\ proto' =
       [next_reference |-> last,
        channels |-> [t \in Topics |->
          IF t \in again THEN [state |-> "Joining", join_ref |-> ref[t]]
                         ELSE proto.channels[t]],
        pending |-> {e \in proto.pending : e.topic \notin again}
                      \cup {Pending("Join", t, ref[t]) : t \in again}]
  /\ unanswered' = unanswered \cup
       {[kind |-> "Join", topic |-> t, ref |-> ref[t],
         join_ref |-> ref[t]] : t \in again}
  /\ live' = live \cup {[topic |-> t, join_ref |-> ref[t]] : t \in again}

(* rejoin_all_with_stored_params: every inactive topic, in any order, takes *)
(* one of the next references.                                             *)
CallRejoinAll ==
  LET again == {t \in Topics : ChannelState(proto, t) \in InactiveStates}
  IN  /\ again # {}
      /\ \E last \in NextRef(proto) .. MaxReference :
           \E ref \in [again -> NextRef(proto) .. last] :
             /\ \A t, u \in again : ref[t] = ref[u] => t = u
             /\ {ref[t] : t \in again} = NextRef(proto) .. last
             /\ RejoinEach(again, ref, last)
      /\ gone' = gone \cup UNION {Generations(proto, t) : t \in again}
      /\ event' = NoEvent("Called")
      /\ UNCHANGED faulty

(* reset_connection, called when the transport is lost.                    *)
CallReset ==
  /\ proto' = ResetConnection(proto)
  /\ event' = NoEvent("Called")
  /\ unanswered' = {}
  /\ live' = {}
  /\ faulty' = FALSE
  /\ UNCHANGED gone

---------------------------------------------------------------------------
(* Frames of the server.                                                   *)

Frame(kind, t, join_ref, ref, status) ==
  [event |-> kind, topic |-> t, join_ref |-> join_ref, ref |-> ref,
   status |-> status]

Received(f) ==
  /\ proto' = Receive(proto, f)
  /\ event' = [kind |-> EventKind(proto, f), topic |-> f.topic,
               of |-> f.event, join_ref |-> f.join_ref, ref |-> f.ref]
  /\ faulty' = (faulty \/ EventKind(proto, f) = "InvalidReply")
  /\ UNCHANGED gone

(* The server answers a request it owes.  A refused join is over.          *)
Answer(q, status) ==
  /\ Received(Frame("phx_reply", q.topic, q.join_ref, q.ref, status))
  /\ unanswered' = unanswered \ {q}
  /\ live' = IF q.kind = "Join" /\ status = "error"
               THEN live \ {[topic |-> q.topic, join_ref |-> q.join_ref]}
               ELSE live

(* The channel process of a generation ends, normally or by a crash.  Its  *)
(* join is not answered any more; a push or a leave may be, by a process   *)
(* it was handed to.                                                       *)
Terminate(g, kind) ==
  /\ Received(Frame(kind, g.topic, g.join_ref, 0, "none"))
  /\ live' = live \ {g}
  /\ unanswered' = {q \in unanswered :
                      ~(q.kind = "Join" /\ q.topic = g.topic
                        /\ q.join_ref = g.join_ref)}

(* A message of a channel process; a broadcast carries no join_ref.        *)
Broadcast(g, join_ref) ==
  /\ Received(Frame("message", g.topic, join_ref, 0, "none"))
  /\ UNCHANGED <<unanswered, live>>

Server ==
  \/ \E q \in unanswered, status \in {"ok", "error", "invalid"} :
       Answer(q, status)
  \/ \E g \in live, kind \in {"phx_close", "phx_error"} : Terminate(g, kind)
  \/ \E g \in live : \E join_ref \in {0, g.join_ref} : Broadcast(g, join_ref)

Application ==
  \/ \E t \in Topics : \/ CallJoin(t)  \/ CallRejoin(t)
                       \/ CallLeave(t) \/ CallPush(t)
                       \/ CallFails(t) \/ CallDiscard(t)
  \/ CallHeartbeat
  \/ CallForget
  \/ CallRejoinAll
  \/ CallReset

Next == Application \/ Server

Spec == Init /\ [][Next]_vars

---------------------------------------------------------------------------
(* Every variable has its type.                                            *)
TypeOK ==
  /\ proto \in ProtocolState
  /\ event \in Events
  /\ unanswered \subseteq RequestRecord
  /\ live \subseteq Generation
  /\ faulty \in BOOLEAN
  /\ gone \subseteq Generation

(* A reference names one request: no two pending requests share one, no    *)
(* two channels are in the same generation, and none is ahead of the       *)
(* allocator, so a reference about to be handed out is in use nowhere,     *)
(* not even on the wire.                                                   *)
ReferencesAreFresh ==
  /\ \A e, g \in proto.pending : e.ref = g.ref => e = g
  /\ \A t, u \in Topics :
       proto.channels[t].join_ref = proto.channels[u].join_ref =>
         t = u \/ ChannelState(proto, t) = "Absent"
  /\ \A e \in proto.pending : e.ref <= proto.next_reference
  /\ \A q \in unanswered : q.ref <= proto.next_reference
  /\ \A t \in Topics : proto.channels[t].join_ref <= proto.next_reference

(* A channel that waits for the server has a request the server can still  *)
(* answer: a Joining channel the join of its own generation, a Leaving one *)
(* a leave.  Without it the channel would be stuck, refused as already     *)
(* active by join and as not joined by leave.  (Until `receive` fails: a   *)
(* reply that does not decode takes its pending entry with it.)            *)
WaitingHasRequest ==
  ~faulty =>
    \A t \in Topics :
      /\ ChannelState(proto, t) = "Joining" =>
           Pending("Join", t, proto.channels[t].join_ref) \in proto.pending
      /\ ChannelState(proto, t) = "Leaving" =>
           \E e \in proto.pending :
             /\ e.kind = "Leave" /\ e.topic = t
             /\ e.ref > proto.channels[t].join_ref

(* A pending request of a channel's present generation was sent on the     *)
(* present connection: no reply of an earlier connection can be taken for  *)
(* it, and its answer, if any, is still to come.                           *)
PendingIsOwed ==
  \A e \in proto.pending :
    \A t \in Topics :
      e.topic = t /\ e.ref >= proto.channels[t].join_ref
        /\ ChannelState(proto, t) \in ActiveStates =>
        \E q \in unanswered : /\ q.ref = e.ref /\ q.kind = e.kind
                              /\ q.topic = t

(* A channel becomes joined only by the answer to the join that made its   *)
(* present generation, however many joins of the topic are still owed.     *)
JoinedByOwnGeneration ==
  [][\A t \in Topics :
       ChannelState(proto, t) # "Joined" /\ ChannelState(proto', t) = "Joined"
         => /\ event'.kind = "Joined"
            /\ event'.ref = proto.channels[t].join_ref]_vars

(* protocol.rs:360 "Any later replies for the removed join generation are  *)
(* treated as unmatched messages": no reply to a request of a discarded    *)
(* generation resolves anything, whether or not the topic was joined again *)
(* since.                                                                  *)
DiscardedRepliesUnmatched ==
  event.of = "phx_reply"
    /\ [topic |-> event.topic, join_ref |-> event.join_ref] \in gone
    => event.kind \in {"UnmatchedReply", "StaleMessage"}

(* The abstract lifecycle of a topic, and that this machine implements it: *)
(* no interleaving of calls, late answers, closes and lost connections     *)
(* takes a topic where ChannelLifecycle cannot go.                         *)
PhaseOf(state) ==
  CASE state = "Absent"  -> "Out"
    [] state = "Joining" -> "Joining"
    [] state = "Joined"  -> "In"
    [] state = "Leaving" -> "Leaving"
    [] state \in InactiveStates -> "Down"

Lifecycle == INSTANCE ChannelLifecycle WITH
  phase      <- [t \in Topics |-> PhaseOf(ChannelState(proto, t))],
  generation <- [t \in Topics |-> proto.channels[t].join_ref],
  clock      <- proto.next_reference

ImplementsLifecycle == Lifecycle!Spec
============================================================================
