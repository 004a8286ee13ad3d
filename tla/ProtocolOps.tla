---------------------------- MODULE ProtocolOps ----------------------------
(***************************************************************************)
(* The pure Phoenix Channels state machine of                              *)
(* crates/phoenix-channel-runtime/src/protocol.rs, as operators on a       *)
(* protocol state.  `Protocol` in the code is a struct whose methods       *)
(* mutate it; here a method is an operator from the state before the call  *)
(* to the state after it, so that the client driver, which makes several   *)
(* of these calls inside one step, can compose them.                       *)
(*                                                                         *)
(* References are decimal strings of a counter in the code; only their     *)
(* identity and their order of allocation matter, so they are naturals.    *)
(* 0 stands for "no reference" (None): allocate_reference never yields it. *)
(* Join parameters and payloads are carried, never inspected: left out.    *)
(***************************************************************************)
EXTENDS Naturals

CONSTANT Topics      \* the topics the application uses

PhoenixTopic == "phoenix"   \* the topic of heartbeats, never a channel

ASSUME TopicsAssumption == PhoenixTopic \notin Topics

ActiveStates   == {"Joining", "Joined", "Leaving"}
InactiveStates == {"Closed", "Errored", "Disconnected"}

(***************************************************************************)
(* State: `channels` maps a known topic to its state and join reference; a *)
(* topic that is no key of the map is Absent.  `pending` maps a reference  *)
(* to what it is for: a set of entries that carry their reference.         *)
(***************************************************************************)
Absent == [state |-> "Absent", join_ref |-> 0]

ChannelRecord == {Absent} \cup
  [state : ActiveStates \cup InactiveStates, join_ref : Nat \ {0}]

PendingRecord == [kind : {"Join", "Leave", "Push", "Heartbeat"},
                  topic : Topics \cup {PhoenixTopic}, ref : Nat]

ProtocolState == [next_reference : Nat,
                  channels : [Topics -> ChannelRecord],
                  pending : SUBSET PendingRecord]

NewProtocol == [next_reference |-> 0,
                channels |-> [t \in Topics |-> Absent],
                pending |-> {}]

NextRef(p) == p.next_reference + 1

ChannelState(p, t) == p.channels[t].state

Pending(kind, t, r) == [kind |-> kind, topic |-> t, ref |-> r]

(* The state after a fresh reference was allocated to a request of `kind`, *)
(* tracked in `pending`, with channel t (if it is one) set to `channel`.   *)
Track(p, kind, t, channel) ==
  [next_reference |-> NextRef(p),
   channels |-> [p.channels EXCEPT ![t] = channel],
   pending |-> p.pending \cup {Pending(kind, t, NextRef(p))}]

---------------------------------------------------------------------------
(* Requests.  The guards say when the call succeeds; a call whose guard is *)
(* false returns an error, and only Leave changes anything then: it has    *)
(* already taken a reference.                                              *)

CanJoin(p, t) == ChannelState(p, t) \notin ActiveStates

Join(p, t) ==
  Track(p, "Join", t, [state |-> "Joining", join_ref |-> NextRef(p)])

(* Mutation: the pending requests are kept.                                *)
DiscardKeepingPending(p, t) == [p EXCEPT !.channels[t] = Absent]

(* The channel and every request pending on its topic are forgotten.       *)
Discard(p, t) ==
  [p EXCEPT !.channels[t] = Absent,
            !.pending = {e \in @ : e.topic # t}]

(* Rejoin forgets the previous generation first, Join does not.            *)
Rejoin(p, t) ==
  IF ChannelState(p, t) \in InactiveStates
    THEN Join(Discard(p, t), t)
    ELSE Join(p, t)

(* Mutation: a join may be left before it is answered.                     *)
CanLeaveWhileJoining(p, t) == ChannelState(p, t) \in {"Joining", "Joined"}

CanLeave(p, t) == ChannelState(p, t) = "Joined"

Leave(p, t) == Track(p, "Leave", t, [p.channels[t] EXCEPT !.state = "Leaving"])

FailedLeave(p) == [p EXCEPT !.next_reference = NextRef(p)]

CanPush(p, t) == ChannelState(p, t) = "Joined"

Push(p, t) == Track(p, "Push", t, p.channels[t])

Heartbeat(p) ==
  [p EXCEPT !.next_reference = NextRef(p),
            !.pending = @ \cup {Pending("Heartbeat", PhoenixTopic, NextRef(p))}]

(* A push whose caller gave up, a ping that timed out.                     *)
Forget(p, kind, r) ==
  [p EXCEPT !.pending = {e \in @ : ~(e.kind = kind /\ e.ref = r)}]

(* Mutations: the states survive the connection; references start again.   *)
ResetKeepingStates(p) == [p EXCEPT !.pending = {}]

ResetRestartingReferences(p) ==
  [p EXCEPT !.pending = {}, !.next_reference = 0,
            !.channels = [t \in Topics |->
                            IF @[t].state = "Absent"
                              THEN @[t]
                              ELSE [@[t] EXCEPT !.state = "Disconnected"]]]

(* Transport loss: every pending request is interrupted.                   *)
ResetConnection(p) ==
  [p EXCEPT
     !.pending = {},
     !.channels = [t \in Topics |->
                     IF @[t].state = "Absent"
                       THEN @[t]
                       ELSE [@[t] EXCEPT !.state = "Disconnected"]]]

---------------------------------------------------------------------------
(***************************************************************************)
(* Incoming frames: [event, topic, join_ref, ref, status], with 0 for an   *)
(* absent join_ref or ref; status is that of a phx_reply and "none"        *)
(* otherwise.  A reply whose envelope or status does not decode has status *)
(* "invalid".                                                              *)
(***************************************************************************)
IsStale(p, f) ==
  /\ f.topic \in Topics
  /\ ChannelState(p, f.topic) # "Absent"
  /\ f.join_ref # 0
  /\ f.join_ref # p.channels[f.topic].join_ref

Matching(p, f) == {e \in p.pending : e.ref = f.ref}

(* What `receive` returns for a frame: the kind of the event, or Err.      *)
EventKind(p, f) ==
  CASE IsStale(p, f) -> "StaleMessage"
    [] ~IsStale(p, f) /\ f.event = "phx_close" -> "ChannelClosed"
    [] ~IsStale(p, f) /\ f.event = "phx_error" -> "ChannelError"
    [] ~IsStale(p, f) /\ f.event = "message"   -> "Message"
    [] ~IsStale(p, f) /\ f.event = "phx_reply" ->
         IF Matching(p, f) = {} THEN "UnmatchedReply"
         ELSE IF f.status = "invalid" THEN "InvalidReply"
         ELSE LET e == CHOOSE e \in Matching(p, f) : TRUE
              IN  CASE e.kind = "Join"  -> IF f.status = "ok" THEN "Joined"
                                                              ELSE "JoinError"
                    [] e.kind = "Leave" -> "Left"
                    [] e.kind = "Push"  -> "Reply"
                    [] e.kind = "Heartbeat" -> "HeartbeatAck"

(* Mutation: a frame brings a removed topic back.                          *)
SetStateOfAny(p, t, state) ==
  IF t \in Topics THEN [p EXCEPT !.channels[t].state = state] ELSE p

SetState(p, t, state) ==
  IF t \in Topics /\ ChannelState(p, t) # "Absent"
    THEN [p EXCEPT !.channels[t].state = state]
    ELSE p

(* Mutation: the reply to a push is looked up and not removed.             *)
TakeAllButPushes(p, f) ==
  [p EXCEPT !.pending = @ \ {e \in Matching(p, f) : e.kind # "Push"}]

(* The pending entry of a reply is removed.                                *)
Take(p, f) == [p EXCEPT !.pending = @ \ Matching(p, f)]

(* Mutation: a leave that is refused leaves the topic joined.              *)
RestoreRefused(p, t, f) ==
  IF f.status = "error" THEN SetState(p, t, "Joined")
                        ELSE [p EXCEPT !.channels[t] = Absent]

(* Topic t was left by reply f, whatever its status.                       *)
RemoveLeft(p, t, f) == [p EXCEPT !.channels[t] = Absent]

(* What `receive` does to the state.  The pending entry is taken before    *)
(* the payload is decoded, so an invalid reply consumes it all the same;   *)
(* the transition is that of the topic of the pending entry.               *)
Receive(p, f) ==
  LET kind == EventKind(p, f)
      e == CHOOSE e \in Matching(p, f) : TRUE
      taken == Take(p, f)
  IN  CASE kind = "ChannelClosed" -> SetState(p, f.topic, "Closed")
        [] kind = "ChannelError"  -> SetState(p, f.topic, "Errored")
        [] kind = "Joined"        -> SetState(taken, e.topic, "Joined")
        [] kind = "JoinError"     -> SetState(taken, e.topic, "Errored")
        [] kind = "Left"          -> RemoveLeft(taken, e.topic, f)
        [] kind \in {"Reply", "HeartbeatAck", "InvalidReply"} -> taken
        [] kind \in {"StaleMessage", "UnmatchedReply", "Message"} -> p
============================================================================
