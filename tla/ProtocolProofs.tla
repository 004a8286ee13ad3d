--------------------------- MODULE ProtocolProofs ---------------------------
(***************************************************************************)
(* What is proved about Protocol, for any set of topics and any bound on   *)
(* the references.  The lemmas are about the calls of protocol.rs as       *)
(* operators on a protocol state; the theorems about the machine that the  *)
(* calls and the frames of the server drive.                               *)
(***************************************************************************)
EXTENDS Protocol, TLAPS

(* A channel record has a generation unless its topic is unknown.          *)
LEMMA RecordFacts ==
  ASSUME NEW c \in ChannelRecord
  PROVE  /\ c.join_ref \in Nat
         /\ c.state = "Absent" => c = Absent
         /\ c.state = "Absent" <=> c.join_ref = 0
         /\ \A state \in ActiveStates \cup InactiveStates :
              c.state # "Absent" => [c EXCEPT !.state = state] \in ChannelRecord
BY DEF ChannelRecord, Absent, ActiveStates, InactiveStates

(* allocate_reference and a new pending request keep the state well typed. *)
LEMMA TrackType ==
  ASSUME NEW p \in ProtocolState, NEW t \in Topics, NEW c \in ChannelRecord,
         NEW kind \in {"Join", "Leave", "Push", "Heartbeat"}
  PROVE  Track(p, kind, t, c) \in ProtocolState
BY DEF ProtocolState, PendingRecord, Track, NextRef, Pending

(* discard_channel keeps the state well typed.                             *)
LEMMA DiscardType ==
  ASSUME NEW p \in ProtocolState, NEW t \in Topics
  PROVE  Discard(p, t) \in ProtocolState
BY DEF ProtocolState, Discard, ChannelRecord

(* join and rejoin keep the state well typed.                              *)
LEMMA JoinType ==
  ASSUME NEW p \in ProtocolState, NEW t \in Topics
  PROVE  Join(p, t) \in ProtocolState /\ Rejoin(p, t) \in ProtocolState
<1>1. ASSUME NEW q \in ProtocolState
      PROVE  Join(q, t) \in ProtocolState
  <2>1. [state |-> "Joining", join_ref |-> NextRef(q)] \in ChannelRecord
    BY DEF ChannelRecord, ProtocolState, NextRef, ActiveStates
  <2> QED BY <2>1, TrackType DEF Join
<1> QED BY <1>1, DiscardType DEF Rejoin

(* The transition of one channel keeps the state well typed.               *)
LEMMA SetStateType ==
  ASSUME NEW p \in ProtocolState, NEW t,
         NEW state \in ActiveStates \cup InactiveStates
  PROVE  SetState(p, t, state) \in ProtocolState
BY RecordFacts DEF ProtocolState, SetState, ChannelState

(* reset_connection keeps the state well typed.                            *)
LEMMA ResetType ==
  ASSUME NEW p \in ProtocolState
  PROVE  ResetConnection(p) \in ProtocolState
BY RecordFacts DEF ProtocolState, ResetConnection, InactiveStates

(* A frame as `receive` gets it.                                           *)
IsFrame(f) ==
  /\ f.event \in {"phx_reply", "phx_close", "phx_error", "message"}
  /\ f.topic \in Topics \cup {PhoenixTopic}
  /\ f.join_ref \in Nat /\ f.ref \in Nat

(* The pending entry a matched reply resolves is one of the table.         *)
LEMMA MatchedEntry ==
  ASSUME NEW p, NEW f, Matching(p, f) # {}
  PROVE  LET e == CHOOSE e \in Matching(p, f) : TRUE
         IN  e \in p.pending /\ e.ref = f.ref
BY DEF Matching

(* `receive` returns one of its events.                                    *)
LEMMA EventKindType ==
  ASSUME NEW p \in ProtocolState, NEW f, IsFrame(f)
  PROVE  EventKind(p, f) \in ReceivedKinds
<1> DEFINE e == CHOOSE e \in Matching(p, f) : TRUE
<1>1. CASE IsStale(p, f)
  BY <1>1 DEF EventKind, ReceivedKinds
<1>2. CASE ~IsStale(p, f) /\ f.event # "phx_reply"
  BY <1>2 DEF EventKind, ReceivedKinds, IsFrame
<1>3. CASE ~IsStale(p, f) /\ f.event = "phx_reply" /\ Matching(p, f) = {}
  BY <1>3 DEF EventKind, ReceivedKinds
<1>4. CASE ~IsStale(p, f) /\ f.event = "phx_reply" /\ Matching(p, f) # {}
  <2>1. e.kind \in {"Join", "Leave", "Push", "Heartbeat"}
    BY <1>4, MatchedEntry DEF ProtocolState, PendingRecord
  <2> QED BY <1>4, <2>1 DEF EventKind, ReceivedKinds
<1> QED BY <1>1, <1>2, <1>3, <1>4

(* What an event of a reply says of the pending table.                     *)
LEMMA ReplyKinds ==
  ASSUME NEW p, NEW f,
         EventKind(p, f) \in {"Joined", "JoinError", "Left", "Reply",
                              "HeartbeatAck", "InvalidReply"}, IsFrame(f)
  PROVE  ~IsStale(p, f) /\ f.event = "phx_reply" /\ Matching(p, f) # {}
BY DEF EventKind, IsFrame

(* `receive` keeps the state well typed.                                   *)
LEMMA ReceiveType ==
  ASSUME NEW p \in ProtocolState, NEW f, IsFrame(f)
  PROVE  Receive(p, f) \in ProtocolState
<1> DEFINE kind == EventKind(p, f)
           e == CHOOSE e \in Matching(p, f) : TRUE
<1>1. kind \in ReceivedKinds
  BY EventKindType
<1>2. Take(p, f) \in ProtocolState
  BY DEF Take, ProtocolState
<1>3. CASE kind \in {"ChannelClosed", "ChannelError"}
  BY <1>3, SetStateType DEF Receive, InactiveStates
<1>4. CASE kind \in {"Joined", "JoinError"}
  BY <1>2, <1>4, SetStateType DEF Receive, InactiveStates, ActiveStates
<1>5. CASE kind = "Left"
  BY <1>2, <1>5 DEF Receive, RemoveLeft, ProtocolState, ChannelRecord
<1>6. CASE kind \in {"Reply", "HeartbeatAck", "InvalidReply"}
  BY <1>2, <1>6 DEF Receive
<1>7. CASE kind \in {"StaleMessage", "UnmatchedReply", "Message"}
  BY <1>7 DEF Receive
<1> QED BY <1>1, <1>3, <1>4, <1>5, <1>6, <1>7
     DEF ReceivedKinds

---------------------------------------------------------------------------
(* Type correctness.                                                       *)

(* What the calls leave in `gone` are generations.                         *)
LEMMA GenerationsType ==
  ASSUME NEW p \in ProtocolState, NEW t \in Topics
  PROVE  Generations(p, t) \subseteq Generation
BY DEF Generations, Generation, ProtocolState, ChannelRecord, Absent

(* rejoin_all_with_stored_params keeps the state well typed.               *)
LEMMA RejoinAllType ==
  ASSUME TypeOK, NEW again \in SUBSET Topics,
         NEW last \in NextRef(proto) .. MaxReference,
         NEW ref \in [again -> NextRef(proto) .. last],
         RejoinEach(again, ref, last)
  PROVE  /\ proto' \in ProtocolState
         /\ unanswered' \subseteq RequestRecord
         /\ live' \subseteq Generation
<1>1. last \in Nat /\ \A t \in again : ref[t] \in Nat \ {0}
  BY DEF TypeOK, ProtocolState, NextRef
<1>2. proto' \in ProtocolState
  <2>1. \A t \in again : [state |-> "Joining", join_ref |-> ref[t]] \in ChannelRecord
    BY <1>1 DEF ChannelRecord, ActiveStates
  <2>2. \A t \in again : Pending("Join", t, ref[t]) \in PendingRecord
    BY <1>1 DEF Pending, PendingRecord
  <2> QED BY <1>1, <2>1, <2>2 DEF TypeOK, ProtocolState, RejoinEach
<1>3. unanswered' \subseteq RequestRecord
  BY <1>1 DEF TypeOK, RejoinEach, RequestRecord
<1>4. live' \subseteq Generation
  BY <1>1 DEF TypeOK, RejoinEach, Generation
<1> QED BY <1>2, <1>3, <1>4

(* A frame the server sends is handled without losing a type.              *)
LEMMA ReceivedTypes ==
  ASSUME TypeOK, NEW f, IsFrame(f), Received(f)
  PROVE  /\ proto' \in ProtocolState /\ event' \in Events
         /\ faulty' \in BOOLEAN /\ gone' \subseteq Generation
<1>1. EventKind(proto, f) \in ReceivedKinds
  BY EventKindType DEF TypeOK
<1>2. proto' \in ProtocolState
  BY ReceiveType DEF TypeOK, Received
<1>3. event' \in Events
  BY <1>1 DEF Received, Events, EventKinds, IsFrame
<1> QED BY <1>2, <1>3 DEF TypeOK, Received

(* The protocol starts with its types.                                     *)
LEMMA InitialTypes == Init => TypeOK
<1>1. NewProtocol \in ProtocolState
  BY DEF NewProtocol, ProtocolState, ChannelRecord
<1>2. NoEvent("none") \in Events
  BY DEF NoEvent, Events, EventKinds
<1> QED BY <1>1, <1>2 DEF Init, TypeOK

(* Every step keeps them.                                                  *)
LEMMA StepTypes == TypeOK /\ [Next]_vars => TypeOK'
<1> SUFFICES ASSUME TypeOK, [Next]_vars PROVE TypeOK'
  OBVIOUS
<1> USE DEF TypeOK
<1>1. \A kind : kind \in {"Called", "Failed"} => NoEvent(kind) \in Events
  BY DEF NoEvent, Events, EventKinds
<1>2. ASSUME NEW kind \in {"Join", "Leave", "Push"}, NEW t \in Topics,
             NEW join_ref \in Nat, Sent(kind, t, join_ref)
      PROVE  event' \in Events /\ unanswered' \subseteq RequestRecord
  BY <1>1, <1>2 DEF Sent, RequestRecord, ProtocolState, NextRef
<1>3. NextRef(proto) \in Nat
  BY DEF ProtocolState, NextRef
<1>4. \A t \in Topics : proto.channels[t] \in ChannelRecord
                        /\ proto.channels[t].join_ref \in Nat
  BY RecordFacts DEF ProtocolState
<1>5. ASSUME NEW t \in Topics, CallJoin(t) PROVE TypeOK'
  BY <1>2, <1>3, <1>5, JoinType DEF CallJoin, Generation
<1>6. ASSUME NEW t \in Topics, CallRejoin(t) PROVE TypeOK'
  BY <1>2, <1>3, <1>6, JoinType, GenerationsType DEF CallRejoin, Generation
<1>7. ASSUME NEW t \in Topics, CallFails(t) PROVE TypeOK'
  BY <1>1, <1>3, <1>7 DEF CallFails, FailedLeave, ProtocolState
<1>8. ASSUME NEW t \in Topics, CallLeave(t) PROVE TypeOK'
  <2>1. [proto.channels[t] EXCEPT !.state = "Leaving"] \in ChannelRecord
    BY <1>4, <1>8, RecordFacts
       DEF CallLeave, CanLeave, ChannelState, ActiveStates
  <2>2. proto' \in ProtocolState
    BY <1>8, <2>1, TrackType DEF CallLeave, Leave
  <2> QED BY <1>2, <1>4, <1>8, <2>2 DEF CallLeave
<1>9. ASSUME NEW t \in Topics, CallPush(t) PROVE TypeOK'
  <2>1. proto' \in ProtocolState
    BY <1>4, <1>9, TrackType DEF CallPush, Push
  <2> QED BY <1>2, <1>4, <1>9, <2>1 DEF CallPush
<1>10. CASE CallHeartbeat
  <2>1. Pending("Heartbeat", PhoenixTopic, NextRef(proto)) \in PendingRecord
    BY <1>3 DEF PendingRecord, Pending
  <2>2. proto' \in ProtocolState
    BY <1>3, <1>10, <2>1 DEF CallHeartbeat, Heartbeat, ProtocolState
  <2> QED BY <1>1, <1>3, <1>10, <2>2 DEF CallHeartbeat, Sent, RequestRecord
<1>11. CASE CallForget
  BY <1>1, <1>11 DEF CallForget, Forget, ProtocolState
<1>12. ASSUME NEW t \in Topics, CallDiscard(t) PROVE TypeOK'
  BY <1>1, <1>12, DiscardType, GenerationsType DEF CallDiscard
<1>13. CASE CallRejoinAll
  <2> DEFINE again == {t \in Topics : ChannelState(proto, t) \in InactiveStates}
  <2>1. /\ proto' \in ProtocolState
        /\ unanswered' \subseteq RequestRecord
        /\ live' \subseteq Generation
    BY <1>13, RejoinAllType DEF CallRejoinAll
  <2>2. gone' \subseteq Generation
    BY <1>13, GenerationsType DEF CallRejoinAll
  <2> QED BY <1>1, <1>13, <2>1, <2>2 DEF CallRejoinAll
<1>14. CASE CallReset
  BY <1>1, <1>14, ResetType DEF CallReset
<1>15. ASSUME NEW q \in unanswered, NEW status, Answer(q, status)
       PROVE  TypeOK'
  <2> DEFINE f == Frame("phx_reply", q.topic, q.join_ref, q.ref, status)
  <2>1. IsFrame(f)
    BY DEF IsFrame, Frame, RequestRecord
  <2> QED BY <1>15, <2>1, ReceivedTypes DEF Answer
<1>16. ASSUME NEW g \in live, NEW kind \in {"phx_close", "phx_error"},
              Terminate(g, kind)
       PROVE  TypeOK'
  <2>1. IsFrame(Frame(kind, g.topic, g.join_ref, 0, "none"))
    BY DEF IsFrame, Frame, Generation
  <2> QED BY <1>16, <2>1, ReceivedTypes DEF Terminate
<1>17. ASSUME NEW g \in live, NEW join_ref \in {0, g.join_ref},
              Broadcast(g, join_ref)
       PROVE  TypeOK'
  <2>1. IsFrame(Frame("message", g.topic, join_ref, 0, "none"))
    BY DEF IsFrame, Frame, Generation
  <2> QED BY <1>17, <2>1, ReceivedTypes DEF Broadcast
<1>18. CASE UNCHANGED vars
  BY <1>18 DEF vars
<1> QED BY <1>5, <1>6, <1>7, <1>8, <1>9, <1>10, <1>11, <1>12, <1>13, <1>14,
           <1>15, <1>16, <1>17, <1>18
        DEF Next, Application, Server

(* The type invariant: protocol.rs never leaves the states it declares,    *)
(* and a frame it accepts maps to an event it declares.                    *)
THEOREM TypeCorrectness == Spec => []TypeOK
BY InitialTypes, StepTypes, PTL DEF Spec

---------------------------------------------------------------------------
(* References.                                                             *)

(* What ReferencesAreFresh says of the protocol state alone.               *)
Fresh(p) ==
  /\ \A e, g \in p.pending : e.ref = g.ref => e = g
  /\ \A e \in p.pending : e.ref <= p.next_reference
  /\ \A t, u \in Topics :
       p.channels[t].join_ref = p.channels[u].join_ref =>
         t = u \/ ChannelState(p, t) = "Absent"
  /\ \A t \in Topics : p.channels[t].join_ref <= p.next_reference

(* A request of a generation just begun, or of a present one.              *)
LEMMA TrackFresh ==
  ASSUME NEW p \in ProtocolState, Fresh(p), NEW t \in Topics, NEW kind,
         NEW c \in ChannelRecord,
         c.join_ref = NextRef(p) \/ c.join_ref = p.channels[t].join_ref
  PROVE  Fresh(Track(p, kind, t, c))
<1> DEFINE q == Track(p, kind, t, c)
<1>1. /\ NextRef(p) \in Nat /\ NextRef(p) > p.next_reference
      /\ \A e \in p.pending : e.ref \in Nat
      /\ \A u \in Topics : p.channels[u].join_ref \in Nat
  BY RecordFacts DEF ProtocolState, PendingRecord, NextRef
<1>2. /\ q.next_reference = NextRef(p)
      /\ q.pending = p.pending \cup {Pending(kind, t, NextRef(p))}
      /\ q.channels[t] = c
      /\ \A u \in Topics \ {t} : q.channels[u] = p.channels[u]
  BY DEF Track, ProtocolState
<1>3. /\ \A e, g \in q.pending : e.ref = g.ref => e = g
      /\ \A e \in q.pending : e.ref <= q.next_reference
  BY <1>1, <1>2 DEF Fresh, Pending, ProtocolState
<1>4. ASSUME NEW u \in Topics
      PROVE  q.channels[u].join_ref <= q.next_reference
  <2>1. p.channels[u].join_ref <= p.next_reference /\ p.next_reference \in Nat
    BY DEF Fresh, ProtocolState
  <2>2. \/ q.channels[u].join_ref = NextRef(p)
        \/ q.channels[u].join_ref = p.channels[u].join_ref
    BY <1>2
  <2> HIDE DEF q
  <2> QED BY <1>1, <1>2, <2>1, <2>2
<1>5. ASSUME NEW u \in Topics, NEW v \in Topics, u # v,
             q.channels[u].join_ref = q.channels[v].join_ref
      PROVE  ChannelState(q, u) = "Absent"
  <2>1. c.join_ref # NextRef(p) => c.join_ref = p.channels[t].join_ref
    OBVIOUS
  <2>2. \A w \in Topics : q.channels[w] \in ChannelRecord
    BY <1>2 DEF ProtocolState
  <2>3. q.channels[u].join_ref = 0
    BY <1>1, <1>2, <1>5, RecordFacts DEF Fresh, ChannelState, ProtocolState
  <2> QED BY <2>2, <2>3, RecordFacts DEF ChannelState
<1> QED BY <1>3, <1>4, <1>5 DEF Fresh

(* A state whose pending requests and generations are among those of a     *)
(* fresh state, none renumbered, is fresh.                                 *)
LEMMA ShrinkFresh ==
  ASSUME NEW p \in ProtocolState, Fresh(p), NEW q \in ProtocolState,
         q.next_reference >= p.next_reference,
         q.pending \subseteq p.pending,
         \A t \in Topics : \/ q.channels[t] = Absent
                           \/ q.channels[t].join_ref = p.channels[t].join_ref
                              /\ q.channels[t].state # "Absent"
  PROVE  Fresh(q)
<1>1. /\ \A e \in p.pending : e.ref \in Nat
      /\ \A t \in Topics : /\ p.channels[t] \in ChannelRecord
                           /\ q.channels[t] \in ChannelRecord
      /\ p.next_reference \in Nat /\ q.next_reference \in Nat
  BY DEF ProtocolState, PendingRecord
<1>2. \A t \in Topics : /\ p.channels[t].join_ref \in Nat
                        /\ q.channels[t].state # "Absent" =>
                             q.channels[t].join_ref # 0
  BY <1>1, RecordFacts
<1>3. ASSUME NEW t \in Topics
      PROVE  q.channels[t].join_ref <= q.next_reference
  <2>1. p.channels[t].join_ref <= p.next_reference
    BY DEF Fresh
  <2>2. \/ q.channels[t].join_ref = 0
        \/ q.channels[t].join_ref = p.channels[t].join_ref
    BY DEF Absent
  <2> QED BY <1>1, <1>2, <2>1, <2>2
<1>4. \A e \in q.pending : e.ref <= q.next_reference
  BY <1>1 DEF Fresh
<1>5. ASSUME NEW t \in Topics, NEW u \in Topics, t # u,
             q.channels[t].join_ref = q.channels[u].join_ref
      PROVE  ChannelState(q, t) = "Absent"
  <2> SUFFICES ASSUME q.channels[t].state # "Absent" PROVE FALSE
    BY DEF ChannelState
  <2>1. q.channels[t].join_ref # 0 /\ q.channels[u] # Absent
    BY <1>2, <1>5 DEF Absent
  <2>2. p.channels[t].join_ref = p.channels[u].join_ref
    BY <1>5, <2>1 DEF Absent
  <2>3. p.channels[t].state # "Absent"
    BY <1>1, <2>1, RecordFacts DEF Absent
  <2> QED BY <1>5, <2>2, <2>3 DEF Fresh, ChannelState
<1> QED BY <1>3, <1>4, <1>5 DEF Fresh

(* rejoin is discard_channel and join.                                     *)
LEMMA JoinFresh ==
  ASSUME NEW p \in ProtocolState, Fresh(p), NEW t \in Topics
  PROVE  Fresh(Join(p, t)) /\ Fresh(Discard(p, t)) /\ Fresh(Rejoin(p, t))
<1>1. ASSUME NEW q \in ProtocolState, Fresh(q)
      PROVE  Fresh(Join(q, t))
  <2>1. [state |-> "Joining", join_ref |-> NextRef(q)] \in ChannelRecord
    BY DEF ChannelRecord, ProtocolState, NextRef, ActiveStates
  <2> QED BY <1>1, <2>1, TrackFresh DEF Join
<1>2. Fresh(Discard(p, t))
  <2> DEFINE q == Discard(p, t)
  <2>1. q \in ProtocolState
    BY DiscardType
  <2>2. /\ q.next_reference >= p.next_reference
        /\ q.pending \subseteq p.pending
        /\ \A u \in Topics :
             q.channels[u] = IF u = t THEN Absent ELSE p.channels[u]
    BY DEF Discard, ProtocolState
  <2>3. \A u \in Topics : \/ q.channels[u] = Absent
                          \/ /\ q.channels[u].join_ref = p.channels[u].join_ref
                             /\ q.channels[u].state # "Absent"
    BY <2>2, RecordFacts DEF ProtocolState
  <2> HIDE DEF q
  <2> QED BY <2>1, <2>2, <2>3, ShrinkFresh DEF q
<1> QED BY <1>1, <1>2, DiscardType DEF Rejoin

(* What `receive` may do to the table of channels and that of requests.    *)
LEMMA ReceiveShrinks ==
  ASSUME NEW p \in ProtocolState, NEW f, IsFrame(f)
  PROVE  LET q == Receive(p, f)
         IN  /\ q.next_reference = p.next_reference
             /\ q.pending \subseteq p.pending
             /\ \A t \in Topics :
                  \/ q.channels[t] = Absent
                  \/ /\ q.channels[t].join_ref = p.channels[t].join_ref
                     /\ q.channels[t].state # "Absent"
<1> DEFINE kind == EventKind(p, f)
           e == CHOOSE e \in Matching(p, f) : TRUE
           Within(q) ==
             /\ q.next_reference = p.next_reference
             /\ q.pending \subseteq p.pending
             /\ \A t \in Topics :
                  \/ q.channels[t] = Absent
                  \/ /\ q.channels[t].join_ref = p.channels[t].join_ref
                     /\ q.channels[t].state # "Absent"
<1>1. kind \in ReceivedKinds
  BY EventKindType
<1>2. \A t \in Topics : p.channels[t] = Absent \/ p.channels[t].state # "Absent"
  BY RecordFacts DEF ProtocolState
<1>3. /\ Take(p, f) \in ProtocolState /\ Within(Take(p, f))
      /\ Within(p)
  BY <1>2 DEF Take, ProtocolState
<1>4. ASSUME NEW q \in ProtocolState, Within(q), NEW t,
             NEW state \in ActiveStates \cup InactiveStates
      PROVE  Within(SetState(q, t, state))
  BY <1>4 DEF SetState, ChannelState, ProtocolState, ChannelRecord, Absent,
              ActiveStates, InactiveStates
<1>5. Within(RemoveLeft(Take(p, f), e.topic, f))
  BY <1>3 DEF RemoveLeft, ProtocolState, ChannelRecord
<1>6. CASE kind \in {"ChannelClosed", "ChannelError"}
  BY <1>3, <1>4, <1>6 DEF Receive, InactiveStates
<1>7. CASE kind \in {"Joined", "JoinError"}
  BY <1>3, <1>4, <1>7 DEF Receive, InactiveStates, ActiveStates
<1>8. CASE kind \in {"Left", "Reply", "HeartbeatAck", "InvalidReply"}
  BY <1>3, <1>5, <1>8 DEF Receive
<1>9. CASE kind \in {"StaleMessage", "UnmatchedReply", "Message"}
  BY <1>3, <1>9 DEF Receive
<1> QED BY <1>1, <1>6, <1>7, <1>8, <1>9 DEF ReceivedKinds

(* `receive` renumbers nothing.                                            *)
LEMMA ReceiveFresh ==
  ASSUME NEW p \in ProtocolState, Fresh(p), NEW f, IsFrame(f)
  PROVE  Fresh(Receive(p, f))
<1> DEFINE q == Receive(p, f)
<1>1. q \in ProtocolState
  BY ReceiveType
<1>2. /\ q.next_reference = p.next_reference /\ q.pending \subseteq p.pending
      /\ \A t \in Topics : \/ q.channels[t] = Absent
                           \/ /\ q.channels[t].join_ref = p.channels[t].join_ref
                              /\ q.channels[t].state # "Absent"
  BY ReceiveShrinks
<1>3. q.next_reference >= p.next_reference
  BY <1>2 DEF ProtocolState
<1> HIDE DEF q
<1> QED BY <1>1, <1>2, <1>3, ShrinkFresh DEF q

---------------------------------------------------------------------------
(***************************************************************************)
(* The inductive invariant.  ReferencesAreFresh says nothing of what the   *)
(* server was asked, so that a reply might resolve another request than    *)
(* the one it answers; and DiscardedRepliesUnmatched nothing of the        *)
(* requests a discarded generation left on the wire.                       *)
(***************************************************************************)
RequestsAgree ==
  /\ \A q \in unanswered : q.ref # 0 /\ q.ref <= proto.next_reference
  /\ \A q \in unanswered :
       q.kind = "Join" => q.topic \in Topics /\ q.join_ref = q.ref
  /\ \A q \in unanswered, e \in proto.pending :
       e.ref = q.ref => e.kind = q.kind /\ e.topic = q.topic

Speaks(q, g) == q.topic = g.topic /\ q.join_ref = g.join_ref

GoneIsPast ==
  /\ \A g \in gone : g.join_ref # 0 /\ g.join_ref <= proto.next_reference
  /\ \A g \in gone : proto.channels[g.topic].join_ref # g.join_ref
  /\ \A g \in gone, q \in unanswered, e \in proto.pending :
       Speaks(q, g) => e.ref # q.ref

IInv == /\ TypeOK
        /\ Fresh(proto)
        /\ RequestsAgree
        /\ GoneIsPast
        /\ DiscardedRepliesUnmatched

(* A request with the reference just taken agrees with its pending entry.  *)
LEMMA SentAgrees ==
  ASSUME IInv, NEW kind, NEW t, NEW join_ref, Sent(kind, t, join_ref),
         proto'.next_reference = NextRef(proto),
         proto'.pending \subseteq
           proto.pending \cup {Pending(kind, t, NextRef(proto))},
         kind = "Join" => t \in Topics /\ join_ref = NextRef(proto)
  PROVE  RequestsAgree'
<1>1. /\ NextRef(proto) \in Nat /\ NextRef(proto) # 0
      /\ NextRef(proto) > proto.next_reference
      /\ proto.next_reference \in Nat
      /\ \A q \in unanswered : q.ref \in Nat
      /\ \A e \in proto.pending : e.ref \in Nat
  BY DEF IInv, TypeOK, ProtocolState, PendingRecord, RequestRecord, NextRef
<1> DEFINE new == [kind |-> kind, topic |-> t, ref |-> NextRef(proto),
                   join_ref |-> join_ref]
           entry == Pending(kind, t, NextRef(proto))
<1>2. /\ unanswered' = unanswered \cup {new}
      /\ new.kind = kind /\ new.topic = t
      /\ new.ref = NextRef(proto) /\ new.join_ref = join_ref
      /\ entry.ref = NextRef(proto) /\ entry.kind = kind /\ entry.topic = t
  BY DEF Sent, Pending
<1> HIDE DEF new, entry
<1>3. \A q \in unanswered' : q.ref # 0 /\ q.ref <= proto'.next_reference
  <2> TAKE q \in unanswered'
  <2>1. CASE q = new
    BY <1>1, <1>2, <2>1
  <2>2. CASE q \in unanswered
    <3>1. q.ref # 0 /\ q.ref <= proto.next_reference
      BY <2>2 DEF IInv, RequestsAgree
    <3> QED BY <1>1, <2>2, <3>1
  <2> QED BY <1>2, <2>1, <2>2
<1>4. \A q \in unanswered' :
        q.kind = "Join" => q.topic \in Topics /\ q.join_ref = q.ref
  BY <1>2 DEF IInv, RequestsAgree
<1>5. \A q \in unanswered', e \in proto'.pending :
        e.ref = q.ref => e.kind = q.kind /\ e.topic = q.topic
  <2> TAKE q \in unanswered', e \in proto'.pending
  <2> HAVE e.ref = q.ref
  <2>1. \A r \in unanswered : r.ref # NextRef(proto)
    BY <1>1 DEF IInv, RequestsAgree
  <2>2. \A g \in proto.pending : g.ref # NextRef(proto)
    BY <1>1 DEF IInv, Fresh
  <2>3. /\ q = new \/ q \in unanswered
        /\ e = entry \/ e \in proto.pending
    BY <1>2 DEF entry
  <2> QED BY <1>2, <2>1, <2>2, <2>3 DEF IInv, RequestsAgree
<1> QED BY <1>3, <1>4, <1>5 DEF RequestsAgree

(* What a call may make of the discarded generations: those of topic t may *)
(* be discarded with all requests of t, a generation it begins is new, and *)
(* a request it sends is of a generation not discarded.                    *)
LEMMA CallKeepsGone ==
  ASSUME IInv, NEW t \in Topics, NEW kind,
         Sent(kind, t, proto'.channels[t].join_ref),
         proto'.next_reference = NextRef(proto),
         \A u \in Topics \ {t} : proto'.channels[u] = proto.channels[u],
         \/ /\ gone' = gone
            /\ proto'.channels[t].join_ref = proto.channels[t].join_ref
            /\ proto'.pending \subseteq
                 proto.pending \cup {Pending(kind, t, NextRef(proto))}
         \/ /\ gone' = gone
            /\ proto'.channels[t].join_ref = NextRef(proto)
            /\ proto'.pending \subseteq
                 proto.pending \cup {Pending(kind, t, NextRef(proto))}
         \/ /\ gone' = gone \cup Generations(proto, t)
            /\ proto'.channels[t].join_ref = NextRef(proto)
            /\ proto'.pending \subseteq
                 {e \in proto.pending : e.topic # t}
                   \cup {Pending(kind, t, NextRef(proto))}
  PROVE  GoneIsPast'
<1>1. /\ NextRef(proto) \in Nat /\ NextRef(proto) # 0
      /\ NextRef(proto) > proto.next_reference
      /\ proto.next_reference \in Nat
      /\ \A q \in unanswered : q.ref \in Nat /\ q.ref # NextRef(proto)
      /\ \A e \in proto.pending : e.ref \in Nat /\ e.ref # NextRef(proto)
      /\ \A u \in Topics : /\ proto.channels[u].join_ref \in Nat
                           /\ proto.channels[u].join_ref <= proto.next_reference
  BY RecordFacts DEF IInv, TypeOK, ProtocolState, PendingRecord, RequestRecord,
                     NextRef, RequestsAgree, Fresh
<1>2. \A g \in gone : /\ g.topic \in Topics /\ g.join_ref \in Nat
                      /\ g.join_ref # 0 /\ g.join_ref <= proto.next_reference
                      /\ proto.channels[g.topic].join_ref # g.join_ref
  BY DEF IInv, TypeOK, Generation, GoneIsPast
<1>3. \A g \in Generations(proto, t) :
        /\ g.topic = t /\ g.join_ref = proto.channels[t].join_ref
        /\ g.join_ref # 0
  BY RecordFacts DEF Generations, IInv, TypeOK, ProtocolState, ChannelState
<1>4. \A g \in gone' : g.join_ref # 0 /\ g.join_ref <= proto'.next_reference
  BY <1>1, <1>2, <1>3
<1>5. \A g \in gone' : proto'.channels[g.topic].join_ref # g.join_ref
  BY <1>1, <1>2, <1>3
<1>6. \A g \in gone', q \in unanswered', e \in proto'.pending :
        Speaks(q, g) => e.ref # q.ref
  <2> TAKE g \in gone', q \in unanswered', e \in proto'.pending
  <2> HAVE Speaks(q, g)
  <2>1. q \in unanswered
    <3> SUFFICES ASSUME q \notin unanswered PROVE FALSE
      OBVIOUS
    <3>1. q.topic = t /\ q.join_ref = proto'.channels[t].join_ref
      BY DEF Sent
    <3> QED BY <1>5, <3>1 DEF Speaks
  <2>2. CASE e \notin proto.pending
    BY <1>1, <2>1, <2>2 DEF Pending
  <2>3. CASE e \in proto.pending /\ g \in gone
    BY <2>1, <2>3 DEF IInv, GoneIsPast
  <2>4. CASE e \in proto.pending /\ g \notin gone
    <3>1. g.topic = t
      BY <1>3, <2>4
    <3>2. e.topic # t
      BY <1>1, <2>4 DEF Pending
    <3> QED BY <2>1, <2>4, <3>1, <3>2 DEF IInv, RequestsAgree, Speaks
  <2> QED BY <2>2, <2>3, <2>4
<1> QED BY <1>4, <1>5, <1>6 DEF GoneIsPast

(* A step that sends nothing and only forgets keeps what is said of the    *)
(* requests and, when it discards no generation, of the discarded ones.    *)
LEMMA ForgettingAgrees ==
  ASSUME IInv, unanswered' \subseteq unanswered, proto' \in ProtocolState,
         proto'.next_reference >= proto.next_reference,
         proto'.pending \subseteq proto.pending
  PROVE  /\ RequestsAgree'
         /\ /\ gone' = gone
            /\ \A t \in Topics :
                 \/ proto'.channels[t] = Absent
                 \/ proto'.channels[t].join_ref = proto.channels[t].join_ref
            => GoneIsPast'
<1>1. /\ \A q \in unanswered : q.ref \in Nat
      /\ proto.next_reference \in Nat /\ proto'.next_reference \in Nat
      /\ \A g \in gone : g.join_ref \in Nat /\ g.topic \in Topics
  BY DEF IInv, TypeOK, ProtocolState, RequestRecord, Generation
<1>2. RequestsAgree'
  <2>1. \A q \in unanswered' : q.ref # 0 /\ q.ref <= proto'.next_reference
    <3> TAKE q \in unanswered'
    <3>1. q.ref # 0 /\ q.ref <= proto.next_reference
      BY DEF IInv, RequestsAgree
    <3> QED BY <1>1, <3>1
  <2> QED BY <2>1 DEF IInv, RequestsAgree
<1>3. ASSUME gone' = gone,
             \A t \in Topics :
               \/ proto'.channels[t] = Absent
               \/ proto'.channels[t].join_ref = proto.channels[t].join_ref
      PROVE  GoneIsPast'
  <2>1. \A g \in gone' : g.join_ref # 0 /\ g.join_ref <= proto'.next_reference
    <3> TAKE g \in gone'
    <3>1. g.join_ref # 0 /\ g.join_ref <= proto.next_reference
      BY <1>3 DEF IInv, GoneIsPast
    <3> QED BY <1>1, <1>3, <3>1
  <2>2. \A g \in gone' : proto'.channels[g.topic].join_ref # g.join_ref
    BY <1>1, <1>3, <2>1 DEF IInv, GoneIsPast, Absent
  <2> QED BY <1>3, <2>1, <2>2 DEF IInv, GoneIsPast
<1> QED BY <1>2, <1>3

(* discard_channel leaves no request of the topic pending, so that what it *)
(* discards is past.                                                       *)
LEMMA DiscardKeepsGone ==
  ASSUME IInv, NEW t \in Topics, CallDiscard(t)
  PROVE  GoneIsPast'
<1>1. /\ proto'.next_reference = proto.next_reference
      /\ proto'.pending = {e \in proto.pending : e.topic # t}
      /\ proto'.channels[t] = Absent
      /\ \A u \in Topics \ {t} : proto'.channels[u] = proto.channels[u]
      /\ unanswered' = unanswered
      /\ gone' = gone \cup Generations(proto, t)
  BY DEF CallDiscard, Discard, IInv, TypeOK, ProtocolState
<1>2. \A g \in Generations(proto, t) :
        /\ g.topic = t /\ g.join_ref # 0
        /\ g.join_ref <= proto.next_reference
  BY RecordFacts DEF Generations, IInv, TypeOK, ProtocolState, ChannelState,
                     Fresh
<1>3. \A g \in gone' :
        /\ g.join_ref # 0 /\ g.join_ref <= proto'.next_reference
        /\ g.topic \in Topics
  BY <1>1, <1>2 DEF IInv, TypeOK, GoneIsPast, Generation
<1>4. \A g \in gone' : proto'.channels[g.topic].join_ref # g.join_ref
  <2> TAKE g \in gone'
  <2>1. CASE g.topic = t
    BY <1>1, <1>3, <2>1 DEF Absent
  <2>2. CASE g.topic # t
    BY <1>1, <1>2, <1>3, <2>2 DEF IInv, GoneIsPast
  <2> QED BY <2>1, <2>2
<1>5. \A g \in gone', q \in unanswered', e \in proto'.pending :
        Speaks(q, g) => e.ref # q.ref
  <2> TAKE g \in gone', q \in unanswered', e \in proto'.pending
  <2> HAVE Speaks(q, g)
  <2>1. CASE g \in gone
    BY <1>1, <2>1 DEF IInv, GoneIsPast
  <2>2. CASE g \in Generations(proto, t)
    BY <1>1, <1>2, <2>2 DEF IInv, RequestsAgree, Speaks
  <2> QED BY <1>1, <2>1, <2>2
<1> QED BY <1>3, <1>4, <1>5 DEF GoneIsPast

(* The reply to a request of a discarded generation finds nothing pending. *)
LEMMA DiscardedReply ==
  ASSUME IInv, NEW q \in unanswered, NEW status,
         [topic |-> q.topic, join_ref |-> q.join_ref] \in gone
  PROVE  EventKind(proto, Frame("phx_reply", q.topic, q.join_ref, q.ref, status))
           \in {"UnmatchedReply", "StaleMessage"}
<1> DEFINE f == Frame("phx_reply", q.topic, q.join_ref, q.ref, status)
           g == [topic |-> q.topic, join_ref |-> q.join_ref]
<1>1. Speaks(q, g) /\ g \in gone
  BY DEF Speaks
<1>2. Matching(proto, f) = {}
  BY <1>1 DEF IInv, GoneIsPast, Matching, Frame
<1>3. f.event = "phx_reply"
  BY DEF Frame
<1> HIDE DEF f
<1> QED BY <1>2, <1>3 DEF EventKind, f

(* rejoin_all_with_stored_params numbers every join anew, forgets every    *)
(* request of the topics it rejoins, and leaves no old generation present. *)
LEMMA RejoinAllKeeps ==
  ASSUME IInv, CallRejoinAll
  PROVE  Fresh(proto)' /\ RequestsAgree' /\ GoneIsPast'
<1> DEFINE again == {t \in Topics : ChannelState(proto, t) \in InactiveStates}
           join(ref, t) == [kind |-> "Join", topic |-> t, ref |-> ref[t],
                            join_ref |-> ref[t]]
<1>1. PICK last \in NextRef(proto) .. MaxReference :
        \E ref \in [again -> NextRef(proto) .. last] :
          /\ \A t, u \in again : ref[t] = ref[u] => t = u
          /\ RejoinEach(again, ref, last)
  BY DEF CallRejoinAll
<1>2. PICK ref \in [again -> NextRef(proto) .. last] :
        /\ \A t, u \in again : ref[t] = ref[u] => t = u
        /\ RejoinEach(again, ref, last)
  BY <1>1
<1>3. /\ proto.next_reference \in Nat /\ last \in Nat
      /\ last > proto.next_reference
      /\ \A t \in again : /\ ref[t] \in Nat /\ ref[t] # 0 /\ ref[t] <= last
                          /\ ref[t] > proto.next_reference
      /\ \A e \in proto.pending : e.ref \in Nat
      /\ \A q \in unanswered : q.ref \in Nat
      /\ \A t \in Topics : proto.channels[t].join_ref \in Nat
      /\ \A g \in gone : g.join_ref \in Nat /\ g.topic \in Topics
  BY <1>2, RecordFacts DEF IInv, TypeOK, ProtocolState, PendingRecord,
                           RequestRecord, Generation, NextRef
<1>4. /\ proto'.next_reference = last
      /\ \A t \in Topics \ again : proto'.channels[t] = proto.channels[t]
      /\ \A t \in again : /\ proto'.channels[t].join_ref = ref[t]
                          /\ proto'.channels[t].state = "Joining"
      /\ proto'.pending = {e \in proto.pending : e.topic \notin again}
                            \cup {Pending("Join", t, ref[t]) : t \in again}
      /\ unanswered' = unanswered \cup {join(ref, t) : t \in again}
  BY <1>2 DEF RejoinEach
<1>5. /\ \A e \in proto.pending : e.ref <= proto.next_reference
      /\ \A q \in unanswered : q.ref # 0 /\ q.ref <= proto.next_reference
      /\ \A t \in Topics : proto.channels[t].join_ref <= proto.next_reference
      /\ \A g \in gone : g.join_ref # 0 /\ g.join_ref <= proto.next_reference
  BY DEF IInv, Fresh, RequestsAgree, GoneIsPast
<1>6. Fresh(proto)'
  <2>1. \A e, g \in proto'.pending : e.ref = g.ref => e = g
    BY <1>2, <1>3, <1>4, <1>5 DEF IInv, Fresh, Pending
  <2>2. \A e \in proto'.pending : e.ref <= proto'.next_reference
    BY <1>3, <1>4, <1>5 DEF Pending
  <2>3. ASSUME NEW t \in Topics, NEW u \in Topics,
               proto'.channels[t].join_ref = proto'.channels[u].join_ref
        PROVE  t = u \/ ChannelState(proto', t) = "Absent"
    <3>1. CASE t \in again \/ u \in again
      BY <1>2, <1>3, <1>4, <1>5, <2>3, <3>1
    <3>2. CASE t \notin again /\ u \notin again
      BY <1>4, <2>3, <3>2 DEF IInv, Fresh, ChannelState
    <3> QED BY <3>1, <3>2
  <2>4. \A t \in Topics : proto'.channels[t].join_ref <= proto'.next_reference
    BY <1>3, <1>4, <1>5
  <2> QED BY <2>1, <2>2, <2>3, <2>4 DEF Fresh
<1>7. RequestsAgree'
  <2>1. \A q \in unanswered' : q.ref # 0 /\ q.ref <= proto'.next_reference
    BY <1>3, <1>4, <1>5
  <2>2. \A q \in unanswered' :
          q.kind = "Join" => q.topic \in Topics /\ q.join_ref = q.ref
    BY <1>4 DEF IInv, RequestsAgree
  <2>3. \A q \in unanswered', e \in proto'.pending :
          e.ref = q.ref => e.kind = q.kind /\ e.topic = q.topic
    BY <1>2, <1>3, <1>4, <1>5 DEF IInv, RequestsAgree, Pending
  <2> QED BY <2>1, <2>2, <2>3 DEF RequestsAgree
<1>8. GoneIsPast'
  <2>1. \A g \in gone' : \/ g \in gone
                         \/ /\ g.topic \in again /\ g.join_ref # 0
                            /\ g.join_ref = proto.channels[g.topic].join_ref
    BY RecordFacts
       DEF CallRejoinAll, Generations, IInv, TypeOK, ProtocolState, ChannelState
  <2>2. \A g \in gone' : /\ g.join_ref # 0 /\ g.join_ref \in Nat
                         /\ g.join_ref <= proto.next_reference
                         /\ g.topic \in Topics
    BY <1>3, <1>5, <2>1
  <2>3. \A g \in gone' : g.join_ref <= proto'.next_reference
    BY <1>3, <1>4, <2>2
  <2>4. \A g \in gone' : proto'.channels[g.topic].join_ref # g.join_ref
    BY <1>3, <1>4, <2>1, <2>2 DEF IInv, GoneIsPast
  <2>5. \A g \in gone', q \in unanswered', e \in proto'.pending :
          Speaks(q, g) => e.ref # q.ref
    <3> TAKE g \in gone', q \in unanswered', e \in proto'.pending
    <3> HAVE Speaks(q, g)
    <3>1. q \in unanswered
      <4> SUFFICES ASSUME NEW t \in again, q = join(ref, t) PROVE FALSE
        BY <1>4
      <4> QED BY <1>3, <2>2 DEF Speaks
    <3>2. CASE e \notin proto.pending
      BY <1>3, <1>4, <1>5, <3>1, <3>2 DEF Pending
    <3>3. CASE e \in proto.pending /\ g \in gone
      BY <3>1, <3>3 DEF IInv, GoneIsPast
    <3>4. CASE e \in proto.pending /\ g \notin gone
      <4>1. g.topic \in again
        BY <2>1, <3>4
      <4>2. e.topic \notin again
        BY <1>3, <1>4, <1>5, <3>4 DEF Pending
      <4> QED BY <3>1, <3>4, <4>1, <4>2 DEF IInv, RequestsAgree, Speaks
    <3> QED BY <3>2, <3>3, <3>4
  <2> QED BY <2>2, <2>3, <2>4, <2>5 DEF GoneIsPast
<1> QED BY <1>6, <1>7, <1>8

(* Each call that sends one request keeps the invariant.                   *)
LEMMA RequestStep ==
  ASSUME IInv, NEW t \in Topics,
         CallJoin(t) \/ CallRejoin(t) \/ CallLeave(t) \/ CallPush(t)
  PROVE  Fresh(proto)' /\ RequestsAgree' /\ GoneIsPast'
<1>1. /\ proto \in ProtocolState /\ Fresh(proto)
      /\ proto.channels[t] \in ChannelRecord
      /\ NextRef(proto) \in Nat
  BY DEF IInv, TypeOK, ProtocolState, NextRef
<1> DEFINE new == [state |-> "Joining", join_ref |-> NextRef(proto)]
<1>2. ASSUME NEW p \in ProtocolState, NEW kind, NEW c,
             proto' = Track(p, kind, t, c)
      PROVE  /\ proto'.next_reference = NextRef(p)
             /\ proto'.channels[t] = c
             /\ \A u \in Topics \ {t} : proto'.channels[u] = p.channels[u]
             /\ proto'.pending = p.pending \cup {Pending(kind, t, NextRef(p))}
  BY <1>2 DEF Track, ProtocolState
<1>3. CASE CallJoin(t)
  <2>1. Fresh(proto)'
    BY <1>1, <1>3, JoinFresh DEF CallJoin
  <2>2. proto' = Track(proto, "Join", t, new) /\ gone' = gone
    BY <1>3 DEF CallJoin, Join
  <2>3. RequestsAgree'
    BY <1>1, <1>2, <1>3, <2>2, SentAgrees DEF CallJoin
  <2>4. GoneIsPast'
    BY <1>1, <1>2, <1>3, <2>2, CallKeepsGone DEF CallJoin
  <2> QED BY <2>1, <2>3, <2>4
<1>4. CASE CallRejoin(t)
  <2> DEFINE d == IF ChannelState(proto, t) \in InactiveStates
                    THEN Discard(proto, t) ELSE proto
  <2>1. Fresh(proto)'
    BY <1>1, <1>4, JoinFresh DEF CallRejoin
  <2>2. /\ d \in ProtocolState /\ proto' = Track(d, "Join", t, new)
        /\ NextRef(d) = NextRef(proto)
        /\ \A u \in Topics \ {t} : d.channels[u] = proto.channels[u]
        /\ gone' = gone \cup Generations(proto, t)
    BY <1>1, <1>4, DiscardType
       DEF CallRejoin, Rejoin, Join, Discard, NextRef, ProtocolState
  <2>3. d.pending \subseteq proto.pending
    BY DEF Discard
  <2>4. CASE ChannelState(proto, t) \in InactiveStates
    <3>1. d.pending = {e \in proto.pending : e.topic # t}
      BY <1>1, <2>4 DEF Discard, ProtocolState
    <3> HIDE DEF d
    <3>2. RequestsAgree'
      BY <1>1, <1>2, <1>4, <2>2, <2>3, SentAgrees DEF CallRejoin
    <3>3. GoneIsPast'
      BY <1>1, <1>2, <1>4, <2>2, <3>1, CallKeepsGone DEF CallRejoin
    <3> QED BY <2>1, <3>2, <3>3
  <2>5. CASE ChannelState(proto, t) \notin InactiveStates
    <3>1. Generations(proto, t) = {}
      BY <1>1, <1>4, <2>5 DEF Generations, CallRejoin, CanJoin, ChannelState,
           ChannelRecord, Absent
    <3>2. gone' = gone
      BY <2>2, <3>1
    <3> HIDE DEF d
    <3>3. RequestsAgree'
      BY <1>1, <1>2, <1>4, <2>2, <2>3, SentAgrees DEF CallRejoin
    <3>4. GoneIsPast'
      BY <1>1, <1>2, <1>4, <2>2, <2>3, <3>2, CallKeepsGone DEF CallRejoin
    <3> QED BY <2>1, <3>3, <3>4
  <2> QED BY <2>4, <2>5
<1>5. CASE CallLeave(t)
  <2> DEFINE c == [proto.channels[t] EXCEPT !.state = "Leaving"]
  <2>1. /\ c \in ChannelRecord /\ c.join_ref = proto.channels[t].join_ref
        /\ proto' = Track(proto, "Leave", t, c) /\ gone' = gone
    BY <1>1, <1>5, RecordFacts
       DEF CallLeave, Leave, CanLeave, ChannelState, ActiveStates, ChannelRecord
  <2> HIDE DEF c
  <2>2. Fresh(proto)'
    BY <1>1, <2>1, TrackFresh
  <2>3. RequestsAgree'
    BY <1>1, <1>2, <1>5, <2>1, SentAgrees DEF CallLeave
  <2>4. GoneIsPast'
    BY <1>1, <1>2, <1>5, <2>1, CallKeepsGone DEF CallLeave
  <2> QED BY <2>2, <2>3, <2>4
<1>6. CASE CallPush(t)
  <2>1. proto' = Track(proto, "Push", t, proto.channels[t]) /\ gone' = gone
    BY <1>6 DEF CallPush, Push
  <2>2. Fresh(proto)'
    BY <1>1, <2>1, TrackFresh
  <2>3. RequestsAgree'
    BY <1>1, <1>2, <1>6, <2>1, SentAgrees DEF CallPush
  <2>4. GoneIsPast'
    BY <1>1, <1>2, <1>6, <2>1, CallKeepsGone DEF CallPush
  <2> QED BY <2>2, <2>3, <2>4
<1> QED BY <1>3, <1>4, <1>5, <1>6

(* A heartbeat is of no channel.                                           *)
LEMMA HeartbeatStep ==
  ASSUME IInv, CallHeartbeat
  PROVE  Fresh(proto)' /\ RequestsAgree' /\ GoneIsPast'
<1> DEFINE e == Pending("Heartbeat", PhoenixTopic, NextRef(proto))
<1>1. /\ proto'.next_reference = NextRef(proto)
      /\ proto'.channels = proto.channels
      /\ proto'.pending = proto.pending \cup {e}
      /\ e.ref = NextRef(proto)
      /\ NextRef(proto) \in Nat /\ NextRef(proto) > proto.next_reference
      /\ proto.next_reference \in Nat
      /\ \A g \in proto.pending : g.ref \in Nat
      /\ \A t \in Topics : proto.channels[t].join_ref \in Nat
      /\ \A g \in gone : g.join_ref \in Nat /\ g.topic \in Topics
  BY RecordFacts DEF CallHeartbeat, Heartbeat, IInv, TypeOK, ProtocolState,
                     PendingRecord, Generation, NextRef, Pending
<1> HIDE DEF e
<1>2. Fresh(proto)'
  <2>1. \A g \in proto.pending : g.ref <= proto.next_reference
    BY DEF IInv, Fresh
  <2>2. \A g \in proto'.pending : g.ref <= proto'.next_reference
    BY <1>1, <2>1
  <2>3. \A g, h \in proto'.pending : g.ref = h.ref => g = h
    BY <1>1, <2>1 DEF IInv, Fresh
  <2>4. \A t \in Topics : proto'.channels[t].join_ref <= proto'.next_reference
    <3> TAKE t \in Topics
    <3>1. proto.channels[t].join_ref <= proto.next_reference
      BY DEF IInv, Fresh
    <3> QED BY <1>1, <3>1
  <2> QED BY <1>1, <2>2, <2>3, <2>4 DEF IInv, Fresh, ChannelState
<1>3. RequestsAgree'
  BY <1>1, SentAgrees DEF CallHeartbeat, e
<1>4. GoneIsPast'
  <2>1. \A q \in unanswered' : q \in unanswered \/ q.topic = PhoenixTopic
    BY DEF CallHeartbeat, Sent
  <2>2. \A q \in unanswered, g \in proto'.pending : g.ref = q.ref => g \in proto.pending
    <3> SUFFICES ASSUME NEW q \in unanswered PROVE q.ref # NextRef(proto)
      BY <1>1
    <3>1. q.ref <= proto.next_reference /\ q.ref \in Nat
      BY DEF IInv, RequestsAgree, TypeOK, RequestRecord
    <3> QED BY <1>1, <3>1
  <2>3. \A g \in gone : g.join_ref # 0 /\ g.join_ref <= proto'.next_reference
    <3> TAKE g \in gone
    <3>1. g.join_ref # 0 /\ g.join_ref <= proto.next_reference
      BY DEF IInv, GoneIsPast
    <3> QED BY <1>1, <3>1
  <2>4. gone' = gone
    BY DEF CallHeartbeat
  <2> QED BY <1>1, <2>1, <2>2, <2>3, <2>4, TopicsAssumption
          DEF IInv, GoneIsPast, Speaks
<1> QED BY <1>2, <1>3, <1>4

(* A frame keeps the invariant but for DiscardedRepliesUnmatched, which is *)
(* about the frame: it forgets at most.                                    *)
LEMMA ReceivedKeeps ==
  ASSUME IInv, TypeOK', NEW f, IsFrame(f), Received(f),
         unanswered' \subseteq unanswered
  PROVE  Fresh(proto)' /\ RequestsAgree' /\ GoneIsPast'
<1>1. proto \in ProtocolState /\ Fresh(proto) /\ proto' = Receive(proto, f)
      /\ gone' = gone
  BY DEF IInv, TypeOK, Received
<1>2. /\ proto'.next_reference = proto.next_reference
      /\ proto'.pending \subseteq proto.pending
      /\ \A t \in Topics :
           \/ proto'.channels[t] = Absent
           \/ proto'.channels[t].join_ref = proto.channels[t].join_ref
  BY <1>1, ReceiveShrinks
<1>3. proto'.next_reference >= proto.next_reference
  BY <1>1, <1>2 DEF ProtocolState
<1> QED BY <1>1, <1>2, <1>3, ReceiveFresh, ForgettingAgrees DEF TypeOK

(* The inductive invariant holds.                                          *)
THEOREM Inductive == Spec => []IInv
<1>1. Init => IInv
  <2> SUFFICES ASSUME Init PROVE IInv
    OBVIOUS
  <2>1. TypeOK
    BY InitialTypes
  <2>2. Fresh(proto)
    BY DEF Init, NewProtocol, Fresh, Absent, ChannelState
  <2>3. RequestsAgree /\ GoneIsPast /\ DiscardedRepliesUnmatched
    BY DEF Init, RequestsAgree, GoneIsPast, DiscardedRepliesUnmatched, NoEvent
  <2> QED BY <2>1, <2>2, <2>3 DEF IInv
<1>2. IInv /\ [Next]_vars => IInv'
  <2> SUFFICES ASSUME IInv, [Next]_vars PROVE IInv'
    OBVIOUS
  <2>1. TypeOK /\ TypeOK'
    BY StepTypes DEF IInv
  <2>2. ASSUME event'.of = "none" PROVE DiscardedRepliesUnmatched'
    BY <2>2 DEF DiscardedRepliesUnmatched
  <2>3. \A kind : NoEvent(kind).of = "none"
    BY DEF NoEvent
  <2>4. ASSUME NEW t \in Topics,
               CallJoin(t) \/ CallRejoin(t) \/ CallLeave(t) \/ CallPush(t)
        PROVE  IInv'
    <3>1. event'.of = "none"
      BY <2>3, <2>4 DEF CallJoin, CallRejoin, CallLeave, CallPush, Sent
    <3> QED BY <2>1, <2>2, <2>4, <3>1, RequestStep DEF IInv
  <2>5. CASE CallHeartbeat
    <3>1. event'.of = "none"
      BY <2>3, <2>5 DEF CallHeartbeat, Sent
    <3> QED BY <2>1, <2>2, <2>5, <3>1, HeartbeatStep DEF IInv
  <2>6. CASE CallRejoinAll
    <3>1. event'.of = "none"
      BY <2>3, <2>6 DEF CallRejoinAll
    <3> QED BY <2>1, <2>2, <2>6, <3>1, RejoinAllKeeps DEF IInv
  <2>7. ASSUME event'.of = "none", unanswered' \subseteq unanswered,
               gone' = gone,
               proto'.next_reference >= proto.next_reference,
               proto'.pending \subseteq proto.pending,
               \A t \in Topics :
                 \/ proto'.channels[t] = Absent
                 \/ /\ proto'.channels[t].join_ref = proto.channels[t].join_ref
                    /\ proto'.channels[t].state # "Absent"
        PROVE  IInv'
    <3>1. Fresh(proto')
      BY <2>1, <2>7, ShrinkFresh DEF IInv, TypeOK
    <3>2. RequestsAgree' /\ GoneIsPast'
      BY <2>1, <2>7, ForgettingAgrees DEF TypeOK
    <3> QED BY <2>1, <2>2, <2>7, <3>1, <3>2 DEF IInv
  <2>8. /\ proto.next_reference >= proto.next_reference
        /\ NextRef(proto) >= proto.next_reference
        /\ \A t \in Topics : \/ proto.channels[t] = Absent
                             \/ proto.channels[t].state # "Absent"
    BY <2>1, RecordFacts DEF TypeOK, ProtocolState, NextRef
  <2>9. ASSUME NEW t \in Topics, CallFails(t) PROVE IInv'
    <3>1. /\ proto'.channels = proto.channels /\ proto'.pending = proto.pending
          /\ proto'.next_reference >= proto.next_reference
      BY <2>1, <2>8, <2>9 DEF CallFails, FailedLeave, TypeOK, ProtocolState
    <3> QED BY <2>3, <2>7, <2>8, <2>9, <3>1 DEF CallFails
  <2>10. CASE CallForget
    <3>1. /\ proto'.channels = proto.channels
          /\ proto'.pending \subseteq proto.pending
          /\ proto'.next_reference = proto.next_reference
      BY <2>1, <2>10 DEF CallForget, Forget, TypeOK, ProtocolState
    <3> QED BY <2>3, <2>7, <2>8, <2>10, <3>1 DEF CallForget
  <2>11. CASE CallReset
    <3>1. /\ proto'.pending = {}
          /\ proto'.next_reference = proto.next_reference
          /\ proto'.channels =
               [t \in Topics |->
                 IF proto.channels[t].state = "Absent"
                   THEN proto.channels[t]
                   ELSE [proto.channels[t] EXCEPT !.state = "Disconnected"]]
      BY <2>1, <2>11 DEF CallReset, ResetConnection, TypeOK, ProtocolState
    <3>2. ASSUME NEW t \in Topics, proto.channels[t] # Absent
          PROVE  /\ proto'.channels[t].join_ref = proto.channels[t].join_ref
                 /\ proto'.channels[t].state # "Absent"
      <4>1. /\ proto.channels[t].state # "Absent"
            /\ proto.channels[t] \in
                 [state : ActiveStates \cup InactiveStates,
                  join_ref : Nat \ {0}]
        BY <2>1, <2>8, <3>2 DEF TypeOK, ProtocolState, ChannelRecord
      <4>2. proto'.channels[t] =
              [proto.channels[t] EXCEPT !.state = "Disconnected"]
        BY <3>1, <4>1
      <4> QED BY <4>1, <4>2
    <3>3. ASSUME NEW t \in Topics, proto.channels[t] = Absent
          PROVE  proto'.channels[t] = Absent
      BY <3>1, <3>3 DEF Absent
    <3>4. /\ unanswered' \subseteq unanswered /\ gone' = gone
          /\ event'.of = "none"
      BY <2>3, <2>11 DEF CallReset
    <3>5. proto'.next_reference >= proto.next_reference
          /\ proto'.pending \subseteq proto.pending
      BY <2>8, <3>1
    <3> QED BY <2>7, <3>2, <3>3, <3>4, <3>5
  <2>12. ASSUME NEW t \in Topics, CallDiscard(t) PROVE IInv'
    <3>1. Fresh(proto)' /\ event'.of = "none"
      BY <2>1, <2>3, <2>12, JoinFresh DEF CallDiscard, IInv, TypeOK
    <3>2. RequestsAgree'
      <4>1. /\ proto'.pending \subseteq proto.pending
            /\ proto'.next_reference >= proto.next_reference
        BY <2>1, <2>8, <2>12 DEF CallDiscard, Discard, TypeOK, ProtocolState
      <4> QED BY <2>1, <2>12, <4>1, ForgettingAgrees DEF CallDiscard, TypeOK
    <3>3. GoneIsPast'
      BY <2>12, DiscardKeepsGone
    <3> QED BY <2>1, <2>2, <3>1, <3>2, <3>3 DEF IInv
  <2>13. ASSUME NEW q \in unanswered, NEW status, Answer(q, status)
         PROVE  IInv'
    <3> DEFINE f == Frame("phx_reply", q.topic, q.join_ref, q.ref, status)
    <3>1. IsFrame(f) /\ Received(f)
      BY <2>1, <2>13 DEF IsFrame, Frame, TypeOK, RequestRecord, Answer
    <3>2. Fresh(proto)' /\ RequestsAgree' /\ GoneIsPast'
      BY <2>1, <2>13, <3>1, ReceivedKeeps DEF Answer
    <3>3. DiscardedRepliesUnmatched'
      <4>1. /\ gone' = gone
            /\ event' = [kind |-> EventKind(proto, f), topic |-> q.topic,
                         of |-> "phx_reply", join_ref |-> q.join_ref,
                         ref |-> q.ref]
        BY <3>1 DEF Received, Frame
      <4> HIDE DEF f
      <4> QED BY <4>1, DiscardedReply DEF DiscardedRepliesUnmatched, f
    <3> QED BY <2>1, <3>2, <3>3 DEF IInv
  <2>14. ASSUME NEW g \in live, NEW kind \in {"phx_close", "phx_error"},
                Terminate(g, kind)
         PROVE  IInv'
    <3> DEFINE f == Frame(kind, g.topic, g.join_ref, 0, "none")
    <3>1. IsFrame(f) /\ Received(f) /\ event'.of = kind
      BY <2>1, <2>14
         DEF IsFrame, Frame, TypeOK, Generation, Terminate, Received
    <3>2. unanswered' \subseteq unanswered
      BY <2>14 DEF Terminate
    <3>3. DiscardedRepliesUnmatched'
      BY <3>1 DEF DiscardedRepliesUnmatched
    <3> QED BY <2>1, <3>1, <3>2, <3>3, ReceivedKeeps DEF IInv
  <2>15. ASSUME NEW g \in live, NEW join_ref \in {0, g.join_ref},
                Broadcast(g, join_ref)
         PROVE  IInv'
    <3> DEFINE f == Frame("message", g.topic, join_ref, 0, "none")
    <3>1. IsFrame(f) /\ Received(f) /\ event'.of = "message"
      BY <2>1, <2>15
         DEF IsFrame, Frame, TypeOK, Generation, Broadcast, Received
    <3>2. unanswered' \subseteq unanswered
      BY <2>15 DEF Broadcast
    <3>3. DiscardedRepliesUnmatched'
      BY <3>1 DEF DiscardedRepliesUnmatched
    <3> QED BY <2>1, <3>1, <3>2, <3>3, ReceivedKeeps DEF IInv
  <2>16. CASE UNCHANGED vars
    BY <2>16 DEF vars, IInv, TypeOK, Fresh, RequestsAgree, GoneIsPast,
                 DiscardedRepliesUnmatched
  <2> QED BY <2>4, <2>5, <2>6, <2>9, <2>10, <2>11, <2>12, <2>13, <2>14, <2>15,
             <2>16 DEF Next, Application, Server
<1> QED BY <1>1, <1>2, PTL DEF Spec

---------------------------------------------------------------------------
(***************************************************************************)
(* What the inductive invariant gives.                                     *)
(***************************************************************************)

(* A reference names one request, and the next one is in use nowhere.      *)
THEOREM ReferencesUnique == Spec => []ReferencesAreFresh
<1>1. IInv => ReferencesAreFresh
  BY RecordFacts DEF IInv, TypeOK, ProtocolState, Fresh, RequestsAgree,
                     ReferencesAreFresh, ChannelState
<1> QED BY <1>1, Inductive, PTL

(* discard_channel: later replies of the removed generation are unmatched, *)
(* whatever was done with the topic since.                                 *)
THEOREM DiscardedStayUnmatched == Spec => []DiscardedRepliesUnmatched
<1>1. IInv => DiscardedRepliesUnmatched
  BY DEF IInv
<1> QED BY <1>1, Inductive, PTL

(* Of all frames only the reply to a pending join makes a channel joined.  *)
LEMMA ReceiveJoins ==
  ASSUME NEW p \in ProtocolState, NEW f, IsFrame(f), NEW t \in Topics,
         ChannelState(p, t) # "Joined",
         ChannelState(Receive(p, f), t) = "Joined"
  PROVE  /\ EventKind(p, f) = "Joined"
         /\ ChannelState(p, t) # "Absent"
         /\ \E e \in Matching(p, f) : e.kind = "Join" /\ e.topic = t
<1> DEFINE e == CHOOSE e \in Matching(p, f) : TRUE
<1>1. ASSUME NEW u, NEW state, NEW r \in ProtocolState,
             r.channels = p.channels,
             ChannelState(SetState(r, u, state), t) = "Joined"
      PROVE  state = "Joined" /\ u = t /\ ChannelState(p, t) # "Absent"
  BY <1>1 DEF SetState, ChannelState, ProtocolState
<1>2. Take(p, f) \in ProtocolState /\ Take(p, f).channels = p.channels
  BY DEF Take, ProtocolState
<1>3. ChannelState(RemoveLeft(Take(p, f), e.topic, f), t) # "Joined"
  BY <1>2 DEF RemoveLeft, ChannelState, ProtocolState, Absent
<1>4. EventKind(p, f) = "Joined"
  BY <1>1, <1>2, <1>3, EventKindType DEF Receive, ReceivedKinds, ChannelState
<1>5. Receive(p, f) = SetState(Take(p, f), e.topic, "Joined")
  BY <1>4 DEF Receive
<1>6. e.topic = t /\ ChannelState(p, t) # "Absent"
  BY <1>1, <1>2, <1>5
<1>7. e \in Matching(p, f)
  BY <1>4, ReplyKinds
<1>8. e.kind = "Join"
  <2>1. e.kind \in {"Join", "Leave", "Push", "Heartbeat"}
    BY <1>7 DEF Matching, ProtocolState, PendingRecord
  <2>2. ~IsStale(p, f) /\ f.event = "phx_reply" /\ Matching(p, f) # {}
    BY <1>4, ReplyKinds
  <2>3. CASE e.kind = "Leave"
    BY <1>4, <2>2, <2>3 DEF EventKind
  <2>4. CASE e.kind = "Push"
    BY <1>4, <2>2, <2>4 DEF EventKind
  <2>5. CASE e.kind = "Heartbeat"
    BY <1>4, <2>2, <2>5 DEF EventKind
  <2> QED BY <2>1, <2>3, <2>4, <2>5
<1> QED BY <1>4, <1>6, <1>7, <1>8

(* No call of the application makes a channel joined.                      *)
LEMMA CallsJoinNothing ==
  ASSUME TypeOK, Application, NEW t \in Topics, ChannelState(proto, t) # "Joined"
  PROVE  ChannelState(proto', t) # "Joined"
<1> USE DEF ChannelState
<1>1. ASSUME NEW p \in ProtocolState, NEW u \in Topics, NEW c, NEW kind
      PROVE  /\ Track(p, kind, u, c).channels[t] =
                  IF t = u THEN c ELSE p.channels[t]
             /\ Discard(p, u).channels[t] =
                  IF t = u THEN Absent ELSE p.channels[t]
  BY DEF Track, Discard, ProtocolState
<1>2. ASSUME NEW u \in Topics, CallJoin(u) \/ CallRejoin(u) \/ CallDiscard(u)
      PROVE  proto'.channels[t].state # "Joined"
  <2>1. ASSUME NEW p \in ProtocolState, p.channels[t].state # "Joined"
        PROVE  /\ Join(p, u).channels[t].state # "Joined"
               /\ Discard(p, u).channels[t].state # "Joined"
    BY <1>1, <2>1 DEF Join, Absent
  <2>2. Rejoin(proto, u).channels[t].state # "Joined"
    BY <2>1, DiscardType DEF Rejoin, TypeOK
  <2> QED BY <1>2, <2>1, <2>2 DEF CallJoin, CallRejoin, CallDiscard, TypeOK
<1>3. ASSUME NEW u \in Topics, CallLeave(u) \/ CallPush(u)
      PROVE  proto'.channels[t].state # "Joined"
  <2> DEFINE leaving == [proto.channels[u] EXCEPT !.state = "Leaving"]
  <2>1. leaving.state # "Joined"
    <3>1. "state" \in DOMAIN proto.channels[u]
      BY DEF TypeOK, ProtocolState, ChannelRecord, Absent
    <3> QED BY <3>1
  <2>2. Leave(proto, u).channels[t].state # "Joined"
    <3>1. Leave(proto, u) = Track(proto, "Leave", u, leaving)
      BY DEF Leave
    <3> HIDE DEF leaving
    <3> QED BY <1>1, <2>1, <3>1 DEF TypeOK
  <2>3. Push(proto, u).channels[t].state # "Joined"
    BY <1>1 DEF Push, TypeOK
  <2> QED BY <1>3, <2>2, <2>3 DEF CallLeave, CallPush
<1>4. ASSUME NEW u \in Topics, CallFails(u)
      PROVE  proto'.channels[t].state # "Joined"
  BY <1>4 DEF CallFails, FailedLeave, TypeOK, ProtocolState
<1>5. CASE CallHeartbeat \/ CallForget
  BY <1>5 DEF CallHeartbeat, Heartbeat, CallForget, Forget, TypeOK,
              ProtocolState
<1>6. CASE CallRejoinAll
  BY <1>6 DEF CallRejoinAll, RejoinEach
<1>7. CASE CallReset
  BY <1>7 DEF CallReset, ResetConnection, TypeOK, ProtocolState, ChannelRecord
<1> QED BY <1>2, <1>3, <1>4, <1>5, <1>6, <1>7 DEF Application

(* A channel becomes joined only by the answer to the join that made its   *)
(* present generation.                                                     *)
THEOREM JoinedByOwnJoin == Spec => JoinedByOwnGeneration
<1> DEFINE Own ==
      \A t \in Topics :
        ChannelState(proto, t) # "Joined" /\ ChannelState(proto', t) = "Joined"
          => /\ event'.kind = "Joined"
             /\ event'.ref = proto.channels[t].join_ref
<1>1. IInv /\ [Next]_vars => [Own]_vars
  <2> SUFFICES ASSUME IInv, Next, NEW t \in Topics,
                      ChannelState(proto, t) # "Joined",
                      ChannelState(proto', t) = "Joined"
               PROVE  /\ event'.kind = "Joined"
                      /\ event'.ref = proto.channels[t].join_ref
    OBVIOUS
  <2>1. Server
    BY CallsJoinNothing DEF Next, IInv
  <2>2. ASSUME NEW q \in unanswered, NEW status, Answer(q, status)
        PROVE  /\ event'.kind = "Joined"
               /\ event'.ref = proto.channels[t].join_ref
    <3> DEFINE f == Frame("phx_reply", q.topic, q.join_ref, q.ref, status)
    <3>1. /\ IsFrame(f) /\ proto' = Receive(proto, f)
          /\ event'.kind = EventKind(proto, f) /\ event'.ref = q.ref
          /\ f.topic = q.topic /\ f.join_ref = q.join_ref /\ f.ref = q.ref
      BY <2>2 DEF Answer, Received, IsFrame, Frame, IInv, TypeOK, RequestRecord
    <3> HIDE DEF f
    <3>2. /\ EventKind(proto, f) = "Joined" /\ ~IsStale(proto, f)
          /\ ChannelState(proto, t) # "Absent"
      BY <3>1, ReceiveJoins, ReplyKinds DEF IInv, TypeOK
    <3>3. PICK e \in Matching(proto, f) : e.kind = "Join" /\ e.topic = t
      BY <3>1, ReceiveJoins DEF IInv, TypeOK
    <3>4. q.kind = "Join" /\ q.topic = t /\ q.join_ref = q.ref /\ q.ref # 0
      BY <3>1, <3>3 DEF Matching, IInv, RequestsAgree
    <3> QED BY <3>1, <3>2, <3>4 DEF IsStale
  <2>3. ASSUME NEW g \in live, NEW kind \in {"phx_close", "phx_error"},
               Terminate(g, kind)
        PROVE  FALSE
    <3> DEFINE f == Frame(kind, g.topic, g.join_ref, 0, "none")
    <3>1. IsFrame(f) /\ f.event # "phx_reply" /\ proto' = Receive(proto, f)
      BY <2>3 DEF Terminate, Received, IsFrame, Frame, IInv, TypeOK, Generation
    <3> HIDE DEF f
    <3> QED BY <3>1, ReceiveJoins, ReplyKinds DEF IInv, TypeOK
  <2>4. ASSUME NEW g \in live, NEW join_ref \in {0, g.join_ref},
               Broadcast(g, join_ref)
        PROVE  FALSE
    <3> DEFINE f == Frame("message", g.topic, join_ref, 0, "none")
    <3>1. IsFrame(f) /\ f.event # "phx_reply" /\ proto' = Receive(proto, f)
      BY <2>4 DEF Broadcast, Received, IsFrame, Frame, IInv, TypeOK, Generation
    <3> HIDE DEF f
    <3> QED BY <3>1, ReceiveJoins, ReplyKinds DEF IInv, TypeOK
  <2> QED BY <2>1, <2>2, <2>3, <2>4 DEF Server
<1> QED BY <1>1, Inductive, PTL DEF Spec, JoinedByOwnGeneration

---------------------------------------------------------------------------
(***************************************************************************)
(* What the frames of the server do to the state, exactly.                 *)
(***************************************************************************)

(* The transition of one channel, if it is known, moves nothing else.      *)
LEMMA SetStateEffect ==
  ASSUME NEW p \in ProtocolState, NEW t,
         NEW state \in ActiveStates \cup InactiveStates
  PROVE  LET q == SetState(p, t, state)
         IN  /\ q.pending = p.pending /\ q.next_reference = p.next_reference
             /\ \A u \in Topics :
                  /\ q.channels[u].join_ref = p.channels[u].join_ref
                  /\ ChannelState(q, u) =
                       IF u = t /\ ChannelState(p, u) # "Absent"
                         THEN state ELSE ChannelState(p, u)
<1> DEFINE moved == [p.channels[t] EXCEPT !.state = state]
<1>1. CASE t \in Topics /\ ChannelState(p, t) # "Absent"
  <2>1. p.channels[t] \in
          [state : ActiveStates \cup InactiveStates, join_ref : Nat \ {0}]
    BY <1>1 DEF ProtocolState, ChannelRecord, ChannelState, Absent
  <2>2. moved.state = state /\ moved.join_ref = p.channels[t].join_ref
    BY <2>1
  <2>3. SetState(p, t, state) = [p EXCEPT !.channels = [@ EXCEPT ![t] = moved]]
    BY <1>1 DEF SetState, ProtocolState
  <2> HIDE DEF moved
  <2> QED BY <1>1, <2>2, <2>3 DEF ChannelState, ProtocolState
<1>2. CASE ~(t \in Topics /\ ChannelState(p, t) # "Absent")
  BY <1>2 DEF SetState
<1> QED BY <1>1, <1>2

(* The reply to request q is stale.                                        *)
Outdated(q) ==
  /\ q.topic \in Topics
  /\ ChannelState(proto, q.topic) # "Absent"
  /\ q.join_ref # 0
  /\ q.join_ref # proto.channels[q.topic].join_ref

(* The state without a pending entry.                                      *)
Without(e) == [proto EXCEPT !.pending = @ \ {e}]

(* What the answer to a request does: nothing when it is stale or no entry *)
(* waits for it; otherwise it takes the one entry of its reference, which  *)
(* is of the kind and the topic of the request.                            *)
LEMMA AnswerEffect ==
  ASSUME TypeOK, Fresh(proto), RequestsAgree, NEW q \in unanswered,
         NEW status \in {"ok", "error", "invalid"}, Answer(q, status)
  PROVE  \/ /\ proto' = proto
            /\ Outdated(q) \/ \A e \in proto.pending : e.ref # q.ref
         \/ \E e \in proto.pending :
              /\ e.ref = q.ref /\ e.kind = q.kind /\ e.topic = q.topic
              /\ ~Outdated(q)
              /\ \/ /\ q.kind = "Join"
                    /\ \E state \in {"Joined", "Errored"} :
                         proto' = SetState(Without(e), q.topic, state)
                 \/ /\ q.kind = "Leave"
                    /\ proto' = [Without(e) EXCEPT !.channels[q.topic] = Absent]
                 \/ /\ q.kind \in {"Push", "Heartbeat"} \/ faulty'
                    /\ proto' = Without(e)
<1> DEFINE f == Frame("phx_reply", q.topic, q.join_ref, q.ref, status)
           e == CHOOSE e \in Matching(proto, f) : TRUE
<1>1. /\ IsFrame(f) /\ f.event = "phx_reply" /\ f.topic = q.topic
      /\ f.join_ref = q.join_ref /\ f.ref = q.ref /\ f.status = status
      /\ proto' = Receive(proto, f)
      /\ faulty' = (faulty \/ EventKind(proto, f) = "InvalidReply")
  BY DEF IsFrame, Frame, TypeOK, RequestRecord, Answer, Received
<1> HIDE DEF f
<1>2. IsStale(proto, f) <=> Outdated(q)
  BY <1>1 DEF IsStale, Outdated
<1>3. CASE Outdated(q)
  BY <1>1, <1>2, <1>3 DEF EventKind, Receive
<1>4. CASE ~Outdated(q) /\ Matching(proto, f) = {}
  <2>1. EventKind(proto, f) = "UnmatchedReply"
    BY <1>1, <1>2, <1>4 DEF EventKind
  <2> QED BY <1>1, <1>4, <2>1 DEF Receive, Matching
<1>5. CASE ~Outdated(q) /\ Matching(proto, f) # {}
  <2>1. /\ e \in proto.pending /\ e.ref = q.ref
        /\ e.kind = q.kind /\ e.topic = q.topic
        /\ e.kind \in {"Join", "Leave", "Push", "Heartbeat"}
    BY <1>1, <1>5, MatchedEntry
       DEF RequestsAgree, TypeOK, ProtocolState, PendingRecord
  <2>2. Matching(proto, f) = {e}
    BY <1>1, <1>5, <2>1 DEF Matching, Fresh
  <2>3. Take(proto, f) = Without(e)
    BY <2>2 DEF Take, Without
  <2>4. CASE status = "invalid"
    <3>1. EventKind(proto, f) = "InvalidReply"
      BY <1>1, <1>2, <1>5, <2>4 DEF EventKind
    <3>2. faulty' /\ proto' = Without(e)
      BY <1>1, <2>3, <3>1 DEF Receive, TypeOK
    <3> QED BY <1>5, <2>1, <3>2
  <2>5. CASE status # "invalid" /\ q.kind = "Join"
    <3>1. EventKind(proto, f) = IF status = "ok" THEN "Joined" ELSE "JoinError"
      BY <1>1, <1>2, <1>5, <2>1, <2>5 DEF EventKind
    <3>2. \E state \in {"Joined", "Errored"} :
            proto' = SetState(Without(e), q.topic, state)
      BY <1>1, <2>1, <2>3, <3>1 DEF Receive
    <3> QED BY <1>5, <2>1, <2>5, <3>2
  <2>6. CASE status # "invalid" /\ q.kind = "Leave"
    <3>1. EventKind(proto, f) = "Left"
      BY <1>1, <1>2, <1>5, <2>1, <2>6 DEF EventKind
    <3>2. proto' = [Without(e) EXCEPT !.channels[q.topic] = Absent]
      BY <1>1, <2>1, <2>3, <3>1 DEF Receive, RemoveLeft
    <3> QED BY <1>5, <2>1, <2>6, <3>2
  <2>7. CASE status # "invalid" /\ q.kind \in {"Push", "Heartbeat"}
    <3>1. EventKind(proto, f) \in {"Reply", "HeartbeatAck"}
      BY <1>1, <1>2, <1>5, <2>1, <2>7 DEF EventKind
    <3>2. proto' = Without(e)
      BY <1>1, <2>3, <3>1 DEF Receive
    <3> QED BY <1>5, <2>1, <2>7, <3>2
  <2> QED BY <2>1, <2>4, <2>5, <2>6, <2>7
<1> QED BY <1>3, <1>4, <1>5

(* What the end of a channel process does: it takes the channel of its own *)
(* generation down and leaves the one of any other alone.                  *)
LEMMA TerminateEffect ==
  ASSUME TypeOK, NEW g \in live, NEW kind \in {"phx_close", "phx_error"},
         Terminate(g, kind)
  PROVE  \/ Outdated(g) /\ proto' = proto
         \/ ~Outdated(g) /\ \E state \in {"Closed", "Errored"} :
                              proto' = SetState(proto, g.topic, state)
<1> DEFINE f == Frame(kind, g.topic, g.join_ref, 0, "none")
<1>1. /\ f.event = kind /\ f.topic = g.topic /\ f.join_ref = g.join_ref
      /\ proto' = Receive(proto, f)
  BY DEF Frame, Terminate, Received
<1> HIDE DEF f
<1>2. IsStale(proto, f) <=> Outdated(g)
  BY <1>1 DEF IsStale, Outdated
<1>3. CASE Outdated(g)
  BY <1>1, <1>2, <1>3 DEF EventKind, Receive
<1>4. CASE ~Outdated(g)
  <2>1. EventKind(proto, f) = IF kind = "phx_close" THEN "ChannelClosed"
                                                    ELSE "ChannelError"
    BY <1>1, <1>2, <1>4 DEF EventKind
  <2> QED BY <1>1, <1>4, <2>1 DEF Receive
<1> QED BY <1>3, <1>4

(* A message changes nothing.                                              *)
LEMMA BroadcastEffect ==
  ASSUME TypeOK, NEW g, NEW join_ref, Broadcast(g, join_ref)
  PROVE  proto' = proto
<1> DEFINE f == Frame("message", g.topic, join_ref, 0, "none")
<1>1. f.event = "message" /\ proto' = Receive(proto, f)
  BY DEF Frame, Broadcast, Received
<1> HIDE DEF f
<1>2. EventKind(proto, f) \in {"StaleMessage", "Message"}
  BY <1>1 DEF EventKind
<1> QED BY <1>1, <1>2 DEF Receive

---------------------------------------------------------------------------
(***************************************************************************)
(* What is owed.  Neither WaitingHasRequest nor PendingIsOwed is kept by   *)
(* the answers: both need that an answer is for the present generation     *)
(* exactly when its request is as young as that generation, and that the   *)
(* join of the present generation is owed only while the channel is        *)
(* Joining, since its answer makes the channel Joined from any state.      *)
(***************************************************************************)
RequestsOfGeneration ==
  \A q \in unanswered, t \in Topics :
    /\ q.topic = t
    /\ ChannelState(proto, t) # "Absent"
    /\ q.ref >= proto.channels[t].join_ref
    => q.join_ref = proto.channels[t].join_ref

JoinStillOpen ==
  \A q \in unanswered, t \in Topics :
    /\ q.topic = t /\ q.kind = "Join"
    /\ q.join_ref = proto.channels[t].join_ref
    => ChannelState(proto, t) = "Joining"

Owed == /\ RequestsOfGeneration
        /\ JoinStillOpen
        /\ PendingIsOwed
        /\ WaitingHasRequest

(* The numbers of IInv, as the steps below use them.                       *)
LEMMA NumberFacts ==
  ASSUME IInv
  PROVE  /\ proto.next_reference \in Nat /\ NextRef(proto) \in Nat
         /\ NextRef(proto) > proto.next_reference
         /\ \A e \in proto.pending :
              e.ref \in Nat /\ e.ref <= proto.next_reference
         /\ \A q \in unanswered :
              /\ q.ref \in Nat /\ q.join_ref \in Nat
              /\ q.ref # 0 /\ q.ref <= proto.next_reference
              /\ q.kind = "Join" => q.join_ref = q.ref
         /\ \A t \in Topics :
              /\ proto.channels[t] \in ChannelRecord
              /\ proto.channels[t].join_ref \in Nat
              /\ proto.channels[t].join_ref <= proto.next_reference
BY RecordFacts DEF IInv, TypeOK, ProtocolState, PendingRecord, RequestRecord,
                   NextRef, RequestsAgree, Fresh

(* A call that sends one request of topic t owes its answer.               *)
LEMMA SendingOwes ==
  ASSUME IInv, Owed, NEW t \in Topics, NEW kind, faulty' = faulty,
         Sent(kind, t, proto'.channels[t].join_ref),
         \A u \in Topics \ {t} : proto'.channels[u] = proto.channels[u],
         Pending(kind, t, NextRef(proto)) \in proto'.pending,
         proto'.pending \subseteq
           proto.pending \cup {Pending(kind, t, NextRef(proto))},
         \A e \in proto.pending : e.topic # t => e \in proto'.pending,
         \/ /\ kind = "Join" /\ ChannelState(proto', t) = "Joining"
            /\ proto'.channels[t].join_ref = NextRef(proto)
         \/ /\ kind \in {"Leave", "Push"}
            /\ ChannelState(proto, t) = "Joined"
            /\ ChannelState(proto', t) =
                 IF kind = "Leave" THEN "Leaving" ELSE "Joined"
            /\ proto'.channels[t].join_ref = proto.channels[t].join_ref
  PROVE  Owed'
<1> DEFINE new == [kind |-> kind, topic |-> t, ref |-> NextRef(proto),
                   join_ref |-> proto'.channels[t].join_ref]
           entry == Pending(kind, t, NextRef(proto))
<1>1. /\ unanswered' = unanswered \cup {new}
      /\ new.kind = kind /\ new.topic = t /\ new.ref = NextRef(proto)
      /\ new.join_ref = proto'.channels[t].join_ref
      /\ entry.kind = kind /\ entry.topic = t /\ entry.ref = NextRef(proto)
      /\ entry \in proto'.pending
      /\ proto'.pending \subseteq proto.pending \cup {entry}
  BY DEF Sent, Pending
<1> HIDE DEF new, entry
<1>2. \A u \in Topics \ {t} : ChannelState(proto', u) = ChannelState(proto, u)
  BY DEF ChannelState
<1>3. RequestsOfGeneration'
  <2> SUFFICES ASSUME NEW q \in unanswered',
                      ChannelState(proto', q.topic) # "Absent",
                      q.topic \in Topics,
                      q.ref >= proto'.channels[q.topic].join_ref
               PROVE  q.join_ref = proto'.channels[q.topic].join_ref
    BY DEF RequestsOfGeneration
  <2>1. CASE q = new
    BY <1>1, <2>1
  <2>2. CASE q \in unanswered /\ q.topic # t
    BY <1>2, <2>2 DEF Owed, RequestsOfGeneration
  <2>3. CASE q \in unanswered /\ q.topic = t
    BY <2>3, NumberFacts DEF Owed, RequestsOfGeneration
  <2> QED BY <1>1, <2>1, <2>2, <2>3
<1>4. JoinStillOpen'
  <2> SUFFICES ASSUME NEW q \in unanswered', q.kind = "Join",
                      q.topic \in Topics,
                      q.join_ref = proto'.channels[q.topic].join_ref
               PROVE  ChannelState(proto', q.topic) = "Joining"
    BY DEF JoinStillOpen
  <2>1. CASE q = new
    BY <1>1, <2>1
  <2>2. CASE q \in unanswered /\ q.topic # t
    BY <1>2, <2>2 DEF Owed, JoinStillOpen
  <2>3. CASE q \in unanswered /\ q.topic = t
    BY <2>3, NumberFacts DEF Owed, JoinStillOpen
  <2> QED BY <1>1, <2>1, <2>2, <2>3
<1>5. PendingIsOwed'
  <2> SUFFICES ASSUME NEW e \in proto'.pending, e.topic \in Topics,
                      e.ref >= proto'.channels[e.topic].join_ref,
                      ChannelState(proto', e.topic) \in ActiveStates
               PROVE  \E q \in unanswered' : /\ q.ref = e.ref
                                             /\ q.kind = e.kind
                                             /\ q.topic = e.topic
    BY DEF PendingIsOwed
  <2>1. CASE e = entry
    BY <1>1, <2>1
  <2>2. CASE e \in proto.pending /\ e.topic # t
    BY <1>1, <1>2, <2>2 DEF Owed, PendingIsOwed
  <2>3. CASE e \in proto.pending /\ e.topic = t
    <3>1. /\ ChannelState(proto, t) \in ActiveStates
          /\ proto'.channels[t].join_ref = proto.channels[t].join_ref
      BY <2>3, NumberFacts DEF ActiveStates
    <3> QED BY <1>1, <2>3, <3>1 DEF Owed, PendingIsOwed
  <2> QED BY <1>1, <2>1, <2>2, <2>3
<1>6. WaitingHasRequest'
  <2> SUFFICES ASSUME ~faulty, NEW u \in Topics
               PROVE  /\ ChannelState(proto', u) = "Joining" =>
                           Pending("Join", u, proto'.channels[u].join_ref)
                             \in proto'.pending
                      /\ ChannelState(proto', u) = "Leaving" =>
                           \E e \in proto'.pending :
                             /\ e.kind = "Leave" /\ e.topic = u
                             /\ e.ref > proto'.channels[u].join_ref
    BY DEF WaitingHasRequest
  <2>1. CASE u # t
    BY <1>2, <2>1 DEF Owed, WaitingHasRequest, Pending
  <2>2. CASE u = t
    BY <1>1, <2>2, NumberFacts DEF entry
  <2> QED BY <2>1, <2>2
<1> QED BY <1>3, <1>4, <1>5, <1>6 DEF Owed

(* Each call that sends a request of a channel.                            *)
LEMMA RequestOwes ==
  ASSUME IInv, Owed, NEW t \in Topics,
         CallJoin(t) \/ CallRejoin(t) \/ CallLeave(t) \/ CallPush(t)
  PROVE  Owed'
<1>1. proto \in ProtocolState /\ proto.channels[t] \in ChannelRecord
  BY DEF IInv, TypeOK, ProtocolState
<1> DEFINE joining == [state |-> "Joining", join_ref |-> NextRef(proto)]
           leaving == [proto.channels[t] EXCEPT !.state = "Leaving"]
<1>2. ASSUME NEW p \in ProtocolState, NEW kind, NEW c,
             NextRef(p) = NextRef(proto), proto' = Track(p, kind, t, c),
             \A u \in Topics \ {t} : p.channels[u] = proto.channels[u],
             p.pending \subseteq proto.pending,
             \A e \in proto.pending : e.topic # t => e \in p.pending
      PROVE  /\ proto'.channels[t] = c
             /\ \A u \in Topics \ {t} : proto'.channels[u] = proto.channels[u]
             /\ Pending(kind, t, NextRef(proto)) \in proto'.pending
             /\ proto'.pending \subseteq
                  proto.pending \cup {Pending(kind, t, NextRef(proto))}
             /\ \A e \in proto.pending : e.topic # t => e \in proto'.pending
  BY <1>2 DEF Track, ProtocolState
<1>3. CASE CallJoin(t) \/ CallRejoin(t)
  <2>1. \A p \in {proto, Discard(proto, t)} :
          /\ NextRef(p) = NextRef(proto)
          /\ \A u \in Topics \ {t} : p.channels[u] = proto.channels[u]
          /\ p.pending \subseteq proto.pending
          /\ \A e \in proto.pending : e.topic # t => e \in p.pending
    BY <1>1 DEF Discard, NextRef, ProtocolState
  <2>2. \E p \in {proto, Discard(proto, t)} :
          p \in ProtocolState /\ proto' = Track(p, "Join", t, joining)
    BY <1>1, <1>3, <2>1, DiscardType DEF CallJoin, CallRejoin, Rejoin, Join
  <2>3. joining.state = "Joining" /\ joining.join_ref = NextRef(proto)
    OBVIOUS
  <2> HIDE DEF joining
  <2> QED BY <1>2, <1>3, <2>1, <2>2, <2>3, SendingOwes
          DEF CallJoin, CallRejoin, ChannelState
<1>4. CASE CallLeave(t)
  <2>1. /\ leaving.state = "Leaving"
        /\ leaving.join_ref = proto.channels[t].join_ref
        /\ proto' = Track(proto, "Leave", t, leaving)
    BY <1>1, <1>4 DEF CallLeave, Leave, CanLeave, ChannelState, ChannelRecord,
                      Absent
  <2> HIDE DEF leaving
  <2> QED BY <1>1, <1>2, <1>4, <2>1, SendingOwes
          DEF CallLeave, CanLeave, ChannelState
<1>5. CASE CallPush(t)
  <2>1. proto' = Track(proto, "Push", t, proto.channels[t])
    BY <1>5 DEF CallPush, Push
  <2> QED BY <1>1, <1>2, <1>5, <2>1, SendingOwes
          DEF CallPush, CanPush, ChannelState
<1> QED BY <1>3, <1>4, <1>5

(* rejoin_all_with_stored_params owes an answer to each of its joins, and  *)
(* the joins of earlier generations are behind.                            *)
LEMMA RejoinAllOwes ==
  ASSUME IInv, Owed, CallRejoinAll
  PROVE  Owed'
<1> DEFINE again == {t \in Topics : ChannelState(proto, t) \in InactiveStates}
<1>1. PICK last \in NextRef(proto) .. MaxReference :
        \E ref \in [again -> NextRef(proto) .. last] :
          RejoinEach(again, ref, last)
  BY DEF CallRejoinAll
<1>2. PICK ref \in [again -> NextRef(proto) .. last] :
        RejoinEach(again, ref, last)
  BY <1>1
<1> DEFINE join(t) == [kind |-> "Join", topic |-> t, ref |-> ref[t],
                       join_ref |-> ref[t]]
           entry(t) == Pending("Join", t, ref[t])
<1>3. \A t \in again : /\ ref[t] \in Nat /\ ref[t] > proto.next_reference
                       /\ t \in Topics
  <2>1. \A t \in again : ref[t] \in NextRef(proto) .. last /\ t \in Topics
    OBVIOUS
  <2> HIDE DEF again
  <2>2. NextRef(proto) \in Nat /\ NextRef(proto) > proto.next_reference
        /\ proto.next_reference \in Nat
    BY NumberFacts
  <2> QED BY <2>1, <2>2
<1>4. /\ \A t \in Topics \ again : proto'.channels[t] = proto.channels[t]
      /\ \A t \in again : /\ proto'.channels[t].join_ref = ref[t]
                          /\ ChannelState(proto', t) = "Joining"
      /\ proto'.pending = {e \in proto.pending : e.topic \notin again}
                            \cup {entry(t) : t \in again}
      /\ unanswered' = unanswered \cup {join(t) : t \in again}
      /\ faulty' = faulty
  BY <1>2 DEF RejoinEach, CallRejoinAll, ChannelState
<1>5. \A t : /\ join(t).kind = "Join" /\ join(t).topic = t
             /\ join(t).ref = ref[t] /\ join(t).join_ref = ref[t]
             /\ entry(t).kind = "Join" /\ entry(t).topic = t
             /\ entry(t).ref = ref[t]
  BY DEF Pending
<1>6. \A t \in Topics \ again : ChannelState(proto', t) = ChannelState(proto, t)
  BY <1>4 DEF ChannelState
<1> HIDE DEF join, entry, again
<1>7. RequestsOfGeneration'
  <2> SUFFICES ASSUME NEW q \in unanswered', q.topic \in Topics,
                      ChannelState(proto', q.topic) # "Absent",
                      q.ref >= proto'.channels[q.topic].join_ref
               PROVE  q.join_ref = proto'.channels[q.topic].join_ref
    BY DEF RequestsOfGeneration
  <2>1. CASE q \in unanswered /\ q.topic \in again
    BY <1>3, <1>4, <2>1, NumberFacts
  <2>2. CASE q \in unanswered /\ q.topic \notin again
    BY <1>4, <1>6, <2>2 DEF Owed, RequestsOfGeneration
  <2>3. CASE q \notin unanswered
    BY <1>4, <1>5, <2>3
  <2> QED BY <2>1, <2>2, <2>3
<1>8. JoinStillOpen'
  <2> SUFFICES ASSUME NEW q \in unanswered', q.kind = "Join",
                      q.topic \in Topics \ again,
                      q.join_ref = proto'.channels[q.topic].join_ref
               PROVE  ChannelState(proto', q.topic) = "Joining"
    BY <1>4 DEF JoinStillOpen
  <2>1. q \in unanswered
    BY <1>4, <1>5
  <2> QED BY <1>4, <1>6, <2>1 DEF Owed, JoinStillOpen
<1>9. PendingIsOwed'
  <2> SUFFICES ASSUME NEW e \in proto'.pending, e.topic \in Topics,
                      e.ref >= proto'.channels[e.topic].join_ref,
                      ChannelState(proto', e.topic) \in ActiveStates
               PROVE  \E q \in unanswered' : /\ q.ref = e.ref
                                             /\ q.kind = e.kind
                                             /\ q.topic = e.topic
    BY DEF PendingIsOwed
  <2>1. CASE e.topic \in again
    BY <1>4, <1>5, <2>1
  <2>2. CASE e.topic \notin again
    BY <1>4, <1>5, <1>6, <2>2 DEF Owed, PendingIsOwed
  <2> QED BY <2>1, <2>2
<1>10. WaitingHasRequest'
  <2> SUFFICES ASSUME ~faulty, NEW t \in Topics
               PROVE  /\ ChannelState(proto', t) = "Joining" =>
                           Pending("Join", t, proto'.channels[t].join_ref)
                             \in proto'.pending
                      /\ ChannelState(proto', t) = "Leaving" =>
                           \E e \in proto'.pending :
                             /\ e.kind = "Leave" /\ e.topic = t
                             /\ e.ref > proto'.channels[t].join_ref
    BY <1>4 DEF WaitingHasRequest
  <2>1. CASE t \in again
    BY <1>4, <2>1 DEF entry
  <2>2. CASE t \notin again
    BY <1>4, <1>6, <2>2 DEF Owed, WaitingHasRequest, Pending
  <2> QED BY <2>1, <2>2
<1> QED BY <1>7, <1>8, <1>9, <1>10 DEF Owed

(* What a step that sends nothing may do to a topic: forget it, leave it    *)
(* where it is, take it down, or confirm its join; the join is not owed    *)
(* any more afterwards.                                                    *)
Settled(t) ==
  \A q \in unanswered' :
    q.kind = "Join" /\ q.topic = t => q.join_ref # proto.channels[t].join_ref

Quiet(t) ==
  \/ proto'.channels[t] = Absent
  \/ /\ proto'.channels[t].join_ref = proto.channels[t].join_ref
     /\ \/ ChannelState(proto', t) = ChannelState(proto, t)
        \/ /\ ChannelState(proto, t) # "Absent"
           /\ ChannelState(proto', t) \in InactiveStates
           /\ Settled(t)
        \/ /\ ChannelState(proto, t) = "Joining"
           /\ ChannelState(proto', t) = "Joined"
           /\ Settled(t)

(* Such a step keeps what is owed when no request it answers is still      *)
(* pending for an active generation, and no join or leave that a topic     *)
(* goes on waiting for is forgotten.                                       *)
LEMMA QuietOwes ==
  ASSUME IInv, Owed, \A t \in Topics : Quiet(t),
         unanswered' \subseteq unanswered,
         proto'.pending \subseteq proto.pending,
         \A q \in unanswered \ unanswered', e \in proto'.pending :
           e.ref = q.ref /\ e.topic \in Topics =>
             \/ ChannelState(proto', e.topic) \notin ActiveStates
             \/ e.ref < proto'.channels[e.topic].join_ref,
         ~faulty' => \A t \in Topics :
           /\ ChannelState(proto, t) \in {"Joining", "Leaving"}
           /\ ChannelState(proto', t) = ChannelState(proto, t)
           => /\ ~faulty
              /\ \A e \in proto.pending :
                   e.topic = t /\ e.kind \in {"Join", "Leave"}
                     => e \in proto'.pending
  PROVE  Owed'
<1>1. /\ Absent.state = "Absent" /\ Absent.join_ref = 0
      /\ "Absent" \notin ActiveStates
      /\ \A state \in InactiveStates : state \notin ActiveStates \cup {"Absent"}
      /\ {"Joining", "Joined", "Leaving"} = ActiveStates
  BY DEF Absent, ActiveStates, InactiveStates
<1>2. \A t \in Topics : proto'.channels[t] = Absent =>
        ChannelState(proto', t) = "Absent" /\ proto'.channels[t].join_ref = 0
  BY <1>1 DEF ChannelState
<1>3. RequestsOfGeneration'
  BY <1>1, <1>2 DEF Owed, RequestsOfGeneration, Quiet
<1>4. JoinStillOpen'
  <2> SUFFICES ASSUME NEW q \in unanswered', NEW t \in Topics,
                      q.topic = t, q.kind = "Join",
                      q.join_ref = proto'.channels[t].join_ref
               PROVE  ChannelState(proto', t) = "Joining"
    BY DEF JoinStillOpen
  <2>1. proto'.channels[t] # Absent
    BY <1>2, NumberFacts
  <2> QED BY <2>1 DEF Owed, JoinStillOpen, Quiet, Settled
<1>5. PendingIsOwed'
  <2> SUFFICES ASSUME NEW e \in proto'.pending, NEW t \in Topics,
                      e.topic = t, e.ref >= proto'.channels[t].join_ref,
                      ChannelState(proto', t) \in ActiveStates
               PROVE  \E q \in unanswered' : /\ q.ref = e.ref
                                             /\ q.kind = e.kind
                                             /\ q.topic = t
    BY DEF PendingIsOwed
  <2>1. /\ ChannelState(proto, t) \in ActiveStates
        /\ proto'.channels[t].join_ref = proto.channels[t].join_ref
    BY <1>1, <1>2 DEF Quiet
  <2>2. PICK q \in unanswered : q.ref = e.ref /\ q.kind = e.kind /\ q.topic = t
    BY <2>1 DEF Owed, PendingIsOwed
  <2>3. ~(e.ref < proto'.channels[t].join_ref)
    BY <2>1, NumberFacts
  <2> QED BY <2>2, <2>3
<1>6. WaitingHasRequest'
  <2> SUFFICES ASSUME ~faulty', NEW t \in Topics,
                      ChannelState(proto', t) \in {"Joining", "Leaving"}
               PROVE  /\ ChannelState(proto', t) = "Joining" =>
                           Pending("Join", t, proto'.channels[t].join_ref)
                             \in proto'.pending
                      /\ ChannelState(proto', t) = "Leaving" =>
                           \E e \in proto'.pending :
                             /\ e.kind = "Leave" /\ e.topic = t
                             /\ e.ref > proto'.channels[t].join_ref
    BY DEF WaitingHasRequest
  <2>1. /\ ChannelState(proto', t) = ChannelState(proto, t)
        /\ proto'.channels[t].join_ref = proto.channels[t].join_ref
    BY <1>1, <1>2 DEF Quiet
  <2> QED BY <2>1 DEF Owed, WaitingHasRequest, Pending
<1> QED BY <1>3, <1>4, <1>5, <1>6 DEF Owed

(* A heartbeat is owed too, but for no channel.                            *)
LEMMA HeartbeatOwes ==
  ASSUME IInv, Owed, CallHeartbeat
  PROVE  Owed'
<1> DEFINE entry == Pending("Heartbeat", PhoenixTopic, NextRef(proto))
<1>1. /\ proto'.channels = proto.channels /\ faulty' = faulty
      /\ proto'.pending = proto.pending \cup {entry}
      /\ entry.topic \notin Topics
      /\ unanswered \subseteq unanswered'
      /\ \A q \in unanswered' : q \in unanswered \/ q.topic \notin Topics
  BY TopicsAssumption
     DEF CallHeartbeat, Heartbeat, Sent, Pending, IInv, TypeOK, ProtocolState
<1> HIDE DEF entry
<1> QED BY <1>1 DEF Owed, RequestsOfGeneration, JoinStillOpen, PendingIsOwed,
                    WaitingHasRequest, ChannelState

(* The calls that send nothing.                                            *)
LEMMA CallOwes ==
  ASSUME IInv, Owed,
         \/ CallForget \/ CallReset
         \/ \E t \in Topics : CallFails(t) \/ CallDiscard(t)
  PROVE  Owed'
<1>1. proto \in ProtocolState
  BY DEF IInv, TypeOK
<1>2. ASSUME NEW t \in Topics, CallFails(t)
      PROVE  Owed'
  <2>1. /\ proto'.channels = proto.channels /\ proto'.pending = proto.pending
        /\ unanswered' = unanswered /\ faulty' = faulty
    BY <1>1, <1>2 DEF CallFails, FailedLeave, ProtocolState
  <2> QED BY <2>1 DEF Owed, RequestsOfGeneration, JoinStillOpen,
                      PendingIsOwed, WaitingHasRequest, ChannelState
<1>3. CASE CallForget
  <2>1. /\ proto'.channels = proto.channels /\ unanswered' = unanswered
        /\ proto'.pending \subseteq proto.pending /\ faulty' = faulty
        /\ \A e \in proto.pending :
             e.kind \in {"Join", "Leave"} => e \in proto'.pending
    BY <1>1, <1>3 DEF CallForget, Forget, ProtocolState
  <2>2. \A t \in Topics : Quiet(t)
    BY <2>1 DEF Quiet, ChannelState
  <2>3. ~faulty' => \A t \in Topics :
          ChannelState(proto, t) \in {"Joining", "Leaving"} => ~faulty
    BY <2>1
  <2> QED BY <2>1, <2>2, <2>3, QuietOwes
<1>4. ASSUME NEW t \in Topics, CallDiscard(t)
      PROVE  Owed'
  <2>1. /\ proto'.channels[t] = Absent
        /\ \A u \in Topics \ {t} : proto'.channels[u] = proto.channels[u]
        /\ proto'.pending = {e \in proto.pending : e.topic # t}
        /\ unanswered' = unanswered /\ faulty' = faulty
    BY <1>1, <1>4 DEF CallDiscard, Discard, ProtocolState
  <2>2. \A u \in Topics : Quiet(u)
    BY <2>1 DEF Quiet, ChannelState
  <2>3. ~(ChannelState(proto', t) \in {"Joining", "Leaving"})
    BY <2>1 DEF ChannelState, Absent
  <2> QED BY <2>1, <2>2, <2>3, QuietOwes
<1>5. CASE CallReset
  <2>1. /\ proto'.channels =
             [t \in Topics |->
               IF proto.channels[t].state = "Absent"
                 THEN proto.channels[t]
                 ELSE [proto.channels[t] EXCEPT !.state = "Disconnected"]]
        /\ proto'.pending = {} /\ unanswered' = {}
    BY <1>1, <1>5 DEF CallReset, ResetConnection, ProtocolState
  <2>2. ASSUME NEW t \in Topics
        PROVE  /\ Quiet(t)
               /\ ChannelState(proto', t) \notin {"Joining", "Leaving"}
    <3>1. CASE proto.channels[t].state = "Absent"
      BY <2>1, <3>1 DEF Quiet, ChannelState
    <3>2. CASE proto.channels[t].state # "Absent"
      <4>1. proto.channels[t] \in
              [state : ActiveStates \cup InactiveStates, join_ref : Nat \ {0}]
        BY <1>1, <3>2 DEF ProtocolState, ChannelRecord, Absent
      <4>2. /\ proto'.channels[t].join_ref = proto.channels[t].join_ref
            /\ proto'.channels[t].state = "Disconnected"
        BY <2>1, <3>2, <4>1
      <4> QED BY <2>1, <3>2, <4>2
              DEF Quiet, Settled, ChannelState, InactiveStates
    <3> QED BY <3>1, <3>2
  <2> QED BY <2>1, <2>2, QuietOwes
<1> QED BY <1>2, <1>3, <1>4, <1>5

(* The server speaks for generations that have a number.                   *)
LiveIsNumbered == \A g \in live : g.join_ref # 0

(* An answer leaves nothing pending that it should have resolved: a stale  *)
(* one is to a request older than the present generation.                  *)
LEMMA AnswerOwes ==
  ASSUME IInv, Owed, NEW q \in unanswered,
         NEW status \in {"ok", "error", "invalid"}, Answer(q, status)
  PROVE  Owed'
<1>1. /\ proto \in ProtocolState /\ unanswered' = unanswered \ {q}
      /\ ~faulty' => ~faulty
      /\ TypeOK /\ Fresh(proto) /\ RequestsAgree
  BY DEF IInv, TypeOK, Answer, Received
<1>2. CASE proto' = proto /\ (Outdated(q) \/ \A e \in proto.pending : e.ref # q.ref)
  <2>1. ASSUME NEW e \in proto'.pending, e.ref = q.ref, e.topic \in Topics
        PROVE  \/ ChannelState(proto', e.topic) \notin ActiveStates
               \/ e.ref < proto'.channels[e.topic].join_ref
    <3>1. Outdated(q) /\ e.topic = q.topic
      BY <1>1, <1>2, <2>1 DEF RequestsAgree
    <3>2. ~(q.ref >= proto.channels[q.topic].join_ref)
      BY <2>1, <3>1 DEF Owed, RequestsOfGeneration, Outdated
    <3> QED BY <1>2, <2>1, <3>1, <3>2, NumberFacts
  <2>2. \A t \in Topics : Quiet(t)
    BY <1>2 DEF Quiet
  <2> QED BY <1>1, <1>2, <2>1, <2>2, QuietOwes
<1>3. ASSUME NEW e \in proto.pending,
             e.ref = q.ref, e.kind = q.kind, e.topic = q.topic, ~Outdated(q),
             \/ /\ q.kind = "Join"
                /\ \E state \in {"Joined", "Errored"} :
                     proto' = SetState(Without(e), q.topic, state)
             \/ /\ q.kind = "Leave"
                /\ proto' = [Without(e) EXCEPT !.channels[q.topic] = Absent]
             \/ /\ q.kind \in {"Push", "Heartbeat"} \/ faulty'
                /\ proto' = Without(e)
      PROVE  Owed'
  <2>1. /\ Without(e) \in ProtocolState
        /\ Without(e).channels = proto.channels
        /\ Without(e).pending = proto.pending \ {e}
    BY <1>1 DEF Without, ProtocolState
  <2>2. \A g \in proto.pending \ {e} : g.ref # q.ref
    BY <1>1, <1>3 DEF Fresh
  <2>3. CASE q.kind = "Join" /\ \E state \in {"Joined", "Errored"} :
               proto' = SetState(Without(e), q.topic, state)
    <3>1. PICK state \in {"Joined", "Errored"} :
            proto' = SetState(Without(e), q.topic, state)
      BY <2>3
    <3>2. state \in ActiveStates \cup InactiveStates
      BY DEF ActiveStates, InactiveStates
    <3>3. /\ proto'.pending = proto.pending \ {e}
          /\ \A t \in Topics :
               /\ proto'.channels[t].join_ref = proto.channels[t].join_ref
               /\ ChannelState(proto', t) =
                    IF t = q.topic /\ ChannelState(proto, t) # "Absent"
                      THEN state ELSE ChannelState(proto, t)
      BY <2>1, <3>1, <3>2, SetStateEffect DEF ChannelState
    <3>4. ASSUME q.topic \in Topics, ChannelState(proto, q.topic) # "Absent"
          PROVE  /\ ChannelState(proto, q.topic) = "Joining"
                 /\ Settled(q.topic)
      <4>1. q.join_ref = proto.channels[q.topic].join_ref /\ q.join_ref = q.ref
        BY <1>3, <2>3, <3>4, NumberFacts DEF Outdated
      <4>2. ASSUME NEW r \in unanswered', r.kind = "Join",
                   r.topic = q.topic, r.join_ref = q.join_ref
            PROVE  FALSE
        <5>1. r \in RequestRecord /\ q \in RequestRecord /\ r # q
          BY <1>1, <4>2 DEF TypeOK
        <5>2. r.ref = q.ref
          BY <1>1, <4>1, <4>2, NumberFacts
        <5> QED BY <2>3, <4>2, <5>1, <5>2 DEF RequestRecord
      <4> QED BY <2>3, <3>4, <4>1, <4>2 DEF Owed, JoinStillOpen, Settled
    <3>5. \A t \in Topics : Quiet(t)
      BY <3>3, <3>4 DEF Quiet, InactiveStates
    <3>6. \A t \in Topics :
            /\ ChannelState(proto, t) \in {"Joining", "Leaving"}
            /\ ChannelState(proto', t) = ChannelState(proto, t)
            => t # q.topic
      BY <3>3
    <3> QED BY <1>1, <1>3, <2>2, <3>3, <3>5, <3>6, QuietOwes
  <2>4. CASE q.kind = "Leave"
             /\ proto' = [Without(e) EXCEPT !.channels[q.topic] = Absent]
    <3>1. /\ proto'.pending = proto.pending \ {e}
          /\ \A t \in Topics :
               proto'.channels[t] =
                 IF t = q.topic THEN Absent ELSE proto.channels[t]
      BY <2>1, <2>4 DEF ProtocolState
    <3>2. \A t \in Topics : Quiet(t)
      BY <3>1 DEF Quiet, ChannelState
    <3>3. \A t \in Topics : t = q.topic =>
            ChannelState(proto', t) \notin {"Joining", "Leaving"}
      BY <3>1 DEF ChannelState, Absent
    <3> QED BY <1>1, <1>3, <2>2, <3>1, <3>2, <3>3, QuietOwes
  <2>5. CASE (q.kind \in {"Push", "Heartbeat"} \/ faulty') /\ proto' = Without(e)
    <3>1. \A t \in Topics : Quiet(t)
      BY <2>1, <2>5 DEF Quiet, ChannelState
    <3> QED BY <1>1, <1>3, <2>1, <2>2, <2>5, <3>1, QuietOwes
  <2> QED BY <1>3, <2>3, <2>4, <2>5
<1> QED BY <1>1, <1>2, <1>3, AnswerEffect

(* The end of a channel process answers no request, but it takes the join  *)
(* of its generation off the server's hands.                               *)
LEMMA TerminateOwes ==
  ASSUME IInv, Owed, LiveIsNumbered, NEW g \in live,
         NEW kind \in {"phx_close", "phx_error"}, Terminate(g, kind)
  PROVE  Owed'
<1>1. /\ proto \in ProtocolState
      /\ ~faulty' => ~faulty
      /\ g.topic \in Topics /\ g.join_ref \in Nat /\ g.join_ref # 0
      /\ unanswered' = {q \in unanswered :
                          ~(q.kind = "Join" /\ q.topic = g.topic
                            /\ q.join_ref = g.join_ref)}
      /\ TypeOK
  BY DEF IInv, TypeOK, Terminate, Received, LiveIsNumbered, Generation
<1>2. ASSUME NEW q \in unanswered \ unanswered', NEW e \in proto.pending,
             e.ref = q.ref
      PROVE  e.topic = g.topic /\ q.topic = g.topic /\ q.join_ref = g.join_ref
  BY <1>1, <1>2 DEF IInv, RequestsAgree
<1>3. /\ unanswered' \subseteq unanswered
      /\ ~faulty' => ~faulty
      /\ proto \in ProtocolState
  BY <1>1
<1>4. CASE Outdated(g) /\ proto' = proto
  <2>1. \A t \in Topics : Quiet(t)
    BY <1>4 DEF Quiet
  <2>2. ASSUME NEW q \in unanswered \ unanswered', NEW e \in proto'.pending,
               e.ref = q.ref, e.topic \in Topics
        PROVE  \/ ChannelState(proto', e.topic) \notin ActiveStates
               \/ e.ref < proto'.channels[e.topic].join_ref
    <3>1. e.topic = g.topic /\ q.topic = g.topic /\ q.join_ref = g.join_ref
      BY <1>2, <1>4, <2>2
    <3>2. ~(q.ref >= proto.channels[g.topic].join_ref)
      BY <1>1, <1>4, <3>1 DEF Owed, RequestsOfGeneration, Outdated
    <3> QED BY <1>1, <1>4, <2>2, <3>1, <3>2, NumberFacts
  <2> QED BY <1>3, <1>4, <2>1, <2>2, QuietOwes
<1>5. ASSUME ~Outdated(g), NEW state \in {"Closed", "Errored"},
             proto' = SetState(proto, g.topic, state)
      PROVE  Owed'
  <2>0. state \in InactiveStates
    BY DEF InactiveStates
  <2>1. /\ proto'.pending = proto.pending
        /\ \A t \in Topics :
             /\ proto'.channels[t].join_ref = proto.channels[t].join_ref
             /\ ChannelState(proto', t) =
                  IF t = g.topic /\ ChannelState(proto, t) # "Absent"
                    THEN state ELSE ChannelState(proto, t)
    BY <1>3, <1>5, <2>0, SetStateEffect
  <2>2. ChannelState(proto, g.topic) # "Absent" => Settled(g.topic)
    BY <1>1, <1>5 DEF Outdated, Settled
  <2>3. \A t \in Topics : Quiet(t)
    BY <2>1, <2>2 DEF Quiet, InactiveStates
  <2>4. ChannelState(proto', g.topic) \notin ActiveStates
    BY <1>1, <2>1 DEF ActiveStates
  <2> QED BY <1>2, <1>3, <2>1, <2>3, <2>4, QuietOwes
<1> QED BY <1>1, <1>4, <1>5, TerminateEffect

(* The invariant of what is owed holds.                                    *)
THEOREM OwedInductive == Spec => [](IInv /\ Owed /\ LiveIsNumbered)
<1>1. Init => Owed /\ LiveIsNumbered
  <2> SUFFICES ASSUME Init PROVE Owed /\ LiveIsNumbered
    OBVIOUS
  <2>1. /\ proto.pending = {} /\ unanswered = {} /\ live = {}
        /\ \A t \in Topics : ChannelState(proto, t) = "Absent"
    BY DEF Init, NewProtocol, ChannelState, Absent
  <2> QED BY <2>1 DEF Owed, LiveIsNumbered, RequestsOfGeneration,
                      JoinStillOpen, PendingIsOwed, WaitingHasRequest
<1>2. IInv /\ Owed /\ LiveIsNumbered /\ [Next]_vars => Owed' /\ LiveIsNumbered'
  <2> SUFFICES ASSUME IInv, Owed, LiveIsNumbered, [Next]_vars
               PROVE  Owed' /\ LiveIsNumbered'
    OBVIOUS
  <2>1. NextRef(proto) # 0 /\ NextRef(proto) \in Nat
    BY NumberFacts
  <2>2. ASSUME live' \subseteq live
        PROVE  LiveIsNumbered'
    BY <2>2 DEF LiveIsNumbered
  <2>3. ASSUME NEW t \in Topics,
               CallJoin(t) \/ CallRejoin(t) \/ CallLeave(t) \/ CallPush(t)
        PROVE  Owed' /\ LiveIsNumbered'
    <3>1. LiveIsNumbered'
      BY <2>1, <2>3
         DEF LiveIsNumbered, CallJoin, CallRejoin, CallLeave, CallPush
    <3> QED BY <2>3, <3>1, RequestOwes
  <2>4. ASSUME NEW t \in Topics, CallFails(t) \/ CallDiscard(t)
        PROVE  Owed' /\ LiveIsNumbered'
    BY <2>2, <2>4, CallOwes DEF CallFails, CallDiscard
  <2>5. CASE CallHeartbeat
    BY <2>2, <2>5, HeartbeatOwes DEF CallHeartbeat
  <2>6. CASE CallForget \/ CallReset
    BY <2>2, <2>6, CallOwes DEF CallForget, CallReset
  <2>7. CASE CallRejoinAll
    <3> DEFINE again == {t \in Topics : ChannelState(proto, t) \in InactiveStates}
    <3>1. PICK last \in NextRef(proto) .. MaxReference :
            \E ref \in [again -> NextRef(proto) .. last] :
              RejoinEach(again, ref, last)
      BY <2>7 DEF CallRejoinAll
    <3>2. PICK ref \in [again -> NextRef(proto) .. last] :
            RejoinEach(again, ref, last)
      BY <3>1
    <3>3. \A t \in again : ref[t] \in NextRef(proto) .. last
      OBVIOUS
    <3> HIDE DEF again
    <3>4. \A t \in again : ref[t] # 0
      BY <2>1, <3>3
    <3>5. LiveIsNumbered'
      BY <3>2, <3>4 DEF RejoinEach, LiveIsNumbered
    <3> QED BY <2>7, <3>5, RejoinAllOwes
  <2>8. ASSUME NEW q \in unanswered, NEW status \in {"ok", "error", "invalid"},
               Answer(q, status)
        PROVE  Owed' /\ LiveIsNumbered'
    BY <2>2, <2>8, AnswerOwes DEF Answer
  <2>9. ASSUME NEW g \in live, NEW kind \in {"phx_close", "phx_error"},
               Terminate(g, kind)
        PROVE  Owed' /\ LiveIsNumbered'
    BY <2>2, <2>9, TerminateOwes DEF Terminate
  <2>10. ASSUME NEW g \in live, NEW join_ref \in {0, g.join_ref},
                Broadcast(g, join_ref)
         PROVE  Owed' /\ LiveIsNumbered'
    <3>1. /\ proto' = proto /\ unanswered' = unanswered /\ live' = live
          /\ ~faulty' => ~faulty
      BY <2>10, BroadcastEffect DEF IInv, TypeOK, Broadcast, Received
    <3> QED BY <3>1 DEF Owed, LiveIsNumbered, RequestsOfGeneration,
                        JoinStillOpen, PendingIsOwed, WaitingHasRequest
  <2>11. CASE UNCHANGED vars
    BY <2>11 DEF vars, Owed, LiveIsNumbered, RequestsOfGeneration,
                 JoinStillOpen, PendingIsOwed, WaitingHasRequest
  <2> QED BY <2>3, <2>4, <2>5, <2>6, <2>7, <2>8, <2>9, <2>10, <2>11
          DEF Next, Application, Server
<1> QED BY <1>1, <1>2, Inductive, PTL DEF Spec

(* A channel that waits for the server has a request pending that the      *)
(* server can still answer, until a reply does not decode.                 *)
THEOREM WaitingIsPending == Spec => []WaitingHasRequest
<1>1. Owed => WaitingHasRequest
  BY DEF Owed
<1> QED BY <1>1, OwedInductive, PTL

(* What is pending for the present generation of an active channel was     *)
(* sent on the present connection and its answer is still to come.         *)
THEOREM PendingIsAnswerable == Spec => []PendingIsOwed
<1>1. Owed => PendingIsOwed
  BY DEF Owed
<1> QED BY <1>1, OwedInductive, PTL

---------------------------------------------------------------------------
(***************************************************************************)
(* The machine implements ChannelLifecycle.                                *)
(***************************************************************************)

(* What the abstract machine sees of a channel's state.                    *)
LEMMA PhaseFacts ==
  /\ PhaseOf("Absent") = "Out" /\ PhaseOf("Joining") = "Joining"
  /\ PhaseOf("Joined") = "In" /\ PhaseOf("Leaving") = "Leaving"
  /\ \A state \in InactiveStates : PhaseOf(state) = "Down"
  /\ \A state \in ActiveStates \cup InactiveStates : PhaseOf(state) # "Out"
BY DEF PhaseOf, ActiveStates, InactiveStates

(* Calls that number a request but move no channel.                        *)
LEMMA AdvanceImplements ==
  ASSUME TypeOK, TypeOK', proto'.channels = proto.channels,
         proto'.next_reference >= proto.next_reference
  PROVE  Lifecycle!Tick \/ UNCHANGED Lifecycle!vars
<1>1. proto.next_reference \in Nat /\ proto'.next_reference \in Nat
  BY DEF TypeOK, ProtocolState
<1>2. \A t \in Topics : ChannelState(proto', t) = ChannelState(proto, t)
  BY DEF ChannelState
<1> QED BY <1>1, <1>2 DEF Lifecycle!Tick, Lifecycle!vars

(* join, rejoin and rejoin_all_with_stored_params begin new generations.   *)
LEMMA JoinsImplement ==
  ASSUME IInv, TypeOK', NEW S \in SUBSET Topics, S # {},
         \A t \in S :
           /\ ChannelState(proto, t) \notin ActiveStates
           /\ ChannelState(proto', t) = "Joining"
           /\ proto'.channels[t].join_ref > proto.next_reference
           /\ proto'.channels[t].join_ref <= proto'.next_reference,
         \A t, u \in S :
           proto'.channels[t].join_ref = proto'.channels[u].join_ref => t = u,
         \A t \in Topics \ S : proto'.channels[t] = proto.channels[t]
  PROVE  Lifecycle!Begin(S)
<1>1. /\ \A t \in Topics : /\ proto.channels[t] \in ChannelRecord
                           /\ proto'.channels[t] \in ChannelRecord
      /\ proto'.next_reference \in Nat
  BY DEF IInv, TypeOK, ProtocolState
<1>2. \A t \in Topics : proto'.channels[t].join_ref \in Nat
  BY <1>1, RecordFacts
<1>3. \A t \in S : PhaseOf(ChannelState(proto, t)) \in {"Out", "Down"}
  BY <1>1, PhaseFacts DEF ChannelState, ChannelRecord, Absent
<1>4. \A t \in Topics \ S : ChannelState(proto', t) = ChannelState(proto, t)
  BY DEF ChannelState
<1> QED BY <1>1, <1>2, <1>3, <1>4, PhaseFacts DEF Lifecycle!Begin

(* A channel is confirmed, goes down or is removed.                        *)
LEMMA MoveImplements ==
  ASSUME IInv, TypeOK', NEW t \in Topics,
         proto'.next_reference = proto.next_reference,
         \A u \in Topics \ {t} : proto'.channels[u] = proto.channels[u],
         \/ proto'.channels[t] = Absent
         \/ /\ proto'.channels[t].join_ref = proto.channels[t].join_ref
            /\ \/ /\ ChannelState(proto, t) = "Joining"
                  /\ ChannelState(proto', t) = "Joined"
               \/ /\ ChannelState(proto, t) # "Absent"
                  /\ ChannelState(proto', t) \in InactiveStates
  PROVE  Lifecycle!Confirm(t) \/ Lifecycle!End(t) \/ Lifecycle!Fall({t})
<1>1. /\ proto.channels[t] \in ChannelRecord
      /\ \A u \in Topics \ {t} : ChannelState(proto', u) = ChannelState(proto, u)
  BY DEF IInv, TypeOK, ProtocolState, ChannelState
<1>2. CASE proto'.channels[t] = Absent
  <2>1. ChannelState(proto', t) = "Absent" /\ proto'.channels[t].join_ref = 0
    BY <1>2 DEF ChannelState, Absent
  <2>2. Lifecycle!End(t)
    BY <1>1, <2>1, PhaseFacts DEF Lifecycle!End
  <2> QED BY <2>2
<1>3. CASE /\ proto'.channels[t].join_ref = proto.channels[t].join_ref
           /\ ChannelState(proto, t) = "Joining"
           /\ ChannelState(proto', t) = "Joined"
  BY <1>1, <1>3, PhaseFacts DEF Lifecycle!Confirm
<1>4. CASE /\ proto'.channels[t].join_ref = proto.channels[t].join_ref
           /\ ChannelState(proto, t) # "Absent"
           /\ ChannelState(proto', t) \in InactiveStates
  <2>1. PhaseOf(ChannelState(proto, t)) # "Out"
    BY <1>1, <1>4, PhaseFacts DEF ChannelState, ChannelRecord, Absent
  <2>2. Lifecycle!Fall({t})
    BY <1>1, <1>4, <2>1, PhaseFacts DEF Lifecycle!Fall
  <2> QED BY <2>2
<1> QED BY <1>2, <1>3, <1>4

(* reset_connection takes every known channel down at once.                *)
LEMMA ResetImplements ==
  ASSUME IInv, CallReset
  PROVE  \E S \in SUBSET Topics : Lifecycle!Fall(S)
<1> DEFINE S == {t \in Topics : ChannelState(proto, t) # "Absent"}
<1>1. /\ proto \in ProtocolState
      /\ proto'.next_reference = proto.next_reference
      /\ proto'.channels =
           [t \in Topics |->
             IF proto.channels[t].state = "Absent"
               THEN proto.channels[t]
               ELSE [proto.channels[t] EXCEPT !.state = "Disconnected"]]
  BY DEF CallReset, ResetConnection, IInv, TypeOK, ProtocolState
<1>2. \A t \in Topics \ S : /\ ChannelState(proto', t) = ChannelState(proto, t)
                            /\ proto'.channels[t] = proto.channels[t]
  BY <1>1 DEF ChannelState
<1>3. ASSUME NEW t \in S
      PROVE  /\ ChannelState(proto', t) = "Disconnected"
             /\ proto'.channels[t].join_ref = proto.channels[t].join_ref
             /\ ChannelState(proto, t) \in ActiveStates \cup InactiveStates
  <2>1. proto.channels[t] \in
          [state : ActiveStates \cup InactiveStates, join_ref : Nat \ {0}]
    BY <1>1 DEF ProtocolState, ChannelRecord, Absent, ChannelState
  <2>2. proto'.channels[t] =
          [proto.channels[t] EXCEPT !.state = "Disconnected"]
    BY <1>1 DEF ChannelState
  <2> QED BY <2>1, <2>2 DEF ChannelState
<1>4. S \in SUBSET Topics /\ "Disconnected" \in InactiveStates
  BY DEF InactiveStates
<1> HIDE DEF S
<1>5. Lifecycle!Fall(S)
  BY <1>1, <1>2, <1>3, <1>4, PhaseFacts DEF Lifecycle!Fall
<1> QED BY <1>4, <1>5

(* Each call that sends a request of a channel.                            *)
LEMMA RequestImplements ==
  ASSUME IInv, TypeOK', NEW t \in Topics,
         CallJoin(t) \/ CallRejoin(t) \/ CallLeave(t) \/ CallPush(t)
  PROVE  [Lifecycle!Next]_(Lifecycle!vars)
<1>1. proto \in ProtocolState /\ proto.channels[t] \in ChannelRecord
  BY DEF IInv, TypeOK, ProtocolState
<1>2. /\ NextRef(proto) \in Nat /\ proto.next_reference \in Nat
      /\ NextRef(proto) > proto.next_reference
  BY NumberFacts
<1> DEFINE joining == [state |-> "Joining", join_ref |-> NextRef(proto)]
           leaving == [proto.channels[t] EXCEPT !.state = "Leaving"]
<1>3. ASSUME NEW p \in {proto, Discard(proto, t)}, NEW kind, NEW c,
             proto' = Track(p, kind, t, c)
      PROVE  /\ proto'.next_reference = NextRef(proto)
             /\ proto'.channels[t] = c
             /\ \A u \in Topics \ {t} : proto'.channels[u] = proto.channels[u]
  BY <1>1, <1>3 DEF Track, Discard, ProtocolState, NextRef
<1>4. CASE CallJoin(t) \/ CallRejoin(t)
  <2>1. NextRef(Discard(proto, t)) = NextRef(proto)
    BY <1>1 DEF Discard, NextRef, ProtocolState
  <2>2. \E p \in {proto, Discard(proto, t)} :
          proto' = Track(p, "Join", t, joining)
    BY <1>4, <2>1 DEF CallJoin, CallRejoin, Rejoin, Join
  <2>3. joining.state = "Joining" /\ joining.join_ref = NextRef(proto)
    OBVIOUS
  <2> HIDE DEF joining
  <2>4. ChannelState(proto, t) \notin ActiveStates
    BY <1>4 DEF CallJoin, CallRejoin, CanJoin
  <2>5. Lifecycle!Begin({t})
    BY <1>2, <1>3, <2>2, <2>3, <2>4, JoinsImplement DEF ChannelState
  <2> QED BY <2>5 DEF Lifecycle!Next
<1>5. CASE CallLeave(t)
  <2>1. /\ leaving.state = "Leaving"
        /\ leaving.join_ref = proto.channels[t].join_ref
        /\ proto' = Track(proto, "Leave", t, leaving)
    BY <1>1, <1>5 DEF CallLeave, Leave, CanLeave, ChannelState, ChannelRecord,
                      Absent
  <2> HIDE DEF leaving
  <2>2. /\ ChannelState(proto, t) = "Joined"
        /\ ChannelState(proto', t) = "Leaving"
        /\ \A u \in Topics \ {t} :
             ChannelState(proto', u) = ChannelState(proto, u)
        /\ \A u \in Topics :
             proto'.channels[u].join_ref = proto.channels[u].join_ref
        /\ proto'.next_reference = NextRef(proto)
    BY <1>3, <1>5, <2>1 DEF CallLeave, CanLeave, ChannelState
  <2>3. Lifecycle!Depart(t)
    BY <1>2, <2>2, PhaseFacts DEF Lifecycle!Depart
  <2> QED BY <2>3 DEF Lifecycle!Next
<1>6. CASE CallPush(t)
  <2>1. proto'.channels = proto.channels
    BY <1>1, <1>6 DEF CallPush, Push, Track, ProtocolState
  <2>2. proto'.next_reference = NextRef(proto)
    BY <1>6 DEF CallPush, Push, Track
  <2> QED BY <1>2, <2>1, <2>2, AdvanceImplements DEF Lifecycle!Next, IInv
<1> QED BY <1>4, <1>5, <1>6

(* A join request that is still owed when its answer is not stale is that  *)
(* of a Joining channel: the answer confirms, or takes the channel down.   *)
LEMMA AnswerImplements ==
  ASSUME IInv, JoinStillOpen, TypeOK', NEW q \in unanswered,
         NEW status \in {"ok", "error", "invalid"}, Answer(q, status)
  PROVE  [Lifecycle!Next]_(Lifecycle!vars)
<1>1. proto \in ProtocolState /\ TypeOK /\ Fresh(proto) /\ RequestsAgree
      /\ proto.next_reference \in Nat
  BY DEF IInv, TypeOK, ProtocolState
<1>2. CASE proto' = proto
  BY <1>2 DEF Lifecycle!vars
<1>3. ASSUME NEW e \in proto.pending, ~Outdated(q),
             \/ /\ q.kind = "Join"
                /\ \E state \in {"Joined", "Errored"} :
                     proto' = SetState(Without(e), q.topic, state)
             \/ /\ q.kind = "Leave"
                /\ proto' = [Without(e) EXCEPT !.channels[q.topic] = Absent]
             \/ proto' = Without(e)
      PROVE  [Lifecycle!Next]_(Lifecycle!vars)
  <2>1. /\ Without(e) \in ProtocolState
        /\ Without(e).channels = proto.channels
        /\ Without(e).next_reference = proto.next_reference
    BY <1>1 DEF Without, ProtocolState
  <2>2. ASSUME proto'.channels = proto.channels,
               proto'.next_reference = proto.next_reference
        PROVE  [Lifecycle!Next]_(Lifecycle!vars)
    BY <1>1, <2>2, AdvanceImplements DEF Lifecycle!Next
  <2>3. ASSUME NEW state \in {"Joined", "Errored"}, q.kind = "Join",
               proto' = SetState(Without(e), q.topic, state)
        PROVE  [Lifecycle!Next]_(Lifecycle!vars)
    <3>1. CASE q.topic \in Topics /\ ChannelState(proto, q.topic) # "Absent"
      <4>1. ChannelState(proto, q.topic) = "Joining"
        BY <2>3, <1>3, <3>1, NumberFacts DEF JoinStillOpen, Outdated
      <4>2. state \in ActiveStates \cup InactiveStates
        BY DEF ActiveStates, InactiveStates
      <4>3. /\ proto'.next_reference = proto.next_reference
            /\ proto'.channels[q.topic].join_ref =
                 proto.channels[q.topic].join_ref
            /\ ChannelState(proto', q.topic) = state
        BY <2>1, <2>3, <3>1, <4>2, SetStateEffect DEF ChannelState
      <4>4. \A u \in Topics \ {q.topic} :
              proto'.channels[u] = proto.channels[u]
        BY <2>1, <2>3, <3>1 DEF SetState, ProtocolState
      <4>5. state = "Errored" => state \in InactiveStates
        BY DEF InactiveStates
      <4> QED BY <3>1, <4>1, <4>3, <4>4, <4>5, MoveImplements
              DEF Lifecycle!Next
    <3>2. CASE ~(q.topic \in Topics /\ ChannelState(proto, q.topic) # "Absent")
      BY <2>1, <2>2, <2>3, <3>2 DEF SetState, ChannelState
    <3> QED BY <3>1, <3>2
  <2>4. CASE proto' = [Without(e) EXCEPT !.channels[q.topic] = Absent]
    <3>1. CASE q.topic \in Topics
      <4>1. /\ proto'.next_reference = proto.next_reference
            /\ proto'.channels[q.topic] = Absent
            /\ \A u \in Topics \ {q.topic} :
                 proto'.channels[u] = proto.channels[u]
        BY <2>1, <2>4, <3>1 DEF ProtocolState
      <4> QED BY <3>1, <4>1, MoveImplements DEF Lifecycle!Next
    <3>2. CASE q.topic \notin Topics
      <4>1. /\ proto'.channels = proto.channels
            /\ proto'.next_reference = proto.next_reference
        BY <2>1, <2>4, <3>2 DEF ProtocolState
      <4> QED BY <2>2, <4>1
    <3> QED BY <3>1, <3>2
  <2>5. CASE proto' = Without(e)
    BY <2>1, <2>2, <2>5
  <2> QED BY <1>3, <2>3, <2>4, <2>5
<1> QED BY <1>1, <1>2, <1>3, AnswerEffect

(* The end of a channel process takes its channel down, or nothing.        *)
LEMMA TerminateImplements ==
  ASSUME IInv, TypeOK', NEW g \in live,
         NEW kind \in {"phx_close", "phx_error"}, Terminate(g, kind)
  PROVE  [Lifecycle!Next]_(Lifecycle!vars)
<1>1. TypeOK /\ proto \in ProtocolState
  BY DEF IInv, TypeOK
<1>2. CASE proto' = proto
  BY <1>2 DEF Lifecycle!vars
<1>3. ASSUME NEW state \in {"Closed", "Errored"},
             proto' = SetState(proto, g.topic, state)
      PROVE  [Lifecycle!Next]_(Lifecycle!vars)
  <2>1. CASE g.topic \in Topics /\ ChannelState(proto, g.topic) # "Absent"
    <3>1. state \in InactiveStates
      BY DEF InactiveStates
    <3>2. /\ proto'.next_reference = proto.next_reference
          /\ proto'.channels[g.topic].join_ref = proto.channels[g.topic].join_ref
          /\ ChannelState(proto', g.topic) = state
      BY <1>1, <1>3, <2>1, <3>1, SetStateEffect
    <3>3. \A u \in Topics \ {g.topic} : proto'.channels[u] = proto.channels[u]
      BY <1>1, <1>3, <2>1 DEF SetState, ProtocolState
    <3> QED BY <2>1, <3>1, <3>2, <3>3, MoveImplements DEF Lifecycle!Next
  <2>2. CASE ~(g.topic \in Topics /\ ChannelState(proto, g.topic) # "Absent")
    BY <1>2, <1>3, <2>2 DEF SetState
  <2> QED BY <2>1, <2>2
<1> QED BY <1>1, <1>2, <1>3, TerminateEffect

(* rejoin_all_with_stored_params begins a generation of each topic.        *)
LEMMA RejoinAllImplements ==
  ASSUME IInv, TypeOK', CallRejoinAll
  PROVE  \E S \in SUBSET Topics : Lifecycle!Begin(S)
<1> PICK again : again = {t \in Topics :
                            ChannelState(proto, t) \in InactiveStates}
  OBVIOUS
<1>1. PICK last \in NextRef(proto) .. MaxReference :
        \E ref \in [again -> NextRef(proto) .. last] :
          /\ \A t, u \in again : ref[t] = ref[u] => t = u
          /\ RejoinEach(again, ref, last)
  BY DEF CallRejoinAll
<1>2. PICK ref \in [again -> NextRef(proto) .. last] :
        /\ \A t, u \in again : ref[t] = ref[u] => t = u
        /\ RejoinEach(again, ref, last)
  BY <1>1
<1>3. again \in SUBSET Topics /\ again # {}
  BY DEF CallRejoinAll
<1>4. \A t \in again : /\ ref[t] \in NextRef(proto) .. last
                       /\ ChannelState(proto, t) \notin ActiveStates
  BY DEF ActiveStates, InactiveStates
<1>5. \A t \in again : ref[t] > proto.next_reference /\ ref[t] <= last
  BY <1>4, NumberFacts
<1>6. /\ proto'.next_reference = last
      /\ \A t \in Topics \ again : proto'.channels[t] = proto.channels[t]
      /\ \A t \in again : /\ proto'.channels[t].join_ref = ref[t]
                          /\ ChannelState(proto', t) = "Joining"
  BY <1>2, <1>3 DEF RejoinEach, ChannelState
<1>7. Lifecycle!Begin(again)
  BY <1>2, <1>3, <1>4, <1>5, <1>6, JoinsImplement
<1> QED BY <1>3, <1>7

(* The protocol machine implements the lifecycle of a topic: whatever the  *)
(* interleaving of calls, answers, closes and lost connections, a topic is *)
(* entered only by the answer to a join made for it, each join is a later  *)
(* generation than all before it, and a topic that fell is entered again   *)
(* only by a further join.                                                 *)
THEOREM LifecycleImplemented == Spec => ImplementsLifecycle
<1>1. Init => Lifecycle!Init
  BY PhaseFacts DEF Init, NewProtocol, ChannelState, Absent, Lifecycle!Init
<1>2. IInv /\ Owed /\ TypeOK' /\ [Next]_vars
        => [Lifecycle!Next]_(Lifecycle!vars)
  <2> SUFFICES ASSUME IInv, Owed, TypeOK', [Next]_vars
               PROVE  [Lifecycle!Next]_(Lifecycle!vars)
    OBVIOUS
  <2>1. /\ proto \in ProtocolState /\ JoinStillOpen /\ TypeOK
        /\ NextRef(proto) >= proto.next_reference
        /\ proto.next_reference >= proto.next_reference
    BY NumberFacts DEF IInv, TypeOK, Owed
  <2>2. ASSUME proto'.channels = proto.channels,
               proto'.next_reference >= proto.next_reference
        PROVE  [Lifecycle!Next]_(Lifecycle!vars)
    BY <2>1, <2>2, AdvanceImplements DEF Lifecycle!Next
  <2>3. ASSUME NEW t \in Topics,
               CallJoin(t) \/ CallRejoin(t) \/ CallLeave(t) \/ CallPush(t)
        PROVE  [Lifecycle!Next]_(Lifecycle!vars)
    BY <2>3, RequestImplements
  <2>4. ASSUME NEW t \in Topics, CallFails(t)
        PROVE  [Lifecycle!Next]_(Lifecycle!vars)
    BY <2>1, <2>2, <2>4 DEF CallFails, FailedLeave, ProtocolState
  <2>5. ASSUME NEW t \in Topics, CallDiscard(t)
        PROVE  [Lifecycle!Next]_(Lifecycle!vars)
    <3>1. /\ proto'.next_reference = proto.next_reference
          /\ proto'.channels[t] = Absent
          /\ \A u \in Topics \ {t} : proto'.channels[u] = proto.channels[u]
      BY <2>1, <2>5 DEF CallDiscard, Discard, ProtocolState
    <3> QED BY <3>1, MoveImplements DEF Lifecycle!Next
  <2>6. CASE CallHeartbeat
    BY <2>1, <2>2, <2>6 DEF CallHeartbeat, Heartbeat, ProtocolState
  <2>7. CASE CallForget
    BY <2>1, <2>2, <2>7 DEF CallForget, Forget, ProtocolState
  <2>8. CASE CallRejoinAll
    BY <2>8, RejoinAllImplements DEF Lifecycle!Next
  <2>9. CASE CallReset
    BY <2>9, ResetImplements DEF Lifecycle!Next
  <2>10. ASSUME NEW q \in unanswered, NEW status \in {"ok", "error", "invalid"},
                Answer(q, status)
         PROVE  [Lifecycle!Next]_(Lifecycle!vars)
    BY <2>1, <2>10, AnswerImplements
  <2>11. ASSUME NEW g \in live, NEW kind \in {"phx_close", "phx_error"},
                Terminate(g, kind)
         PROVE  [Lifecycle!Next]_(Lifecycle!vars)
    BY <2>11, TerminateImplements
  <2>12. ASSUME NEW g \in live, NEW join_ref \in {0, g.join_ref},
                Broadcast(g, join_ref)
         PROVE  [Lifecycle!Next]_(Lifecycle!vars)
    BY <2>1, <2>2, <2>12, BroadcastEffect
  <2>13. CASE UNCHANGED vars
    BY <2>1, <2>2, <2>13 DEF vars
  <2> QED BY <2>3, <2>4, <2>5, <2>6, <2>7, <2>8, <2>9, <2>10, <2>11, <2>12,
             <2>13 DEF Next, Application, Server
<1> QED BY <1>1, <1>2, OwedInductive, TypeCorrectness, PTL
        DEF Spec, ImplementsLifecycle, Lifecycle!Spec
=============================================================================
