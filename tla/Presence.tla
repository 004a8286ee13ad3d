------------------------------ MODULE Presence ------------------------------
(***************************************************************************)
(* ChannelPresence of crates/phoenix-channel-client/src/client/presence.rs *)
(* on one channel that is joined, lost and joined again, with the          *)
(* application that consumes it and the Phoenix server that keeps the      *)
(* presences.                                                              *)
(*                                                                         *)
(* The server tracks and untracks metas at any time; the diffs of it are   *)
(* sent later, in order, to a channel that is joined.  Phoenix sends them  *)
(* as broadcasts, which carry no join_ref, unless the channel intercepts   *)
(* them and pushes them itself.  The state is pushed by the channel, after *)
(* it was read; a broadcast may go out between the two.                    *)
(*                                                                         *)
(* The event stream of the channel is that of EventStream, seen from the   *)
(* tracker: events it ignores take slots too, so any event may be dropped  *)
(* while the queue is not empty, and a Lagged event takes its place.       *)
(***************************************************************************)
EXTENDS PresenceOps, FiniteSets

CONSTANTS
  MaxJoins,    \* bound on the times the channel is joined
  MaxStates,   \* bound on the states the server pushes in a generation
  Slots        \* bound on the events queued

ASSUME PresenceBounds == {MaxJoins, MaxStates, Slots} \subseteq Nat

VARIABLES
  present,         \* the server's presences
  used,            \* metas that have been tracked
  outbox,          \* diffs not sent yet
  reading,         \* the state the channel read and has not pushed: 0 or 1
  pushed,          \* states pushed in this generation
  intercepts,      \* the channel intercepts the diffs
  generation,      \* the join_ref while the channel is joined, or 0
  joins,           \* joins so far
  events,          \* ChannelPresence.events
  lagging,         \* the subscriber has drops to report
  tracker,         \* ChannelPresence.tracker
  pending,         \* ChannelPresence.pending
  desynchronized,  \* ChannelPresence.desynchronized
  resync,          \* how far a call of resync is
  reported,        \* history: the presences according to the events returned
  restated,        \* history: a state was not the first one since a reset
  stray            \* history: a diff came while the channel was not joined

server  == <<present, used, outbox, reading, pushed, intercepts>>
channel == <<generation, joins>>
stream  == <<events, lagging, stray>>
client  == <<tracker, pending, desynchronized, reported, restated>>

vars == <<server, channel, stream, client, resync>>

StateFrame(join_ref, state) ==
  [kind |-> "State", join_ref |-> join_ref, state |-> state,
   diff |-> NoChanges]

DiffFrame(join_ref, diff) ==
  [kind |-> "Diff", join_ref |-> join_ref, state |-> Nobody, diff |-> diff]

Other(kind) ==
  [kind |-> kind, join_ref |-> 0, state |-> Nobody, diff |-> NoChanges]

Init ==
  /\ present = Nobody /\ used = {} /\ outbox = <<>>
  /\ reading = <<>> /\ pushed = 0
  /\ intercepts \in BOOLEAN
  /\ generation = 0 /\ joins = 0
  /\ events = <<>> /\ lagging = FALSE /\ stray = FALSE
  /\ tracker = NewTracker
  /\ pending = <<>>
  /\ desynchronized = FALSE
  /\ resync = "no"
  /\ reported = Nobody /\ restated = FALSE

---------------------------------------------------------------------------
(* The event stream, and the end of a generation in it.                    *)

Emit(event) ==
  LET report == IF lagging THEN <<Other("Lagged")>> ELSE <<>>
  IN  \/ /\ Len(events) + Len(report) < Slots
         /\ events' = events \o report \o <<event>>
         /\ lagging' = FALSE
      \/ /\ events # <<>>
         /\ \/ events' = events
            \/ Len(events) + Len(report) <= Slots /\ events' = events \o report
         /\ lagging' = TRUE

(* Phoenix closes the channel, it crashes, the connection is lost, or it   *)
(* is left: the tracker treats the four events alike.                      *)
End ==
  /\ generation # 0
  /\ generation' = 0
  /\ reading' = <<>> /\ pushed' = 0
  /\ Emit(Other("Ended"))
  /\ UNCHANGED <<present, used, outbox, intercepts, joins, stray, client,
                 resync>>

NextGeneration ==
  /\ generation = 0
  /\ joins < MaxJoins
  /\ joins' = joins + 1
  /\ generation' = joins + 1

(* The application or the driver joins the channel again.                  *)
Rejoin ==
  /\ resync = "no"
  /\ NextGeneration
  /\ UNCHANGED <<server, stream, client, resync>>

---------------------------------------------------------------------------
(* The server.                                                             *)

Single(k, m) == [key \in {k} |-> {m}]

(* The presences when k has these metas.                                   *)
With(state, k, metas) ==
  Entries([key \in DOMAIN state \cup {k} |->
             IF key = k THEN metas ELSE state[key]])

(* A presence is tracked, untracked, or updated, which gives it a new meta.*)
Track(k) ==
  \E m \in Metas \ used :
    \E old \in {{}} \cup {{n} : n \in MetasOf(present, k)} :
      /\ used' = used \cup {m}
      /\ present' = With(present, k, (MetasOf(present, k) \ old) \cup {m})
      /\ outbox' = Append(outbox, [joins  |-> Single(k, m),
                                  leaves |-> With(Nobody, k, old)])
      /\ UNCHANGED <<reading, pushed, intercepts, channel, stream, client,
                     resync>>

Untrack(k) ==
  \E m \in MetasOf(present, k) :
    /\ present' = With(present, k, MetasOf(present, k) \ {m})
    /\ outbox' = Append(outbox, [joins |-> Nobody, leaves |-> Single(k, m)])
    /\ UNCHANGED <<used, reading, pushed, intercepts, channel, stream, client,
                   resync>>

(* A channel process that ends answers the leave, or is reported to have   *)
(* crashed, before its subscription is gone, so a broadcast may follow.    *)
SendDiff ==
  /\ outbox # <<>>
  /\ outbox' = Tail(outbox)
  /\ \/ /\ generation # 0
        /\ Emit(DiffFrame(IF intercepts THEN generation ELSE 0, Head(outbox)))
        /\ UNCHANGED stray
     \/ /\ generation = 0 /\ joins # 0 /\ ~intercepts
        /\ Emit(DiffFrame(0, Head(outbox)))
        /\ stray' = TRUE
     \/ generation = 0 /\ UNCHANGED stream
  /\ UNCHANGED <<present, used, reading, pushed, intercepts, channel, client,
                 resync>>

ReadState ==
  /\ generation # 0 /\ ~intercepts
  /\ reading = <<>>
  /\ pushed < MaxStates
  /\ reading' = <<present>>
  /\ UNCHANGED <<present, used, outbox, pushed, intercepts, channel, stream,
                 client, resync>>

(* A channel that intercepts the diffs sends none while it reads.          *)
PushState ==
  /\ generation # 0
  /\ pushed < MaxStates
  /\ \/ intercepts /\ Emit(StateFrame(generation, present))
     \/ reading # <<>> /\ Emit(StateFrame(generation, Head(reading)))
  /\ pushed' = pushed + 1
  /\ reading' = <<>>
  /\ UNCHANGED <<present, used, outbox, intercepts, channel, stray, client,
                 resync>>

---------------------------------------------------------------------------
(* The application.                                                        *)

(* The events an update returns: keys that joined, then keys that left, of *)
(* those that were present before it, and at last Synced.                  *)
PresenceEvents(previous, changes) ==
  LET joined == SetToSeq(DOMAIN changes.joins)
      left   == SetToSeq(DOMAIN changes.leaves \cap DOMAIN previous)
      Event(kind, k, metas) == [kind |-> kind, key |-> k, metas |-> metas]
  IN  [i \in DOMAIN joined |->
         Event("Joined", joined[i], changes.joins[joined[i]])]
      \o [i \in DOMAIN left |->
            Event("Left", left[i], changes.leaves[left[i]])]
      \o <<[kind |-> "Synced"]>>

Follow(event) ==
  LET known == MetasOf(reported, event.key)
  IN  CASE event.kind = "Joined" ->
             With(reported, event.key, known \cup event.metas)
        [] event.kind = "Left" ->
             With(reported, event.key, known \ event.metas)
        [] event.kind = "Synced" -> reported

(* next, when an event is pending: it is returned.                         *)
NextPending ==
  /\ resync = "no" /\ ~desynchronized
  /\ pending # <<>>
  /\ pending' = Tail(pending)
  /\ reported' = Follow(Head(pending))
  /\ UNCHANGED <<server, channel, stream, tracker, desynchronized, restated,
                 resync>>

(* next, when none is: the next event of the channel is taken.             *)
NextEvent ==
  /\ resync = "no" /\ ~desynchronized
  /\ pending = <<>> /\ events # <<>>
  /\ events' = Tail(events)
  /\ UNCHANGED <<server, channel, lagging, stray, resync>>

NextFrame ==
  /\ NextEvent
  /\ Head(events).kind \in {"State", "Diff"}
  /\ LET applied == Apply(tracker, Head(events))
     IN  /\ tracker' = applied.tracker
         /\ pending' = IF applied.update = "Synced"
                         THEN PresenceEvents(tracker.state, applied.changes)
                         ELSE <<>>
         /\ restated' = \/ restated
                        \/ Head(events).kind = "State" /\ tracker.join_ref # 0
  /\ UNCHANGED <<desynchronized, reported>>

(* The application is told that the state was cleared.                     *)
NextEnded ==
  /\ NextEvent
  /\ Head(events).kind = "Ended"
  /\ tracker' = Reset(tracker)
  /\ reported' = Nobody /\ restated' = FALSE
  /\ UNCHANGED <<pending, desynchronized>>

NextLagged ==
  /\ NextEvent
  /\ Head(events).kind = "Lagged"
  /\ tracker' = Reset(tracker)
  /\ pending' = <<>>
  /\ desynchronized' = TRUE
  /\ reported' = Nobody /\ restated' = FALSE

(* resync, which the application may call at any time: it resets, leaves,  *)
(* subscribes anew and joins.  A leave or a join that fails ends it there. *)
Resync ==
  /\ resync = "no"
  /\ resync' = "leaving"
  /\ tracker' = Reset(tracker)
  /\ pending' = <<>>
  /\ reported' = Nobody /\ restated' = FALSE
  /\ UNCHANGED <<server, channel, stream, desynchronized>>

ResyncLeft ==
  /\ resync = "leaving"
  /\ resync' = "joining"
  /\ generation' = 0
  /\ reading' = <<>> /\ pushed' = 0
  /\ events' = <<>> /\ lagging' = FALSE /\ stray' = FALSE
  /\ UNCHANGED <<present, used, outbox, intercepts, joins, client>>

ResyncJoined ==
  /\ resync = "joining"
  /\ resync' = "no"
  /\ NextGeneration
  /\ desynchronized' = FALSE
  /\ UNCHANGED <<server, stream, tracker, pending, reported, restated>>

ResyncFails ==
  /\ resync # "no"
  /\ resync' = "no"
  /\ UNCHANGED <<server, channel, stream, client>>

Next ==
  \/ \E k \in Keys : Track(k) \/ Untrack(k)
  \/ SendDiff \/ ReadState \/ PushState
  \/ End \/ Rejoin
  \/ NextPending \/ NextFrame \/ NextEnded \/ NextLagged
  \/ Resync \/ ResyncLeft \/ ResyncJoined \/ ResyncFails

Spec == Init /\ [][Next]_vars

---------------------------------------------------------------------------
(* Every variable has its type: among others, no key is present without a  *)
(* meta, at the server, in the tracker or in the eyes of the application.  *)
TypeOK ==
  /\ {present, tracker.state, reported} \subseteq PresenceState
  /\ used \subseteq Metas
  /\ outbox \in Seq(PresenceDiff)
  /\ reading \in Seq(PresenceState) /\ Len(reading) <= 1
  /\ pushed \in 0..MaxStates /\ intercepts \in BOOLEAN
  /\ generation \in {0, joins} /\ joins \in 0..MaxJoins
  /\ Len(events) <= Slots /\ {lagging, stray} \subseteq BOOLEAN
  /\ \A i \in DOMAIN events :
       events[i].kind \in {"State", "Diff", "Ended", "Lagged"}
  /\ tracker.join_ref \in 0..MaxJoins
  /\ tracker.pending_diffs \in Seq(PresenceDiff)
  /\ {desynchronized, restated} \subseteq BOOLEAN
  /\ resync \in {"no", "leaving", "joining"}

(* The tracker once it has taken an event, and every event that is queued. *)
Taken(t, event) ==
  IF event.kind = "Ended" THEN Reset(t) ELSE Apply(t, event).tracker

Drained ==
  LET drained[n \in 0..Len(events)] ==
        IF n = 0 THEN tracker ELSE Taken(drained[n - 1], events[n])
  IN  drained[Len(events)]

(* A state the server pushes brings the tracker to exactly the presences   *)
(* there are: no diff it kept, from before a reset, from an earlier        *)
(* generation or from between the reading of a state and its arrival, adds *)
(* a presence that is gone or removes one that is there.  (Unless events   *)
(* were dropped, which resync is for, or a broadcast came after the end of *)
(* its generation: the tracker keeps that one for the next state, although *)
(* the diff that takes it back may never reach this client.)  No presence  *)
(* is kept without metas, and types hold.                                  *)
StateBringsTruth ==
  LET lost == lagging \/ \E i \in DOMAIN events : events[i].kind = "Lagged"
  IN  /\ TypeOK
      /\ generation # 0 /\ outbox = <<>>
           /\ ~desynchronized /\ ~lost /\ ~stray =>
         ApplyState(Drained, StateFrame(generation, present)).tracker.state
           = present

(* An application that follows the events has been told of everyone in the *)
(* state, until a second state arrives for one join.  (That one may report *)
(* a meta as joined and then as left, and leave it in the state, when a    *)
(* diff queued before it adds the meta once more.)                         *)
ReportsCoverState ==
  pending = <<>> /\ ~desynchronized /\ ~restated =>
    \A k \in Keys : MetasOf(tracker.state, k) \subseteq MetasOf(reported, k)

(* README.md:153 "combines presence_state and presence_diff messages into  *)
(* a current PresenceState": a tracker that has the state of the present   *)
(* join and has taken every event after it has the server's presences.     *)
Settled ==
  /\ generation # 0 /\ tracker.join_ref = generation
  /\ events = <<>> /\ ~lagging /\ ~desynchronized
  /\ outbox = <<>> /\ reading = <<>>

FollowsTheServer == Settled => tracker.state = present

(* The same for a server that pushes the diffs with the join's reference.  *)
FollowsPushedDiffs == intercepts => FollowsTheServer
=============================================================================
