----------------------------- MODULE EventStream -----------------------------
(***************************************************************************)
(* One subscriber of socket or channel events: the bounded queue           *)
(* `send_bounded` fills without waiting and the subscriber empties.  A     *)
(* queue of `event_capacity` holds one item more, the slot futures' mpsc   *)
(* guarantees its only sender.                                             *)
(*                                                                         *)
(* Events are numbered in the order they are emitted; an item is an event, *)
(* or a Lagged event that stands for `count` dropped ones, the last of     *)
(* them number `upto`.                                                     *)
(***************************************************************************)
EXTENDS Naturals, Sequences

CONSTANTS
  Capacity,    \* Options.event_capacity, at least 1
  MaxEvents    \* bound on the events emitted

ASSUME CapacityAssumption == Capacity \in Nat \ {0} /\ MaxEvents \in Nat

VARIABLES
  emitted,      \* number of events emitted since the subscription
  dropped,      \* EventSubscriber.dropped
  queue,        \* items on their way to the subscriber
  known,        \* number of events the subscriber has received or been told of
  listening,    \* the subscriber has not been dropped
  subscribed    \* the driver still has it in its list

vars == <<emitted, dropped, queue, known, listening, subscribed>>

Item == [kind : {"event", "lagged"}, count : Nat \ {0}, upto : Nat]

Event(n) == [kind |-> "event", count |-> 1, upto |-> n]

Lagged(n, count) == [kind |-> "lagged", count |-> count, upto |-> n]

(* Mutation: no slot beyond the capacity.                                  *)
HasRoomForCapacity(q) == Len(q) < Capacity

HasRoom(q) == Len(q) <= Capacity

Init ==
  /\ emitted = 0
  /\ dropped = 0
  /\ queue = <<>>
  /\ known = 0
  /\ listening = TRUE
  /\ subscribed = TRUE

(* The event itself, after what there was to report; a full queue drops it.*)
SendEvent(q, n) ==
  IF HasRoom(q) THEN queue' = Append(q, Event(n)) /\ dropped' = 0
                ELSE queue' = q /\ dropped' = 1

(* Mutation: a lag that could not be reported is counted from one again.   *)
SendToLaggingAnew(n) ==
  IF HasRoom(queue)
    THEN SendEvent(Append(queue, Lagged(n - 1, dropped)), n)
    ELSE dropped' = 1 /\ UNCHANGED queue

(* A subscriber that fell behind is told so first, if it can be.           *)
SendToLagging(n) ==
  IF HasRoom(queue)
    THEN SendEvent(Append(queue, Lagged(n - 1, dropped)), n)
    ELSE dropped' = dropped + 1 /\ UNCHANGED queue

(* send_bounded: one event for this subscriber, who is removed once its    *)
(* receiver is gone.                                                       *)
Emit ==
  /\ subscribed
  /\ emitted < MaxEvents
  /\ emitted' = emitted + 1
  /\ IF listening
       THEN /\ IF dropped > 0 THEN SendToLagging(emitted')
                              ELSE SendEvent(queue, emitted')
            /\ UNCHANGED subscribed
       ELSE subscribed' = FALSE /\ UNCHANGED <<dropped, queue>>
  /\ UNCHANGED <<known, listening>>

(* SocketEvents::next or ChannelEvents::next.                              *)
Receive ==
  /\ listening
  /\ queue # <<>>
  /\ queue' = Tail(queue)
  /\ known' = known + Head(queue).count
  /\ UNCHANGED <<emitted, dropped, listening, subscribed>>

Unsubscribe ==
  /\ listening
  /\ listening' = FALSE
  /\ queue' = <<>>
  /\ UNCHANGED <<emitted, dropped, known, subscribed>>

Next == Emit \/ Receive \/ Unsubscribe

Spec == Init /\ [][Next]_vars

---------------------------------------------------------------------------
(* Every variable has its type; the queue keeps to its slots.              *)
TypeOK ==
  /\ emitted \in 0..MaxEvents
  /\ dropped \in Nat
  /\ queue \in Seq(Item) /\ Len(queue) <= Capacity + 1
  /\ known \in Nat
  /\ listening \in BOOLEAN /\ subscribed \in BOOLEAN

(* Where the subscriber stands before it receives item i.                  *)
Before(i) == IF i = 1 THEN known ELSE queue[i - 1].upto

(* README.md:137 "Event streams are bounded and report how many events     *)
(* were dropped when a subscriber falls behind": every event is either     *)
(* received in its place, or counted, once, in a Lagged event in its       *)
(* place, or still to be reported.                                         *)
GapsAreReported ==
  listening =>
    /\ \A i \in 1..Len(queue) : queue[i].upto = Before(i) + queue[i].count
    /\ emitted = Before(Len(queue) + 1) + dropped

(* A subscriber that has caught up with its queue receives the next event, *)
(* however far behind it was before, and is told of its gap.               *)
CaughtUpMissesNothing ==
  [][queue = <<>> /\ listening /\ emitted' # emitted =>
       /\ dropped' = 0
       /\ Event(emitted') \in {queue'[i] : i \in 1..Len(queue')}]_vars
=============================================================================
