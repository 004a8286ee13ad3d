--------------------------- MODULE ObserversProofs ---------------------------
(***************************************************************************)
(* What is proved about EventStream, StatusWatch and their composition     *)
(* Observers, for every capacity the options allow, any number of events,  *)
(* any statuses and any number of watchers.                                *)
(***************************************************************************)
EXTENDS Observers, TLAPS

---------------------------------------------------------------------------
(* Event streams.                                                          *)

(* Appending to a queue, and taking its first item, item by item.          *)
LEMMA QueueFacts ==
  ASSUME NEW q \in Seq(Item), NEW item \in Item
  PROVE  /\ Append(q, item) \in Seq(Item)
         /\ Len(Append(q, item)) = Len(q) + 1
         /\ Append(q, item)[Len(q) + 1] = item
         /\ \A i \in 1..Len(q) : Append(q, item)[i] = q[i]
         /\ q # <<>> => /\ Tail(q) \in Seq(Item)
                       /\ Len(Tail(q)) = Len(q) - 1
                       /\ \A i \in 1..Len(q) - 1 : Tail(q)[i] = q[i + 1]
                       /\ Head(q) = q[1] /\ q[1] \in Item
         /\ \A i \in 1..Len(q) : q[i] \in Item
         /\ Len(q) \in Nat
OBVIOUS

(* The items of send_bounded are well formed.                              *)
LEMMA ItemTypes ==
  ASSUME NEW n \in Nat \ {0}, NEW count \in Nat \ {0}
  PROVE  Event(n) \in Item /\ Lagged(n - 1, count) \in Item
BY DEF Event, Lagged, Item

(* Every item of q stands where the item before it, or `known`, ends.      *)
Chained(q, from) ==
  \A i \in 1..Len(q) :
    q[i].upto = (IF i = 1 THEN from ELSE q[i - 1].upto) + q[i].count

(* Where a subscriber stands that was at `from` and received all of q.     *)
End(q, from) == IF q = <<>> THEN from ELSE q[Len(q)].upto

(* An item that continues a chain lengthens it.                            *)
LEMMA AppendChains ==
  ASSUME NEW q \in Seq(Item), NEW from \in Nat, NEW item \in Item,
         Chained(q, from), item.upto = End(q, from) + item.count
  PROVE  /\ Chained(Append(q, item), from)
         /\ End(Append(q, item), from) = item.upto
<1> DEFINE r == Append(q, item)
<1>1. /\ Len(q) \in Nat /\ Len(r) = Len(q) + 1
      /\ r[Len(q) + 1] = item
      /\ \A i \in 1..Len(q) : r[i] = q[i]
      /\ r # <<>>
      /\ q = <<>> <=> Len(q) = 0
  OBVIOUS
<1> HIDE DEF r
<1>2. End(r, from) = item.upto
  BY <1>1 DEF End
<1>3. ASSUME NEW i \in 1..Len(q)
      PROVE  r[i].upto = (IF i = 1 THEN from ELSE r[i - 1].upto) + r[i].count
  BY <1>1 DEF Chained
<1>4. item.upto =
        (IF Len(q) + 1 = 1 THEN from ELSE r[Len(q)].upto) + item.count
  BY <1>1 DEF End
<1>5. Chained(r, from)
  BY <1>1, <1>3, <1>4 DEF Chained
<1> QED BY <1>2, <1>5 DEF r

(* Receiving the first item leaves the rest of a chain.                    *)
LEMMA TailChains ==
  ASSUME NEW q \in Seq(Item), q # <<>>, NEW from \in Nat, Chained(q, from)
  PROVE  /\ Chained(Tail(q), from + Head(q).count)
         /\ End(Tail(q), from + Head(q).count) = End(q, from)
<1> DEFINE r == Tail(q)
<1>1. /\ Len(q) \in Nat \ {0} /\ Len(r) = Len(q) - 1
      /\ \A i \in 1..Len(r) : r[i] = q[i + 1]
      /\ r = <<>> <=> Len(q) = 1
      /\ Head(q) = q[1]
  <2>1. /\ Len(q) \in Nat \ {0} /\ Len(r) = Len(q) - 1 /\ Head(q) = q[1]
        /\ \A i \in 1..Len(q) - 1 : r[i] = q[i + 1]
        /\ r \in Seq(Item)
    OBVIOUS
  <2> HIDE DEF r
  <2>2. r = <<>> <=> Len(r) = 0
    BY <2>1
  <2> QED BY <2>1, <2>2
<1>2. q[1].upto = from + Head(q).count
  BY <1>1 DEF Chained
<1> HIDE DEF r
<1>3. ASSUME NEW i \in 1..Len(r)
      PROVE  r[i].upto =
               (IF i = 1 THEN from + Head(q).count ELSE r[i - 1].upto) + r[i].count
  <2>1. i + 1 \in 1..Len(q) /\ r[i] = q[i + 1] /\ (i + 1) - 1 = i
    BY <1>1
  <2>2. q[i + 1].upto = q[i].upto + q[i + 1].count
    BY <2>1 DEF Chained
  <2>3. i # 1 => i - 1 \in 1..Len(r) /\ r[i - 1] = q[i]
    BY <1>1
  <2> QED BY <1>2, <2>1, <2>2, <2>3
<1>4. End(r, from + Head(q).count) = End(q, from)
  <2>1. CASE r = <<>>
    BY <1>1, <1>2, <2>1 DEF End
  <2>2. CASE r # <<>>
    <3>1. Len(r) \in 1..Len(r) /\ r[Len(r)] = q[Len(q)]
      BY <1>1, <2>2
    <3> QED BY <2>2, <3>1 DEF End
  <2> QED BY <2>1, <2>2
<1> QED BY <1>3, <1>4 DEF Chained, r

(* Where the subscriber stands before the slot after the last item.       *)
LEMMA EndIsBefore ==
  ASSUME NEW q \in Seq(Item), NEW from
  PROVE  End(q, from) =
           (IF Len(q) + 1 = 1 THEN from ELSE q[(Len(q) + 1) - 1].upto)
<1>1. Len(q) \in Nat /\ (q = <<>> <=> Len(q) = 0)
  OBVIOUS
<1> QED BY <1>1 DEF End

(* A chain ends at a number.                                               *)
LEMMA EndIsNat ==
  ASSUME NEW q \in Seq(Item), NEW from \in Nat
  PROVE  End(q, from) \in Nat
<1>1. CASE q = <<>>
  BY <1>1 DEF End
<1>2. CASE q # <<>>
  <2>1. Len(q) \in 1..Len(q)
    BY <1>2
  <2>2. q[Len(q)] \in Item
    BY <2>1, QueueFacts
  <2> QED BY <1>2, <2>2 DEF End, Item
<1> QED BY <1>1, <1>2

(* GapsAreReported, said of the chain.                                     *)
LEMMA GapsAreChained ==
  ASSUME TypeOK
  PROVE  GapsAreReported <=>
           (listening => /\ Chained(queue, known)
                         /\ emitted = End(queue, known) + dropped)
<1>1. Before(Len(queue) + 1) = End(queue, known)
  BY EndIsBefore DEF TypeOK, Before
<1>2. Chained(queue, known) <=>
        \A i \in 1..Len(queue) : queue[i].upto = Before(i) + queue[i].count
  BY DEF Chained, Before
<1> QED BY <1>1, <1>2 DEF GapsAreReported

(* The same of the next state.                                             *)
LEMMA NextGapsAreChained ==
  ASSUME TypeOK', Chained(queue', known'),
         emitted' = End(queue', known') + dropped'
  PROVE  GapsAreReported'
<1>1. Before(Len(queue) + 1)' = End(queue', known')
  BY EndIsBefore DEF TypeOK, Before
<1>2. \A i \in 1..Len(queue') :
        queue'[i].upto = Before(i)' + queue'[i].count
  BY DEF Chained, Before
<1> QED BY <1>1, <1>2 DEF GapsAreReported

(***************************************************************************)
(* The inductive invariant of a stream.  What the driver may do to a queue *)
(* is seen in two steps: an optional Lagged item, then the event.          *)
(***************************************************************************)
Account == TypeOK /\ GapsAreReported

(* The event goes to the end of the queue or is counted.                   *)
LEMMA EventSent ==
  ASSUME NEW q \in Seq(Item), Len(q) <= Capacity + 1, NEW from \in Nat,
         NEW n \in Nat \ {0}, Chained(q, from), n = End(q, from) + 1,
         SendEvent(q, n)
  PROVE  /\ queue' \in Seq(Item) /\ Len(queue') <= Capacity + 1
         /\ dropped' \in Nat
         /\ Chained(queue', from) /\ n = End(queue', from) + dropped'
<1>1. Event(n) \in Item /\ Event(n).upto = n /\ Event(n).count = 1
  BY ItemTypes DEF Event
<1>2. CASE HasRoom(q)
  <2>1. queue' = Append(q, Event(n)) /\ dropped' = 0
    BY <1>2 DEF SendEvent
  <2>2. Chained(queue', from) /\ End(queue', from) = n
    BY <1>1, <2>1, AppendChains
  <2>3. queue' \in Seq(Item) /\ Len(queue') <= Capacity + 1
    BY <1>1, <1>2, <2>1, QueueFacts, CapacityAssumption DEF HasRoom
  <2> QED BY <2>1, <2>2, <2>3
<1>3. CASE ~HasRoom(q)
  BY <1>3 DEF SendEvent
<1> QED BY <1>2, <1>3

(* send_bounded keeps the account of a subscriber that listens.            *)
LEMMA EmitKeeps ==
  ASSUME Account, Emit, listening
  PROVE  Account'
<1>1. /\ queue \in Seq(Item) /\ Len(queue) <= Capacity + 1
      /\ known \in Nat /\ dropped \in Nat /\ emitted \in Nat
      /\ Chained(queue, known) /\ emitted = End(queue, known) + dropped
  BY GapsAreChained DEF Account, TypeOK
<1>2. /\ emitted' = emitted + 1 /\ emitted' \in 0..MaxEvents
      /\ known' = known /\ listening' = listening
      /\ subscribed' = subscribed
  BY CapacityAssumption DEF Emit, Account, TypeOK
<1>3. End(queue, known) \in Nat
  BY <1>1, EndIsNat
<1>4. /\ queue' \in Seq(Item) /\ Len(queue') <= Capacity + 1
      /\ dropped' \in Nat
      /\ Chained(queue', known) /\ emitted' = End(queue', known) + dropped'
  <2>1. CASE dropped = 0
    <3>1. SendEvent(queue, emitted')
      <4>1. ~(dropped > 0)
        BY <2>1
      <4> QED BY <4>1 DEF Emit
    <3>2. emitted' \in Nat \ {0} /\ emitted' = End(queue, known) + 1
      BY <1>1, <1>2, <1>3, <2>1
    <3> QED BY <1>1, <3>1, <3>2, EventSent
  <2>2. CASE dropped # 0 /\ HasRoom(queue)
    <3> DEFINE lag == Lagged(emitted, dropped)
               q == Append(queue, lag)
    <3>1. SendEvent(q, emitted')
      BY <1>1, <1>2, <2>2 DEF Emit, SendToLagging
    <3>2. lag \in Item /\ lag.upto = emitted /\ lag.count = dropped
      BY <1>1, <2>2 DEF Lagged, Item
    <3>3. Chained(q, known) /\ End(q, known) = emitted
      <4> HIDE DEF lag
      <4> QED BY <1>1, <3>2, AppendChains
    <3>4. q \in Seq(Item) /\ Len(q) <= Capacity + 1
      BY <1>1, <2>2, <3>2, QueueFacts, CapacityAssumption DEF HasRoom
    <3> HIDE DEF q
    <3> QED BY <1>1, <1>2, <3>1, <3>3, <3>4, EventSent
  <2>3. CASE dropped # 0 /\ ~HasRoom(queue)
    <3>1. queue' = queue /\ dropped' = dropped + 1
      BY <1>1, <2>3 DEF Emit, SendToLagging
    <3> QED BY <1>1, <1>2, <1>3, <3>1
  <2> QED BY <2>1, <2>2, <2>3
<1>5. TypeOK'
  BY <1>1, <1>2, <1>4 DEF Account, TypeOK
<1> QED BY <1>2, <1>4, <1>5, NextGapsAreChained DEF Account

(* So does the subscriber when it takes the next item.                     *)
LEMMA ReceiveKeeps ==
  ASSUME Account, Receive
  PROVE  Account'
<1>1. /\ queue \in Seq(Item) /\ Len(queue) <= Capacity + 1 /\ queue # <<>>
      /\ known \in Nat /\ dropped \in Nat /\ emitted \in 0..MaxEvents
      /\ Chained(queue, known) /\ emitted = End(queue, known) + dropped
  BY GapsAreChained DEF Account, TypeOK, Receive
<1>2. /\ Tail(queue) \in Seq(Item) /\ Len(Tail(queue)) = Len(queue) - 1
      /\ Len(queue) \in Nat /\ Head(queue).count \in Nat
  <2>1. Head(queue) \in Item
    BY <1>1
  <2> QED BY <1>1, <2>1, QueueFacts DEF Item
<1>3. TypeOK'
  BY <1>1, <1>2, CapacityAssumption DEF Receive, Account, TypeOK
<1>4. Chained(queue', known') /\ emitted' = End(queue', known') + dropped'
  BY <1>1, TailChains DEF Receive
<1> QED BY <1>3, <1>4, NextGapsAreChained DEF Account

(* The types, and that every event is received, or counted in a Lagged     *)
(* event in its place, or still to be reported.                            *)
THEOREM GapsReported == Spec => [](TypeOK /\ GapsAreReported)
<1>1. Init => Account
  BY CapacityAssumption
     DEF Init, Account, TypeOK, GapsAreReported, Before
<1>2. Account /\ [Next]_vars => Account'
  <2> SUFFICES ASSUME Account, [Next]_vars PROVE Account'
    OBVIOUS
  <2>1. CASE Emit /\ listening
    BY <2>1, EmitKeeps
  <2>2. CASE Emit /\ ~listening
    <3>1. /\ emitted' \in 0..MaxEvents /\ dropped' = dropped
          /\ queue' = queue /\ known' = known /\ listening' = listening
          /\ subscribed' = FALSE
      BY <2>2, CapacityAssumption DEF Emit, Account, TypeOK
    <3>2. TypeOK'
      BY <3>1 DEF Account, TypeOK
    <3> QED BY <2>2, <3>1, <3>2 DEF Account, GapsAreReported
  <2>3. CASE Receive
    BY <2>3, ReceiveKeeps
  <2>4. CASE Unsubscribe
    <3>1. queue' = <<>> /\ ~listening'
      BY <2>4 DEF Unsubscribe
    <3>2. queue' \in Seq(Item) /\ Len(queue') <= Capacity + 1
      BY <3>1, CapacityAssumption
    <3>3. TypeOK'
      BY <2>4, <3>2 DEF Unsubscribe, Account, TypeOK
    <3> QED BY <3>1, <3>3 DEF Account, GapsAreReported
  <2>5. CASE UNCHANGED vars
    BY <2>5 DEF vars, Account, TypeOK, GapsAreReported, Before
  <2> QED BY <2>1, <2>2, <2>3, <2>4, <2>5 DEF Next
<1> QED BY <1>1, <1>2, PTL DEF Spec, Account

(* A subscriber that has caught up gets the next event: two slots are      *)
(* enough for a Lagged event and the event, one would not be.              *)
THEOREM CaughtUp == Spec => CaughtUpMissesNothing
<1> DEFINE Step == queue = <<>> /\ listening /\ emitted' # emitted =>
                     /\ dropped' = 0
                     /\ Event(emitted') \in
                          {queue'[i] : i \in 1..Len(queue')}
<1>1. TypeOK /\ [Next]_vars => [Step]_vars
  <2> SUFFICES ASSUME TypeOK, Next, queue = <<>>, listening, emitted' # emitted
               PROVE  /\ dropped' = 0
                      /\ Event(emitted') \in
                           {queue'[i] : i \in 1..Len(queue')}
    OBVIOUS
  <2>1. Emit
    BY DEF Next, Receive, Unsubscribe
  <2>2. HasRoom(<<>>) /\ \A item : HasRoom(Append(<<>>, item))
    BY CapacityAssumption DEF HasRoom
  <2>3. PICK q \in {<<>>, <<Lagged(emitted' - 1, dropped)>>} :
          SendEvent(q, emitted') /\ HasRoom(q)
    BY <2>1, <2>2 DEF Emit, SendToLagging, TypeOK
  <2>4. queue' = Append(q, Event(emitted')) /\ dropped' = 0
    BY <2>3 DEF SendEvent
  <2>5. Len(queue') \in 1..Len(queue') /\ queue'[Len(queue')] = Event(emitted')
    BY <2>3, <2>4
  <2> QED BY <2>4, <2>5
<1> QED BY <1>1, GapsReported, PTL DEF Spec, CaughtUpMissesNothing

---------------------------------------------------------------------------
(* Observable status.  NoLostWakeUp is not inductive alone: that a watcher *)
(* in use is still among the subscribers is what makes a change reach it.  *)
Subscribed == watching \subseteq senders

Reached == S!TypeOK /\ Subscribed /\ NoLostWakeUp

(* A change reaches every watcher in use, and removes none of them.        *)
LEMMA SetReaches ==
  ASSUME Reached, NEW v \in S!Statuses, S!Set(v), UNCHANGED watching
  PROVE  /\ value' \in S!Statuses
         /\ senders' \subseteq Watchers /\ watching \subseteq senders'
         /\ tokens' \in [Watchers -> 0..S!Slots]
         /\ news' \subseteq Watchers
         /\ \A w \in news' : w \in watching /\ tokens'[w] > 0
<1> USE DEF Reached, S!TypeOK, Subscribed, NoLostWakeUp, S!NoLostWakeUp
<1>1. CASE value = v
  BY <1>1 DEF S!Set
<1>2. CASE value # v
  <2>1. /\ value' = v /\ senders' = senders \cap watching /\ news' = watching
        /\ tokens' = [w \in Watchers |->
                        IF w \in senders' /\ tokens[w] < S!Slots
                          THEN tokens[w] + 1 ELSE tokens[w]]
    BY <1>2 DEF S!Set, S!Notify
  <2>2. senders' = watching
    BY <2>1
  <2>3. ASSUME NEW w \in Watchers
        PROVE  tokens'[w] \in 0..S!Slots /\ (w \in watching => tokens'[w] > 0)
    <3>1. tokens[w] \in 0..2
      BY DEF S!Slots
    <3>2. tokens'[w] = IF w \in watching /\ tokens[w] < 2
                         THEN tokens[w] + 1 ELSE tokens[w]
      BY <2>1, <2>2 DEF S!Slots
    <3> QED BY <3>1, <3>2 DEF S!Slots
  <2> QED BY <2>1, <2>2, <2>3
<1> QED BY <1>1, <1>2

(* Every step of the driver and of the watchers keeps it.                  *)
LEMMA WatchStep ==
  ASSUME Reached, [S!Next]_(S!vars)
  PROVE  Reached'
<1> USE DEF Reached, S!TypeOK, Subscribed, NoLostWakeUp, S!NoLostWakeUp
<1>1. ASSUME NEW v \in S!Statuses, S!DriverSets(v)
      PROVE  Reached'
  BY <1>1, SetReaches DEF S!DriverSets
<1>2. ASSUME NEW owner \in {"driver", "handle"}, S!Released(owner)
      PROVE  Reached'
  <2>1. owners' \subseteq {"handle", "driver"} /\ UNCHANGED watching
    BY <1>2 DEF S!Released
  <2>2. CASE S!Set("Closed")
    BY <2>1, <2>2, SetReaches DEF S!Statuses
  <2>3. CASE UNCHANGED <<value, senders, tokens, news>>
    BY <2>1, <2>3
  <2> QED BY <1>2, <2>2, <2>3 DEF S!Released
<1>3. ASSUME NEW w \in Watchers, S!Subscribe(w)
      PROVE  Reached'
  BY <1>3 DEF S!Subscribe, S!Slots
<1>4. ASSUME NEW w \in Watchers, S!Changed(w)
      PROVE  Reached'
  BY <1>4 DEF S!Changed, S!Slots
<1>5. ASSUME NEW w \in Watchers, S!Unwatch(w)
      PROVE  Reached'
  BY <1>5 DEF S!Unwatch
<1>6. CASE UNCHANGED S!vars
  BY <1>6 DEF S!vars
<1> QED BY <1>1, <1>2, <1>3, <1>4, <1>5, <1>6
        DEF S!Next, S!DriverEnds, S!HandleDropped

(* Every variable has its type, and no watcher misses a change.            *)
THEOREM ChangesReach == S!Spec => [](S!TypeOK /\ NoLostWakeUp)
<1>1. S!Init => Reached
  BY DEF S!Init, Reached, S!TypeOK, Subscribed, NoLostWakeUp, S!NoLostWakeUp,
         S!Slots
<1>2. Reached /\ [S!Next]_(S!vars) => Reached'
  BY WatchStep
<1>3. Reached => S!TypeOK /\ NoLostWakeUp
  BY DEF Reached
<1> QED BY <1>1, <1>2, <1>3, PTL DEF S!Spec

---------------------------------------------------------------------------
(* The composition.  A step of an observed socket is a step of the stream  *)
(* or none, and a step of the status or none.                              *)
LEMMA ComposedStep ==
  [ObserversNext]_observers => [Next]_vars /\ [S!Next]_(S!vars)
<1> SUFFICES ASSUME [ObserversNext]_observers
             PROVE  [Next]_vars /\ [S!Next]_(S!vars)
  OBVIOUS
<1>1. CASE EmitSocket
  <2>1. [Next]_vars
    BY <1>1 DEF EmitSocket, Next
  <2>2. [S!Next]_(S!vars)
    BY <1>1 DEF EmitSocket, S!Next, watch, S!vars
  <2> QED BY <2>1, <2>2
<1>2. CASE (Receive \/ Unsubscribe) /\ UNCHANGED watch
  BY <1>2 DEF Next, watch, S!vars
<1>3. CASE LookAtStatus /\ UNCHANGED vars
  BY <1>3 DEF LookAtStatus, S!Next
<1>4. CASE UNCHANGED observers
  BY <1>4 DEF observers, watch, S!vars
<1> QED BY <1>1, <1>2, <1>3, <1>4 DEF ObserversNext

(* No watcher of an observed socket misses a change, whoever changes the   *)
(* status and whatever happens to the event streams meanwhile.             *)
THEOREM ObservedChanges == ObserversSpec => []NoLostWakeUp
<1>1. ObserversSpec => S!Spec
  <2>1. ObserversInit => S!Init
    BY DEF ObserversInit
  <2>2. [ObserversNext]_observers => [S!Next]_(S!vars)
    BY ComposedStep
  <2> QED BY <2>1, <2>2, PTL DEF ObserversSpec, S!Spec
<1> QED BY <1>1, ChangesReach, PTL

(* A watched socket serves its event stream as EventStream says: every     *)
(* event is accounted for, and who has caught up misses nothing.           *)
THEOREM ObservedEvents ==
  ObserversSpec => []GapsAreReported /\ CaughtUpMissesNothing
<1>1. ObserversSpec => Spec
  <2>1. ObserversInit => Init
    BY DEF ObserversInit
  <2>2. [ObserversNext]_observers => [Next]_vars
    BY ComposedStep
  <2> QED BY <2>1, <2>2, PTL DEF ObserversSpec, Spec
<1> QED BY <1>1, GapsReported, CaughtUp, PTL
=============================================================================
