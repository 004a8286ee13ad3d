----------------------------- MODULE StatusWatch -----------------------------
(***************************************************************************)
(* ObservableStatus: the status cell a Socket or a Channel shares with the *)
(* driver, and the StatusChanges streams that watch it.  Every watcher has *)
(* a channel of empty tokens: mpsc::channel(1) holds two, one for the      *)
(* buffer and one for its only sender.                                     *)
(*                                                                         *)
(* The cell is reference counted.  The senders are inside it and a         *)
(* StatusChanges owns a reference to it besides its receiver.              *)
(***************************************************************************)
EXTENDS Naturals, FiniteSets

CONSTANTS
  OpenStatuses,    \* SocketStatus or ChannelStatus, but Closed
  Watchers         \* every stream that will ever be made

Statuses == OpenStatuses \cup {"Closed"}

Slots == 2

VARIABLES
  value,      \* ObservableStatus.value
  senders,    \* ObservableStatus.subscribers
  owners,     \* who holds the cell, apart from the watchers
  watching,   \* the StatusChanges in use
  tokens,     \* tokens in the channel of each watcher
  news        \* history: watchers for whom the status has changed since
              \* they subscribed or `changed` returned last

vars == <<value, senders, owners, watching, tokens, news>>

Init ==
  /\ value \in Statuses
  /\ senders = {}
  /\ owners = {"handle", "driver"}
  /\ watching = {}
  /\ tokens = [w \in Watchers |-> 0]
  /\ news = {}

(* Mutation: a full channel is taken for one whose receiver is gone.       *)
NotifyDroppingFull ==
  LET free == {w \in senders \cap watching : tokens[w] < Slots}
  IN  /\ senders' = free
      /\ tokens' = [w \in Watchers |->
                      IF w \in free THEN tokens[w] + 1 ELSE tokens[w]]

(* try_send to every subscriber: one that is full keeps what it has, one   *)
(* without a receiver is removed.                                          *)
Notify ==
  /\ senders' = senders \cap watching
  /\ tokens' = [w \in Watchers |->
                  IF w \in senders' /\ tokens[w] < Slots THEN tokens[w] + 1
                                                         ELSE tokens[w]]

Set(v) ==
  /\ value' = v
  /\ IF value = v THEN UNCHANGED <<senders, tokens, news>>
                  ELSE Notify /\ news' = watching

(* The driver changes the status.                                          *)
DriverSets(v) ==
  /\ "driver" \in owners
  /\ v # value
  /\ Set(v)
  /\ UNCHANGED <<owners, watching>>

(* A socket's driver closes every status when it ends, and Channel::drop   *)
(* its own; a driver that is dropped or forgets a channel, or the drop of  *)
(* a Socket, sets nothing.                                                 *)
Released(owner) ==
  /\ owner \in owners
  /\ Set("Closed") \/ UNCHANGED <<value, senders, tokens, news>>
  /\ owners' = owners \ {owner}
  /\ UNCHANGED watching

DriverEnds == Released("driver")

HandleDropped == Released("handle")

(* status_changes                                                          *)
Subscribe(w) ==
  /\ "handle" \in owners
  /\ w \notin watching \cup senders
  /\ watching' = watching \cup {w}
  /\ senders' = senders \cup {w}
  /\ tokens' = [tokens EXCEPT ![w] = 0]
  /\ news' = news \ {w}
  /\ UNCHANGED <<value, owners>>

(* StatusChanges::changed returns.                                         *)
Changed(w) ==
  /\ w \in watching
  /\ tokens[w] > 0
  /\ tokens' = [tokens EXCEPT ![w] = @ - 1]
  /\ news' = news \ {w}
  /\ UNCHANGED <<value, senders, owners, watching>>

(* The StatusChanges is dropped; its sender stays until the next change.   *)
Unwatch(w) ==
  /\ w \in watching
  /\ watching' = watching \ {w}
  /\ news' = news \ {w}
  /\ UNCHANGED <<value, senders, owners, tokens>>

Next ==
  \/ \E v \in Statuses : DriverSets(v)
  \/ DriverEnds \/ HandleDropped
  \/ \E w \in Watchers : Subscribe(w) \/ Changed(w) \/ Unwatch(w)

Spec == Init /\ [][Next]_vars

---------------------------------------------------------------------------
(* Every variable has its type.                                            *)
TypeOK ==
  /\ value \in Statuses
  /\ senders \subseteq Watchers /\ watching \subseteq Watchers
  /\ owners \subseteq {"handle", "driver"}
  /\ tokens \in [Watchers -> 0..Slots]
  /\ news \subseteq Watchers

(* A change is never missed: a watcher that has not looked since has a     *)
(* token to wake up for, although tokens are thrown away when two of them  *)
(* wait already and none carries a value.                                  *)
NoLostWakeUp == \A w \in news : w \in watching /\ tokens[w] > 0
=============================================================================
