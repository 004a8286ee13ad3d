------------------------------ MODULE Observers ------------------------------
(***************************************************************************)
(* What an application sees of a socket: emit_socket sets the status and   *)
(* sends the event in one step of the driver, while the subscriber of      *)
(* EventStream and the watchers of StatusWatch come, look and go.          *)
(***************************************************************************)
EXTENDS EventStream

CONSTANTS OpenStatuses, Watchers

VARIABLES value, senders, owners, watching, tokens, news

S == INSTANCE StatusWatch

watch == <<value, senders, owners, watching, tokens, news>>

observers == <<vars, watch>>

(* Not every event changes the status; Closed is the last one.             *)
EmitSocket ==
  /\ "driver" \in owners
  /\ Emit \/ (~subscribed /\ UNCHANGED vars)
  /\ \/ \E v \in S!Statuses : S!DriverSets(v)
     \/ S!DriverEnds
     \/ UNCHANGED watch

LookAtStatus ==
  \/ S!DriverEnds \/ S!HandleDropped
  \/ \E w \in Watchers : S!Subscribe(w) \/ S!Changed(w) \/ S!Unwatch(w)

ObserversInit == Init /\ S!Init

ObserversNext ==
  \/ EmitSocket
  \/ (Receive \/ Unsubscribe) /\ UNCHANGED watch
  \/ LookAtStatus /\ UNCHANGED vars

ObserversSpec == ObserversInit /\ [][ObserversNext]_observers

(* The property of StatusWatch, of the same behaviours.                    *)
NoLostWakeUp == S!NoLostWakeUp
=============================================================================
