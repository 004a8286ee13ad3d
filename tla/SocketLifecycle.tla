--------------------------- MODULE SocketLifecycle ---------------------------
(***************************************************************************)
(* What the documentation of Socket promises about its status.  connect    *)
(* "enables connection attempts": a socket that is Disconnected stays so   *)
(* until a connect is accepted.  disconnect "disables automatic            *)
(* reconnection": after it nothing is attempted until the next connect.  A *)
(* connection that failed or was lost is retried after a wait, or given up *)
(* until the next connect.  A closed socket stays closed.                  *)
(***************************************************************************)
VARIABLES
  status,        \* SocketStatus
  disconnected   \* a disconnect was accepted, and no connect since

vars == <<status, disconnected>>

Init ==
  /\ status \in {"Connecting", "Disconnected"}
  /\ disconnected = FALSE

Connect ==
  /\ status # "Closed"
  /\ status' = IF status = "Disconnected" THEN "Connecting" ELSE status
  /\ disconnected' = FALSE

Disconnect ==
  /\ status # "Closed"
  /\ status' = "Disconnected"
  /\ disconnected' = TRUE

Establish ==
  /\ ~disconnected
  /\ status = "Connecting" /\ status' = "Connected"
  /\ UNCHANGED disconnected

(* The attempt failed or the connection was lost: a retry is due, or none. *)
Lose ==
  /\ status \in {"Connecting", "Connected"}
  /\ status' \in {"WaitingToReconnect", "Disconnected"}
  /\ UNCHANGED disconnected

Retry ==
  /\ ~disconnected
  /\ status = "WaitingToReconnect" /\ status' = "Connecting"
  /\ UNCHANGED disconnected

Close ==
  /\ status' = "Closed"
  /\ UNCHANGED disconnected

Next == Connect \/ Disconnect \/ Establish \/ Lose \/ Retry \/ Close

Spec == Init /\ [][Next]_vars
=============================================================================
