---------------------------- MODULE PageLifecycle ----------------------------
(***************************************************************************)
(* WebLifecycle: listeners of a page that disconnect the socket when the   *)
(* page is hidden or the network goes, and connect it when they come back. *)
(* A listener looks at the status and spawns a task that sends a command;  *)
(* the driver takes it any time later, and the status may have changed by  *)
(* then.  The application sends commands of its own.                       *)
(*                                                                         *)
(* The socket is the one SocketLifecycle promises and Connection delivers. *)
(* A clone of the command sender always has a slot, and tasks run in the   *)
(* order they were spawned: a command is queued when its task is spawned.  *)
(***************************************************************************)
EXTENDS Naturals, Sequences, SequencesExt

CONSTANT MaxEvents   \* bound on the events of page and application

ASSUME PageBounds == MaxEvents \in Nat

VARIABLES
  status, disconnected,    \* the socket, as in SocketLifecycle
  commands,                \* the command queue
  reconnecting,            \* reconnect()s whose disconnect was answered
  resume_after_page_show,  \* the flags the listeners share
  resume_after_online,
  shown, visible, online,  \* the page
  attached,                \* the WebLifecycle has not been dropped
  wanted,                  \* history: the application asked for a connection
                           \* last, and the driver has not given it up
  stirred,                 \* history: since page or network went, something
                           \* else has asked for a connection
  count                    \* events so far

socketVars == <<status, disconnected>>
flags == <<resume_after_page_show, resume_after_online>>
pageVars == <<shown, visible, online, attached>>
vars == <<socketVars, commands, reconnecting, flags, pageVars, wanted, stirred,
          count>>

Socket == INSTANCE SocketLifecycle

Init ==
  /\ Socket!Init
  /\ commands = <<>> /\ reconnecting = 0
  /\ resume_after_page_show = FALSE /\ resume_after_online = FALSE
  /\ shown = TRUE /\ visible = TRUE /\ online = TRUE /\ attached = TRUE
  /\ wanted = (status = "Connecting")
  /\ stirred = TRUE
  /\ count = 0

Event == count < MaxEvents /\ count' = count + 1

Send(command) == commands' = Append(commands, command)

(* Mutation: a socket that waits to reconnect is left alone.               *)
IsConnecting(s) == s \in {"Connecting", "Connected"}

IsActive(s) == s \in {"Connecting", "Connected", "WaitingToReconnect"}

(* Something queued or under way will still connect the socket.            *)
ConnectComes ==
  reconnecting > 0 \/ \E i \in DOMAIN commands : commands[i] # "disconnect"

---------------------------------------------------------------------------
(* The listeners.                                                          *)

(* Mutation: the flag is set once the disconnect is answered, too late for *)
(* a page that is shown at once.                                           *)
SuspendUnflagged(resume) == Send("disconnect") /\ UNCHANGED resume

Suspend(resume) == Send("disconnect") /\ resume' = TRUE

(* pagehide, offline: a socket that is active is to be resumed.            *)
Away(resume) ==
  /\ IF attached /\ IsActive(status)
       THEN Suspend(resume)
       ELSE UNCHANGED <<commands, resume>>
  /\ stirred' = (ConnectComes \/ ~attached)
  /\ UNCHANGED <<socketVars, reconnecting, attached, wanted>>

(* Mutation: the resume asks the status, which is that of before the       *)
(* disconnect.                                                             *)
ResumeDisconnected(resume) ==
  /\ resume' = FALSE
  /\ IF resume /\ status = "Disconnected"
       THEN Send("connect") /\ stirred' = TRUE
       ELSE UNCHANGED <<commands, stirred>>

Resume(resume) ==
  /\ resume' = FALSE
  /\ IF resume THEN Send("connect") /\ stirred' = TRUE
               ELSE UNCHANGED <<commands, stirred>>

(* pageshow, online: it is, once.                                          *)
Back(resume) ==
  /\ IF attached THEN Resume(resume)
                 ELSE UNCHANGED <<resume, commands, stirred>>
  /\ UNCHANGED <<socketVars, reconnecting, attached, wanted>>

PageHide ==
  /\ Event /\ shown /\ shown' = FALSE
  /\ Away(resume_after_page_show)
  /\ UNCHANGED <<resume_after_online, visible, online>>

PageShow ==
  /\ Event /\ ~shown /\ shown' = TRUE
  /\ Back(resume_after_page_show)
  /\ UNCHANGED <<resume_after_online, visible, online>>

Offline ==
  /\ Event /\ online /\ online' = FALSE
  /\ Away(resume_after_online)
  /\ UNCHANGED <<resume_after_page_show, shown, visible>>

Online ==
  /\ Event /\ ~online /\ online' = TRUE
  /\ Back(resume_after_online)
  /\ UNCHANGED <<resume_after_page_show, shown, visible>>

(* A page that becomes visible does not wait for the reconnect delay.      *)
VisibilityChange ==
  /\ Event /\ visible' = ~visible
  /\ IF attached /\ visible' /\ status = "WaitingToReconnect"
       THEN Send("reconnect") /\ stirred' = TRUE
       ELSE UNCHANGED <<commands, stirred>>
  /\ UNCHANGED <<socketVars, reconnecting, flags, shown, online, attached,
                 wanted>>

(* The listeners are removed; the tasks they have spawned go on.           *)
Drop ==
  /\ attached /\ attached' = FALSE
  /\ UNCHANGED <<socketVars, commands, reconnecting, flags, shown, visible,
                 online, wanted, stirred, count>>

---------------------------------------------------------------------------
(* Socket::connect, disconnect and reconnect, called by the application.   *)

Call(command) ==
  /\ Event
  /\ Send(command)
  /\ wanted' = (command # "disconnect")
  /\ stirred' = (stirred \/ wanted')
  /\ UNCHANGED <<socketVars, reconnecting, flags, pageVars>>

(* The second half of reconnect().                                         *)
Reconnected ==
  /\ reconnecting > 0
  /\ reconnecting' = reconnecting - 1
  /\ Send("connect")
  /\ UNCHANGED <<socketVars, flags, pageVars, wanted, stirred, count>>

(* The driver takes a command and answers it.                              *)
TakeCommand ==
  /\ commands # <<>>
  /\ commands' = Tail(commands)
  /\ IF Head(commands) = "connect" THEN Socket!Connect ELSE Socket!Disconnect
  /\ reconnecting' = IF Head(commands) = "reconnect" THEN reconnecting + 1
                                                     ELSE reconnecting
  /\ UNCHANGED <<flags, pageVars, wanted, stirred, count>>

(* Attempts succeed or fail, connections are lost, and the policy of the   *)
(* application may give up.                                                *)
Connection ==
  /\ Socket!Establish \/ Socket!Lose \/ Socket!Retry
  /\ wanted' = (wanted /\ status' # "Disconnected")
  /\ UNCHANGED <<commands, reconnecting, flags, pageVars, stirred, count>>

Next ==
  \/ PageHide \/ PageShow \/ Offline \/ Online \/ VisibilityChange \/ Drop
  \/ \E command \in {"connect", "disconnect", "reconnect"} : Call(command)
  \/ Reconnected \/ TakeCommand \/ Connection

(* The driver is polled, its transport returns from every send and close   *)
(* (TransportReturns in Connection), and the task of a reconnect is polled.*)
Spec == Init /\ [][Next]_vars /\ WF_vars(TakeCommand) /\ WF_vars(Reconnected)

---------------------------------------------------------------------------
(* Every variable has its type, and a flag stands for a page that is       *)
(* hidden, or a network that is gone, now.                                 *)
TypeOK ==
  /\ IsActive(status) \/ status = "Disconnected"
  /\ disconnected \in BOOLEAN
  /\ commands \in Seq({"connect", "disconnect", "reconnect"})
  /\ reconnecting \in Nat
  /\ {resume_after_page_show, resume_after_online, shown, visible, online,
      wanted, stirred} \subseteq BOOLEAN
  /\ attached => /\ resume_after_page_show => ~shown
                 /\ resume_after_online => ~online

(* What the listeners take from the application they owe it: a socket it   *)
(* wants is active, or will be by what is queued, or is down while page or *)
(* network are away, with the flag that brings it back.  No interleaving   *)
(* of callbacks with the commands of earlier ones loses it, nor one of the *)
(* application's own calls.  (Unless the WebLifecycle was dropped.)  Types *)
(* hold as well, and a flag never outlasts the absence it stands for.      *)
WantedIsOwed ==
  /\ TypeOK
  /\ wanted /\ attached =>
       \/ IF commands = <<>> THEN IsActive(status)
                            ELSE Last(commands) = "connect"
       \/ reconnecting > 0 \/ "reconnect" \in ToSet(commands)
       \/ resume_after_page_show \/ resume_after_online

(* A page that was hidden, or lost its network, lets go of the socket, in  *)
(* whatever state it was, and keeps it so when the retry would be due:     *)
(* until something else asks for a connection.                             *)
AwayIsSuspended ==
  ~(shown /\ online) /\ ~stirred /\ commands = <<>> => ~IsActive(status)

(* README.md:32 of the crate, "disconnects and resumes the socket": when   *)
(* page and network are back for good, so is a socket that is wanted.      *)
ResumedWhenBack ==
  <>[](shown /\ online /\ attached /\ wanted) => <>[]IsActive(status)
=============================================================================
