------------------------- MODULE PageLifecycleProofs -------------------------
(***************************************************************************)
(* What is proved about PageLifecycle, for any number of events.           *)
(* WantedIsOwed is inductive as it stands.  AwayIsSuspended is not: while  *)
(* disconnects are queued the socket may still be active, and it is what   *)
(* the queue holds, and what no reconnect will add, that brings it down.   *)
(***************************************************************************)
EXTENDS PageLifecycle, TLAPS

Commands == {"connect", "disconnect", "reconnect"}

(* If nothing has asked for a connection, only disconnects are queued and  *)
(* the last one, when taken, leaves the socket inactive.                   *)
Quiet ==
  ~stirred => ~ConnectComes /\ (commands = <<>> => ~IsActive(status))

IInv == WantedIsOwed /\ Quiet

LEMMA EmptyQueue ==
  ASSUME NEW s \in Seq(Commands)
  PROVE  s = <<>> <=> Len(s) = 0
OBVIOUS

(* A command that is queued becomes the last, and leaves the others.       *)
LEMMA Queued ==
  ASSUME NEW s \in Seq(Commands), NEW c \in Commands
  PROVE  /\ Append(s, c) \in Seq(Commands) /\ Append(s, c) # <<>>
         /\ Last(Append(s, c)) = c
         /\ ToSet(Append(s, c)) = ToSet(s) \cup {c}
<1> DEFINE t == Append(s, c)
<1>1. /\ t \in Seq(Commands) /\ Len(t) = Len(s) + 1 /\ Len(s) \in Nat
      /\ t[Len(s) + 1] = c /\ \A i \in 1..Len(s) : t[i] = s[i]
  OBVIOUS
<1>2. DOMAIN s = 1..Len(s) /\ DOMAIN t = 1..Len(s) + 1
  BY <1>1
<1> HIDE DEF t
<1>3. t # <<>> /\ Last(t) = c
  BY <1>1 DEF Last
<1>4. ToSet(t) = ToSet(s) \cup {c}
  <2>1. ASSUME NEW x \in ToSet(t) PROVE x \in ToSet(s) \cup {c}
    <3>1. PICK i \in 1..Len(s) + 1 : x = t[i]
      BY <1>2, <2>1 DEF ToSet
    <3>2. i = Len(s) + 1 \/ i \in 1..Len(s)
      BY <1>1
    <3> QED BY <1>1, <1>2, <3>1, <3>2 DEF ToSet
  <2>2. c \in ToSet(t)
    <3>1. Len(s) + 1 \in 1..Len(s) + 1
      BY <1>1
    <3> QED BY <1>1, <1>2, <3>1 DEF ToSet
  <2>3. ASSUME NEW x \in ToSet(s) PROVE x \in ToSet(t)
    <3>1. PICK i \in 1..Len(s) : x = s[i]
      BY <1>2, <2>3 DEF ToSet
    <3>2. i \in 1..Len(s) + 1
      BY <1>1
    <3> QED BY <1>1, <1>2, <3>1, <3>2 DEF ToSet
  <2> QED BY <2>1, <2>2, <2>3
<1> QED BY <1>1, <1>3, <1>4 DEF t

(* The first command is taken: the last stays the last, if there is one    *)
(* left, and the others stay.                                              *)
LEMMA Taken ==
  ASSUME NEW s \in Seq(Commands), s # <<>>
  PROVE  /\ Tail(s) \in Seq(Commands) /\ Head(s) \in Commands
         /\ Tail(s) # <<>> => Last(Tail(s)) = Last(s)
         /\ Tail(s) = <<>> => Last(s) = Head(s)
         /\ ToSet(s) = ToSet(Tail(s)) \cup {Head(s)}
<1> DEFINE t == Tail(s)
<1>1. /\ t \in Seq(Commands) /\ Len(t) = Len(s) - 1
      /\ Len(s) \in Nat \ {0} /\ Len(t) \in Nat
      /\ Head(s) = s[1] /\ s[1] \in Commands
      /\ \A i \in 1..Len(s) - 1 : t[i] = s[i + 1]
  OBVIOUS
<1>2. DOMAIN s = 1..Len(s) /\ DOMAIN t = 1..Len(s) - 1
  BY <1>1
<1> HIDE DEF t
<1>3. t = <<>> <=> Len(t) = 0
  BY <1>1, EmptyQueue
<1>4. t = <<>> => Len(s) = 1
  BY <1>1, <1>3
<1>5. t # <<>> => Last(t) = Last(s)
  BY <1>1, <1>3 DEF Last
<1>6. t = <<>> => Last(s) = Head(s)
  BY <1>1, <1>4 DEF Last
<1>7. ToSet(s) = ToSet(t) \cup {Head(s)}
  <2>1. ASSUME NEW x \in ToSet(s) PROVE x \in ToSet(t) \cup {Head(s)}
    <3>1. PICK i \in 1..Len(s) : x = s[i]
      BY <1>2, <2>1 DEF ToSet
    <3>2. CASE i = 1
      BY <1>1, <3>1, <3>2
    <3>3. CASE i # 1
      <4>1. i - 1 \in 1..Len(s) - 1 /\ (i - 1) + 1 = i
        BY <1>1, <3>3
      <4>2. t[i - 1] = s[i]
        BY <1>1, <4>1
      <4> QED BY <1>2, <3>1, <4>1, <4>2 DEF ToSet
    <3> QED BY <3>2, <3>3
  <2>2. Head(s) \in ToSet(s)
    <3>1. 1 \in 1..Len(s)
      BY <1>1
    <3> QED BY <1>1, <1>2, <3>1 DEF ToSet
  <2>3. ASSUME NEW x \in ToSet(t) PROVE x \in ToSet(s)
    <3>1. PICK i \in 1..Len(s) - 1 : x = t[i]
      BY <1>2, <2>3 DEF ToSet
    <3>2. i + 1 \in 1..Len(s) /\ x = s[i + 1]
      BY <1>1, <3>1
    <3> QED BY <1>2, <3>2 DEF ToSet
  <2> QED BY <2>1, <2>2, <2>3
<1> QED BY <1>1, <1>5, <1>6, <1>7 DEF t

(* What will still connect the socket, by the commands that are queued.    *)
LEMMA SomeQueued ==
  ASSUME NEW s
  PROVE  (\E i \in DOMAIN s : s[i] # "disconnect")
           <=> (\E c \in ToSet(s) : c # "disconnect")
BY DEF ToSet

(* A command that is sent is the last one, and disturbs no other.          *)
LEMMA SendAppends ==
  ASSUME IInv, NEW c \in Commands, Send(c)
  PROVE  /\ commands' \in Seq(Commands) /\ commands' # <<>>
         /\ Last(commands') = c
         /\ ToSet(commands') = ToSet(commands) \cup {c}
BY Queued DEF Send, IInv, WantedIsOwed, TypeOK, Commands

(* A disconnect that is sent adds nothing that will connect.               *)
LEMMA SendDisconnect ==
  ASSUME IInv, Send("disconnect"), UNCHANGED reconnecting
  PROVE  ConnectComes' <=> ConnectComes
<1>1. ToSet(commands') = ToSet(commands) \cup {"disconnect"}
  BY SendAppends DEF Commands
<1> QED BY <1>1, SomeQueued DEF ConnectComes

(* Page and network go: the flag that is set is what is owed.              *)
LEMMA AwayKeeps ==
  ASSUME IInv, UNCHANGED <<status, disconnected, reconnecting, attached, wanted>>,
         resume_after_page_show' \in BOOLEAN, resume_after_online' \in BOOLEAN,
         resume_after_page_show => resume_after_page_show',
         resume_after_online => resume_after_online',
         shown' \in BOOLEAN, visible' \in BOOLEAN, online' \in BOOLEAN,
         attached => (resume_after_page_show' => ~shown'),
         attached => (resume_after_online' => ~online'),
         stirred' = (ConnectComes \/ ~attached),
         IF attached /\ IsActive(status)
           THEN /\ Send("disconnect")
                /\ resume_after_page_show' \/ resume_after_online'
           ELSE UNCHANGED commands
  PROVE  IInv'
<1> USE DEF IInv, WantedIsOwed, TypeOK, Commands
<1>1. stirred' \in BOOLEAN
  BY DEF ConnectComes
<1>2. CASE attached /\ IsActive(status)
  <2>1. /\ commands' \in Seq(Commands) /\ commands' # <<>>
        /\ ConnectComes' <=> ConnectComes
    BY <1>2, SendAppends, SendDisconnect
  <2>2. WantedIsOwed'
    BY <1>1, <1>2, <2>1 DEF IsActive
  <2>3. Quiet'
    BY <2>1 DEF Quiet
  <2> QED BY <2>2, <2>3
<1>3. CASE ~(attached /\ IsActive(status))
  <2>1. WantedIsOwed'
    BY <1>1, <1>3 DEF IsActive
  <2>2. Quiet'
    BY <1>3 DEF Quiet, ConnectComes, IsActive
  <2> QED BY <2>1, <2>2
<1> QED BY <1>2, <1>3

(* They come back, or something else asks for a connection, or nothing     *)
(* does: a flag is given up only for a connect.                            *)
LEMMA BackKeeps ==
  ASSUME IInv, UNCHANGED <<status, disconnected, reconnecting, attached>>,
         wanted' \in BOOLEAN,
         resume_after_page_show' \in BOOLEAN, resume_after_online' \in BOOLEAN,
         shown' \in BOOLEAN, visible' \in BOOLEAN, online' \in BOOLEAN,
         attached => (resume_after_page_show' => ~shown'),
         attached => (resume_after_online' => ~online'),
         \/ /\ Send("connect") \/ Send("reconnect")
            /\ stirred' = TRUE
         \/ /\ UNCHANGED <<commands, stirred, wanted>>
            /\ attached =>
                 UNCHANGED <<resume_after_page_show, resume_after_online>>
  PROVE  IInv'
<1> USE DEF IInv, WantedIsOwed, TypeOK, Commands
<1>1. CASE (Send("connect") \/ Send("reconnect")) /\ stirred' = TRUE
  <2>1. /\ commands' \in Seq(Commands) /\ commands' # <<>>
        /\ Last(commands') = "connect" \/ "reconnect" \in ToSet(commands')
    BY <1>1, SendAppends
  <2> QED BY <1>1, <2>1 DEF Quiet
<1>2. CASE /\ UNCHANGED <<commands, stirred, wanted>>
           /\ attached =>
                UNCHANGED <<resume_after_page_show, resume_after_online>>
  <2>1. WantedIsOwed'
    BY <1>2 DEF IsActive
  <2>2. Quiet'
    BY <1>2 DEF Quiet, ConnectComes, IsActive
  <2> QED BY <2>1, <2>2
<1> QED BY <1>1, <1>2

(* The driver takes a command: what it leaves undone is still owed.        *)
LEMMA TakeCommandKeeps ==
  ASSUME IInv, TakeCommand
  PROVE  IInv'
<1> USE DEF TakeCommand, IInv, WantedIsOwed, TypeOK, Commands, flags, pageVars
<1>1. /\ commands' \in Seq(Commands) /\ Head(commands) \in Commands
      /\ commands' # <<>> => Last(commands') = Last(commands)
      /\ commands' = <<>> => Last(commands) = Head(commands)
      /\ ToSet(commands) = ToSet(commands') \cup {Head(commands)}
  BY Taken
<1>2. /\ IsActive(status') \/ status' = "Disconnected"
      /\ disconnected' \in BOOLEAN
      /\ Head(commands) = "connect" => IsActive(status')
      /\ Head(commands) # "connect" => status' = "Disconnected"
  BY DEF Socket!Connect, Socket!Disconnect, IsActive
<1>3. /\ reconnecting' \in Nat
      /\ Head(commands) = "reconnect" => reconnecting' > 0
      /\ reconnecting > 0 => reconnecting' > 0
      /\ Head(commands) # "reconnect" => reconnecting' = reconnecting
  OBVIOUS
<1>4. WantedIsOwed'
  <2>1. TypeOK'
    BY <1>1, <1>2, <1>3
  <2>2. ASSUME wanted, attached, ~(reconnecting' > 0),
               "reconnect" \notin ToSet(commands'),
               ~resume_after_page_show, ~resume_after_online
        PROVE  IF commands' = <<>> THEN IsActive(status')
                                   ELSE Last(commands') = "connect"
    <3>1. "reconnect" \notin ToSet(commands) /\ ~(reconnecting > 0)
      BY <1>1, <1>3, <2>2
    <3>2. Last(commands) = "connect"
      BY <2>2, <3>1
    <3> QED BY <1>1, <1>2, <3>2
  <2> QED BY <2>1, <2>2
<1>5. Quiet'
  <2> SUFFICES ASSUME ~stirred
               PROVE  ~ConnectComes' /\ (commands' = <<>> => ~IsActive(status'))
    BY DEF Quiet
  <2>1. /\ ~(reconnecting > 0)
        /\ \A c \in ToSet(commands) : c = "disconnect"
    BY SomeQueued DEF Quiet, ConnectComes
  <2>2. Head(commands) = "disconnect"
    BY <1>1, <2>1
  <2>3. ~ConnectComes'
    BY <1>1, <1>3, <2>1, <2>2, SomeQueued DEF ConnectComes
  <2> QED BY <1>2, <2>2, <2>3 DEF IsActive
<1> QED BY <1>4, <1>5

(* Every step of page, application, driver and connection.                 *)
LEMMA StepKeeps == IInv /\ [Next]_vars => IInv'
<1> SUFFICES ASSUME IInv, [Next]_vars PROVE IInv'
  OBVIOUS
<1>t. TypeOK /\ \A c \in {"connect", "disconnect", "reconnect"} : c \in Commands
  BY DEF IInv, WantedIsOwed, Commands
<1>1. CASE PageHide
  BY <1>1, <1>t, AwayKeeps DEF PageHide, Away, Suspend, socketVars, TypeOK
<1>2. CASE PageShow
  BY <1>2, <1>t, BackKeeps DEF PageShow, Back, Resume, socketVars, TypeOK
<1>3. CASE Offline
  BY <1>3, <1>t, AwayKeeps DEF Offline, Away, Suspend, socketVars, TypeOK
<1>4. CASE Online
  BY <1>4, <1>t, BackKeeps DEF Online, Back, Resume, socketVars, TypeOK
<1>5. CASE VisibilityChange
  BY <1>5, <1>t, BackKeeps DEF VisibilityChange, socketVars, flags, TypeOK
<1>6. CASE Drop
  BY <1>6 DEF Drop, socketVars, flags, IInv, WantedIsOwed, TypeOK, Quiet,
              ConnectComes, IsActive
<1>7. ASSUME NEW command \in {"connect", "disconnect", "reconnect"},
             Call(command)
      PROVE  IInv'
  <2>1. CASE command # "disconnect"
    BY <1>7, <1>t, <2>1, BackKeeps DEF Call, socketVars, flags, pageVars, TypeOK
  <2>2. CASE command = "disconnect"
    <3>1. /\ commands' \in Seq(Commands) /\ commands' # <<>>
          /\ ConnectComes' <=> ConnectComes
      BY <1>7, <1>t, <2>2, SendAppends, SendDisconnect DEF Call
    <3>2. WantedIsOwed'
      BY <1>7, <1>t, <2>2, <3>1
         DEF Call, socketVars, flags, pageVars, WantedIsOwed, TypeOK, Commands,
             IsActive
    <3>3. Quiet'
      BY <1>7, <2>2, <3>1 DEF Call, IInv, Quiet
    <3> QED BY <3>2, <3>3 DEF IInv
  <2> QED BY <2>1, <2>2
<1>8. CASE Reconnected
  <2>1. /\ commands' \in Seq(Commands) /\ commands' # <<>>
        /\ Last(commands') = "connect" /\ reconnecting' \in Nat
    BY <1>8, <1>t, SendAppends DEF Reconnected, TypeOK
  <2>2. WantedIsOwed'
    BY <1>8, <1>t, <2>1
       DEF Reconnected, socketVars, flags, pageVars, WantedIsOwed, TypeOK,
           Commands, IsActive
  <2>3. Quiet'
    BY <1>8, <1>t DEF Reconnected, IInv, Quiet, ConnectComes
  <2> QED BY <2>2, <2>3 DEF IInv
<1>9. CASE TakeCommand
  BY <1>9, TakeCommandKeeps
<1>10. CASE Connection
  <2>1. /\ IsActive(status) /\ (IsActive(status') \/ status' = "Disconnected")
        /\ UNCHANGED disconnected
    BY <1>10, <1>t
       DEF Connection, Socket!Establish, Socket!Lose, Socket!Retry, IsActive
  <2>2. WantedIsOwed'
    BY <1>10, <1>t, <2>1
       DEF Connection, flags, pageVars, IInv, WantedIsOwed, TypeOK, IsActive
  <2>3. Quiet'
    BY <1>10, <2>1 DEF Connection, IInv, Quiet, ConnectComes
  <2> QED BY <2>2, <2>3 DEF IInv
<1>11. CASE UNCHANGED vars
  BY <1>11 DEF vars, socketVars, flags, pageVars, IInv, WantedIsOwed, TypeOK,
               Quiet, ConnectComes, IsActive
<1> QED BY <1>1, <1>2, <1>3, <1>4, <1>5, <1>6, <1>7, <1>8, <1>9, <1>10, <1>11
        DEF Next

LEMMA InitKeeps == Init => IInv
<1> SUFFICES ASSUME Init PROVE IInv
  OBVIOUS
<1>1. wanted \in BOOLEAN /\ (wanted <=> status = "Connecting")
  BY DEF Init
<1>2. commands = <<>> /\ commands \in Seq(Commands)
  BY DEF Init
<1> QED BY <1>1, <1>2
        DEF Init, Socket!Init, IInv, WantedIsOwed, TypeOK, Quiet, IsActive,
            Commands

(* A socket the application wants is never lost between the callbacks and  *)
(* the commands of earlier ones.                                           *)
THEOREM WantedStaysOwed == Spec => []WantedIsOwed
<1>1. IInv => WantedIsOwed
  BY DEF IInv
<1> QED BY InitKeeps, StepKeeps, <1>1, PTL DEF Spec

(* A page that is away keeps no connection once its disconnect is taken.   *)
THEOREM AwayStaysSuspended == Spec => []AwayIsSuspended
<1>1. IInv => AwayIsSuspended
  BY DEF IInv, Quiet, AwayIsSuspended
<1> QED BY InitKeeps, StepKeeps, <1>1, PTL DEF Spec
=============================================================================
