------------------------- MODULE NativeWorkerProofs -------------------------
(***************************************************************************)
(* What is proved about NativeWorker, for any calls, any capacity of the   *)
(* command queue and any number of requests: its types and the bound on    *)
(* the permits that are out, that a request that waits is held in exactly  *)
(* one place, that an abandoned request does not run once its cancellation *)
(* was handled, that the worker's records are those of its live tasks, and *)
(* that channels follow their handles.                                     *)
(***************************************************************************)
EXTENDS NativeWorker, FiniteSetTheorems, TLAPS

---------------------------------------------------------------------------
(* Queues.                                                                 *)

(* A queue with one more element at its end.                               *)
LEMMA Appended ==
  ASSUME NEW S, NEW s \in Seq(S), NEW c \in S
  PROVE  /\ Append(s, c) \in Seq(S) /\ Append(s, c) # <<>>
         /\ ToSet(Append(s, c)) = ToSet(s) \cup {c}
         /\ IsInjective(s) /\ c \notin ToSet(s) => IsInjective(Append(s, c))
<1> DEFINE t == Append(s, c)
<1>1. /\ t \in Seq(S) /\ Len(s) \in Nat /\ t # <<>>
      /\ DOMAIN s = 1..Len(s) /\ DOMAIN t = 1..(Len(s) + 1)
      /\ t[Len(s) + 1] = c /\ \A i \in 1..Len(s) : t[i] = s[i]
  OBVIOUS
<1>2. DOMAIN t = DOMAIN s \cup {Len(s) + 1} /\ Len(s) + 1 \notin DOMAIN s
  BY <1>1
<1> HIDE DEF t
<1> QED BY <1>1, <1>2 DEF ToSet, IsInjective, t

(* A queue whose first element is taken.                                   *)
LEMMA Shifted ==
  ASSUME NEW S, NEW s \in Seq(S), s # <<>>
  PROVE  /\ Tail(s) \in Seq(S) /\ Head(s) \in S
         /\ ToSet(s) = ToSet(Tail(s)) \cup {Head(s)}
         /\ IsInjective(s) =>
              IsInjective(Tail(s)) /\ Head(s) \notin ToSet(Tail(s))
<1> DEFINE t == Tail(s)
<1>1. /\ t \in Seq(S) /\ Len(s) \in Nat \ {0} /\ Head(s) \in S
      /\ DOMAIN s = 1..Len(s) /\ DOMAIN t = 1..(Len(s) - 1)
      /\ Head(s) = s[1] /\ \A i \in 1..(Len(s) - 1) : t[i] = s[i + 1]
  OBVIOUS
<1> HIDE DEF t
<1>2. /\ 1 \in DOMAIN s
      /\ \A i \in DOMAIN s : i = 1 \/ (i - 1 \in DOMAIN t /\ t[i - 1] = s[i])
      /\ \A i \in DOMAIN t : i \in Nat /\ i + 1 \in DOMAIN s /\ t[i] = s[i + 1]
                             /\ i + 1 # 1
  BY <1>1
<1>3. ToSet(s) = ToSet(t) \cup {Head(s)}
  BY <1>1, <1>2 DEF ToSet
<1>4. ASSUME IsInjective(s)
      PROVE  IsInjective(t) /\ Head(s) \notin ToSet(t)
  <2>1. ASSUME NEW i \in DOMAIN t, NEW j \in DOMAIN t, t[i] = t[j]
        PROVE  i = j
    <3>1. i + 1 = j + 1
      BY <1>2, <1>4, <2>1 DEF IsInjective
    <3> QED BY <1>2, <3>1
  <2>2. ASSUME NEW i \in DOMAIN t
        PROVE  t[i] # s[1]
    BY <1>2, <1>4 DEF IsInjective
  <2> QED BY <1>1, <2>1, <2>2 DEF ToSet, IsInjective
<1> QED BY <1>1, <1>3, <1>4 DEF t

(* An empty queue.                                                         *)
LEMMA NothingQueued ==
  ASSUME NEW S
  PROVE  <<>> \in Seq(S) /\ ToSet(<<>>) = {} /\ IsInjective(<<>>)
BY DEF ToSet, IsInjective

(* In a queue, some a before every b; or every b before every a.           *)
Leads(s, a, b) ==
  \E j \in DOMAIN s : s[j] = a /\ \A i \in DOMAIN s : s[i] = b => j < i

Trails(s, a, b) ==
  \A i, j \in DOMAIN s : s[i] = a /\ s[j] = b => j < i

(* What is added to a queue comes after what is in it.                     *)
LEMMA AppendedOrder ==
  ASSUME NEW S, NEW s \in Seq(S), NEW c \in S, NEW a, NEW b, a # b
  PROVE  /\ Leads(s, a, b) => Leads(Append(s, c), a, b)
         /\ c = a /\ b \notin ToSet(s) => Leads(Append(s, c), a, b)
         /\ Trails(s, a, b) /\ (c # b \/ a \notin ToSet(s)) =>
              Trails(Append(s, c), a, b)
<1> DEFINE t == Append(s, c)
<1>1. /\ Len(s) \in Nat
      /\ DOMAIN s = 1..Len(s) /\ DOMAIN t = 1..(Len(s) + 1)
      /\ t[Len(s) + 1] = c /\ \A i \in 1..Len(s) : t[i] = s[i]
  OBVIOUS
<1> HIDE DEF t
<1>2. /\ \A i \in DOMAIN s : i \in DOMAIN t /\ t[i] = s[i] /\ i < Len(s) + 1
      /\ \A i \in DOMAIN t : i \in DOMAIN s \/ i = Len(s) + 1
      /\ Len(s) + 1 \in DOMAIN t
  BY <1>1
<1>3. ASSUME Leads(s, a, b)
      PROVE  Leads(t, a, b)
  BY <1>1, <1>2, <1>3 DEF Leads
<1>4. ASSUME c = a, b \notin ToSet(s)
      PROVE  Leads(t, a, b)
  <2>1. \A i \in DOMAIN t : t[i] = b => i = Len(s) + 1 /\ c = b
    BY <1>1, <1>2, <1>4 DEF ToSet
  <2> QED BY <1>1, <1>2, <1>4, <2>1 DEF Leads
<1>5. ASSUME Trails(s, a, b), c # b \/ a \notin ToSet(s)
      PROVE  Trails(t, a, b)
  <2> SUFFICES ASSUME NEW i \in DOMAIN t, NEW j \in DOMAIN t, t[i] = a, t[j] = b
               PROVE  j < i
    BY DEF Trails
  <2>1. CASE i \in DOMAIN s /\ j \in DOMAIN s
    BY <1>2, <1>5, <2>1 DEF Trails
  <2>2. CASE i = Len(s) + 1 /\ j \in DOMAIN s
    BY <1>2, <2>2
  <2>3. CASE j = Len(s) + 1
    <3>1. c = b
      BY <1>1, <2>3
    <3>2. i \notin DOMAIN s
      BY <1>2, <1>5, <3>1 DEF ToSet
    <3> QED BY <1>1, <1>2, <2>3, <3>1, <3>2
  <2> QED BY <1>2, <2>1, <2>2, <2>3
<1> QED BY <1>3, <1>4, <1>5 DEF t

(* What is taken from a queue came before the rest.                        *)
LEMMA ShiftedOrder ==
  ASSUME NEW S, NEW s \in Seq(S), s # <<>>, NEW a, NEW b, a # b
  PROVE  /\ Leads(s, a, b) =>
              \/ Head(s) = a
              \/ Head(s) # b /\ Leads(Tail(s), a, b)
         /\ Trails(s, a, b) =>
              /\ Trails(Tail(s), a, b)
              /\ Head(s) = a => b \notin ToSet(Tail(s))
<1> DEFINE t == Tail(s)
<1>1. /\ Len(s) \in Nat \ {0}
      /\ DOMAIN s = 1..Len(s) /\ DOMAIN t = 1..(Len(s) - 1)
      /\ Head(s) = s[1] /\ \A i \in 1..(Len(s) - 1) : t[i] = s[i + 1]
  OBVIOUS
<1> HIDE DEF t
<1>2. /\ 1 \in DOMAIN s
      /\ \A i \in DOMAIN s : i \in Nat /\
           (i = 1 \/ (i > 1 /\ i - 1 \in DOMAIN t /\ t[i - 1] = s[i]))
      /\ \A i \in DOMAIN t :
           i \in Nat /\ i + 1 \in DOMAIN s /\ t[i] = s[i + 1] /\ 1 < i + 1
  BY <1>1
<1>3. ASSUME Leads(s, a, b), Head(s) # a
      PROVE  Head(s) # b /\ Leads(t, a, b)
  <2> PICK j \in DOMAIN s : s[j] = a /\ \A i \in DOMAIN s : s[i] = b => j < i
    BY <1>3 DEF Leads
  <2>1. j # 1 /\ j - 1 \in DOMAIN t /\ t[j - 1] = a
    BY <1>1, <1>2, <1>3
  <2>2. Head(s) # b
    BY <1>1, <1>2, <2>1
  <2>3. ASSUME NEW i \in DOMAIN t, t[i] = b
        PROVE  j - 1 < i
    <3>1. j < i + 1
      BY <1>2, <2>3
    <3> QED BY <1>2, <3>1
  <2> QED BY <2>1, <2>2, <2>3 DEF Leads
<1>4. ASSUME Trails(s, a, b)
      PROVE  Trails(t, a, b) /\ (Head(s) = a => b \notin ToSet(t))
  <2>1. ASSUME NEW i \in DOMAIN t, NEW j \in DOMAIN t, t[i] = a, t[j] = b
        PROVE  j < i
    <3>1. j + 1 < i + 1
      BY <1>2, <1>4, <2>1 DEF Trails
    <3> QED BY <1>2, <3>1
  <2>2. ASSUME Head(s) = a, NEW j \in DOMAIN t, t[j] = b
        PROVE  FALSE
    <3>1. j + 1 < 1
      BY <1>1, <1>2, <1>4, <2>2 DEF Trails
    <3> QED BY <1>2, <3>1
  <2> QED BY <2>1, <2>2 DEF Trails, ToSet
<1> QED BY <1>3, <1>4 DEF t

---------------------------------------------------------------------------
(***************************************************************************)
(* The inductive invariant.  What the worker may conclude from a record of *)
(* its own rests on where else the same request can be: the control queue, *)
(* the command queue, the tasks and the host thread.  Each part below says *)
(* what one of these places knows of the others.                           *)
(***************************************************************************)
Began(r) == phase[r] \in {"sent", "gone", "done"}
Over(r)  == phase[r] \in {"gone", "done"}

(* A command is in its queue once, and nowhere else; what was not sent was *)
(* not answered.                                                           *)
Queued ==
  /\ \A r \in Requests :
       phase[r] \in {"idle", "reserved", "registered"} => answer[r] = "none"
  /\ IsInjective(commands)
  /\ \A r \in ToSet(commands) :
       /\ phase[r] \in {"sent", "gone"} /\ answer[r] = "none"
       /\ r \notin operations \cup aborted \cup {responder, current}
       /\ OnRequest("Finished", r) \notin ToSet(control)

(* Tasks are tracked, belong to requests that were sent, and are aborted   *)
(* only when nobody waits for them any more.                               *)
Tracked ==
  /\ running \subseteq operations
  /\ \A r \in operations \cup ({responder} \ {NoRequest}) : Began(r)
  /\ \A r \in aborted \cup cancelled : Over(r)
  /\ responder # NoRequest =>
       worker \in {"select", "stopping"} /\ responder \notin running
  /\ current # NoRequest => /\ worker = "stopping"
                            /\ phase[current] \in {"sent", "gone"}
                            /\ answer[current] = "none"

(* What the control queue says is so.                                      *)
Truthful ==
  \A r \in Requests :
    /\ OnRequest("Register", r) \in ToSet(control) => r \in Guarded
    /\ OnRequest("Cancel", r) \in ToSet(control) => r \in Guarded /\ Over(r)
    /\ OnRequest("Finished", r) \in ToSet(control) =>
         r \in Calls /\ Began(r) /\ r \notin running
    /\ OnRequest("RemoveChannel", r) \in ToSet(control) =>
         r \in Registers \ handles /\ phase[r] = "done"

(* A request is announced before it is cancelled, and before it is over.   *)
Announced ==
  /\ ControlOpen =>
       \A r \in Guarded :
         phase[r] = "registered" \/ r \in ToSet(commands) =>
           r \in known \/ Leads(control, OnRequest("Register", r),
                                         OnRequest("Cancel", r))
  /\ \A r \in Calls : Trails(control, OnRequest("Finished", r),
                                      OnRequest("Register", r))

(* What is tracked or recorded of an operation that was answered goes when *)
(* its Finished is handled.                                                *)
Ending(r) == responder = r \/ OnRequest("Finished", r) \in ToSet(control)

Settled ==
  ControlOpen =>
    \A r \in Calls :
      /\ r \in operations \ running => Ending(r)
      /\ phase[r] = "done" \/ (phase[r] = "sent" /\ answer[r] \in {"ok", "error"}) =>
           \/ Ending(r)
           \/ /\ r \notin known \cup cancelled
              /\ OnRequest("Register", r) \notin ToSet(control)

(* Handles have their channels, and calls in progress their handles.       *)
Owned ==
  /\ \A h \in handles : phase[h] = "done"
  /\ \A c \in Calls : phase[c] \in InFlight /\ target[c] # NoChannel =>
                        target[c] \in handles
  /\ ControlOpen =>
       /\ handles \subseteq channels
       /\ \A h \in Registers :
            phase[h] = "sent" /\ answer[h] = "ok" => h \in channels
       /\ \A h \in channels :
            \/ h \in handles
            \/ OnRequest("RemoveChannel", h) \in ToSet(control)
            \/ phase[h] = "sent" /\ answer[h] = "ok"
            \/ h \in orphans

(* A request that waits is somewhere.                                      *)
Held ==
  \A r \in Requests : phase[r] = "sent" =>
    /\ answer[r] = "none" => \/ r \in ToSet(commands) \cup running
                             \/ worker = "stopping" /\ current = r
    /\ answer[r] = "dropped" => worker \in {"commands_dropped", "exited"}

(* The permits that are out can be counted.                                *)
Holding == {r \in Requests : phase[r] \in {"reserved", "registered"}}

Counted == IsFiniteSet(Holding)

IInv == /\ TypeOK /\ Counted /\ Queued /\ Tracked /\ Truthful /\ Announced /\ Settled
        /\ Owned /\ Held /\ AbandonedNeverRuns

---------------------------------------------------------------------------
(* What the steps of threads and of the worker do to the state.            *)

Phases  == InFlight \cup {"idle", "gone", "done"}
Results == {"none", "ok", "error", "dropped"}

(* One thread goes on.                                                     *)
LEMMA Moved ==
  ASSUME TypeOK, NEW r \in Requests, NEW x \in Phases,
         phase' = [phase EXCEPT ![r] = x]
  PROVE  /\ phase' \in [Requests -> Phases] /\ phase'[r] = x
         /\ \A q \in Requests \ {r} : phase'[q] = phase[q]
<1>1. phase \in [Requests -> Phases]
  BY DEF TypeOK, Phases
<1> QED BY <1>1

(* One request is answered, if somebody waits for it.                      *)
LEMMA AnswerEffect ==
  ASSUME TypeOK, NEW r \in Requests, NEW result \in Results, Answer(r, result)
  PROVE  /\ answer' \in [Requests -> Results]
         /\ \A q \in Requests \ {r} : answer'[q] = answer[q]
         /\ answer'[r] = IF phase[r] = "sent" THEN result ELSE answer[r]
<1>1. answer \in [Requests -> Results]
  BY DEF TypeOK, Results
<1> QED BY <1>1 DEF Answer

(* The answers that nobody will give are dropped.                          *)
LEMMA DropEffect ==
  ASSUME TypeOK, NEW dropped, DropResponses(dropped)
  PROVE  /\ answer' \in [Requests -> Results]
         /\ \A q \in Requests :
              answer'[q] = IF q \in dropped /\ phase[q] = "sent" THEN "dropped"
                                                           ELSE answer[q]
<1>1. answer \in [Requests -> Results]
  BY DEF TypeOK, Results
<1> QED BY <1>1 DEF DropResponses, Results

(* The messages of the control queue.                                      *)
LEMMA Messages ==
  /\ \A k, r : OnRequest(k, r).kind = k /\ OnRequest(k, r).id = r
  /\ \A k \in {"Register", "Cancel", "Finished", "RemoveChannel"} :
       \A r \in Requests : OnRequest(k, r) \in ControlCommands
  /\ [kind |-> "Shutdown"] \in ControlCommands
  /\ \A k \in {"Register", "Cancel", "Finished", "RemoveChannel"} :
       \A r : OnRequest(k, r) # [kind |-> "Shutdown"]
  /\ \A c \in ControlCommands :
       c.kind # "Shutdown" => c.id \in Requests /\ c = OnRequest(c.kind, c.id)
<1>1. \A k, r : OnRequest(k, r).kind = k /\ OnRequest(k, r).id = r
  BY DEF OnRequest
<1>2. \A k \in {"Register", "Cancel", "Finished", "RemoveChannel"} :
        \A r \in Requests : OnRequest(k, r) \in ControlCommands
  BY DEF OnRequest, ControlCommands
<1>3. [kind |-> "Shutdown"] \in ControlCommands
  BY DEF ControlCommands
<1>4. \A k \in {"Register", "Cancel", "Finished", "RemoveChannel"} :
        \A r : OnRequest(k, r) # [kind |-> "Shutdown"]
  <2>1. [kind |-> "Shutdown"].kind = "Shutdown"
    OBVIOUS
  <2> QED BY <1>1, <2>1
<1>5. ASSUME NEW c \in ControlCommands, c.kind # "Shutdown"
      PROVE  c.id \in Requests /\ c = OnRequest(c.kind, c.id)
  <2>1. c \in [kind : {"Register", "Cancel", "Finished", "RemoveChannel"},
               id : Requests]
    BY <1>5 DEF ControlCommands
  <2> QED BY <2>1 DEF OnRequest
<1> QED BY <1>1, <1>2, <1>3, <1>4, <1>5

(* A message is sent.                                                      *)
LEMMA SendEffect ==
  ASSUME TypeOK, NEW c \in ControlCommands, SendControl(c)
  PROVE  /\ control' \in Seq(ControlCommands)
         /\ ToSet(control) \subseteq ToSet(control')
         /\ ToSet(control') \subseteq ToSet(control) \cup {c}
         /\ ControlOpen => c \in ToSet(control')
         /\ \A a, b : a # b =>
              /\ Leads(control, a, b) => Leads(control', a, b)
              /\ ControlOpen /\ c = a /\ b \notin ToSet(control) =>
                   Leads(control', a, b)
              /\ Trails(control, a, b) /\ (c # b \/ a \notin ToSet(control)) =>
                   Trails(control', a, b)
<1>1. control \in Seq(ControlCommands)
  BY DEF TypeOK
<1>2. CASE ControlOpen
  <2>1. control' = Append(control, c)
    BY <1>2 DEF SendControl
  <2>2. /\ control' \in Seq(ControlCommands)
        /\ ToSet(control') = ToSet(control) \cup {c}
    BY <1>1, <2>1, Appended
  <2>3. ASSUME NEW a, NEW b, a # b
        PROVE  /\ Leads(control, a, b) => Leads(control', a, b)
               /\ c = a /\ b \notin ToSet(control) => Leads(control', a, b)
               /\ Trails(control, a, b) /\ (c # b \/ a \notin ToSet(control)) =>
                    Trails(control', a, b)
    BY <1>1, <2>1, <2>3, AppendedOrder
  <2> QED BY <2>2, <2>3
<1>3. CASE ~ControlOpen
  <2>1. control' = control
    BY <1>3 DEF SendControl
  <2> QED BY <1>1, <1>3, <2>1
<1> QED BY <1>2, <1>3

(* A message is taken.                                                     *)
LEMMA TakeEffect ==
  ASSUME TypeOK, NEW kind, SelectControl(kind)
  PROVE  /\ control' \in Seq(ControlCommands)
         /\ ToSet(control) = ToSet(control') \cup {Head(control)}
         /\ Head(control) \in ControlCommands /\ Head(control).kind = kind
         /\ kind # "Shutdown" =>
              /\ Head(control).id \in Requests
              /\ Head(control) = OnRequest(kind, Head(control).id)
         /\ \A a, b : a # b =>
              /\ Leads(control, a, b) =>
                   Head(control) = a \/ (Head(control) # b /\ Leads(control', a, b))
              /\ Trails(control, a, b) =>
                   /\ Trails(control', a, b)
                   /\ Head(control) = a => b \notin ToSet(control')
<1>1. control \in Seq(ControlCommands) /\ control # <<>>
      /\ control' = Tail(control) /\ Head(control).kind = kind
  BY DEF TypeOK, SelectControl
<1>2. /\ control' \in Seq(ControlCommands) /\ Head(control) \in ControlCommands
      /\ ToSet(control) = ToSet(control') \cup {Head(control)}
  BY <1>1, Shifted
<1>3. ASSUME NEW a, NEW b, a # b
      PROVE  /\ Leads(control, a, b) =>
                  Head(control) = a \/ (Head(control) # b /\ Leads(control', a, b))
             /\ Trails(control, a, b) =>
                  /\ Trails(control', a, b)
                  /\ Head(control) = a => b \notin ToSet(control')
  BY <1>1, <1>3, ShiftedOrder
<1> QED BY <1>1, <1>2, <1>3, Messages

(* A command is taken.                                                     *)
LEMMA CommandEffect ==
  ASSUME TypeOK, Queued, NEW r, SelectCommand(r)
  PROVE  /\ commands' \in Seq(Requests) /\ r \in Requests
         /\ Len(commands') <= Len(commands)
         /\ ToSet(commands) = ToSet(commands') \cup {r}
         /\ IsInjective(commands') /\ r \notin ToSet(commands')
<1>1. commands \in Seq(Requests) /\ commands # <<>> /\ r = Head(commands)
      /\ commands' = Tail(commands)
  BY DEF TypeOK, SelectCommand
<1>2. Len(commands') <= Len(commands)
  BY <1>1
<1> QED BY <1>1, <1>2, Shifted DEF Queued

---------------------------------------------------------------------------
(* Type correctness, in parts a step may disturb apart.                    *)

HostType ==
  /\ phase \in [Requests -> Phases]
  /\ answer \in [Requests -> Results]
  /\ target \in [Calls -> Registers \cup {NoChannel}]
  /\ handles \subseteq Registers
  /\ held \in BOOLEAN /\ thread \in BOOLEAN

QueueType == commands \in Seq(Requests) /\ control \in Seq(ControlCommands)

PermitType == CommandsOpen => Permits <= CommandCapacity

WorkerType ==
  /\ worker \in {"select", "stopping", "ending", "control_dropped",
                 "commands_dropped", "exited"}
  /\ current \in Shutdowns \cup {NoRequest}
  /\ responder \in Calls \cup {NoRequest}
  /\ driver \in {"running", "stopped", "failed"}

RecordType ==
  /\ channels \subseteq Registers
  /\ operations \cup running \cup aborted \subseteq Calls
  /\ known \cup cancelled \subseteq Guarded

OrphanType == orphans \subseteq Registers

(* The parts make the whole, before a step and after it.                   *)
LEMMA Types ==
  /\ TypeOK <=> /\ HostType /\ QueueType /\ PermitType /\ WorkerType
                /\ RecordType /\ OrphanType
  /\ TypeOK' <=> /\ HostType' /\ QueueType' /\ PermitType' /\ WorkerType'
                 /\ RecordType' /\ OrphanType'
<1>1. TypeOK <=> /\ HostType /\ QueueType /\ PermitType /\ WorkerType
                 /\ RecordType /\ OrphanType
  BY DEF TypeOK, HostType, QueueType, PermitType, WorkerType, RecordType,
         OrphanType, Phases, Results
<1>2. TypeOK' <=> HostType' /\ QueueType' /\ PermitType' /\ WorkerType'
                  /\ RecordType' /\ OrphanType'
  BY DEF TypeOK, HostType, QueueType, PermitType, WorkerType, RecordType,
         OrphanType, Phases, Results
<1> QED BY <1>1, <1>2

(* Permits are only given back.                                            *)
LEMMA PermitsKept ==
  ASSUME TypeOK, Counted, Holding' \subseteq Holding,
         commands' \in Seq(Requests), Len(commands') <= Len(commands),
         CommandsOpen' => CommandsOpen
  PROVE  Counted' /\ PermitType'
<1>1. /\ IsFiniteSet(Holding') /\ Cardinality(Holding') <= Cardinality(Holding)
      /\ Cardinality(Holding') \in Nat /\ Cardinality(Holding) \in Nat
  BY FS_Subset, FS_CardinalityType DEF Counted
<1>2. /\ Permits = Len(commands) + Cardinality(Holding)
      /\ Permits' = Len(commands') + Cardinality(Holding')
  BY DEF Permits, Holding
<1>3. /\ Len(commands) \in Nat /\ Len(commands') \in Nat
      /\ CommandCapacity \in Nat
      /\ CommandsOpen => Permits <= CommandCapacity
  BY WorkerConstants DEF TypeOK
<1>4. CommandsOpen' => Permits' <= CommandCapacity
  BY <1>1, <1>2, <1>3
<1> QED BY <1>1, <1>4 DEF Counted, PermitType

(* Every step keeps the permits within the capacity.                       *)
LEMMA StepPermits ==
  ASSUME TypeOK, Counted, Queued, [Next]_vars
  PROVE  Counted' /\ PermitType'
<1> USE DEF hostVars, queueVars, workerVars, threadVars, taskVars, recordVars
<1> DEFINE Kept == Counted' /\ PermitType'
<1>1. commands \in Seq(Requests) /\ Len(commands) <= Len(commands)
  BY DEF TypeOK
<1>2. ASSUME UNCHANGED <<phase, commands>>, CommandsOpen' => CommandsOpen
      PROVE  Kept
  <2>1. Holding' = Holding
    BY <1>2 DEF Holding
  <2>2. commands' \in Seq(Requests) /\ Len(commands') <= Len(commands)
    BY <1>1, <1>2
  <2> HIDE DEF Kept
  <2> QED BY <1>2, <2>1, <2>2, PermitsKept DEF Kept
<1>3. ASSUME UNCHANGED <<phase, commands, worker>>
      PROVE  Kept
  BY <1>2, <1>3 DEF CommandsOpen, ControlOpen
<1>4. ASSUME NEW r \in Requests, NEW x \in Phases \ {"reserved", "registered"},
             phase' = [phase EXCEPT ![r] = x], UNCHANGED <<commands, worker>>
      PROVE  Kept
  <2>1. Holding' \subseteq Holding
    BY <1>4, Moved DEF Holding
  <2> QED BY <1>1, <1>4, <2>1, PermitsKept DEF CommandsOpen, ControlOpen
<1>5. ASSUME NEW r \in Requests, Reserve(r)
      PROVE  Kept
  <2>1. CASE CommandsOpen
    <3>1. phase' = [phase EXCEPT ![r] = "reserved"] /\ phase[r] = "idle"
      BY <1>5, <2>1 DEF Reserve
    <3>2. Holding' = Holding \cup {r} /\ r \notin Holding
      BY <3>1, Moved DEF Holding, Phases, InFlight
    <3>3. /\ IsFiniteSet(Holding') /\ Cardinality(Holding) \in Nat
          /\ Cardinality(Holding') = Cardinality(Holding) + 1
      BY <3>2, FS_AddElement, FS_CardinalityType DEF Counted
    <3>4. /\ Permits = Len(commands) + Cardinality(Holding)
          /\ Permits' = Len(commands) + Cardinality(Holding')
          /\ Permits < CommandCapacity
      BY <1>5, <2>1 DEF Permits, Holding, Reserve
    <3>5. Permits' <= CommandCapacity
      BY <1>1, <3>3, <3>4, WorkerConstants
    <3> QED BY <3>3, <3>5 DEF Counted, PermitType
  <2>2. CASE ~CommandsOpen
    <3>1. "failing" \in Phases \ {"reserved", "registered"}
      BY DEF Phases, InFlight
    <3> QED BY <1>4, <1>5, <2>2, <3>1 DEF Reserve
  <2> QED BY <2>1, <2>2
<1>6. ASSUME NEW r \in Requests, RegisterRequest(r)
      PROVE  Kept
  <2>1. {"failing", "registered"} \subseteq Phases
    BY DEF Phases, InFlight
  <2>2. phase[r] = "reserved" /\ UNCHANGED <<commands, worker>>
    BY <1>6 DEF RegisterRequest
  <2>3. Holding' \subseteq Holding
    BY <1>6, <2>1, <2>2, Moved DEF RegisterRequest, Holding
  <2> QED BY <1>1, <2>2, <2>3, PermitsKept DEF CommandsOpen, ControlOpen
<1>7. ASSUME NEW r \in Requests, SendCommand(r)
      PROVE  Kept
  <2>1. "sent" \in Phases
    BY DEF Phases, InFlight
  <2>2. Holding' = Holding \ {r} /\ r \in Holding
    BY <1>7, <2>1, Moved DEF SendCommand, Holding
  <2>3. /\ IsFiniteSet(Holding') /\ Cardinality(Holding) \in Nat
        /\ Cardinality(Holding') = Cardinality(Holding) - 1
    BY <2>2, FS_RemoveElement, FS_CardinalityType DEF Counted
  <2>4. /\ Permits = Len(commands) + Cardinality(Holding)
        /\ Permits' = Len(commands) + 1 + Cardinality(Holding')
        /\ CommandsOpen' => CommandsOpen
    BY <1>1, <1>7 DEF Permits, Holding, SendCommand, CommandsOpen, ControlOpen
  <2>5. CommandsOpen' => Permits' <= CommandCapacity
    <3>1. Permits' = Permits
      BY <1>1, <2>3, <2>4
    <3> QED BY <2>4, <3>1 DEF TypeOK
  <2> QED BY <2>3, <2>5 DEF Counted, PermitType
<1>8. ASSUME NEW r \in Requests,
             \/ Receive(r) \/ ReportEnd(r) \/ GiveUp(r)
             \/ Join(r) \/ Joined(r)
      PROVE  Kept
  <2>1. {"answered", "done", "gone", "joining"}
          \subseteq Phases \ {"reserved", "registered"}
    BY DEF Phases, InFlight
  <2>2. /\ UNCHANGED <<commands, worker>>
        /\ \E x \in {"answered", "done", "gone", "joining"} :
             phase' = [phase EXCEPT ![r] = x]
    BY <1>8 DEF Receive, ReportEnd, GiveUp, Join, Joined
  <2> QED BY <1>4, <2>1, <2>2
<1>9. CASE \/ DropOwner \/ DriverFails
           \/ \E h \in Registers : DropChannel(h)
           \/ \E c \in Calls : TaskStep(c)
  BY <1>3, <1>9
     DEF DropOwner, DriverFails, DropChannel, TaskStep, Respond, DropAborted
<1>10. CASE TakeControl
  <2>1. worker = "select" /\ UNCHANGED <<phase, commands>>
    BY <1>10 DEF TakeControl, TakeRegister, TakeCancel, TakeFinished,
                 TakeRemoveChannel, TakeShutdown, SelectControl, Polled
  <2> QED BY <1>2, <2>1 DEF CommandsOpen, ControlOpen
<1>11. CASE TakeCommand
  <2> PICK r \in Requests : \/ DropCancelled(r) \/ StartOperation(r)
                            \/ CreateChannel(r) \/ BeginShutdown(r)
    BY <1>11 DEF TakeCommand
  <2>1. SelectCommand(r)
    BY DEF DropCancelled, StartOperation, CreateChannel, BeginShutdown,
           SelectGuarded
  <2>2. phase' = phase /\ CommandsOpen
    BY <2>1 DEF SelectCommand, Polled, CommandsOpen, ControlOpen
  <2>3. Holding' = Holding
    BY <2>2 DEF Holding
  <2> QED BY <2>1, <2>2, <2>3, CommandEffect, PermitsKept
<1>12. CASE EndStep
  <2>1. CASE DropCommands
    <3>1. /\ commands' = <<>> /\ Holding' = Holding /\ ~CommandsOpen'
      BY <2>1 DEF DropCommands, Holding, CommandsOpen, ControlOpen
    <3>2. commands' \in Seq(Requests) /\ Len(commands') <= Len(commands)
      BY <1>1, <3>1
    <3> QED BY <3>1, <3>2, PermitsKept
  <2>2. CASE EndStep /\ ~DropCommands
    BY <1>2, <2>2
       DEF EndStep, Finish, NoticeFailure, DriverStops, FinishShutdown,
           DropControl, DropTasksAndExit, CommandsOpen, ControlOpen, Polled
  <2> QED BY <1>12, <2>1, <2>2
<1>13. CASE UNCHANGED vars
  BY <1>3, <1>13 DEF vars
<1> QED BY <1>5, <1>6, <1>7, <1>8, <1>9, <1>10, <1>11, <1>12, <1>13
        DEF Next, HostStep, Requests

(* Every step of a thread keeps the types of its variables.                *)
LEMMA StepHost ==
  ASSUME TypeOK, [Next]_vars
  PROVE  HostType'
<1> USE DEF hostVars, queueVars, workerVars, threadVars, taskVars, recordVars
<1> HostType
  BY Types
<1> DEFINE HostKept == HostType'
<1>1. ASSUME UNCHANGED hostVars, answer' \in [Requests -> Results]
      PROVE  HostKept
  BY <1>1 DEF HostType
<1>2. ASSUME NEW r \in Requests, NEW x \in Phases,
             phase' = [phase EXCEPT ![r] = x], answer' \in [Requests -> Results],
             target' \in [Calls -> Registers \cup {NoChannel}],
             handles' \subseteq Registers, thread' \in BOOLEAN,
             UNCHANGED held
      PROVE  HostKept
  BY <1>2, Moved DEF HostType
<1>3. ASSUME NEW r \in Requests, Reserve(r)
      PROVE  HostKept
  <2>1. {"reserved", "failing"} \subseteq Phases
    BY DEF Phases, InFlight
  <2>2. target' \in [Calls -> Registers \cup {NoChannel}]
    <3>1. CASE UNCHANGED target
      BY <3>1 DEF HostType
    <3>2. CASE \E h \in handles \cup {NoChannel} :
                 target' = [target EXCEPT ![r] = h]
      BY <3>2 DEF HostType
    <3> QED BY <1>3, <3>1, <3>2 DEF Reserve
  <2> QED BY <1>2, <1>3, <2>1, <2>2 DEF Reserve, HostType
<1>4. ASSUME NEW r \in Requests, RegisterRequest(r) \/ SendCommand(r)
      PROVE  HostKept
  <2>1. {"registered", "failing", "sent"} \subseteq Phases
    BY DEF Phases, InFlight
  <2> QED BY <1>2, <1>4, <2>1 DEF RegisterRequest, SendCommand, HostType
<1>5. ASSUME NEW r \in Requests, Receive(r)
      PROVE  HostKept
  <2>1. {"answered", "done"} \subseteq Phases /\ "none" \in Results
    BY DEF Phases, InFlight, Results
  <2>2. target' \in [Calls -> Registers \cup {NoChannel}]
    BY <1>5 DEF Receive, Release, HostType
  <2>3. /\ answer' \in [Requests -> Results]
        /\ handles' \subseteq Registers
    BY <1>5, <2>1 DEF Receive, HostType
  <2> QED BY <1>2, <1>5, <2>1, <2>2, <2>3 DEF Receive, HostType
<1>6. ASSUME NEW r \in Requests, ReportEnd(r)
      PROVE  HostKept
  <2>1. {"answered", "done"} \subseteq Phases
    BY DEF Phases, InFlight
  <2> QED BY <1>2, <1>6, <2>1 DEF ReportEnd, HostType
<1>7. ASSUME NEW r \in Requests, GiveUp(r)
      PROVE  HostKept
  <2>1. "gone" \in Phases /\ "none" \in Results
    BY DEF Phases, Results
  <2>2. answer' \in [Requests -> Results]
    BY <1>7, <2>1 DEF GiveUp, HostType
  <2> QED BY <1>2, <1>7, <2>1, <2>2 DEF GiveUp, HostType
<1>8. ASSUME NEW s \in Shutdowns, Join(s) \/ Joined(s)
      PROVE  HostKept
  <2>1. {"joining", "done"} \subseteq Phases /\ s \in Requests
    BY DEF Phases, InFlight, Requests
  <2> QED BY <1>2, <1>8, <2>1 DEF Join, Joined, HostType
<1>9. CASE DropOwner \/ \E h \in Registers : DropChannel(h)
  <2>1. /\ UNCHANGED <<phase, answer, target, thread>>
        /\ handles' \subseteq handles /\ held' \in BOOLEAN
    BY <1>9 DEF DropOwner, DropChannel, HostType
  <2> QED BY <2>1 DEF HostType
<1>10. CASE TakeControl
  <2>1. UNCHANGED <<hostVars, answer>>
    BY <1>10 DEF TakeControl, TakeRegister, TakeCancel, TakeFinished,
                 TakeRemoveChannel, TakeShutdown, SelectControl
  <2> QED BY <1>1, <2>1 DEF HostType
<1>11. CASE TakeCommand
  <2> PICK r \in Requests : \/ DropCancelled(r) \/ StartOperation(r)
                            \/ CreateChannel(r) \/ BeginShutdown(r)
    BY <1>11 DEF TakeCommand
  <2>1. UNCHANGED hostVars
    BY DEF DropCancelled, StartOperation, CreateChannel, BeginShutdown,
           SelectGuarded, SelectCommand
  <2>2. \/ UNCHANGED answer
        \/ \E result \in {"ok", "error", "dropped"} : Answer(r, result)
    BY DEF DropCancelled, StartOperation, CreateChannel, BeginShutdown
  <2>3. {"ok", "error", "dropped"} \subseteq Results
    BY DEF Results
  <2>4. answer' \in [Requests -> Results]
    BY <2>2, <2>3, AnswerEffect DEF HostType
  <2> QED BY <1>1, <2>1, <2>4
<1>12. ASSUME NEW r \in Calls, TaskStep(r)
       PROVE  HostKept
  <2>1. /\ {"ok", "error", "dropped"} \subseteq Results /\ r \in Requests
        /\ UNCHANGED hostVars
    BY <1>12 DEF Results, Requests, Guarded, TaskStep, Respond, DropAborted
  <2>2. \E result \in {"ok", "error", "dropped"} : Answer(r, result)
    BY <1>12 DEF TaskStep, Respond, DropAborted
  <2> QED BY <1>1, <2>1, <2>2, AnswerEffect
<1>13. CASE EndStep \/ DriverFails
  <2>1. UNCHANGED hostVars
    BY <1>13 DEF EndStep, DriverFails, Finish, NoticeFailure, DriverStops,
                 FinishShutdown, DropControl, DropCommands, DropTasksAndExit
  <2>2. answer' \in [Requests -> Results]
    <3>1. CASE FinishShutdown
      <4>1. UNCHANGED answer \/
            (current \in Requests
               /\ \E result \in {"ok", "error"} : Answer(current, result))
        BY <3>1 DEF FinishShutdown, TypeOK, Requests
      <4>2. {"ok", "error"} \subseteq Results
        BY DEF Results
      <4> QED BY <4>1, <4>2, AnswerEffect DEF HostType
    <3>2. CASE DropCommands \/ DropTasksAndExit
      BY <3>2, DropEffect DEF DropCommands, DropTasksAndExit
    <3>3. CASE \/ Finish \/ NoticeFailure \/ DriverStops \/ DropControl
               \/ DriverFails
      BY <3>3 DEF Finish, NoticeFailure, DriverStops, DropControl, DriverFails,
                  HostType
    <3> QED BY <1>13, <3>1, <3>2, <3>3 DEF EndStep
  <2> QED BY <1>1, <2>1, <2>2
<1>14. CASE UNCHANGED vars
  BY <1>14 DEF vars, HostType
<1> QED BY <1>3, <1>4, <1>5, <1>6, <1>7, <1>8, <1>9, <1>10, <1>11, <1>12, <1>13,
           <1>14 DEF Next, HostStep, EndStep

(* Every step keeps the types of the queues.                               *)
LEMMA StepQueues ==
  ASSUME TypeOK, Queued, [Next]_vars
  PROVE  QueueType'
<1> USE DEF hostVars, queueVars, workerVars, threadVars, taskVars, recordVars
<1> QueueType
  BY Types
<1> DEFINE QueuesKept == QueueType'
<1>1. ASSUME UNCHANGED queueVars
      PROVE  QueuesKept
  BY <1>1 DEF QueueType
<1>2. ASSUME UNCHANGED commands, NEW c \in ControlCommands, SendControl(c)
      PROVE  QueuesKept
  BY <1>2, SendEffect DEF QueueType
<1>3. ASSUME NEW r \in Requests, Reserve(r) \/ ReportEnd(r)
      PROVE  QueuesKept
  BY <1>1, <1>3 DEF Reserve, ReportEnd
<1>4. ASSUME NEW r \in Requests,
             RegisterRequest(r) \/ Receive(r) \/ GiveUp(r) \/ DropChannel(r)
      PROVE  QueuesKept
  <2>1. /\ UNCHANGED commands
        /\ \/ UNCHANGED control
           \/ \E k \in {"Register", "Cancel", "RemoveChannel"} :
                SendControl(OnRequest(k, r))
    BY <1>4 DEF RegisterRequest, Receive, GiveUp, DropChannel
  <2> QED BY <1>1, <1>2, <2>1, Messages
<1>5. ASSUME NEW r \in Requests, SendCommand(r)
      PROVE  QueuesKept
  BY <1>5, Appended DEF SendCommand, QueueType
<1>6. ASSUME NEW s \in Shutdowns, Join(s) \/ Joined(s)
      PROVE  QueuesKept
  BY <1>1, <1>6 DEF Join, Joined
<1>7. CASE DropOwner
  BY <1>2, <1>7, Messages DEF DropOwner
<1>8. CASE TakeControl
  <2>1. /\ UNCHANGED commands
        /\ \E kind \in {"Register", "Cancel", "Finished", "RemoveChannel",
                        "Shutdown"} : SelectControl(kind)
    BY <1>8 DEF TakeControl, TakeRegister, TakeCancel, TakeFinished,
                TakeRemoveChannel, TakeShutdown, SelectControl
  <2> QED BY <2>1, TakeEffect DEF QueueType
<1>9. CASE TakeCommand
  <2> PICK r \in Requests : SelectCommand(r)
    BY <1>9 DEF TakeCommand, DropCancelled, StartOperation, CreateChannel,
                BeginShutdown, SelectGuarded
  <2>1. UNCHANGED control
    BY DEF SelectCommand
  <2> QED BY <2>1, CommandEffect DEF QueueType
<1>10. CASE Finish
  <2>1. responder \in Requests /\ UNCHANGED commands
    BY <1>10 DEF Finish, TypeOK, Requests, Guarded
  <2> QED BY <1>2, <1>10, <2>1, Messages DEF Finish
<1>11. CASE DropControl \/ DropCommands
  <2>1. <<>> \in Seq(Requests) /\ <<>> \in Seq(ControlCommands)
    BY NothingQueued
  <2> QED BY <1>11, <2>1 DEF DropControl, DropCommands, QueueType
<1>12. CASE \/ NoticeFailure \/ DriverStops \/ FinishShutdown
            \/ DropTasksAndExit \/ DriverFails
            \/ \E c \in Calls : TaskStep(c)
  BY <1>1, <1>12
     DEF NoticeFailure, DriverStops, FinishShutdown, DropTasksAndExit,
         DriverFails, TaskStep, Respond, DropAborted
<1>13. CASE UNCHANGED vars
  BY <1>1, <1>13 DEF vars
<1>14. Registers \subseteq Requests
  BY DEF Requests, Guarded
<1> QED BY <1>3, <1>4, <1>5, <1>6, <1>7, <1>8, <1>9, <1>10, <1>11, <1>12, <1>13,
           <1>14 DEF Next, HostStep, EndStep

(* Every step keeps the types of the worker's state.                       *)
LEMMA StepWorker ==
  ASSUME TypeOK, Truthful, [Next]_vars
  PROVE  WorkerType' /\ RecordType'
<1> USE DEF hostVars, queueVars, workerVars, threadVars, taskVars, recordVars
<1> WorkerType /\ RecordType
  BY Types
<1> DEFINE WorkerKept == WorkerType' /\ RecordType'
<1>1. ASSUME UNCHANGED threadVars
      PROVE  WorkerKept
  BY <1>1 DEF WorkerType, RecordType
<1>2. CASE \/ \E r \in Requests : Reserve(r) \/ HostStep(r) \/ GiveUp(r)
           \/ \E h \in Registers : DropChannel(h)
           \/ \E s \in Shutdowns : Join(s) \/ Joined(s)
           \/ DropOwner
  <2>1. UNCHANGED threadVars
    BY <1>2 DEF HostStep, Reserve, RegisterRequest, SendCommand, Receive,
                ReportEnd, GiveUp, DropChannel, Join, Joined, DropOwner
  <2> QED BY <1>1, <2>1
<1>3. CASE TakeRegister
  <2>1. Head(control).id \in Guarded
    BY <1>3, TakeEffect DEF TakeRegister, Truthful
  <2> QED BY <1>3, <2>1 DEF TakeRegister, SelectControl, WorkerType, RecordType
<1>4. CASE TakeCancel
  BY <1>4 DEF TakeCancel, SelectControl, WorkerType, RecordType
<1>5. CASE TakeFinished
  BY <1>5 DEF TakeFinished, SelectControl, WorkerType, RecordType
<1>6. CASE TakeRemoveChannel
  BY <1>6 DEF TakeRemoveChannel, SelectControl, WorkerType, RecordType
<1>7. CASE TakeShutdown
  BY <1>7 DEF TakeShutdown, SelectControl, WorkerType, RecordType
<1>8. CASE TakeCommand
  <2> PICK r \in Requests : \/ DropCancelled(r) \/ StartOperation(r)
                            \/ CreateChannel(r) \/ BeginShutdown(r)
    BY <1>8 DEF TakeCommand
  <2>1. CASE DropCancelled(r)
    BY <2>1 DEF DropCancelled, SelectGuarded, SelectCommand, WorkerType,
                RecordType
  <2>2. CASE StartOperation(r)
    BY <2>2 DEF StartOperation, SelectGuarded, SelectCommand, WorkerType,
                RecordType
  <2>3. CASE CreateChannel(r)
    BY <2>3 DEF CreateChannel, SelectGuarded, SelectCommand, WorkerType,
                RecordType
  <2>4. CASE BeginShutdown(r)
    BY <2>4 DEF BeginShutdown, SelectCommand, WorkerType, RecordType
  <2> QED BY <2>1, <2>2, <2>3, <2>4
<1>9. ASSUME NEW r \in Calls, TaskStep(r)
      PROVE  WorkerKept
  BY <1>9 DEF TaskStep, Respond, DropAborted, WorkerType, RecordType
<1>10. CASE EndStep \/ DriverFails
  BY <1>10 DEF EndStep, DriverFails, Finish, NoticeFailure, DriverStops,
               FinishShutdown, DropControl, DropCommands, DropTasksAndExit,
               WorkerType, RecordType
<1>11. CASE UNCHANGED vars
  BY <1>1, <1>11 DEF vars
<1> QED BY <1>2, <1>3, <1>4, <1>5, <1>6, <1>7, <1>8, <1>9, <1>10, <1>11
        DEF Next, TakeControl

(* A registration that is an orphan stays one.                             *)
LEMMA StepOrphans ==
  ASSUME TypeOK, [Next]_vars
  PROVE  orphans \subseteq orphans' /\ OrphanType'
<1> OrphanType
  BY Types
<1> DEFINE Kept == orphans \subseteq orphans' /\ OrphanType'
<1>1. ASSUME UNCHANGED orphans
      PROVE  Kept
  BY <1>1 DEF OrphanType
<1>2. ASSUME NEW r \in Requests, GiveUp(r)
      PROVE  Kept
  BY <1>2 DEF GiveUp, OrphanType
<1>3. ASSUME NEW r \in Requests, CreateChannel(r)
      PROVE  Kept
  BY <1>3 DEF CreateChannel, OrphanType
<1>4. CASE \/ \E r \in Requests : Reserve(r) \/ HostStep(r)
           \/ \E h \in Registers : DropChannel(h)
           \/ \E s \in Shutdowns : Join(s) \/ Joined(s)
           \/ DropOwner
  BY <1>1, <1>4
     DEF HostStep, Reserve, RegisterRequest, SendCommand, Receive, ReportEnd,
         DropChannel, Join, Joined, DropOwner
<1>5. CASE TakeControl
  BY <1>1, <1>5
     DEF TakeControl, TakeRegister, TakeCancel, TakeFinished, TakeRemoveChannel,
         TakeShutdown, SelectControl
<1>6. CASE \/ DriverFails \/ EndStep
           \/ \E c \in Calls : TaskStep(c)
           \/ \E r \in Requests :
                DropCancelled(r) \/ StartOperation(r) \/ BeginShutdown(r)
  BY <1>1, <1>6
     DEF DriverFails, EndStep, Finish, NoticeFailure, DriverStops,
         FinishShutdown, DropControl, DropCommands, DropTasksAndExit, TaskStep,
         Respond, DropAborted, DropCancelled, StartOperation, BeginShutdown
<1>7. CASE UNCHANGED vars
  BY <1>1, <1>7 DEF vars
<1> QED BY <1>2, <1>3, <1>4, <1>5, <1>6, <1>7 DEF Next, TakeCommand

---------------------------------------------------------------------------
(* A command is in its queue once, and nowhere else.                       *)
LEMMA StepQueued ==
  ASSUME IInv, [Next]_vars
  PROVE  Queued'
<1> USE DEF hostVars, queueVars, workerVars, threadVars, taskVars, recordVars
<1> /\ TypeOK /\ Queued /\ Tracked /\ Truthful /\ Held
    /\ HostType /\ QueueType /\ WorkerType /\ RecordType
  BY Types DEF IInv
<1> DEFINE QueuedKept == Queued'
<1>0. Calls \subseteq Requests /\ Shutdowns \subseteq Requests
      /\ ToSet(commands) \subseteq Requests
  BY DEF Requests, Guarded, QueueType, ToSet
<1>1. ASSUME UNCHANGED <<phase, answer, commands, current, aborted>>,
             operations' \subseteq operations, responder' \in {responder, NoRequest},
             \A q \in ToSet(commands) :
               OnRequest("Finished", q) \notin ToSet(control')
      PROVE  QueuedKept
  <2>1. NoRequest \notin ToSet(commands)
    BY <1>0, WorkerNames
  <2> QED BY <1>1, <2>1 DEF Queued
<1>2. ASSUME NEW r \in Requests \ ToSet(commands), NEW x \in Phases,
             phase' = [phase EXCEPT ![r] = x],
             \A q \in Requests \ {r} : answer'[q] = answer[q],
             x \in {"idle", "reserved", "registered"} => answer'[r] = "none",
             UNCHANGED <<commands, threadVars>>,
             \A q \in ToSet(commands) :
               OnRequest("Finished", q) \notin ToSet(control')
      PROVE  QueuedKept
  <2>1. /\ phase'[r] = x
        /\ \A q \in Requests \ {r} : phase'[q] = phase[q]
    BY <1>2, Moved
  <2>2. \A q \in ToSet(commands) : q \in Requests \ {r}
    BY <1>0, <1>2
  <2> QED BY <1>2, <2>1, <2>2 DEF Queued
<1>3. ASSUME UNCHANGED <<phase, control>>,
             NEW r \in Requests, NEW result \in Results, Answer(r, result),
             r \notin ToSet(commands'), phase[r] \in {"sent", "gone", "done"},
             IsInjective(commands'), ToSet(commands') \subseteq ToSet(commands),
             operations' \subseteq operations \cup {r},
             aborted' \subseteq aborted \cup {r},
             {responder', current'} \subseteq {responder, current, r, NoRequest}
      PROVE  QueuedKept
  <2>1. \A q \in Requests \ {r} : answer'[q] = answer[q]
    BY <1>3, AnswerEffect
  <2>2. \A q \in ToSet(commands') : q \in Requests \ {r, NoRequest}
    BY <1>0, <1>3, WorkerNames
  <2> QED BY <1>3, <2>1, <2>2 DEF Queued
<1>4. ASSUME NEW r \in Requests, NEW kind \in {"Register", "Cancel",
                                               "RemoveChannel"},
             SendControl(OnRequest(kind, r))
      PROVE  \A q \in ToSet(commands) :
               OnRequest("Finished", q) \notin ToSet(control')
  BY <1>4, SendEffect, Messages DEF Queued
<1>5. ASSUME NEW r \in Requests, Reserve(r)
      PROVE  QueuedKept
  <2>1. r \notin ToSet(commands) /\ phase[r] = "idle"
    BY <1>5 DEF Reserve, Queued
  <2>2. {"reserved", "failing"} \subseteq Phases
    BY DEF Phases, InFlight
  <2>3. /\ \E x \in {"reserved", "failing"} : phase' = [phase EXCEPT ![r] = x]
        /\ UNCHANGED <<answer, queueVars, threadVars>>
    BY <1>5 DEF Reserve
  <2>4. answer[r] = "none"
    BY <2>1 DEF Queued
  <2> HIDE DEF QueuedKept
  <2> QED BY <1>2, <2>1, <2>2, <2>3, <2>4 DEF Queued
<1>6. ASSUME NEW r \in Requests, RegisterRequest(r)
      PROVE  QueuedKept
  <2>1. r \notin ToSet(commands) /\ phase[r] = "reserved" /\ answer[r] = "none"
    BY <1>6 DEF RegisterRequest, Queued
  <2>2. {"registered", "failing"} \subseteq Phases
    BY DEF Phases, InFlight
  <2>3. /\ \E x \in {"registered", "failing"} : phase' = [phase EXCEPT ![r] = x]
        /\ SendControl(OnRequest("Register", r))
        /\ UNCHANGED <<answer, commands, threadVars>>
    BY <1>6 DEF RegisterRequest
  <2> HIDE DEF QueuedKept
  <2> QED BY <1>2, <1>4, <2>1, <2>2, <2>3
<1>7. ASSUME NEW r \in Requests, SendCommand(r)
      PROVE  QueuedKept
  <2>1. phase[r] \in {"reserved", "registered"} /\ answer[r] = "none"
        /\ r \notin ToSet(commands)
    BY <1>7 DEF SendCommand, Queued
  <2>2. /\ phase' = [phase EXCEPT ![r] = "sent"]
        /\ UNCHANGED <<answer, control, threadVars>>
        /\ ToSet(commands') = ToSet(commands) \cup {r} /\ IsInjective(commands')
    BY <1>7, <2>1, Appended DEF SendCommand, QueueType, Queued
  <2>3. /\ phase'[r] = "sent"
        /\ \A q \in Requests \ {r} : phase'[q] = phase[q]
    BY <2>2, Moved DEF Phases, InFlight
  <2>4. ~Began(r) /\ ~Over(r) /\ r # NoRequest
    BY <2>1, WorkerNames DEF Began, Over
  <2>5. /\ r \notin operations \cup aborted \cup {responder, current}
        /\ OnRequest("Finished", r) \notin ToSet(control)
    BY <2>1, <2>4 DEF Tracked, Truthful
  <2> QED BY <1>0, <2>1, <2>2, <2>3, <2>5 DEF Queued
<1>8. ASSUME NEW r \in Requests, Receive(r)
      PROVE  QueuedKept
  <2>1. r \notin ToSet(commands)
    BY <1>8 DEF Receive, Queued
  <2>2. {"answered", "done"} \subseteq Phases \ {"idle", "reserved", "registered"}
    BY DEF Phases, InFlight
  <2>3. /\ \E x \in {"answered", "done"} : phase' = [phase EXCEPT ![r] = x]
        /\ answer' = [answer EXCEPT ![r] = "none"]
        /\ UNCHANGED <<commands, threadVars>>
        /\ UNCHANGED control \/ SendControl(OnRequest("Cancel", r))
    BY <1>8 DEF Receive
  <2>4. \A q \in Requests \ {r} : answer'[q] = answer[q]
    BY <2>3
  <2>5. \A q \in ToSet(commands) :
          OnRequest("Finished", q) \notin ToSet(control')
    BY <1>4, <2>3 DEF Queued
  <2> HIDE DEF QueuedKept
  <2> QED BY <1>2, <2>1, <2>2, <2>3, <2>4, <2>5
<1>9. ASSUME NEW r \in Requests, ReportEnd(r)
      PROVE  QueuedKept
  <2>1. r \notin ToSet(commands)
    BY <1>9 DEF ReportEnd, Queued
  <2>2. {"answered", "done"} \subseteq Phases \ {"idle", "reserved", "registered"}
    BY DEF Phases, InFlight
  <2>3. /\ \E x \in {"answered", "done"} : phase' = [phase EXCEPT ![r] = x]
        /\ UNCHANGED <<answer, queueVars, threadVars>>
    BY <1>9 DEF ReportEnd
  <2>4. \A q \in ToSet(commands) :
          OnRequest("Finished", q) \notin ToSet(control')
    BY <2>3 DEF Queued
  <2> HIDE DEF QueuedKept
  <2> QED BY <1>2, <2>1, <2>2, <2>3, <2>4
<1>10. ASSUME NEW r \in Requests, GiveUp(r)
       PROVE  QueuedKept
  <2>1. /\ phase' = [phase EXCEPT ![r] = "gone"]
        /\ answer' = [answer EXCEPT ![r] = "none"]
        /\ UNCHANGED <<commands, threadVars>>
        /\ UNCHANGED control \/ SendControl(OnRequest("Cancel", r))
    BY <1>10 DEF GiveUp
  <2>2. /\ phase'[r] = "gone"
        /\ \A q \in Requests \ {r} : phase'[q] = phase[q]
    BY <2>1, Moved DEF Phases
  <2>3. /\ answer'[r] = "none"
        /\ \A q \in Requests \ {r} : answer'[q] = answer[q]
    BY <2>1 DEF HostType
  <2>4. \A q \in ToSet(commands) :
          OnRequest("Finished", q) \notin ToSet(control')
    BY <1>4, <2>1 DEF Queued
  <2> QED BY <1>0, <2>1, <2>2, <2>3, <2>4 DEF Queued
<1>11. ASSUME NEW s \in Shutdowns, Join(s) \/ Joined(s)
       PROVE  QueuedKept
  <2>1. s \in Requests \ ToSet(commands)
    BY <1>0, <1>11 DEF Join, Joined, Queued
  <2>2. {"joining", "done"} \subseteq Phases \ {"idle", "reserved", "registered"}
    BY DEF Phases, InFlight
  <2>3. /\ \E x \in {"joining", "done"} : phase' = [phase EXCEPT ![s] = x]
        /\ UNCHANGED <<answer, queueVars, threadVars>>
    BY <1>11 DEF Join, Joined
  <2>4. \A q \in ToSet(commands) :
          OnRequest("Finished", q) \notin ToSet(control')
    BY <2>3 DEF Queued
  <2> HIDE DEF QueuedKept
  <2> QED BY <1>2, <2>1, <2>2, <2>3, <2>4
<1>12. CASE DropOwner \/ \E h \in Registers : DropChannel(h)
  <2>1. /\ UNCHANGED <<phase, answer, commands, threadVars>>
        /\ \A q \in ToSet(commands) :
             OnRequest("Finished", q) \notin ToSet(control')
    <3>1. CASE DropOwner
      BY <1>0, <3>1, SendEffect, Messages DEF DropOwner, Queued
    <3>2. CASE \E h \in Registers : DropChannel(h)
      BY <1>4, <3>2 DEF DropChannel, Requests, Guarded
    <3> QED BY <1>12, <3>1, <3>2
  <2> QED BY <1>1, <2>1
<1>13. CASE TakeControl
  <2>1. /\ UNCHANGED <<phase, answer, commands, responder>>
        /\ operations' \subseteq operations /\ aborted' \subseteq aborted \cup operations
        /\ current' \in {current, NoRequest}
        /\ \E kind \in {"Register", "Cancel", "Finished", "RemoveChannel",
                        "Shutdown"} : SelectControl(kind)
    BY <1>13 DEF TakeControl, TakeRegister, TakeCancel, TakeFinished,
                 TakeRemoveChannel, TakeShutdown, SelectControl
  <2>2. ToSet(control') \subseteq ToSet(control)
    BY <2>1, TakeEffect
  <2>3. NoRequest \notin ToSet(commands)
    BY <1>0, WorkerNames
  <2> QED BY <2>1, <2>2, <2>3 DEF Queued
<1>14. CASE TakeCommand
  <2> PICK r \in Requests : \/ DropCancelled(r) \/ StartOperation(r)
                            \/ CreateChannel(r) \/ BeginShutdown(r)
    BY <1>14 DEF TakeCommand
  <2>1. SelectCommand(r)
    BY DEF DropCancelled, StartOperation, CreateChannel, BeginShutdown,
           SelectGuarded
  <2>2. /\ ToSet(commands) = ToSet(commands') \cup {r}
        /\ IsInjective(commands') /\ r \notin ToSet(commands')
        /\ UNCHANGED <<phase, control>>
    BY <2>1, CommandEffect DEF SelectCommand
  <2>3. \/ UNCHANGED answer
        \/ \E result \in {"ok", "error", "dropped"} : Answer(r, result)
    BY DEF DropCancelled, StartOperation, CreateChannel, BeginShutdown
  <2>4. /\ operations' \subseteq operations \cup {r} /\ aborted' = aborted
        /\ {responder', current'} \subseteq {responder, current, r}
    BY DEF DropCancelled, StartOperation, CreateChannel, BeginShutdown,
           SelectGuarded
  <2>5. {"ok", "error", "dropped"} \subseteq Results
    BY DEF Results
  <2>6. CASE UNCHANGED answer
    BY <1>0, <2>2, <2>4, <2>6 DEF Queued
  <2>7. CASE ~UNCHANGED answer
    <3>1. phase[r] \in {"sent", "gone", "done"}
      BY <2>2 DEF Queued
    <3> PICK result \in Results : Answer(r, result)
      BY <2>3, <2>5, <2>7
    <3>2. /\ ToSet(commands') \subseteq ToSet(commands)
          /\ aborted' \subseteq aborted \cup {r}
          /\ {responder', current'} \subseteq {responder, current, r, NoRequest}
      BY <2>2, <2>4
    <3> QED BY <1>3, <2>2, <2>4, <3>1, <3>2
  <2> QED BY <2>6, <2>7
<1>15. ASSUME NEW r \in Calls, TaskStep(r)
       PROVE  QueuedKept
  <2>1. /\ UNCHANGED <<phase, control, commands, current, operations>>
        /\ r \in operations \cup aborted
        /\ aborted' \subseteq aborted /\ responder' \in {responder, r}
        /\ \E result \in {"ok", "error", "dropped"} : Answer(r, result)
    BY <1>15 DEF TaskStep, Respond, DropAborted, Tracked
  <2>2. {"ok", "error", "dropped"} \subseteq Results /\ r \in Requests
    BY <1>0 DEF Results
  <2>3. phase[r] \in {"sent", "gone", "done"}
    BY <2>1 DEF Tracked, Began, Over
  <2>4. r \notin ToSet(commands') /\ IsInjective(commands')
        /\ ToSet(commands') \subseteq ToSet(commands)
    BY <2>1 DEF Queued
  <2> PICK result \in Results : Answer(r, result)
    BY <2>1, <2>2
  <2>5. /\ operations' \subseteq operations \cup {r}
        /\ aborted' \subseteq aborted \cup {r}
        /\ {responder', current'} \subseteq {responder, current, r, NoRequest}
    BY <2>1
  <2> HIDE DEF QueuedKept
  <2> QED BY <1>3, <2>1, <2>2, <2>3, <2>4, <2>5
<1>16. CASE Finish
  <2>1. /\ UNCHANGED <<phase, answer, commands, current, aborted, operations>>
        /\ responder' = NoRequest /\ responder \in Requests
        /\ SendControl(OnRequest("Finished", responder))
    BY <1>0, <1>16 DEF Finish, WorkerType
  <2>2. \A q \in ToSet(commands) :
          OnRequest("Finished", q) \notin ToSet(control')
    BY <2>1, SendEffect, Messages DEF Queued
  <2> QED BY <1>1, <2>1, <2>2
<1>17. CASE FinishShutdown
  <2>1. /\ UNCHANGED <<phase, control, commands, taskVars>> /\ current' = NoRequest
    BY <1>17 DEF FinishShutdown
  <2>2. CASE current = NoRequest
    BY <1>1, <1>17, <2>1, <2>2 DEF FinishShutdown, Queued
  <2>3. CASE current # NoRequest
    <3>1. /\ current \in Requests /\ current \notin ToSet(commands')
          /\ phase[current] \in {"sent", "gone", "done"}
          /\ IsInjective(commands')
      BY <1>0, <2>1, <2>3 DEF WorkerType, Tracked, Queued
    <3>2. \E result \in {"ok", "error"} : Answer(current, result)
      BY <1>17, <2>3 DEF FinishShutdown
    <3>3. {"ok", "error"} \subseteq Results
      BY DEF Results
    <3> PICK result \in Results : Answer(current, result)
      BY <3>2, <3>3
    <3>4. /\ ToSet(commands') \subseteq ToSet(commands)
          /\ operations' \subseteq operations \cup {current}
          /\ aborted' \subseteq aborted \cup {current}
          /\ {responder', current'} \subseteq {responder, current, NoRequest}
      BY <2>1
    <3> QED BY <1>3, <2>1, <3>1, <3>4
  <2> QED BY <2>2, <2>3
<1>18. CASE DropCommands
  <2>1. commands' = <<>> /\ phase' = phase
        /\ ToSet(commands') = {} /\ IsInjective(commands')
    BY <1>18, NothingQueued DEF DropCommands
  <2>2. \A q \in Requests : phase[q] # "sent" => answer'[q] = answer[q]
    BY <1>18, DropEffect DEF DropCommands
  <2> QED BY <2>1, <2>2 DEF Queued
<1>19. CASE DropTasksAndExit
  <2>1. /\ UNCHANGED <<phase, commands, control, current, responder>>
        /\ operations' = {} /\ aborted' = {}
        /\ DropResponses(running \cup aborted)
    BY <1>19 DEF DropTasksAndExit
  <2>2. \A q \in Requests : answer'[q] = answer[q]
                            \/ (phase[q] = "sent" /\ q \in running \cup aborted)
    BY <2>1, DropEffect
  <2>3. \A q \in ToSet(commands) : q \notin running \cup aborted
    BY DEF Queued, Tracked
  <2> QED BY <1>0, <2>1, <2>2, <2>3 DEF Queued
<1>20. CASE DropControl
  <2>1. ToSet(control') = {}
    BY <1>20, NothingQueued DEF DropControl
  <2> QED BY <1>1, <1>20, <2>1 DEF DropControl
<1>21. CASE NoticeFailure \/ DriverStops \/ DriverFails \/ UNCHANGED vars
  BY <1>21 DEF NoticeFailure, DriverStops, DriverFails, vars, Queued
<1> QED BY <1>5, <1>6, <1>7, <1>8, <1>9, <1>10, <1>11, <1>12, <1>13, <1>14,
           <1>15, <1>16, <1>17, <1>18, <1>19, <1>20, <1>21
        DEF Next, HostStep, EndStep

---------------------------------------------------------------------------
(* A step is one of a host thread or one of the worker's thread.           *)
Host ==
  \/ \E r \in Requests : Reserve(r) \/ HostStep(r) \/ GiveUp(r)
  \/ \E h \in Registers : DropChannel(h)
  \/ \E s \in Shutdowns : Join(s) \/ Joined(s)
  \/ DropOwner

(* What a host thread may do to a request: nobody goes on with one that is *)
(* over or has its command sent, except to await it or to give it up.      *)
LEMMA HostProgress ==
  ASSUME TypeOK, Host
  PROVE  /\ UNCHANGED threadVars
         /\ \A q \in Requests :
              /\ Over(q) => phase'[q] = phase[q]
              /\ q \in Guarded /\ Began(q) => Began(q)'
              /\ phase[q] \in {"sent", "gone"} /\ answer[q] = "none" =>
                   phase'[q] \in {"sent", "gone"} /\ answer'[q] = "none"
              /\ phase'[q] = "gone" => phase[q] \in {"sent", "gone"}
              /\ phase'[q] = "done" =>
                   \/ phase[q] = "done" \/ worker = "exited" \/ q \in Shutdowns
                   \/ phase[q] = "sent" /\ answer[q] \in {"ok", "error"}
              /\ phase'[q] = "sent" =>
                   /\ phase[q] \in {"sent", "reserved", "registered"}
                   /\ answer'[q] = answer[q]
<1> USE DEF threadVars
<1> DEFINE
      Proceeds(q) ==
        /\ Over(q) => phase'[q] = phase[q]
        /\ q \in Guarded /\ Began(q) => Began(q)'
        /\ phase[q] \in {"sent", "gone"} /\ answer[q] = "none" =>
             phase'[q] \in {"sent", "gone"} /\ answer'[q] = "none"
        /\ phase'[q] = "gone" => phase[q] \in {"sent", "gone"}
        /\ phase'[q] = "done" =>
             \/ phase[q] = "done" \/ worker = "exited" \/ q \in Shutdowns
             \/ phase[q] = "sent" /\ answer[q] \in {"ok", "error"}
        /\ phase'[q] = "sent" =>
             /\ phase[q] \in {"sent", "reserved", "registered"}
             /\ answer'[q] = answer[q]
<1>1. UNCHANGED threadVars
  BY DEF Host, HostStep, Reserve, RegisterRequest, SendCommand, Receive,
         ReportEnd, GiveUp, DropChannel, Join, Joined, DropOwner
<1>2. \A q : phase'[q] = phase[q] /\ answer'[q] = answer[q] => Proceeds(q)
  BY DEF Over, Began
<1>3. ASSUME NEW r \in Requests, NEW x \in Phases,
             phase' = [phase EXCEPT ![r] = x],
             \A q \in Requests \ {r} : answer'[q] = answer[q],
             Proceeds(r)
      PROVE  \A q \in Requests : Proceeds(q)
  <2>1. \A q \in Requests \ {r} : phase'[q] = phase[q] /\ answer'[q] = answer[q]
    BY <1>3, Moved
  <2> HIDE DEF Proceeds
  <2> QED BY <1>2, <1>3, <2>1
<1>4. {"reserved", "registered", "sent", "failing", "answered", "joining",
       "done", "gone"} \subseteq Phases
  BY DEF Phases, InFlight
<1>5. ASSUME NEW r \in Requests,
             Reserve(r) \/ RegisterRequest(r) \/ SendCommand(r)
      PROVE  \A q \in Requests : Proceeds(q)
  <2> PICK x \in {"reserved", "registered", "sent", "failing"} :
             phase' = [phase EXCEPT ![r] = x]
    BY <1>5 DEF Reserve, RegisterRequest, SendCommand
  <2>1. phase'[r] = x /\ x \in Phases
    BY <1>4, Moved
  <2>2. phase[r] \in {"idle", "reserved", "registered"} /\ answer' = answer
        /\ (x = "sent" => phase[r] \in {"reserved", "registered"})
    BY <1>5, <2>1 DEF Reserve, RegisterRequest, SendCommand
  <2>3. Proceeds(r)
    BY <2>1, <2>2 DEF Over, Began
  <2> HIDE DEF Proceeds
  <2> QED BY <1>3, <2>1, <2>2, <2>3
<1>6. ASSUME NEW r \in Requests, Receive(r) \/ ReportEnd(r)
      PROVE  \A q \in Requests : Proceeds(q)
  <2> PICK x \in {"answered", "done"} :
             /\ phase' = [phase EXCEPT ![r] = x]
             /\ x = IF r \in Shutdowns THEN "answered" ELSE "done"
    BY <1>6 DEF Receive, ReportEnd
  <2>1. phase'[r] = x /\ x \in Phases
    BY <1>4, Moved
  <2>2. /\ \/ phase[r] = "sent" /\ answer[r] \in {"ok", "error"}
           \/ worker = "exited" /\ phase[r] = "failing"
           \/ worker = "exited" /\ phase[r] = "sent" /\ answer[r] = "dropped"
        /\ \A q \in Requests \ {r} : answer'[q] = answer[q]
    BY <1>6 DEF Receive, ReportEnd, TypeOK
  <2>3. r \in Guarded => r \notin Shutdowns
    BY WorkerConstants
  <2>4. Proceeds(r)
    BY <2>1, <2>2, <2>3 DEF Over, Began
  <2> HIDE DEF Proceeds
  <2> QED BY <1>3, <2>1, <2>2, <2>4
<1>7. ASSUME NEW r \in Requests, GiveUp(r)
      PROVE  \A q \in Requests : Proceeds(q)
  <2>1. phase' = [phase EXCEPT ![r] = "gone"] /\ phase[r] = "sent"
        /\ answer' = [answer EXCEPT ![r] = "none"]
    BY <1>7 DEF GiveUp
  <2>2. phase'[r] = "gone"
    BY <1>4, <2>1, Moved
  <2>3. answer'[r] = "none" /\ \A q \in Requests \ {r} : answer'[q] = answer[q]
    BY <2>1 DEF TypeOK
  <2>4. Proceeds(r)
    BY <2>1, <2>2, <2>3 DEF Over, Began
  <2> HIDE DEF Proceeds
  <2> QED BY <1>3, <1>4, <2>1, <2>3, <2>4
<1>8. ASSUME NEW r \in Shutdowns, Join(r) \/ Joined(r)
      PROVE  \A q \in Requests : Proceeds(q)
  <2> PICK x \in {"joining", "done"} : phase' = [phase EXCEPT ![r] = x]
    BY <1>8 DEF Join, Joined
  <2>1. r \in Requests
    BY DEF Requests
  <2>2. phase'[r] = x /\ x \in Phases
    BY <1>4, <2>1, Moved
  <2>3. phase[r] \in {"answered", "joining"} /\ answer' = answer
    BY <1>8 DEF Join, Joined
  <2>4. Proceeds(r)
    BY <2>2, <2>3 DEF Over, Began
  <2> HIDE DEF Proceeds
  <2> QED BY <1>3, <2>1, <2>2, <2>3, <2>4
<1>9. CASE DropOwner \/ \E h \in Registers : DropChannel(h)
  <2>1. UNCHANGED <<phase, answer>>
    BY <1>9 DEF DropOwner, DropChannel
  <2> HIDE DEF Proceeds
  <2> QED BY <1>1, <1>2, <2>1 DEF Proceeds
<1>10. \A q \in Requests : Proceeds(q)
  <2> HIDE DEF Proceeds
  <2>1. CASE DropOwner \/ \E h \in Registers : DropChannel(h)
    <3>1. UNCHANGED <<phase, answer>>
      BY <2>1 DEF DropOwner, DropChannel
    <3> QED BY <1>2, <3>1
  <2> QED BY <1>5, <1>6, <1>7, <1>8, <2>1 DEF Host, HostStep
<1> QED BY <1>1, <1>10

(* What the worker's thread may do to a thread: nothing but answer it.     *)
LEMMA WorkerProgress ==
  ASSUME [Next]_vars, ~Host
  PROVE  UNCHANGED hostVars
<1> USE DEF hostVars
<1>1. CASE TakeControl
  BY <1>1 DEF TakeControl, TakeRegister, TakeCancel, TakeFinished,
              TakeRemoveChannel, TakeShutdown, SelectControl
<1>2. CASE TakeCommand
  BY <1>2 DEF TakeCommand, DropCancelled, StartOperation, CreateChannel,
              BeginShutdown, SelectGuarded, SelectCommand
<1>3. CASE DriverFails \/ EndStep \/ \E c \in Calls : TaskStep(c)
  BY <1>3 DEF EndStep, DriverFails, Finish, NoticeFailure, DriverStops,
              FinishShutdown, DropControl, DropCommands, DropTasksAndExit,
              TaskStep, Respond, DropAborted
<1>4. CASE UNCHANGED vars
  BY <1>4 DEF vars
<1> QED BY <1>1, <1>2, <1>3, <1>4 DEF Next, Host

---------------------------------------------------------------------------
(* Tasks are tracked.                                                      *)
LEMMA StepTracked ==
  ASSUME IInv, [Next]_vars
  PROVE  Tracked'
<1> USE DEF hostVars, queueVars, workerVars, threadVars, taskVars, recordVars
<1> /\ TypeOK /\ Queued /\ Tracked /\ Truthful
    /\ WorkerType /\ RecordType
  BY Types DEF IInv
<1>0. /\ Calls \subseteq Guarded /\ Guarded \subseteq Requests
      /\ Shutdowns \subseteq Requests /\ NoRequest \notin Requests
  BY WorkerNames DEF Requests, Guarded
<1>1. CASE Host
  <2>1. UNCHANGED threadVars
    BY <1>1, HostProgress
  <2>2. \A q \in Requests :
          /\ Over(q) => Over(q)'
          /\ q \in Guarded /\ Began(q) => Began(q)'
          /\ phase[q] \in {"sent", "gone"} /\ answer[q] = "none" =>
               phase'[q] \in {"sent", "gone"} /\ answer'[q] = "none"
    BY <1>1, HostProgress DEF Over
  <2>3. \A r \in operations' \cup ({responder'} \ {NoRequest}) : Began(r)'
    BY <1>0, <2>1, <2>2 DEF Tracked, WorkerType, RecordType
  <2>4. \A r \in aborted' \cup cancelled' : Over(r)'
    BY <1>0, <2>1, <2>2 DEF Tracked, RecordType
  <2>5. current' # NoRequest =>
          /\ worker' = "stopping"
          /\ phase'[current'] \in {"sent", "gone"} /\ answer'[current'] = "none"
    BY <1>0, <2>1, <2>2 DEF Tracked, WorkerType
  <2> QED BY <2>1, <2>3, <2>4, <2>5 DEF Tracked
<1>2. CASE ~Host
  <2>0. /\ phase' = phase /\ \A q : /\ Began(q)' <=> Began(q)
                                    /\ Over(q)' <=> Over(q)
    BY <1>2, WorkerProgress DEF Began, Over
  <2>1. ASSUME running' \subseteq operations', operations' \subseteq operations,
               responder' = responder, cancelled' \subseteq cancelled,
               aborted' \subseteq aborted, running' \subseteq running,
               responder # NoRequest => worker' \in {"select", "stopping"},
               current' = NoRequest
                 \/ (current' = current /\ worker' = worker /\ answer' = answer)
        PROVE  Tracked'
    <3>1. /\ running' \subseteq operations'
          /\ \A r \in operations' \cup ({responder'} \ {NoRequest}) : Began(r)'
          /\ \A r \in aborted' \cup cancelled' : Over(r)'
      BY <2>0, <2>1 DEF Tracked
    <3>2. responder' # NoRequest =>
            worker' \in {"select", "stopping"} /\ responder' \notin running'
      BY <2>1 DEF Tracked
    <3>3. current' # NoRequest => /\ worker' = "stopping"
                                  /\ phase'[current'] \in {"sent", "gone"}
                                  /\ answer'[current'] = "none"
      BY <2>0, <2>1 DEF Tracked
    <3> QED BY <3>1, <3>2, <3>3 DEF Tracked
  <2>2. CASE TakeRegister \/ TakeRemoveChannel
    BY <2>1, <2>2 DEF TakeRegister, TakeRemoveChannel, SelectControl, Tracked
  <2>3. CASE TakeCancel
    <3> DEFINE r == Head(control).id
    <3>1. /\ r \in Requests /\ OnRequest("Cancel", r) \in ToSet(control)
          /\ worker = "select" /\ responder = NoRequest
      BY <2>3, TakeEffect DEF TakeCancel, SelectControl, Polled
    <3>2. Over(r) /\ current = NoRequest
      BY <3>1 DEF Truthful, Tracked
    <3>3. /\ operations' = operations \ {r}
          /\ running' = IF r \in operations THEN running \ {r} ELSE running
          /\ aborted' \subseteq aborted \cup {r}
          /\ cancelled' \subseteq cancelled \cup {r}
          /\ UNCHANGED <<responder, current>>
      BY <2>3 DEF TakeCancel
    <3> HIDE DEF r
    <3>4. running' \subseteq operations'
      BY <3>3 DEF Tracked
    <3> QED BY <2>0, <3>1, <3>2, <3>3, <3>4 DEF Tracked
  <2>4. CASE TakeFinished
    <3> DEFINE r == Head(control).id
    <3>1. /\ r \in Requests /\ OnRequest("Finished", r) \in ToSet(control)
      BY <2>4, TakeEffect DEF TakeFinished
    <3>2. r \notin running
      BY <3>1 DEF Truthful
    <3>3. /\ operations' = operations \ {r} /\ running' = running
          /\ cancelled' \subseteq cancelled
          /\ UNCHANGED <<responder, current, aborted, worker, answer>>
      BY <2>4 DEF TakeFinished
    <3> HIDE DEF r
    <3> QED BY <2>1, <3>2, <3>3 DEF Tracked
  <2>5. CASE TakeShutdown
    BY <2>1, <2>5 DEF TakeShutdown, SelectControl, Tracked
  <2>6. CASE TakeCommand
    <3> PICK r \in Requests : \/ DropCancelled(r) \/ StartOperation(r)
                              \/ CreateChannel(r) \/ BeginShutdown(r)
      BY <2>6 DEF TakeCommand
    <3>1. SelectCommand(r)
      BY DEF DropCancelled, StartOperation, CreateChannel, BeginShutdown,
             SelectGuarded
    <3>2. /\ r \in ToSet(commands) /\ phase[r] \in {"sent", "gone"}
          /\ answer[r] = "none" /\ r # responder
          /\ worker = "select" /\ responder = NoRequest /\ current = NoRequest
      <4>1. r \in ToSet(commands) /\ worker = "select" /\ responder = NoRequest
        BY <3>1, CommandEffect DEF SelectCommand, Polled
      <4> QED BY <4>1 DEF Queued, Tracked
    <3>3. CASE DropCancelled(r) \/ CreateChannel(r)
      BY <2>1, <3>2, <3>3
         DEF DropCancelled, CreateChannel, SelectGuarded, Tracked
    <3>4. CASE StartOperation(r)
      <4>1. /\ operations' = operations \cup {r} /\ running' = running \cup {r}
            /\ cancelled' \subseteq cancelled
            /\ UNCHANGED <<responder, aborted, worker, current, answer>>
        BY <3>4 DEF StartOperation, SelectGuarded
      <4>2. Began(r)
        BY <3>2 DEF Began
      <4> QED BY <2>0, <3>2, <4>1, <4>2 DEF Tracked
    <3>5. CASE BeginShutdown(r)
      <4>1. /\ worker' = "stopping" /\ current' = r
            /\ UNCHANGED <<answer, taskVars, cancelled>>
        BY <3>5 DEF BeginShutdown
      <4> QED BY <2>0, <3>2, <4>1 DEF Tracked
    <3> QED BY <3>3, <3>4, <3>5
  <2>7. ASSUME NEW r \in Calls, TaskStep(r)
        PROVE  Tracked'
    <3>1. /\ responder = NoRequest /\ worker \in {"select", "stopping"}
          /\ UNCHANGED <<operations, cancelled, worker, current>>
          /\ running' \subseteq running /\ aborted' \subseteq aborted
          /\ responder' \in {NoRequest, r}
          /\ responder' = r => r \in operations /\ r \notin running'
          /\ \E result \in {"ok", "error", "dropped"} : Answer(r, result)
      BY <1>0, <2>7 DEF TaskStep, Respond, DropAborted, Polled, Tracked
    <3>2. {"ok", "error", "dropped"} \subseteq Results /\ r \in Requests
      BY <1>0 DEF Results
    <3>3. current # r
      BY <1>0, WorkerConstants DEF WorkerType
    <3>4. current # NoRequest => answer'[current] = answer[current]
      BY <1>0, <3>1, <3>2, <3>3, AnswerEffect DEF WorkerType
    <3> QED BY <2>0, <3>1, <3>4 DEF Tracked
  <2>8. CASE Finish
    BY <2>0, <2>8 DEF Finish, Tracked
  <2>9. CASE \/ NoticeFailure \/ DriverStops \/ DriverFails
             \/ FinishShutdown \/ DropControl
    BY <2>1, <2>9
       DEF NoticeFailure, DriverStops, DriverFails, FinishShutdown, DropControl,
           Polled, Tracked
  <2>10. CASE DropCommands \/ DropTasksAndExit
    <3>1. responder = NoRequest /\ current = NoRequest
      BY <2>10 DEF DropCommands, DropTasksAndExit, Tracked
    <3> QED BY <2>1, <2>10, <3>1 DEF DropCommands, DropTasksAndExit, Tracked
  <2>11. CASE UNCHANGED vars
    BY <2>1, <2>11 DEF vars, Tracked
  <2> QED BY <1>2, <2>2, <2>3, <2>4, <2>5, <2>6, <2>7, <2>8, <2>9, <2>10, <2>11
          DEF Next, Host, TakeControl, EndStep
<1> QED BY <1>1, <1>2

---------------------------------------------------------------------------
(* The control queue.                                                      *)

(* What a message says.                                                    *)
Kinds == {"Register", "Cancel", "Finished", "RemoveChannel"}

Means(kind, r) ==
  /\ kind = "Register" => r \in Guarded
  /\ kind = "Cancel" => r \in Guarded /\ Over(r)
  /\ kind = "Finished" => r \in Calls /\ Began(r) /\ r \notin running
  /\ kind = "RemoveChannel" => r \in Registers \ handles /\ phase[r] = "done"

(* Truthful, message by message.                                           *)
LEMMA Meaning ==
  /\ Truthful <=> \A kind \in Kinds, r \in Requests :
       OnRequest(kind, r) \in ToSet(control) => Means(kind, r)
  /\ Truthful' <=> \A kind \in Kinds, r \in Requests :
       OnRequest(kind, r) \in ToSet(control') => Means(kind, r)'
BY DEF Truthful, Kinds, Means

(* A host thread gets a handle only with the answer that it was waiting    *)
(* for.                                                                    *)
LEMMA HostHandles ==
  ASSUME TypeOK, Host
  PROVE  \A h \in handles' :
           \/ h \in handles
           \/ /\ h \in Registers /\ phase[h] = "sent" /\ answer[h] = "ok"
              /\ phase'[h] = "done"
<1>1. ASSUME NEW r \in Requests, Receive(r)
      PROVE  \A h \in handles' :
               \/ h \in handles
               \/ /\ h \in Registers /\ phase[h] = "sent" /\ answer[h] = "ok"
                  /\ phase'[h] = "done"
  <2>1. CASE r \in Registers /\ answer[r] = "ok"
    <3>1. r \notin Shutdowns
      BY <2>1, WorkerConstants DEF Guarded
    <3>2. /\ phase[r] = "sent" /\ phase' = [phase EXCEPT ![r] = "done"]
          /\ handles' = handles \cup {r}
      BY <1>1, <2>1, <3>1 DEF Receive
    <3>3. phase'[r] = "done"
      BY <3>2 DEF TypeOK
    <3> QED BY <2>1, <3>2, <3>3
  <2>2. CASE ~(r \in Registers /\ answer[r] = "ok")
    BY <1>1, <2>2 DEF Receive
  <2> QED BY <2>1, <2>2
<1>2. CASE /\ \A r \in Requests : ~Receive(r)
           /\ Host
  BY <1>2 DEF Host, HostStep, Reserve, RegisterRequest, SendCommand, ReportEnd,
              GiveUp, DropChannel, Join, Joined, DropOwner
<1> QED BY <1>1, <1>2

(* What a host thread sends.                                               *)
LEMMA HostSends ==
  ASSUME TypeOK, Host
  PROVE  \/ UNCHANGED control
         \/ SendControl([kind |-> "Shutdown"])
         \/ \E r \in Requests :
              \/ /\ r \in Guarded /\ phase[r] = "reserved"
                 /\ SendControl(OnRequest("Register", r))
              \/ /\ r \in Guarded /\ Over(r)'
                 /\ SendControl(OnRequest("Cancel", r))
              \/ /\ r \in handles /\ handles' = handles \ {r}
                 /\ phase' = phase
                 /\ SendControl(OnRequest("RemoveChannel", r))
<1> USE DEF queueVars
<1>1. ASSUME NEW r \in Requests, RegisterRequest(r)
      PROVE  /\ r \in Guarded /\ phase[r] = "reserved"
             /\ SendControl(OnRequest("Register", r))
  BY <1>1 DEF RegisterRequest
<1>2. ASSUME NEW r \in Requests, Receive(r) \/ GiveUp(r)
      PROVE  \/ UNCHANGED control
             \/ /\ r \in Guarded /\ Over(r)'
                /\ SendControl(OnRequest("Cancel", r))
  <2>1. \/ UNCHANGED control
        \/ r \in Guarded /\ SendControl(OnRequest("Cancel", r))
    BY <1>2 DEF Receive, GiveUp
  <2>2. r \in Guarded => r \notin Shutdowns
    BY WorkerConstants
  <2>3. r \in Guarded => phase'[r] \in {"done", "gone"}
    BY <1>2, <2>2 DEF Receive, GiveUp, TypeOK
  <2> QED BY <2>1, <2>3 DEF Over
<1>3. ASSUME NEW h \in Registers, DropChannel(h)
      PROVE  /\ h \in Requests /\ h \in handles /\ handles' = handles \ {h}
             /\ phase' = phase
             /\ SendControl(OnRequest("RemoveChannel", h))
  BY <1>3 DEF DropChannel, Requests, Guarded
<1>4. ASSUME NEW r \in Requests,
             Reserve(r) \/ SendCommand(r) \/ ReportEnd(r) \/ Join(r) \/ Joined(r)
      PROVE  UNCHANGED control
  BY <1>4 DEF Reserve, SendCommand, ReportEnd, Join, Joined
<1>5. CASE DropOwner
  BY <1>5 DEF DropOwner
<1>6. Shutdowns \subseteq Requests
  BY DEF Requests
<1> QED BY <1>1, <1>2, <1>3, <1>4, <1>5, <1>6 DEF Host, HostStep

(* What the worker's thread does to the control queue.                     *)
LEMMA WorkerControl ==
  ASSUME TypeOK, [Next]_vars, ~Host
  PROVE  \/ ToSet(control') \subseteq ToSet(control)
         \/ Finish
<1> USE DEF hostVars, queueVars, workerVars, threadVars, taskVars, recordVars
<1>1. CASE TakeControl
  <2>1. \E kind \in {"Register", "Cancel", "Finished", "RemoveChannel",
                     "Shutdown"} : SelectControl(kind)
    BY <1>1 DEF TakeControl, TakeRegister, TakeCancel, TakeFinished,
                TakeRemoveChannel, TakeShutdown
  <2> QED BY <2>1, TakeEffect
<1>2. CASE DropControl
  <2>1. ToSet(control') = {}
    BY <1>2, NothingQueued DEF DropControl
  <2> QED BY <2>1
<1>3. CASE \/ TakeCommand \/ NoticeFailure \/ DriverStops \/ FinishShutdown
           \/ DropCommands \/ DropTasksAndExit \/ DriverFails
           \/ (\E c \in Calls : TaskStep(c)) \/ UNCHANGED vars
  <2>1. control' = control
    BY <1>3 DEF TakeCommand, DropCancelled, StartOperation, CreateChannel,
                BeginShutdown, SelectGuarded, SelectCommand, NoticeFailure,
                DriverStops, FinishShutdown, DropCommands, DropTasksAndExit,
                DriverFails, TaskStep, Respond, DropAborted, vars
  <2> QED BY <2>1
<1> QED BY <1>1, <1>2, <1>3 DEF Next, Host, EndStep

(* What the control queue says stays so.                                   *)
LEMMA StepTruthful ==
  ASSUME IInv, [Next]_vars
  PROVE  Truthful'
<1> USE DEF hostVars, queueVars, workerVars, threadVars, taskVars, recordVars
<1> /\ TypeOK /\ Queued /\ Tracked /\ Truthful /\ Owned
    /\ WorkerType /\ RecordType
  BY Types DEF IInv
<1>0. /\ Calls \subseteq Guarded /\ Guarded \subseteq Requests
      /\ Calls \subseteq Requests /\ Registers \subseteq Requests
      /\ NoRequest \notin Requests
  BY WorkerNames DEF Requests, Guarded
<1> SUFFICES ASSUME NEW kind \in Kinds, NEW r \in Requests,
                    OnRequest(kind, r) \in ToSet(control')
             PROVE  Means(kind, r)'
  BY Meaning
<1>1. OnRequest(kind, r) \in ToSet(control) => Means(kind, r)
  BY Meaning
<1>2. CASE Host
  <2>1. CASE OnRequest(kind, r) \in ToSet(control)
    <3>1. /\ Over(r) => Over(r)'
          /\ phase[r] = "done" => phase'[r] = "done"
          /\ r \in Calls /\ Began(r) => Began(r)'
          /\ running' = running
      BY <1>0, <1>2, HostProgress DEF Over
    <3>2. phase[r] = "done" /\ r \notin handles => r \notin handles'
      BY <1>2, HostHandles
    <3> QED BY <1>1, <2>1, <3>1, <3>2 DEF Means
  <2>2. CASE OnRequest(kind, r) \notin ToSet(control)
    <3>1. ASSUME NEW k \in Kinds, NEW q \in Requests,
                 SendControl(OnRequest(k, q))
          PROVE  k = kind /\ q = r
      <4>1. OnRequest(kind, r) = OnRequest(k, q)
        BY <2>2, <3>1, SendEffect, Messages DEF Kinds
      <4> QED BY <4>1, Messages
    <3>2. ~UNCHANGED control /\ ~SendControl([kind |-> "Shutdown"])
      BY <2>2, SendEffect, Messages DEF Kinds
    <3>3. \A h \in handles : h \in Registers /\ phase[h] = "done"
      BY DEF Owned, TypeOK
    <3>4. \/ kind = "Register" /\ r \in Guarded
          \/ kind = "Cancel" /\ r \in Guarded /\ Over(r)'
          \/ /\ kind = "RemoveChannel" /\ r \in handles
             /\ handles' = handles \ {r} /\ phase' = phase
      BY <1>2, <3>1, <3>2, HostSends DEF Kinds
    <3> QED BY <3>3, <3>4 DEF Means
  <2> QED BY <2>1, <2>2
<1>3. CASE ~Host
  <2>1. /\ handles' = handles /\ phase' = phase
        /\ Over(r)' <=> Over(r)
        /\ Began(r)' <=> Began(r)
    BY <1>3, WorkerProgress DEF Began, Over
  <2>2. r \in Calls /\ r \notin running /\ r \notin ToSet(commands)
          => r \notin running'
    <3>1. CASE TakeCommand
      <4> PICK q \in Requests : \/ DropCancelled(q) \/ StartOperation(q)
                                \/ CreateChannel(q) \/ BeginShutdown(q)
        BY <3>1 DEF TakeCommand
      <4>1. running' \subseteq running \cup {q} /\ SelectCommand(q)
        BY DEF DropCancelled, StartOperation, CreateChannel, BeginShutdown,
               SelectGuarded
      <4>2. q \in ToSet(commands)
        BY <4>1, CommandEffect
      <4> QED BY <4>1, <4>2
    <3>2. CASE ~TakeCommand
      BY <1>3, <3>2
         DEF Next, Host, TakeControl, TakeRegister, TakeCancel, TakeFinished,
             TakeRemoveChannel, TakeShutdown, EndStep, DriverFails, Finish,
             NoticeFailure, DriverStops, FinishShutdown, DropControl,
             DropCommands, DropTasksAndExit, TaskStep, Respond, DropAborted,
             vars
    <3> QED BY <3>1, <3>2
  <2>3. CASE OnRequest(kind, r) \in ToSet(control)
    <3>1. kind = "Finished" => r \notin ToSet(commands)
      BY <2>3 DEF Queued
    <3> QED BY <1>1, <2>1, <2>2, <2>3, <3>1 DEF Means
  <2>4. CASE OnRequest(kind, r) \notin ToSet(control)
    <3>1. Finish
      BY <1>3, <2>4, WorkerControl
    <3>2. /\ responder \in Calls /\ SendControl(OnRequest("Finished", responder))
          /\ running' = running
      BY <3>1 DEF Finish, WorkerType
    <3>3. OnRequest(kind, r) = OnRequest("Finished", responder)
      BY <1>0, <2>4, <3>2, SendEffect, Messages
    <3>4. kind = "Finished" /\ r = responder
      BY <3>3, Messages
    <3>5. Began(r) /\ r \notin running
      BY <1>0, <3>2, <3>4 DEF Tracked
    <3> QED BY <2>1, <3>2, <3>4, <3>5 DEF Means
  <2> QED BY <2>3, <2>4
<1> QED BY <1>2, <1>3

(* A request is announced before it is cancelled, and before it is over.   *)
LEMMA StepAnnounced ==
  ASSUME IInv, [Next]_vars
  PROVE  Announced'
<1> USE DEF hostVars, queueVars, workerVars, threadVars, taskVars, recordVars
<1> /\ TypeOK /\ Queued /\ Truthful /\ Announced
  BY Types DEF IInv
<1>0. /\ Calls \subseteq Guarded /\ Guarded \subseteq Requests
      /\ Guarded \cap Shutdowns = {}
  BY WorkerConstants DEF Requests, Guarded
<1> DEFINE
      Reg(r) == OnRequest("Register", r)
      Can(r) == OnRequest("Cancel", r)
      Fin(r) == OnRequest("Finished", r)
<1>1. /\ \A r, q : /\ Reg(r) # Can(q) /\ Reg(r) # Fin(q) /\ Can(r) # Fin(q)
                   /\ Reg(r) = Reg(q) => r = q
      /\ \A r \in Requests : {Reg(r), Can(r), Fin(r)} \subseteq ControlCommands
      /\ \A r, q : OnRequest("RemoveChannel", r) \notin {Reg(q), Can(q), Fin(q)}
      /\ \A q : [kind |-> "Shutdown"] \notin {Reg(q), Can(q), Fin(q)}
  BY Messages
<1>2. \A r \in Guarded :
        /\ phase[r] \notin {"gone", "done"} => Can(r) \notin ToSet(control)
        /\ r \in Calls /\ phase[r] \notin {"sent", "gone", "done"} =>
             Fin(r) \notin ToSet(control)
  BY <1>0 DEF Truthful, Over, Began
<1> HIDE DEF Reg, Can, Fin
<1>3. Announced <=>
        /\ ControlOpen =>
             \A r \in Guarded :
               phase[r] = "registered" \/ r \in ToSet(commands) =>
                 r \in known \/ Leads(control, Reg(r), Can(r))
        /\ \A r \in Calls : Trails(control, Fin(r), Reg(r))
  BY DEF Announced, Reg, Can, Fin
<1>4. Announced' <=>
        /\ ControlOpen' =>
             \A r \in Guarded :
               phase'[r] = "registered" \/ r \in ToSet(commands') =>
                 r \in known' \/ Leads(control', Reg(r), Can(r))
        /\ \A r \in Calls : Trails(control', Fin(r), Reg(r))
  BY DEF Announced, Reg, Can, Fin
(* A message other than an announcement disturbs nothing.                  *)
<1>5. ASSUME NEW c \in ControlCommands, SendControl(c), \A r : c # Reg(r)
      PROVE  /\ \A r : Leads(control, Reg(r), Can(r))
                         => Leads(control', Reg(r), Can(r))
             /\ \A r \in Calls : Trails(control', Fin(r), Reg(r))
  BY <1>1, <1>3, <1>5, SendEffect
<1>6. ASSUME \A r : Leads(control, Reg(r), Can(r))
                      => r \in known' \/ Leads(control', Reg(r), Can(r)),
             \A r \in Calls : Trails(control', Fin(r), Reg(r)),
             \A r \in Guarded : phase'[r] = "registered" => phase[r] = "registered",
             \A r \in Guarded : r \in ToSet(commands') =>
               r \in ToSet(commands) \/ phase[r] = "registered",
             \A r \in known \ known' :
               phase'[r] # "registered" /\ r \notin ToSet(commands'),
             ControlOpen' => ControlOpen
      PROVE  Announced'
  BY <1>3, <1>4, <1>6
<1>7. CASE Host
  <2>1. known' = known /\ (ControlOpen' <=> ControlOpen)
    BY <1>7, HostProgress DEF ControlOpen
  <2>2. ASSUME NEW r \in Requests, RegisterRequest(r)
        PROVE  Announced'
    <3>1. /\ r \in Guarded /\ phase[r] = "reserved" /\ SendControl(Reg(r))
          /\ phase' = [phase EXCEPT ![r] = IF ControlOpen THEN "registered"
                                                         ELSE "failing"]
          /\ commands' = commands
      BY <2>2 DEF RegisterRequest, Reg
    <3>2. \A q \in Requests \ {r} : phase'[q] = phase[q]
      BY <3>1, Moved DEF Phases, InFlight
    <3>3. /\ Can(r) \notin ToSet(control)
          /\ r \in Calls => Fin(r) \notin ToSet(control)
      BY <1>2, <3>1
    <3>4. ControlOpen => Leads(control', Reg(r), Can(r))
      BY <1>0, <1>1, <3>1, <3>3, SendEffect
    <3>5. \A q \in Calls : Trails(control', Fin(q), Reg(q))
      BY <1>0, <1>1, <1>3, <3>1, <3>3, SendEffect
    <3>6. \A q : Leads(control, Reg(q), Can(q)) => Leads(control', Reg(q), Can(q))
      BY <1>0, <1>1, <3>1, SendEffect
    <3> QED BY <1>0, <1>3, <1>4, <2>1, <3>1, <3>2, <3>4, <3>5, <3>6
  <2>3. ASSUME NEW r \in Requests, SendCommand(r)
        PROVE  Announced'
    <3>1. /\ phase' = [phase EXCEPT ![r] = "sent"] /\ control' = control
          /\ r \in Guarded => phase[r] = "registered"
          /\ ToSet(commands') = ToSet(commands) \cup {r}
      BY <2>3, Appended DEF SendCommand, TypeOK
    <3>2. phase'[r] = "sent" /\ \A q \in Requests \ {r} : phase'[q] = phase[q]
      BY <3>1, Moved DEF Phases, InFlight
    <3> QED BY <1>0, <1>3, <1>6, <2>1, <3>1, <3>2
  <2>4. CASE \A r \in Requests : ~RegisterRequest(r) /\ ~SendCommand(r)
    <3>1. commands' = commands
      BY <1>7, <2>4 DEF Host, HostStep, Reserve, Receive, ReportEnd, GiveUp,
                        DropChannel, Join, Joined, DropOwner
    <3>2. \A r \in Requests : phase'[r] = "registered" => phase[r] = "registered"
      <4>1. ASSUME NEW r \in Requests, NEW x \in Phases \ {"registered"},
                   phase' = [phase EXCEPT ![r] = x]
            PROVE  \A q \in Requests :
                     phase'[q] = "registered" => phase[q] = "registered"
        BY <4>1, Moved
      <4>2. {"reserved", "failing", "answered", "done", "gone", "joining"}
              \subseteq Phases \ {"registered"}
        BY DEF Phases, InFlight
      <4>3. Shutdowns \subseteq Requests
        BY DEF Requests
      <4>4. \/ phase' = phase
            \/ \E r \in Requests :
                 \E x \in {"reserved", "failing", "answered", "done", "gone",
                           "joining"} : phase' = [phase EXCEPT ![r] = x]
        BY <1>7, <2>4, <4>3
           DEF Host, HostStep, Reserve, Receive, ReportEnd, GiveUp, DropChannel,
               Join, Joined, DropOwner
      <4> QED BY <4>1, <4>2, <4>4
    <3>3. \/ UNCHANGED control
          \/ \E c \in ControlCommands : SendControl(c) /\ \A r : c # Reg(r)
      <4>1. ASSUME NEW r \in Requests, Receive(r) \/ GiveUp(r)
            PROVE  UNCHANGED control \/ SendControl(Can(r))
        BY <4>1 DEF Receive, GiveUp, Can
      <4>2. ASSUME NEW h \in Registers, DropChannel(h)
            PROVE  /\ h \in Requests
                   /\ SendControl(OnRequest("RemoveChannel", h))
        BY <4>2 DEF DropChannel, Requests, Guarded
      <4>3. /\ [kind |-> "Shutdown"] \in ControlCommands
            /\ \A r \in Requests : OnRequest("RemoveChannel", r) \in ControlCommands
        BY Messages
      <4>4. CASE DropOwner
        BY <1>1, <4>3, <4>4 DEF DropOwner
      <4>5. ASSUME NEW r \in Requests,
                   Reserve(r) \/ ReportEnd(r) \/ Join(r) \/ Joined(r)
            PROVE  UNCHANGED control
        BY <4>5 DEF Reserve, ReportEnd, Join, Joined
      <4>6. Shutdowns \subseteq Requests
        BY DEF Requests
      <4> QED BY <1>1, <1>7, <2>4, <4>1, <4>2, <4>3, <4>4, <4>5, <4>6
              DEF Host, HostStep
    <3>4. /\ \A r : Leads(control, Reg(r), Can(r))
                      => Leads(control', Reg(r), Can(r))
          /\ \A r \in Calls : Trails(control', Fin(r), Reg(r))
      BY <1>3, <1>5, <3>3
    <3> QED BY <1>0, <1>6, <2>1, <3>1, <3>2, <3>4
  <2> QED BY <2>2, <2>3, <2>4
<1>8. CASE ~Host
  <2>1. phase' = phase
    BY <1>8, WorkerProgress
  <2>2. ASSUME NEW kind, SelectControl(kind)
        PROVE  /\ \A r : Leads(control, Reg(r), Can(r))
                           => \/ Head(control) = Reg(r)
                              \/ Leads(control', Reg(r), Can(r))
               /\ \A r \in Calls : Trails(control', Fin(r), Reg(r))
               /\ commands' = commands /\ Head(control).kind = kind
               /\ ControlOpen
    <3>1. /\ commands' = commands /\ ControlOpen
      BY <2>2 DEF SelectControl, Polled, ControlOpen
    <3> QED BY <1>1, <1>3, <2>2, <3>1, TakeEffect
  <2>3. \A r : Reg(r).kind = "Register" /\ Reg(r).id = r
    BY Messages DEF Reg
  <2>4. CASE TakeRegister
    <3>1. SelectControl("Register") /\ known' = known \cup {Head(control).id}
      BY <2>4 DEF TakeRegister
    <3>2. \A r : Leads(control, Reg(r), Can(r))
                   => r \in known' \/ Leads(control', Reg(r), Can(r))
      BY <2>2, <2>3, <3>1
    <3> QED BY <1>6, <2>1, <2>2, <3>1, <3>2
  <2>5. ASSUME NEW kind \in {"Cancel", "Finished", "RemoveChannel", "Shutdown"},
               SelectControl(kind),
               \A r \in known \ known' :
                 phase[r] # "registered" /\ r \notin ToSet(commands)
        PROVE  Announced'
    <3>1. \A r : Leads(control, Reg(r), Can(r))
                   => Leads(control', Reg(r), Can(r))
      BY <2>2, <2>3, <2>5
    <3> QED BY <1>6, <2>1, <2>2, <2>5, <3>1
  <2>6. CASE TakeFinished
    <3>1. /\ SelectControl("Finished") /\ known' = known \ {Head(control).id}
      BY <2>6 DEF TakeFinished
    <3>2. OnRequest("Finished", Head(control).id) \in ToSet(control)
          /\ Head(control).id \in Requests
      BY <3>1, TakeEffect
    <3>3. /\ phase[Head(control).id] # "registered"
          /\ Head(control).id \notin ToSet(commands)
      BY <3>2 DEF Truthful, Began, Queued
    <3> QED BY <2>5, <3>1, <3>3
  <2>7. CASE TakeCancel \/ TakeRemoveChannel \/ TakeShutdown
    <3>1. /\ known' = known
          /\ \E kind \in {"Cancel", "RemoveChannel", "Shutdown"} :
               SelectControl(kind)
      BY <2>7 DEF TakeCancel, TakeRemoveChannel, TakeShutdown
    <3> QED BY <2>5, <3>1
  <2>8. CASE TakeCommand
    <3> PICK r \in Requests : \/ DropCancelled(r) \/ StartOperation(r)
                              \/ CreateChannel(r) \/ BeginShutdown(r)
      BY <2>8 DEF TakeCommand
    <3>1. SelectCommand(r)
      BY DEF DropCancelled, StartOperation, CreateChannel, BeginShutdown,
             SelectGuarded
    <3>2. known \ {r} \subseteq known'
      BY DEF DropCancelled, StartOperation, CreateChannel, BeginShutdown,
             SelectGuarded
    <3>3. /\ control' = control /\ r \notin ToSet(commands')
          /\ ToSet(commands) = ToSet(commands') \cup {r} /\ ControlOpen
      BY <3>1, CommandEffect DEF SelectCommand, Polled, ControlOpen
    <3>4. phase[r] # "registered"
      BY <3>3 DEF Queued
    <3> QED BY <1>3, <1>6, <2>1, <3>2, <3>3, <3>4
  <2>9. CASE Finish
    <3>1. /\ responder \in Requests /\ SendControl(Fin(responder))
          /\ UNCHANGED <<commands, known, worker>>
      BY <1>0, <2>9 DEF Finish, TypeOK, Fin
    <3>2. \A r : Fin(responder) # Reg(r)
      BY <1>1
    <3>3. /\ \A r : Leads(control, Reg(r), Can(r))
                      => Leads(control', Reg(r), Can(r))
          /\ \A r \in Calls : Trails(control', Fin(r), Reg(r))
      BY <1>1, <1>5, <3>1, <3>2
    <3> QED BY <1>6, <2>1, <3>1, <3>3 DEF ControlOpen
  <2>10. CASE DropControl
    <3>1. control' = <<>> /\ ~ControlOpen'
      BY <2>10 DEF DropControl, ControlOpen
    <3>2. \A a, b : Trails(control', a, b)
      BY <3>1 DEF Trails
    <3> QED BY <1>4, <3>1, <3>2
  <2>11. CASE DropCommands \/ DropTasksAndExit
    <3>1. control' = control /\ ~ControlOpen'
      BY <2>11 DEF DropCommands, DropTasksAndExit, ControlOpen
    <3> QED BY <1>3, <1>4, <3>1
  <2>12. CASE \/ NoticeFailure \/ DriverStops \/ FinishShutdown \/ DriverFails
              \/ (\E c \in Calls : TaskStep(c)) \/ UNCHANGED vars
    <3>1. UNCHANGED <<queueVars, known>> /\ (ControlOpen' => ControlOpen)
      BY <2>12 DEF NoticeFailure, DriverStops, FinishShutdown, DriverFails,
                   TaskStep, Respond, DropAborted, vars, ControlOpen, Polled
    <3> QED BY <1>3, <1>6, <2>1, <3>1
  <2> QED BY <1>8, <2>4, <2>6, <2>7, <2>8, <2>9, <2>10, <2>11, <2>12
          DEF Next, Host, TakeControl, EndStep
<1> QED BY <1>7, <1>8

---------------------------------------------------------------------------
(* What is tracked or recorded of an operation that was answered goes.     *)
LEMMA StepSettled ==
  ASSUME IInv, [Next]_vars
  PROVE  Settled'
<1> USE DEF hostVars, queueVars, workerVars, threadVars, taskVars, recordVars
<1> /\ TypeOK /\ Queued /\ Tracked /\ Truthful /\ Announced /\ Settled
    /\ WorkerType /\ RecordType
  BY Types DEF IInv
<1>0. /\ Calls \subseteq Guarded /\ Guarded \subseteq Requests
      /\ Calls \subseteq Requests /\ Calls \cap Shutdowns = {}
      /\ Calls \cap Registers = {} /\ NoRequest \notin Requests
      /\ Guarded \cap Shutdowns = {}
  BY WorkerConstants, WorkerNames DEF Requests, Guarded
<1> DEFINE Responded(r) ==
      \/ phase[r] = "done"
      \/ phase[r] = "sent" /\ answer[r] \in {"ok", "error"}
<1> SUFFICES ASSUME ControlOpen', NEW r \in Calls
             PROVE  /\ r \in operations' \ running' => Ending(r)'
                    /\ Responded(r)' =>
                         \/ Ending(r)'
                         \/ /\ r \notin known' \cup cancelled'
                            /\ OnRequest("Register", r) \notin ToSet(control')
  BY DEF Settled
<1> r \in Guarded /\ r \in Requests
  BY <1>0
<1> DEFINE Goal == /\ r \in operations' \ running' => Ending(r)'
                   /\ Responded(r)' =>
                        \/ Ending(r)'
                        \/ /\ r \notin known' \cup cancelled'
                           /\ OnRequest("Register", r) \notin ToSet(control')
<1>1. ControlOpen =>
        /\ r \in operations \ running => Ending(r)
        /\ Responded(r) =>
             \/ Ending(r)
             \/ /\ r \notin known \cup cancelled
                /\ OnRequest("Register", r) \notin ToSet(control)
  BY DEF Settled
<1>2. \A k, k2 \in Kinds : \A q, q2 :
        OnRequest(k, q) = OnRequest(k2, q2) => k = k2 /\ q = q2
  BY Messages
<1>3. CASE Host
  <2>1. UNCHANGED threadVars /\ ControlOpen
    BY <1>3, HostProgress DEF ControlOpen
  <2>2. Responded(r)' => Responded(r)
    <3>1. worker # "exited" /\ r \notin Shutdowns
      BY <1>0, <2>1 DEF ControlOpen
    <3>2. phase'[r] = "sent" => phase[r] \in {"sent", "reserved", "registered"}
                                /\ answer'[r] = answer[r]
      BY <1>3, HostProgress
    <3>3. phase'[r] = "done" => Responded(r)
      BY <1>3, <3>1, HostProgress
    <3>4. phase[r] \in {"reserved", "registered"} => answer[r] = "none"
      BY DEF Queued
    <3> QED BY <3>2, <3>3, <3>4
  <2>3. /\ ToSet(control) \subseteq ToSet(control')
        /\ OnRequest("Register", r) \in ToSet(control') =>
             \/ OnRequest("Register", r) \in ToSet(control)
             \/ phase[r] = "reserved"
    <3>1. \/ UNCHANGED control
          \/ SendControl([kind |-> "Shutdown"])
          \/ \E k \in Kinds, q \in Requests :
               /\ SendControl(OnRequest(k, q))
               /\ k = "Register" => phase[q] = "reserved"
      <4>1. {"Register", "Cancel", "RemoveChannel"} \subseteq Kinds
        BY DEF Kinds
      <4> QED BY <1>3, <4>1, HostSends
    <3>2. CASE UNCHANGED control
      BY <3>2
    <3>3. CASE SendControl([kind |-> "Shutdown"])
      BY <3>3, SendEffect, Messages
    <3>4. ASSUME NEW k \in Kinds, NEW q \in Requests,
                 SendControl(OnRequest(k, q)),
                 k = "Register" => phase[q] = "reserved"
          PROVE  /\ ToSet(control) \subseteq ToSet(control')
                 /\ OnRequest("Register", r) \in ToSet(control') =>
                      \/ OnRequest("Register", r) \in ToSet(control)
                      \/ phase[r] = "reserved"
      <4>1. /\ OnRequest(k, q) \in ControlCommands /\ "Register" \in Kinds
        BY Messages DEF Kinds
      <4> QED BY <1>2, <3>4, <4>1, SendEffect
    <3> QED BY <3>1, <3>2, <3>3, <3>4
  <2>4. Ending(r) => Ending(r)'
    BY <2>1, <2>3 DEF Ending
  <2>5. phase[r] = "reserved" => ~Responded(r)
    OBVIOUS
  <2> HIDE DEF Responded
  <2> QED BY <1>1, <2>1, <2>2, <2>3, <2>4, <2>5
<1>4. CASE ~Host
  <2>1. phase' = phase
    BY <1>4, WorkerProgress
  <2>2. ASSUME NEW kind \in Kinds, SelectControl(kind)
        PROVE  /\ Head(control).id \in Requests /\ ControlOpen
               /\ Head(control) = OnRequest(kind, Head(control).id)
               /\ ToSet(control) = ToSet(control') \cup {Head(control)}
               /\ responder = NoRequest
    <3>1. ControlOpen /\ responder = NoRequest
      BY <2>2 DEF SelectControl, Polled, ControlOpen
    <3> QED BY <2>2, <3>1, TakeEffect DEF Kinds
  <2>3. CASE TakeRegister
    <3> DEFINE q == Head(control).id
    <3>1. /\ SelectControl("Register") /\ "Register" \in Kinds
          /\ known' = known \cup {q} /\ "Finished" \in Kinds
          /\ UNCHANGED <<answer, operations, running, responder, cancelled>>
      BY <2>3 DEF TakeRegister, Kinds
    <3>2. Ending(r) => Ending(r)'
      BY <1>2, <2>2, <3>1 DEF Ending
    <3>3. OnRequest("Register", r) \notin ToSet(control) => r # q
      BY <2>2, <3>1
    <3> HIDE DEF q
    <3> QED BY <1>1, <2>1, <2>2, <3>1, <3>2, <3>3
  <2>4. CASE TakeCancel
    <3> DEFINE q == Head(control).id
    <3>1. /\ SelectControl("Cancel") /\ "Cancel" \in Kinds
          /\ operations' = operations \ {q} /\ "Finished" \in Kinds
          /\ running' = IF q \in operations THEN running \ {q} ELSE running
          /\ cancelled' = IF q \in known \ operations THEN cancelled \cup {q}
                                                      ELSE cancelled
          /\ UNCHANGED <<answer, responder, known>>
      BY <2>4 DEF TakeCancel, Kinds
    <3>2. Ending(r) => Ending(r)'
      BY <1>2, <2>2, <3>1 DEF Ending
    <3>3. /\ ToSet(control') \subseteq ToSet(control) /\ ControlOpen
      BY <2>2, <3>1
    <3> HIDE DEF q
    <3> QED BY <1>1, <2>1, <3>1, <3>2, <3>3
  <2>5. CASE TakeFinished
    <3> DEFINE q == Head(control).id
    <3>1. /\ SelectControl("Finished") /\ "Finished" \in Kinds
          /\ operations' = operations \ {q} /\ "Register" \in Kinds
          /\ known' = known \ {q} /\ cancelled' = cancelled \ {q}
          /\ UNCHANGED <<answer, responder, running>>
      BY <2>5 DEF TakeFinished, Kinds
    <3>2. ToSet(control') \subseteq ToSet(control) /\ ControlOpen
          /\ Head(control) = OnRequest("Finished", q)
      BY <2>2, <3>1
    <3>3. CASE r = q
      <4>1. OnRequest("Finished", r) # OnRequest("Register", r)
        BY Messages
      <4>2. Trails(control, OnRequest("Finished", r), OnRequest("Register", r))
        BY DEF Announced
      <4>3. OnRequest("Register", r) \notin ToSet(control')
        BY <3>1, <3>2, <3>3, <4>1, <4>2, TakeEffect
      <4> QED BY <3>1, <3>3, <4>3
    <3>4. CASE r # q
      <4>1. Ending(r) => Ending(r)'
        BY <1>2, <2>2, <3>1, <3>4 DEF Ending
      <4> HIDE DEF q
      <4> QED BY <1>1, <2>1, <3>1, <3>2, <3>4, <4>1
    <3> QED BY <3>3, <3>4
  <2>6. CASE TakeRemoveChannel
    <3>1. /\ SelectControl("RemoveChannel") /\ "RemoveChannel" \in Kinds
          /\ "Finished" \in Kinds
          /\ UNCHANGED <<answer, operations, running, responder, known, cancelled>>
      BY <2>6 DEF TakeRemoveChannel, Kinds
    <3>2. Ending(r) => Ending(r)'
      BY <1>2, <2>2, <3>1 DEF Ending
    <3> QED BY <1>1, <2>1, <2>2, <3>1, <3>2
  <2>7. CASE TakeShutdown
    <3>1. /\ SelectControl("Shutdown") /\ ControlOpen
          /\ UNCHANGED <<answer, operations, running, responder, known, cancelled>>
      BY <2>7 DEF TakeShutdown, SelectControl, Polled, ControlOpen
    <3>2. /\ ToSet(control) = ToSet(control') \cup {Head(control)}
          /\ Head(control).kind = "Shutdown"
      BY <3>1, TakeEffect
    <3>3. Ending(r) => Ending(r)'
      <4>1. OnRequest("Finished", r).kind # "Shutdown"
        BY Messages
      <4> QED BY <3>1, <3>2, <4>1 DEF Ending
    <3> QED BY <1>1, <2>1, <3>1, <3>2, <3>3
  <2>8. CASE TakeCommand
    <3> PICK q \in Requests : \/ DropCancelled(q) \/ StartOperation(q)
                              \/ CreateChannel(q) \/ BeginShutdown(q)
      BY <2>8 DEF TakeCommand
    <3>1. SelectCommand(q)
      BY DEF DropCancelled, StartOperation, CreateChannel, BeginShutdown,
             SelectGuarded
    <3>2. /\ q \in ToSet(commands) /\ control' = control /\ ControlOpen
      BY <3>1, CommandEffect DEF SelectCommand, Polled, ControlOpen
    <3>3. phase[q] \in {"sent", "gone"} /\ answer[q] = "none"
          /\ q \notin operations
      BY <3>2 DEF Queued
    <3>4. /\ {"ok", "error", "dropped"} \subseteq Results
      BY DEF Results
    <3>5. CASE DropCancelled(q)
      <4>1. /\ Answer(q, "dropped") /\ phase[q] = "gone"
            /\ known' \subseteq known /\ cancelled' \subseteq cancelled
            /\ UNCHANGED <<operations, running, responder>>
        BY <3>3, <3>5 DEF DropCancelled, SelectGuarded, Tracked, Over
      <4>2. answer'[r] = answer[r]
        BY <3>4, <4>1, AnswerEffect
      <4> QED BY <1>1, <2>1, <3>2, <4>1, <4>2 DEF Ending
    <3>6. CASE StartOperation(q)
      <4>1. /\ operations' = operations \cup {q} /\ running' = running \cup {q}
            /\ known' \subseteq known /\ cancelled' \subseteq cancelled
            /\ UNCHANGED <<answer, responder>>
        BY <3>6 DEF StartOperation, SelectGuarded
      <4> QED BY <1>1, <2>1, <3>2, <3>3, <4>1 DEF Ending
    <3>7. CASE CreateChannel(q)
      <4>1. /\ q \in Registers /\ \E result \in {"ok", "error"} : Answer(q, result)
            /\ known' \subseteq known /\ cancelled' \subseteq cancelled
            /\ UNCHANGED <<operations, running, responder>>
        BY <3>7 DEF CreateChannel, SelectGuarded
      <4>2. answer'[r] = answer[r]
        BY <1>0, <3>4, <4>1, AnswerEffect
      <4> QED BY <1>1, <2>1, <3>2, <4>1, <4>2 DEF Ending
    <3>8. CASE BeginShutdown(q)
      BY <1>1, <2>1, <3>2, <3>8 DEF BeginShutdown, Ending
    <3> QED BY <3>5, <3>6, <3>7, <3>8
  <2>9. ASSUME NEW q \in Calls, Respond(q)
        PROVE  Goal
    <3>1. /\ responder = NoRequest /\ responder' = q /\ running' = running \ {q}
          /\ UNCHANGED <<control, operations, known, cancelled>>
          /\ ControlOpen /\ \E result \in {"ok", "error"} : Answer(q, result)
      BY <2>9 DEF Respond, Polled, ControlOpen
    <3>2. {"ok", "error"} \subseteq Results /\ q \in Requests
      BY <1>0 DEF Results
    <3>3. CASE r = q
      BY <3>1, <3>3 DEF Ending
    <3>4. CASE r # q
      <4>1. answer'[r] = answer[r]
        BY <3>1, <3>2, <3>4, AnswerEffect
      <4>2. Ending(r) => Ending(r)'
        BY <1>0, <3>1, <3>4 DEF Ending
      <4> QED BY <1>1, <2>1, <3>1, <3>4, <4>1, <4>2
    <3> QED BY <3>3, <3>4
  <2>10. ASSUME NEW q \in Calls, DropAborted(q)
         PROVE  Goal
    <3>1. /\ UNCHANGED <<control, operations, running, responder, known, cancelled>>
          /\ ControlOpen /\ q \in aborted /\ Answer(q, "dropped")
      BY <2>10 DEF DropAborted, Polled, ControlOpen
    <3>2. "dropped" \in Results /\ q \in Requests /\ phase[q] # "sent"
      BY <1>0, <3>1 DEF Results, Tracked, Over
    <3>3. answer'[r] = answer[r]
      BY <3>1, <3>2, AnswerEffect
    <3> QED BY <1>1, <2>1, <3>1, <3>3 DEF Ending
  <2>11. CASE Finish
    <3>1. /\ responder \in Calls /\ responder \in Requests /\ responder' = NoRequest
          /\ SendControl(OnRequest("Finished", responder)) /\ ControlOpen
          /\ UNCHANGED <<answer, operations, running, known, cancelled>>
      BY <1>0, <2>11 DEF Finish, WorkerType, ControlOpen
    <3>2. /\ ToSet(control) \subseteq ToSet(control')
          /\ ToSet(control') \subseteq
               ToSet(control) \cup {OnRequest("Finished", responder)}
          /\ OnRequest("Finished", responder) \in ToSet(control')
      BY <3>1, SendEffect, Messages
    <3>3. Ending(r) => Ending(r)'
      BY <3>1, <3>2 DEF Ending
    <3>4. OnRequest("Register", r) \in ToSet(control') =>
            OnRequest("Register", r) \in ToSet(control)
      BY <3>2, Messages
    <3> QED BY <1>1, <2>1, <3>1, <3>3, <3>4
  <2>12. CASE FinishShutdown
    <3>1. /\ UNCHANGED <<control, operations, running, responder, known, cancelled>>
          /\ ControlOpen
          /\ UNCHANGED answer \/ (current \in Shutdowns
               /\ \E result \in {"ok", "error"} : Answer(current, result))
      BY <2>12 DEF FinishShutdown, Polled, ControlOpen, WorkerType
    <3>2. {"ok", "error"} \subseteq Results /\ Shutdowns \subseteq Requests
      BY DEF Results, Requests
    <3>3. answer'[r] = answer[r]
      BY <1>0, <3>1, <3>2, AnswerEffect
    <3> QED BY <1>1, <2>1, <3>1, <3>3 DEF Ending
  <2>13. CASE NoticeFailure \/ DriverStops \/ DriverFails \/ UNCHANGED vars
    <3>1. /\ UNCHANGED <<control, answer, operations, running, responder, known,
                         cancelled>>
          /\ ControlOpen
      BY <2>13 DEF NoticeFailure, DriverStops, DriverFails, vars, Polled,
                   ControlOpen
    <3> QED BY <1>1, <2>1, <3>1 DEF Ending
  <2>14. ~DropControl /\ ~DropCommands /\ ~DropTasksAndExit
    BY DEF DropControl, DropCommands, DropTasksAndExit, ControlOpen
  <2> QED BY <1>4, <2>3, <2>4, <2>5, <2>6, <2>7, <2>8, <2>9, <2>10, <2>11, <2>12,
             <2>13, <2>14 DEF Next, Host, TakeControl, EndStep, TaskStep
<1> QED BY <1>3, <1>4

(* What a host thread does to the command queue: it adds the commands it   *)
(* sends.                                                                  *)
LEMMA HostCommands ==
  ASSUME TypeOK, Host
  PROVE  /\ ToSet(commands) \subseteq ToSet(commands')
         /\ \A q \in Requests :
              /\ phase'[q] = "sent" /\ phase[q] # "sent" => q \in ToSet(commands')
              /\ q \in ToSet(commands') =>
                   q \in ToSet(commands) \/ phase'[q] = "sent"
<1> USE DEF queueVars
<1>1. ASSUME NEW r \in Requests, SendCommand(r)
      PROVE  /\ ToSet(commands') = ToSet(commands) \cup {r}
             /\ phase'[r] = "sent"
             /\ \A q \in Requests \ {r} : phase'[q] = phase[q]
  <2>1. commands' = Append(commands, r) /\ commands \in Seq(Requests)
        /\ phase' = [phase EXCEPT ![r] = "sent"]
    BY <1>1 DEF SendCommand, TypeOK
  <2>2. "sent" \in Phases
    BY DEF Phases, InFlight
  <2>3. ToSet(commands') = ToSet(commands) \cup {r}
    BY <2>1, Appended
  <2>4. phase'[r] = "sent" /\ \A q \in Requests \ {r} : phase'[q] = phase[q]
    BY <2>1, <2>2, Moved
  <2> QED BY <2>3, <2>4
<1>2. CASE \A r \in Requests : ~SendCommand(r)
  <2>1. commands' = commands
    BY <1>2 DEF Host, HostStep, Reserve, RegisterRequest, Receive, ReportEnd,
                GiveUp, DropChannel, Join, Joined, DropOwner
  <2>2. ASSUME NEW r \in Requests, NEW x \in Phases \ {"sent"},
               phase' = [phase EXCEPT ![r] = x]
        PROVE  \A q \in Requests : phase'[q] = "sent" => phase[q] = "sent"
    BY <2>2, Moved
  <2>3. {"reserved", "registered", "failing", "answered", "done", "gone",
         "joining"} \subseteq Phases \ {"sent"} /\ Shutdowns \subseteq Requests
    BY DEF Phases, InFlight, Requests
  <2>4. \/ phase' = phase
        \/ \E r \in Requests :
             \E x \in {"reserved", "registered", "failing", "answered", "done",
                       "gone", "joining"} : phase' = [phase EXCEPT ![r] = x]
    BY <1>2, <2>3
       DEF Host, HostStep, Reserve, RegisterRequest, Receive, ReportEnd, GiveUp,
           DropChannel, Join, Joined, DropOwner
  <2>5. \A q \in Requests : phase'[q] = "sent" => phase[q] = "sent"
    BY <2>2, <2>3, <2>4
  <2> QED BY <2>1, <2>5
<1> QED BY <1>1, <1>2

---------------------------------------------------------------------------
(* What the worker's thread does to the requests: whom it answers, and     *)
(* whose command or task it takes.                                         *)
LEMMA StepHeld ==
  ASSUME IInv, [Next]_vars
  PROVE  Held'
<1> USE DEF hostVars, queueVars, workerVars, threadVars, taskVars, recordVars
<1> /\ TypeOK /\ Queued /\ Tracked /\ Truthful /\ Held
    /\ WorkerType /\ RecordType
  BY Types DEF IInv
<1>0. /\ Calls \subseteq Requests /\ Shutdowns \subseteq Requests
      /\ NoRequest \notin Requests
      /\ {"ok", "error", "dropped"} \subseteq Results
  BY WorkerNames DEF Requests, Guarded, Results
<1> SUFFICES ASSUME NEW r \in Requests, phase'[r] = "sent"
             PROVE  /\ answer'[r] = "none" =>
                         \/ r \in ToSet(commands') \cup running'
                         \/ worker' = "stopping" /\ current' = r
                    /\ answer'[r] = "dropped" =>
                         worker' \in {"commands_dropped", "exited"}
  BY DEF Held
<1> DEFINE Goal == /\ answer'[r] = "none" =>
                        \/ r \in ToSet(commands') \cup running'
                        \/ worker' = "stopping" /\ current' = r
                   /\ answer'[r] = "dropped" =>
                        worker' \in {"commands_dropped", "exited"}
<1>1. phase[r] = "sent" =>
        /\ answer[r] = "none" => \/ r \in ToSet(commands) \cup running
                                 \/ worker = "stopping" /\ current = r
        /\ answer[r] = "dropped" => worker \in {"commands_dropped", "exited"}
  BY DEF Held
<1>2. CASE Host
  <2>1. /\ UNCHANGED <<running, worker, current>>
        /\ phase[r] \in {"sent", "reserved", "registered"}
        /\ answer'[r] = answer[r]
    BY <1>2, HostProgress
  <2>2. /\ ToSet(commands) \subseteq ToSet(commands')
        /\ phase[r] # "sent" => r \in ToSet(commands') /\ answer[r] = "none"
    BY <1>2, <2>1, HostCommands DEF Queued
  <2> QED BY <1>1, <2>1, <2>2
<1>3. CASE ~Host
  <2>1. phase' = phase /\ phase[r] = "sent"
    BY <1>3, WorkerProgress
  <2>2. CASE TakeCancel
    <3> DEFINE q == Head(control).id
    <3>1. /\ SelectControl("Cancel") /\ running \ {q} \subseteq running'
          /\ UNCHANGED <<answer, commands, worker>>
          /\ worker = "select"
      BY <2>2 DEF TakeCancel, SelectControl, Polled
    <3>2. q \in Requests /\ OnRequest("Cancel", q) \in ToSet(control)
      BY <3>1, TakeEffect
    <3>3. Over(q)
      BY <3>2 DEF Truthful
    <3>4. r # q
      BY <2>1, <3>3 DEF Over
    <3> HIDE DEF q
    <3> QED BY <1>1, <2>1, <3>1, <3>4
  <2>3. CASE TakeControl /\ ~TakeCancel
    <3>1. /\ UNCHANGED <<answer, commands, running>> /\ worker = "select"
      BY <2>3 DEF TakeControl, TakeRegister, TakeFinished, TakeRemoveChannel,
                  TakeShutdown, SelectControl, Polled
    <3> QED BY <1>1, <2>1, <3>1
  <2>4. CASE TakeCommand
    <3> PICK q \in Requests : \/ DropCancelled(q) \/ StartOperation(q)
                              \/ CreateChannel(q) \/ BeginShutdown(q)
      BY <2>4 DEF TakeCommand
    <3>1. SelectCommand(q)
      BY DEF DropCancelled, StartOperation, CreateChannel, BeginShutdown,
             SelectGuarded
    <3>2. /\ ToSet(commands) = ToSet(commands') \cup {q}
          /\ worker = "select"
      BY <3>1, CommandEffect DEF SelectCommand, Polled
    <3>3. CASE DropCancelled(q)
      <4>1. Answer(q, "dropped") /\ running' = running /\ Over(q)
        BY <3>3 DEF DropCancelled, Tracked
      <4>2. r # q
        BY <2>1, <4>1 DEF Over
      <4>3. answer'[r] = answer[r]
        BY <1>0, <4>1, <4>2, AnswerEffect
      <4> QED BY <1>1, <2>1, <3>2, <4>1, <4>2, <4>3
    <3>4. CASE StartOperation(q)
      <4>1. answer' = answer /\ running' = running \cup {q}
        BY <3>4 DEF StartOperation
      <4> QED BY <1>1, <2>1, <3>2, <4>1
    <3>5. CASE CreateChannel(q)
      <4> PICK result \in {"ok", "error"} : Answer(q, result)
        BY <3>5 DEF CreateChannel
      <4>1. running' = running
        BY <3>5 DEF CreateChannel
      <4>2. answer'[r] = IF r = q THEN result ELSE answer[r]
        BY <1>0, <2>1, AnswerEffect
      <4> QED BY <1>1, <2>1, <3>2, <4>1, <4>2
    <3>6. CASE BeginShutdown(q)
      <4>1. /\ UNCHANGED <<answer, running>> /\ worker' = "stopping"
            /\ current' = q
        BY <3>6 DEF BeginShutdown
      <4> QED BY <1>1, <2>1, <3>2, <4>1
    <3> QED BY <3>3, <3>4, <3>5, <3>6
  <2>5. ASSUME NEW q \in Calls, Respond(q)
        PROVE  Goal
    <3> PICK result \in {"ok", "error"} : Answer(q, result)
      BY <2>5 DEF Respond
    <3>1. /\ running' = running \ {q} /\ UNCHANGED <<commands, worker, current>>
      BY <2>5 DEF Respond
    <3>2. answer'[r] = IF r = q THEN result ELSE answer[r]
      BY <1>0, <2>1, AnswerEffect
    <3> QED BY <1>1, <2>1, <3>1, <3>2
  <2>6. ASSUME NEW q \in Calls, DropAborted(q)
        PROVE  Goal
    <3>1. /\ Answer(q, "dropped") /\ Over(q)
          /\ UNCHANGED <<commands, running, worker, current>>
      BY <2>6 DEF DropAborted, Tracked
    <3>2. r # q
      BY <2>1, <3>1 DEF Over
    <3>3. answer'[r] = answer[r]
      BY <1>0, <3>1, <3>2, AnswerEffect
    <3> QED BY <1>1, <2>1, <3>1, <3>3
  <2>7. CASE FinishShutdown
    <3>1. UNCHANGED <<commands, running>> /\ worker = "stopping"
      BY <2>7 DEF FinishShutdown, Polled
    <3>2. CASE current = NoRequest
      <4>1. answer' = answer /\ current # r
        BY <1>0, <2>7, <3>2 DEF FinishShutdown
      <4> QED BY <1>1, <2>1, <3>1, <4>1
    <3>3. CASE current # NoRequest
      <4>0. current \in Requests
        BY <1>0, <3>3 DEF WorkerType
      <4> PICK result \in {"ok", "error"} : Answer(current, result)
        BY <2>7, <3>3 DEF FinishShutdown
      <4>1. answer'[r] = IF r = current THEN result ELSE answer[r]
        BY <1>0, <2>1, <4>0, AnswerEffect
      <4> QED BY <1>1, <2>1, <3>1, <4>1
    <3> QED BY <3>2, <3>3
  <2>8. CASE DropCommands
    <3>1. /\ DropResponses(ToSet(commands)) /\ running' = running
          /\ worker = "control_dropped" /\ worker' = "commands_dropped"
      BY <2>8 DEF DropCommands
    <3>2. answer'[r] = IF r \in ToSet(commands) THEN "dropped" ELSE answer[r]
      BY <2>1, <3>1, DropEffect
    <3> QED BY <1>1, <2>1, <3>1, <3>2
  <2>9. CASE DropTasksAndExit
    <3>1. /\ DropResponses(running \cup aborted) /\ commands' = commands
          /\ worker = "commands_dropped" /\ worker' = "exited"
      BY <2>9 DEF DropTasksAndExit
    <3>2. answer'[r] = IF r \in running \cup aborted THEN "dropped"
                                                      ELSE answer[r]
      BY <2>1, <3>1, DropEffect
    <3> QED BY <1>1, <2>1, <3>1, <3>2
  <2>10. CASE \/ Finish \/ NoticeFailure \/ DriverStops \/ DriverFails
              \/ DropControl \/ UNCHANGED vars
    <3>1. /\ UNCHANGED <<answer, commands, running>>
          /\ UNCHANGED <<worker, current>> \/ worker \in {"select", "ending"}
      BY <2>10 DEF Finish, NoticeFailure, DriverStops, DriverFails, DropControl,
                   vars, Polled
    <3> QED BY <1>1, <2>1, <3>1
  <2> QED BY <1>3, <2>2, <2>3, <2>4, <2>5, <2>6, <2>7, <2>8, <2>9, <2>10
          DEF Next, Host, EndStep, TaskStep
<1> QED BY <1>2, <1>3

---------------------------------------------------------------------------
(* A cancellation that was handled keeps its request from running.         *)
LEMMA StepAbandoned ==
  ASSUME IInv, [Next]_vars
  PROVE  AbandonedNeverRuns'
<1> USE DEF hostVars, queueVars, workerVars, threadVars, taskVars, recordVars
<1> /\ TypeOK /\ Queued /\ Tracked /\ Truthful /\ Announced
    /\ AbandonedNeverRuns /\ WorkerType /\ RecordType
  BY Types DEF IInv
<1> SUFFICES ASSUME NEW r \in Guarded, phase'[r] = "gone", worker' = "select",
                    OnRequest("Cancel", r) \notin ToSet(control')
             PROVE  /\ r \notin running'
                    /\ r \in ToSet(commands') => r \in cancelled'
  BY DEF AbandonedNeverRuns
<1> DEFINE Goal == /\ r \notin running'
                   /\ r \in ToSet(commands') => r \in cancelled'
<1>0. r \in Requests
  BY DEF Requests
<1>1. phase[r] = "gone" /\ worker = "select"
        /\ OnRequest("Cancel", r) \notin ToSet(control) =>
          r \notin running /\ (r \in ToSet(commands) => r \in cancelled)
  BY DEF AbandonedNeverRuns
<1>2. CASE Host
  <2>1. UNCHANGED <<running, cancelled, worker>> /\ ControlOpen
    BY <1>2, HostProgress DEF ControlOpen
  <2>2. CASE GiveUp(r)
    <3>1. SendControl(OnRequest("Cancel", r))
      BY <2>2 DEF GiveUp
    <3> QED BY <1>0, <2>1, <3>1, SendEffect, Messages
  <2>3. CASE ~GiveUp(r)
    <3>1. phase[r] = "gone"
      <4>1. ASSUME NEW q \in Requests, NEW x \in Phases, x # "gone" \/ q # r,
                   phase' = [phase EXCEPT ![q] = x]
            PROVE  phase[r] = "gone"
        BY <1>0, <4>1, Moved
      <4>2. {"reserved", "registered", "sent", "failing", "answered", "done",
             "gone", "joining"} \subseteq Phases /\ Shutdowns \subseteq Requests
        BY DEF Phases, InFlight, Requests
      <4>3. \/ phase' = phase
            \/ \E q \in Requests :
                 \E x \in {"reserved", "registered", "sent", "failing",
                           "answered", "done", "joining"} :
                   phase' = [phase EXCEPT ![q] = x]
            \/ \E q \in Requests \ {r} : phase' = [phase EXCEPT ![q] = "gone"]
        BY <1>2, <2>3, <4>2
           DEF Host, HostStep, Reserve, RegisterRequest, SendCommand, Receive,
               ReportEnd, GiveUp, DropChannel, Join, Joined, DropOwner
      <4> QED BY <4>1, <4>2, <4>3
    <3>2. r \in ToSet(commands') => r \in ToSet(commands)
      BY <1>0, <1>2, HostCommands
    <3>3. ToSet(control) \subseteq ToSet(control')
      <4>1. {"Register", "Cancel", "RemoveChannel"} \subseteq Kinds
        BY DEF Kinds
      <4>2. \/ UNCHANGED control
            \/ SendControl([kind |-> "Shutdown"])
            \/ \E q \in Requests, kind \in Kinds : SendControl(OnRequest(kind, q))
        BY <1>2, <4>1, HostSends
      <4> QED BY <4>2, SendEffect, Messages DEF Kinds
    <3> QED BY <1>1, <2>1, <3>1, <3>2, <3>3
  <2> QED BY <2>2, <2>3
<1>3. CASE ~Host
  <2>1. phase[r] = "gone"
    BY <1>3, WorkerProgress
  <2>2. CASE TakeCancel
    <3> DEFINE q == Head(control).id
    <3>1. /\ SelectControl("Cancel") /\ commands' = commands
          /\ running' = IF q \in operations THEN running \ {q} ELSE running
          /\ cancelled' = IF q \in known \ operations THEN cancelled \cup {q}
                                                      ELSE cancelled
          /\ worker = "select" /\ ControlOpen
      BY <2>2 DEF TakeCancel, SelectControl, Polled, ControlOpen
    <3>2. /\ Head(control) = OnRequest("Cancel", q)
          /\ ToSet(control) = ToSet(control') \cup {Head(control)}
      BY <3>1, TakeEffect
    <3>3. CASE r = q
      <4>1. r \notin running'
        BY <3>1, <3>3 DEF Tracked
      <4>2. ASSUME r \in ToSet(commands)
            PROVE  r \in cancelled'
        <5>1. r \notin operations
          BY <4>2 DEF Queued
        <5>2. OnRequest("Register", r) # OnRequest("Cancel", r)
          BY Messages
        <5>3. ~Leads(control, OnRequest("Register", r), OnRequest("Cancel", r))
          BY <3>1, <3>2, <3>3, <5>2, TakeEffect
        <5>4. r \in known
          BY <3>1, <4>2, <5>3 DEF Announced
        <5> HIDE DEF q
        <5> QED BY <3>1, <3>3, <5>1, <5>4
      <4> QED BY <3>1, <4>1, <4>2
    <3>4. CASE r # q
      <4>1. OnRequest("Cancel", r) # OnRequest("Cancel", q)
        BY <3>4, Messages
      <4>2. OnRequest("Cancel", r) \notin ToSet(control)
        BY <3>2, <4>1
      <4> HIDE DEF q
      <4> QED BY <1>1, <2>1, <3>1, <3>4, <4>2
    <3> QED BY <3>3, <3>4
  <2>3. ASSUME NEW kind \in (Kinds \ {"Cancel"}) \cup {"Shutdown"},
               SelectControl(kind)
        PROVE  OnRequest("Cancel", r) \notin ToSet(control)
    <3>1. /\ Head(control).kind = kind
          /\ ToSet(control) = ToSet(control') \cup {Head(control)}
      BY <2>3, TakeEffect
    <3>2. OnRequest("Cancel", r).kind = "Cancel" /\ kind # "Cancel"
      BY Messages
    <3> QED BY <3>1, <3>2
  <2>4. CASE TakeRegister \/ TakeRemoveChannel \/ TakeShutdown
    <3>1. /\ \E kind \in (Kinds \ {"Cancel"}) \cup {"Shutdown"} :
               SelectControl(kind)
          /\ UNCHANGED <<running, cancelled, commands>> /\ worker = "select"
      BY <2>4 DEF TakeRegister, TakeRemoveChannel, TakeShutdown, Kinds,
                  SelectControl, Polled
    <3> QED BY <1>1, <2>1, <2>3, <3>1
  <2>5. CASE TakeFinished
    <3> DEFINE q == Head(control).id
    <3>1. /\ SelectControl("Finished") /\ "Finished" \in Kinds
          /\ cancelled' = cancelled \ {q}
          /\ UNCHANGED <<running, commands>> /\ worker = "select"
      BY <2>5 DEF TakeFinished, SelectControl, Kinds, Polled
    <3>2. OnRequest("Finished", q) \in ToSet(control)
      BY <3>1, TakeEffect
    <3>3. q \notin ToSet(commands)
      BY <3>2 DEF Queued
    <3> HIDE DEF q
    <3> QED BY <1>1, <2>1, <2>3, <3>1, <3>3
  <2>6. CASE TakeCommand
    <3> PICK q \in Requests : \/ DropCancelled(q) \/ StartOperation(q)
                              \/ CreateChannel(q) \/ BeginShutdown(q)
      BY <2>6 DEF TakeCommand
    <3>1. SelectCommand(q)
      BY DEF DropCancelled, StartOperation, CreateChannel, BeginShutdown,
             SelectGuarded
    <3>2. /\ ToSet(commands) = ToSet(commands') \cup {q}
          /\ q \notin ToSet(commands')
          /\ worker = "select" /\ control' = control
      BY <3>1, CommandEffect DEF SelectCommand, Polled
    <3>3. cancelled \ {q} \subseteq cancelled'
      BY DEF DropCancelled, StartOperation, CreateChannel, BeginShutdown,
             SelectGuarded
    <3>4. running' \subseteq running \cup {q}
          /\ (q \in cancelled => running' = running)
      BY DEF DropCancelled, StartOperation, CreateChannel, BeginShutdown
    <3> QED BY <1>1, <2>1, <3>2, <3>3, <3>4
  <2>7. CASE \/ Finish \/ DriverFails \/ NoticeFailure \/ DriverStops
             \/ UNCHANGED vars \/ \E c \in Calls : TaskStep(c)
    <3>1. /\ UNCHANGED <<cancelled, commands>> /\ running' \subseteq running
          /\ worker = "select"
      BY <2>7 DEF Finish, DriverFails, NoticeFailure, DriverStops, vars, TaskStep,
                  Respond, DropAborted
    <3>2. ToSet(control) \subseteq ToSet(control')
      <4>1. CASE Finish
        <5>1. responder \in Requests /\ SendControl(OnRequest("Finished", responder))
          BY <1>0, <4>1 DEF Finish, WorkerType, Requests, Guarded
        <5> QED BY <5>1, SendEffect, Messages
      <4>2. CASE ~Finish
        BY <2>7, <4>2 DEF DriverFails, NoticeFailure, DriverStops, vars, TaskStep,
                          Respond, DropAborted
      <4> QED BY <4>1, <4>2
    <3> QED BY <1>1, <2>1, <3>1, <3>2
  <2>8. ~DropControl /\ ~DropCommands /\ ~DropTasksAndExit /\ ~FinishShutdown
    BY DEF DropControl, DropCommands, DropTasksAndExit, FinishShutdown
  <2> QED BY <1>3, <2>2, <2>4, <2>5, <2>6, <2>7, <2>8
          DEF Next, Host, TakeControl, EndStep
<1> QED BY <1>2, <1>3

---------------------------------------------------------------------------
(* Handles have their channels.                                            *)

(* What a host thread does to the calls on a channel and to the            *)
(* registrations that were answered.                                       *)
LEMMA HostOwnership ==
  ASSUME TypeOK, Host
  PROVE  /\ \A c \in Calls : phase'[c] \in InFlight =>
              \/ target'[c] \in handles /\ handles' = handles
              \/ target'[c] = NoChannel
              \/ target'[c] = target[c] /\ phase[c] \in InFlight
         /\ \A h \in handles :
              \/ h \in handles'
              \/ DropChannel(h)
         /\ \A h \in Registers : phase[h] = "sent" /\ answer[h] = "ok" =>
              \/ phase'[h] = "sent" /\ answer'[h] = "ok"
              \/ h \in handles'
              \/ h \in orphans'
<1>0. /\ Calls \subseteq Requests /\ Registers \subseteq Requests
      /\ Calls \cap Shutdowns = {} /\ Registers \cap Shutdowns = {}
      /\ Registers \cap Calls = {}
      /\ Shutdowns \subseteq Requests
  BY WorkerConstants DEF Requests, Guarded
<1> DEFINE
      Borrows(c) == phase'[c] \in InFlight =>
                      \/ target'[c] \in handles /\ handles' = handles
                      \/ target'[c] = NoChannel
                      \/ target'[c] = target[c] /\ phase[c] \in InFlight
      Keeps(h) == phase[h] = "sent" /\ answer[h] = "ok" =>
                    \/ phase'[h] = "sent" /\ answer'[h] = "ok"
                    \/ h \in handles'
                    \/ h \in orphans'
      Goal == /\ \A c \in Calls : Borrows(c)
              /\ \A h \in handles : h \in handles' \/ DropChannel(h)
              /\ \A h \in Registers : Keeps(h)
<1>1. /\ phase \in [Requests -> Phases] /\ answer \in [Requests -> Results]
      /\ target \in [Calls -> Registers \cup {NoChannel}]
  BY DEF TypeOK, Phases, Results
<1>2. ASSUME NEW r \in Requests, NEW x \in Phases,
             phase' = [phase EXCEPT ![r] = x], answer'  = answer,
             phase[r] # "sent", x \in InFlight => phase[r] \in InFlight,
             UNCHANGED <<target, handles>>
      PROVE  Goal
  <2>1. phase'[r] = x /\ \A q \in Requests \ {r} : phase'[q] = phase[q]
    BY <1>2, Moved
  <2> QED BY <1>0, <1>2, <2>1
<1>3. ASSUME NEW r \in Requests, Reserve(r)
      PROVE  Goal
  <2>1. /\ phase[r] = "idle" /\ UNCHANGED <<answer, handles>>
        /\ \E x \in {"reserved", "failing"} : phase' = [phase EXCEPT ![r] = x]
    BY <1>3 DEF Reserve
  <2>2. \A q \in Requests \ {r} : phase'[q] = phase[q]
    BY <2>1, Moved DEF Phases, InFlight
  <2>3. \A c \in Calls :
          \/ target'[c] = target[c] /\ c # r
          \/ target'[c] \in handles \cup {NoChannel}
    <3>1. CASE r \in Calls
      <4> PICK h \in handles \cup {NoChannel} : target' = [target EXCEPT ![r] = h]
        BY <1>3, <3>1 DEF Reserve
      <4> QED BY <1>1, <3>1
    <3>2. CASE r \notin Calls
      BY <1>3, <3>2 DEF Reserve
    <3> QED BY <3>1, <3>2
  <2>4. \A c \in Calls : Borrows(c)
    BY <1>0, <2>1, <2>2, <2>3
  <2>5. \A h \in Registers : Keeps(h)
    BY <1>0, <2>1, <2>2
  <2> QED BY <2>1, <2>4, <2>5
<1>4. ASSUME NEW r \in Requests, RegisterRequest(r)
      PROVE  Goal
  <2>1. {"registered", "failing"} \subseteq Phases /\ "reserved" \in InFlight
    BY DEF Phases, InFlight
  <2>2. /\ phase[r] = "reserved" /\ UNCHANGED <<answer, target, handles>>
        /\ \E x \in {"registered", "failing"} : phase' = [phase EXCEPT ![r] = x]
    BY <1>4 DEF RegisterRequest
  <2> HIDE DEF Goal
  <2> QED BY <1>2, <2>1, <2>2
<1>5. ASSUME NEW r \in Requests, SendCommand(r)
      PROVE  Goal
  <2>1. /\ "sent" \in Phases /\ {"reserved", "registered"} \subseteq InFlight
    BY DEF Phases, InFlight
  <2>2. /\ phase[r] \in {"reserved", "registered"}
        /\ UNCHANGED <<answer, target, handles>>
        /\ phase' = [phase EXCEPT ![r] = "sent"]
    BY <1>5 DEF SendCommand
  <2> HIDE DEF Goal
  <2> QED BY <1>2, <2>1, <2>2
<1>6. ASSUME NEW r \in Requests, Receive(r)
      PROVE  Goal
  <2>1. /\ phase[r] = "sent" /\ answer[r] \in {"ok", "error"}
        /\ phase' = [phase EXCEPT ![r] = IF r \in Shutdowns THEN "answered"
                                                            ELSE "done"]
        /\ answer' = [answer EXCEPT ![r] = "none"]
        /\ handles \subseteq handles'
        /\ r \in Registers /\ answer[r] = "ok" => r \in handles'
        /\ target' = IF r \in Calls THEN [target EXCEPT ![r] = NoChannel]
                                    ELSE target
    BY <1>6 DEF Receive, Release
  <2>2. /\ \A q \in Requests \ {r} : phase'[q] = phase[q] /\ answer'[q] = answer[q]
        /\ \A c \in Calls \ {r} : target'[c] = target[c]
        /\ r \in Calls => target'[r] = NoChannel
    BY <1>1, <2>1
  <2>3. \A c \in Calls : Borrows(c)
    BY <1>0, <2>2
  <2>4. \A h \in Registers : Keeps(h)
    <3> SUFFICES ASSUME NEW h \in Registers
                 PROVE  Keeps(h)
      OBVIOUS
    <3>1. CASE h = r
      BY <2>1, <3>1
    <3>2. CASE h # r
      BY <1>0, <2>2, <3>2
    <3> QED BY <3>1, <3>2
  <2> QED BY <2>1, <2>3, <2>4
<1>7. ASSUME NEW r \in Requests, ReportEnd(r)
      PROVE  Goal
  <2>1. /\ phase[r] = "failing" \/ answer[r] = "dropped"
        /\ phase' = [phase EXCEPT ![r] = IF r \in Shutdowns THEN "answered"
                                                            ELSE "done"]
        /\ UNCHANGED <<answer, target, handles>>
    BY <1>7 DEF ReportEnd
  <2>2. /\ \A q \in Requests \ {r} : phase'[q] = phase[q]
        /\ phase'[r] = IF r \in Shutdowns THEN "answered" ELSE "done"
    BY <1>1, <2>1
  <2>3. r \notin Shutdowns => phase'[r] \notin InFlight
    BY <2>2 DEF InFlight
  <2>4. \A c \in Calls : Borrows(c)
    BY <1>0, <2>1, <2>2, <2>3
  <2>5. \A h \in Registers : Keeps(h)
    BY <1>0, <2>1, <2>2
  <2> QED BY <2>1, <2>4, <2>5
<1>8. ASSUME NEW r \in Requests, GiveUp(r)
      PROVE  Goal
  <2>1. /\ phase' = [phase EXCEPT ![r] = "gone"]
        /\ answer' = [answer EXCEPT ![r] = "none"]
        /\ r \in Registers /\ answer[r] = "ok" => r \in orphans'
        /\ UNCHANGED <<target, handles>>
    BY <1>8 DEF GiveUp
  <2>2. /\ \A q \in Requests \ {r} : phase'[q] = phase[q] /\ answer'[q] = answer[q]
        /\ phase'[r] = "gone" /\ "gone" \notin InFlight
    BY <1>1, <2>1 DEF InFlight
  <2>3. \A c \in Calls : Borrows(c)
    BY <1>0, <2>1, <2>2
  <2>4. \A h \in Registers : Keeps(h)
    BY <1>0, <2>1, <2>2
  <2> QED BY <2>1, <2>3, <2>4
<1>9. ASSUME NEW s \in Shutdowns, Join(s) \/ Joined(s)
      PROVE  Goal
  <2>1. /\ {"joining", "done"} \subseteq Phases /\ s \in Requests
        /\ {"answered", "joining"} \subseteq InFlight
    BY <1>0 DEF Phases, InFlight
  <2>2. /\ phase[s] \in {"answered", "joining"}
        /\ UNCHANGED <<answer, target, handles>>
        /\ \E x \in {"joining", "done"} : phase' = [phase EXCEPT ![s] = x]
    BY <1>9 DEF Join, Joined
  <2> HIDE DEF Goal
  <2> QED BY <1>2, <2>1, <2>2
<1>10. ASSUME NEW h \in Registers, DropChannel(h)
       PROVE  Goal
  <2>1. handles' = handles \ {h} /\ UNCHANGED <<phase, answer, target>>
    BY <1>10 DEF DropChannel
  <2> HIDE DEF DropChannel
  <2> QED BY <1>10, <2>1
<1>11. Goal
  <2> HIDE DEF Goal
  <2>1. CASE DropOwner
    BY <2>1 DEF DropOwner, Goal
  <2> QED BY <1>3, <1>4, <1>5, <1>6, <1>7, <1>8, <1>9, <1>10, <2>1
          DEF Host, HostStep
<1> QED BY <1>11

(* What the worker's thread answers to a registration: that it has its     *)
(* channel, or that it failed.                                             *)
LEMMA WorkerAnswers ==
  ASSUME IInv, [Next]_vars, ~Host, ControlOpen',
         \A q \in Requests : ~CreateChannel(q)
  PROVE  \A h \in Registers : phase[h] = "sent" => answer'[h] = answer[h]
<1> USE DEF hostVars, queueVars, workerVars, threadVars, taskVars, recordVars
<1> /\ TypeOK /\ Queued /\ Tracked /\ WorkerType
  BY Types DEF IInv
<1>0. /\ Calls \subseteq Requests /\ Shutdowns \subseteq Requests
      /\ Registers \subseteq Requests
      /\ Registers \cap Calls = {} /\ Registers \cap Shutdowns = {}
      /\ {"ok", "error", "dropped"} \subseteq Results
  BY WorkerConstants DEF Requests, Guarded, Results
<1>1. ASSUME NEW q \in Requests, NEW result \in Results, Answer(q, result),
             q \notin Registers \/ phase[q] # "sent"
      PROVE  \A h \in Registers : phase[h] = "sent" => answer'[h] = answer[h]
  BY <1>0, <1>1, AnswerEffect
<1>2. CASE TakeCommand
  <2> PICK q \in Requests : DropCancelled(q) \/ StartOperation(q)
                            \/ BeginShutdown(q)
    BY <1>2 DEF TakeCommand
  <2>1. CASE DropCancelled(q)
    <3>1. Answer(q, "dropped") /\ phase[q] # "sent"
      BY <2>1 DEF DropCancelled, Tracked, Over
    <3> QED BY <1>0, <1>1, <3>1
  <2>2. CASE StartOperation(q) \/ BeginShutdown(q)
    BY <2>2 DEF StartOperation, BeginShutdown
  <2> QED BY <2>1, <2>2
<1>3. ASSUME NEW q \in Calls, TaskStep(q)
      PROVE  \A h \in Registers : phase[h] = "sent" => answer'[h] = answer[h]
  <2>1. \E result \in {"ok", "error", "dropped"} : Answer(q, result)
    BY <1>3 DEF TaskStep, Respond, DropAborted
  <2> QED BY <1>0, <1>1, <2>1
<1>4. CASE FinishShutdown
  <2>1. CASE current = NoRequest
    BY <1>4, <2>1 DEF FinishShutdown
  <2>2. CASE current # NoRequest
    <3>1. /\ current \in Shutdowns
          /\ \E result \in {"ok", "error"} : Answer(current, result)
      BY <1>4, <2>2 DEF FinishShutdown, WorkerType
    <3> QED BY <1>0, <1>1, <3>1
  <2> QED BY <2>1, <2>2
<1>5. CASE \/ TakeControl \/ Finish \/ NoticeFailure \/ DriverStops
           \/ DriverFails \/ UNCHANGED vars
  BY <1>5 DEF TakeControl, TakeRegister, TakeCancel, TakeFinished,
              TakeRemoveChannel, TakeShutdown, Finish, NoticeFailure,
              DriverStops, DriverFails, vars
<1>6. ~DropControl /\ ~DropCommands /\ ~DropTasksAndExit
  BY DEF DropControl, DropCommands, DropTasksAndExit, ControlOpen
<1> QED BY <1>2, <1>3, <1>4, <1>5, <1>6 DEF Next, Host, EndStep

(* Handles have their channels, and calls in progress their handles.       *)
LEMMA StepOwned ==
  ASSUME IInv, [Next]_vars
  PROVE  Owned'
<1> USE DEF hostVars, queueVars, workerVars, threadVars, taskVars, recordVars
<1> /\ TypeOK /\ Queued /\ Tracked /\ Truthful /\ Owned
    /\ AbandonedNeverRuns /\ HostType /\ RecordType
    /\ orphans \subseteq orphans'
  BY Types, StepOrphans DEF IInv
<1>0. /\ Calls \subseteq Requests /\ Registers \subseteq Requests
      /\ handles \subseteq Registers /\ handles' \subseteq Registers
      /\ channels \subseteq Registers
      /\ "RemoveChannel" \in Kinds /\ Registers \cap Shutdowns = {}
  <2>1. HostType'
    BY StepHost
  <2> QED BY <2>1, WorkerConstants
          DEF HostType, RecordType, Requests, Guarded, Kinds
<1> DEFINE Rem(h) == OnRequest("RemoveChannel", h)
<1>1. /\ \A h \in handles : phase[h] = "done"
      /\ \A c \in Calls : phase[c] \in InFlight /\ target[c] # NoChannel =>
                            target[c] \in handles
      /\ ControlOpen =>
           /\ handles \subseteq channels
           /\ \A h \in Registers :
                phase[h] = "sent" /\ answer[h] = "ok" => h \in channels
           /\ \A h \in channels :
                \/ h \in handles
                \/ Rem(h) \in ToSet(control)
                \/ phase[h] = "sent" /\ answer[h] = "ok"
                \/ h \in orphans
  BY DEF Owned
<1>2. CASE Host
  <2>1. /\ UNCHANGED <<channels, worker>>
        /\ ControlOpen' <=> ControlOpen
    BY <1>2, HostProgress DEF ControlOpen
  <2>2. \A h \in handles' : phase'[h] = "done"
    <3>1. \A h \in handles : phase'[h] = "done"
      BY <1>0, <1>1, <1>2, HostProgress DEF Over
    <3> QED BY <1>2, <3>1, HostHandles
  <2>3. \A c \in Calls : phase'[c] \in InFlight /\ target'[c] # NoChannel =>
                           target'[c] \in handles'
    <3> SUFFICES ASSUME NEW c \in Calls, phase'[c] \in InFlight,
                        target'[c] # NoChannel
                 PROVE  target'[c] \in handles'
      OBVIOUS
    <3>1. \/ target'[c] \in handles /\ handles' = handles
          \/ target'[c] = target[c] /\ phase[c] \in InFlight
      BY <1>2, HostOwnership
    <3>2. CASE target'[c] = target[c] /\ phase[c] \in InFlight
      <4>1. target[c] \in handles
        BY <1>1, <3>2
      <4>2. ~DropChannel(target[c])
        BY <3>2 DEF DropChannel
      <4> QED BY <1>2, <3>2, <4>1, <4>2, HostOwnership
    <3> QED BY <3>1, <3>2
  <2>4. ASSUME ControlOpen
        PROVE  handles' \subseteq channels'
    <3>1. \A h \in handles' :
            \/ h \in handles
            \/ h \in Registers /\ phase[h] = "sent" /\ answer[h] = "ok"
      BY <1>2, HostHandles
    <3> QED BY <1>1, <2>1, <2>4, <3>1
  <2>5. ASSUME ControlOpen, NEW h \in Registers, phase'[h] = "sent",
               answer'[h] = "ok"
        PROVE  h \in channels'
    <3>1. /\ phase[h] \in {"sent", "reserved", "registered"}
          /\ answer[h] = "ok"
      BY <1>0, <1>2, <2>5, HostProgress
    <3>2. phase[h] = "sent"
      BY <1>0, <3>1 DEF Queued
    <3> QED BY <1>1, <2>1, <2>5, <3>1, <3>2
  <2>6. ASSUME ControlOpen
        PROVE  ToSet(control) \subseteq ToSet(control')
    <3>1. {"Register", "Cancel", "RemoveChannel"} \subseteq Kinds
      BY DEF Kinds
    <3>2. \/ UNCHANGED control
          \/ SendControl([kind |-> "Shutdown"])
          \/ \E q \in Requests, kind \in Kinds : SendControl(OnRequest(kind, q))
      BY <1>2, <3>1, HostSends
    <3> QED BY <3>2, SendEffect, Messages DEF Kinds
  <2>7. ASSUME ControlOpen, NEW h \in channels'
        PROVE  \/ h \in handles'
               \/ Rem(h) \in ToSet(control')
               \/ phase'[h] = "sent" /\ answer'[h] = "ok"
               \/ h \in orphans'
    <3>0. h \in channels /\ h \in Registers /\ h \in Requests
      BY <1>0, <2>1, <2>7
    <3>1. CASE h \in handles
      <4>1. CASE DropChannel(h)
        <5>1. SendControl(Rem(h)) /\ Rem(h) \in ControlCommands
          BY <3>0, <4>1, Messages DEF DropChannel
        <5> QED BY <2>7, <5>1, SendEffect
      <4>2. CASE ~DropChannel(h)
        BY <1>2, <3>1, <4>2, HostOwnership
      <4> QED BY <4>1, <4>2
    <3>2. CASE Rem(h) \in ToSet(control)
      BY <2>6, <2>7, <3>2
    <3>3. CASE phase[h] = "sent" /\ answer[h] = "ok"
      BY <1>2, <3>0, <3>3, HostOwnership
    <3>4. CASE h \in orphans
      BY <3>4
    <3> QED BY <1>1, <2>7, <3>0, <3>1, <3>2, <3>3, <3>4
  <2> QED BY <2>1, <2>2, <2>3, <2>4, <2>5, <2>7 DEF Owned
<1>3. CASE ~Host
  <2>1. UNCHANGED <<phase, target, handles>>
    BY <1>3, WorkerProgress
  <2>2. CASE ~ControlOpen'
    BY <1>1, <2>1, <2>2 DEF Owned
  <2>3. CASE ControlOpen'
    <3>1. ControlOpen
      BY <1>3, <2>3
         DEF Next, Host, ControlOpen, TakeControl, TakeRegister, TakeCancel,
             TakeFinished, TakeRemoveChannel, TakeShutdown, TakeCommand,
             DropCancelled, StartOperation, CreateChannel, BeginShutdown,
             SelectGuarded, SelectCommand, SelectControl, EndStep, DriverFails,
             Finish, NoticeFailure, DriverStops, FinishShutdown, DropControl,
             DropCommands, DropTasksAndExit, TaskStep, Respond, DropAborted,
             Polled, vars
    <3>2. CASE TakeRemoveChannel
      <4> DEFINE q == Head(control).id
      <4>1. /\ SelectControl("RemoveChannel") /\ channels' = channels \ {q}
            /\ answer' = answer
        BY <3>2 DEF TakeRemoveChannel
      <4>2. /\ q \in Requests /\ Head(control) = Rem(q)
            /\ ToSet(control) = ToSet(control') \cup {Rem(q)}
        BY <4>1, TakeEffect
      <4>3. phase[q] = "done" /\ q \notin handles
        BY <4>2 DEF Truthful
      <4>4. \A h : h # q => Rem(h) # Rem(q)
        BY Messages
      <4> HIDE DEF q, Rem
      <4>5. /\ handles' \subseteq channels'
            /\ \A h \in Registers :
                 phase'[h] = "sent" /\ answer'[h] = "ok" => h \in channels'
        BY <1>1, <2>1, <3>1, <4>1, <4>3
      <4>6. \A h \in channels' :
              \/ h \in handles'
              \/ Rem(h) \in ToSet(control')
              \/ phase'[h] = "sent" /\ answer'[h] = "ok"
              \/ h \in orphans'
        BY <1>1, <2>1, <3>1, <4>1, <4>2, <4>4
      <4> QED BY <1>1, <2>1, <4>5, <4>6 DEF Owned, Rem
    <3>3. ASSUME NEW q \in Requests, CreateChannel(q)
          PROVE  Owned'
      <4>1. /\ q \in Registers /\ control' = control /\ SelectCommand(q)
            /\ \/ Answer(q, "ok") /\ channels' = channels \cup {q}
               \/ Answer(q, "error") /\ channels' = channels
        BY <3>3 DEF CreateChannel, SelectGuarded, SelectCommand
      <4>2. /\ phase[q] \in {"sent", "gone"} /\ answer[q] = "none"
        BY <4>1, CommandEffect DEF Queued
      <4>3. {"ok", "error"} \subseteq Results
        BY DEF Results
      <4>4. /\ \A h \in Requests \ {q} : answer'[h] = answer[h]
            /\ phase[q] # "sent" => answer'[q] = answer[q]
        BY <4>1, <4>3, AnswerEffect
      <4>5. phase[q] = "sent" =>
              \/ answer'[q] = "ok" /\ channels' = channels \cup {q}
              \/ answer'[q] = "error" /\ channels' = channels
        BY <4>1, <4>3, AnswerEffect
      <4>6. /\ q \in Guarded \ cancelled /\ q \in ToSet(commands)
            /\ worker = "select"
        BY <3>3, <4>1, CommandEffect
           DEF CreateChannel, SelectCommand, Polled, Guarded
      <4>7. handles' \subseteq channels'
        BY <1>1, <2>1, <3>1, <4>1
      <4>8. \A h \in Registers :
              phase'[h] = "sent" /\ answer'[h] = "ok" => h \in channels'
        <5> SUFFICES ASSUME NEW h \in Registers, phase[h] = "sent", answer'[h] = "ok"
                     PROVE  h \in channels'
          BY <2>1
        <5>1. CASE h = q
          BY <4>5, <5>1
        <5>2. CASE h # q
          BY <1>0, <1>1, <3>1, <4>1, <4>4, <5>2
        <5> QED BY <5>1, <5>2
      <4>9. \A h \in channels' :
              \/ h \in handles'
              \/ Rem(h) \in ToSet(control')
              \/ phase'[h] = "sent" /\ answer'[h] = "ok"
              \/ h \in orphans'
        <5> HIDE DEF Rem
        <5> SUFFICES ASSUME NEW h \in channels'
                     PROVE  \/ h \in handles'
                            \/ Rem(h) \in ToSet(control')
                            \/ phase'[h] = "sent" /\ answer'[h] = "ok"
                            \/ h \in orphans'
          OBVIOUS
        <5>1. CASE h # q
          <6>1. h \in channels /\ h \in Requests
            BY <1>0, <4>1, <5>1
          <6> QED BY <1>1, <2>1, <3>1, <4>1, <4>4, <5>1, <6>1
        <5>2. CASE h = q /\ phase[q] = "gone"
          <6>1. CASE channels' = channels
            BY <1>1, <2>1, <3>1, <4>1, <4>4, <5>2, <6>1
          <6>2. CASE channels' # channels
            <7>1. OnRequest("Cancel", q) \in ToSet(control)
              BY <4>1, <4>6, <5>2 DEF AbandonedNeverRuns
            <7> QED BY <3>3, <5>2, <6>2, <7>1 DEF CreateChannel, Overtakes
          <6> QED BY <6>1, <6>2
        <5>3. CASE h = q /\ phase[q] = "sent" /\ answer'[q] = "ok"
          BY <2>1, <5>3
        <5>4. CASE h = q /\ phase[q] = "sent" /\ answer'[q] = "error"
          BY <1>1, <2>1, <3>1, <4>1, <4>2, <4>5, <5>4
        <5> QED BY <4>2, <4>5, <5>1, <5>2, <5>3, <5>4
      <4> QED BY <1>1, <2>1, <4>7, <4>8, <4>9 DEF Owned
    <3>4. CASE ~TakeRemoveChannel /\ \A q \in Requests : ~CreateChannel(q)
      <4>1. \A h \in Registers : phase[h] = "sent" => answer'[h] = answer[h]
        BY <1>3, <2>3, <3>4, WorkerAnswers
      <4>2. channels' = channels
        BY <1>3, <2>3, <3>4
           DEF Next, Host, ControlOpen, TakeControl, TakeRegister, TakeCancel,
               TakeFinished, TakeShutdown, TakeCommand, DropCancelled,
               StartOperation, BeginShutdown, EndStep, DriverFails, Finish,
               NoticeFailure, DriverStops, FinishShutdown, DropControl,
               DropCommands, DropTasksAndExit, TaskStep, Respond, DropAborted,
               vars
      <4>3. \A h : Rem(h) \in ToSet(control) => Rem(h) \in ToSet(control')
        <5>1. ASSUME NEW kind \in (Kinds \ {"RemoveChannel"}) \cup {"Shutdown"},
                     SelectControl(kind)
              PROVE  \A h : Rem(h) \in ToSet(control) => Rem(h) \in ToSet(control')
          <6>1. /\ Head(control).kind = kind
                /\ ToSet(control) = ToSet(control') \cup {Head(control)}
            BY <5>1, TakeEffect
          <6>2. \A h : Rem(h).kind = "RemoveChannel"
            BY Messages
          <6> QED BY <6>1, <6>2
        <5>2. CASE TakeControl
          <6>1. \E kind \in (Kinds \ {"RemoveChannel"}) \cup {"Shutdown"} :
                  SelectControl(kind)
            BY <3>4, <5>2 DEF TakeControl, TakeRegister, TakeCancel, TakeFinished,
                              TakeShutdown, Kinds
          <6> QED BY <5>1, <6>1
        <5>3. CASE Finish
          <6>1. responder \in Requests /\ SendControl(OnRequest("Finished", responder))
            BY <1>0, <5>3 DEF Finish, TypeOK
          <6> QED BY <6>1, SendEffect, Messages
        <5>4. CASE ~TakeControl /\ ~Finish
          <6>1. control' = control
            BY <1>3, <2>3, <5>4
               DEF Next, Host, ControlOpen, TakeCommand, DropCancelled,
                   StartOperation, CreateChannel, BeginShutdown, SelectGuarded,
                   SelectCommand, EndStep, DriverFails, NoticeFailure,
                   DriverStops, FinishShutdown, DropControl, DropCommands,
                   DropTasksAndExit, TaskStep, Respond, DropAborted, vars
          <6> QED BY <6>1
        <5> QED BY <5>2, <5>3, <5>4
      <4> HIDE DEF Rem
      <4>4. /\ handles' \subseteq channels'
            /\ \A h \in Registers :
                 phase'[h] = "sent" /\ answer'[h] = "ok" => h \in channels'
        BY <1>1, <2>1, <3>1, <4>1, <4>2
      <4>5. \A h \in channels' :
              \/ h \in handles'
              \/ Rem(h) \in ToSet(control')
              \/ phase'[h] = "sent" /\ answer'[h] = "ok"
              \/ h \in orphans'
        BY <1>0, <1>1, <2>1, <3>1, <4>1, <4>2, <4>3
      <4> QED BY <1>1, <2>1, <4>4, <4>5 DEF Owned, Rem
    <3> QED BY <3>2, <3>3, <3>4
  <2> QED BY <2>2, <2>3
<1> QED BY <1>2, <1>3

---------------------------------------------------------------------------
(* The theorems.                                                           *)

LEMMA Initially ==
  Init => IInv
<1> SUFFICES ASSUME Init
             PROVE  IInv
  OBVIOUS
<1> USE DEF Init
<1>1. /\ commands = <<>> /\ control = <<>>
      /\ ToSet(commands) = {} /\ ToSet(control) = {} /\ IsInjective(commands)
      /\ commands \in Seq(Requests) /\ control \in Seq(ControlCommands)
  BY NothingQueued
<1>2. Holding = {}
  BY DEF Holding
<1>3. Counted /\ Cardinality(Holding) = 0
  BY <1>2, FS_EmptySet DEF Counted
<1>4. PermitType
  <2>1. Permits = 0
    BY <1>1, <1>3 DEF Permits, Holding
  <2> QED BY <2>1, WorkerConstants DEF PermitType
<1>5. TypeOK
  <2>1. HostType
    BY DEF HostType, Phases, Results
  <2>2. QueueType /\ WorkerType /\ RecordType
    BY <1>1 DEF QueueType, WorkerType, RecordType
  <2>3. OrphanType
    BY DEF OrphanType
  <2> QED BY <1>4, <2>1, <2>2, <2>3, Types
<1>6. Queued /\ Tracked /\ Truthful
  BY <1>1 DEF Queued, Tracked, Truthful
<1>7. Announced
  <2>1. \A a, b : Trails(<<>>, a, b)
    BY DEF Trails
  <2>2. \A r \in Guarded : phase[r] # "registered" /\ r \notin ToSet(commands)
    BY <1>1 DEF Requests
  <2> QED BY <1>1, <2>1, <2>2 DEF Announced
<1>8. Settled /\ Owned /\ Held /\ AbandonedNeverRuns
  BY <1>1, WorkerNames
     DEF Settled, Owned, Held, AbandonedNeverRuns, Ending, InFlight, Guarded,
         Requests
<1> QED BY <1>3, <1>5, <1>6, <1>7, <1>8 DEF IInv

(* The invariant is inductive: whatever the hosts, the worker and its      *)
(* tasks do next, in whatever order, keeps every part of it.               *)
THEOREM Inductive ==
  Spec => []IInv
<1>1. Init => IInv
  BY Initially
<1>2. IInv /\ [Next]_vars => IInv'
  <2> SUFFICES ASSUME IInv, [Next]_vars
               PROVE  IInv'
    OBVIOUS
  <2>1. TypeOK /\ Counted /\ Queued /\ Truthful
    BY DEF IInv
  <2>2. TypeOK' /\ Counted'
    BY <2>1, StepPermits, StepHost, StepQueues, StepWorker, StepOrphans,
       Types
  <2> QED BY <2>2, StepQueued, StepTracked, StepTruthful, StepAnnounced,
             StepSettled, StepOwned, StepHeld, StepAbandoned DEF IInv
<1> QED BY <1>1, <1>2, PTL DEF Spec

(* While a caller awaits the response to its request exactly one place     *)
(* holds the request (the command queue, a task, or the shutdown under     *)
(* way), and its response is dropped only as the worker ends.              *)
THEOREM WaitingIsHeld ==
  Spec => []WaitingHasResponder
<1>1. ASSUME IInv
      PROVE  WaitingHasResponder
  <2> /\ TypeOK /\ Queued /\ Tracked /\ Held /\ WorkerType /\ RecordType
    BY <1>1, Types DEF IInv
  <2>1. ASSUME NEW r \in Requests, phase[r] = "sent", answer[r] = "none"
        PROVE  Cardinality(Holders(r)) = 1
    <3>1. /\ r \in ToSet(commands) => r \notin running /\ r # current
          /\ r \in running => r # current
      BY WorkerConstants, WorkerNames
         DEF Queued, Tracked, WorkerType, RecordType, Guarded, Requests
    <3>2. \/ r \in ToSet(commands) \cup running
          \/ worker = "stopping" /\ current = r
      BY <2>1 DEF Held
    <3>3. Holders(r) \in {{"queue"}, {"task"}, {"shutdown"}}
      <4>1. CASE r \in ToSet(commands)
        <5>1. Holders(r) = {"queue"}
          BY <3>1, <4>1 DEF Holders
        <5> QED BY <5>1
      <4>2. CASE r \notin ToSet(commands) /\ r \in running
        <5>1. Holders(r) = {"task"}
          BY <3>1, <4>2 DEF Holders
        <5> QED BY <5>1
      <4>3. CASE r \notin ToSet(commands) /\ r \notin running
        <5>1. Holders(r) = {"shutdown"}
          BY <3>2, <4>3 DEF Holders
        <5> QED BY <5>1
      <4> QED BY <4>1, <4>2, <4>3
    <3> QED BY <3>3, FS_Singleton
  <2>2. \A r \in Requests : phase[r] = "sent" /\ answer[r] = "dropped" =>
                              worker \in {"commands_dropped", "exited"}
    BY DEF Held
  <2> QED BY <2>1, <2>2 DEF WaitingHasResponder
<1> QED BY <1>1, Inductive, PTL

(* Once the cancellation of an abandoned request was handled, the request  *)
(* does not run and never will, in whatever order its announcement, its    *)
(* command and its cancellation were taken from the two queues.            *)
THEOREM AbandonedRequests ==
  Spec => []AbandonedNeverRuns
<1>1. IInv => AbandonedNeverRuns
  BY DEF IInv
<1> QED BY <1>1, Inductive, PTL

(* With the control queue handled, the worker tracks the operations that   *)
(* are alive and remembers nothing of those that were answered.            *)
THEOREM RecordsFollowTasks ==
  Spec => []RecordsAreCurrent
<1>1. ASSUME IInv
      PROVE  RecordsAreCurrent
  <2> TypeOK /\ Tracked /\ Settled
    BY <1>1 DEF IInv
  <2> SUFFICES ASSUME Polled({"select"}), control = <<>>
               PROVE  /\ operations = running
                      /\ \A r \in Calls :
                           phase[r] = "done" => r \notin known \cup cancelled
    BY DEF RecordsAreCurrent
  <2>1. ControlOpen /\ responder = NoRequest /\ ToSet(control) = {}
    BY NothingQueued DEF Polled, ControlOpen
  <2>2. \A r \in Calls : ~Ending(r)
    BY <2>1, WorkerNames DEF Ending, Requests, Guarded
  <2>3. operations \subseteq Calls /\ running \subseteq operations
    BY DEF TypeOK, Tracked
  <2>4. \A r \in Calls :
          /\ r \notin operations \ running
          /\ phase[r] = "done" => r \notin known \cup cancelled
    BY <2>1, <2>2 DEF Settled
  <2> QED BY <2>3, <2>4
<1> QED BY <1>1, Inductive, PTL

(* A call finds the channel it is made on, and a channel is kept only for  *)
(* a handle, for a registration whose caller is still to have it, or as an *)
(* orphan: its registration was given up with the response under way, or   *)
(* its command was handled ahead of the Cancel of a caller that was gone.  *)
THEOREM HandlesHaveChannels ==
  Spec => []ChannelsFollowHandles
<1>1. ASSUME IInv
      PROVE  ChannelsFollowHandles
  <2> Owned
    BY <1>1 DEF IInv
  <2> SUFFICES ASSUME worker = "select"
               PROVE  /\ \A c \in Calls :
                           phase[c] = "sent" /\ target[c] # NoChannel =>
                             target[c] \in channels
                      /\ \A h \in channels :
                           \/ h \in handles
                           \/ OnRequest("RemoveChannel", h) \in ToSet(control)
                           \/ phase[h] = "sent" /\ answer[h] = "ok"
                           \/ h \in orphans
    BY DEF ChannelsFollowHandles
  <2>1. ControlOpen /\ "sent" \in InFlight
    BY DEF ControlOpen, InFlight
  <2> QED BY <2>1 DEF Owned
<1> QED BY <1>1, Inductive, PTL
=============================================================================
