----------------------------- MODULE NativeWorker -----------------------------
(***************************************************************************)
(* The native worker: host threads that share a NativeSocket, and the      *)
(* dedicated thread that runs the managed client for them.  A request      *)
(* reserves a place in the bounded command queue, announces itself on the  *)
(* unbounded control queue, sends its command and awaits the response; if  *)
(* its future is dropped a guard cancels it on the control queue.  The     *)
(* worker selects over both queues in no fixed order, so the announcement, *)
(* the command and the cancellation of one request may be handled in any   *)
(* order their queues allow.                                               *)
(*                                                                         *)
(* Host threads run at any moment, between any two steps of the worker and *)
(* between its last instructions.  The tasks of the worker share its       *)
(* thread: a task's response and the Finished it queues are two moments    *)
(* for the hosts, but the worker does nothing in between.                  *)
(***************************************************************************)
EXTENDS Naturals, FiniteSets, Sequences, SequencesExt

CONSTANTS
  Registers,       \* calls of NativeSocket::channel, all for one topic
  Calls,           \* calls of the other operations, on the socket or a channel
  Shutdowns,       \* calls of NativeSocket::shutdown
  CommandCapacity, \* NativeOptions::command_capacity
  MaxRequests      \* bound on the requests made

Guarded == Registers \cup Calls        \* the requests of request_worker
Requests == Guarded \cup Shutdowns

ASSUME WorkerConstants ==
  /\ Registers \cap Calls = {} /\ Guarded \cap Shutdowns = {}
  /\ CommandCapacity \in Nat \ {0}
  /\ MaxRequests \in Nat

NoChannel == "socket"    \* the target of an operation of the socket itself
NoRequest == "none"

ASSUME WorkerNames == {NoChannel, NoRequest} \cap Requests = {}

VARIABLES
  phase,      \* how far each call is, in its host thread
  answer,     \* the oneshot channel of each request that awaits it
  target,     \* the channel a call is made on
  handles,    \* registrations whose NativeChannel is alive
  held,       \* the application holds a handle to the worker
  thread,     \* the worker's JoinHandle has not been taken
  commands,   \* the bounded queue
  control,    \* the unbounded queue
  worker,     \* where the worker thread is
  current,    \* the request it is shutting down for
  responder,  \* the task that has responded, and will queue Finished
  driver,     \* the client driver, a task of the worker
  channels,   \* the worker's channels
  operations, \* its tracked operations
  running,    \* tasks of operations that are alive
  aborted,    \* and those aborted, but not dropped yet
  known,      \* known_requests
  cancelled,
  orphans     \* history: registrations whose channel nobody will remove

hostVars == <<phase, target, handles, held, thread>>
queueVars == <<commands, control>>
workerVars == <<worker, current>>
taskVars == <<operations, running, aborted, responder>>
recordVars == <<channels, known, cancelled>>
threadVars == <<workerVars, driver, taskVars, recordVars>>
vars == <<hostVars, answer, queueVars, threadVars, orphans>>

ControlCommands ==
  [kind : {"Register", "Cancel", "Finished", "RemoveChannel"}, id : Requests]
    \cup [kind : {"Shutdown"}]

Init ==
  /\ phase = [r \in Requests |-> "idle"]
  /\ answer = [r \in Requests |-> "none"]
  /\ target = [c \in Calls |-> NoChannel]
  /\ handles = {}
  /\ held = TRUE /\ thread = TRUE
  /\ commands = <<>> /\ control = <<>>
  /\ worker = "select" /\ current = NoRequest /\ responder = NoRequest
  /\ driver = "running"
  /\ channels = {}
  /\ operations = {} /\ running = {} /\ aborted = {}
  /\ known = {} /\ cancelled = {} /\ orphans = {}

(* The worker drops its receivers as it returns, control first.            *)
ControlOpen == worker \in {"select", "stopping", "ending"}
CommandsOpen == ControlOpen \/ worker = "control_dropped"

(* A send on the control queue, which fails once the worker has dropped it.*)
SendControl(command) ==
  control' = IF ControlOpen THEN Append(control, command) ELSE control

OnRequest(kind, r) == [kind |-> kind, id |-> r]

InFlight ==
  {"reserved", "registered", "sent", "failing", "answered", "joining"}

---------------------------------------------------------------------------
(* Host threads.                                                           *)

(* Permits that are out, and commands that have taken theirs along.        *)
Permits ==
  Len(commands)
    + Cardinality({r \in Requests : phase[r] \in {"reserved", "registered"}})

(* Registrations are interchangeable: the next one is any that is idle.    *)
NextRegister == CHOOSE g \in Registers : phase[g] = "idle"

(* commands.reserve(), on behalf of the socket or of a live channel.  The  *)
(* first half of commands.send() for a shutdown.                           *)
Reserve(r) ==
  /\ held /\ phase[r] = "idle"
  /\ r \in Registers => r = NextRegister
  /\ Cardinality({q \in Requests : phase[q] # "idle"}) < MaxRequests
  /\ CommandsOpen => Permits < CommandCapacity
  /\ IF r \in Calls
       THEN \E h \in handles \cup {NoChannel} :
              target' = [target EXCEPT ![r] = h]
       ELSE UNCHANGED target
  /\ phase' = [phase EXCEPT ![r] = IF CommandsOpen THEN "reserved"
                                                   ELSE "failing"]
  /\ UNCHANGED <<answer, handles, held, thread, queueVars,
                 threadVars, orphans>>

(* The request takes its id and announces it; from here its guard is armed.*)
RegisterRequest(r) ==
  /\ r \in Guarded /\ phase[r] = "reserved"
  /\ SendControl(OnRequest("Register", r))
  /\ phase' = [phase EXCEPT ![r] = IF ControlOpen THEN "registered"
                                                  ELSE "failing"]
  /\ UNCHANGED <<answer, target, handles, held, thread, commands,
                 threadVars, orphans>>

(* permit.send(): it cannot fail, and a queue without a receiver keeps what*)
(* it is sent until its last sender is gone.                               *)
SendCommand(r) ==
  /\ phase[r] = IF r \in Guarded THEN "registered" ELSE "reserved"
  /\ commands' = Append(commands, r)
  /\ phase' = [phase EXCEPT ![r] = "sent"]
  /\ UNCHANGED <<answer, target, handles, held, thread, control,
                 threadVars, orphans>>

(* A call that returned does not borrow its channel any more.              *)
Release(r) ==
  target' = IF r \in Calls THEN [target EXCEPT ![r] = NoChannel] ELSE target

(* The response arrives.  An error returns past the armed guard.           *)
Receive(r) ==
  /\ phase[r] = "sent" /\ answer[r] \in {"ok", "error"}
  /\ phase' = [phase EXCEPT ![r] = IF r \in Shutdowns THEN "answered"
                                                      ELSE "done"]
  /\ answer' = [answer EXCEPT ![r] = "none"]
  /\ Release(r)
  /\ handles' = IF r \in Registers /\ answer[r] = "ok" THEN handles \cup {r}
                                                       ELSE handles
  /\ IF r \in Guarded /\ answer[r] = "error"
       THEN SendControl(OnRequest("Cancel", r))
       ELSE UNCHANGED control
  /\ UNCHANGED <<held, thread, commands, threadVars, orphans>>

(* The queue or the response was dropped: the call waits for the worker's  *)
(* end and reports it.                                                     *)
ReportEnd(r) ==
  /\ phase[r] = "failing" \/ (phase[r] = "sent" /\ answer[r] = "dropped")
  /\ worker = "exited"
  /\ phase' = [phase EXCEPT ![r] = IF r \in Shutdowns THEN "answered"
                                                      ELSE "done"]
  /\ UNCHANGED <<answer, target, handles, held, thread, queueVars,
                 threadVars, orphans>>

(* The future of a request is dropped while it awaits its response.  If a  *)
(* registration had one that it did not receive, its channel is orphaned:  *)
(* a Cancel removes no channel.                                            *)
GiveUp(r) ==
  /\ phase[r] = "sent"
  /\ phase' = [phase EXCEPT ![r] = "gone"]
  /\ answer' = [answer EXCEPT ![r] = "none"]
  /\ IF r \in Guarded THEN SendControl(OnRequest("Cancel", r))
                      ELSE UNCHANGED control
  /\ orphans' = IF r \in Registers /\ answer[r] = "ok" THEN orphans \cup {r}
                                                       ELSE orphans
  /\ UNCHANGED <<target, handles, held, thread, commands, threadVars>>

(* WorkerOwner::join at the end of shutdown; join_worker is nothing else.  *)
(* Whoever takes the JoinHandle waits for the thread, any other returns.   *)
Join(s) ==
  /\ s \in Shutdowns /\ phase[s] = "answered"
  /\ phase' = [phase EXCEPT ![s] = IF thread THEN "joining" ELSE "done"]
  /\ thread' = FALSE
  /\ UNCHANGED <<answer, target, handles, held, queueVars,
                 threadVars, orphans>>

Joined(s) ==
  /\ phase[s] = "joining" /\ worker = "exited"
  /\ phase' = [phase EXCEPT ![s] = "done"]
  /\ UNCHANGED <<answer, target, handles, held, thread, queueVars,
                 threadVars, orphans>>

(* Mutation: the removal belongs to each clone of the handle.              *)
DropClone(h) ==
  /\ h \in handles
  /\ SendControl(OnRequest("RemoveChannel", h))
  /\ UNCHANGED <<phase, answer, target, handles, held, thread, commands,
                 threadVars, orphans>>

(* The last clone of a NativeChannel is dropped.  Calls borrow it.         *)
DropChannel(h) ==
  /\ h \in handles
  /\ \A c \in Calls : target[c] = h => phase[c] \notin InFlight
  /\ handles' = handles \ {h}
  /\ SendControl(OnRequest("RemoveChannel", h))
  /\ UNCHANGED <<phase, answer, target, held, thread, commands,
                 threadVars, orphans>>

(* Mutation: the owner relies on its end of the command queue being dropped.*)
DropOwnerSilently ==
  /\ held /\ handles = {}
  /\ \A r \in Requests : phase[r] \notin InFlight
  /\ held' = FALSE
  /\ UNCHANGED <<phase, answer, target, handles, thread, queueVars,
                 threadVars, orphans>>

(* The last handle of any kind is dropped, and WorkerOwner with it.  Calls *)
(* borrow a handle.                                                        *)
DropOwner ==
  /\ held /\ handles = {}
  /\ \A r \in Requests : phase[r] \notin InFlight
  /\ held' = FALSE
  /\ SendControl([kind |-> "Shutdown"])
  /\ UNCHANGED <<phase, answer, target, handles, thread, commands,
                 threadVars, orphans>>

---------------------------------------------------------------------------
(* The worker's loop.                                                      *)

(* A step of worker_main, or of another task.                              *)
Polled(states) == worker \in states /\ responder = NoRequest

(* A response is sent, or its sender dropped; to a caller that is gone it  *)
(* makes no difference.                                                    *)
Answer(r, result) ==
  answer' = IF phase[r] = "sent" THEN [answer EXCEPT ![r] = result] ELSE answer

SelectControl(kind) ==
  /\ Polled({"select"})
  /\ control # <<>> /\ Head(control).kind = kind
  /\ control' = Tail(control)
  /\ UNCHANGED <<hostVars, commands, driver, orphans>>

TakeRegister ==
  /\ SelectControl("Register")
  /\ known' = known \cup {Head(control).id}
  /\ UNCHANGED <<answer, workerVars, taskVars, channels, cancelled>>

(* Mutation: a request whose command is still to come is forgotten.        *)
TakeCancelOfOperation ==
  /\ SelectControl("Cancel")
  /\ LET r == Head(control).id
     IN  /\ operations' = operations \ {r}
         /\ running' = IF r \in operations THEN running \ {r} ELSE running
         /\ aborted' = aborted \cup ({r} \cap operations \cap running)
  /\ UNCHANGED <<answer, workerVars, responder, channels, known, cancelled>>

(* A tracked operation is aborted; a request still to come is remembered.  *)
TakeCancel ==
  /\ SelectControl("Cancel")
  /\ LET r == Head(control).id
     IN  /\ operations' = operations \ {r}
         /\ running' = IF r \in operations THEN running \ {r} ELSE running
         /\ aborted' = aborted \cup ({r} \cap operations \cap running)
         /\ cancelled' = IF r \in known \ operations THEN cancelled \cup {r}
                                                     ELSE cancelled
  /\ UNCHANGED <<answer, workerVars, responder, channels, known>>

(* Mutation: the request stays known.                                      *)
TakeFinishedOperation ==
  /\ SelectControl("Finished")
  /\ operations' = operations \ {Head(control).id}
  /\ UNCHANGED <<answer, workerVars, running, aborted, responder, recordVars>>

TakeFinished ==
  /\ SelectControl("Finished")
  /\ LET r == Head(control).id
     IN  /\ operations' = operations \ {r}
         /\ known' = known \ {r}
         /\ cancelled' = cancelled \ {r}
  /\ UNCHANGED <<answer, workerVars, running, aborted, responder, channels>>

TakeRemoveChannel ==
  /\ SelectControl("RemoveChannel")
  /\ channels' = channels \ {Head(control).id}
  /\ UNCHANGED <<answer, workerVars, taskVars, known, cancelled>>

(* The loop waits for the client to shut down, and handles nothing else.   *)
TakeShutdown ==
  /\ SelectControl("Shutdown")
  /\ worker' = "stopping" /\ current' = NoRequest
  /\ UNCHANGED <<answer, taskVars, recordVars>>

SelectCommand(r) ==
  /\ Polled({"select"})
  /\ commands # <<>> /\ Head(commands) = r
  /\ commands' = Tail(commands)
  /\ UNCHANGED <<hostVars, control, driver>>

(* The records of a guarded request are cleared as its command is handled. *)
SelectGuarded(r) ==
  /\ SelectCommand(r) /\ r \in Guarded
  /\ known' = known \ {r}
  /\ cancelled' = cancelled \ {r}
  /\ UNCHANGED workerVars

DropCancelled(r) ==
  /\ SelectGuarded(r)
  /\ r \in cancelled
  /\ Answer(r, "dropped")
  /\ UNCHANGED <<taskVars, channels, orphans>>

StartOperation(r) ==
  /\ SelectGuarded(r)
  /\ r \in Calls \ cancelled
  /\ operations' = operations \cup {r}
  /\ running' = running \cup {r}
  /\ UNCHANGED <<answer, aborted, responder, channels, orphans>>

(* Tasks keep the channel they work on alive, and with it its topic.       *)
TopicTaken ==
  channels # {} \/ \E c \in running \cup aborted : target[c] # NoChannel

(* The command of a registration that was given up is handled ahead of the *)
(* Cancel, which its guard has queued.                                     *)
Overtakes(r) == phase[r] = "gone" /\ OnRequest("Cancel", r) \in ToSet(control)

(* Socket::channel refuses a topic that is taken, or when the driver ended.*)
(* The channel is kept even if the response does not reach anybody.        *)
CreateChannel(r) ==
  /\ SelectGuarded(r)
  /\ r \in Registers \ cancelled
  /\ LET created == ~TopicTaken /\ driver = "running"
     IN  /\ Answer(r, IF created THEN "ok" ELSE "error")
         /\ channels' = IF created THEN channels \cup {r} ELSE channels
         /\ orphans' = IF created /\ Overtakes(r) THEN orphans \cup {r}
                                                  ELSE orphans
  /\ UNCHANGED taskVars

BeginShutdown(r) ==
  /\ SelectCommand(r) /\ r \in Shutdowns
  /\ worker' = "stopping" /\ current' = r
  /\ UNCHANGED <<answer, taskVars, recordVars, orphans>>

(* An operation of the client returns, at the latest when its timeout or   *)
(* the end of the driver fails it, and its task responds ...               *)
Respond(r) ==
  /\ Polled({"select", "stopping"}) /\ r \in running
  /\ \E result \in {"ok", "error"} :
       /\ driver # "running" => result = "error"
       /\ Answer(r, result)
  /\ running' = running \ {r}
  /\ responder' = r
  /\ UNCHANGED <<hostVars, queueVars, workerVars, driver, operations, aborted,
                 recordVars, orphans>>

(* ... and queues Finished.                                                *)
Finish ==
  /\ responder # NoRequest
  /\ SendControl(OnRequest("Finished", responder))
  /\ responder' = NoRequest
  /\ UNCHANGED <<hostVars, answer, commands, workerVars, driver, operations,
                 running, aborted, recordVars, orphans>>

(* An aborted task is dropped when its turn comes.                         *)
DropAborted(r) ==
  /\ Polled({"select", "stopping"}) /\ r \in aborted
  /\ aborted' = aborted \ {r}
  /\ Answer(r, "dropped")
  /\ UNCHANGED <<hostVars, queueVars, workerVars, driver, operations,
                 running, responder, recordVars, orphans>>

(* The driver panics, in a callback of the application.                    *)
DriverFails ==
  /\ Polled({"select", "stopping"}) /\ driver = "running"
  /\ driver' = "failed"
  /\ UNCHANGED <<hostVars, answer, queueVars, workerVars, taskVars,
                 recordVars, orphans>>

(* The loop notices.                                                       *)
NoticeFailure ==
  /\ Polled({"select"}) /\ driver = "failed"
  /\ worker' = "ending"
  /\ UNCHANGED <<hostVars, answer, queueVars, current, driver, taskVars,
                 recordVars, orphans>>

DriverStops ==
  /\ Polled({"stopping"}) /\ driver = "running"
  /\ driver' = "stopped"
  /\ UNCHANGED <<hostVars, answer, queueVars, workerVars, taskVars,
                 recordVars, orphans>>

(* Mutation: the loop is left before the response is sent.                 *)
FinishShutdownDropping ==
  /\ Polled({"stopping"}) /\ driver # "running"
  /\ IF current = NoRequest THEN UNCHANGED answer
                            ELSE Answer(current, "dropped")
  /\ worker' = "ending" /\ current' = NoRequest
  /\ UNCHANGED <<hostVars, queueVars, driver, taskVars, recordVars, orphans>>

(* socket.shutdown() returned; a command that asked for it is answered.    *)
FinishShutdown ==
  /\ Polled({"stopping"}) /\ driver # "running"
  /\ IF current = NoRequest
       THEN UNCHANGED answer
       ELSE Answer(current, IF driver = "stopped" THEN "ok" ELSE "error")
  /\ worker' = "ending" /\ current' = NoRequest
  /\ UNCHANGED <<hostVars, queueVars, driver, taskVars, recordVars, orphans>>

---------------------------------------------------------------------------
(* The end of the worker: worker_main returns and drops its locals, the    *)
(* LocalSet drops the tasks, the final status is published, the thread     *)
(* exits.                                                                  *)

DropResponses(dropped) ==
  answer' = [r \in Requests |->
    IF r \in dropped /\ phase[r] = "sent" THEN "dropped" ELSE answer[r]]

DropControl ==
  /\ worker = "ending"
  /\ worker' = "control_dropped"
  /\ channels' = {}
  /\ control' = <<>>
  /\ known' = {} /\ cancelled' = {}
  /\ UNCHANGED <<hostVars, answer, commands, current, driver, taskVars,
                 orphans>>

DropCommands ==
  /\ worker = "control_dropped"
  /\ worker' = "commands_dropped"
  /\ DropResponses(ToSet(commands))
  /\ commands' = <<>>
  /\ UNCHANGED <<hostVars, control, current, driver, taskVars, recordVars,
                 orphans>>

DropTasksAndExit ==
  /\ worker = "commands_dropped"
  /\ worker' = "exited"
  /\ DropResponses(running \cup aborted)
  /\ running' = {} /\ aborted' = {} /\ operations' = {}
  /\ UNCHANGED <<hostVars, queueVars, current, responder, driver, recordVars,
                 orphans>>

---------------------------------------------------------------------------
HostStep(r) ==
  \/ RegisterRequest(r) \/ SendCommand(r) \/ Receive(r) \/ ReportEnd(r)

TakeControl ==
  \/ TakeRegister \/ TakeCancel \/ TakeFinished
  \/ TakeRemoveChannel \/ TakeShutdown

TakeCommand ==
  \E r \in Requests :
    \/ DropCancelled(r) \/ StartOperation(r)
    \/ CreateChannel(r) \/ BeginShutdown(r)

TaskStep(r) == Respond(r) \/ DropAborted(r)

EndStep ==
  \/ Finish \/ NoticeFailure \/ DriverStops \/ FinishShutdown
  \/ DropControl \/ DropCommands \/ DropTasksAndExit

Next ==
  \/ \E r \in Requests : Reserve(r) \/ HostStep(r) \/ GiveUp(r)
  \/ \E h \in Registers : DropChannel(h)
  \/ \E s \in Shutdowns : Join(s) \/ Joined(s)
  \/ DropOwner
  \/ TakeControl \/ TakeCommand \/ DriverFails \/ EndStep
  \/ \E c \in Calls : TaskStep(c)

(* Host threads run, select chooses at random among what is ready, tasks   *)
(* are polled, and an operation of the client ends: by its own timeout, or *)
(* because the driver answers, which it does as long as its transport      *)
(* returns (TransportReturns in Connection).  Nobody has to call, or to    *)
(* give up.                                                                *)
Fairness ==
  /\ WF_vars(\E r \in Requests : HostStep(r) \/ Join(r) \/ Joined(r))
  /\ WF_vars(TakeControl \/ TakeCommand \/ EndStep)
  /\ WF_vars(\E c \in Calls : TaskStep(c))

Spec == Init /\ [][Next]_vars
FairSpec == Spec /\ Fairness

---------------------------------------------------------------------------
(* Every variable has its type; the queue and its permits stay within the  *)
(* capacity while the worker receives from it.                             *)
TypeOK ==
  /\ phase \in [Requests ->
       InFlight \cup {"idle", "gone", "done"}]
  /\ answer \in [Requests -> {"none", "ok", "error", "dropped"}]
  /\ target \in [Calls -> Registers \cup {NoChannel}]
  /\ handles \subseteq Registers /\ channels \subseteq Registers
  /\ held \in BOOLEAN /\ thread \in BOOLEAN
  /\ commands \in Seq(Requests) /\ control \in Seq(ControlCommands)
  /\ CommandsOpen => Permits <= CommandCapacity
  /\ worker \in {"select", "stopping", "ending", "control_dropped",
                 "commands_dropped", "exited"}
  /\ current \in Shutdowns \cup {NoRequest}
  /\ responder \in Calls \cup {NoRequest}
  /\ driver \in {"running", "stopped", "failed"}
  /\ operations \cup running \cup aborted \subseteq Calls
  /\ known \cup cancelled \subseteq Guarded
  /\ orphans \subseteq Registers

(* While a caller awaits a response that was not given, exactly one place  *)
(* holds it: the command queue, a live task, or the shutdown under way; and*)
(* a response is dropped under a waiting caller only by the worker's end.  *)
(* An abort or a cancellation meant for another request would leave its    *)
(* caller with nobody to answer it.  (Types hold as well.)                 *)
Holders(r) ==
  {p \in {"queue", "task", "shutdown"} :
     CASE p = "queue"    -> r \in ToSet(commands)
       [] p = "task"     -> r \in running
       [] p = "shutdown" -> worker = "stopping" /\ current = r}

WaitingHasResponder ==
  /\ TypeOK
  /\ \A r \in Requests : phase[r] = "sent" =>
       /\ answer[r] = "none" => Cardinality(Holders(r)) = 1
       /\ answer[r] = "dropped" => worker \in {"commands_dropped", "exited"}

(* Once the cancellation of an abandoned request is handled the request    *)
(* does not run and, if its command is still queued, never will: whichever *)
(* of announcement, command and cancellation the worker took first.        *)
AbandonedNeverRuns ==
  \A r \in Guarded :
    phase[r] = "gone" /\ worker = "select"
      /\ OnRequest("Cancel", r) \notin ToSet(control) =>
      r \notin running /\ (r \in ToSet(commands) => r \in cancelled)

(* An operation that was answered leaves no record behind, whatever order  *)
(* its Finished and the cancellation of its guard came in; and with the    *)
(* control queue empty the tracked operations are the live ones.           *)
RecordsAreCurrent ==
  Polled({"select"}) /\ control = <<>> =>
    /\ operations = running
    /\ \A r \in Calls : phase[r] = "done" => r \notin known \cup cancelled

(* The worker has a channel for as long as somebody has its handle.  A     *)
(* call on a live channel finds it: neither a RemoveChannel nor the end of *)
(* another handle takes away the channel it was made on.  And a channel is *)
(* kept only for a handle: one that is alive, whose removal is on its way, *)
(* or whose registration has still to reach its caller.  There are two     *)
(* exceptions, the orphans, which keep their topic taken for good: the     *)
(* caller gave up with the response on its way to it; or it gave up before,*)
(* and the command was handled while its Cancel was still queued.  Once    *)
(* the Cancel was handled no command makes a channel for nobody.           *)
ChannelsFollowHandles ==
  worker = "select" =>
    /\ \A c \in Calls :
         phase[c] = "sent" /\ target[c] # NoChannel => target[c] \in channels
    /\ \A h \in channels :
         \/ h \in handles
         \/ OnRequest("RemoveChannel", h) \in ToSet(control)
         \/ phase[h] = "sent" /\ answer[h] = "ok"
         \/ h \in orphans

(* Every request returns: with its response, or with the error that the    *)
(* worker has ended.  (A command sent between the worker's last look at    *)
(* its queue and the end of the queue is the exception: nothing drops it   *)
(* and its response while the caller's handle lives.)  And a shutdown, or  *)
(* the end of the last handle, ends the worker, whatever else is queued,   *)
(* running or cancelled.                                                   *)
Stranded(r) == ~CommandsOpen /\ r \in ToSet(commands)

ShutdownCalled(s) == phase[s] \notin {"idle", "reserved"}

RequestsAndWorkerEnd ==
  <>[](/\ \A r \in Requests : phase[r] = "sent" => Stranded(r)
       /\ ~held \/ (\E s \in Shutdowns : ShutdownCalled(s)) =>
            worker = "exited")
=============================================================================
