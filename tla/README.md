# A model of phoenix-channel-runtime

This directory holds TLA+ specifications of the Phoenix Channels client in
`src/`, the TLC configurations that check them, and theorems about them whose
proofs TLAPS checks. It is written for someone who has the repository at hand.
`mod.rs` below is `src/crates/phoenix-channel-client/src/client/mod.rs`,
`protocol.rs` is `src/crates/phoenix-channel-runtime/src/protocol.rs`;
`presence.rs` of the client and of the runtime are in the same directories, and so
is `session.rs` of the runtime. `managed.rs` is that of
`src/crates/phoenix-channel-runtime-native/src`, `lib.rs` that of
`src/crates/phoenix-channel-runtime-web/src`.
`PROJECT.json` maps each definition to the lines it models.

To check a run: `tlc -config MCProtocol.cfg MCProtocol.tla`. To check the
proofs: `tlapm ProtocolProofs.tla` (and the other `*Proofs.tla`).

## 1. The system

The client is a *sans-I/O* protocol machine with a cooperative driver around
it. Nothing in the core is threaded: one future, `Driver::run`, owns a
transport, a timer and all the state, and application tasks reach it through
two queues. `Session` is the same protocol machine on a transport without a
driver. On a native host a worker thread runs the driver for the threads that
share a `NativeSocket`; in a browser the transport is a WebSocket or a long poll,
and listeners of the page suspend and resume the socket.

```
 application tasks                       driver future                server
 Socket / Channel handles  --commands-->  run / run_connected  --frames-->  channel
 requests, guards, drops   --lifecycle->  DriverState, Protocol <--frames-- processes
 EventStream, StatusChanges <--events---  emit, ObservableStatus
```

| component | state | operations | what makes it correct |
|---|---|---|---|
| **Protocol** (`protocol.rs`) | channel table (state, join generation), table of pending requests, reference counter | join, rejoin, rejoin_active, leave, push, cast, heartbeat, discard_channel, forget_pending, reset_connection, receive | references are unique; a reply reaches the request it answers and no other; frames of an earlier generation change nothing; a waiting channel has a request that can still end the wait |
| **Channel driver** (`DriverState` in `mod.rs`) | per topic: registration, wanted or not, payload loads, join waiters, push buffer, deferred leave, status; global: callers of joins, calls, leaves, armed timers | Register, Unregister, Cancel, Join, Leave, Call, Cast; payload loaded, rejoin due, operation timeout, incoming frame, connect, disconnect | each response is given once and none is lost; a push is not sent twice; a wanted channel is always on its way to joined; the visible status agrees with the protocol |
| **Connection loop** (`run`, `wait_idle`, `wait_offline`, `run_connected`) | which loop, attempt counter, heartbeat outstanding, pending pings, socket status | connect, disconnect, shutdown, ping, handles dropped, attempt succeeds or fails, retry, heartbeat due or timed out, transport ends | the socket status follows its documentation; disconnect disables reconnection; control requests are always answered; a silent server is noticed |
| **Application handles** | guards armed per request, handle registry | request, timeout, drop of the future, drop of the handle | a cancelled request has no later effect |
| **Event streams** | bounded queue, count of dropped events per subscriber | send_bounded, next, drop | gaps are reported, once and in the right place |
| **Observable status** | value, one token channel per watcher | set, changed, drop | no change is missed |
| **Presence** (client and runtime `presence.rs`) | tracker: map of presences, queued diffs, join reference; events still to be returned, whether a resync is required | apply a state or a diff, reset, next, resync | a state brings exactly the server's presences, whatever was queued; the events account for the state; diffs keep it current |
| **Session** (`session.rs`) | the protocol, the transport, buffered events | join, rejoin, push, leave, heartbeat, next_event, reset_connection, close; the future of each may be dropped | a method returns with its own reply; what arrives meanwhile is neither lost nor reordered; a wait ends when its answer has become impossible |
| **Native worker** (`managed.rs`) | bounded command queue, unbounded control queue, records of the requests (known, cancelled, operations), channels, worker thread | requests from any thread, cancellation by guards, registration and drop of channels, shutdown, end of the driver | each response is given once; an abandoned request does not run; a channel lives as long as its handles; a shutdown ends the thread and every request returns |
| **Web runtime** (`lib.rs`) | long poll: the polling task, the channel it feeds, the closed flag; page lifecycle: two resume flags | poll, post, receive, close; pagehide, pageshow, visibilitychange, offline, online | messages in order and before the end; close ends the polling; what the page suspends it resumes, and nothing else |
| **Codec, frames, payloads, endpoint, tracing** | none | pure conversions | round trips, covered by unit tests and the fuzz target |

### How they interact, and what is hard

* *Two queues, one priority.* `select_biased!` polls the unbounded lifecycle
  queue (Register, Unregister, Cancel) before the bounded command queue, so
  what was sent later may be handled earlier (`mod.rs:1563`).
* *Generations.* Every join is a generation named by its reference. Replies,
  closes and crashes of a generation may arrive when a later one is under way;
  some server messages (broadcasts) carry no generation at all.
* *Detached steps.* A join first loads its payload in a future of its own; a
  rejoin waits for a timer; both come back to a record that may have been
  left, dropped, recreated or disconnected meanwhile. Timers are never
  disarmed, they are ignored when they find nothing.
* *A response sender moves* from the command queue to waiters, push buffer,
  tables or a deferred leave; every path must answer it once.
* *The transport fails anywhere*, also in the middle of a flush.
* *Threads.* The native worker learns of a request, of its command and of its
  cancellation by two queues it selects from at random, and host threads go on
  sending while it drops those queues at its end.
* *Futures are dropped.* Every method of `Session` and every native request may be
  abandoned at an await; what it had started goes on.
* *Stale status.* The listeners of the page decide by a status that commands
  already queued will change.

The list of hazards, each at its line and with the properties that cover it, is
`hazards` in `PROJECT.json`.

## 2. Modules

| module | models | variables |
|---|---|---|
| `ProtocolOps` | the `Protocol` struct and its methods as operators, without variables, so that the driver models use the same ones | – |
| `Protocol` | `ProtocolOps` as a machine with a Phoenix server: any public call in any order, any answer, late, refused, malformed or never | `proto`, the last `event`; server: `unanswered`, `live`; history: `faulty`, `gone` |
| `ChannelLifecycle` | abstract: what the protocol promises about a topic | `phase`, `generation`, `clock` |
| `DriverOps` | `DriverState` for one topic as operators, one per handler; each is the whole handler | – |
| `Driver` | application tasks, the two queues, the select loop, timers and the server around `DriverOps` | `driver`, `connected`, `commands`, `lifecycle`, `caller`, ... |
| `Connection` | the four loops with the socket's own requests, heartbeat and reconnect policy, over `ProtocolOps` | `phase`, `status`, `attempt`, `proto`, `heartbeat_reference`, ... |
| `SocketLifecycle` | abstract: what `Socket`'s documentation says about its status | `status`, `disconnected` |
| `EventStream` | `send_bounded` and one subscriber | `queue`, `dropped`, ... |
| `StatusWatch` | `ObservableStatus` and any number of watchers | `value`, `tokens`, `owners`, ... |
| `PresenceOps` | `sync_state`, `sync_diff` and `PresenceTracker` as operators | – |
| `Presence` | `ChannelPresence`, the event stream as it sees it, a server that tracks presences and sends states and diffs, and an application that follows the events | `tracker`, `pending`, `desynchronized`, `resync`; `events`, `lagging`; server: `present`, `outbox`, `generation`, ...; history: `reported`, `restated`, `stray` |
| `NativeWorker` | host threads, their requests and handles, the two queues and the worker thread from its loop to its exit | `phase`, `answer`, `target`, `handles`; `commands`, `control`; `worker`, `driver`, `operations`, `running`, `aborted`, `channels`, `known`, `cancelled`, ...; history: `orphans` |
| `LongPoll` | `LongPollTransport`: its polling task, the channel it feeds, receive and close | `outbox`, `poll`, `events`, `open`, `closed` |
| `Session` | the methods of `Session` over `ProtocolOps` and `LongPoll`, with a Phoenix server | `proto`, `buffered`, `stage`, `call`, `reported`; server: `unanswered`, `live`, `sent`; history: `seen`, `lost` |
| `PageLifecycle` | `WebLifecycle` over the actions of `SocketLifecycle`, with the command queue and an application | `status`, `commands`, `reconnecting`, `resume_after_page_show`, `resume_after_online`, `shown`, `online`, ...; history: `wanted`, `stirred` |
| `Observers` | `EventStream` and `StatusWatch` together: `emit_socket` does both in one step | both |
| `ProtocolProofs`, `DriverProofs`, `ConnectionProofs`, `ObserversProofs`, `PresenceProofs`, `NativeWorkerProofs`, `SessionProofs`, `PageLifecycleProofs` | theorems | – |
| `MCProtocol`, `MCDriver`, `MCPresence` | symmetry sets, and the workloads of `Driver`, for TLC | – |

### How the models correspond to the code

**Protocol.** The channel table maps a topic to its state and join reference; an
absent entry has reference 0. The pending table is a set of records (kind,
topic, reference). `receive` is one operator per event of the code, tried in the
code's order: replies, then the stale check, then close and error, then
messages. Payloads are left out; a reply whose payload does not decode has the
status `invalid`: `receive` has then already removed the pending entry
(`protocol.rs:466`), the error goes to the caller, and `faulty` records it. The
references are natural numbers bounded by `MaxReference` in the guards;
the code's u64 wraps after 2^64 requests. The server answers a request at most
once, a join not after the end of its generation, in any order, or never.

**Driver.** One topic, because no handler relates two topics except through
references, which `Protocol` covers with two. A record `driver` holds what the
code holds in `ChannelRecord` and the tables of `DriverState`. A handler is one
step: application and driver run on one thread, and a handler that awaits
the transport blocks the loop; what another task does during such an await is
only to append to the queues, which commutes with the rest of the handler.
An await that never returns (section 6) only ends the execution there; no liveness
is claimed of this module.
Where a handler sends several frames (the flush of the push buffer), the
operator takes the number that were sent before the transport failed. Requests
are model values: a request is what the code identifies by its response sender.
`Cancel` travels as in the code, in the other queue. Delays (payload loading,
rejoin, operation timeout) are elements of sets that may be taken at any time
when both queues are empty, as `select_biased!` has it. The server is that of
`Protocol`, with one addition: a generation that was left sends its
`phx_close` after the reply to the leave, at any later moment, as Phoenix does.
`answer` is the result a caller was given. A dropped handle closes its status at
once (`mod.rs:719`) and queues Unregister. `Workloads` says what an execution may
consist of: which requests, how many handles and references, and the configured
capacity of the push buffer; an execution chooses one at its start, so one run checks
a small set of quite different uses.

**Connection.** `phase` says which loop runs; `reason` why the last connection
or attempt ended, which decides between idle and backoff. Without a custom
policy the default policy is modelled as in the code (retry but for a clean
close); with one the decision is free, and the run uses that, which includes
the default. `attempt` saturates at `AttemptCap`, in the code at `u32::MAX`. Pings
and heartbeats are tracked by `ProtocolOps` itself. A transport may report its
end before it has delivered the frames it holds (`TransportEnds` does not wait
for an empty `inbox`). To send a frame and to close the transport are awaits of the
loop itself: in the phases `sending` and `closing` the driver takes nothing from its
queues and no timer, while everybody else goes on, and only `SendReturns` or
`CloseReturns` ends them. The end of a connection is therefore two steps:
`EndConnection` begins the close, `CloseReturns` changes the status, forgets the
connection and answers whoever asked for it (`ending`), as `run` does.

**Event streams.** Events are numbered; `queue` holds events and `Lagged(n)` as
the code does, with the capacity the code gives the channel for a configured
capacity. **Status.** A watcher's channel has one slot for a token without a
value; the value is read when the token is taken. A watcher owns a clone of the
cell with its own sender, as in the code.

**Presence.** A presence state is a function from the keys present to their
non-empty sets of metas; a meta is its `phx_ref`, the only part of it the code
compares. The server tracks, updates and untracks metas at any time and sends the
diffs later, in order. `intercepts` decides between the two ways a diff can reach
the client: broadcast, without a join reference, or pushed by a channel process that
intercepts it, with one. A state is read and then pushed, and a broadcast may go out
between the two. The four events that end a generation (disconnected, left, closed,
error) are one, since `next` treats them alike. The event stream is the one of
`EventStream` with the events the tracker ignores left out; as those take slots too,
any event may be dropped while the queue is not empty. `resync` is three steps,
after its two awaits, each of which may fail. The history `reported` is what an
application knows that applies each `Joined` and `Left` to a map of its own.

**Native worker.** A request of a host thread is in a `phase`: it reserves a permit
of the command queue, sends Register on the control queue, sends its command, waits.
Each of these is a step, since the worker may run between any two, and a permit
that is out takes a place in the queue. `answer` is the oneshot channel of the
request: empty, answered, or its sender dropped. The guard sends Cancel when the
future of a request is dropped, and also when the request returns an error. The
worker's loop takes from either queue at random; the records `known`, `cancelled`
and `operations` are those of `worker_main`. An operation is a task: `running`, or
`aborted` and not dropped yet; its response and the Finished it queues are two
moments for the hosts. The calls of the client are one kind of operation, which
ends at any time with any result, at the latest by its own timeout. `orphans` is a
history: the channels whose registration was given up, after its answer (`GiveUp`) or
with its Cancel overtaken by the command (`Overtakes`). A shutdown holds
the loop while the tasks go on. At the end the worker drops the receiver of the
control queue, that of the command queue, then the tasks, then publishes its
status and exits; a command sent in between stays in a queue nobody reads. The driver
may panic, as callbacks of the application run in it. The registrations are all
for one topic, the case in which they disturb each other.

**Long poll and Session.** `outbox` is what the server would put into the answer to
the next GET. The polling task and the methods of `Session` run on the thread of the
page: one runs only while the other awaits, and `stage` says what the method under
way awaits (the POST, or a frame). `receive` looks at the flag `closed` when it is first
polled and not when the channel wakes it: `BeginReceive` and `ResumeReceive`. A POST
that fails may have arrived. A future may be dropped at each of these points. A
frame may fail in two ways, and each ends the method with an error. The codec may
refuse any frame (`TakeUndecoded`): it is gone before the protocol has seen it, and
if it was a message, the history `lost` has its number. The protocol may refuse the
payload of a reply (`InvalidReply`), after it has removed the request. The
events `Session` returns carry the number of the message, if they are one; the
order of a reply to other messages is left to the server. A reconnection
is `reset_connection` and a new transport; what the old connection lost counts as
never sent.

**Page lifecycle.** The socket is the abstract one of `SocketLifecycle`, which
`Connection` implements. A listener reads the status, sets or clears its flag and
spawns a task that sends a command. Tasks run in the order they are spawned and a
clone of the command sender has a slot of its own, so the command is queued at once;
the driver takes it later. `reconnect` is a disconnect whose task sends a connect when
it is answered. Page events come in any order a browser can produce; that they
are delivered is the browser's part. `wanted` and `stirred` record what the
application and the listeners asked for last.

## 3. Runs

Bounds are constants of the cfg and appear in guards only. Sizes are of distinct
states. The type invariant is a property of its own in `protocol` and `connection`;
in `Driver`, `Presence`, `NativeWorker`, `Session` and `PageLifecycle` it is a conjunct of
`EveryRequestHeldOnce`, `StateBringsTruth`, `WaitingHasResponder`, `WaitsAreOwed` and
`WantedIsOwed`; for `EventStream` and `StatusWatch` it is part of the theorems.

| run | instance | states | shows |
|---|---|---|---|
| `protocol` | two topics, references to 4, symmetric topics | 0.8 M | references stay unique; a waiting channel has a pending request of its own; a pending request of the present generation is owed by the server; a discarded generation's replies match nothing; only its own join makes a channel joined; the machine implements `ChannelLifecycle` |
| `driver_join_leave` | 1 connection; 2 joins and 1 leave of 1 handle, or 2 joins of 2 handles | 1.9 M | no response lost; waiting channels keep their watchdog; a wanted channel progresses, but for the case of `driver_stuck_join`; status agrees; no join timeout hits another generation |
| `driver_push_buffer` | 2 connections; 1 join, 1 call, 1 cast and capacity 2, or 1 join, 2 casts (one the format refuses) and capacity 1 | 1.8 M | at most one transmission; the buffer keeps its capacity; nothing left in the buffer of a joined channel; tracked replies have callers |
| `connection` | 1 connect, 2 disconnects, 1 shutdown, 1 ping, 2 heartbeat references; each send and close an await | 0.3 M | status as documented (`SocketLifecycle`); heartbeat and ping told apart, and no caller of a ping lost; an arrived acknowledgement wins against the timer; as long as the transport returns, connect, disconnect and shutdown are answered, an unanswered heartbeat ends, an abandoned driver stops |
| `presence` | 2 keys, 2 metas, 2 joins, 2 states each, a stream of 2 | 3.1 M | a state brings the server's presences whatever was queued before; the events account for everyone in the state; diffs with a join reference keep it current |
| `observers` | capacity 1, 8 events, 2 watchers | 0.5 M | gaps reported in their place; no missed status change |
| `native_worker` | 2 registrations of 1 topic, 1 call, 1 shutdown, of which 3 are made; a queue of 1 | 0.6 M | a waiting caller has exactly one responder; a response is dropped only at the end; an abandoned request does not run; records are current; calls find their channel and channels have owners, but for the orphans; every request returns, and the thread ends |
| `session` | 1 topic, 2 requests, 2 messages per connection, 2 connections | 1.0 M | messages in order and once, and none missing but one whose frame did not decode; a wait can end; an end is reported for what it is; calls end, and close ends the polling |
| `page_lifecycle` | 7 events of page, network and application | 0.6 M | a wanted socket is active, about to be, or owed by a flag; an absent page lets go of it; it is resumed |
| `driver_stuck_join`, `driver_late_close`, `presence_diffs` | as small as shows it | – | the disagreements of section 6, each as a counterexample |

*Why these bounds are enough to be of interest.* Two topics and four references
allow a generation to be discarded while its reply is owed and the topic to be
joined again, a rejoin of both at once, and a leave behind a rejoin. In the
driver two joins and a leave are the smallest set with a join queued behind a
leave that is put off behind a join; the second connection is what the
interrupted flush needs; three references allow join, rejoin and leave in one
connection. Capacity one is where the push buffer refuses, capacity two where a flush
can stop half way. Two disconnects and one connect distinguish "accepted" from
"answered". Two heartbeat references allow a ping and a heartbeat at once.
Two metas allow an
update, which is a join and a leave in one diff, two states a second one on top of the
first, and two slots a stream that holds a diff and drops the next. Eight events fill the smallest stream, lag it, drain it and lag it again.
In the worker two registrations of one topic are what can be refused, a call on the
channel of the first is what its removal can overtake, a queue of one makes the others
wait for a permit, and three requests leave out only the combination of all four.
In the session two requests are a join and what follows it, or a dropped request
and a later one that meets its reply; two connections show what outlives the
first. Seven events of the page allow both listeners to suspend and resume around
a call of the application, one of them twice.
Deadlock is checked in `protocol`; the other systems may stop: the requests
of an instance run out, the driver is shut down.

*Fairness.* Only what a host or a timer must do is assumed fair, and weakly.
In `Connection`, the driver's own steps: the documentation of `Driver` (`mod.rs:1057`)
requires the host to poll it continuously, every attempt to connect ends by
`connect_timeout`, and timers expire. Nothing is asked of the application or of
the frames of the server: acknowledgements may never come and handles may never be
dropped. Nothing is asked of the transport either: `SendReturns` and `CloseReturns`
have no fairness. The code awaits `transport.send`, `close` and `close_with` inside its
loop, without a timeout (`mod.rs:1354-1372`, `mod.rs:2480-2500`), and the native
transport has none (`lib.rs:405-486` of the native crate), so a server that
stops reading may block the driver for ever; then no liveness property holds.
`NothingWaitsForever` and `AbandonedDriverEnds` therefore state their assumption,
`TransportReturns`: the driver is again and again not in such an await, that is,
every one of them ends, with success or with an error. Transports that keep
it are those that bound their operations, as the long poll does its requests.
The application has finitely many requests; a host that never stops sending
commands could starve the heartbeat, since `select_biased!` always takes the
command first, and the run says nothing about that. In `NativeWorker`, host threads
that are awake run, tokio polls the worker and its tasks, and an operation of
the client ends, by its timeout or because the driver answers, which for connect,
disconnect and shutdown rests on `TransportReturns`; nobody has to call, or to
give up. In `Session`, the method under way is polled and a POST ends by the request
timeout; once the transport is closed its GET is aborted and the polling task runs.
The server need not answer, and a GET of an open transport need not end. In
`PageLifecycle`, the driver takes commands, with the same assumption on its transport,
and the task of a reconnect runs; attempts
to connect need not succeed.


## 4. Proofs

All eight proofs are for every value of the constants, and use no assumption
beyond the named ones of the modules. A proof has the same order everywhere:
facts about the operators, the inductive invariant, what each step does to each
of its parts, and the theorems.

**`ProtocolProofs`.** `TypeCorrectness`: `Spec => []TypeOK`. `ReferencesAreFresh`
and `DiscardedRepliesUnmatched` follow from `Inductive`: the invariant

    IInv = TypeOK /\ Fresh(proto) /\ RequestsAgree /\ GoneIsPast
           /\ DiscardedRepliesUnmatched

*Why it is needed.* That a reference is unique is not inductive alone: a step
that tracks a request needs to know that no pending entry, channel or request
on the wire is ahead of the counter (`Fresh`, `RequestsAgree`). That a reply of
a discarded generation matches nothing needs more: a discarded generation is
not the present one of any topic and no pending entry has the reference of a
request it still has on the wire (`GoneIsPast`); and a request on the wire that
has a pending entry agrees with it in kind and topic (`RequestsAgree`), because `discard_channel` removes entries by
topic while replies are matched by reference. The lemmas follow the structure of
the code: what tracking, discarding, resetting and rejoining do to `Fresh`
(`TrackFresh`, `ShrinkFresh`, `JoinFresh`), then what a call and what a frame do
to the rest (`RequestStep`, `ReceivedKeeps`). `JoinedByOwnJoin` proves the action
property from the inductive invariant: only a reply can make a channel joined
(`CallsJoinNothing`), and `receive` compares the reply's reference with the
channel's (`ReceiveJoins`).

A second inductive invariant, on top of the first, says what is owed
(`OwedInductive`):

    Owed = RequestsOfGeneration /\ JoinStillOpen /\ PendingIsOwed
           /\ WaitingHasRequest

`WaitingHasRequest` and `PendingIsOwed` are not inductive, even together: both
need that a request as young as the present generation of its topic belongs to
it, and that the join of the present generation is on the wire only while the
channel is Joining, since its answer makes the channel Joined from any state.
`WaitingIsPending` and `PendingIsAnswerable` state the two properties.
`LifecycleImplemented` is the refinement: under `IInv`, each call and each
frame is, for every topic, a step or a stutter of `ChannelLifecycle`.

**`DriverProofs`.** Every property of the passing runs of `Driver` is a theorem:
`RequestsHeldOnce` (`EveryRequestHeldOnce`, types included), `PushesSentOnce`,
`WatchdogsRun`, `StatusAgrees`, `BufferBounded`, `TrackedPushesCalled`,
`WantedProgresses` and the action property `TimeoutsSpareNewJoins`, for any requests,
workloads, capacities, handles and connections. They follow from `DriverInvariant`:

    Inv  = Shaped /\ Core
    Core = Rested /\ Served /\ Accounted /\ Visible /\ FirstHandle
    Rested = Steady /\ Once /\ Buffered /\ (what was to be sent was sent)

*Why it is needed.* `EveryRequestHeldOnce` is about callers; a handler knows only
responses. So the invariant is split in what is true of a driver state by itself and
what relates it to the queues and callers (`Accounted`). Of the first,
`Steady` is what the *operators* a handler is composed of keep: the tables of the
protocol and of the driver agree, the references in use were allocated, every wait has
its timer, and each request that the server owes an answer or that the handler is
about to send is what the protocol has pending under its reference. The server's part
includes a ghost request of kind Left for each close it owes (`Owes`), so that a late
`phx_close` is met like any other answer. `Once` says that a response is in one of
the five places that hold one and in none once it is answered, and that a push leaves
the buffer before it is sent. `Moves` and `Takes` say the same of a step: nothing is
lost, invented or answered twice, and only the request that came with the command
is new. They compose (`MovesThen`), so an operator is proved once and every handler
that calls it cites the lemma. What is true only *between* handlers comes last:
the buffer of a joined channel is empty (`Buffered`), the status agrees (`Shown`),
a wanted channel is on its way (`OnItsWay`), nothing is left to send. `Lands` proves
that a handler whose frames are out, or whose connection failed on them, ends there.

Three parts are less obvious. `EveryRequestHeldOnce` needs that a
cancelled leave is not answered as another: only a caller that is gone closes its
response (`Closed`). `OldTimeoutSparesNewJoin` is inductive only with `FirstHandle`:
under the first handle the pending join is the one the channel waits for (`Clear`), unless
a leave was given up, which is the exception the property makes as well (`Given`).
`WantedUnlessLeftProgresses` and `StatusIsJoinedWhenJoined` stop when the handle is dropped,
which the queued Unregister tells (`Visible`).

The flush of the push buffer is a recursive function. `FlushHasSteps` unfolds it to a
sequence of single pushes, by induction over the set of lengths for which that is
possible (`Induction`), so that `FlushEffect` needs only what one push does
(`FlushStep`). `...Keeps` lemmas are about handlers and then about actions, one
per disjunct of Next (`NextKeeps`); the `...Times` lemmas say the little
that `TimeoutsSpareNewJoins` adds: no step but its own takes a timer.

**`ConnectionProofs`.** `TypeCorrectness`, `Accounted` (`HeartbeatsAccounted`),
`TimeoutIsSilence` (`TimeoutMeansSilence`) and `LifecycleImplemented`, the
refinement of `SocketLifecycle`, from

    IInv = TypeOK /\ Accord /\ Beats /\ Queues /\ HeartbeatsAccounted

*Why it is needed.* `HeartbeatsAccounted` does not say that the heartbeat the loop
waits for is owed or has arrived (`Beats`), without which a timeout could be
another's fault; nor that a ping is queued once and cancelled only when its caller
has gone (`Queues`), without which taking it could lose a caller. `Accord` ties the
socket's status and the `disconnected` flag to the loop that runs, or to the await of
its transport, during which the status is still Connected; the refinement rests on it.

**`ObserversProofs`.** `GapsReported`: `TypeOK /\ GapsAreReported` is inductive
for every capacity. `GapsAreReported` says that the numbers in the queue, with
the counts of its `Lagged` items, form a chain from what the subscriber saw to
what was emitted. The proof gives the chain without recursion: each item begins
where its predecessor ends (`Chained`), and appending and taking keep it
(`AppendChains`, `TailChains`). `CaughtUp` derives the action property: the two
slots the code guarantees are enough for a `Lagged` and the event after it.
`ChangesReach`: `TypeOK`, `watching \subseteq senders` and `NoLostWakeUp` together
are inductive for any set of watchers: a set wakes exactly the registered
senders, so a watcher that is not registered would be missed. `ObservedChanges`
and `ObservedEvents` carry both over to `Observers`: each of its steps is a step or a
stutter of either component (`ComposedStep`).

**`NativeWorkerProofs`.** `WaitingIsHeld`, `AbandonedRequests`, `RecordsFollowTasks`
and `HandlesHaveChannels` state the four safety properties of the worker, from

    IInv = TypeOK /\ Counted /\ Queued /\ Tracked /\ Truthful /\ Announced
           /\ Settled /\ Owned /\ Held /\ AbandonedNeverRuns

*Why it is needed.* The worker learns of one request by two queues, and what it may
conclude from a record depends on where else that request can be. `Queued`,
`Tracked` and `Truthful` say what the command queue, the tasks and the messages of
the control queue know of the host threads. `Announced` is about the *order* in
the control queue, for which `Leads` and `Trails` are the vocabulary: the Register of a
request precedes its Cancel, so that a cancelled request whose command is still
queued is known; and its Finished does not precede its Register, so that
`known_requests` is cleared for good. `Settled` says which records are only waiting
for such a Finished, `Held` and `Owned` where a responder and a channel are. The
bound of the command queue needs that the permits that are out can be counted
(`Counted`).

**`SessionProofs`.** `MessagesStayInOrder`, `WaitingIsOwed` and `CleanIsClosed`,
from

    IInv = Types /\ InLine /\ Closed /\ Answerable /\ Owed

*Why it is needed.* A message is in one of three queues: the server's outbox, the
channel of the polling task, the buffer of `Session`. `InLine` says that each holds
a range of consecutive numbers but for those in `lost`, in order (`Line`), that the
ranges adjoin, and that what is lost is older than what the channel holds; then
appending, taking, and moving a whole outbox are facts about `Line`
(`LineAppended`, `LineShifted`, `LineLost`, `LineJoined`). Between methods the
buffer is returned before the channel is read, which `Types` includes. `Closed`
ties the flag of the transport to its cause: a close, or a refusal that is
still in the channel or was reported. `WaitsAreOwed` needs that the answer
that comes is recognised: `Answerable` says that the reference of the call under
way is that of no other request or reply, is in the pending table and is not stale.
`Owed` is `WaitsAreOwed` from the moment the POST has arrived.

**`PresenceProofs`.** `sync_state` works by computing joins and leaves and applying
them with `sync_diff`; that the result is the new state is not obvious from the
code. `SyncDiffMetas` says what `sync_diff` does to each key,
`ChangesAreDifferences` what the computed changes are, and `SyncStateReplaces`
combines them by `SameMetas` (a presence state is determined by the metas of
each key, since no key is kept without any). They hold for every two states.

A state takes the queued diffs with it, one after the other. `StateHasSteps` unfolds
that recursive function to its steps, by the same induction over a set of lengths as
in `DriverProofs`, and `ApplyStateEffect` says what comes out without the steps: if the
queue is `Clean` (no diff adds what it or an earlier one drops), a meta is there
exactly if the state or a queued diff has it and no queued diff drops it. So it does
not matter where in the order of the diffs the state was read.

The three properties of `Presence` (`StatesBringTruth`, `ReportsCover`,
`PushedDiffsFollow`), and its types (`PresenceTypeCorrect`), follow from

    Inv = Shaped /\ Idle /\ Tracked /\ Told

`Tracked` is a statement about a tracker, the events it has yet to take and the diffs
not sent yet (`OnTrack`), so that the same lemma (`EventTaken`) serves for a step of
`next` and for each step of `Drained`, the tracker that `StateBringsTruth` looks at.
It has three parts, and none is inductive without the others:

* `Order`. The tracker's queue, the diffs of the stream and the server's outbox are one
  `Line`: none adds what an earlier one drops, since the server uses a meta once, and
  what any of them drops is gone (`Past`). Without it a diff that is late could take back
  what the state brought.
* `Stream`. What a diff of the stream adds is present, or a later diff drops it; frames
  belong to one generation until an end or a report of lost events comes; and a state that
  is pushed is current (`Current`): with the diffs after it, it makes up the presences.
  This is claimed of what comes after the last end or report only (`Whole`), and
  while the stream is `lagging` not at all: a lost event breaks it, and the report mends
  it by telling the tracker to reset (`TrackBroken`, `TrackLost`).
* `Tracking`. The same of the tracker: with the events and the outbox its state makes up
  the presences if the diffs are pushed, and what a queued diff adds is present, or is
  still to be dropped.

`Current` needs diffs that carry a join reference: the tracker queues a broadcast that
comes after the state, which is the finding of section 6. `Told` says that the events
not returned yet and the map of the application cover the state (`Covered`), and that none of
them takes a present meta back; a second state of one join breaks the latter, which is the
exception the property makes (`restated`).

`Induction` needs no operator as a parameter, `SetToSeqHasAll` (a finite set as a
sequence has all its elements) is what `PresenceEvents` rests on, and presence states have
finitely many keys, as maps do. `PresenceBounds` (the bounds are numbers) is the only assumption.

**`PageLifecycleProofs`.** `WantedStaysOwed` and `AwayStaysSuspended`: both safety
properties of the page, for any number of events. `WantedIsOwed` is inductive; for
`AwayIsSuspended` the invariant is strengthened by `Quiet`, which says what the queue
may hold while nothing has asked for a connection: disconnects only, no reconnect
under way, and if it is empty, a socket that is down. `AwayKeeps` and `BackKeeps` are
the two kinds of listener, `TakeCommandKeeps` the driver, with `Queued` and `Taken`
for the two ends of the queue.

*Only model-checked*: liveness under fairness (`NothingWaitsForever`,
`AbandonedDriverEnds`, `RequestsAndWorkerEnd`, `CloseEndsWaiting`, `ResumedWhenBack`)
and ENABLED, which are beyond the prover. Every safety and action property of a passing run
is a theorem. The library's folds stay out of the proofs: their induction theorems take
an operator, which no installed prover instantiates. A recursive function can be reasoned
about with a set in place of the predicate, as `FlushHasSteps`, `StateHasSteps` and
`DrainedHasSteps` do.
The modules under a theorem use no RECURSIVE operator.

## 5. What is not modelled

* The native transport (I/O of tokio-tungstenite), the relays of the native worker
  into watch and broadcast channels, and the threads that read them.
* In the web runtime: the handshake of the long poll, the WebSocket adapter and its
  health check; tokens, addresses and the encoding of the long poll.
* `Session::protocol_mut` and `into_parts`, which hand out what they guard.
* Codec, frames, payload conversion, endpoint, tracing: pure functions without
  state. What the driver sees of them is modelled: a push the format refuses
  (`BinaryRefused`), a frame that does not decode.
* Presence payloads that do not decode, and the data and order of metas:
  `sync_state` keeps the old fields of a key whose metas did not change.
* `join_attempt` and `join_timeout` choose delays; a delay is any time.
* The moment a request waits for a slot of the bounded command queue
  (`mod.rs:908`): nothing has been sent, and its guard is not armed yet.
* Several topics in one driver; the event filter of `EventSubscription`.

## 6. Findings and observations

Three runs end in a counterexample; details and quotes are in `findings`.

1. `driver_stuck_join` (`mod.rs:2334`): a join times out while a leave waits for
   it and a later join wants the channel; the leave is answered, and nothing
   joins the channel any more on this connection.
2. `driver_late_close` (`mod.rs:2250`): the `phx_close` Phoenix sends after the
   reply to a leave interrupts the join that was queued behind the leave.
3. `presence_diffs` (runtime `presence.rs:184`): a broadcast diff carries no join
   reference, so the tracker queues it until a next state; the state of a joined
   channel does not follow the server. `FollowsPushedDiffs` in `presence` shows that
   it does when the server pushes the diffs with the reference.

Observed while modelling; a property that meets one of these excepts it by name:

* The timeout of a join that a dropped handle left behind takes down the join of the
  next handle (`mod.rs:1975`, `mod.rs:2321`), although `mod.rs:719` has it that "Dropping
  the handle unregisters the topic and its pending operations."
  (`OldTimeoutSparesNewJoin` is about one handle.)
* A command sent with a permit that was out when the worker dropped its receiver
  (`managed.rs:919`) stays in the queue, and its caller waits until the socket
  is dropped, which it borrows (`Stranded` in `RequestsAndWorkerEnd`).
* Of two concurrent `shutdown` or `join_worker` calls one returns at once, while the
  thread still runs, although `managed.rs:594` says "Blocks the current thread until
  the worker exits."
* A send or a close that never returns blocks the driver: neither a command nor a timer
  is taken, and the caller of `disconnect` or `shutdown`, which have no timeout, is not
  answered (`TransportReturns` in `NothingWaitsForever`).
* A native `channel` request that is given up leaves the channel registered without a
  handle in two cases, and its topic stays taken as long as the socket lives: it is
  dropped between its answer and its receipt; or it is dropped before, and the worker,
  which selects at random, takes the Channel command (`managed.rs:1449`) ahead of the
  Cancel that is already queued: the response finds nobody, and the Cancel
  (`managed.rs:1294`) finds neither an operation nor a known request
  (`orphans` in `ChannelsFollowHandles`). And since the
  removal of a channel travels on the control queue, a topic registered again right
  after its handle was dropped may be refused as a duplicate.
* A native command handled before its own Register leaves an entry in
  `known_requests` until its Finished is handled; a registration that failed or was
  cancelled has none, and its entry stays (`RecordsAreCurrent` is about calls).
* The flag of the long poll comes before what the channel holds (`lib.rs:843`): when the
  server refuses a GET with 410 while no receive waits, the close with code 3410, which
  `TransportClose::should_reconnect` would retry, is reported as a clean one with code
  1000, and a client does not reconnect (`README.md:130`: "reconnects abnormal
  transport failures"). Messages received before it are lost (`CleanMeansClosed`).
* A long-poll transport dropped without `close` goes on polling until a message
  arrives: only then does the polling task notice that nobody listens.
* A message whose frame does not decode is lost to `Session` (`session.rs:157`): the method
  under way, whichever it is, returns the error, and the next one goes on with the frame
  after it (`lost` in `MessagesInOrder`). If the frame was the reply to a join or a
  leave, the channel stays Joining or Leaving.
* When a rejoin discards the pushes the protocol has pending (`mod.rs:2069`), the driver
  keeps their callers in `pending_calls`: they are answered by their timeout or the end
  of the connection, although no reply can reach them. `TrackedPushesHaveCallers` is
  the other direction, and no property says that these calls fail early.
* A push or leave of a `Session` whose generation has ended waits for the end of the
  connection (`session.rs:139`, `WaitsAreOwed`); a request whose send failed or whose
  future was dropped leaves the channel Joining or Leaving until `reset_connection`;
  events buffered on one connection are returned after the next was joined.
* A `disconnect` of the application while the page is hidden or offline is undone when
  the page comes back, as the flag is still set, and one made during the `reconnect` of
  a page that became visible is undone by its second half, although `mod.rs:616` says it
  "Disables automatic reconnection". A page that goes offline and is then hidden
  connects when the network returns, hidden as it is.
* `StatusChanges::changed` (`mod.rs:388`) may return the status it returned last, since a
  token carries no value, and never returns `None`: the watcher's own
  clone of the cell keeps its sender alive.
* The timeout of a leave (`mod.rs:2364`) discards whatever channel the topic has;
  when `phx_error` ended the generation that was left and a later one is
  joining, that one is discarded and, being wanted, joined once more. The discarded
  join stays in `pending_joins`, and its own timeout (`mod.rs:2321`) later takes down
  the join that replaced it: `OldTimeoutSparesNewJoin` excepts executions in which
  a leave has failed or was given up (`LeaveGivenUp`).
* A cancellation overtakes its request (`mod.rs:1564`): `select_biased!` takes the
  lifecycle queue first, finds nothing to cancel, and a call that timed out in
  the command queue is transmitted afterwards. The test `tests.rs:1188` covers a
  call that is already in the push buffer.
* A state that is not the first of its join, with an older diff queued, reports
  a meta as `Joined` and then as `Left` and keeps it in the state: joins are
  returned before leaves (client `presence.rs:119`), while the state took the leave
  first. `ReportsCoverState` excepts it (`restated`).
* `Left` is suppressed when the key was not in the state before the update
  (client `presence.rs:128`), so a meta that joined and left within one update is
  returned as `Joined` only.
* A broadcast that follows the end of its generation is queued by the tracker
  that was just reset, and applied on top of the next generation's state
  (runtime `presence.rs:178`). When the diff that takes it back was sent while the
  channel was not joined, a presence that is gone stays. `StateBringsTruth` excepts
  it (`stray`).

## 7. Plan

The order puts first what the rest rests on.

1. *Done.* `ProtocolOps`, `Protocol`, `ChannelLifecycle`; `DriverOps`, `Driver`;
   `Connection`, `SocketLifecycle`; `EventStream`, `StatusWatch`, `Observers`;
   `PresenceOps`, `Presence`; `NativeWorker`; `LongPoll`, `Session`;
   `PageLifecycle`; the proofs of section 4.
2. *Done.* Theorems about `Presence` as a machine: every safety and action property
   of a passing run is proved.
3. Liveness of the driver: a join is answered under fair timers; a
   deferred leave happens. Its state space allows it only on a smaller workload.
4. The number of runs is kept at a dozen: a component to come shares a run with
   one it interacts with (`Observers` is the pattern), and
   a finding that needs no run of its own moves to section 6.
