------------------------------- MODULE Session -------------------------------
(***************************************************************************)
(* Session: a protocol and a transport, here LongPollTransport, without a  *)
(* driver.  A method sends a request and consumes what arrives until its   *)
(* reply does; what else arrives is buffered for next_event.  One method   *)
(* runs at a time, and its future may be dropped wherever it awaits.  The  *)
(* server answers late, never, out of order, or with a reply the protocol  *)
(* refuses; any frame of its may fail to decode; and it may end a channel  *)
(* at any time.                                                            *)
(***************************************************************************)
EXTENDS LongPoll, ProtocolOps, FiniteSets, SequencesExt

CONSTANTS
  MaxReference,    \* bound on the references an execution allocates
  MaxMessages,     \* bound on the messages the server sends per connection
  MaxConnections   \* bound on the connections

ASSUME SessionBounds ==
  {MaxReference, MaxMessages, MaxConnections} \subseteq Nat

VARIABLES
  proto,        \* the Protocol
  buffered,     \* buffered_events
  stage,        \* what the method under way awaits
  call,         \* the request it made, or NoCall
  reported,     \* how an end of this connection was reported, if it was
  unanswered,   \* requests the server has and owes an answer
  live,         \* the generations it speaks for
  sent,         \* messages it has sent
  seen,         \* the last message next_event has returned
  lost,         \* messages taken in frames that did not decode
  connections   \* how many there have been

sessionVars == <<proto, buffered, stage, call, reported>>
serverVars == <<unanswered, live, sent>>
historyVars == <<seen, lost, connections>>
vars == <<longPollVars, sessionVars, serverVars, historyVars>>

NoCall == [kind |-> "none", topic |-> PhoenixTopic, ref |-> 0, join_ref |-> 0]

Init ==
  /\ InitTransport
  /\ proto = NewProtocol
  /\ buffered = <<>>
  /\ stage = "idle" /\ call = NoCall
  /\ reported = "none"
  /\ unanswered = {} /\ live = {} /\ sent = 0
  /\ seen = 0 /\ lost = {} /\ connections = 1

---------------------------------------------------------------------------
(* Methods that make a request.                                            *)

Return == stage' = "idle" /\ call' = NoCall

(* The protocol has changed.  The frame is sent, unless the codec or the   *)
(* transport refuses it, and then the method returns with the error.       *)
Request(q, p) ==
  /\ stage = "idle"
  /\ q.ref <= MaxReference
  /\ proto' = p
  /\ \/ Return
     \/ ~closed /\ stage' = "posting" /\ call' = q
  /\ UNCHANGED <<longPollVars, buffered, reported, serverVars, historyVars>>

(* A request on topic t with the next reference.                           *)
Call(kind, t, join_ref) ==
  [kind |-> kind, topic |-> t, ref |-> NextRef(proto), join_ref |-> join_ref]

CallJoin(t) ==
  /\ CanJoin(proto, t)
  /\ \E p \in {Join(proto, t), Rejoin(proto, t)} :
       Request(Call("Join", t, NextRef(proto)), p)

CallPush(t) ==
  /\ CanPush(proto, t)
  /\ Request(Call("Push", t, proto.channels[t].join_ref), Push(proto, t))

CallLeave(t) ==
  /\ CanLeave(proto, t)
  /\ Request(Call("Leave", t, proto.channels[t].join_ref), Leave(proto, t))

CallHeartbeat == Request(Call("Heartbeat", PhoenixTopic, 0), Heartbeat(proto))

(* A leave that is refused has taken its reference.                        *)
CallFails(t) ==
  /\ stage = "idle" /\ NextRef(proto) <= MaxReference
  /\ ~CanLeave(proto, t)
  /\ proto' = FailedLeave(proto)
  /\ UNCHANGED <<longPollVars, buffered, stage, call, reported, serverVars,
                 historyVars>>

(* The POST reaches the server, which starts a channel for a join ...      *)
PostArrives ==
  /\ stage = "posting"
  /\ stage' = "posted"
  /\ unanswered' = unanswered \cup {call}
  /\ live' = IF call.kind = "Join" THEN live \cup {call.join_ref} ELSE live
  /\ UNCHANGED <<longPollVars, proto, buffered, call, reported, sent,
                 historyVars>>

(* ... and its answer comes back.                                          *)
PostSucceeds ==
  /\ stage = "posted"
  /\ stage' = "receiving"
  /\ UNCHANGED <<longPollVars, proto, buffered, call, reported, serverVars,
                 historyVars>>

(* It does not, or another status does; the server may have the request.   *)
PostFails ==
  /\ stage \in {"posting", "posted"}
  /\ Return
  /\ UNCHANGED <<longPollVars, proto, buffered, reported, serverVars,
                 historyVars>>

(* The future is dropped.                                                  *)
DropFuture ==
  /\ stage \in {"posting", "posted", "waiting"}
  /\ Return
  /\ UNCHANGED <<longPollVars, proto, buffered, reported, serverVars,
                 historyVars>>

---------------------------------------------------------------------------
(* Receiving.                                                              *)

(* next_event: the buffer comes first.  An application does not ask an     *)
(* ended connection again.                                                 *)
TakeBuffered ==
  /\ stage = "idle" /\ buffered # <<>>
  /\ buffered' = Tail(buffered)
  /\ seen' = IF Head(buffered).kind = "Message" THEN Head(buffered).number
                                                ELSE seen
  /\ UNCHANGED <<longPollVars, proto, stage, call, reported, serverVars, lost,
                 connections>>

NextEvent ==
  /\ stage = "idle" /\ buffered = <<>> /\ reported = "none"
  /\ stage' = "receiving"
  /\ UNCHANGED <<longPollVars, proto, buffered, call, reported, serverVars,
                 historyVars>>

(* Mutations: only success ends the wait; what a method does not wait for  *)
(* is dropped.                                                             *)
IsSuccess(event) == event.kind \in {"Joined", "Left", "Reply", "HeartbeatAck"}

EndsWaitBySuccess(event) ==
  call = NoCall \/ (IsSuccess(event) /\ event.ref = call.ref)

DropUnexpected(event) == UNCHANGED buffered

(* A method returns with the event that has its reference, next_event with *)
(* any.                                                                    *)
EndsWait(event) ==
  \/ call = NoCall
  \/ /\ event.kind \in {"Joined", "JoinError", "Left", "Reply", "HeartbeatAck"}
     /\ event.ref = call.ref

Buffer(event) == buffered' = Append(buffered, event)

Message(f) == f.event # "end"

(* The messages in a queue, by their numbers.                              *)
Numbers(s) == {s[i].number : i \in DOMAIN s} \ {0}

(* A frame is taken from the channel, and the protocol receives it.  If it *)
(* is a reply that the protocol refuses, the method returns the error.     *)
TakeFrame(item) ==
  LET event == [kind |-> EventKind(proto, item), ref |-> item.ref,
                number |-> item.number]
  IN  /\ events' = Tail(events)
      /\ proto' = Receive(proto, item)
      /\ IF event.kind = "InvalidReply"
           THEN Return /\ UNCHANGED <<buffered, seen>>
           ELSE IF EndsWait(event)
             THEN /\ Return /\ UNCHANGED buffered
                  /\ seen' = IF event.kind = "Message" THEN event.number
                                                       ELSE seen
             ELSE /\ Buffer(event) /\ stage' = "receiving"
                  /\ UNCHANGED <<call, seen>>
      /\ UNCHANGED <<reported, lost>>

(* The codec may fail on any frame.  The frame is gone, the protocol has   *)
(* not seen it, and the method returns the error, ahead of what is         *)
(* buffered.                                                               *)
TakeUndecoded(item) ==
  /\ events' = Tail(events)
  /\ Return
  /\ lost' = lost \cup Numbers(<<item>>)
  /\ UNCHANGED <<proto, buffered, reported, seen>>

(* An end is reported to the application, as an error.                     *)
Report(end) ==
  /\ Return
  /\ reported' = end.how
  /\ events' = IF end.how \in {"gone", "forbidden", "failed"}
                 THEN Tail(events) ELSE events
  /\ UNCHANGED <<proto, buffered, seen, lost>>

(* receive() returns `item`, or waits.                                     *)
ReceiveItem(item) ==
  /\ \/ Message(item) /\ (TakeFrame(item) \/ TakeUndecoded(item))
     \/ ~Message(item) /\ item # End("none") /\ Report(item)
     \/ /\ item = End("none") /\ stage' = "waiting"
        /\ UNCHANGED <<proto, buffered, call, reported, events, seen, lost>>
  /\ UNCHANGED <<outbox, poll, open, closed, serverVars, connections>>

BeginReceive == stage = "receiving" /\ ReceiveItem(Received)

(* The channel wakes a receive that waits; it does not look at the flag.   *)
ResumeReceive ==
  stage = "waiting" /\ Available # End("none") /\ ReceiveItem(Available)

---------------------------------------------------------------------------
(* The connection.                                                         *)

Suspended == stage # "receiving"

Poll ==
  /\ Suspended
  /\ PollStep
  /\ UNCHANGED <<sessionVars, serverVars, historyVars>>

CloseSession ==
  /\ stage = "idle" /\ ~closed
  /\ Close
  /\ UNCHANGED <<sessionVars, serverVars, historyVars>>

(* reset_connection, and a new transport in the place of the old one.      *)
(* Messages that the old connection took with it count as not sent.        *)
Reconnect ==
  /\ stage = "idle" /\ (reported # "none" \/ closed)
  /\ connections < MaxConnections
  /\ connections' = connections + 1
  /\ NewTransport
  /\ proto' = ResetConnection(proto)
  /\ reported' = "none"
  /\ unanswered' = {} /\ live' = {}
  /\ sent' = Max({seen} \cup Numbers(buffered) \cup lost)
  /\ UNCHANGED <<buffered, stage, call, seen, lost>>

---------------------------------------------------------------------------
(* The server, as in Protocol.                                             *)

Serve(frame) ==
  /\ poll = "fetching"
  /\ outbox' = Append(outbox, frame)
  /\ UNCHANGED <<poll, events, open, closed, sessionVars, historyVars>>

Frame(kind, t, join_ref, ref, status, number) ==
  [event |-> kind, topic |-> t, join_ref |-> join_ref, ref |-> ref,
   status |-> status, number |-> number]

ServeReply ==
  \E q \in unanswered, status \in {"ok", "error", "invalid"} :
    /\ Serve(Frame("phx_reply", q.topic, q.join_ref, q.ref, status, 0))
    /\ unanswered' = unanswered \ {q}
    /\ live' = IF q.kind = "Join" /\ status = "error"
                 THEN live \ {q.join_ref} ELSE live
    /\ UNCHANGED sent

(* A channel process that has answered its join ends, after a leave or of  *)
(* itself; what else it was asked it does not answer.                      *)
ServeTermination ==
  \E g \in live, t \in Topics, kind \in {"phx_close", "phx_error"} :
    /\ \A q \in unanswered : q.ref # g
    /\ Serve(Frame(kind, t, g, 0, "none", 0))
    /\ live' = live \ {g}
    /\ unanswered' = {q \in unanswered : q.join_ref # g}
    /\ UNCHANGED sent

(* A broadcast, on a channel that is live.                                 *)
ServeMessage ==
  \E t \in Topics :
    /\ live # {} /\ sent < MaxMessages
    /\ Serve(Frame("message", t, 0, 0, "none", sent + 1))
    /\ sent' = sent + 1
    /\ UNCHANGED <<unanswered, live>>

---------------------------------------------------------------------------
Next ==
  \/ \E t \in Topics :
       CallJoin(t) \/ CallPush(t) \/ CallLeave(t) \/ CallFails(t)
  \/ CallHeartbeat
  \/ PostArrives \/ PostSucceeds \/ PostFails \/ DropFuture
  \/ TakeBuffered \/ NextEvent \/ BeginReceive \/ ResumeReceive
  \/ Poll \/ CloseSession \/ Reconnect
  \/ ServeReply \/ ServeTermination \/ ServeMessage

(* Both tasks are polled, and a request that is aborted, or has lasted the *)
(* request timeout, ends.                                                  *)
Fairness ==
  /\ WF_vars(PostSucceeds \/ PostFails \/ BeginReceive \/ ResumeReceive)
  /\ WF_vars(closed /\ Poll)

Spec == Init /\ [][Next]_vars
FairSpec == Spec /\ Fairness

---------------------------------------------------------------------------
(* Every variable has its type.                                            *)
ClientEvents ==
  [kind : {"Message", "ChannelClosed", "ChannelError", "Joined", "JoinError",
           "Left", "Reply", "HeartbeatAck", "StaleMessage", "UnmatchedReply"},
   ref : Nat, number : 0..MaxMessages]

TypeOK ==
  /\ proto \in ProtocolState
  /\ buffered \in Seq(ClientEvents)
  /\ stage \in {"idle", "posting", "posted", "receiving", "waiting"}
  /\ stage \in {"posting", "posted"} => call # NoCall
  /\ stage = "idle" => call = NoCall
  /\ call = NoCall \/ call.ref \in 1..MaxReference
  /\ reported \in {"none", "clean", "gone", "forbidden", "failed", "ended"}
  /\ poll \in {"fetching", "ended"} /\ open \in BOOLEAN /\ closed \in BOOLEAN
  /\ \A q \in unanswered : q.ref \in 1..MaxReference
  /\ live \subseteq 1..MaxReference
  /\ sent \in 0..MaxMessages /\ seen \in 0..MaxMessages
  /\ lost \subseteq 1..MaxMessages

(* Messages reach the application in the order they were sent, each once:  *)
(* those it has not seen are buffered, in the channel or with the server,  *)
(* in that order, whatever calls, dropped futures and polls there were.    *)
(* The gaps are the messages in frames that did not decode, which are not  *)
(* seen later either; and the last ones may go with the connection.        *)
MessagesInOrder ==
  LET unseen == buffered \o events \o outbox
  IN  /\ \A i, j \in DOMAIN unseen :
           i < j /\ unseen[j].number > 0 => unseen[i].number < unseen[j].number
      /\ \E last \in seen..sent :
           /\ Numbers(unseen) = ((seen + 1)..last) \ lost
           /\ poll = "fetching" => last = sent

(* A call that waits for its reply waits for something that can come: the  *)
(* server owes it, it is on its way, or the connection is ending.  (The    *)
(* exception is a push or a leave whose generation has ended: the server   *)
(* owes nothing then, and the call waits for the end of the connection.)   *)
(* Types hold as well.                                                     *)
OnTheWay == {f \in ToSet(events) : Message(f)} \cup ToSet(outbox)

WaitsAreOwed ==
  /\ TypeOK
  /\ stage = "waiting" /\ call # NoCall =>
       \/ call \in unanswered
       \/ \E f \in OnTheWay : f.event = "phx_reply" /\ f.ref = call.ref
       \/ poll = "ended"
       \/ call.kind \in {"Push", "Leave"} /\ call.join_ref \notin live

(* A close is reported as clean, which ends a managed client's attempts to *)
(* reconnect, only when the application closed the transport.  (Or when    *)
(* the server refused a GET: the flag hides the close that says so.)       *)
CleanMeansClosed ==
  reported = "clean" /\ open =>
    \E how \in {"gone", "forbidden"} : End(how) \in ToSet(events)

(* README.md:29 of the crate, "aborted when the transport closes": close   *)
(* ends the polling task, although the server may answer every GET.  And   *)
(* with request timeouts every call ends, but one that waits for a frame   *)
(* while the connection lives.                                             *)
CloseEndsWaiting ==
  <>[](/\ poll = "fetching" => open
       /\ stage \notin {"posting", "posted"}
       /\ stage = "waiting" => poll = "fetching")
=============================================================================
