------------------------------- MODULE LongPoll -------------------------------
(***************************************************************************)
(* LongPollTransport, the browser transport that fetches the frames of the *)
(* server by one GET after the other: a task of its own polls and feeds an *)
(* unbounded channel, which receive() drains.  Both run on the thread of   *)
(* the page, so one runs only while the other awaits something.            *)
(*                                                                         *)
(* A request may be answered, be lost, time out or be aborted; the token   *)
(* of the session, the addresses and the encoding are left out.            *)
(***************************************************************************)
EXTENDS Naturals, Sequences

VARIABLES
  outbox,  \* what the server has for this connection and no GET has fetched
  poll,    \* the polling task: "fetching", or it has "ended"
  events,  \* the channel it feeds, with how it found the connection ended
  open,    \* the receiver of the channel has not been closed
  closed   \* the flag it shares with the transport

longPollVars == <<outbox, poll, events, open, closed>>

End(how) == [event |-> "end", how |-> how, number |-> 0]

NewTransport ==
  /\ outbox' = <<>>
  /\ poll' = "fetching"
  /\ events' = <<>>
  /\ open' = TRUE
  /\ closed' = FALSE

InitTransport ==
  /\ outbox = <<>>
  /\ poll = "fetching"
  /\ events = <<>>
  /\ open = TRUE
  /\ closed = FALSE

(* unbounded_send fails once the receiver is closed.                       *)
Feed(items) == events' = IF open THEN events \o items ELSE events

---------------------------------------------------------------------------
(* The polling task, from the answer to one GET to the next.               *)

(* 200, or 204 when there was nothing to fetch.                            *)
PollAnswered ==
  /\ poll = "fetching"
  /\ Feed(outbox)
  /\ outbox' = <<>>
  /\ poll' = IF closed \/ (~open /\ outbox # <<>>) THEN "ended" ELSE "fetching"
  /\ UNCHANGED <<open, closed>>

(* 410 or 403: the server has no such session, or does not let it poll.    *)
PollRefused ==
  /\ poll = "fetching"
  /\ closed' = TRUE
  /\ \E how \in {"gone", "forbidden"} : Feed(<<End(how)>>)
  /\ outbox' = <<>>
  /\ poll' = "ended"
  /\ UNCHANGED open

(* Mutation: a failure closes the transport.                               *)
PollFailedClosing ==
  /\ poll = "fetching"
  /\ Feed(<<End("failed")>>)
  /\ outbox' = <<>>
  /\ poll' = "ended"
  /\ closed' = TRUE
  /\ UNCHANGED open

(* An abort, the request timeout, the network or any other status; what    *)
(* the server put into an answer that was lost is lost.                    *)
PollFailed ==
  /\ poll = "fetching"
  /\ Feed(<<End("failed")>>)
  /\ outbox' = <<>>
  /\ poll' = "ended"
  /\ UNCHANGED <<open, closed>>

PollStep == PollAnswered \/ PollRefused \/ PollFailed

---------------------------------------------------------------------------
(* receive() and close().                                                  *)

(* What receive() returns when it is first polled, or End("none") if it    *)
(* has to wait: the flag comes before what the channel holds.              *)
Available ==
  IF events # <<>> THEN Head(events)
  ELSE IF poll = "ended" THEN End("ended")
  ELSE End("none")

Received == IF closed THEN End("clean") ELSE Available

(* Mutation: the receiver is closed, and the task polls on.                *)
CloseReceiver ==
  /\ open' = FALSE
  /\ UNCHANGED <<outbox, poll, events, closed>>

(* close(): the requests under way are aborted.                            *)
Close ==
  /\ closed' = TRUE
  /\ open' = FALSE
  /\ UNCHANGED <<outbox, poll, events>>
=============================================================================
